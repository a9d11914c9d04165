--------------------------- MODULE Poller_proofs ---------------------------
(***************************************************************************)
(* What is proved about Poller: the types of a task, that the merged       *)
(* request is the union of what the profiles of the task ask for, that a   *)
(* chunk that raises takes nothing else with it, and that every number of  *)
(* a poll is reported for a profile that asked for it.  The requests come  *)
(* from a recursive function over the names, so the first part proves what *)
(* that function yields by the least counterexample.                       *)
(***************************************************************************)
EXTENDS Poller, WellFoundedInduction, TLAPS

-----------------------------------------------------------------------------
(* Keys and their parents.                                                 *)

IsKey(v) == v \in Seq(ToSet(v))

(* A key lies within another when it continues it (mapping_key): the       *)
(* parts of the parent are its first parts.                                *)
LEMMA WithinIs ==
    ASSUME NEW v, NEW w, IsKey(v), IsKey(w)
    PROVE  Within(v, w) <=> Len(w) <= Len(v) /\ \A j \in 1..Len(w) : v[j] = w[j]
<1> DEFINE A == ToSet(v)
           B == ToSet(w)
<1>1. v \in Seq(A) /\ w \in Seq(B)
  BY DEF IsKey
<1>2. CASE Len(w) <= Len(v)
  <2> HIDE DEF A, B
  <2>1. /\ Len(SubSeq(v, 1, Len(w))) = Len(w)
        /\ \A j \in 1..Len(w) : SubSeq(v, 1, Len(w))[j] = v[j]
        /\ Len(SubSeq(w, 1, Len(w))) = Len(w)
        /\ \A j \in 1..Len(w) : SubSeq(w, 1, Len(w))[j] = w[j]
        /\ SubSeq(v, 1, Len(w)) \in Seq(A)
        /\ SubSeq(w, 1, Len(w)) \in Seq(B)
    BY <1>1, <1>2
  <2>2. (\A j \in 1..Len(w) : v[j] = w[j]) => SubSeq(v, 1, Len(w)) = SubSeq(w, 1, Len(w))
    BY <2>1
  <2> QED
    BY <2>1, <2>2, <1>2 DEF Within, IsPrefix
<1>3. CASE ~(Len(w) <= Len(v))
  BY <1>3 DEF Within, IsPrefix
<1> QED
  BY <1>2, <1>3

(* insert_varbind and are_parents_in_map: the relation of keys and parents *)
(* is a partial order, and keys of one length are not related.             *)
LEMMA WithinOrder ==
    /\ \A v : IsKey(v) => Within(v, v)
    /\ \A u, v, w : IsKey(u) /\ IsKey(v) /\ IsKey(w) /\ Within(u, v) /\ Within(v, w)
                        => Within(u, w)
    /\ \A v, w : IsKey(v) /\ IsKey(w) /\ Within(v, w) /\ Len(v) <= Len(w) => v = w
<1>1. ASSUME NEW v, IsKey(v) PROVE Within(v, v)
  BY <1>1, WithinIs DEF IsKey
<1>2. ASSUME NEW u, NEW v, NEW w, IsKey(u), IsKey(v), IsKey(w), Within(u, v), Within(v, w)
      PROVE  Within(u, w)
  <2>1. Len(u) \in Nat /\ Len(v) \in Nat /\ Len(w) \in Nat
    BY <1>2 DEF IsKey
  <2> QED
    BY <1>2, <2>1, WithinIs
<1>3. ASSUME NEW v, NEW w, IsKey(v), IsKey(w), Within(v, w), Len(v) <= Len(w)
      PROVE  v = w
  <2>1. Len(v) \in Nat /\ Len(w) \in Nat
    BY <1>3 DEF IsKey
  <2>2. Len(v) = Len(w) /\ \A j \in 1..Len(w) : v[j] = w[j]
    BY <1>3, <2>1, WithinIs
  <2> DEFINE A == ToSet(v)
             B == ToSet(w)
  <2>3. v \in Seq(A) /\ w \in Seq(B)
    BY <1>3 DEF IsKey
  <2> HIDE DEF A, B
  <2> QED
    BY <2>2, <2>3
<1> QED
  BY <1>1, <1>2, <1>3

(* The entries of profiles are keys.                                       *)
LEMMA Keys ==
    /\ \A v \in Varbinds : IsKey(v) /\ Len(v) \in 1..3 /\ v # Everything
    /\ IsKey(Everything)
<1>1. IsKey(Everything)
  BY DEF IsKey, Everything
<1>2. \A v \in Varbinds : IsKey(v) /\ Len(v) \in 1..3
  BY VarbindsAssumption DEF IsKey
<1>3. Len(Everything) = 0
  BY DEF Everything
<1>4. 0 \notin 1..3
  OBVIOUS
<1> QED
  BY <1>1, <1>2, <1>3, <1>4, Zenon

(* Names of values are keys of complete entries; the instances are names.  *)
LEMMA CallsAreKeys ==
    /\ Instances \subseteq NamesOf(Instances)
    /\ \A i \in NamesOf(Instances) : IsKey(i) /\ Len(i) = 3 /\ i[1] \in Mibs
<1>1. \A i \in Instances : i \in ToSet(CallNames(i))
  <2> SUFFICES ASSUME NEW i \in Instances PROVE i \in ToSet(CallNames(i))
    OBVIOUS
  <2>1. Above[i] \in Seq(ToSet(Above[i]))
    BY PollerAssumption
  <2>2. CallNames(i)[1] = i /\ 1 \in DOMAIN CallNames(i)
    BY <2>1 DEF CallNames
  <2> QED
    BY <2>2 DEF ToSet
<1> QED
  BY <1>1, PollerAssumption DEF NamesOf, IsKey
-----------------------------------------------------------------------------
(* What the containers hold.                                               *)

Covered(vs, ws) == \A v \in vs : \E w \in ws : Within(v, w)
Antichain(vs) == \A v, w \in vs : Within(v, w) => v = w

(* Inserting entries by their length drops exactly those with a parent:    *)
(* nothing else comes in, everything stays covered, and no entry of the    *)
(* result lies in another.                                                 *)
LEMMA InsertedAllKeeps ==
    ASSUME NEW map \in SUBSET Varbinds, NEW vs \in SUBSET Varbinds,
           \A w \in map : Len(w) = 1
    PROVE  /\ map \subseteq InsertedAll(map, vs)
           /\ InsertedAll(map, vs) \subseteq map \cup vs
           /\ Covered(vs, InsertedAll(map, vs))
           /\ Antichain(InsertedAll(map, vs))
<1> DEFINE M1 == Inserted(map, vs, 1)
           M2 == Inserted(M1, vs, 2)
           M3 == Inserted(M2, vs, 3)
<1>1. InsertedAll(map, vs) = M3
  BY DEF InsertedAll
<1>2. map \subseteq M1 /\ M1 \subseteq M2 /\ M2 \subseteq M3 /\ M3 \subseteq map \cup vs
  BY DEF Inserted
<1>3. ASSUME NEW v \in vs PROVE \E w \in M3 : Within(v, w)
  <2>1. Within(v, v) /\ Len(v) \in 1..3
    BY Keys, WithinOrder
  <2>2. Len(v) = 1 => v \in M1 \/ HasParent(map, v)
    BY DEF Inserted
  <2>3. Len(v) = 2 => v \in M2 \/ HasParent(M1, v)
    BY DEF Inserted
  <2>4. Len(v) = 3 => v \in M3 \/ HasParent(M2, v)
    BY DEF Inserted
  <2> HIDE DEF M1, M2, M3
  <2> QED
    BY <1>2, <2>1, <2>2, <2>3, <2>4 DEF HasParent
<1>4. ASSUME NEW v \in M3, NEW w \in M3, Within(v, w) PROVE v = w
  <2>1. v \in Varbinds /\ w \in Varbinds
    BY <1>2
  <2>2. IsKey(v) /\ IsKey(w) /\ Len(v) \in 1..3 /\ Len(w) \in 1..3
    BY <2>1, Keys
  <2>3. CASE Len(v) <= Len(w)
    BY <2>2, <2>3, <1>4, WithinOrder
  <2>4. CASE Len(v) = 2 /\ Len(w) = 1
    <3>1. w \in M1 /\ v \notin M1 /\ v \in M2
      BY <2>4 DEF Inserted
    <3> QED
      BY <3>1, <1>4 DEF Inserted, HasParent
  <2>5. CASE Len(v) = 3 /\ Len(w) \in {1, 2}
    <3>1. w \in M2 /\ v \notin M2
      BY <2>5 DEF Inserted
    <3> HIDE DEF M2
    <3>2. ~HasParent(M2, v)
      BY <3>1 DEF Inserted
    <3> QED
      BY <3>1, <3>2, <1>4 DEF HasParent
  <2>6. \/ Len(v) <= Len(w)
        \/ Len(v) = 2 /\ Len(w) = 1
        \/ Len(v) = 3 /\ Len(w) \in {1, 2}
    <3> HIDE DEF M3
    <3> QED
      BY <2>2
  <2> QED
    BY <2>3, <2>4, <2>5, <2>6
<1> HIDE DEF M1, M2, M3
<1> QED
  BY <1>1, <1>2, <1>3, <1>4 DEF Covered, Antichain

(* Complete entries have no parents among complete entries: a container of *)
(* them keeps all.                                                         *)
LEMMA CompleteAreKept ==
    ASSUME NEW vs \in SUBSET Varbinds, \A v \in vs : Len(v) = 3
    PROVE  InsertedAll({}, vs) = vs
<1>1. InsertedAll({}, vs) \subseteq vs /\ Covered(vs, InsertedAll({}, vs))
  BY InsertedAllKeeps
<1>2. ASSUME NEW v \in vs PROVE v \in InsertedAll({}, vs)
  <2>1. PICK w \in InsertedAll({}, vs) : Within(v, w)
    BY <1>1 DEF Covered
  <2>2. w \in vs /\ Len(v) = 3 /\ Len(w) = 3 /\ IsKey(v) /\ IsKey(w)
    BY <1>1, Keys
  <2>3. v = w
    BY <2>1, <2>2, WithinOrder
  <2> QED
    BY <2>3
<1> QED
  BY <1>1, <1>2
-----------------------------------------------------------------------------
(* What a request is for.                                                  *)

(* AskedBy for any collection.                                             *)
AskedOf(c, n) ==
    IF ~Found(c, n) THEN {}
    ELSE c[n].varBinds \cup (IF c[n].walk THEN {System} ELSE {})
AskedOfAll(c, ns) == UNION {AskedOf(c, n) : n \in ns}

Mappings == UNION {[keys -> Seq(Names)] : keys \in SUBSET Varbinds}
Requests == [bulk : SUBSET Varbinds, get : SUBSET Varbinds,
             bulkMapping : Mappings, getMapping : Mappings]

(* Every name of a mapping is that of a profile that asks for the key.     *)
NamesAsk(mapping, c, ns) ==
    \A k \in DOMAIN mapping : \A n \in ToSet(mapping[k]) : n \in ns /\ k \in AskedOf(c, n)

(* The request r is what the profiles ns of the collection ask for.        *)
Serves(r, c, ns) ==
    /\ r \in Requests
    /\ r.bulk \cup r.get \subseteq AskedOfAll(c, ns)
    /\ Covered(AskedOfAll(c, ns), r.bulk \cup r.get)
    /\ Antichain(r.bulk)
    /\ \A v \in r.get : Len(v) = 3
    /\ NamesAsk(r.bulkMapping, c, ns)
    /\ NamesAsk(r.getMapping, c, ns)

(* Its mappings name a profile for everything that is asked for.           *)
NamesEvery(mapping) == \A k \in DOMAIN mapping : mapping[k] # <<>>
Attributes(r, c, ns) ==
    /\ NamesEvery(r.bulkMapping)
    /\ NamesEvery(r.getMapping)
    /\ DOMAIN r.getMapping = r.get
    /\ \A v \in AskedOfAll(c, ns) :
          v \in r.get \/ \E w \in DOMAIN r.bulkMapping : Within(v, w)

NoneWalks(c, ns) == \A n \in ns : Found(c, n) => ~c[n].walk

(* get_profile_mapping: the mapping of one profile has its name for each   *)
(* key of the container.                                                   *)
LEMMA MappingOfOne ==
    ASSUME NEW map \in SUBSET Varbinds, NEW n \in Names, NEW walk \in BOOLEAN
    PROVE  /\ MappingOf(map, n, walk) \in Mappings
           /\ NamesEvery(MappingOf(map, n, walk))
           /\ DOMAIN MappingOf(map, n, walk) \subseteq map
           /\ ~walk => DOMAIN MappingOf(map, n, walk) = map
           /\ \A k \in DOMAIN MappingOf(map, n, walk) :
                 ToSet(MappingOf(map, n, walk)[k]) = {n}
<1>1. <<n>> \in Seq(Names) /\ <<n>> # <<>> /\ ToSet(<<n>>) = {n}
  BY DEF ToSet
<1>2. CASE walk
  <2>1. NoMapping \in [{} -> Seq(Names)] /\ DOMAIN NoMapping = {} /\ {} \in SUBSET Varbinds
    BY DEF NoMapping
  <2>2. MappingOf(map, n, walk) = NoMapping
    BY <1>2 DEF MappingOf
  <2>3. NoMapping \in Mappings
    BY <2>1 DEF Mappings
  <2> HIDE DEF NoMapping
  <2> QED
    BY <1>2, <2>1, <2>2, <2>3 DEF NamesEvery
<1>3. CASE ~walk
  BY <1>1, <1>3 DEF MappingOf, Mappings, NamesEvery
<1> QED
  BY <1>2, <1>3

(* Profile.process: the request of one profile is what it asks for.        *)
LEMMA ProcessedServes ==
    ASSUME NEW c \in Collections, NEW n, Found(c, n)
    PROVE  /\ Serves(Processed(n, c[n]), c, {n})
           /\ ~c[n].walk => Attributes(Processed(n, c[n]), c, {n})
<1> DEFINE body == c[n]
           start == IF body.walk THEN {System} ELSE {}
           short == {v \in body.varBinds : Len(v) < 3}
           bulk == InsertedAll(start, short)
           full == {v \in body.varBinds : Len(v) = 3 /\ ~HasParent(bulk, v)}
           get == InsertedAll({}, full)
           p == Processed(n, body)
<1>1. n \in Names /\ body \in Bodies
  BY PollerAssumption DEF Found
<1>2. /\ body.varBinds \in SUBSET Varbinds
      /\ body.walk \in BOOLEAN
      /\ start \in SUBSET Varbinds
      /\ \A w \in start : Len(w) = 1
      /\ short \in SUBSET Varbinds
      /\ full \in SUBSET Varbinds
      /\ \A v \in full : Len(v) = 3
  BY <1>1, VarbindsAssumption DEF Bodies
<1>3. p = [bulk |-> bulk, get |-> get, bulkMapping |-> MappingOf(bulk, n, body.walk),
           getMapping |-> MappingOf(get, n, body.walk)]
  BY DEF Processed
<1>4. AskedOfAll(c, {n}) = body.varBinds \cup start
  BY DEF AskedOfAll, AskedOf
<1>4a. AskedOf(c, n) = body.varBinds \cup start
  BY DEF AskedOf
<1>5. /\ start \subseteq bulk /\ bulk \subseteq start \cup short
      /\ Covered(short, bulk) /\ Antichain(bulk)
  <2> HIDE DEF start, short
  <2> QED
    BY <1>2, InsertedAllKeeps
<1>6. get = full
  <2> HIDE DEF full
  <2> QED
    BY <1>2, CompleteAreKept
<1>7. bulk \in SUBSET Varbinds /\ get \in SUBSET Varbinds
  BY <1>2, <1>5, <1>6
<1>8. ASSUME NEW v \in body.varBinds \cup start
      PROVE  \/ v \in get
             \/ \E w \in bulk : Within(v, w)
  <2>1. v \in Varbinds /\ Len(v) \in 1..3 /\ Within(v, v)
    BY <1>2, Keys, WithinOrder
  <2>2. CASE v \in start
    BY <2>1, <2>2, <1>5
  <2>3. CASE v \in short
    BY <2>3, <1>5 DEF Covered
  <2>4. CASE v \notin start /\ v \notin short
    <3>1. v \in body.varBinds /\ Len(v) = 3
      <4>1. v \in body.varBinds /\ ~(Len(v) < 3)
        <5> HIDE DEF body, start, bulk, get, full, p
        <5> QED
          BY <2>4
      <4>2. \A k \in 1..3 : ~(k < 3) => k = 3
        OBVIOUS
      <4> HIDE DEF body, start, short, bulk, get, full, p
      <4> QED
        BY <2>1, <4>1, <4>2, Zenon
    <3>2. v \in full \/ HasParent(bulk, v)
      <4> HIDE DEF bulk
      <4> QED
        BY <3>1
    <3> HIDE DEF bulk, get, full
    <3> QED
      BY <3>2, <1>6 DEF HasParent
  <2> QED
    BY <2>2, <2>3, <2>4
<1>9. get \subseteq body.varBinds /\ bulk \subseteq body.varBinds \cup start
      /\ \A v \in get : Len(v) = 3
  BY <1>5, <1>6
<1> HIDE DEF bulk, get, body, start
<1>10. /\ p.bulk = bulk /\ p.get = get
       /\ p.bulkMapping = MappingOf(bulk, n, body.walk)
       /\ p.getMapping = MappingOf(get, n, body.walk)
  BY <1>3
<1>11. /\ p.bulkMapping \in Mappings /\ p.getMapping \in Mappings
       /\ NamesEvery(p.bulkMapping) /\ NamesEvery(p.getMapping)
       /\ DOMAIN p.bulkMapping \subseteq bulk /\ DOMAIN p.getMapping \subseteq get
       /\ \A k \in DOMAIN p.bulkMapping : ToSet(p.bulkMapping[k]) = {n}
       /\ \A k \in DOMAIN p.getMapping : ToSet(p.getMapping[k]) = {n}
       /\ ~body.walk => DOMAIN p.bulkMapping = bulk /\ DOMAIN p.getMapping = get
  <2> HIDE DEF p
  <2>1. /\ MappingOf(bulk, n, body.walk) \in Mappings
        /\ NamesEvery(MappingOf(bulk, n, body.walk))
        /\ DOMAIN MappingOf(bulk, n, body.walk) \subseteq bulk
        /\ ~body.walk => DOMAIN MappingOf(bulk, n, body.walk) = bulk
        /\ \A k \in DOMAIN MappingOf(bulk, n, body.walk) :
              ToSet(MappingOf(bulk, n, body.walk)[k]) = {n}
    BY <1>1, <1>2, <1>7, MappingOfOne
  <2>2. /\ MappingOf(get, n, body.walk) \in Mappings
        /\ NamesEvery(MappingOf(get, n, body.walk))
        /\ DOMAIN MappingOf(get, n, body.walk) \subseteq get
        /\ ~body.walk => DOMAIN MappingOf(get, n, body.walk) = get
        /\ \A k \in DOMAIN MappingOf(get, n, body.walk) :
              ToSet(MappingOf(get, n, body.walk)[k]) = {n}
    BY <1>1, <1>2, <1>7, MappingOfOne
  <2> QED
    BY <2>1, <2>2, <1>10, Zenon
<1>12. p \in Requests
  <2> HIDE DEF p
  <2> QED
    BY <1>3, <1>7, <1>10, <1>11 DEF Requests
<1> HIDE DEF p
<1>13. Covered(AskedOfAll(c, {n}), p.bulk \cup p.get)
  <2> SUFFICES ASSUME NEW v \in AskedOfAll(c, {n})
               PROVE  \E w \in p.bulk \cup p.get : Within(v, w)
    BY DEF Covered
  <2>1. v \in Varbinds /\ Within(v, v)
    BY <1>2, <1>4, Keys, WithinOrder
  <2> QED
    BY <1>4, <1>8, <1>10, <2>1
<1>14. NamesAsk(p.bulkMapping, c, {n}) /\ NamesAsk(p.getMapping, c, {n})
  BY <1>4a, <1>9, <1>11 DEF NamesAsk
<1>15. Serves(p, c, {n})
  BY <1>4, <1>5, <1>9, <1>10, <1>12, <1>13, <1>14 DEF Serves
<1>16. ~body.walk => Attributes(p, c, {n})
  BY <1>4, <1>8, <1>10, <1>11 DEF Attributes
<1> QED
  BY <1>15, <1>16 DEF p, body
(* Two lists of names joined are a list of names of either.                *)
LEMMA JoinedIs ==
    ASSUME NEW ns \in Seq(Names), NEW incoming \in Seq(Names)
    PROVE  /\ Joined(ns, incoming) \in Seq(Names)
           /\ ToSet(Joined(ns, incoming)) \subseteq ToSet(ns) \cup ToSet(incoming)
           /\ ns # <<>> \/ incoming # <<>> => Joined(ns, incoming) # <<>>
<1>1. /\ ns \o incoming \in Seq(Names)
      /\ Len(ns \o incoming) = Len(ns) + Len(incoming)
      /\ DOMAIN (ns \o incoming) = 1..(Len(ns) + Len(incoming))
      /\ \A j \in 1..(Len(ns) + Len(incoming)) :
            (ns \o incoming)[j] = IF j <= Len(ns) THEN ns[j] ELSE incoming[j - Len(ns)]
      /\ DOMAIN ns = 1..Len(ns) /\ DOMAIN incoming = 1..Len(incoming)
      /\ Len(ns) \in Nat /\ Len(incoming) \in Nat
  OBVIOUS
<1>2. ToSet(ns \o incoming) \subseteq ToSet(ns) \cup ToSet(incoming)
  <2> SUFFICES ASSUME NEW j \in 1..(Len(ns) + Len(incoming))
               PROVE  (ns \o incoming)[j] \in ToSet(ns) \cup ToSet(incoming)
    BY <1>1 DEF ToSet
  <2>1. CASE j <= Len(ns)
    BY <1>1, <2>1 DEF ToSet
  <2>2. CASE ~(j <= Len(ns))
    <3>1. j - Len(ns) \in 1..Len(incoming)
      BY <1>1, <2>2
    <3> QED
      BY <1>1, <2>2, <3>1 DEF ToSet
  <2> QED
    BY <2>1, <2>2
<1>3. ns # <<>> => Len(ns) # 0
  OBVIOUS
<1>4. incoming # <<>> => Len(incoming) # 0
  OBVIOUS
<1>5. ns # <<>> \/ incoming # <<>> => ns \o incoming # <<>>
  BY <1>1, <1>3, <1>4
<1>6. ASSUME incoming # <<>>, ToSet(incoming) \subseteq ToSet(ns) PROVE ns # <<>>
  <2>1. incoming[1] \in ToSet(incoming)
    BY <1>1, <1>4, <1>6 DEF ToSet
  <2>2. ToSet(<<>>) = {}
    BY DEF ToSet
  <2> QED
    BY <2>1, <2>2, <1>6
<1> QED
  BY <1>1, <1>2, <1>5, <1>6 DEF Joined

(* add_mappings keeps the keys of both mappings, brings in no name, and    *)
(* loses none of a key that had one.                                       *)
LEMMA AddedMappingsIs ==
    ASSUME NEW base \in Mappings, NEW incoming \in Mappings
    PROVE  /\ AddedMappings(base, incoming) \in Mappings
           /\ DOMAIN AddedMappings(base, incoming) = DOMAIN base \cup DOMAIN incoming
           /\ \A k \in DOMAIN AddedMappings(base, incoming) :
                 ToSet(AddedMappings(base, incoming)[k])
                    \subseteq ToSet(NamesAt(base, k)) \cup ToSet(NamesAt(incoming, k))
           /\ NamesEvery(base) /\ NamesEvery(incoming)
                 => NamesEvery(AddedMappings(base, incoming))
<1> DEFINE K == DOMAIN base \cup DOMAIN incoming
           sum == AddedMappings(base, incoming)
<1>1. /\ K \in SUBSET Varbinds
      /\ \A k \in DOMAIN base : base[k] \in Seq(Names)
      /\ \A k \in DOMAIN incoming : incoming[k] \in Seq(Names)
  BY DEF Mappings
<1>2. ASSUME NEW k PROVE NamesAt(base, k) \in Seq(Names) /\ NamesAt(incoming, k) \in Seq(Names)
  BY <1>1 DEF NamesAt
<1>3. sum = [k \in K |-> Joined(NamesAt(base, k), NamesAt(incoming, k))]
  BY DEF AddedMappings
<1>4. ASSUME NEW k \in K
      PROVE  /\ sum[k] \in Seq(Names)
             /\ ToSet(sum[k]) \subseteq ToSet(NamesAt(base, k)) \cup ToSet(NamesAt(incoming, k))
             /\ NamesAt(base, k) # <<>> \/ NamesAt(incoming, k) # <<>> => sum[k] # <<>>
  <2>1. sum[k] = Joined(NamesAt(base, k), NamesAt(incoming, k))
    BY <1>3
  <2> QED
    BY <1>2, <2>1, JoinedIs
<1>5. sum \in [K -> Seq(Names)] /\ DOMAIN sum = K
  <2> HIDE DEF K
  <2> QED
    BY <1>2, <1>3, JoinedIs
<1>6. sum \in Mappings
  <2> HIDE DEF sum, K
  <2> QED
    BY <1>1, <1>5 DEF Mappings
<1>7. ASSUME NamesEvery(base), NamesEvery(incoming) PROVE NamesEvery(sum)
  <2> SUFFICES ASSUME NEW k \in K PROVE sum[k] # <<>>
    BY <1>5 DEF NamesEvery
  <2>1. NamesAt(base, k) # <<>> \/ NamesAt(incoming, k) # <<>>
    BY <1>7 DEF NamesEvery, NamesAt
  <2> QED
    BY <1>4, <2>1
<1> HIDE DEF sum
<1> QED
  BY <1>4, <1>5, <1>6, <1>7 DEF sum

LEMMA AddedNamesAsk ==
    ASSUME NEW base \in Mappings, NEW incoming \in Mappings, NEW c, NEW A, NEW B,
           NamesAsk(base, c, A), NamesAsk(incoming, c, B)
    PROVE  NamesAsk(AddedMappings(base, incoming), c, A \cup B)
<1> DEFINE sum == AddedMappings(base, incoming)
<1> SUFFICES ASSUME NEW k \in DOMAIN sum, NEW n \in ToSet(sum[k])
             PROVE  n \in A \cup B /\ k \in AskedOf(c, n)
  BY DEF NamesAsk
<1>1. n \in ToSet(NamesAt(base, k)) \/ n \in ToSet(NamesAt(incoming, k))
  <2> HIDE DEF NamesAt
  <2>1. ToSet(sum[k]) \subseteq ToSet(NamesAt(base, k)) \cup ToSet(NamesAt(incoming, k))
    BY AddedMappingsIs
  <2> QED
    BY <2>1
<1>2. ToSet(<<>>) = {}
  BY DEF ToSet
<1> QED
  BY <1>1, <1>2 DEF NamesAsk, NamesAt

(* Only entries of varBinds are asked for.                                 *)
LEMMA AskedAreEntries ==
    ASSUME NEW c \in Collections, NEW ns
    PROVE  AskedOfAll(c, ns) \subseteq Varbinds
BY PollerAssumption, VarbindsAssumption DEF AskedOfAll, AskedOf, Found, Bodies

(* Profile.__add__: the sum of two requests is what the profiles of both   *)
(* ask for.                                                                *)
LEMMA AddedServes ==
    ASSUME NEW c \in Collections, NEW A, NEW B, NEW p, NEW q, Serves(p, c, A), Serves(q, c, B)
    PROVE  /\ Serves(AddedProfiles(p, q), c, A \cup B)
           /\ Attributes(p, c, A) /\ Attributes(q, c, B)
                 => Attributes(AddedProfiles(p, q), c, A \cup B)
<1> DEFINE r == AddedProfiles(p, q)
           both == AskedOfAll(c, A \cup B)
<1>1. /\ p.bulk \cup q.bulk \in SUBSET Varbinds /\ p.get \cup q.get \in SUBSET Varbinds
      /\ p.bulkMapping \in Mappings /\ q.bulkMapping \in Mappings
      /\ p.getMapping \in Mappings /\ q.getMapping \in Mappings
      /\ \A v \in p.get \cup q.get : Len(v) = 3
  BY DEF Serves, Requests
<1>2. both = AskedOfAll(c, A) \cup AskedOfAll(c, B)
  BY DEF AskedOfAll
<1>3. /\ r.bulk = InsertedAll({}, p.bulk \cup q.bulk)
      /\ r.get = InsertedAll({}, p.get \cup q.get)
      /\ r.bulkMapping = AddedMappings(p.bulkMapping, q.bulkMapping)
      /\ r.getMapping = AddedMappings(p.getMapping, q.getMapping)
  BY DEF AddedProfiles
<1>4. /\ r.bulk \subseteq p.bulk \cup q.bulk
      /\ Covered(p.bulk \cup q.bulk, r.bulk) /\ Antichain(r.bulk)
  <2>1. {} \in SUBSET Varbinds /\ \A w \in {} : Len(w) = 1
    OBVIOUS
  <2> QED
    BY <1>1, <1>3, <2>1, InsertedAllKeeps
<1>5. r.get = p.get \cup q.get
  BY <1>1, <1>3, CompleteAreKept
<1>6. /\ r.bulkMapping \in Mappings /\ r.getMapping \in Mappings
      /\ DOMAIN r.bulkMapping = DOMAIN p.bulkMapping \cup DOMAIN q.bulkMapping
      /\ DOMAIN r.getMapping = DOMAIN p.getMapping \cup DOMAIN q.getMapping
  <2>1. /\ AddedMappings(p.bulkMapping, q.bulkMapping) \in Mappings
        /\ DOMAIN AddedMappings(p.bulkMapping, q.bulkMapping)
              = DOMAIN p.bulkMapping \cup DOMAIN q.bulkMapping
    BY <1>1, AddedMappingsIs
  <2>2. /\ AddedMappings(p.getMapping, q.getMapping) \in Mappings
        /\ DOMAIN AddedMappings(p.getMapping, q.getMapping)
              = DOMAIN p.getMapping \cup DOMAIN q.getMapping
    BY <1>1, AddedMappingsIs
  <2> HIDE DEF r
  <2> QED
    BY <1>3, <2>1, <2>2
<1>7. r \in Requests
  <2>1. r = [bulk |-> r.bulk, get |-> r.get, bulkMapping |-> r.bulkMapping,
             getMapping |-> r.getMapping]
    BY DEF AddedProfiles
  <2>2. r.bulk \in SUBSET Varbinds /\ r.get \in SUBSET Varbinds
    BY <1>1, <1>4, <1>5
  <2> HIDE DEF r
  <2> QED
    BY <1>6, <2>1, <2>2 DEF Requests
<1> HIDE DEF r, both
<1>8. r.bulk \cup r.get \subseteq both
  BY <1>2, <1>4, <1>5 DEF Serves
<1>9. ASSUME NEW v \in Varbinds, NEW w \in p.bulk \cup q.bulk, Within(v, w)
      PROVE  \E u \in r.bulk : Within(v, u)
  <2>1. PICK u \in r.bulk : Within(w, u)
    BY <1>4 DEF Covered
  <2>2. IsKey(u) /\ IsKey(v) /\ IsKey(w)
    BY <1>1, <1>4, <2>1, Keys
  <2> QED
    BY <1>9, <2>1, <2>2, WithinOrder
<1>10. Covered(both, r.bulk \cup r.get)
  <2> SUFFICES ASSUME NEW v \in both PROVE \E u \in r.bulk \cup r.get : Within(v, u)
    BY DEF Covered
  <2>1. PICK w \in (p.bulk \cup q.bulk) \cup (p.get \cup q.get) : Within(v, w)
    BY <1>2 DEF Serves, Covered
  <2>2. v \in Varbinds
    BY <1>2, AskedAreEntries
  <2>3. CASE w \in p.bulk \cup q.bulk
    BY <1>9, <2>1, <2>2, <2>3
  <2>4. CASE w \in p.get \cup q.get
    BY <1>5, <2>1, <2>4
  <2> QED
    BY <2>1, <2>3, <2>4
<1>11. /\ NamesAsk(r.bulkMapping, c, A \cup B)
       /\ NamesAsk(r.getMapping, c, A \cup B)
  BY <1>1, <1>3, AddedNamesAsk DEF Serves
<1>12. Serves(r, c, A \cup B)
  BY <1>1, <1>4, <1>5, <1>7, <1>8, <1>10, <1>11 DEF Serves, both
<1>13. ASSUME Attributes(p, c, A), Attributes(q, c, B)
       PROVE  Attributes(r, c, A \cup B)
  <2>1. NamesEvery(r.bulkMapping) /\ NamesEvery(r.getMapping)
    <3>1. /\ NamesEvery(p.bulkMapping) /\ NamesEvery(q.bulkMapping)
          /\ NamesEvery(p.getMapping) /\ NamesEvery(q.getMapping)
      BY <1>13 DEF Attributes
    <3>2. /\ NamesEvery(AddedMappings(p.bulkMapping, q.bulkMapping))
          /\ NamesEvery(AddedMappings(p.getMapping, q.getMapping))
      BY <1>1, <3>1, AddedMappingsIs
    <3> QED
      BY <1>3, <3>2
  <2>2. DOMAIN r.getMapping = r.get
    BY <1>5, <1>6, <1>13 DEF Attributes
  <2>3. ASSUME NEW v \in both
        PROVE  v \in r.get \/ \E w \in DOMAIN r.bulkMapping : Within(v, w)
    BY <1>2, <1>5, <1>6, <1>13 DEF Attributes
  <2> QED
    BY <2>1, <2>2, <2>3 DEF Attributes, both
<1> QED
  BY <1>12, <1>13 DEF r
(* get_profile: a profile that is not found asks for nothing.              *)
LEMMA NothingServes ==
    ASSUME NEW c, NEW ns, AskedOfAll(c, ns) = {}
    PROVE  Serves(NoRequest, c, ns) /\ Attributes(NoRequest, c, ns)
<1>1. NoMapping \in [{} -> Seq(Names)] /\ DOMAIN NoMapping = {} /\ {} \in SUBSET Varbinds
  BY DEF NoMapping
<1>2. NoMapping \in Mappings
  BY <1>1 DEF Mappings
<1>3. NoRequest \in Requests
  BY <1>2 DEF NoRequest, Requests
<1>4. /\ NoRequest.bulk = {} /\ NoRequest.get = {}
      /\ NoRequest.bulkMapping = NoMapping /\ NoRequest.getMapping = NoMapping
  BY DEF NoRequest
<1> QED
  BY <1>1, <1>3, <1>4
     DEF Serves, Attributes, Covered, Antichain, NamesAsk, NamesEvery

LEMMA GetProfileServes ==
    ASSUME NEW c \in Collections, NEW n
    PROVE  /\ Serves(GetProfile(c, n), c, {n})
           /\ NoneWalks(c, {n}) => Attributes(GetProfile(c, n), c, {n})
<1>1. CASE Found(c, n)
  BY <1>1, ProcessedServes DEF GetProfile, NoneWalks
<1>2. CASE ~Found(c, n)
  <2>1. AskedOfAll(c, {n}) = {}
    BY <1>2 DEF AskedOfAll, AskedOf
  <2> QED
    BY <1>2, <2>1, NothingServes DEF GetProfile
<1> QED
  BY <1>1, <1>2

(* A request for nothing changes nothing of what another one is for.       *)
LEMMA NothingAdds ==
    ASSUME NEW c, NEW A, NEW B, NEW q, Serves(NoRequest, c, A), Serves(q, c, B)
    PROVE  /\ Serves(q, c, A \cup B)
           /\ Attributes(q, c, B) => Attributes(q, c, A \cup B)
<1>1. AskedOfAll(c, A) = {}
  BY DEF Serves, Covered, NoRequest
<1>2. AskedOfAll(c, A \cup B) = AskedOfAll(c, B)
  BY <1>1 DEF AskedOfAll
<1>3. NamesAsk(q.bulkMapping, c, A \cup B) /\ NamesAsk(q.getMapping, c, A \cup B)
  BY DEF Serves, NamesAsk
<1> QED
  BY <1>2, <1>3 DEF Serves, Attributes

(* combine_profiles.                                                       *)
LEMMA CombinedServes ==
    ASSUME NEW c \in Collections, NEW A, NEW B, NEW p, NEW q,
           Serves(p, c, A), Serves(q, c, B)
    PROVE  /\ Serves(CombineProfiles(p, q), c, A \cup B)
           /\ Attributes(p, c, A) /\ Attributes(q, c, B)
                 => Attributes(CombineProfiles(p, q), c, A \cup B)
<1>1. CASE p = NoRequest
  <2>1. CombineProfiles(p, q) = q
    BY <1>1 DEF CombineProfiles
  <2> QED
    BY <1>1, <2>1, NothingAdds
<1>2. CASE q = NoRequest
  <2>1. CombineProfiles(p, q) = p
    BY <1>2 DEF CombineProfiles
  <2>2. A \cup B = B \cup A
    OBVIOUS
  <2>3. Serves(p, c, B \cup A) /\ (Attributes(p, c, A) => Attributes(p, c, B \cup A))
    BY <1>2, NothingAdds
  <2> QED
    BY <2>1, <2>2, <2>3
<1>3. CASE p # NoRequest /\ q # NoRequest
  BY <1>3, AddedServes DEF CombineProfiles
<1> QED
  BY <1>1, <1>2, <1>3
-----------------------------------------------------------------------------
(* reduce over the profiles of a task.                                     *)

LEMMA LeastNumber ==
    ASSUME NEW S \in SUBSET Nat, S # {}
    PROVE  \E x \in S : \A y \in S : x <= y
<1>1. PICK x \in S : \A y \in S : ~ (<<y, x>> \in OpToRel(<, Nat))
  BY NatLessThanWellFounded, WFMin
<1>2. \A y \in S : ~ (y < x)
  BY <1>1 DEF OpToRel
<1> QED
  BY <1>2

(* What profile j adds to the sum f of those before it.                    *)
StepOf(c, names, f, j) ==
    IF j = 1 THEN GetProfile(c, names[1])
    ELSE CombineProfiles(f[j - 1], GetProfile(c, names[j]))

(* The recursion of PollingInfo has a solution.                            *)
LEMMA SumsExist ==
    ASSUME NEW c, NEW names, NEW m \in Nat
    PROVE  \E f : f = [j \in 1..m |-> StepOf(c, names, f, j)]
<1> DEFINE S == {k \in Nat : ~\E f : f = [j \in 1..k |-> StepOf(c, names, f, j)]}
<1> SUFFICES ASSUME S # {} PROVE FALSE
  OBVIOUS
<1>1. PICK x \in S : \A y \in S : x <= y
  <2>1. S \in SUBSET Nat
    OBVIOUS
  <2> HIDE DEF S
  <2> QED
    BY <2>1, LeastNumber
<1>2. x \in Nat
  OBVIOUS
<1>3. CASE x = 0
  <2> DEFINE h == [j \in {} |-> NoRequest]
  <2>1. 1..0 = {}
    OBVIOUS
  <2>2. h = [j \in 1..0 |-> StepOf(c, names, h, j)]
    BY <2>1
  <2> HIDE DEF h
  <2> QED
    BY <1>3, <2>2
<1>4. CASE x # 0
  <2>1. x - 1 \in Nat /\ x - 1 \notin S
    BY <1>1, <1>2, <1>4
  <2>2. PICK g : g = [j \in 1..(x - 1) |-> StepOf(c, names, g, j)]
    BY <2>1
  <2> DEFINE h == [j \in 1..x |-> IF j < x THEN g[j] ELSE StepOf(c, names, g, x)]
  <2>3. ASSUME NEW j \in 1..x PROVE h[j] = StepOf(c, names, h, j)
    <3>1. j - 1 \in 1..(x - 1) \/ j = 1
      BY <1>2
    <3>2. j # 1 => h[j - 1] = g[j - 1]
      BY <1>2, <3>1
    <3>3. StepOf(c, names, h, j) = StepOf(c, names, g, j)
      <4> HIDE DEF h
      <4> QED
        BY <3>2 DEF StepOf
    <3>4. CASE j < x
      <4>1. j \in 1..(x - 1)
        BY <1>2, <3>4
      <4>2. g[j] = StepOf(c, names, g, j)
        BY <2>2, <4>1
      <4> QED
        BY <3>3, <3>4, <4>2
    <3>5. CASE ~(j < x)
      <4>1. j = x
        BY <1>2, <3>5
      <4> QED
        BY <3>3, <3>5, <4>1
    <3> QED
      BY <3>4, <3>5
  <2>4. h = [j \in 1..x |-> h[j]]
    OBVIOUS
  <2> HIDE DEF h
  <2>5. h = [j \in 1..x |-> StepOf(c, names, h, j)]
    BY <2>3, <2>4
  <2> QED
    BY <2>5
<1> QED
  BY <1>3, <1>4

(* get_polling_info_from_profiles: the request of a task is what its       *)
(* profiles ask for, the one of a walk what its first profile asks for.    *)
LEMMA PollingInfoServes ==
    ASSUME NEW c \in Collections, NEW names \in Seq(Names), names # <<>>
    PROVE  /\ Serves(PollingInfo(c, names, TRUE), c, {names[1]})
           /\ Serves(PollingInfo(c, names, FALSE), c, ToSet(names))
           /\ NoneWalks(c, ToSet(names))
                 => Attributes(PollingInfo(c, names, FALSE), c, ToSet(names))
<1> DEFINE reduced[j \in 1..Len(names)] ==
            IF j = 1 THEN GetProfile(c, names[1])
            ELSE CombineProfiles(reduced[j - 1], GetProfile(c, names[j]))
           first(k) == {names[l] : l \in 1..k}
           Good(k) == /\ Serves(reduced[k], c, first(k))
                      /\ NoneWalks(c, first(k)) => Attributes(reduced[k], c, first(k))
<1>1. Len(names) \in Nat \ {0} /\ DOMAIN names = 1..Len(names)
  OBVIOUS
<1>2. /\ PollingInfo(c, names, TRUE) = reduced[1]
      /\ PollingInfo(c, names, FALSE) = reduced[Len(names)]
  BY DEF PollingInfo
<1>3. reduced = [j \in 1..Len(names) |-> StepOf(c, names, reduced, j)]
  <2>1. \E f : f = [j \in 1..Len(names) |->
                      IF j = 1 THEN GetProfile(c, names[1])
                      ELSE CombineProfiles(f[j - 1], GetProfile(c, names[j]))]
    <3> HIDE DEF reduced
    <3>1. PICK f : f = [j \in 1..Len(names) |-> StepOf(c, names, f, j)]
      BY <1>1, SumsExist
    <3>2. f = [j \in 1..Len(names) |->
                  IF j = 1 THEN GetProfile(c, names[1])
                  ELSE CombineProfiles(f[j - 1], GetProfile(c, names[j]))]
      BY <3>1 DEF StepOf
    <3> QED
      BY <3>2
  <2>2. reduced = [j \in 1..Len(names) |->
                      IF j = 1 THEN GetProfile(c, names[1])
                      ELSE CombineProfiles(reduced[j - 1], GetProfile(c, names[j]))]
    BY <2>1
  <2> HIDE DEF reduced
  <2> QED
    BY <2>2 DEF StepOf
<1> HIDE DEF reduced
<1>4. \A j \in 1..Len(names) : reduced[j] = StepOf(c, names, reduced, j)
  BY <1>3
<1>5. Good(1)
  <2>1. first(1) = {names[1]}
    OBVIOUS
  <2>2. reduced[1] = GetProfile(c, names[1])
    BY <1>1, <1>4 DEF StepOf
  <2> QED
    BY <2>1, <2>2, GetProfileServes
<1>6. ASSUME NEW j \in 1..Len(names), j # 1, Good(j - 1) PROVE Good(j)
  <2>1. reduced[j] = CombineProfiles(reduced[j - 1], GetProfile(c, names[j]))
    BY <1>4, <1>6 DEF StepOf
  <2>2. first(j) = first(j - 1) \cup {names[j]}
    <3>1. 1..j = (1..(j - 1)) \cup {j}
      BY <1>1
    <3> QED
      BY <3>1
  <2>3. /\ Serves(GetProfile(c, names[j]), c, {names[j]})
        /\ NoneWalks(c, {names[j]})
              => Attributes(GetProfile(c, names[j]), c, {names[j]})
    BY GetProfileServes
  <2>4. NoneWalks(c, first(j)) => NoneWalks(c, first(j - 1)) /\ NoneWalks(c, {names[j]})
    <3> HIDE DEF first
    <3> QED
      BY <2>2 DEF NoneWalks
  <2> HIDE DEF first
  <2> QED
    BY <1>6, <2>1, <2>2, <2>3, <2>4, CombinedServes
<1>7. ASSUME NEW k \in 1..Len(names) PROVE Good(k)
  <2> DEFINE S == {j \in 1..Len(names) : ~Good(j)}
  <2> SUFFICES ASSUME S # {} PROVE FALSE
    OBVIOUS
  <2> HIDE DEF Good
  <2>1. PICK x \in S : \A y \in S : x <= y
    <3>1. S \in SUBSET Nat
      BY <1>1
    <3> HIDE DEF S
    <3> QED
      BY <3>1, LeastNumber
  <2>2. x # 1
    BY <1>5, <2>1
  <2>3. x - 1 \in 1..Len(names) /\ ~(x <= x - 1)
    BY <1>1, <2>1, <2>2
  <2>4. Good(x - 1)
    BY <2>1, <2>3
  <2> QED
    BY <1>6, <2>1, <2>2, <2>4
<1>8. first(1) = {names[1]} /\ first(Len(names)) = ToSet(names)
  BY <1>1 DEF ToSet
<1>9. Good(1) /\ Good(Len(names))
  <2> HIDE DEF Good
  <2> QED
    BY <1>1, <1>7
<1> QED
  <2> HIDE DEF first
  <2> QED
    BY <1>2, <1>8, <1>9
-----------------------------------------------------------------------------
(* The profiles of a value.                                                *)

LEMMA LongestExists ==
    ASSUME NEW ks \in SUBSET Varbinds, ks # {}
    PROVE  \E k \in ks : \A l \in ks : Len(l) <= Len(k)
<1>1. \A k \in ks : Len(k) \in 1..3
  BY Keys
<1>2. /\ \A m, n \in 1..3 : n = 3 => m <= n
      /\ \A m, n \in 1..3 : m # 3 /\ n = 2 => m <= n
      /\ \A m, n \in 1..3 : m # 3 /\ m # 2 /\ n # 3 /\ n # 2 => m <= n
  OBVIOUS
<1>3. CASE \E k \in ks : Len(k) = 3
  BY <1>1, <1>2, <1>3, Zenon
<1>4. CASE (\A k \in ks : Len(k) # 3) /\ \E k \in ks : Len(k) = 2
  BY <1>1, <1>2, <1>4, Zenon
<1>5. CASE \A k \in ks : Len(k) # 3 /\ Len(k) # 2
  <2>1. PICK k \in ks : TRUE
    OBVIOUS
  <2> QED
    BY <1>1, <1>2, <1>5, <2>1, Zenon
<1> QED
  BY <1>3, <1>4, <1>5

(* set_profile_name: the names are those of one key, which contains the    *)
(* name of the MIB module of the value, and of a key of the value if there *)
(* is one.                                                                 *)
LEMMA MatchedIs ==
    ASSUME NEW mapping \in Mappings, NEW i \in NamesOf(Instances)
    PROVE  /\ \/ MatchedNames(mapping, i) = <<>>
              \/ \E k \in DOMAIN mapping :
                    k \in Mentions[i[1]] /\ MatchedNames(mapping, i) = mapping[k]
           /\ (\E k \in DOMAIN mapping : Within(i, k)) =>
                  \E k \in DOMAIN mapping :
                     Within(i, k) /\ MatchedNames(mapping, i) = mapping[k]
<1> DEFINE exact == {k \in DOMAIN mapping : Within(i, k)}
           ofMib == DOMAIN mapping \cap Mentions[i[1]]
           longest == CHOOSE k \in exact : \A l \in exact : Len(l) <= Len(k)
<1>1. DOMAIN mapping \subseteq Varbinds
  BY DEF Mappings
<1>2. MatchedNames(mapping, i) =
         IF exact # {} THEN mapping[longest]
         ELSE IF ofMib # {} THEN mapping[CHOOSE k \in ofMib : TRUE]
         ELSE <<>>
  BY DEF MatchedNames
<1>3. ASSUME exact # {} PROVE longest \in exact
  <2>1. exact \in SUBSET Varbinds
    BY <1>1
  <2>2. \E k \in exact : \A l \in exact : Len(l) <= Len(k)
    <3> HIDE DEF exact
    <3> QED
      BY <1>3, <2>1, LongestExists
  <2> QED
    BY <2>2
<1>4. \A k \in exact : k \in Mentions[i[1]]
  <2> SUFFICES ASSUME NEW k \in exact PROVE k \in Mentions[i[1]]
    OBVIOUS
  <2>1. IsKey(k) /\ IsKey(i) /\ Len(k) \in 1..3
    BY <1>1, Keys, CallsAreKeys
  <2>2. 1 \in 1..Len(k)
    <3>1. \A n \in 1..3 : 1 \in 1..n
      OBVIOUS
    <3> QED
      BY <2>1, <3>1, Zenon
  <2>3. k[1] = i[1]
    BY <2>1, <2>2, WithinIs
  <2>4. k \in Mentions[k[1]]
    BY <1>1, PollerAssumption
  <2> QED
    BY <2>3, <2>4
<1>5. ofMib # {} => (CHOOSE k \in ofMib : TRUE) \in ofMib
  OBVIOUS
<1> HIDE DEF longest
<1>6. CASE exact # {}
  BY <1>2, <1>3, <1>4, <1>6
<1>7. CASE exact = {}
  BY <1>2, <1>5, <1>7
<1> QED
  BY <1>6, <1>7

(* clean_profile_name keeps the first name.                                *)
LEMMA CleanNamesIs ==
    ASSUME NEW ns \in Seq(Names)
    PROVE  /\ CleanNames(ns) \subseteq ToSet(ns)
           /\ ToSet(ns) \subseteq Names
           /\ ns # <<>> => ns[1] \in CleanNames(ns)
<1>1. DOMAIN ns = 1..Len(ns) /\ (ns # <<>> => 1 \in 1..Len(ns))
      /\ \A j \in 1..Len(ns) : ns[j] \in Names
  OBVIOUS
<1>2. \A l \in 1..(1 - 1) : ns[l] \notin Conditional
  OBVIOUS
<1> QED
  BY <1>1, <1>2 DEF CleanNames, ToSet

(* handle_metrics: a profile is named for a number when the key that was   *)
(* found has the name.                                                     *)
LEMMA AttributedFrom ==
    ASSUME NEW mapping \in Mappings, NEW seen \in SUBSET NamesOf(Instances),
           NEW pair \in Attributed(mapping, seen)
    PROVE  \E i \in seen, n \in Names, k \in DOMAIN mapping :
              /\ pair = <<Group(i), n>>
              /\ n \in ToSet(mapping[k]) /\ k \in Mentions[i[1]]
<1>1. \A k \in DOMAIN mapping : mapping[k] \in Seq(Names)
  BY DEF Mappings
<1>2. PICK i \in seen \cap Numeric : \E n \in CleanNames(MatchedNames(mapping, i)) :
          pair = <<Group(i), n>>
  BY DEF Attributed
<1>3. PICK n \in CleanNames(MatchedNames(mapping, i)) : pair = <<Group(i), n>>
  BY <1>2
<1>4. MatchedNames(mapping, i) # <<>>
  <2>1. CleanNames(<<>>) = {}
    BY DEF CleanNames
  <2> QED
    BY <1>3, <2>1
<1>5. PICK k \in DOMAIN mapping : k \in Mentions[i[1]] /\ MatchedNames(mapping, i) = mapping[k]
  BY <1>4, MatchedIs
<1>6. n \in ToSet(mapping[k]) /\ n \in Names
  BY <1>1, <1>3, <1>5, CleanNamesIs
<1> QED
  BY <1>3, <1>5, <1>6

LEMMA AttributedTypes ==
    ASSUME NEW mapping \in Mappings, NEW seen \in SUBSET NamesOf(Instances)
    PROVE  Attributed(mapping, seen) \subseteq {Group(i) : i \in NamesOf(Instances)} \X Names
BY AttributedFrom

(* Every profile named asks for something with the name of the MIB module  *)
(* in its key; and when there is a key for a number, one is named that     *)
(* asks for the number.                                                    *)
LEMMA AttributedIs ==
    ASSUME NEW mapping \in Mappings, NEW c, NEW ns, NamesAsk(mapping, c, ns),
           NEW seen \in SUBSET NamesOf(Instances)
    PROVE  /\ \A pair \in Attributed(mapping, seen) :
                 \E v \in AskedOf(c, pair[2]) : v \in Mentions[pair[1][1]]
           /\ NamesEvery(mapping) =>
                 \A i \in seen \cap Numeric : (\E k \in DOMAIN mapping : Within(i, k)) =>
                    \E n \in ns : /\ <<Group(i), n>> \in Attributed(mapping, seen)
                                  /\ \E v \in AskedOf(c, n) : Within(i, v)
<1>1. \A k \in DOMAIN mapping : mapping[k] \in Seq(Names)
  BY DEF Mappings
<1>2. ASSUME NEW pair \in Attributed(mapping, seen)
      PROVE  \E v \in AskedOf(c, pair[2]) : v \in Mentions[pair[1][1]]
  <2>1. PICK i \in seen, n \in Names, k \in DOMAIN mapping :
              /\ pair = <<Group(i), n>>
              /\ n \in ToSet(mapping[k]) /\ k \in Mentions[i[1]]
    BY AttributedFrom
  <2>2. k \in AskedOf(c, n)
    BY <2>1 DEF NamesAsk
  <2>3. pair[1][1] = i[1] /\ pair[2] = n
    BY <2>1 DEF Group
  <2> QED
    BY <2>1, <2>2, <2>3
<1>3. ASSUME NamesEvery(mapping), NEW i \in seen \cap Numeric,
             \E k \in DOMAIN mapping : Within(i, k)
      PROVE  \E n \in ns : /\ <<Group(i), n>> \in Attributed(mapping, seen)
                           /\ \E v \in AskedOf(c, n) : Within(i, v)
  <2>1. PICK k \in DOMAIN mapping : Within(i, k) /\ MatchedNames(mapping, i) = mapping[k]
    BY <1>3, MatchedIs
  <2>2. mapping[k] # <<>>
    BY <1>3 DEF NamesEvery
  <2> DEFINE n == mapping[k][1]
  <2>3. n \in CleanNames(mapping[k]) /\ n \in ToSet(mapping[k])
    BY <1>1, <2>2, CleanNamesIs
  <2>4. n \in ns /\ k \in AskedOf(c, n)
    BY <2>3 DEF NamesAsk
  <2>5. <<Group(i), n>> \in Attributed(mapping, seen)
    BY <2>1, <2>3 DEF Attributed
  <2> QED
    BY <2>1, <2>4, <2>5
<1> QED
  BY <1>2, <1>3
-----------------------------------------------------------------------------
(* The types of a task, and what its request is for.                       *)

Entries == Varbinds \cup {Everything}
Groups == {Group(i) : i \in NamesOf(Instances)}

AnyRequests == [bulk : SUBSET Entries, get : SUBSET Varbinds,
                bulkMapping : Mappings, getMapping : Mappings]

Tasks == [pc : TaskPcs, isWalk : BOOLEAN, names : Seq(Names),
          collection : Collections \cup {<<>>}, request : AnyRequests,
          bulk : SUBSET Entries, get : SUBSET Varbinds, chunk : SUBSET Entries,
          due : SUBSET Instances, values : SUBSET NamesOf(Instances),
          profiles : SUBSET (Groups \X Names), failed : SUBSET Varbinds,
          translated : BOOLEAN]

(* Request r of a task with these arguments.                               *)
IsRequestOf(r, walk, names, c) ==
    /\ ~walk => names # <<>>
    /\ names # <<>> =>
          /\ c \in Collections
          /\ Serves(r, c, ToSet(names))
          /\ ~walk /\ NoneWalks(c, ToSet(names)) => Attributes(r, c, ToSet(names))

Busy == task.pc \in {"bulk", "walking", "done"}

TaskInv ==
    /\ MibTypeOK
    /\ task \in Tasks
    /\ task.bulk \subseteq task.request.bulk /\ task.get \subseteq task.request.get
    /\ task.chunk \subseteq task.request.bulk
    /\ task.failed \subseteq task.request.get
    /\ faults \in 0..MaxFaults /\ changes \in 0..MaxChanges
    /\ Busy => IsRequestOf(task.request, task.isWalk, task.names, task.collection)

LEMMA OneName ==
    ASSUME NEW ns \in Seq(Names), ns # <<>>, Len(ns) <= 1
    PROVE  ToSet(ns) = {ns[1]}
<1>1. Len(ns) \in Nat /\ DOMAIN ns = 1..Len(ns)
  OBVIOUS
<1>2. Len(ns) # 0
  OBVIOUS
<1>3. \A n \in Nat : n # 0 /\ n <= 1 => n = 1
  OBVIOUS
<1>4. Len(ns) = 1
  BY <1>1, <1>2, <1>3, Zenon
<1>5. 1..1 = {1}
  OBVIOUS
<1> QED
  BY <1>1, <1>4, <1>5, Zenon DEF ToSet

(* get_varbinds: a walk of everything, or what the profiles ask for.       *)
LEMMA RequestOfIs ==
    ASSUME NEW walk \in BOOLEAN, NEW c \in Collections, NEW names \in Seq(Names),
           walk => Len(names) <= 1, ~walk => names # <<>>
    PROVE  /\ RequestOf(walk, names, c) \in AnyRequests
           /\ IsRequestOf(RequestOf(walk, names, c), walk, names, c)
<1>1. Requests \subseteq AnyRequests
  BY DEF Requests, AnyRequests, Entries
<1>2. CASE names = <<>>
  <2>1. RequestOf(walk, names, c) = [NoRequest EXCEPT !.bulk = {Everything}]
    BY <1>2 DEF RequestOf
  <2>2. AskedOfAll(c, {}) = {}
    BY DEF AskedOfAll
  <2>3. NoRequest \in AnyRequests
    BY <1>1, <2>2, NothingServes DEF Serves
  <2> HIDE DEF NoRequest
  <2>4. [NoRequest EXCEPT !.bulk = {Everything}] \in AnyRequests
    BY <2>3 DEF AnyRequests, Entries
  <2> QED
    BY <1>2, <2>1, <2>4 DEF IsRequestOf
<1>3. CASE names # <<>>
  <2>1. RequestOf(walk, names, c) = PollingInfo(c, names, walk)
    BY <1>3 DEF RequestOf
  <2>2. CASE walk
    <3>1. ToSet(names) = {names[1]}
      BY <1>3, <2>2, OneName
    <3> QED
      BY <1>1, <1>3, <2>1, <2>2, <3>1, PollingInfoServes DEF IsRequestOf, Serves
  <2>3. CASE ~walk
    BY <1>1, <1>3, <2>1, <2>3, PollingInfoServes DEF IsRequestOf, Serves
  <2> QED
    BY <2>2, <2>3
<1> QED
  BY <1>2, <1>3

LEMMA BelowAreInstances ==
    ASSUME NEW vs \in SUBSET Entries
    PROVE  AllBelow(vs) \subseteq Instances
BY PollerAssumption DEF AllBelow, Below, Entries

(* The modules of the worker stay modules.                                 *)
LEMMA LoadKeepsMibs ==
    ASSUME MibTypeOK, NEW mibs, LoadMibs(mibs)
    PROVE  MibTypeOK' /\ builder \subseteq builder'
BY MibsAssumption DEF MibTypeOK, LoadMibs, Loadable

LEMMA NamesKeepMibs ==
    ASSUME MibTypeOK, NEW chunk \in SUBSET Entries, LoadNames(chunk)
    PROVE  MibTypeOK' /\ builder \subseteq builder'
BY PollerAssumption DEF MibTypeOK, LoadNames, MissingOf, Entries

LEMMA FreshTasks ==
    \A t \in {IdleTask, DownTask} :
       /\ t \in Tasks /\ t.pc \in {"idle", "down"}
       /\ t.bulk = {} /\ t.get = {} /\ t.chunk = {} /\ t.failed = {}
<1>1. NoRequest \in AnyRequests
  <2>1. Requests \subseteq AnyRequests
    BY DEF Requests, AnyRequests, Entries
  <2>2. AskedOfAll(<<>>, {}) = {}
    BY DEF AskedOfAll
  <2> QED
    BY <2>1, <2>2, NothingServes DEF Serves
<1>2. /\ IdleTask \in Tasks /\ IdleTask.pc = "idle" /\ IdleTask.bulk = {}
      /\ IdleTask.get = {} /\ IdleTask.chunk = {} /\ IdleTask.failed = {}
  <2>1. <<>> \in Seq(Names)
    OBVIOUS
  <2> HIDE DEF NoRequest
  <2> QED
    BY <1>1, <2>1 DEF IdleTask, Tasks, TaskPcs
<1> HIDE DEF IdleTask
<1>3. /\ DownTask \in Tasks /\ DownTask.pc = "down" /\ DownTask.bulk = {}
      /\ DownTask.get = {} /\ DownTask.chunk = {} /\ DownTask.failed = {}
  BY <1>2 DEF DownTask, Tasks, TaskPcs
<1> HIDE DEF DownTask
<1> QED
  BY <1>2, <1>3

LEMMA InitTask == Init => TaskInv
<1> SUFFICES ASSUME Init PROVE TaskInv
  OBVIOUS
<1>1. MibTypeOK
  BY DEF Init, MibInit, MibTypeOK
<1> HIDE DEF MibTypeOK
<1> QED
  BY <1>1, FreshTasks, PollerAssumption DEF Init, TaskInv, Busy

(* Ending or dropping a task leaves none.                                  *)
LEMMA FreshKeepsTask ==
    ASSUME TaskInv, MibTypeOK', task' \in {IdleTask, DownTask},
           faults' \in 0..MaxFaults, changes' \in 0..MaxChanges
    PROVE  TaskInv'
BY FreshTasks DEF TaskInv, Busy

(* A row that is found among some modules has one of its names, its own if *)
(* its own module is among them.                                           *)
LEMMA NameInIs ==
    ASSUME NEW i \in Instances, NEW mibs
    PROVE  /\ Resolved(i, mibs) => NameIn(i, mibs) \in ToSet(CallNames(i))
           /\ i[1] \in mibs => Resolved(i, mibs) /\ NameIn(i, mibs) = i
<1> DEFINE names == CallNames(i)
           known == {j \in DOMAIN names : names[j][1] \in mibs}
           Nearest(j) == names[j][1] \in mibs /\ \A k \in 1..(j - 1) : names[k][1] \notin mibs
<1>1. /\ DOMAIN names = 1..Len(names) /\ Len(names) \in Nat
      /\ 1 \in DOMAIN names /\ names[1] = i
  <2>1. Above[i] \in Seq(ToSet(Above[i]))
    BY PollerAssumption
  <2> QED
    BY <2>1 DEF CallNames
<1> HIDE DEF names
<1>2. NameIn(i, mibs) = names[CHOOSE j \in DOMAIN names : Nearest(j)]
  BY DEF NameIn, names
<1>3. ASSUME known # {} PROVE \E j \in DOMAIN names : Nearest(j)
  <2>1. known \in SUBSET Nat
    BY <1>1
  <2>2. PICK j \in known : \A k \in known : j <= k
    <3> HIDE DEF known
    <3> QED
      BY <1>3, <2>1, LeastNumber
  <2>3. \A k \in 1..(j - 1) : k \in DOMAIN names /\ ~(j <= k)
    BY <1>1, <2>2
  <2>4. Nearest(j)
    BY <2>2, <2>3
  <2> QED
    BY <2>2, <2>4
<1>4. Resolved(i, mibs) => known # {}
  BY DEF Resolved, ToSet, names
<1>5. Resolved(i, mibs) => NameIn(i, mibs) \in ToSet(CallNames(i))
  <2> SUFFICES ASSUME Resolved(i, mibs) PROVE NameIn(i, mibs) \in ToSet(CallNames(i))
    OBVIOUS
  <2>1. (CHOOSE j \in DOMAIN names : Nearest(j)) \in DOMAIN names
    <3> HIDE DEF Nearest, known
    <3> QED
      BY <1>3, <1>4
  <2> QED
    BY <1>2, <2>1 DEF ToSet, names
<1>6. ASSUME i[1] \in mibs PROVE Resolved(i, mibs) /\ NameIn(i, mibs) = i
  <2>1. i \in ToSet(CallNames(i))
    BY <1>1 DEF ToSet, names
  <2>2. \A j \in DOMAIN names : Nearest(j) <=> j = 1
    <3> SUFFICES ASSUME NEW j \in DOMAIN names PROVE Nearest(j) <=> j = 1
      OBVIOUS
    <3>1. CASE j = 1
      BY <1>1, <1>6, <3>1
    <3>2. CASE j # 1
      <4>1. 1 \in 1..(j - 1)
        BY <1>1, <3>2
      <4> QED
        BY <1>1, <1>6, <3>2, <4>1
    <3> QED
      BY <3>1, <3>2
  <2>3. (CHOOSE j \in DOMAIN names : Nearest(j)) = 1
    <3> HIDE DEF Nearest
    <3> QED
      BY <1>1, <2>2
  <2> QED
    BY <1>1, <1>2, <1>6, <2>1, <2>3 DEF Resolved
<1> QED
  BY <1>5, <1>6

(* process_snmp_data sees rows of the table only, by one of their names;   *)
(* what it collects changes the result of the task and nothing else.       *)
LEMMA OutcomesIs ==
    ASSUME NEW rows \in SUBSET Instances, NEW loaded, NEW table \in Outcomes(rows, loaded)
    PROVE  /\ table.seen \subseteq NamesOf(rows)
           /\ NamesOf(rows) \subseteq NamesOf(Instances)
           /\ table.wanted \subseteq Mibs
<1> DEFINE resolved == {i \in rows : Resolved(i, loaded)}
           known == {i \in rows \ resolved : Resolved(i, mibMap)}
           seen(part) == {NameIn(i, loaded) : i \in part}
<1>1. \/ table = [seen |-> seen(resolved), wanted |-> {}]
      \/ \E part \in SUBSET resolved, i \in known :
            table = [seen |-> seen(part), wanted |-> {NameIn(i, mibMap)[1]}]
  BY DEF Outcomes
<1>2. \A part \in SUBSET resolved : seen(part) \subseteq NamesOf(rows)
  BY NameInIs DEF NamesOf
<1>3. \A i \in known : NameIn(i, mibMap)[1] \in Mibs
  BY NameInIs, PollerAssumption DEF NamesOf
<1>4. NamesOf(rows) \subseteq NamesOf(Instances)
  BY DEF NamesOf
<1> HIDE DEF resolved, known, seen
<1> QED
  BY <1>1, <1>2, <1>3, <1>4

SameTask(t, u) ==
    /\ u.pc = t.pc /\ u.isWalk = t.isWalk /\ u.names = t.names
    /\ u.collection = t.collection /\ u.request = t.request /\ u.bulk = t.bulk
    /\ u.get = t.get /\ u.chunk = t.chunk /\ u.failed = t.failed
    /\ u.translated = t.translated

LEMMA CollectedIs ==
    ASSUME NEW t \in Tasks, NEW mapping \in Mappings, NEW seen \in SUBSET NamesOf(Instances)
    PROVE  /\ Collected(t, mapping, seen) \in Tasks
           /\ SameTask(t, Collected(t, mapping, seen))
           /\ Collected(t, mapping, seen).due = t.due
           /\ Collected(t, mapping, seen).values = t.values \cup seen
           /\ Collected(t, mapping, seen).profiles = t.profiles \cup Attributed(mapping, seen)
<1> DEFINE u == [t EXCEPT !.values = t.values \cup seen,
                          !.profiles = t.profiles \cup Attributed(mapping, seen)]
<1>1. Collected(t, mapping, seen) = u
  BY DEF Collected, Tasks
<1>2. Attributed(mapping, seen) \in SUBSET (Groups \X Names)
  BY AttributedTypes DEF Groups
<1>3. u \in Tasks /\ SameTask(t, u) /\ u.due = t.due /\ u.values = t.values \cup seen
      /\ u.profiles = t.profiles \cup Attributed(mapping, seen)
  BY <1>2 DEF Tasks, SameTask
<1> QED
  BY <1>1, <1>3

LEMMA AllAreSeen ==
    ASSUME NEW rows \in SUBSET Instances, NEW loaded, NEW table \in Outcomes(rows, loaded),
           \A i \in rows : i[1] \in loaded
    PROVE  table.seen = rows
<1>1. \A i \in rows : Resolved(i, loaded) /\ NameIn(i, loaded) = i
  BY NameInIs
<1>2. {i \in rows : Resolved(i, loaded)} = rows /\ {NameIn(i, loaded) : i \in rows} = rows
  BY <1>1
<1>3. Outcomes(rows, loaded) = {[seen |-> rows, wanted |-> {}]}
  <2> DEFINE resolved == {i \in rows : Resolved(i, loaded)}
             known == {i \in rows \ resolved : Resolved(i, mibMap)}
             seen(part) == {NameIn(i, loaded) : i \in part}
  <2>1. Outcomes(rows, loaded) =
           IF known = {} THEN {[seen |-> seen(resolved), wanted |-> {}]}
           ELSE {[seen |-> seen(part), wanted |-> {NameIn(i, mibMap)[1]}] :
                    part \in SUBSET resolved, i \in known}
    BY DEF Outcomes
  <2>2. resolved = rows /\ known = {} /\ seen(resolved) = rows
    BY <1>2
  <2> HIDE DEF resolved, known, seen
  <2> QED
    BY <2>1, <2>2
<1> QED
  BY <1>3

(* A response adds what is seen of its table, all when every name of it    *)
(* can be translated.                                                      *)
LEMMA ResponseIs ==
    ASSUME TaskInv, Response
    PROVE  /\ MibTypeOK' /\ builder \subseteq builder'
           /\ task' \in Tasks /\ SameTask(task, task')
           /\ \E rows \in SUBSET task.due : \E seen \in SUBSET NamesOf(rows) :
                 /\ task'.due = task.due \ rows
                 /\ task'.values = task.values \cup seen
                 /\ task'.profiles = task.profiles
                                        \cup Attributed(task.request.bulkMapping, seen)
                 /\ (\A i \in rows : i[1] \in builder) => seen = rows
<1>0. MibTypeOK /\ task \in Tasks
  BY DEF TaskInv
<1>1. PICK rows \in SUBSET task.due : \E table \in Outcomes(rows, builder) :
        /\ LoadMibs(table.wanted)
        /\ task' = [Collected(task, task.request.bulkMapping, table.seen)
                       EXCEPT !.due = task.due \ rows]
  <2>1. PICK rows \in SUBSET task.due \ {{}} : \E table \in Outcomes(rows, builder) :
          /\ LoadMibs(table.wanted)
          /\ task' = [Collected(task, task.request.bulkMapping, table.seen)
                         EXCEPT !.due = @ \ rows]
    BY DEF Response
  <2>2. PICK table \in Outcomes(rows, builder) :
          /\ LoadMibs(table.wanted)
          /\ task' = [Collected(task, task.request.bulkMapping, table.seen)
                         EXCEPT !.due = @ \ rows]
    BY <2>1
  <2>3. table.seen \in SUBSET NamesOf(Instances) /\ task.request.bulkMapping \in Mappings
    <3>1. rows \in SUBSET Instances
      BY <1>0 DEF Tasks
    <3> QED
      BY <1>0, <2>2, <3>1, OutcomesIs DEF Tasks, AnyRequests
  <2>4. Collected(task, task.request.bulkMapping, table.seen).due = task.due
    BY <1>0, <2>3, CollectedIs
  <2> QED
    BY <2>2, <2>4
<1>2. PICK table \in Outcomes(rows, builder) :
        /\ LoadMibs(table.wanted)
        /\ task' = [Collected(task, task.request.bulkMapping, table.seen)
                       EXCEPT !.due = task.due \ rows]
  BY <1>1
<1>3. /\ table.seen \in SUBSET NamesOf(rows) /\ table.seen \in SUBSET NamesOf(Instances)
      /\ rows \in SUBSET Instances /\ task.request.bulkMapping \in Mappings
  <2>1. rows \in SUBSET Instances
    BY <1>0 DEF Tasks
  <2> QED
    BY <1>0, <1>2, <2>1, OutcomesIs DEF Tasks, AnyRequests
<1> DEFINE t == Collected(task, task.request.bulkMapping, table.seen)
<1>4. /\ task' = [t EXCEPT !.due = task.due \ rows]
      /\ t \in Tasks /\ SameTask(task, t)
      /\ t.values = task.values \cup table.seen
      /\ t.profiles = task.profiles \cup Attributed(task.request.bulkMapping, table.seen)
      /\ task.due \ rows \in SUBSET Instances
  BY <1>0, <1>2, <1>3, CollectedIs DEF Tasks
<1> HIDE DEF t
<1>5. /\ task' \in Tasks /\ SameTask(task, task') /\ task'.due = task.due \ rows
      /\ task'.values = t.values /\ task'.profiles = t.profiles
  BY <1>4 DEF Tasks, SameTask
<1>6. MibTypeOK' /\ builder \subseteq builder'
  BY <1>0, <1>2, LoadKeepsMibs
<1> QED
  BY <1>3, <1>4, <1>5, <1>6, AllAreSeen

(* A chunk of the get part adds the values of its entries, all when every  *)
(* name of them can be translated; the modules of the entries are loaded.  *)
LEMMA GetChunkIs ==
    ASSUME TaskInv, GetChunk
    PROVE  /\ MibTypeOK' /\ builder \subseteq builder' /\ task' \in Tasks
           /\ \E chunk \in SUBSET task.get : \E seen \in SUBSET NamesOf(AllBelow(chunk)) :
                 /\ task'.request = task.request /\ task'.isWalk = task.isWalk
                 /\ task'.names = task.names /\ task'.collection = task.collection
                 /\ task'.bulk = task.bulk /\ task'.chunk = task.chunk
                 /\ task'.pc = task.pc /\ task'.due = task.due
                 /\ task'.failed = task.failed /\ task'.translated = task.translated
                 /\ task'.get = task.get \ chunk
                 /\ task'.values = task.values \cup seen
                 /\ task'.profiles = task.profiles
                                        \cup Attributed(task.request.getMapping, seen)
                 /\ \A v \in chunk : v[1] \in builder'
                 /\ (\A i \in AllBelow(chunk) : i[1] \in builder') => seen = AllBelow(chunk)
<1>0. MibTypeOK /\ task \in Tasks
  BY DEF TaskInv
<1>1. PICK chunk \in SUBSET task.get : \E table \in Outcomes(AllBelow(chunk), builder') :
        /\ LoadNames(chunk)
        /\ task' = [Collected(task, task.request.getMapping, table.seen)
                       EXCEPT !.get = @ \ chunk]
  BY DEF GetChunk, ChunksOf
<1>2. PICK table \in Outcomes(AllBelow(chunk), builder') :
        /\ LoadNames(chunk)
        /\ task' = [Collected(task, task.request.getMapping, table.seen)
                       EXCEPT !.get = @ \ chunk]
  BY <1>1
<1>3. chunk \in SUBSET Varbinds /\ chunk \in SUBSET Entries
  BY <1>0 DEF Tasks, Entries
<1>4. /\ table.seen \in SUBSET NamesOf(AllBelow(chunk))
      /\ table.seen \in SUBSET NamesOf(Instances)
      /\ AllBelow(chunk) \in SUBSET Instances
      /\ task.request.getMapping \in Mappings
  <2>1. AllBelow(chunk) \in SUBSET Instances
    BY <1>3, BelowAreInstances
  <2> QED
    BY <1>0, <1>2, <2>1, OutcomesIs DEF Tasks, AnyRequests
<1> DEFINE t == Collected(task, task.request.getMapping, table.seen)
<1>5. /\ t \in Tasks /\ SameTask(task, t) /\ t.due = task.due
      /\ t.values = task.values \cup table.seen
      /\ t.profiles = task.profiles \cup Attributed(task.request.getMapping, table.seen)
  BY <1>0, <1>4, CollectedIs
<1>6. task' = [t EXCEPT !.get = t.get \ chunk]
  BY <1>2
<1> HIDE DEF t
<1>7. /\ t.get = task.get /\ t.get \ chunk \in SUBSET Varbinds
  BY <1>0, <1>5 DEF Tasks, SameTask
<1>8. /\ task' \in Tasks /\ task'.due = t.due
      /\ task'.values = t.values /\ task'.profiles = t.profiles
      /\ task'.get = task.get \ chunk
      /\ task'.request = task.request /\ task'.isWalk = task.isWalk
      /\ task'.names = task.names /\ task'.collection = task.collection
      /\ task'.bulk = task.bulk /\ task'.chunk = task.chunk
      /\ task'.pc = task.pc /\ task'.failed = task.failed
      /\ task'.translated = task.translated
  BY <1>5, <1>6, <1>7 DEF Tasks, SameTask
<1>9. MibTypeOK' /\ builder \subseteq builder'
  BY <1>0, <1>2, <1>3, NamesKeepMibs
<1>10. \A v \in chunk : v[1] \in builder'
  <2>1. \A v \in chunk : v # Everything
    BY <1>3, Keys
  <2> QED
    BY <1>2, <2>1 DEF LoadNames, MissingOf
<1> QED
  BY <1>2, <1>4, <1>5, <1>8, <1>9, <1>10, AllAreSeen

(* The steps that begin no task.                                           *)
LEMMA StepKeepsTask ==
    ASSUME TaskInv, StartUp \/ ServerChanges \/ ProcessEnds \/ TaskStep
    PROVE  TaskInv'
<1> DEFINE KeepsRequest == /\ task'.request = task.request /\ task'.isWalk = task.isWalk
                           /\ task'.names = task.names
                           /\ task'.collection = task.collection
<1>0. /\ MibTypeOK /\ task \in Tasks
      /\ faults \in Nat /\ changes \in Nat /\ MaxFaults \in Nat /\ MaxChanges \in Nat
  BY PollerAssumption DEF TaskInv
<1>1. CASE StartUp
  <2>1. MibTypeOK'
    BY <1>0, <1>1, MibsAssumption DEF StartUp, StartWorker, StoredResponse, MibTypeOK
  <2> QED
    BY <1>1, <2>1, FreshKeepsTask DEF StartUp, TaskInv
<1>2. CASE ServerChanges
  <2>1. MibTypeOK'
    BY <1>0, <1>2 DEF ServerChanges, MibTypeOK
  <2>2. changes' \in 0..MaxChanges
    BY <1>0, <1>2 DEF ServerChanges, TaskInv
  <2> QED
    BY <1>2, <2>1, <2>2 DEF ServerChanges, TaskInv, Busy
<1>3. CASE ProcessEnds
  <2>1. MibTypeOK'
    BY <1>0, <1>3 DEF ProcessEnds, StopWorker, MibTypeOK
  <2>2. faults' \in 0..MaxFaults
    BY <1>0, <1>3 DEF ProcessEnds, TaskInv
  <2> QED
    BY <1>3, <2>1, <2>2, FreshKeepsTask DEF ProcessEnds, TaskInv
<1>4. CASE BulkNamesRaise \/ TaskFails \/ NextTask
  <2>1. MibTypeOK' /\ UNCHANGED changes /\ task' = IdleTask
    BY <1>0, <1>4 DEF BulkNamesRaise, TaskFails, NextTask, mibVars, MibTypeOK
  <2>2. faults' \in 0..MaxFaults
    BY <1>0, <1>4 DEF BulkNamesRaise, TaskFails, NextTask, TaskInv
  <2> QED
    BY <2>1, <2>2, FreshKeepsTask DEF TaskInv
<1>5. CASE BeginChunk
  <2>1. PICK chunk \in SUBSET task.bulk :
          /\ LoadNames(chunk)
          /\ task' = [task EXCEPT !.pc = "walking", !.bulk = task.bulk \ chunk,
                                  !.chunk = chunk, !.due = AllBelow(chunk)]
    BY <1>5 DEF BeginChunk, ChunksOf
  <2>2. chunk \in SUBSET Entries
    BY <1>0, <2>1 DEF Tasks
  <2>3. AllBelow(chunk) \in SUBSET Instances
    BY <2>2, BelowAreInstances
  <2>4. task' \in Tasks
    BY <1>0, <2>1, <2>2, <2>3 DEF Tasks, TaskPcs
  <2>5. KeepsRequest /\ task'.failed = task.failed /\ task'.get = task.get
        /\ task'.bulk = task.bulk \ chunk /\ task'.chunk = chunk
    BY <1>0, <2>1 DEF Tasks
  <2> QED
    BY <1>0, <1>5, <2>1, <2>2, <2>4, <2>5, NamesKeepMibs DEF BeginChunk, TaskInv, Busy, At
<1>6. CASE Response
  <2>1. task' \in Tasks /\ SameTask(task, task') /\ MibTypeOK'
    BY <1>6, ResponseIs
  <2> QED
    BY <1>6, <2>1 DEF Response, SameTask, TaskInv, Busy
<1>7. CASE EndChunk
  <2>1. task' \in Tasks
    BY <1>0, <1>7 DEF EndChunk, Tasks, TaskPcs
  <2>2. KeepsRequest /\ task'.failed = task.failed /\ task'.get = task.get
        /\ task'.bulk = task.bulk /\ task'.chunk = {}
    BY <1>0, <1>7 DEF EndChunk, Tasks
  <2> QED
    BY <1>0, <1>7, <2>1, <2>2 DEF EndChunk, TaskInv, Busy, At, mibVars, MibTypeOK
<1>8. CASE GetChunk
  <2>1. PICK chunk \in SUBSET task.get :
          /\ task' \in Tasks /\ MibTypeOK' /\ KeepsRequest /\ task'.failed = task.failed
          /\ task'.get = task.get \ chunk /\ task'.bulk = task.bulk
          /\ task'.chunk = task.chunk /\ task'.pc = task.pc
    BY <1>8, GetChunkIs
  <2> QED
    BY <1>8, <2>1 DEF GetChunk, TaskInv, Busy
<1>9. CASE GetChunkRaises
  <2>1. PICK chunk \in SUBSET task.get :
          task' = [task EXCEPT !.get = task.get \ chunk, !.failed = task.failed \cup chunk]
    BY <1>0, <1>9 DEF GetChunkRaises, ChunksOf, Tasks
  <2>2. task' \in Tasks /\ KeepsRequest /\ task'.failed = task.failed \cup chunk
        /\ task'.get = task.get \ chunk /\ task'.bulk = task.bulk
        /\ task'.chunk = task.chunk /\ task'.pc = task.pc
    BY <1>0, <2>1 DEF Tasks
  <2>3. faults' \in 0..MaxFaults
    BY <1>0, <1>9 DEF GetChunkRaises, TaskInv
  <2>4. MibTypeOK'
    BY <1>0, <1>9 DEF GetChunkRaises, mibVars, MibTypeOK
  <2> QED
    BY <1>9, <2>2, <2>3, <2>4 DEF GetChunkRaises, TaskInv, Busy
<1>10. CASE ReturnResult
  <2>1. task' \in Tasks
    BY <1>0, <1>10 DEF ReturnResult, Tasks, TaskPcs
  <2>2. KeepsRequest /\ task'.failed = task.failed /\ task'.get = task.get
        /\ task'.bulk = task.bulk /\ task'.chunk = task.chunk
    BY <1>0, <1>10 DEF ReturnResult, Tasks
  <2> QED
    BY <1>0, <1>10, <2>1, <2>2 DEF ReturnResult, TaskInv, Busy, At, mibVars, MibTypeOK
<1> QED
  BY <1>1, <1>2, <1>3, <1>4, <1>5, <1>6, <1>7, <1>8, <1>9, <1>10 DEF TaskStep
(* A task begins with the request of its profiles and an empty result.     *)
LEMMA BeginIs ==
    ASSUME TaskInv, NEW walk \in BOOLEAN, NEW c \in Collections,
           NEW names \in IF walk THEN WalkProfile ELSE PollProfiles, Begin(walk, names, c)
    PROVE  /\ MibTypeOK' /\ task' \in Tasks
           /\ IsRequestOf(RequestOf(walk, names, c), walk, names, c)
           /\ task'.pc = "bulk" /\ task'.isWalk = walk /\ task'.names = names
           /\ task'.collection = c /\ task'.request = RequestOf(walk, names, c)
           /\ task'.bulk = task'.request.bulk /\ task'.get = task'.request.get
           /\ task'.chunk = {} /\ task'.due = {} /\ task'.values = {}
           /\ task'.profiles = {} /\ task'.failed = {}
           /\ task'.translated =
                 (\A i \in AllBelow(task'.request.bulk \cup task'.request.get) :
                     i[1] \in builder')
<1> DEFINE request == RequestOf(walk, names, c)
           able == \A i \in AllBelow(request.bulk \cup request.get) : i[1] \in builder'
<1>1. /\ names \in Seq(Names) /\ (walk => Len(names) <= 1) /\ (~walk => names # <<>>)
  BY PollerAssumption
<1>2. request \in AnyRequests /\ IsRequestOf(request, walk, names, c)
  BY <1>1, RequestOfIs
<1>3. \E mibs : LoadMibs(mibs)
  BY DEF Begin
<1>4. MibTypeOK'
  BY <1>3, LoadKeepsMibs DEF TaskInv
<1> HIDE DEF request
<1>5. task' = [IdleTask EXCEPT !.pc = "bulk", !.isWalk = walk, !.names = names,
                               !.collection = c, !.request = request,
                               !.bulk = request.bulk, !.get = request.get,
                               !.translated = able]
  BY DEF Begin, request
<1>6. /\ IdleTask \in Tasks /\ IdleTask.chunk = {} /\ IdleTask.due = {}
      /\ IdleTask.values = {} /\ IdleTask.profiles = {} /\ IdleTask.failed = {}
  BY FreshTasks DEF IdleTask
<1>7. able \in BOOLEAN
  OBVIOUS
<1> HIDE DEF able, IdleTask
<1>8. /\ task' \in Tasks
      /\ task'.pc = "bulk" /\ task'.isWalk = walk /\ task'.names = names
      /\ task'.collection = c /\ task'.request = request
      /\ task'.bulk = request.bulk /\ task'.get = request.get
      /\ task'.chunk = {} /\ task'.due = {} /\ task'.values = {}
      /\ task'.profiles = {} /\ task'.failed = {}
      /\ task'.translated = able
  BY <1>1, <1>2, <1>5, <1>6, <1>7 DEF Tasks, TaskPcs, AnyRequests
<1> QED
  BY <1>2, <1>4, <1>8 DEF able, request

LEMMA NextKeepsTask == TaskInv /\ [Next]_vars => TaskInv'
<1> SUFFICES ASSUME TaskInv, [Next]_vars PROVE TaskInv'
  OBVIOUS
<1>1. CASE StartUp \/ ServerChanges \/ ProcessEnds \/ TaskStep
  BY <1>1, StepKeepsTask
<1>2. ASSUME NEW walk \in BOOLEAN, NEW c \in Collections,
             NEW names \in IF walk THEN WalkProfile ELSE PollProfiles, Begin(walk, names, c)
      PROVE  TaskInv'
  <2>1. UNCHANGED <<faults, changes>>
    BY <1>2 DEF Begin
  <2>2. task'.chunk \subseteq task'.request.bulk /\ task'.failed \subseteq task'.request.get
    BY <1>2, BeginIs
  <2> QED
    BY <1>2, <2>1, <2>2, BeginIs DEF TaskInv
<1>3. CASE UNCHANGED vars
  BY <1>3 DEF vars, mibVars, TaskInv, MibTypeOK, Busy
<1>4. CASE \E c \in Collections :
              \/ \E names \in WalkProfile : Begin(TRUE, names, c)
              \/ \E names \in PollProfiles : Begin(FALSE, names, c)
  BY <1>2, <1>4
<1> QED
  BY <1>1, <1>3, <1>4 DEF Next

LEMMA TaskInvHolds == Spec => []TaskInv
<1>1. Init => TaskInv
  BY InitTask
<1>2. TaskInv /\ [Next]_vars => TaskInv'
  BY NextKeepsTask
<1> QED
  BY <1>1, <1>2, PTL DEF Spec

(* Poller.do_work and load_mibs: what a task holds is part of its request, *)
(* and modules, values and profiles are of the device and the inventory.   *)
THEOREM TypesAreKept == Spec => []TypeOK
<1>1. TaskInv => TypeOK
  BY DEF TaskInv, TypeOK, Tasks, Groups, Entries
<1> QED
  BY <1>1, TaskInvHolds, PTL

(* Profile.process and Profile.__add__: whatever the profiles of a task    *)
(* and their order, the merged request has every entry of every profile or *)
(* a parent of it by name and nothing else, and no entry is walked beside  *)
(* one that its name lies below.  The lemmas are about names: of subtrees  *)
(* with different names one may still lie in another.                      *)
THEOREM RequestsAreUnions == Spec => []RequestIsTheUnion
<1>1. TaskInv => RequestIsTheUnion
  <2> SUFFICES ASSUME TaskInv, Busy, task.names # <<>>
               PROVE  /\ \A v \in Asked : \E w \in Requested : Within(v, w)
                      /\ Requested \subseteq Asked
                      /\ \A v, w \in task.request.bulk : Within(v, w) => v = w
    BY DEF RequestIsTheUnion, Busy
  <2>1. Serves(task.request, task.collection, ToSet(task.names))
    BY DEF TaskInv, IsRequestOf
  <2>2. Asked = AskedOfAll(task.collection, ToSet(task.names))
    BY DEF Asked, AskedNames, AskedBy, AskedOfAll, AskedOf
  <2> QED
    BY <2>1, <2>2 DEF Serves, Covered, Antichain, Requested
<1> QED
  BY <1>1, TaskInvHolds, PTL
-----------------------------------------------------------------------------
(* What a task has collected.                                              *)

(* The entries of the bulk part that are done or at work have their values *)
(* or still expect them, the entries of the get part that are done have    *)
(* theirs, when all could be translated from the start.                    *)
ResultInv ==
    Busy =>
      /\ task.due \subseteq AllBelow(task.request.bulk)
      /\ task.values \subseteq NamesOf(AllBelow(Requested))
      /\ task.pc # "walking" => task.due = {}
      /\ task.pc = "done" => task.bulk = {} /\ task.get = {}
      /\ task.translated =>
            /\ \A i \in AllBelow(Requested) : i[1] \in builder
            /\ AllBelow(task.request.bulk \ task.bulk) \subseteq task.values \cup task.due
            /\ AllBelow(task.request.get \ (task.get \cup task.failed)) \subseteq task.values

(* The instances below more entries are more.                              *)
LEMMA BelowGrows ==
    /\ \A vs, ws : vs \subseteq ws => AllBelow(vs) \subseteq AllBelow(ws)
    /\ \A vs, ws : AllBelow(vs \cup ws) = AllBelow(vs) \cup AllBelow(ws)
    /\ \A us, vs, ws : us \subseteq vs \cup ws =>
                           AllBelow(us) \subseteq AllBelow(vs) \cup AllBelow(ws)
BY DEF AllBelow

(* More instances have more names.                                         *)
LEMMA NamesGrow == \A is, js : is \subseteq js => NamesOf(is) \subseteq NamesOf(js)
BY DEF NamesOf

LEMMA TaskStepKeepsResult ==
    ASSUME TaskInv, ResultInv, TaskStep
    PROVE  ResultInv'
<1>0. task \in Tasks
  BY DEF TaskInv
<1>1. CASE BulkNamesRaise \/ TaskFails \/ NextTask
  <2>1. task' = IdleTask
    BY <1>1 DEF BulkNamesRaise, TaskFails, NextTask
  <2>2. IdleTask.pc = "idle"
    BY DEF IdleTask
  <2> QED
    BY <2>1, <2>2 DEF ResultInv, Busy
<1>2. CASE BeginChunk
  <2>1. PICK chunk \in SUBSET task.bulk :
          /\ LoadNames(chunk)
          /\ task' = [task EXCEPT !.pc = "walking", !.bulk = @ \ chunk, !.chunk = chunk,
                                  !.due = AllBelow(chunk)]
    BY <1>2 DEF BeginChunk, ChunksOf
  <2>2. /\ task'.pc = "walking" /\ task'.bulk = task.bulk \ chunk /\ task'.get = task.get
        /\ task'.due = AllBelow(chunk) /\ task'.request = task.request
        /\ task'.values = task.values /\ task'.failed = task.failed
        /\ task'.translated = task.translated
    BY <1>0, <2>1 DEF Tasks
  <2>3. Requested' = Requested
    BY <2>2 DEF Requested
  <2>4. Busy /\ task.due = {}
    BY <1>2 DEF BeginChunk, At, Busy, ResultInv
  <2>5. chunk \subseteq task.request.bulk
    BY DEF TaskInv
  <2>6. AllBelow(chunk) \subseteq AllBelow(task.request.bulk)
    BY <2>5, BelowGrows
  <2>7. task.request.bulk \ task'.bulk = (task.request.bulk \ task.bulk) \cup chunk
    BY <2>2, <2>5
  <2>8. AllBelow(task.request.bulk \ task'.bulk)
           = AllBelow(task.request.bulk \ task.bulk) \cup AllBelow(chunk)
    BY <2>7, BelowGrows
  <2>9. builder \subseteq builder'
    BY <2>1 DEF LoadNames
  <2>10. /\ task'.due \subseteq AllBelow(task'.request.bulk)
         /\ task'.values \subseteq NamesOf(AllBelow(Requested'))
         /\ task'.pc = "walking"
    BY <2>2, <2>3, <2>4, <2>6 DEF ResultInv
  <2>11. ASSUME task'.translated
         PROVE  /\ \A i \in AllBelow(Requested') : i[1] \in builder'
                /\ AllBelow(task'.request.bulk \ task'.bulk) \subseteq task'.values \cup task'.due
                /\ AllBelow(task'.request.get \ (task'.get \cup task'.failed))
                       \subseteq task'.values
    <3>1. /\ \A i \in AllBelow(Requested) : i[1] \in builder
          /\ AllBelow(task.request.bulk \ task.bulk) \subseteq task.values
          /\ AllBelow(task.request.get \ (task.get \cup task.failed)) \subseteq task.values
      BY <2>2, <2>4, <2>11 DEF ResultInv
    <3>2. \A i \in AllBelow(Requested') : i[1] \in builder'
      BY <2>3, <2>9, <3>1
    <3>3. AllBelow(task'.request.bulk \ task'.bulk) \subseteq task'.values \cup task'.due
      <4>1. AllBelow(task.request.bulk \ task'.bulk) \subseteq task.values \cup AllBelow(chunk)
        BY <2>8, <3>1
      <4> QED
        BY <2>2, <4>1
    <3>4. AllBelow(task'.request.get \ (task'.get \cup task'.failed)) \subseteq task'.values
      BY <2>2, <3>1
    <3> QED
      BY <3>2, <3>3, <3>4
  <2> QED
    BY <2>10, <2>11 DEF ResultInv
<1>3. CASE Response
  <2>1. PICK rows \in SUBSET task.due : \E seen \in SUBSET NamesOf(rows) :
          /\ task'.due = task.due \ rows
          /\ task'.values = task.values \cup seen
          /\ (\A i \in rows : i[1] \in builder) => seen = rows
    BY <1>3, ResponseIs
  <2>2. builder \subseteq builder' /\ SameTask(task, task')
    BY <1>3, ResponseIs
  <2>3. PICK seen \in SUBSET NamesOf(rows) :
          /\ task'.due = task.due \ rows
          /\ task'.values = task.values \cup seen
          /\ (\A i \in rows : i[1] \in builder) => seen = rows
    BY <2>1
  <2>4. Busy /\ task.pc = "walking"
    BY <1>3 DEF Response, At, Busy
  <2>5. Requested' = Requested
    BY <2>2 DEF Requested, SameTask
  <2>6. AllBelow(task.request.bulk) \subseteq AllBelow(Requested)
    BY BelowGrows DEF Requested
  <2>7. rows \subseteq AllBelow(Requested)
    BY <2>4, <2>6 DEF ResultInv
  <2>8. task.translated => seen = rows
    BY <2>3, <2>4, <2>7 DEF ResultInv
  <2>9. seen \subseteq NamesOf(AllBelow(Requested))
    BY <2>3, <2>7, NamesGrow
  <2> QED
    BY <2>2, <2>3, <2>4, <2>5, <2>7, <2>8, <2>9 DEF ResultInv, SameTask, Busy
<1>4. CASE EndChunk
  <2>1. /\ task'.pc = "bulk" /\ task'.bulk = task.bulk /\ task'.get = task.get
        /\ task'.due = task.due /\ task'.request = task.request
        /\ task'.values = task.values /\ task'.failed = task.failed
        /\ task'.translated = task.translated
    BY <1>0, <1>4 DEF EndChunk, Tasks
  <2>2. Requested' = Requested /\ Busy /\ task.due = {} /\ builder' = builder
    BY <1>4, <2>1 DEF EndChunk, Requested, Busy, At, mibVars
  <2> QED
    BY <2>1, <2>2 DEF ResultInv, Busy
<1>5. CASE GetChunk
  <2>1. builder \subseteq builder'
    BY <1>5, GetChunkIs
  <2>2. PICK chunk \in SUBSET task.get : \E seen \in SUBSET NamesOf(AllBelow(chunk)) :
          /\ task'.request = task.request /\ task'.bulk = task.bulk
          /\ task'.pc = task.pc /\ task'.due = task.due
          /\ task'.failed = task.failed /\ task'.translated = task.translated
          /\ task'.get = task.get \ chunk
          /\ task'.values = task.values \cup seen
          /\ (\A i \in AllBelow(chunk) : i[1] \in builder') => seen = AllBelow(chunk)
    BY <1>5, GetChunkIs
  <2>3. PICK seen \in SUBSET NamesOf(AllBelow(chunk)) :
          /\ task'.values = task.values \cup seen
          /\ (\A i \in AllBelow(chunk) : i[1] \in builder') => seen = AllBelow(chunk)
    BY <2>2
  <2>4. Busy /\ task.pc = "bulk"
    BY <1>5 DEF GetChunk, At, Busy
  <2>5. Requested' = Requested
    BY <2>2 DEF Requested
  <2>6. chunk \subseteq task.request.get
    BY DEF TaskInv
  <2>7. AllBelow(chunk) \subseteq AllBelow(Requested)
    BY <2>6, BelowGrows DEF Requested
  <2>8. task.translated => seen = AllBelow(chunk)
    BY <2>1, <2>3, <2>4, <2>7 DEF ResultInv
  <2>9. task.request.get \ (task'.get \cup task.failed)
           \subseteq (task.request.get \ (task.get \cup task.failed)) \cup chunk
    BY <2>2
  <2>10. AllBelow(task.request.get \ (task'.get \cup task.failed))
            \subseteq AllBelow(task.request.get \ (task.get \cup task.failed))
                         \cup AllBelow(chunk)
    BY <2>9, BelowGrows
  <2>11. seen \subseteq NamesOf(AllBelow(Requested))
    BY <2>3, <2>7, NamesGrow
  <2> QED
    BY <2>1, <2>2, <2>3, <2>4, <2>5, <2>7, <2>8, <2>10, <2>11 DEF ResultInv, Busy
<1>6. CASE GetChunkRaises
  <2>1. PICK chunk \in SUBSET task.get :
          task' = [task EXCEPT !.get = @ \ chunk, !.failed = @ \cup chunk]
    BY <1>6 DEF GetChunkRaises, ChunksOf
  <2>2. /\ task'.pc = task.pc /\ task'.bulk = task.bulk /\ task'.get = task.get \ chunk
        /\ task'.due = task.due /\ task'.request = task.request
        /\ task'.values = task.values /\ task'.failed = task.failed \cup chunk
        /\ task'.translated = task.translated
    BY <1>0, <2>1 DEF Tasks
  <2>3. Requested' = Requested /\ Busy /\ task.pc = "bulk" /\ builder' = builder
    BY <1>6, <2>2 DEF GetChunkRaises, Requested, Busy, At, mibVars
  <2>4. task'.get \cup task'.failed = task.get \cup task.failed
    BY <2>2
  <2> QED
    BY <2>2, <2>3, <2>4 DEF ResultInv, Busy
<1>7. CASE ReturnResult
  <2>1. /\ task'.pc = "done" /\ task'.bulk = task.bulk /\ task'.get = task.get
        /\ task'.due = task.due /\ task'.request = task.request
        /\ task'.values = task.values /\ task'.failed = task.failed
        /\ task'.translated = task.translated
    BY <1>0, <1>7 DEF ReturnResult, Tasks
  <2>2. Requested' = Requested /\ Busy /\ task.pc = "bulk" /\ builder' = builder
        /\ task.bulk = {} /\ task.get = {}
    BY <1>7, <2>1 DEF ReturnResult, Requested, Busy, At, mibVars
  <2> QED
    BY <2>1, <2>2 DEF ResultInv, Busy
<1> QED
  BY <1>1, <1>2, <1>3, <1>4, <1>5, <1>6, <1>7 DEF TaskStep

(* A step that leaves the task and the modules of the worker alone, ends   *)
(* the process or starts it.                                               *)
IdleStep ==
    \/ UNCHANGED <<task, builder>>
    \/ task' \in {IdleTask, DownTask}

LEMMA OutsideSteps ==
    [Next]_vars => \/ TaskStep \/ IdleStep
                   \/ \E walk \in BOOLEAN, c \in Collections :
                         \E names \in IF walk THEN WalkProfile ELSE PollProfiles :
                            Begin(walk, names, c)
<1> SUFFICES ASSUME [Next]_vars
             PROVE  \/ TaskStep \/ IdleStep
                    \/ \E walk \in BOOLEAN, c \in Collections :
                          \E names \in IF walk THEN WalkProfile ELSE PollProfiles :
                             Begin(walk, names, c)
  OBVIOUS
<1>1. StartUp \/ ServerChanges \/ ProcessEnds \/ UNCHANGED vars => IdleStep
  BY DEF StartUp, ServerChanges, ProcessEnds, vars, mibVars, IdleStep
<1>2. ASSUME NEW c \in Collections, NEW names \in WalkProfile, Begin(TRUE, names, c)
      PROVE  \E walk \in BOOLEAN, d \in Collections :
                \E ns \in IF walk THEN WalkProfile ELSE PollProfiles : Begin(walk, ns, d)
  BY <1>2
<1>3. ASSUME NEW c \in Collections, NEW names \in PollProfiles, Begin(FALSE, names, c)
      PROVE  \E walk \in BOOLEAN, d \in Collections :
                \E ns \in IF walk THEN WalkProfile ELSE PollProfiles : Begin(walk, ns, d)
  BY <1>3
<1> QED
  BY <1>1, <1>2, <1>3 DEF Next

LEMMA NextKeepsResult == TaskInv /\ ResultInv /\ [Next]_vars => ResultInv'
<1> SUFFICES ASSUME TaskInv, ResultInv, [Next]_vars PROVE ResultInv'
  OBVIOUS
<1>1. CASE TaskStep
  BY <1>1, TaskStepKeepsResult
<1>2. CASE UNCHANGED <<task, builder>>
  BY <1>2 DEF ResultInv, Busy, Requested
<1>3. CASE task' \in {IdleTask, DownTask}
  BY <1>3, FreshTasks DEF ResultInv, Busy
<1>4. ASSUME NEW walk \in BOOLEAN, NEW c \in Collections,
             NEW names \in IF walk THEN WalkProfile ELSE PollProfiles, Begin(walk, names, c)
      PROVE  ResultInv'
  <2>1. AllBelow({}) = {}
    BY DEF AllBelow
  <2>2. /\ task'.pc = "bulk" /\ task'.due = {} /\ task'.values = {} /\ task'.failed = {}
        /\ task'.bulk = task'.request.bulk /\ task'.get = task'.request.get
        /\ task'.translated =
                 (\A i \in AllBelow(task'.request.bulk \cup task'.request.get) :
                     i[1] \in builder')
    BY <1>4, BeginIs
  <2>3. /\ task'.request.bulk \ task'.bulk = {}
        /\ task'.request.get \ (task'.get \cup task'.failed) = {}
    BY <2>2
  <2> QED
    BY <2>1, <2>2, <2>3 DEF ResultInv, Requested
<1> QED
  BY <1>1, <1>2, <1>3, <1>4, OutsideSteps DEF IdleStep

(* run_get_request and run_bulk_request: a task that could translate all   *)
(* from the start ends with the values of everything it asked for but the  *)
(* entries of the chunks that raised, and never with anything else.        *)
THEOREM FailuresAreContained == Spec => []FailuresStayInTheirChunk
<1>1. Init => ResultInv
  BY FreshTasks DEF Init, ResultInv, Busy
<1>2. TaskInv /\ ResultInv /\ [Next]_vars => ResultInv'
  BY NextKeepsResult
<1>3. TaskInv /\ ResultInv => FailuresStayInTheirChunk
  <2> SUFFICES ASSUME TaskInv, ResultInv, At("done")
               PROVE  /\ task.values \subseteq NamesOf(AllBelow(Requested))
                      /\ task.translated =>
                            AllBelow(Requested \ task.failed) \subseteq task.values
    BY DEF FailuresStayInTheirChunk
  <2>1. task.due = {} /\ task.bulk = {} /\ task.get = {} /\ Busy
    BY DEF ResultInv, Busy, At
  <2>2. Requested \ task.failed
           \subseteq (task.request.bulk \ task.bulk)
                        \cup (task.request.get \ (task.get \cup task.failed))
    BY <2>1 DEF Requested
  <2>3. AllBelow(Requested \ task.failed)
           \subseteq AllBelow(task.request.bulk \ task.bulk)
                        \cup AllBelow(task.request.get \ (task.get \cup task.failed))
    BY <2>2, BelowGrows
  <2> QED
    BY <2>1, <2>3 DEF ResultInv
<1> QED
  BY <1>1, <1>2, <1>3, TaskInvHolds, PTL DEF Spec
-----------------------------------------------------------------------------
(* Who a value is reported for.                                            *)

(* check_profiles_type and is_smart_profile_valid assign no walk profile   *)
(* to a poll.                                                              *)
PollsDoNotWalk == \A c \in Collections : \A names \in PollProfiles : NoneWalks(c, ToSet(names))

(* The answer to a GET of a complete entry is translated to that entry,    *)
(* which is no name that a module above gives to another instance.         *)
CompleteAnswerThemselves ==
    \A v \in Varbinds : Len(v) = 3 =>
        Nested[v] = {} /\ v \notin NamesOf(Instances) \ Instances

Reported(i) ==
    \E n \in AskedNames : /\ <<Group(i), n>> \in task.profiles
                          /\ \E v \in AskedBy(n) : Within(i, v)

(* Of the numbers of a poll those with a key of the bulk part are reported *)
(* for an asker whichever part they came with, and those of the get part   *)
(* once their chunk was answered.                                          *)
AskerInv ==
    Busy /\ ~task.isWalk =>
      /\ task.names \in PollProfiles
      /\ \A pair \in task.profiles : \E v \in AskedBy(pair[2]) : v \in Mentions[pair[1][1]]
      /\ \A i \in task.values \cap Numeric :
            (\E w \in DOMAIN task.request.bulkMapping : Within(i, w)) => Reported(i)
      /\ \A i \in (task.request.get \ (task.get \cup task.failed)) \cap Instances \cap Numeric :
            Reported(i)

LEMMA RequestOfPoll ==
    ASSUME TaskInv, AskerInv, PollsDoNotWalk, Busy, ~task.isWalk
    PROVE  /\ Serves(task.request, task.collection, AskedNames)
           /\ Attributes(task.request, task.collection, AskedNames)
           /\ task.collection \in Collections
           /\ \A n : AskedBy(n) = AskedOf(task.collection, n)
<1>1. task.names \in PollProfiles /\ task.names # <<>>
  BY PollerAssumption DEF AskerInv
<1>2. IsRequestOf(task.request, task.isWalk, task.names, task.collection)
  BY DEF TaskInv
<1>3. NoneWalks(task.collection, ToSet(task.names))
  BY <1>1, <1>2 DEF IsRequestOf, PollsDoNotWalk
<1>4. \A n : AskedBy(n) = AskedOf(task.collection, n)
  BY DEF AskedBy, AskedOf
<1> QED
  BY <1>1, <1>2, <1>3, <1>4 DEF IsRequestOf, AskedNames

(* The only instance below a complete entry is the entry itself.           *)
LEMMA CompleteBelow ==
    ASSUME CompleteAnswerThemselves, NEW vs \in SUBSET Varbinds, \A v \in vs : Len(v) = 3
    PROVE  AllBelow(vs) = vs \cap Instances
<1>1. ASSUME NEW v \in vs PROVE Below(v) = {i \in Instances : Within(i, v)}
  BY Keys DEF Below, CompleteAnswerThemselves
<1>2. ASSUME NEW v \in vs, NEW i \in Instances PROVE Within(i, v) <=> i = v
  <2>1. IsKey(v) /\ IsKey(i) /\ Len(v) = 3 /\ Len(i) = 3
    BY Keys, CallsAreKeys
  <2>2. Len(i) <= Len(v)
    BY <2>1
  <2> QED
    BY <2>1, <2>2, WithinOrder
<1> QED
  BY <1>1, <1>2 DEF AllBelow

LEMMA ResponseKeepsAsker ==
    ASSUME TaskInv, AskerInv, PollsDoNotWalk, Response
    PROVE  AskerInv'
<1> SUFFICES ASSUME Busy', ~task'.isWalk PROVE AskerInv'
  BY DEF AskerInv
<1>0. task \in Tasks
  BY DEF TaskInv
<1>1. SameTask(task, task')
  BY ResponseIs
<1>2. PICK rows \in SUBSET task.due : \E seen \in SUBSET NamesOf(rows) :
        /\ task'.values = task.values \cup seen
        /\ task'.profiles = task.profiles \cup Attributed(task.request.bulkMapping, seen)
  BY ResponseIs
<1>3. PICK seen \in SUBSET NamesOf(rows) :
        /\ task'.values = task.values \cup seen
        /\ task'.profiles = task.profiles \cup Attributed(task.request.bulkMapping, seen)
  BY <1>2
<1>4. Busy /\ ~task.isWalk
  BY <1>1 DEF SameTask, Response, At, Busy
<1>5. /\ Serves(task.request, task.collection, AskedNames)
      /\ Attributes(task.request, task.collection, AskedNames)
      /\ \A n : AskedBy(n) = AskedOf(task.collection, n)
  BY <1>4, RequestOfPoll
<1>6. seen \in SUBSET NamesOf(Instances)
  <2>1. rows \subseteq Instances
    BY <1>0 DEF Tasks
  <2> QED
    BY <1>3, <2>1, NamesGrow
<1>7. task.request.bulkMapping \in Mappings
  BY <1>0 DEF Tasks, AnyRequests
<1>8. /\ \A pair \in Attributed(task.request.bulkMapping, seen) :
            \E v \in AskedBy(pair[2]) : v \in Mentions[pair[1][1]]
      /\ \A i \in seen \cap Numeric :
            (\E k \in DOMAIN task.request.bulkMapping : Within(i, k)) =>
               \E n \in AskedNames :
                  /\ <<Group(i), n>> \in Attributed(task.request.bulkMapping, seen)
                  /\ \E v \in AskedBy(n) : Within(i, v)
  BY <1>5, <1>6, <1>7, AttributedIs DEF Serves, Attributes
<1>9. AskedNames' = AskedNames /\ \A n : AskedBy(n)' = AskedBy(n)
  BY <1>1 DEF SameTask, AskedNames, AskedBy
<1>10. \A i : Reported(i) => Reported(i)'
  BY <1>3, <1>9 DEF Reported
<1>11. \A i \in seen \cap Numeric :
          (\E k \in DOMAIN task.request.bulkMapping : Within(i, k)) => Reported(i)'
  BY <1>3, <1>8, <1>9 DEF Reported
<1>12. \A pair \in task'.profiles : \E v \in AskedBy(pair[2])' : v \in Mentions[pair[1][1]]
  BY <1>3, <1>4, <1>8, <1>9 DEF AskerInv
<1> QED
  BY <1>1, <1>3, <1>4, <1>10, <1>11, <1>12 DEF AskerInv, SameTask
LEMMA GetChunkKeepsAsker ==
    ASSUME TaskInv, AskerInv, PollsDoNotWalk, CompleteAnswerThemselves, GetChunk
    PROVE  AskerInv'
<1> SUFFICES ASSUME Busy', ~task'.isWalk PROVE AskerInv'
  BY DEF AskerInv
<1>0. task \in Tasks
  BY DEF TaskInv
<1>1. PICK chunk \in SUBSET task.get : \E seen \in SUBSET NamesOf(AllBelow(chunk)) :
        /\ task'.request = task.request /\ task'.isWalk = task.isWalk
        /\ task'.names = task.names /\ task'.collection = task.collection
        /\ task'.pc = task.pc /\ task'.failed = task.failed
        /\ task'.get = task.get \ chunk
        /\ task'.values = task.values \cup seen
        /\ task'.profiles = task.profiles \cup Attributed(task.request.getMapping, seen)
        /\ \A v \in chunk : v[1] \in builder'
        /\ (\A i \in AllBelow(chunk) : i[1] \in builder') => seen = AllBelow(chunk)
  BY GetChunkIs
<1>2. PICK seen \in SUBSET NamesOf(AllBelow(chunk)) :
        /\ task'.values = task.values \cup seen
        /\ task'.profiles = task.profiles \cup Attributed(task.request.getMapping, seen)
        /\ (\A i \in AllBelow(chunk) : i[1] \in builder') => seen = AllBelow(chunk)
  BY <1>1
<1>3. Busy /\ ~task.isWalk
  BY <1>1 DEF GetChunk, At, Busy
<1>4. /\ Serves(task.request, task.collection, AskedNames)
      /\ Attributes(task.request, task.collection, AskedNames)
      /\ \A n : AskedBy(n) = AskedOf(task.collection, n)
  BY <1>3, RequestOfPoll
<1>5. chunk \in SUBSET Varbinds /\ chunk \subseteq task.request.get
      /\ \A v \in chunk : Len(v) = 3
  BY <1>0, <1>4 DEF TaskInv, Tasks, Serves
<1>6. AllBelow(chunk) = chunk \cap Instances
  BY <1>5, CompleteBelow
<1>7. seen = chunk \cap Instances
  BY <1>1, <1>2, <1>6
<1>8. task.request.getMapping \in Mappings
  BY <1>0 DEF Tasks, AnyRequests
<1>9. \A i \in seen : \E k \in DOMAIN task.request.getMapping : Within(i, k)
  <2>1. seen \subseteq DOMAIN task.request.getMapping
    BY <1>4, <1>5, <1>7 DEF Attributes
  <2>2. \A i \in seen : Within(i, i)
    BY <1>7, CallsAreKeys, WithinOrder
  <2> QED
    BY <2>1, <2>2
<1>10. /\ \A pair \in Attributed(task.request.getMapping, seen) :
             \E v \in AskedBy(pair[2]) : v \in Mentions[pair[1][1]]
       /\ \A i \in seen \cap Numeric :
             (\E k \in DOMAIN task.request.getMapping : Within(i, k)) =>
                \E n \in AskedNames :
                   /\ <<Group(i), n>> \in Attributed(task.request.getMapping, seen)
                   /\ \E v \in AskedBy(n) : Within(i, v)
  <2>1. seen \in SUBSET NamesOf(Instances)
    BY <1>7, CallsAreKeys
  <2> QED
    BY <1>4, <1>8, <2>1, AttributedIs DEF Serves, Attributes
<1>11. AskedNames' = AskedNames /\ \A n : AskedBy(n)' = AskedBy(n)
  BY <1>1 DEF AskedNames, AskedBy
<1>12. \A i : Reported(i) => Reported(i)'
  BY <1>2, <1>11 DEF Reported
<1>13. \A i \in seen \cap Numeric : Reported(i)'
  BY <1>2, <1>9, <1>10, <1>11 DEF Reported
<1>14. \A pair \in task'.profiles : \E v \in AskedBy(pair[2])' : v \in Mentions[pair[1][1]]
  BY <1>2, <1>3, <1>10, <1>11 DEF AskerInv
<1>15. task'.request.get \ (task'.get \cup task'.failed)
          \subseteq (task.request.get \ (task.get \cup task.failed)) \cup chunk
  BY <1>1
<1>16. \A i \in (task'.request.get \ (task'.get \cup task'.failed)) \cap Instances \cap Numeric :
          Reported(i)'
  BY <1>3, <1>7, <1>12, <1>13, <1>15 DEF AskerInv
<1>17. \A i \in task'.values \cap Numeric :
          (\E w \in DOMAIN task'.request.bulkMapping : Within(i, w)) => Reported(i)'
  BY <1>1, <1>2, <1>3, <1>12, <1>13 DEF AskerInv
<1> QED
  BY <1>1, <1>3, <1>14, <1>16, <1>17 DEF AskerInv

LEMMA NextKeepsAsker ==
    ASSUME PollsDoNotWalk, CompleteAnswerThemselves, TaskInv, AskerInv, [Next]_vars
    PROVE  AskerInv'
<1>0. task \in Tasks
  BY DEF TaskInv
<1>1. CASE Response
  BY <1>1, ResponseKeepsAsker
<1>2. CASE GetChunk
  BY <1>2, GetChunkKeepsAsker
<1>3. CASE BeginChunk \/ EndChunk \/ GetChunkRaises \/ ReturnResult
  <2>1. /\ Busy /\ task'.request = task.request /\ task'.isWalk = task.isWalk
        /\ task'.names = task.names /\ task'.collection = task.collection
        /\ task'.values = task.values /\ task'.profiles = task.profiles
        /\ task'.get \cup task'.failed = task.get \cup task.failed
    <3>1. CASE BeginChunk
      <4>1. PICK chunk \in SUBSET task.bulk :
              task' = [task EXCEPT !.pc = "walking", !.bulk = @ \ chunk, !.chunk = chunk,
                                   !.due = AllBelow(chunk)]
        BY <3>1 DEF BeginChunk, ChunksOf
      <4> QED
        BY <1>0, <3>1, <4>1 DEF BeginChunk, Tasks, Busy, At
    <3>2. CASE EndChunk
      BY <1>0, <3>2 DEF EndChunk, Tasks, Busy, At
    <3>3. CASE GetChunkRaises
      <4>1. PICK chunk \in SUBSET task.get :
              task' = [task EXCEPT !.get = @ \ chunk, !.failed = @ \cup chunk]
        BY <3>3 DEF GetChunkRaises, ChunksOf
      <4>2. task'.get = task.get \ chunk /\ task'.failed = task.failed \cup chunk
        BY <1>0, <4>1 DEF Tasks
      <4> QED
        BY <1>0, <3>3, <4>1, <4>2 DEF GetChunkRaises, Tasks, Busy, At
    <3>4. CASE ReturnResult
      BY <1>0, <3>4 DEF ReturnResult, Tasks, Busy, At
    <3> QED
      BY <1>3, <3>1, <3>2, <3>3, <3>4
  <2>2. AskedNames' = AskedNames /\ \A n : AskedBy(n)' = AskedBy(n)
    BY <2>1 DEF AskedNames, AskedBy
  <2>3. \A i : Reported(i) <=> Reported(i)'
    BY <2>1, <2>2 DEF Reported
  <2> QED
    BY <2>1, <2>2, <2>3 DEF AskerInv
<1>4. CASE UNCHANGED <<task, builder>>
  BY <1>4 DEF AskerInv, Busy, Reported, AskedNames, AskedBy
<1>5. CASE task' \in {IdleTask, DownTask}
  BY <1>5, FreshTasks DEF AskerInv, Busy
<1>6. CASE BulkNamesRaise \/ TaskFails \/ NextTask
  <2>1. task' = IdleTask
    BY <1>6 DEF BulkNamesRaise, TaskFails, NextTask
  <2> QED
    BY <1>5, <2>1
<1>7. ASSUME NEW walk \in BOOLEAN, NEW c \in Collections,
             NEW names \in IF walk THEN WalkProfile ELSE PollProfiles, Begin(walk, names, c)
      PROVE  AskerInv'
  <2>1. /\ task'.isWalk = walk /\ task'.names = names /\ task'.values = {}
        /\ task'.profiles = {} /\ task'.failed = {} /\ task'.get = task'.request.get
    BY <1>7, BeginIs
  <2> QED
    BY <2>1 DEF AskerInv
<1> QED
  BY <1>1, <1>2, <1>3, <1>4, <1>5, <1>6, <1>7, OutsideSteps DEF IdleStep, TaskStep

(* set_profile_name over the merged mappings, when no poll has a walk      *)
(* profile and the answer to a complete entry is translated to that entry: *)
(* a number whose name a profile asked for is reported for a profile that  *)
(* asked for it, and no profile is named that asked for nothing whose key  *)
(* contains the name of its module.                                        *)
THEOREM ValuesHaveAskers ==
    PollsDoNotWalk /\ CompleteAnswerThemselves => (Spec => []EveryValueHasItsAsker)
<1> SUFFICES ASSUME PollsDoNotWalk, CompleteAnswerThemselves
             PROVE  Spec => []EveryValueHasItsAsker
  OBVIOUS
<1>1. Init => AskerInv
  BY FreshTasks DEF Init, AskerInv, Busy
<1>2. TaskInv /\ AskerInv /\ [Next]_vars => AskerInv'
  BY NextKeepsAsker
<1>3. TaskInv /\ ResultInv /\ AskerInv => EveryValueHasItsAsker
  <2> SUFFICES ASSUME TaskInv, ResultInv, AskerInv, At("done"), ~task.isWalk
               PROVE  /\ \A i \in task.values \cap Numeric :
                            (\E v \in Asked \ task.failed : Within(i, v)) => Reported(i)
                      /\ \A pair \in task.profiles :
                            \E v \in AskedBy(pair[2]) : v \in Mentions[pair[1][1]]
    BY DEF EveryValueHasItsAsker, Reported
  <2>1. Busy /\ task.get = {} /\ task \in Tasks
    BY DEF At, Busy, ResultInv, TaskInv
  <2>2. /\ Serves(task.request, task.collection, AskedNames)
        /\ Attributes(task.request, task.collection, AskedNames)
        /\ task.collection \in Collections
        /\ \A n : AskedBy(n) = AskedOf(task.collection, n)
    BY <2>1, RequestOfPoll
  <2>3. Asked = AskedOfAll(task.collection, AskedNames) /\ Asked \subseteq Varbinds
    BY <2>2, AskedAreEntries DEF Asked, AskedOfAll
  <2>4. DOMAIN task.request.bulkMapping \subseteq Varbinds
    BY <2>1 DEF Tasks, AnyRequests, Mappings
  <2>5. ASSUME NEW i \in task.values \cap Numeric, NEW v \in Asked \ task.failed, Within(i, v)
        PROVE  Reported(i)
    <3>1. i \in NamesOf(Instances) /\ IsKey(i) /\ IsKey(v) /\ Len(i) = 3
      BY <2>1, <2>3, Keys, CallsAreKeys DEF Tasks
    <3>2. CASE v \in task.request.get
      <4>0. \A u \in task.request.get : Len(u) = 3
        BY <2>2 DEF Serves
      <4>1. Len(v) = 3 /\ Len(i) <= Len(v)
        <5>1. Len(v) = 3
          BY <3>2, <4>0
        <5> QED
          BY <3>1, <5>1
      <4>2. i = v
        BY <2>5, <3>1, <4>1, WithinOrder
      <4>2a. i \in Instances
        <5>1. v \in Varbinds /\ Len(v) = 3
          BY <2>3, <4>1
        <5> QED
          BY <3>1, <4>2, <5>1 DEF CompleteAnswerThemselves
      <4>3. i \in (task.request.get \ (task.get \cup task.failed)) \cap Instances \cap Numeric
        BY <2>1, <2>5, <3>2, <4>2, <4>2a
      <4> QED
        BY <2>1, <4>3 DEF AskerInv
    <3>3. CASE \E w \in DOMAIN task.request.bulkMapping : Within(v, w)
      <4>1. PICK w \in DOMAIN task.request.bulkMapping : Within(v, w)
        BY <3>3
      <4>2. IsKey(w)
        BY <2>4, <4>1, Keys
      <4>3. Within(i, w)
        BY <2>5, <3>1, <4>1, <4>2, WithinOrder
      <4> QED
        BY <2>1, <4>1, <4>3 DEF AskerInv
    <3> QED
      BY <2>2, <2>3, <3>2, <3>3 DEF Attributes
  <2> QED
    BY <2>1, <2>5 DEF AskerInv
<1>4. Init => ResultInv
  BY FreshTasks DEF Init, ResultInv, Busy
<1>5. TaskInv /\ ResultInv /\ [Next]_vars => ResultInv'
  BY NextKeepsResult
<1> QED
  BY <1>1, <1>2, <1>3, <1>4, <1>5, TaskInvHolds, PTL DEF Spec
=============================================================================
