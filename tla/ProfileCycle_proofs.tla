------------------------ MODULE ProfileCycle_proofs -------------------------
(***************************************************************************)
(* What is proved about ProfileCycle and SetupPoller: the types of the     *)
(* documents, the setups, the job and the tables of the processes, that a  *)
(* profile has two documents only if two setups of the host overlapped,    *)
(* and that no gap of the inventory job takes a profile from a worker.     *)
(* The job gathers its documents with a recursive function over their      *)
(* names, so the first part proves what that function yields by the least  *)
(* counterexample.                                                         *)
(***************************************************************************)
EXTENDS ProfileCycle, WellFoundedInduction, TLAPS

ValidDocs == {d \in Docs : Valid(d.body)}

(* No two documents of the list have the same name.                        *)
Unique(docs) == \A j, k \in DOMAIN docs : docs[j].name = docs[k].name => j = k

-----------------------------------------------------------------------------
(* A set of numbers that is not empty has a least one, and a greatest one  *)
(* when it is bounded.                                                     *)
LEMMA LeastNumber ==
    ASSUME NEW S \in SUBSET Nat, S # {}
    PROVE  \E x \in S : \A y \in S : x <= y
<1>1. PICK x \in S : \A y \in S : ~ (<<y, x>> \in OpToRel(<, Nat))
  BY NatLessThanWellFounded, WFMin
<1>2. \A y \in S : ~ (y < x)
  BY <1>1 DEF OpToRel
<1> QED
  BY <1>2

LEMMA GreatestNumber ==
    ASSUME NEW m \in Nat, NEW S \in SUBSET (1..m), S # {}
    PROVE  \E x \in S : \A y \in S : y <= x
<1> DEFINE B == {b \in Nat : \A y \in S : y <= b}
<1>1. m \in B
  OBVIOUS
<1>2. PICK b \in B : \A c \in B : b <= c
  <2>1. B \in SUBSET Nat /\ B # {}
    BY <1>1
  <2> HIDE DEF B
  <2> QED
    BY <2>1, LeastNumber
<1>3. b \in Nat /\ \A y \in S : y <= b /\ y \in Nat /\ y >= 1
  OBVIOUS
<1>4. b \in S
  <2> SUFFICES ASSUME b \notin S PROVE FALSE
    OBVIOUS
  <2>1. PICK y \in S : TRUE
    OBVIOUS
  <2>2. b - 1 \in Nat
    BY <1>3, <2>1
  <2>3. \A z \in S : z <= b - 1
    BY <1>3
  <2>4. b - 1 \in B
    BY <2>2, <2>3
  <2> QED
    BY <1>2, <1>3, <2>4
<1> QED
  BY <1>3, <1>4

-----------------------------------------------------------------------------
(* return_collection: every name of a document has an entry, the body of   *)
(* the last document of that name.                                         *)

LEMMA LastIs ==
    ASSUME NEW D, NEW docs \in Seq(D), NEW n \in NamesOf(docs)
    PROVE  LastOf(docs, n) \in DOMAIN docs /\ docs[LastOf(docs, n)].name = n
<1> DEFINE S == {j \in 1..Len(docs) : docs[j].name = n}
<1>1. DOMAIN docs = 1..Len(docs) /\ Len(docs) \in Nat
  OBVIOUS
<1>2. S \in SUBSET (1..Len(docs)) /\ S # {}
  BY <1>1 DEF NamesOf
<1>3. PICK x \in S : \A y \in S : y <= x
  <2> HIDE DEF S
  <2> QED
    BY <1>1, <1>2, GreatestNumber
<1>4. /\ x \in DOMAIN docs /\ docs[x].name = n
      /\ \A k \in DOMAIN docs : docs[k].name = n => k <= x
  BY <1>1, <1>3
<1> HIDE DEF S
<1> QED
  BY <1>4 DEF LastOf

LEMMA CollectionIs ==
    ASSUME NEW D, NEW docs \in Seq(D)
    PROVE  /\ DOMAIN Collection(docs) = NamesOf(docs)
           /\ \A n \in NamesOf(docs) :
                 \E j \in DOMAIN docs : docs[j].name = n /\ Collection(docs)[n] = docs[j].body
<1>1. ASSUME NEW n \in NamesOf(docs)
      PROVE  \E j \in DOMAIN docs : docs[j].name = n /\ Collection(docs)[n] = docs[j].body
  <2>1. LastOf(docs, n) \in DOMAIN docs /\ docs[LastOf(docs, n)].name = n
    BY LastIs
  <2>2. Collection(docs)[n] = docs[LastOf(docs, n)].body
    BY DEF Collection
  <2> QED
    BY <2>1, <2>2
<1> QED
  BY <1>1 DEF Collection

(* The collection of documents of the types has entries of the types.      *)
LEMMA CollectionTypes ==
    ASSUME NEW docs \in Seq(ValidDocs)
    PROVE  /\ DOMAIN Collection(docs) = NamesOf(docs)
           /\ NamesOf(docs) \subseteq Names \cup Tags
           /\ \A n \in NamesOf(docs) : Collection(docs)[n] \in Bodies /\ Valid(Collection(docs)[n])
<1>1. \A j \in DOMAIN docs : docs[j] \in ValidDocs
  OBVIOUS
<1>2. \A j \in DOMAIN docs : /\ docs[j].name \in Names \cup Tags
                             /\ docs[j].body \in Bodies /\ Valid(docs[j].body)
  BY <1>1 DEF ValidDocs, Docs
<1>3. NamesOf(docs) \subseteq Names \cup Tags
  BY <1>2 DEF NamesOf
<1> QED
  BY <1>2, <1>3, CollectionIs

-----------------------------------------------------------------------------
(* The keys of a dictionary built from documents.                          *)

(* What document j adds to the keys of those before it.                    *)
KeyStep(docs, names, f, j) ==
    IF j = 0 THEN <<>>
    ELSE IF docs[j].name \in names \ ToSet(f[j - 1])
         THEN Append(f[j - 1], docs[j].name)
         ELSE f[j - 1]

(* The recursion of KeysAmong has a solution.                              *)
LEMMA KeysExist ==
    ASSUME NEW docs, NEW names, NEW m \in Nat
    PROVE  \E f : f = [j \in 0..m |-> KeyStep(docs, names, f, j)]
<1> DEFINE S == {k \in Nat : ~\E f : f = [j \in 0..k |-> KeyStep(docs, names, f, j)]}
<1> SUFFICES ASSUME S # {} PROVE FALSE
  OBVIOUS
<1>1. PICK x \in S : \A y \in S : x <= y
  <2>1. S \in SUBSET Nat
    OBVIOUS
  <2> HIDE DEF S
  <2> QED
    BY <2>1, LeastNumber
<1>2. x \in Nat
  OBVIOUS
<1>3. CASE x = 0
  <2> DEFINE h == [j \in 0..0 |-> <<>>]
  <2>1. \A j \in 0..0 : h[j] = KeyStep(docs, names, h, j)
    BY DEF KeyStep
  <2>2. h = [j \in 0..0 |-> h[j]]
    OBVIOUS
  <2> HIDE DEF h
  <2>3. h = [j \in 0..0 |-> KeyStep(docs, names, h, j)]
    BY <2>1, <2>2
  <2> QED
    BY <1>3, <2>3
<1>4. CASE x # 0
  <2>1. x - 1 \in Nat /\ x - 1 \notin S
    BY <1>1, <1>2, <1>4
  <2>2. PICK g : g = [j \in 0..(x - 1) |-> KeyStep(docs, names, g, j)]
    BY <2>1
  <2> DEFINE h == [j \in 0..x |-> IF j < x THEN g[j] ELSE KeyStep(docs, names, g, x)]
  <2>3. ASSUME NEW j \in 0..x PROVE h[j] = KeyStep(docs, names, h, j)
    <3>1. j # 0 => j - 1 \in 0..x /\ j - 1 < x
      BY <1>2
    <3>2. j # 0 => h[j - 1] = g[j - 1]
      BY <3>1
    <3>3. KeyStep(docs, names, h, j) = KeyStep(docs, names, g, j)
      <4> HIDE DEF h
      <4> QED
        BY <3>2 DEF KeyStep
    <3>4. CASE j < x
      <4>1. j \in 0..(x - 1)
        BY <1>2, <3>4
      <4>2. g[j] = KeyStep(docs, names, g, j)
        BY <2>2, <4>1
      <4> QED
        BY <3>3, <3>4, <4>2
    <3>5. CASE ~(j < x)
      <4>1. j = x
        BY <1>2, <3>5
      <4> QED
        BY <3>3, <3>5, <4>1
    <3> QED
      BY <3>4, <3>5
  <2>4. h = [j \in 0..x |-> h[j]]
    OBVIOUS
  <2> HIDE DEF h
  <2>5. h = [j \in 0..x |-> KeyStep(docs, names, h, j)]
    BY <2>3, <2>4
  <2> QED
    BY <2>5
<1> QED
  BY <1>3, <1>4

(* The keys are among the names that are kept, and none comes twice.       *)
LEMMA KeysAre ==
    ASSUME NEW D, NEW docs \in Seq(D), NEW names
    PROVE  /\ KeysAmong(docs, names) \in Seq(names)
           /\ \A j, k \in DOMAIN KeysAmong(docs, names) :
                 KeysAmong(docs, names)[j] = KeysAmong(docs, names)[k] => j = k
<1> DEFINE keys[j \in 0..Len(docs)] ==
            IF j = 0 THEN <<>>
            ELSE IF docs[j].name \in names \ ToSet(keys[j - 1])
                 THEN Append(keys[j - 1], docs[j].name)
                 ELSE keys[j - 1]
           Good(k) == /\ keys[k] \in Seq(names)
                      /\ \A i, j \in DOMAIN keys[k] : keys[k][i] = keys[k][j] => i = j
<1>1. Len(docs) \in Nat
  OBVIOUS
<1>2. KeysAmong(docs, names) = keys[Len(docs)]
  BY DEF KeysAmong
<1>3. keys = [j \in 0..Len(docs) |-> KeyStep(docs, names, keys, j)]
  <2>1. \E f : f = [j \in 0..Len(docs) |->
                      IF j = 0 THEN <<>>
                      ELSE IF docs[j].name \in names \ ToSet(f[j - 1])
                           THEN Append(f[j - 1], docs[j].name)
                           ELSE f[j - 1]]
    <3> HIDE DEF keys
    <3>1. PICK f : f = [j \in 0..Len(docs) |-> KeyStep(docs, names, f, j)]
      BY <1>1, KeysExist
    <3>2. f = [j \in 0..Len(docs) |->
                  IF j = 0 THEN <<>>
                  ELSE IF docs[j].name \in names \ ToSet(f[j - 1])
                       THEN Append(f[j - 1], docs[j].name)
                       ELSE f[j - 1]]
      BY <3>1 DEF KeyStep
    <3> QED
      BY <3>2
  <2>2. keys = [j \in 0..Len(docs) |->
                      IF j = 0 THEN <<>>
                      ELSE IF docs[j].name \in names \ ToSet(keys[j - 1])
                           THEN Append(keys[j - 1], docs[j].name)
                           ELSE keys[j - 1]]
    BY <2>1
  <2> HIDE DEF keys
  <2> QED
    BY <2>2 DEF KeyStep
<1> HIDE DEF keys
<1>4. \A j \in 0..Len(docs) : keys[j] = KeyStep(docs, names, keys, j)
  BY <1>3
<1>5. Good(0)
  <2>1. keys[0] = <<>>
    BY <1>1, <1>4 DEF KeyStep
  <2> QED
    BY <2>1
<1>6. ASSUME NEW k \in 1..Len(docs), Good(k - 1)
      PROVE  Good(k)
  <2> DEFINE old == keys[k - 1]
             n == docs[k].name
  <2>1. keys[k] = IF n \in names \ ToSet(old) THEN Append(old, n) ELSE old
    BY <1>1, <1>4 DEF KeyStep
  <2>2. old \in Seq(names) /\ \A i, j \in DOMAIN old : old[i] = old[j] => i = j
    BY <1>6
  <2> HIDE DEF old, n
  <2>3. CASE n \in names \ ToSet(old)
    <3>1. keys[k] = Append(old, n)
      BY <2>1, <2>3
    <3>2. /\ Append(old, n) \in Seq(names)
          /\ Len(Append(old, n)) = Len(old) + 1
          /\ \A i \in 1..Len(old) : Append(old, n)[i] = old[i]
          /\ Append(old, n)[Len(old) + 1] = n
      BY <2>2, <2>3
    <3>3. \A i \in 1..Len(old) : old[i] # n
      BY <2>2, <2>3 DEF ToSet
    <3>4. \A i, j \in 1..(Len(old) + 1) :
             Append(old, n)[i] = Append(old, n)[j] => i = j
      <4> SUFFICES ASSUME NEW i \in 1..(Len(old) + 1), NEW j \in 1..(Len(old) + 1),
                          Append(old, n)[i] = Append(old, n)[j]
                   PROVE  i = j
        OBVIOUS
      <4>1. Len(old) \in Nat /\ DOMAIN old = 1..Len(old)
        BY <2>2
      <4>2. (i \in 1..Len(old) \/ i = Len(old) + 1) /\ (j \in 1..Len(old) \/ j = Len(old) + 1)
        BY <4>1
      <4> QED
        BY <2>2, <3>2, <3>3, <4>1, <4>2
    <3>5. DOMAIN Append(old, n) = 1..(Len(old) + 1)
      BY <3>2
    <3> QED
      BY <3>1, <3>2, <3>4, <3>5
  <2>4. CASE ~(n \in names \ ToSet(old))
    BY <2>1, <2>2, <2>4
  <2> QED
    BY <2>3, <2>4
<1>7. Good(Len(docs))
  <2> HIDE DEF Good
  <2> DEFINE S == {k \in 0..Len(docs) : ~Good(k)}
  <2> SUFFICES ASSUME S # {} PROVE FALSE
    BY <1>1
  <2>1. PICK x \in S : \A y \in S : x <= y
    <3>1. S \in SUBSET Nat
      BY <1>1
    <3> HIDE DEF S
    <3> QED
      BY <3>1, LeastNumber
  <2>2. x \in 1..Len(docs)
    BY <1>1, <1>5
  <2>3. x - 1 \in 0..Len(docs) /\ Good(x - 1)
    BY <1>1, <2>1, <2>2
  <2> QED
    BY <1>6, <2>2, <2>3
<1> QED
  BY <1>2, <1>7

-----------------------------------------------------------------------------
(* update_all: what the job gathers from a file of the configuration are   *)
(* documents that validate, for profiles of the configuration, one of each.*)
LEMMA GatheredAre ==
    ASSUME NEW docs \in Files
    PROVE  /\ Gathered(docs) \in Seq(ValidDocs)
           /\ \A j \in DOMAIN Gathered(docs) : Gathered(docs)[j].name \in Names
           /\ Unique(Gathered(docs))
<1> DEFINE all == Packaged \o docs
           merged == Merged(docs)
           valid == {n \in DOMAIN merged : Valid(merged[n])}
           keys == KeysAmong(all, valid)
<1>1. all \in Seq(Configured) /\ \A j \in DOMAIN all : all[j] \in Configured
  <2>1. Packaged \in Seq(Configured) /\ docs \in Seq(Configured)
    BY CycleAssumption
  <2>2. all \in Seq(Configured)
    BY <2>1
  <2> HIDE DEF all
  <2> QED
    BY <2>2
<1>2. merged = Collection(all)
  BY DEF Merged
<1> HIDE DEF all, merged
<1>3. \A j \in DOMAIN all : all[j].name \in Names /\ all[j].body \in Bodies
  BY <1>1 DEF Configured, Docs
<1>4. \A n \in DOMAIN merged : n \in Names /\ merged[n] \in Bodies
  <2>1. DOMAIN merged = NamesOf(all) /\ NamesOf(all) \subseteq Names
    BY <1>1, <1>2, <1>3, CollectionIs DEF NamesOf
  <2> QED
    BY <1>1, <1>2, <1>3, <2>1, CollectionIs
<1>5. keys \in Seq(valid) /\ \A j, k \in DOMAIN keys : keys[j] = keys[k] => j = k
  <2> HIDE DEF valid
  <2> QED
    BY <1>1, KeysAre
<1>6. Gathered(docs) = [j \in DOMAIN keys |-> [name |-> keys[j], body |-> merged[keys[j]]]]
  <2>1. Gathered(docs) = DocsOf(keys, merged)
    BY DEF Gathered, all, merged
  <2> QED
    BY <2>1 DEF DocsOf
<1> HIDE DEF keys
<1>7. Len(keys) \in Nat /\ DOMAIN keys = 1..Len(keys) /\ \A j \in DOMAIN keys : keys[j] \in valid
  BY <1>5
<1>8. ASSUME NEW j \in DOMAIN keys
      PROVE  /\ [name |-> keys[j], body |-> merged[keys[j]]] \in ValidDocs
             /\ keys[j] \in Names
  <2>1. /\ keys[j] \in Names /\ merged[keys[j]] \in Bodies
        /\ Valid(merged[keys[j]])
    BY <1>4, <1>7
  <2> QED
    BY <2>1 DEF ValidDocs, Docs
<1>9. Gathered(docs) \in Seq(ValidDocs)
  <2>1. Gathered(docs) \in [1..Len(keys) -> ValidDocs]
    BY <1>6, <1>7, <1>8
  <2> QED
    BY <1>7, <2>1
<1>10. /\ DOMAIN Gathered(docs) = DOMAIN keys
       /\ \A j \in DOMAIN keys : Gathered(docs)[j].name = keys[j]
  BY <1>6
<1> QED
  BY <1>5, <1>8, <1>9, <1>10 DEF Unique

-----------------------------------------------------------------------------
(* The inductive invariant.                                                *)

Conditionals == {b \in Bodies : Valid(b) /\ b.kind = "conditional"}
Computations == UNION {[S -> Conditionals] : S \in SUBSET Names}
WalkRecords == [stage : Stages, computed : Computations,
                lists : [Periods -> SUBSET (Names \cup Tags)],
                doc : {<<>>} \cup {<<d>> : d \in ValidDocs}]

(* What a setup inserts is an evaluated profile.                           *)
InsertsOne(w) ==
    walk[w].stage = "insert" =>
        \E d \in ValidDocs : walk[w].doc = <<d>> /\ d.name \in Tags

WalkTypes ==
    /\ walk \in [Walks -> WalkRecords]
    /\ \A w \in Walks : InsertsOne(w)

HostTypes ==
    /\ file \in Files
    /\ state \in BOOLEAN /\ attributes \in RowSets /\ device \in Devices
    /\ assigned \in [Periods -> SUBSET (Names \cup Tags)]

JobTypes ==
    /\ job \in [pc : {"due", "fill", "idle"}, docs : Seq(ValidDocs)]
    /\ job.pc = "fill" <=> job.docs # <<>>

(* Only the job writes profiles of the configuration: what it has still to *)
(* insert is not in the collection.                                        *)
JobInsertsNew ==
    /\ \A j \in DOMAIN job.docs : job.docs[j].name \in Names
    /\ Unique(job.docs)
    /\ \A j \in DOMAIN job.docs, k \in DOMAIN stored : job.docs[j].name # stored[k].name

Tables == UNION {[S -> Bodies] : S \in SUBSET (Names \cup Tags)}

ProcessTypes ==
    /\ process \in [Workers -> [up : BOOLEAN, raw : Tables, table : Tables]]
    /\ \A w \in Workers : process[w].up \/ process[w].table = NoTable

(* As long as the setups of the host came one after the other, there is    *)
(* one document of each profile, and what a setup is about to insert is    *)
(* still not in the collection.                                            *)
Ordered ==
    /\ \A v, w \in Walks : InSetup(v) /\ InSetup(w) => v = w
    /\ Unique(stored)
    /\ \A w \in Walks : walk[w].stage = "insert" =>
          \A j \in DOMAIN stored : stored[j].name # walk[w].doc[1].name

IInv ==
    /\ stored \in Seq(ValidDocs)
    /\ HostTypes /\ WalkTypes /\ JobTypes /\ JobInsertsNew /\ ProcessTypes
    /\ ~overlapped => Ordered

-----------------------------------------------------------------------------
(* The values a setup computes have their types.                           *)

(* A walk slot that is free.                                               *)
LEMMA NoWalkTypes == NoWalk \in WalkRecords /\ NoWalk.stage = "free"
<1>1. <<>> \in [{} -> Conditionals]
  OBVIOUS
<1>2. <<>> \in Computations
  BY <1>1 DEF Computations
<1> QED
  BY <1>2 DEF NoWalk, WalkRecords, Stages

(* check_profiles_type: what is computed are valid conditional profiles.   *)
LEMMA ComputedTypes ==
    ASSUME SetupAssumption, NEW docs \in Seq(ValidDocs)
    PROVE  Computed(Collection(docs)) \in Computations
<1> DEFINE c == Collection(docs)
           S == {n \in Listed(c) : c[n].kind = "conditional"}
<1>1. /\ DOMAIN c = NamesOf(docs)
      /\ \A n \in DOMAIN c : c[n] \in Bodies /\ Valid(c[n])
  BY CollectionTypes
<1> HIDE DEF c
<1>2. S \subseteq Names /\ S \subseteq DOMAIN c
  BY DEF SetupAssumption, Listed
<1>3. Computed(c) = [n \in S |-> c[n]]
  BY DEF Computed, Restrict
<1>4. \A n \in S : c[n] \in Conditionals
  BY <1>1, <1>2 DEF Conditionals
<1>5. Computed(c) \in [S -> Conditionals] /\ S \in SUBSET Names
  BY <1>2, <1>3, <1>4
<1> HIDE DEF S
<1>6. Computed(c) \in Computations
  BY <1>5 DEF Computations
<1> QED
  BY <1>6 DEF c

LEMMA WithoutTypes ==
    ASSUME NEW c \in Computations, NEW n
    PROVE  Without(c, n) \in Computations
<1>1. PICK S \in SUBSET Names : c \in [S -> Conditionals]
  BY DEF Computations
<1>2. Without(c, n) = [m \in S \ {n} |-> c[m]]
  BY <1>1 DEF Without, Restrict
<1>3. Without(c, n) \in [S \ {n} -> Conditionals] /\ S \ {n} \in SUBSET Names
  BY <1>1, <1>2
<1> QED
  BY <1>3 DEF Computations

LEMMA ComputationIs ==
    ASSUME NEW c \in Computations, NEW n \in DOMAIN c
    PROVE  n \in Names /\ c[n] \in Conditionals
BY DEF Computations

(* assign_profiles.                                                        *)
LEMMA AssignedTypes ==
    ASSUME NEW docs \in Seq(ValidDocs), NEW fits
    PROVE  AssignedProfiles(Collection(docs), fits) \in [Periods -> SUBSET (Names \cup Tags)]
<1> DEFINE c == Collection(docs)
<1>1. DOMAIN c \subseteq Names \cup Tags
  BY CollectionTypes
<1> HIDE DEF c
<1>2. /\ SmartlyAssigned(c, fits) \subseteq DOMAIN c
      /\ StaticallyAssigned(c) \subseteq DOMAIN c
      /\ Mandatory(c) \subseteq DOMAIN c
  BY DEF SmartlyAssigned, StaticallyAssigned, Listed, Mandatory
<1>3. AssignedProfiles(c, fits) \in [Periods -> SUBSET (Names \cup Tags)]
  BY <1>1, <1>2 DEF AssignedProfiles
<1> QED
  BY <1>3 DEF c

(* generate_conditional_profile: what a valid conditional profile yields   *)
(* is valid, and named for the host.                                       *)
LEMMA EvaluatedTypes ==
    ASSUME SetupAssumption, attributes \in RowSets,
           NEW n \in Names, NEW b \in Conditionals
    PROVE  /\ Evaluated(n, b) \in ValidDocs
           /\ Evaluated(n, b).name = TagOf[n] /\ TagOf[n] \in Tags
           /\ b.period \in Periods
<1>1. b \in Bodies /\ Valid(b) /\ b.kind = "conditional"
  BY DEF Conditionals
<1>2. b.period \in Periods /\ b.objects \in Objects
  BY <1>1 DEF Bodies, Valid
<1>3. TagOf[n] \in Tags
  BY DEF Tags
<1>4. b.period # NoPeriod
  BY <1>2 DEF SetupAssumption
<1>5. Evaluated(n, b).body \in Bodies
  <2>1. Finds(b, attributes) \subseteq Indices
    BY DEF Finds, RowSets
  <2> QED
    BY <1>2, <2>1 DEF Evaluated, Bodies, Kinds
<1>6. Valid(Evaluated(n, b).body)
  BY <1>4 DEF Evaluated, Valid
<1>7. Evaluated(n, b).name = TagOf[n]
  BY DEF Evaluated
<1>8. Evaluated(n, b) \in Docs
  BY <1>3, <1>5 DEF Docs, Evaluated
<1> QED
  BY <1>2, <1>3, <1>6, <1>7, <1>8 DEF ValidDocs

(* add_profile_to_assigned_list.                                           *)
LEMMA AddedTypes ==
    ASSUME SetupAssumption, WalkTypes, attributes \in RowSets,
           NEW w \in Walks, NEW n \in DOMAIN walk[w].computed
    PROVE  /\ n \in Names /\ walk[w].computed[n] \in Conditionals
           /\ Added(w, n) \in WalkRecords
           /\ Added(w, n).stage = walk[w].stage
<1> DEFINE r == walk[w]
           p == r.computed[n].period
<1>1. /\ r \in WalkRecords /\ r.computed \in Computations
      /\ r.lists \in [Periods -> SUBSET (Names \cup Tags)]
  BY DEF WalkTypes, WalkRecords
<1>2. n \in Names /\ r.computed[n] \in Conditionals
  BY <1>1, ComputationIs
<1>3. p \in Periods /\ TagOf[n] \in Tags
  BY <1>2, EvaluatedTypes
<1>4. Without(r.computed, n) \in Computations
  BY <1>1, WithoutTypes
<1> HIDE DEF p
<1>5. [r.lists EXCEPT ![p] = @ \cup {TagOf[n]}] \in [Periods -> SUBSET (Names \cup Tags)]
  BY <1>1, <1>3
<1> DEFINE rest == Without(r.computed, n)
           lists == [r.lists EXCEPT ![p] = @ \cup {TagOf[n]}]
<1>6. Added(w, n) = [stage |-> r.stage, computed |-> rest, lists |-> lists, doc |-> r.doc]
  <2>1. r = [stage |-> r.stage, computed |-> r.computed, lists |-> r.lists, doc |-> r.doc]
    BY <1>1 DEF WalkRecords
  <2>2. Added(w, n) = [[r EXCEPT !.computed = rest] EXCEPT !.lists = lists]
    BY DEF Added, p
  <2> HIDE DEF r, rest, lists
  <2> QED
    BY <2>1, <2>2
<1> HIDE DEF r
<1>7. Added(w, n) \in WalkRecords /\ Added(w, n).stage = r.stage
  BY <1>1, <1>4, <1>5, <1>6 DEF WalkRecords
<1> QED
  BY <1>2, <1>7 DEF r

-----------------------------------------------------------------------------
(* What a step of a setup does to the collection and to its own record:    *)
(* it keeps the names of the documents, begins to insert one whose name is *)
(* not there, or inserts it.                                               *)

SameNames(docs, others) ==
    DOMAIN docs = DOMAIN others /\ \A j \in DOMAIN docs : docs[j].name = others[j].name

Keeps(w) ==
    /\ stored' \in Seq(ValidDocs) /\ SameNames(stored', stored)
    /\ walk'[w].stage # "insert"

Begins(w) ==
    /\ stored' = stored /\ walk[w].stage = "evaluate"
    /\ \E d \in ValidDocs : /\ walk'[w].doc = <<d>> /\ d.name \in Tags
                            /\ \A j \in DOMAIN stored : stored[j].name # d.name

Inserts(w) ==
    /\ walk[w].stage = "insert" /\ walk'[w].stage = "evaluate"
    /\ stored' = stored \o walk[w].doc

SetupEffect(w) ==
    /\ walk' \in [Walks -> WalkRecords] /\ \A v \in Walks \ {w} : walk'[v] = walk[v]
    /\ Keeps(w) \/ Begins(w) \/ Inserts(w)

LEMMA SameNamesOfSame == ASSUME NEW docs PROVE SameNames(docs, docs)
BY DEF SameNames

(* A step that gives a setup another record and leaves the collection.     *)
LEMMA RecordEffect ==
    ASSUME stored \in Seq(ValidDocs), WalkTypes, NEW w \in Walks, NEW r \in WalkRecords,
           walk' = [walk EXCEPT ![w] = r], stored' = stored, r.stage # "insert"
    PROVE  SetupEffect(w)
<1>1. /\ walk' \in [Walks -> WalkRecords] /\ walk'[w] = r
      /\ \A v \in Walks \ {w} : walk'[v] = walk[v]
  BY DEF WalkTypes
<1> QED
  BY <1>1, SameNamesOfSame DEF SetupEffect, Keeps

LEMMA EvaluateEffect ==
    ASSUME SetupAssumption, stored \in Seq(ValidDocs), HostTypes, WalkTypes,
           NEW w \in Walks, NEW n \in Names, Evaluate(w, n)
    PROVE  SetupEffect(w)
<1> DEFINE doc == Evaluated(n, walk[w].computed[n])
           positions == PositionsOf(TagOf[n])
           first == CHOOSE j \in positions : \A k \in positions : j <= k
           added == Added(w, n)
<1>1. n \in DOMAIN walk[w].computed /\ walk[w].stage = "evaluate"
  BY DEF Evaluate, At
<1>2. /\ added \in WalkRecords /\ added.stage = "evaluate"
      /\ walk[w].computed[n] \in Conditionals
  BY <1>1, AddedTypes DEF HostTypes
<1>3. doc \in ValidDocs /\ doc.name = TagOf[n] /\ TagOf[n] \in Tags
  BY <1>2, EvaluatedTypes DEF HostTypes
<1>4. walk \in [Walks -> WalkRecords]
  BY DEF WalkTypes
<1>5. CASE positions # {}
  <2>1. stored' = [stored EXCEPT ![first] = doc] /\ walk' = [walk EXCEPT ![w] = added]
    BY <1>5 DEF Evaluate
  <2>2. first \in DOMAIN stored /\ stored[first].name = TagOf[n]
    <3>1. positions \subseteq DOMAIN stored /\ \A j \in positions : stored[j].name = TagOf[n]
      BY DEF PositionsOf
    <3>2. \E j \in positions : \A k \in positions : j <= k
      <4>1. positions \in SUBSET Nat
        BY <3>1
      <4> HIDE DEF positions
      <4> QED
        BY <1>5, <4>1, LeastNumber
    <3> HIDE DEF positions
    <3> QED
      BY <3>1, <3>2
  <2> HIDE DEF doc, first, added
  <2>3. stored' \in Seq(ValidDocs) /\ SameNames(stored', stored)
    BY <1>3, <2>1, <2>2 DEF SameNames
  <2>4. /\ walk' \in [Walks -> WalkRecords] /\ walk'[w] = added
        /\ \A v \in Walks \ {w} : walk'[v] = walk[v]
    BY <1>2, <1>4, <2>1
  <2> QED
    BY <1>2, <2>3, <2>4 DEF SetupEffect, Keeps
<1>6. CASE positions = {}
  <2> DEFINE r == [added EXCEPT !.stage = "insert", !.doc = <<doc>>]
  <2>1. stored' = stored /\ walk' = [walk EXCEPT ![w] = r]
    BY <1>6 DEF Evaluate
  <2>2. \A j \in DOMAIN stored : stored[j].name # doc.name
    BY <1>3, <1>6 DEF PositionsOf
  <2> HIDE DEF doc, added
  <2>3. r \in WalkRecords /\ r.doc = <<doc>>
    BY <1>2, <1>3 DEF WalkRecords, Stages
  <2> HIDE DEF r
  <2>4. /\ walk' \in [Walks -> WalkRecords] /\ walk'[w] = r
        /\ \A v \in Walks \ {w} : walk'[v] = walk[v]
    BY <1>4, <2>1, <2>3
  <2>5. Begins(w)
    BY <1>1, <1>3, <2>1, <2>2, <2>3, <2>4 DEF Begins
  <2> QED
    BY <2>4, <2>5 DEF SetupEffect
<1> QED
  BY <1>5, <1>6

LEMMA AssignEffect ==
    ASSUME SetupAssumption, stored \in Seq(ValidDocs), WalkTypes, NEW w \in Walks, Assign(w)
    PROVE  SetupEffect(w)
<1> DEFINE c == Computed(Collection(stored))
           a == AssignedProfiles(Collection(stored), state)
           r == [walk[w] EXCEPT !.stage = "evaluate", !.computed = c, !.lists = a]
<1>1. c \in Computations /\ a \in [Periods -> SUBSET (Names \cup Tags)]
  BY ComputedTypes, AssignedTypes
<1>2. walk \in [Walks -> WalkRecords] /\ walk[w] \in WalkRecords
  BY DEF WalkTypes
<1>3. /\ walk' = [walk EXCEPT ![w].stage = "evaluate", ![w].computed = c, ![w].lists = a]
      /\ stored' = stored
  BY DEF Assign
<1> HIDE DEF c, a
<1>4. walk' = [walk EXCEPT ![w] = r]
  BY <1>2, <1>3
<1>5. r \in WalkRecords /\ r.stage # "insert"
  BY <1>1, <1>2 DEF WalkRecords, Stages
<1> HIDE DEF r
<1> QED
  BY <1>3, <1>4, <1>5, RecordEffect

LEMMA InsertEffect ==
    ASSUME WalkTypes, NEW w \in Walks, InsertEvaluated(w)
    PROVE  SetupEffect(w)
<1> DEFINE r == [walk[w] EXCEPT !.stage = "evaluate", !.doc = <<>>]
<1>1. walk \in [Walks -> WalkRecords] /\ walk[w] \in WalkRecords
  BY DEF WalkTypes
<1>2. /\ walk' = [walk EXCEPT ![w].stage = "evaluate", ![w].doc = <<>>]
      /\ stored' = stored \o walk[w].doc /\ walk[w].stage = "insert"
  BY DEF InsertEvaluated, At
<1>3. walk' = [walk EXCEPT ![w] = r]
  BY <1>1, <1>2
<1>4. r \in WalkRecords /\ r.stage = "evaluate"
  BY <1>1 DEF WalkRecords, Stages
<1> HIDE DEF r
<1>5. /\ walk' \in [Walks -> WalkRecords] /\ walk'[w] = r
      /\ \A v \in Walks \ {w} : walk'[v] = walk[v]
  BY <1>1, <1>3, <1>4
<1> QED
  BY <1>2, <1>4, <1>5 DEF SetupEffect, Inserts

LEMMA StepEffect ==
    ASSUME SetupAssumption, stored \in Seq(ValidDocs), HostTypes, WalkTypes, NEW w \in Walks,
           SetupStep(w) \/ SetupRedelivered(w) \/ \E n \in Names : EvaluationFails(w, n)
    PROVE  SetupEffect(w)
<1>1. walk \in [Walks -> WalkRecords] /\ walk[w] \in WalkRecords
  BY DEF WalkTypes
<1>2. CASE Enrich(w)
  <2> DEFINE r == [walk[w] EXCEPT !.stage = "setup"]
  <2>1. walk' = [walk EXCEPT ![w] = r] /\ stored' = stored
    BY <1>1, <1>2 DEF Enrich
  <2>2. r \in WalkRecords /\ r.stage # "insert"
    BY <1>1 DEF WalkRecords, Stages
  <2> HIDE DEF r
  <2> QED
    BY <2>1, <2>2, RecordEffect
<1>3. CASE Assign(w)
  BY <1>3, AssignEffect
<1>4. CASE InsertEvaluated(w)
  BY <1>4, InsertEffect
<1>5. CASE Schedule(w)
  BY <1>5, NoWalkTypes, RecordEffect DEF Schedule
<1>6. ASSUME NEW n \in Names, Evaluate(w, n) PROVE SetupEffect(w)
  BY <1>6, EvaluateEffect
<1>7. CASE SetupRedelivered(w)
  <2> DEFINE r == [NoWalk EXCEPT !.stage = "setup"]
  <2>1. walk' = [walk EXCEPT ![w] = r] /\ stored' = stored
    BY <1>7 DEF SetupRedelivered
  <2>2. r \in WalkRecords /\ r.stage # "insert"
    BY NoWalkTypes DEF WalkRecords, Stages
  <2> HIDE DEF r
  <2> QED
    BY <2>1, <2>2, RecordEffect
<1>8. ASSUME NEW n \in Names, EvaluationFails(w, n) PROVE SetupEffect(w)
  <2> DEFINE c == Without(walk[w].computed, n)
             r == [walk[w] EXCEPT !.computed = c]
  <2>1. /\ walk' = [walk EXCEPT ![w].computed = c] /\ stored' = stored
        /\ walk[w].stage = "evaluate"
    BY <1>8 DEF EvaluationFails, At
  <2>2. c \in Computations
    BY <1>1, WithoutTypes DEF WalkRecords
  <2> HIDE DEF c
  <2>3. walk' = [walk EXCEPT ![w] = r]
    BY <1>1, <2>1
  <2>4. r \in WalkRecords /\ r.stage # "insert"
    BY <1>1, <2>1, <2>2 DEF WalkRecords
  <2> HIDE DEF r
  <2> QED
    BY <2>1, <2>3, <2>4, RecordEffect
<1> QED
  BY <1>2, <1>3, <1>4, <1>5, <1>6, <1>7, <1>8 DEF SetupStep

-----------------------------------------------------------------------------
(* A step of a setup keeps the invariant.                                  *)

(* insert_one appends.                                                     *)
LEMMA InsertedIs ==
    ASSUME stored \in Seq(ValidDocs), NEW d \in ValidDocs, stored' = stored \o <<d>>
    PROVE  /\ stored' \in Seq(ValidDocs)
           /\ Len(stored) \in Nat /\ DOMAIN stored = 1..Len(stored)
           /\ DOMAIN stored' = 1..(Len(stored) + 1)
           /\ \A j \in DOMAIN stored : stored'[j] = stored[j]
           /\ stored'[Len(stored) + 1] = d
OBVIOUS

(* The types of the records, and that the job still inserts new names:     *)
(* a setup writes only names of evaluated profiles.                        *)
LEMMA SetupKeepsTypes ==
    ASSUME SetupAssumption, stored \in Seq(ValidDocs), WalkTypes, JobInsertsNew, UNCHANGED job,
           NEW w \in Walks, SetupEffect(w)
    PROVE  stored' \in Seq(ValidDocs) /\ WalkTypes' /\ JobInsertsNew'
<1>1. walk' \in [Walks -> WalkRecords] /\ \A v \in Walks \ {w} : walk'[v] = walk[v]
  BY DEF SetupEffect
<1>2. \A v \in Walks \ {w} : InsertsOne(v)'
  BY <1>1 DEF WalkTypes, InsertsOne
<1>3. job' = job
  OBVIOUS
<1>4. CASE Keeps(w)
  <2>1. stored' \in Seq(ValidDocs) /\ InsertsOne(w)'
    BY <1>4 DEF Keeps, InsertsOne
  <2>2. DOMAIN stored' = DOMAIN stored /\ \A j \in DOMAIN stored : stored'[j].name = stored[j].name
    BY <1>4 DEF Keeps, SameNames
  <2>3. JobInsertsNew'
    BY <1>3, <2>2 DEF JobInsertsNew, Unique
  <2> QED
    BY <1>1, <1>2, <2>1, <2>3 DEF WalkTypes
<1>5. CASE Begins(w)
  <2>1. stored' = stored /\ InsertsOne(w)'
    BY <1>5 DEF Begins, InsertsOne
  <2>2. JobInsertsNew'
    BY <1>3, <2>1 DEF JobInsertsNew, Unique
  <2> QED
    BY <1>1, <1>2, <2>1, <2>2 DEF WalkTypes
<1>6. CASE Inserts(w)
  <2>1. PICK d \in ValidDocs : walk[w].doc = <<d>> /\ d.name \in Tags
    BY <1>6 DEF Inserts, WalkTypes, InsertsOne
  <2>2. stored' = stored \o <<d>> /\ InsertsOne(w)'
    BY <1>6, <2>1 DEF Inserts, InsertsOne
  <2>3. /\ stored' \in Seq(ValidDocs)
        /\ Len(stored) \in Nat /\ DOMAIN stored = 1..Len(stored)
        /\ DOMAIN stored' = 1..(Len(stored) + 1)
        /\ \A j \in DOMAIN stored : stored'[j] = stored[j]
        /\ stored'[Len(stored) + 1] = d
    BY <2>2, InsertedIs
  <2>4. d.name \notin Names
    BY <2>1 DEF SetupAssumption
  <2>5. ASSUME NEW i \in DOMAIN job.docs, NEW k \in DOMAIN stored'
        PROVE  job.docs[i].name # stored'[k].name
    <3>1. CASE k \in DOMAIN stored
      BY <2>3, <3>1 DEF JobInsertsNew
    <3>2. CASE k = Len(stored) + 1
      BY <2>3, <2>4, <3>2 DEF JobInsertsNew
    <3> QED
      BY <2>3, <3>1, <3>2
  <2>6. JobInsertsNew'
    BY <1>3, <2>5 DEF JobInsertsNew, Unique
  <2> QED
    BY <1>1, <1>2, <2>2, <2>3, <2>6 DEF WalkTypes
<1> QED
  BY <1>4, <1>5, <1>6 DEF SetupEffect

(* inventory_setup_poller: as long as setups come one after the other, the *)
(* one that is under way alone decides what it inserts, and what it found  *)
(* missing is still missing when it does.                                  *)
LEMMA SetupKeepsOrder ==
    ASSUME stored \in Seq(ValidDocs), WalkTypes, Ordered, NEW w \in Walks, SetupEffect(w),
           \A u, v \in Walks : InSetup(u)' /\ InSetup(v)' => u = v
    PROVE  Ordered'
<1>1. \A v \in Walks \ {w} : walk'[v] = walk[v]
  BY DEF SetupEffect
<1>2. CASE Keeps(w)
  <2>1. DOMAIN stored' = DOMAIN stored /\ \A j \in DOMAIN stored : stored'[j].name = stored[j].name
    BY <1>2 DEF Keeps, SameNames
  <2>2. Unique(stored')
    BY <2>1 DEF Ordered, Unique
  <2>3. ASSUME NEW v \in Walks, walk'[v].stage = "insert", NEW j \in DOMAIN stored'
        PROVE  stored'[j].name # walk'[v].doc[1].name
    <3>1. v # w /\ walk'[v] = walk[v]
      BY <1>1, <1>2, <2>3 DEF Keeps
    <3> QED
      BY <2>1, <2>3, <3>1 DEF Ordered
  <2> QED
    BY <2>2, <2>3 DEF Ordered
<1>3. CASE Begins(w)
  <2>1. stored' = stored
    BY <1>3 DEF Begins
  <2>2. ASSUME NEW v \in Walks, walk'[v].stage = "insert", NEW j \in DOMAIN stored'
        PROVE  stored'[j].name # walk'[v].doc[1].name
    <3>1. CASE v = w
      BY <1>3, <2>1, <3>1 DEF Begins
    <3>2. CASE v # w
      BY <1>1, <2>1, <2>2, <3>2 DEF Ordered
    <3> QED
      BY <3>1, <3>2
  <2> QED
    BY <2>1, <2>2 DEF Ordered, Unique
<1>4. CASE Inserts(w)
  <2>1. PICK d \in ValidDocs : walk[w].doc = <<d>>
    BY <1>4 DEF Inserts, WalkTypes, InsertsOne
  <2>2. stored' = stored \o <<d>> /\ walk[w].stage = "insert" /\ walk'[w].stage = "evaluate"
    BY <1>4, <2>1 DEF Inserts
  <2>3. /\ Len(stored) \in Nat /\ DOMAIN stored = 1..Len(stored)
        /\ DOMAIN stored' = 1..(Len(stored) + 1)
        /\ \A j \in DOMAIN stored : stored'[j] = stored[j]
        /\ stored'[Len(stored) + 1] = d
    BY <2>2, InsertedIs
  <2>4. \A j \in DOMAIN stored : stored[j].name # d.name
    BY <2>1, <2>2 DEF Ordered
  <2>5. Unique(stored')
    <3> SUFFICES ASSUME NEW j \in DOMAIN stored', NEW k \in DOMAIN stored',
                        stored'[j].name = stored'[k].name
                 PROVE  j = k
      BY DEF Unique
    <3>1. /\ j \in DOMAIN stored \/ j = Len(stored) + 1
          /\ k \in DOMAIN stored \/ k = Len(stored) + 1
      BY <2>3
    <3>2. CASE j \in DOMAIN stored /\ k \in DOMAIN stored
      BY <2>3, <3>2 DEF Ordered, Unique
    <3>3. CASE ~(j \in DOMAIN stored /\ k \in DOMAIN stored)
      BY <2>3, <2>4, <3>1, <3>3
    <3> QED
      BY <3>2, <3>3
  <2>6. \A v \in Walks : walk'[v].stage # "insert"
    <3> SUFFICES ASSUME NEW v \in Walks, walk'[v].stage = "insert"
                 PROVE  FALSE
      OBVIOUS
    <3>1. InSetup(v)' /\ InSetup(w)'
      BY <2>2 DEF InSetup
    <3> QED
      BY <2>2, <3>1
  <2> QED
    BY <2>5, <2>6 DEF Ordered
<1> QED
  BY <1>2, <1>3, <1>4 DEF SetupEffect

(* What the setups, the device and the file leave of the host's values.    *)
LEMMA SetupKeepsHost ==
    ASSUME SetupAssumption, HostTypes, WalkTypes, stored \in Seq(ValidDocs), NEW w \in Walks,
           SetupStep(w) \/ SetupRedelivered(w) \/ \E n \in Names : EvaluationFails(w, n),
           UNCHANGED file
    PROVE  HostTypes'
<1>1. /\ device.fits \in BOOLEAN /\ device.up \subseteq Indices
      /\ device.down \subseteq Indices /\ device.bare \subseteq Indices
  BY DEF SetupAssumption, HostTypes
<1>2. walk[w].lists \in [Periods -> SUBSET (Names \cup Tags)]
  BY DEF WalkTypes, WalkRecords
<1>3. CASE Enrich(w)
  <2>1. PICK twins \in SUBSET ((device.up \cup device.down)
                                   \ (attributes.up \cup attributes.down)) :
          attributes' = [up   |-> device.up \cup (attributes.up \ device.down),
                         down |-> device.down \cup (attributes.down \ device.up),
                         bare |-> attributes.bare \cup device.bare \cup twins]
    BY <1>3 DEF Enrich
  <2>2. attributes' \in RowSets
    BY <1>1, <2>1 DEF HostTypes, RowSets
  <2> QED
    BY <1>1, <1>3, <2>2 DEF Enrich, HostTypes
<1>4. CASE Schedule(w)
  BY <1>2, <1>4 DEF Schedule, HostTypes
<1>5. CASE Assign(w) \/ InsertEvaluated(w) \/ SetupRedelivered(w)
  BY <1>5 DEF Assign, InsertEvaluated, SetupRedelivered, HostTypes
<1>6. ASSUME NEW n \in Names, Evaluate(w, n) PROVE HostTypes'
  BY <1>6 DEF Evaluate, HostTypes
<1>7. ASSUME NEW n \in Names, EvaluationFails(w, n) PROVE HostTypes'
  BY <1>7 DEF EvaluationFails, HostTypes
<1> QED
  BY <1>3, <1>4, <1>5, <1>6, <1>7 DEF SetupStep

-----------------------------------------------------------------------------
(* The steps of the job.                                                   *)

(* delete_many: nothing is left that could be there twice.                 *)
LEMMA ClearKeeps ==
    ASSUME IInv, JobClear
    PROVE  /\ stored' \in Seq(ValidDocs) /\ HostTypes' /\ WalkTypes' /\ JobTypes'
           /\ JobInsertsNew' /\ ProcessTypes'
           /\ stored' = <<>>
<1> DEFINE docs == Gathered(file)
<1>1. /\ stored' = <<>>
      /\ job' = [pc |-> IF docs = <<>> THEN "idle" ELSE "fill", docs |-> docs]
      /\ UNCHANGED <<state, attributes, assigned, device, walk, file, process>>
  BY DEF JobClear
<1>2. docs \in Seq(ValidDocs) /\ (\A j \in DOMAIN docs : docs[j].name \in Names) /\ Unique(docs)
  BY GatheredAre DEF IInv, HostTypes
<1> HIDE DEF docs
<1>3. job'.docs = docs /\ (job'.pc = "fill" <=> docs # <<>>) /\ job'.pc \in {"idle", "fill"}
  BY <1>1
<1>4. JobTypes'
  BY <1>1, <1>2 DEF JobTypes
<1>5. JobInsertsNew'
  BY <1>1, <1>2, <1>3 DEF JobInsertsNew
<1>6. HostTypes' /\ WalkTypes' /\ ProcessTypes'
  BY <1>1 DEF IInv, HostTypes, WalkTypes, InsertsOne, ProcessTypes
<1> QED
  BY <1>1, <1>4, <1>5, <1>6

(* insert_many, one document of it: its name is not in the collection, and *)
(* no setup is about to insert it.                                         *)
LEMMA FillKeeps ==
    ASSUME SetupAssumption, IInv, JobFill
    PROVE  /\ stored' \in Seq(ValidDocs) /\ HostTypes' /\ WalkTypes' /\ JobTypes'
           /\ JobInsertsNew' /\ ProcessTypes'
           /\ Ordered => Unique(stored')
           /\ Ordered => \A w \in Walks : walk'[w].stage = "insert" =>
                            \A j \in DOMAIN stored' : stored'[j].name # walk'[w].doc[1].name
<1> DEFINE docs == job.docs
           d == docs[1]
<1>1. docs \in Seq(ValidDocs) /\ docs # <<>> /\ job.pc = "fill"
  BY DEF JobFill, IInv, JobTypes
<1>2. /\ stored' = Append(stored, d)
      /\ job' = [pc |-> IF Len(docs) = 1 THEN "idle" ELSE "fill", docs |-> Tail(docs)]
      /\ UNCHANGED <<state, attributes, assigned, device, walk, file, process>>
  BY <1>1 DEF JobFill
<1>3. /\ \A j \in DOMAIN docs : docs[j].name \in Names
      /\ \A j, k \in DOMAIN docs : docs[j].name = docs[k].name => j = k
      /\ \A j \in DOMAIN docs, k \in DOMAIN stored : docs[j].name # stored[k].name
  BY DEF IInv, JobInsertsNew, Unique
<1>4. stored \in Seq(ValidDocs)
  BY DEF IInv
<1> HIDE DEF docs
<1>5. /\ Len(docs) \in Nat \ {0} /\ DOMAIN docs = 1..Len(docs) /\ 1 \in DOMAIN docs
      /\ d \in ValidDocs
  BY <1>1
<1>6. /\ Tail(docs) \in Seq(ValidDocs)
      /\ DOMAIN Tail(docs) = 1..(Len(docs) - 1)
      /\ \A j \in 1..(Len(docs) - 1) : Tail(docs)[j] = docs[j + 1]
      /\ Len(docs) = 1 <=> Tail(docs) = <<>>
  <2>1. Tail(docs) \in Seq(ValidDocs) /\ Len(Tail(docs)) = Len(docs) - 1
    BY <1>1
  <2>2. \A j \in 1..(Len(docs) - 1) : Tail(docs)[j] = docs[j + 1]
    BY <1>1
  <2>3. DOMAIN Tail(docs) = 1..Len(Tail(docs))
    BY <2>1
  <2>4. Len(docs) = 1 <=> Len(Tail(docs)) = 0
    BY <1>5, <2>1
  <2>5. Len(Tail(docs)) = 0 <=> Tail(docs) = <<>>
    <3>1. \A t \in Seq(ValidDocs) : Len(t) = 0 <=> t = <<>>
      OBVIOUS
    <3> QED
      BY <2>1, <3>1, Zenon
  <2> QED
    BY <2>1, <2>2, <2>3, <2>4, <2>5
<1> HIDE DEF d
<1>7. /\ stored' \in Seq(ValidDocs)
      /\ Len(stored) \in Nat /\ DOMAIN stored = 1..Len(stored)
      /\ DOMAIN stored' = 1..(Len(stored) + 1)
      /\ \A j \in DOMAIN stored : stored'[j] = stored[j]
      /\ stored'[Len(stored) + 1] = d
  BY <1>2, <1>4, <1>5
<1>8. d.name \in Names /\ \A k \in DOMAIN stored : d.name # stored[k].name
  BY <1>3, <1>5 DEF d
<1>9. JobTypes'
  BY <1>2, <1>6 DEF JobTypes
<1>10. JobInsertsNew'
  <2>1. job'.docs = Tail(docs)
    BY <1>2
  <2>2. \A j \in DOMAIN Tail(docs) :
            j + 1 \in DOMAIN docs /\ j + 1 # 1 /\ Tail(docs)[j] = docs[j + 1]
    BY <1>5, <1>6
  <2>3. \A j \in DOMAIN Tail(docs) : Tail(docs)[j].name \in Names
    BY <1>3, <2>2
  <2>4. Unique(Tail(docs))
    <3>1. \A j, k \in DOMAIN Tail(docs) : j + 1 = k + 1 => j = k
      BY <1>5, <1>6
    <3> QED
      BY <1>3, <2>2, <3>1 DEF Unique
  <2>5. \A j \in DOMAIN Tail(docs) : Tail(docs)[j].name # d.name
    BY <1>3, <1>5, <2>2 DEF d
  <2>6. ASSUME NEW j \in DOMAIN Tail(docs), NEW k \in DOMAIN stored'
        PROVE  Tail(docs)[j].name # stored'[k].name
    <3>1. CASE k \in DOMAIN stored
      BY <1>3, <1>7, <2>2, <3>1
    <3>2. CASE k = Len(stored) + 1
      BY <1>7, <2>5, <3>2
    <3> QED
      BY <1>7, <3>1, <3>2
  <2> QED
    BY <2>1, <2>3, <2>4, <2>6 DEF JobInsertsNew
<1>11. HostTypes' /\ WalkTypes' /\ ProcessTypes'
  BY <1>2 DEF IInv, HostTypes, WalkTypes, InsertsOne, ProcessTypes
<1>12. ASSUME Ordered PROVE Unique(stored')
  <2> SUFFICES ASSUME NEW j \in DOMAIN stored', NEW k \in DOMAIN stored',
                      stored'[j].name = stored'[k].name
               PROVE  j = k
    BY DEF Unique
  <2>1. /\ j \in DOMAIN stored \/ j = Len(stored) + 1
        /\ k \in DOMAIN stored \/ k = Len(stored) + 1
    BY <1>7
  <2>2. CASE j \in DOMAIN stored /\ k \in DOMAIN stored
    BY <1>7, <1>12, <2>2 DEF Ordered, Unique
  <2>3. CASE ~(j \in DOMAIN stored /\ k \in DOMAIN stored)
    BY <1>7, <1>8, <2>1, <2>3
  <2> QED
    BY <2>2, <2>3
<1>13. ASSUME Ordered, NEW w \in Walks, walk'[w].stage = "insert", NEW j \in DOMAIN stored'
       PROVE  stored'[j].name # walk'[w].doc[1].name
  <2>1. walk'[w] = walk[w] /\ walk[w].stage = "insert"
    BY <1>2, <1>13
  <2>2. walk[w].doc[1].name \in Tags
    BY <2>1 DEF IInv, WalkTypes, InsertsOne
  <2>3. CASE j \in DOMAIN stored
    BY <1>7, <1>13, <2>1, <2>3 DEF Ordered
  <2>4. CASE j = Len(stored) + 1
    <3>1. d.name \notin Tags
      BY <1>8 DEF SetupAssumption
    <3> QED
      BY <1>7, <2>1, <2>2, <2>4, <3>1
  <2> QED
    BY <1>7, <2>3, <2>4
<1> QED
  BY <1>7, <1>9, <1>10, <1>11, <1>12, <1>13

-----------------------------------------------------------------------------
(* The steps of the processes.                                             *)

LEMMA TableIs ==
    ASSUME NEW t \in Tables
    PROVE  /\ DOMAIN t \subseteq Names \cup Tags
           /\ \A n \in DOMAIN t : t[n] \in Bodies
           /\ t = [n \in DOMAIN t |-> t[n]]
BY DEF Tables

LEMMA IsTable ==
    ASSUME NEW S \in SUBSET (Names \cup Tags), NEW t, DOMAIN t = S, t = [n \in S |-> t[n]],
           \A n \in S : t[n] \in Bodies
    PROVE  t \in Tables
<1>1. t \in [S -> Bodies]
  OBVIOUS
<1> QED
  BY <1>1 DEF Tables

(* return_collection yields such a table.                                  *)
LEMMA CollectionIsTable ==
    ASSUME NEW docs \in Seq(ValidDocs)
    PROVE  Collection(docs) \in Tables
<1> DEFINE c == Collection(docs)
<1>1. /\ DOMAIN c = NamesOf(docs) /\ NamesOf(docs) \subseteq Names \cup Tags
      /\ \A n \in NamesOf(docs) : c[n] \in Bodies
  BY CollectionTypes
<1>2. c = [n \in NamesOf(docs) |-> c[n]]
  BY DEF Collection
<1> HIDE DEF c
<1>3. c \in Tables
  BY <1>1, <1>2, IsTable
<1> QED
  BY <1>3 DEF c

(* ProfileCollection.update: the table keeps every name that it has, and   *)
(* gets no other ones than those of the documents.                         *)
LEMMA UpdatedTable ==
    ASSUME NEW docs \in Seq(ValidDocs), NEW p \in [up : BOOLEAN, raw : Tables, table : Tables]
    PROVE  LET q == Updated(p, Collection(docs), KeysOf(docs))
           IN  /\ q \in [up : BOOLEAN, raw : Tables, table : Tables] /\ q.up = p.up
               /\ DOMAIN p.table \subseteq DOMAIN q.table
<1> DEFINE read == Collection(docs)
           keys == KeysOf(docs)
           done == {keys[j] : j \in {k \in DOMAIN keys :
                        \A l \in 1..k : read[keys[l]].objects # Malformed}}
           table == [n \in done \cup DOMAIN p.table |-> IF n \in done THEN read[n] ELSE p.table[n]]
           q == Updated(p, read, keys)
<1>1. done \subseteq NamesOf(docs)
  <2>1. keys \in Seq(NamesOf(docs))
    BY KeysAre DEF KeysOf
  <2>2. \A j \in DOMAIN keys : keys[j] \in NamesOf(docs)
    BY <2>1
  <2> HIDE DEF keys
  <2> QED
    BY <2>2
<1>2. q = IF read = p.raw THEN p ELSE [p EXCEPT !.raw = read, !.table = table]
  BY DEF Updated
<1> HIDE DEF done
<1>3. /\ DOMAIN p.table \subseteq Names \cup Tags
      /\ \A n \in DOMAIN p.table : p.table[n] \in Bodies
  BY TableIs
<1>4. /\ NamesOf(docs) \subseteq Names \cup Tags
      /\ \A n \in NamesOf(docs) : read[n] \in Bodies
  BY CollectionTypes
<1>5. read \in Tables
  BY CollectionIsTable
<1>6. table \in Tables /\ DOMAIN p.table \subseteq DOMAIN table
  <2> DEFINE S == done \cup DOMAIN p.table
  <2>1. S \in SUBSET (Names \cup Tags) /\ DOMAIN table = S
    BY <1>1, <1>3, <1>4
  <2>2. \A n \in S : table[n] \in Bodies
    BY <1>1, <1>3, <1>4
  <2>3. table = [n \in S |-> table[n]]
    OBVIOUS
  <2> HIDE DEF table, S
  <2>4. table \in Tables
    BY <2>1, <2>2, <2>3, IsTable
  <2> QED
    BY <2>1, <2>4 DEF S
<1> HIDE DEF read, keys, table, q
<1>7. CASE read = p.raw
  <2>1. q = p
    BY <1>2, <1>7
  <2> QED
    BY <2>1 DEF q, read, keys
<1>8. CASE read # p.raw
  <2>1. q = [up |-> p.up, raw |-> read, table |-> table]
    <3>1. p = [up |-> p.up, raw |-> p.raw, table |-> p.table]
      OBVIOUS
    <3> QED
      BY <1>2, <1>8, <3>1
  <2>2. q \in [up : BOOLEAN, raw : Tables, table : Tables] /\ q.up = p.up /\ q.table = table
    BY <1>5, <1>6, <2>1
  <2> QED
    BY <1>6, <2>2 DEF q, read, keys
<1> QED
  BY <1>7, <1>8

LEMMA DownTypes == Down \in [up : BOOLEAN, raw : Tables, table : Tables] /\ Down.table = NoTable
<1>1. DOMAIN NoTable = {} /\ NoTable = [n \in {} |-> NoTable[n]]
  BY DEF NoTable
<1> HIDE DEF NoTable
<1>2. NoTable \in Tables
  BY <1>1, IsTable
<1> QED
  BY <1>2 DEF Down

(* What may happen to the table of a process in a step.                    *)
TablesGrow ==
    \A w \in Workers, p \in Periods : process'[w].up =>
        assigned[p] \cap DOMAIN process[w].table \subseteq DOMAIN process'[w].table

(* Poller.__init__, do_work and the end of a process.                      *)
LEMMA ProcessKeeps ==
    ASSUME stored \in Seq(ValidDocs), ProcessTypes, NEW w \in Workers,
           StartProcess(w) \/ Reload(w) \/ ProcessEnds(w)
    PROVE  ProcessTypes' /\ TablesGrow /\ UNCHANGED <<setupVars, file, job>>
<1> DEFINE Records == [up : BOOLEAN, raw : Tables, table : Tables]
<1>1. process \in [Workers -> Records] /\ process[w] \in Records
  BY DEF ProcessTypes
<1> SUFFICES ASSUME NEW q \in Records, process' = [process EXCEPT ![w] = q],
                    q.up \/ q.table = NoTable,
                    q.up => DOMAIN process[w].table \subseteq DOMAIN q.table
             PROVE  ProcessTypes' /\ TablesGrow
  <2>1. CASE StartProcess(w)
    <3> DEFINE read == Collection(stored)
               q == [up |-> TRUE, raw |-> read, table |-> read]
    <3>1. read \in Tables
      BY CollectionIsTable
    <3>2. /\ process' = [process EXCEPT ![w] = q] /\ ~process[w].up
          /\ UNCHANGED <<setupVars, file, job>>
      BY <2>1 DEF StartProcess
    <3>3. DOMAIN process[w].table = {}
      BY <3>2 DEF ProcessTypes, NoTable
    <3> HIDE DEF read
    <3>4. q \in Records /\ q.up
      BY <3>1
    <3> HIDE DEF q
    <3> QED
      BY <3>2, <3>3, <3>4
  <2>2. CASE Reload(w)
    <3> DEFINE q == Updated(process[w], Collection(stored), KeysOf(stored))
    <3>1. /\ process' = [process EXCEPT ![w] = q] /\ process[w].up
          /\ UNCHANGED <<setupVars, file, job>>
      BY <2>2 DEF Reload
    <3>2. q \in Records /\ q.up = process[w].up /\ DOMAIN process[w].table \subseteq DOMAIN q.table
      BY <1>1, UpdatedTable
    <3> HIDE DEF q
    <3> QED
      BY <3>1, <3>2
  <2>3. CASE ProcessEnds(w)
    <3>1. process' = [process EXCEPT ![w] = Down] /\ UNCHANGED <<setupVars, file, job>>
      BY <2>3 DEF ProcessEnds
    <3>2. Down \in Records /\ Down.table = NoTable /\ ~Down.up
      BY DownTypes DEF Down
    <3> QED
      BY <3>1, <3>2
  <2> QED
    BY <2>1, <2>2, <2>3
<1>2. process'[w] = q /\ \A v \in Workers \ {w} : process'[v] = process[v]
  BY <1>1
<1>3. ProcessTypes'
  BY <1>1, <1>2 DEF ProcessTypes
<1>4. TablesGrow
  BY <1>2 DEF TablesGrow
<1> QED
  BY <1>3, <1>4

-----------------------------------------------------------------------------
(* The invariant.                                                          *)

LEMMA InitIInv == Init => IInv
<1> SUFFICES ASSUME Init PROVE IInv
  OBVIOUS
<1> USE DEF Init
<1>1. stored \in Seq(ValidDocs) /\ stored = <<>>
  OBVIOUS
<1>2. HostTypes
  <2>1. attributes \in RowSets
    BY DEF RowSets
  <2> QED
    BY <2>1, CycleAssumption DEF HostTypes
<1>3. WalkTypes
  BY NoWalkTypes DEF WalkTypes, InsertsOne
<1>4. JobTypes /\ JobInsertsNew
  BY DEF JobTypes, JobInsertsNew, Unique
<1>5. ProcessTypes
  BY DownTypes DEF ProcessTypes
<1>6. Ordered
  BY NoWalkTypes DEF Ordered, InSetup, Unique
<1> QED
  BY <1>1, <1>2, <1>3, <1>4, <1>5, <1>6 DEF IInv

(* A step that leaves the collection and the setups alone keeps the order. *)
LEMMA OthersKeepOrder ==
    ASSUME Ordered, UNCHANGED <<stored, walk>>
    PROVE  Ordered'
BY DEF Ordered, InSetup, Unique

LEMMA StutterKeeps == IInv /\ UNCHANGED vars => IInv'
<1> SUFFICES ASSUME IInv, UNCHANGED vars PROVE IInv'
  OBVIOUS
<1> USE DEF vars, setupVars, cycleVars
<1>1. ~overlapped' => Ordered'
  BY OthersKeepOrder DEF IInv
<1>2. stored' \in Seq(ValidDocs) /\ HostTypes' /\ JobTypes' /\ JobInsertsNew'
  BY DEF IInv, HostTypes, JobTypes, JobInsertsNew, Unique
<1>3. WalkTypes' /\ ProcessTypes'
  BY DEF IInv, WalkTypes, InsertsOne, ProcessTypes
<1> QED
  BY <1>1, <1>2, <1>3 DEF IInv

LEMMA SetupKeeps ==
    ASSUME IInv, RecordOverlap, NEW w \in Walks, SetupAction(w) \/ SetupFault(w)
    PROVE  IInv'
<1>1. /\ SetupStep(w) \/ SetupRedelivered(w) \/ \E n \in Names : EvaluationFails(w, n)
      /\ UNCHANGED <<file, job, process>>
  BY DEF SetupAction, SetupFault
<1>2. stored \in Seq(ValidDocs) /\ HostTypes /\ WalkTypes /\ JobInsertsNew
  BY DEF IInv
<1>3. SetupEffect(w)
  BY <1>1, <1>2, SetupAssumption, StepEffect
<1>4. stored' \in Seq(ValidDocs) /\ WalkTypes' /\ JobInsertsNew'
  BY <1>1, <1>2, <1>3, SetupAssumption, SetupKeepsTypes
<1>5. HostTypes'
  BY <1>1, <1>2, SetupAssumption, SetupKeepsHost
<1>6. JobTypes' /\ ProcessTypes'
  BY <1>1 DEF IInv, JobTypes, ProcessTypes
<1>7. ASSUME ~overlapped' PROVE Ordered'
  <2>1. ~overlapped /\ \A u, v \in Walks : InSetup(u)' /\ InSetup(v)' => u = v
    BY <1>7 DEF RecordOverlap
  <2> QED
    BY <1>2, <1>3, <2>1, SetupKeepsOrder DEF IInv
<1> QED
  BY <1>4, <1>5, <1>6, <1>7 DEF IInv

LEMMA JobKeeps ==
    ASSUME IInv, RecordOverlap, JobClear \/ JobFill \/ JobCrash
    PROVE  IInv'
<1>1. walk' = walk
  BY DEF JobClear, JobFill, JobCrash, setupVars
<1>2. ~overlapped' => ~overlapped /\ \A u, v \in Walks : InSetup(u)' /\ InSetup(v)' => u = v
  BY DEF RecordOverlap
<1>3. CASE JobClear
  <2>1. /\ stored' \in Seq(ValidDocs) /\ HostTypes' /\ WalkTypes' /\ JobTypes'
        /\ JobInsertsNew' /\ ProcessTypes' /\ stored' = <<>>
    BY <1>3, ClearKeeps
  <2>2. DOMAIN stored' = {}
    BY <2>1
  <2>3. ~overlapped' => Ordered'
    BY <1>2, <2>2 DEF Ordered, Unique
  <2> QED
    BY <2>1, <2>3 DEF IInv
<1>4. CASE JobFill
  <2>1. /\ stored' \in Seq(ValidDocs) /\ HostTypes' /\ WalkTypes' /\ JobTypes'
        /\ JobInsertsNew' /\ ProcessTypes'
        /\ Ordered => Unique(stored')
        /\ Ordered => \A w \in Walks : walk'[w].stage = "insert" =>
                         \A j \in DOMAIN stored' : stored'[j].name # walk'[w].doc[1].name
    BY <1>4, SetupAssumption, FillKeeps
  <2>2. ASSUME ~overlapped' PROVE Ordered'
    <3>1. Ordered
      BY <1>2, <2>2 DEF IInv
    <3>2. /\ Unique(stored')
          /\ \A w \in Walks : walk'[w].stage = "insert" =>
                \A j \in DOMAIN stored' : stored'[j].name # walk'[w].doc[1].name
      BY <2>1, <3>1
    <3>3. \A u, v \in Walks : InSetup(u)' /\ InSetup(v)' => u = v
      BY <1>2, <2>2
    <3> QED
      BY <3>2, <3>3 DEF Ordered
  <2> QED
    BY <2>1, <2>2 DEF IInv
<1>5. CASE JobCrash
  <2>1. /\ job' = [pc |-> "due", docs |-> <<>>]
        /\ UNCHANGED <<stored, state, attributes, assigned, device, walk, file, process>>
    BY <1>5 DEF JobCrash, setupVars
  <2>2. JobTypes' /\ JobInsertsNew'
    BY <2>1 DEF JobTypes, JobInsertsNew, Unique
  <2>3. stored' \in Seq(ValidDocs) /\ HostTypes' /\ WalkTypes' /\ ProcessTypes'
    BY <2>1 DEF IInv, HostTypes, WalkTypes, InsertsOne, ProcessTypes
  <2>4. ~overlapped' => Ordered'
    BY <1>2, <2>1, OthersKeepOrder DEF IInv
  <2> QED
    BY <2>2, <2>3, <2>4 DEF IInv
<1> QED
  BY <1>3, <1>4, <1>5

LEMMA ProcessesKeep ==
    ASSUME IInv, RecordOverlap, NEW w \in Workers, StartProcess(w) \/ Reload(w) \/ ProcessEnds(w)
    PROVE  IInv'
<1>1. ProcessTypes' /\ UNCHANGED <<setupVars, file, job>>
  BY ProcessKeeps DEF IInv
<1>2. UNCHANGED <<stored, state, attributes, assigned, device, walk, file, job>>
  BY <1>1 DEF setupVars
<1>3. stored' \in Seq(ValidDocs) /\ HostTypes' /\ WalkTypes' /\ JobTypes' /\ JobInsertsNew'
  BY <1>2 DEF IInv, HostTypes, WalkTypes, InsertsOne, JobTypes, JobInsertsNew, Unique
<1>4. ~overlapped' => ~overlapped
  BY DEF RecordOverlap
<1>5. ~overlapped' => Ordered'
  BY <1>2, <1>4, OthersKeepOrder DEF IInv
<1> QED
  BY <1>1, <1>3, <1>5 DEF IInv

LEMMA EventsKeep ==
    ASSUME IInv, RecordOverlap, EditFile \/ DeviceChanges
    PROVE  IInv'
<1>1. UNCHANGED <<stored, state, attributes, assigned, walk, process>>
  BY DEF EditFile, DeviceChanges, setupVars
<1>2. ~overlapped' => ~overlapped
  BY DEF RecordOverlap
<1>3. ~overlapped' => Ordered'
  BY <1>1, <1>2, OthersKeepOrder DEF IInv
<1>4. HostTypes'
  BY <1>1 DEF IInv, HostTypes, EditFile, DeviceChanges, setupVars
<1>5. job'.docs = job.docs /\ JobTypes'
  <2>1. /\ job \in [pc : {"due", "fill", "idle"}, docs : Seq(ValidDocs)]
        /\ job.pc = "fill" <=> job.docs # <<>>
    BY DEF IInv, JobTypes
  <2>2. job' = job \/ (job.pc = "idle" /\ job' = [job EXCEPT !.pc = "due"])
    BY DEF EditFile, DeviceChanges
  <2>3. CASE job' = job
    BY <2>1, <2>3 DEF JobTypes
  <2>4. CASE job.pc = "idle" /\ job' = [job EXCEPT !.pc = "due"]
    <3>1. /\ job'.docs = job.docs /\ job'.pc = "due"
          /\ job' \in [pc : {"due", "fill", "idle"}, docs : Seq(ValidDocs)]
      BY <2>1, <2>4
    <3> QED
      BY <2>1, <2>4, <3>1 DEF JobTypes
  <2> QED
    BY <2>2, <2>3, <2>4
<1>6. stored' \in Seq(ValidDocs) /\ WalkTypes' /\ ProcessTypes' /\ JobInsertsNew'
  BY <1>1, <1>5 DEF IInv, WalkTypes, InsertsOne, ProcessTypes, JobInsertsNew, Unique
<1> QED
  BY <1>3, <1>4, <1>5, <1>6 DEF IInv

LEMMA NextIInv == IInv /\ [Next]_vars => IInv'
<1> SUFFICES ASSUME IInv, [Next]_vars PROVE IInv'
  OBVIOUS
<1>2. CASE UNCHANGED vars
  BY <1>2, StutterKeeps
<1>3. CASE Next
  <2>1. RecordOverlap
    BY <1>3 DEF Next
  <2>2. CASE EditFile \/ DeviceChanges
    BY <2>1, <2>2, EventsKeep
  <2>3. CASE JobClear \/ JobFill \/ JobCrash
    BY <2>1, <2>3, JobKeeps
  <2>4. ASSUME NEW w \in Workers, StartProcess(w) \/ Reload(w) \/ ProcessEnds(w)
        PROVE  IInv'
    BY <2>1, <2>4, ProcessesKeep
  <2>5. ASSUME NEW w \in Walks, SetupAction(w) \/ SetupFault(w)
        PROVE  IInv'
    BY <2>1, <2>5, SetupKeeps
  <2> QED
    BY <1>3, <2>2, <2>3, <2>4, <2>5 DEF Next
<1> QED
  BY <1>2, <1>3

LEMMA Invariance == Spec => []IInv
BY InitIInv, NextIInv, PTL DEF Spec

(* Whatever profiles, files, devices, walks and workers there are: the     *)
(* documents, the setups, the lists of the schedule, the job and the       *)
(* tables of the processes keep their types; the job stores and a setup    *)
(* evaluates only profiles that validate.                                  *)
THEOREM TypesHold == Spec => []TypeOK
<1>1. ASSUME IInv PROVE TypeOK
  <2>1. stored \in Seq(Docs) /\ \A j \in DOMAIN stored : Valid(stored[j].body)
    <3>1. stored \in Seq(ValidDocs) /\ \A j \in DOMAIN stored : stored[j] \in ValidDocs
      BY <1>1 DEF IInv
    <3>2. ValidDocs \subseteq Docs
      BY DEF ValidDocs
    <3>3. stored \in Seq(Docs)
      BY <3>1, <3>2
    <3> QED
      BY <3>1, <3>3 DEF ValidDocs
  <2>2. \A w \in Walks : walk[w].stage \in Stages /\ DOMAIN walk[w].computed \subseteq Names
    BY <1>1, ComputationIs DEF IInv, WalkTypes, WalkRecords
  <2>3. job.pc \in {"due", "fill", "idle"} /\ job.docs \in Seq(Docs)
    <3>1. job.docs \in Seq(ValidDocs) /\ ValidDocs \subseteq Docs
      BY <1>1 DEF IInv, JobTypes, ValidDocs
    <3>2. job.docs \in Seq(Docs)
      BY <3>1
    <3> QED
      BY <1>1, <3>2 DEF IInv, JobTypes
  <2>4. \A w \in Workers : DOMAIN process[w].table \subseteq Names \cup Tags
    BY <1>1, TableIs DEF IInv, ProcessTypes
  <2> QED
    BY <1>1, <2>1, <2>2, <2>3, <2>4 DEF TypeOK, IInv, HostTypes
<1> QED
  BY <1>1, Invariance, PTL

(* The collection profiles has no unique index and inventory_setup_poller  *)
(* looks before it inserts; still, however the inventory job, its crashes, *)
(* failed evaluations and redelivered setups fall between the two, one     *)
(* profile gets two documents only when two setups of the host were under  *)
(* way at a time.                                                          *)
THEOREM TwinsHold == Spec => []TwinsNeedOverlap
<1>1. IInv => TwinsNeedOverlap
  BY DEF IInv, Ordered, Unique, TwinsNeedOverlap, Twins
<1> QED
  BY <1>1, Invariance, PTL

(* update_all empties the collection and fills it document by document;    *)
(* whatever part of it a worker reads when it reloads, it can still look   *)
(* up every profile that it could before.                                  *)
THEOREM GapHolds == Spec => GapLosesNoProfile
<1>1. ASSUME IInv, [Next]_vars PROVE [TablesGrow]_vars
  <2>1. ASSUME NEW w \in Workers, StartProcess(w) \/ Reload(w) \/ ProcessEnds(w)
        PROVE  TablesGrow
    BY <1>1, <2>1, ProcessKeeps DEF IInv
  <2>2. CASE process' = process
    BY <2>2 DEF TablesGrow
  <2>3. Next => \/ process' = process
               \/ \E w \in Workers : StartProcess(w) \/ Reload(w) \/ ProcessEnds(w)
    BY DEF Next, EditFile, DeviceChanges, JobClear, JobFill, JobCrash, SetupAction, SetupFault
  <2> QED
    BY <1>1, <2>1, <2>2, <2>3 DEF vars, cycleVars
<1>2. ASSUME [TablesGrow]_vars
      PROVE  [\A w \in Workers, p \in Periods : process'[w].up =>
                assigned[p] \cap DOMAIN process[w].table \subseteq DOMAIN process'[w].table]_vars
  BY <1>2 DEF TablesGrow
<1> QED
  BY <1>1, <1>2, Invariance, PTL DEF Spec, GapLosesNoProfile
=============================================================================
