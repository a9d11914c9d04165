--------------------------- MODULE BulkWalk_proofs ---------------------------
(***************************************************************************)
(* A bulk walk yields no instance twice for one varbind and, if the agent  *)
(* answers whole rows, misses none of a chunk that is not passed over, and *)
(* its rounds are bounded: for any subtrees, nested ones too, chunks,      *)
(* repetitions, retries and changes of the agent's rows.                   *)
(***************************************************************************)
EXTENDS BulkWalk, FiniteSetTheorems, WellFoundedInduction, TLAPS

(* A set of instances that is not empty has a smallest and a greatest one. *)
LEMMA Extremes ==
    ASSUME NEW S \in SUBSET Oids, S # {}
    PROVE  /\ \E x \in S : \A y \in S : x <= y
           /\ Greatest(S) \in S /\ \A y \in S : y <= Greatest(S)
<1>1. S \in SUBSET Nat /\ Oids \in SUBSET Nat /\ IsFiniteSet(Oids)
  <2>1. Oids \in SUBSET Nat /\ \A n \in Oids : n <= NumOids
    BY BoundsAssumption DEF Oids
  <2> QED
    BY <2>1, FS_BoundedSetOfNaturals, BoundsAssumption
<1>2. ASSUME NEW Chain \in SUBSET SUBSET S, Chain # {}
      PROVE  \E A \in Chain : \A B \in Chain : B \subseteq A => B = A
  <2>1. Chain \subseteq FiniteSubsetsOf(Oids)
    BY <1>1, <1>2, FS_Subset DEF FiniteSubsetsOf
  <2>2. IsWellFoundedOn(StrictSubsetOrdering(Oids), FiniteSubsetsOf(Oids))
    BY FS_StrictSubsetOrderingWellFounded
  <2>3. PICK A \in Chain : \A B \in Chain : ~ (<<B, A>> \in StrictSubsetOrdering(Oids))
    BY <1>2, <2>1, <2>2, WFMin
  <2>4. ASSUME NEW B \in Chain, B \subseteq A PROVE B = A
    <3>1. ~ (<<B, A>> \in StrictSubsetOrdering(Oids)) /\ A \in SUBSET Oids /\ B \in SUBSET Oids
      BY <2>3
    <3> QED
      BY <2>4, <3>1 DEF StrictSubsetOrdering
  <2> QED
    BY <2>4
<1>3. \E x \in S : \A y \in S : x <= y
  <2> DEFINE Below(x) == {z \in S : z <= x}
  <2>1. {Below(x) : x \in S} \in SUBSET SUBSET S /\ {Below(x) : x \in S} # {}
    OBVIOUS
  <2>2. PICK x \in S : \A y \in S : Below(y) \subseteq Below(x) => Below(y) = Below(x)
    <3> DEFINE Chain == {Below(x) : x \in S}
    <3>1. PICK A \in Chain : \A B \in Chain : B \subseteq A => B = A
      BY <2>1, <1>2
    <3>2. PICK x \in S : A = Below(x)
      OBVIOUS
    <3>3. \A y \in S : Below(y) \in Chain
      OBVIOUS
    <3>4. \A y \in S : Below(y) \subseteq Below(x) => Below(y) = Below(x)
      <4> HIDE DEF Chain, Below
      <4> QED
        BY <3>1, <3>2, <3>3
    <3> QED
      BY <3>4
  <2>3. ASSUME NEW y \in S PROVE x <= y
    <3> SUFFICES ASSUME y < x PROVE FALSE
      BY <1>1
    <3>1. \A z \in S : z <= y => z <= x
      BY <1>1
    <3>2. Below(y) \subseteq Below(x)
      BY <3>1
    <3>3. x \in Below(x) /\ x \notin Below(y)
      BY <1>1
    <3> QED
      BY <2>2, <3>2, <3>3
  <2> QED
    BY <2>3
<1>4. \E x \in S : \A y \in S : y <= x
  <2> DEFINE Above(x) == {z \in S : x <= z}
  <2>1. {Above(x) : x \in S} \in SUBSET SUBSET S /\ {Above(x) : x \in S} # {}
    OBVIOUS
  <2>2. PICK x \in S : \A y \in S : Above(y) \subseteq Above(x) => Above(y) = Above(x)
    <3> DEFINE Chain == {Above(x) : x \in S}
    <3>1. PICK A \in Chain : \A B \in Chain : B \subseteq A => B = A
      BY <2>1, <1>2
    <3>2. PICK x \in S : A = Above(x)
      OBVIOUS
    <3>3. \A y \in S : Above(y) \in Chain
      OBVIOUS
    <3>4. \A y \in S : Above(y) \subseteq Above(x) => Above(y) = Above(x)
      <4> HIDE DEF Chain, Above
      <4> QED
        BY <3>1, <3>2, <3>3
    <3> QED
      BY <3>4
  <2>3. ASSUME NEW y \in S PROVE y <= x
    <3> SUFFICES ASSUME x < y PROVE FALSE
      BY <1>1
    <3>1. \A z \in S : y <= z => x <= z
      BY <1>1
    <3>2. Above(y) \subseteq Above(x)
      BY <3>1
    <3>3. x \in Above(x) /\ x \notin Above(y)
      BY <1>1
    <3> QED
      BY <2>2, <3>2, <3>3
  <2> QED
    BY <2>3
<1> QED
  BY <1>3, <1>4 DEF Greatest

(* The agent's answer to a request for n instances after o is a prefix of  *)
(* what it has after o, and not empty unless it has nothing there.         *)
LEMMA FirstAfterPrefix ==
    ASSUME agent \in SUBSET Oids, NEW o \in Nat, NEW n \in Nat
    PROVE  /\ FirstAfter(o, n) \subseteq After(o)
           /\ \A y \in FirstAfter(o, n), z \in After(o) : z < y => z \in FirstAfter(o, n)
           /\ n >= 1 /\ After(o) # {} => FirstAfter(o, n) # {}
<1> DEFINE Upto(y) == {z \in agent : o < z /\ z <= y}
<1>0. Oids \in SUBSET Nat /\ agent \in SUBSET Nat /\ \A s \in agent : s <= NumOids
  BY BoundsAssumption DEF Oids
<1>1. \A y \in Oids : IsFiniteSet(Upto(y)) /\ Cardinality(Upto(y)) \in Nat
  <2> TAKE y \in Oids
  <2>1. Upto(y) \in SUBSET Nat /\ \A s \in Upto(y) : s <= NumOids
    BY <1>0
  <2> QED
    BY <2>1, FS_BoundedSetOfNaturals, FS_CardinalityType, BoundsAssumption
<1>2. ASSUME NEW y \in FirstAfter(o, n), NEW z \in After(o), z < y
      PROVE  z \in FirstAfter(o, n)
  <2>1. y \in Oids /\ z \in Oids
    BY <1>2 DEF FirstAfter, After
  <2>2. Upto(z) \in SUBSET Upto(y)
    <3> SUFFICES ASSUME NEW x \in agent, o < x, x <= z PROVE x <= y
      OBVIOUS
    <3> QED
      BY <2>1, <1>0, <1>2
  <2>3. Cardinality(Upto(z)) <= Cardinality(Upto(y))
    BY <2>1, <2>2, <1>1, FS_Subset
  <2>4. Cardinality(Upto(y)) <= n
    BY DEF FirstAfter
  <2>5. Cardinality(Upto(z)) <= n
    BY <2>1, <2>3, <2>4, <1>1
  <2> QED
    BY <2>5 DEF FirstAfter
<1>3. ASSUME n >= 1, After(o) # {}
      PROVE  FirstAfter(o, n) # {}
  <2>1. After(o) \in SUBSET Oids
    BY DEF After
  <2>2. PICK m \in After(o) : \A y \in After(o) : m <= y
    BY <2>1, <1>3, Extremes
  <2>3. Upto(m) = {m}
    BY <2>1, <2>2, BoundsAssumption DEF After, Oids
  <2>4. Cardinality(Upto(m)) = 1
    BY <2>3, FS_Singleton
  <2>5. Cardinality(Upto(m)) <= n
    BY <2>4, <1>3
  <2> QED
    BY <2>2, <2>5 DEF FirstAfter
<1> QED
  BY <1>2, <1>3 DEF FirstAfter

-----------------------------------------------------------------------------
(* The strengthening: for every varbind its subtree has been collected up  *)
(* to last_oids, and nowhere beyond it; completed subtrees and the chunks  *)
(* before the current one have been collected to their ends, unless they   *)
(* were passed over.                                                       *)
Collected(i) == \A o \in stable \cap Subtree(i) : <<i, o>> \in yielded

WalkInv ==
    /\ TypeOK
    /\ stable \subseteq agent
    /\ repeated = {}
    /\ \A i \in Varbinds : \A o \in Oids : <<i, o>> \in yielded => o <= last[i]
    /\ \A i \in Varbinds : \A o \in Subtree(i) :
            o \in stable /\ o <= last[i] => <<i, o>> \in yielded
    /\ \A i \in completed : Collected(i)
    /\ WholeRow =>
            /\ \A i \in Varbinds : i <= (chunk - 1) * MaxOid => i \in completed \cup passed
            /\ pc = "done" => \A i \in Varbinds : i \in completed \cup passed

(* A try starts with nothing collected and nothing claimed.                *)
LEMMA InitWalkInv == Init => WalkInv
BY SubtreesAssumption, BoundsAssumption
   DEF Init, WalkInv, TypeOK, Subtree, Varbinds, Oids, Collected

(* So does a retry.                                                        *)
LEMMA FailKeepsWalkInv == WalkInv /\ Fail => WalkInv'
<1> SUFFICES ASSUME WalkInv, Fail PROVE WalkInv'
  OBVIOUS
<1>1. CASE retries < MaxRetries /\ Begin /\ retries' = retries + 1
  <2>1. /\ pc' = "request" /\ chunk' = 1 /\ last' = Root /\ completed' = {}
        /\ yielded' = {} /\ repeated' = {} /\ passed' = {} /\ stable' = agent
        /\ retries' = retries + 1 /\ agent' = agent /\ changes' = changes
    BY <1>1 DEF Fail, Begin
  <2>2. TypeOK'
    BY <2>1, SubtreesAssumption, BoundsAssumption
       DEF WalkInv, TypeOK, Varbinds, Oids
  <2>3. \A i \in Varbinds : \A o \in Subtree(i) : ~ (o <= last'[i])
    BY <2>1, SubtreesAssumption, BoundsAssumption DEF Subtree
  <2>4. \A i \in Varbinds : ~ (i <= (chunk' - 1) * MaxOid)
    BY <2>1, BoundsAssumption DEF Varbinds
  <2> QED
    BY <2>1, <2>2, <2>3, <2>4 DEF WalkInv, Subtree, Varbinds
<1>2. CASE ~(retries < MaxRetries /\ Begin /\ retries' = retries + 1)
  <2>1. /\ pc' = "failed"
        /\ UNCHANGED <<agent, changes, retries, chunk, last, completed, yielded, repeated,
                       passed, stable>>
    BY <1>2 DEF Fail
  <2> QED
    BY <2>1 DEF WalkInv, TypeOK, Subtree, Varbinds, Collected
<1> QED
  BY <1>1, <1>2

(* When rows come and go, fewer instances have been there all the time.    *)
LEMMA ChangeKeepsWalkInv == WalkInv /\ AgentChanges => WalkInv'
BY DEF AgentChanges, WalkInv, TypeOK, task, Subtree, Varbinds, Collected

(* The varbinds of the last chunk and those before it are all there are.   *)
LEMMA ChunksCover ==
    ASSUME chunk \in Nat \ {0}, NEW i \in Varbinds
    PROVE  /\ i <= ((chunk + 1) - 1) * MaxOid => i <= (chunk - 1) * MaxOid \/ i \in Chunk
           /\ LastChunk => i <= (chunk - 1) * MaxOid \/ i \in Chunk
<1>1. (chunk - 1) * MaxOid \in Nat /\ chunk * MaxOid \in Nat /\ i \in Nat
  BY BoundsAssumption DEF Varbinds
<1>2. (chunk + 1) - 1 = chunk
  OBVIOUS
<1>3. LastChunk => i <= chunk * MaxOid
  BY <1>1, BoundsAssumption DEF LastChunk, Varbinds
<1> QED
  BY <1>1, <1>2, <1>3 DEF Chunk

(* A chunk that is passed over leaves what was collected as it was.        *)
LEMMA PassOverKeepsWalkInv == WalkInv /\ PassOver => WalkInv'
<1> SUFFICES ASSUME WalkInv, PassOver PROVE WalkInv'
  OBVIOUS
<1>1. /\ passed' = passed \cup Active
      /\ pc' = IF LastChunk THEN "done" ELSE "request"
      /\ chunk' = IF LastChunk THEN chunk ELSE chunk + 1
      /\ UNCHANGED <<agent, changes, retries, last, completed, yielded, repeated, stable>>
  BY DEF PassOver
<1>2. Active \subseteq Varbinds /\ Chunk \subseteq completed \cup Active
  BY DEF Active, Chunk
<1>3. chunk \in Nat \ {0} /\ chunk' \in Nat \ {0} /\ pc' \in {"request", "done"}
  BY <1>1 DEF WalkInv, TypeOK
<1>4. TypeOK'
  BY <1>1, <1>2, <1>3 DEF WalkInv, TypeOK
<1>5. ASSUME WholeRow, NEW i \in Varbinds, i <= (chunk' - 1) * MaxOid \/ pc' = "done"
      PROVE  i \in completed' \cup passed'
  <2>1. i <= (chunk - 1) * MaxOid \/ i \in Chunk
    <3>1. CASE LastChunk
      BY <3>1, <1>3, ChunksCover
    <3>2. CASE ~LastChunk
      BY <3>2, <1>1, <1>3, <1>5, ChunksCover
    <3> QED
      BY <3>1, <3>2
  <2> QED
    BY <2>1, <1>1, <1>2, <1>5 DEF WalkInv
<1>6. /\ stable' \subseteq agent'
      /\ repeated' = {}
      /\ \A i \in Varbinds : \A o \in Oids : <<i, o>> \in yielded' => o <= last'[i]
      /\ \A i \in Varbinds : \A o \in Subtree(i) :
            o \in stable' /\ o <= last'[i] => <<i, o>> \in yielded'
      /\ \A i \in completed' : Collected(i)'
  BY <1>1 DEF WalkInv, Collected, Subtree
<1> QED
  BY <1>4, <1>5, <1>6 DEF WalkInv, Subtree, Varbinds

(* A response extends what is collected of every subtree without a gap.    *)
LEMMA RespondKeepsWalkInv ==
    ASSUME NEW q \in 0..MaxRepetitions, NEW cut \in 0..NumVarbinds,
           WalkInv, Respond(q, cut)
    PROVE  WalkInv'
<1> DEFINE share(i) == IF i <= cut THEN q + 1 ELSE q
           received == [i \in Active |-> FirstAfter(last[i], share(i))]
           valid == [i \in Active |-> InScope(i, received[i])]
           kept == UNION {{i} \X valid[i] : i \in Active}
           ended == completed \cup {i \in Active : HitsEnd(i, received[i], share(i))}
           ends == ChunkEnds(kept, ended)
<1>1. /\ last' = [i \in Varbinds |->
                     IF i \in Active THEN Advance(i, valid[i]) ELSE last[i]]
      /\ completed' = ended
      /\ yielded' = yielded \cup kept
      /\ repeated' = repeated \cup (yielded \cap kept)
      /\ pc = "request"
      /\ pc' = IF ends /\ LastChunk THEN "done" ELSE "request"
      /\ chunk' = IF ends /\ ~LastChunk THEN chunk + 1 ELSE chunk
      /\ UNCHANGED <<agent, changes, retries, passed, stable>>
      /\ WholeRow => q >= 1
  BY DEF Respond
<1> HIDE DEF share, ends
<1>2. Active \subseteq Varbinds /\ \A i \in Active : share(i) \in Nat
  BY BoundsAssumption DEF Active, Chunk, share, Varbinds
<1>3. ASSUME NEW i \in Active
      PROVE  /\ received[i] \subseteq After(last[i])
             /\ \A y \in received[i], z \in After(last[i]) : z < y => z \in received[i]
             /\ share(i) >= 1 /\ After(last[i]) # {} => received[i] # {}
             /\ valid[i] = received[i] \cap Subtree(i)
             /\ valid[i] \in SUBSET Oids
             /\ \A o \in valid[i] : o > last[i]
  <2>1. agent \in SUBSET Oids /\ last[i] \in Nat /\ share(i) \in Nat
    BY <1>2 DEF WalkInv, TypeOK
  <2>2. received[i] = FirstAfter(last[i], share(i))
    OBVIOUS
  <2>3. valid[i] = received[i] \cap Subtree(i)
    BY DEF InScope
  <2>4. received[i] \subseteq After(last[i])
    BY <2>1, <2>2, FirstAfterPrefix
  <2> QED
    BY <2>1, <2>2, <2>3, <2>4, FirstAfterPrefix DEF After
<1>4. ASSUME NEW i \in Active
      PROVE  /\ last[i] <= last'[i] /\ last'[i] \in Root[i]..Last[i] /\ last'[i] \in Nat
             /\ \A o \in valid[i] : o <= last'[i]
             /\ last'[i] # last[i] => last'[i] \in valid[i]
  <2>1. last'[i] = Advance(i, valid[i]) /\ last[i] \in Nat /\ last[i] \in Root[i]..Last[i]
    BY <1>1, <1>2 DEF WalkInv, TypeOK
  <2>2. CASE valid[i] = {}
    BY <2>1, <2>2 DEF Advance
  <2>3. CASE valid[i] # {}
    <3>1. Greatest(valid[i]) \in valid[i] /\ \A o \in valid[i] : o <= Greatest(valid[i])
      BY <2>3, <1>3, Extremes
    <3>2. last'[i] = Greatest(valid[i])
      BY <2>1, <2>3 DEF Advance
    <3>3. last'[i] \in Subtree(i) /\ last'[i] \in Oids
      BY <3>1, <3>2, <1>3
    <3> QED
      BY <3>1, <3>2, <3>3, <2>1, <1>2, <1>3, SubtreesAssumption, BoundsAssumption
         DEF Subtree, Oids
  <2> QED
    BY <2>2, <2>3
<1>5. \A i, o : <<i, o>> \in kept <=> i \in Active /\ o \in valid[i]
  OBVIOUS
<1>6. TypeOK'
  <2>1. last' \in [Varbinds -> Nat] /\ \A i \in Varbinds : last'[i] \in Root[i]..Last[i]
    BY <1>1, <1>2, <1>4 DEF WalkInv, TypeOK
  <2>2. kept \in SUBSET (Varbinds \X Oids)
    <3>1. \A i \in Active : {i} \X valid[i] \in SUBSET (Varbinds \X Oids)
      BY <1>2, <1>3
    <3> QED
      BY <3>1
  <2>3. ended \in SUBSET Varbinds
    BY <1>2 DEF WalkInv, TypeOK
  <2>4. chunk' \in Nat \ {0} /\ pc' \in {"request", "done", "failed"}
    <3> HIDE DEF kept, ended
    <3> QED
      BY <1>1 DEF WalkInv, TypeOK
  <2>5. /\ yielded' \in SUBSET (Varbinds \X Oids)
        /\ repeated' \in SUBSET (Varbinds \X Oids)
        /\ completed' \in SUBSET Varbinds
    <3> HIDE DEF kept, ended
    <3> QED
      BY <1>1, <2>2, <2>3 DEF WalkInv, TypeOK
  <2> HIDE DEF kept, ended
  <2> QED
    BY <1>1, <2>1, <2>4, <2>5 DEF WalkInv, TypeOK
<1>7. repeated' = {}
  <2>1. yielded \cap kept = {}
    <3> SUFFICES ASSUME NEW i \in Varbinds, NEW o \in Oids,
                        <<i, o>> \in yielded, <<i, o>> \in kept
                 PROVE  FALSE
      BY DEF WalkInv, TypeOK
    <3>1. i \in Active /\ o \in valid[i]
      BY <1>5
    <3>2. o > last[i] /\ o <= last[i] /\ last[i] \in Nat /\ o \in Nat
      BY <3>1, <1>3, BoundsAssumption DEF WalkInv, TypeOK, Oids
    <3> QED
      BY <3>2
  <2> QED
    BY <2>1, <1>1 DEF WalkInv
<1>8. ASSUME NEW i \in Varbinds, NEW o \in Oids, <<i, o>> \in yielded'
      PROVE  o <= last'[i]
  <2>0. o \in Nat /\ last[i] \in Nat /\ last'[i] \in Nat
    BY <1>6, BoundsAssumption DEF WalkInv, TypeOK, Oids
  <2>1. CASE <<i, o>> \in yielded
    <3>1. o <= last[i]
      BY <2>1 DEF WalkInv
    <3>2. last[i] <= last'[i]
      BY <2>0, <1>1, <1>4
    <3> QED
      BY <3>1, <3>2, <2>0
  <2>2. CASE <<i, o>> \in kept
    BY <2>2, <1>4, <1>5
  <2> HIDE DEF kept
  <2> QED
    BY <2>1, <2>2, <1>1, <1>8
<1>8a. ASSUME NEW i \in Varbinds, NEW o \in Subtree(i), o \in stable', o <= last'[i]
       PROVE  <<i, o>> \in yielded'
  <2>0. o \in Nat /\ last[i] \in Nat /\ last'[i] \in Nat /\ o \in stable
    BY <1>1, <1>6, <1>8a, SubtreesAssumption DEF WalkInv, TypeOK, Subtree
  <2>1. CASE o <= last[i]
    BY <2>0, <2>1, <1>1 DEF WalkInv
  <2>2. CASE ~(o <= last[i])
    <3>1. o \in After(last[i])
      BY <2>0, <2>2 DEF WalkInv, After
    <3>2. i \in Active /\ last'[i] \in valid[i]
      BY <2>0, <2>2, <1>1, <1>4, <1>8a
    <3>3. o \in received[i]
      BY <3>1, <3>2, <2>0, <1>3, <1>8a
    <3>4. o \in valid[i]
      BY <3>2, <3>3, <1>3
    <3> QED
      BY <3>2, <3>4, <1>1, <1>5
  <2> QED
    BY <2>1, <2>2
<1>9. ASSUME NEW i \in ended PROVE Collected(i)'
  <2>1. CASE i \in completed
    BY <2>1, <1>1 DEF WalkInv, Collected, Subtree
  <2>2. CASE i \in Active /\ HitsEnd(i, received[i], share(i))
    <3> SUFFICES ASSUME NEW o \in stable, o \in Subtree(i) PROVE <<i, o>> \in yielded'
      BY <1>1 DEF Collected, Subtree
    <3>0. i \in Varbinds /\ o \in Nat /\ last[i] \in Nat /\ last[i] >= Root[i]
      BY <2>2, <1>2, SubtreesAssumption DEF WalkInv, TypeOK, Subtree
    <3>1. CASE o <= last[i]
      BY <3>0, <3>1, <1>1 DEF WalkInv
    <3>2. CASE ~(o <= last[i])
      <4>1. o \in After(last[i])
        BY <3>0, <3>2 DEF WalkInv, After
      <4>2. o \in received[i]
        <5>1. CASE received[i] = After(last[i])
          BY <4>1, <5>1
        <5>2. CASE received[i] \ Subtree(i) # {}
          <6>1. PICK v \in received[i] : v \notin Subtree(i)
            BY <5>2
          <6>2. v \in Nat /\ v > last[i]
            <7>1. v \in After(last[i])
              BY <6>1, <2>2, <1>3
            <7>2. v \in Oids
              BY <7>1 DEF After, WalkInv, TypeOK
            <7> QED
              BY <7>1, <7>2, BoundsAssumption DEF After, Oids
          <6>3. o < v
            BY <6>1, <6>2, <3>0, SubtreesAssumption DEF Subtree
          <6> QED
            BY <6>1, <6>3, <4>1, <2>2, <1>3
        <5> QED
          BY <2>2, <5>1, <5>2 DEF HitsEnd
      <4>3. o \in valid[i]
        BY <4>2, <2>2, <1>3
      <4> QED
        BY <4>3, <2>2, <1>1, <1>5
    <3> QED
      BY <3>1, <3>2
  <2> QED
    BY <2>1, <2>2
<1>10. ASSUME WholeRow, ends PROVE Chunk \subseteq ended
  <2> SUFFICES ASSUME kept = {}, NEW i \in Active PROVE i \in ended
    BY <1>10 DEF ends, ChunkEnds, Active
  <2>1. valid[i] = {}
    BY <1>5
  <2>2. share(i) \in Nat /\ share(i) >= 1
    BY <1>1, <1>10, BoundsAssumption DEF share
  <2>3. CASE received[i] = {}
    <3>1. After(last[i]) = {}
      BY <2>2, <2>3, <1>3
    <3>2. Cardinality(received[i]) < share(i)
      BY <2>2, <2>3, FS_EmptySet
    <3> QED
      BY <2>3, <3>1, <3>2 DEF HitsEnd
  <2>4. CASE received[i] # {}
    <3>1. received[i] \ Subtree(i) # {}
      BY <2>1, <2>4, <1>3
    <3> QED
      BY <3>1 DEF HitsEnd
  <2> QED
    BY <2>3, <2>4
<1>11. ASSUME WholeRow, NEW i \in Varbinds, i <= (chunk' - 1) * MaxOid
       PROVE  i \in completed' \cup passed'
  <2>0. chunk \in Nat \ {0} /\ completed' = ended /\ passed' = passed
    BY <1>1 DEF WalkInv, TypeOK
  <2>1. CASE i <= (chunk - 1) * MaxOid
    BY <2>0, <2>1, <1>11 DEF WalkInv
  <2>2. CASE ~(i <= (chunk - 1) * MaxOid)
    <3>1. chunk' = chunk + 1 /\ ends
      BY <2>2, <1>1, <1>11
    <3>2. i \in Chunk
      BY <2>0, <2>2, <3>1, <1>11, ChunksCover
    <3> QED
      BY <2>0, <3>1, <3>2, <1>10, <1>11
  <2> QED
    BY <2>1, <2>2
<1>12. ASSUME WholeRow, pc' = "done", NEW i \in Varbinds PROVE i \in completed' \cup passed'
  <2>0. chunk \in Nat \ {0} /\ completed' = ended /\ passed' = passed
    BY <1>1 DEF WalkInv, TypeOK
  <2>1. ends /\ LastChunk
    BY <1>1, <1>12
  <2>2. i <= (chunk - 1) * MaxOid \/ i \in Chunk
    BY <2>0, <2>1, ChunksCover
  <2> QED
    BY <2>0, <2>1, <2>2, <1>10, <1>12 DEF WalkInv
<1>13. stable' \subseteq agent'
  BY <1>1 DEF WalkInv
<1>14. \A i \in completed' : Collected(i)'
  BY <1>1, <1>9
<1>15. WholeRow =>
            /\ \A i \in Varbinds : i <= (chunk' - 1) * MaxOid => i \in completed' \cup passed'
            /\ pc' = "done" => \A i \in Varbinds : i \in completed' \cup passed'
  BY <1>11, <1>12
<1> QED
  BY <1>6, <1>7, <1>8, <1>8a, <1>13, <1>14, <1>15 DEF WalkInv, Subtree, Varbinds, Oids

(* WalkInv is inductive.                                                   *)
LEMMA NextKeepsWalkInv == WalkInv /\ [Next]_vars => WalkInv'
<1> SUFFICES ASSUME WalkInv, [Next]_vars PROVE WalkInv'
  OBVIOUS
<1>1. CASE UNCHANGED vars
  BY <1>1 DEF vars, task, WalkInv, TypeOK, Subtree, Varbinds, Collected
<1>2. CASE Next
  BY <1>2, RespondKeepsWalkInv, PassOverKeepsWalkInv, FailKeepsWalkInv, ChangeKeepsWalkInv
     DEF Next
<1> QED
  BY <1>1, <1>2

(* The cursors of the generator stay in their subtrees.                    *)
THEOREM WalkTypes == Spec => []TypeOK
<1>1. WalkInv => TypeOK
  BY DEF WalkInv
<1> QED
  BY <1>1, InitWalkInv, NextKeepsWalkInv, PTL DEF Spec

(* The generator yields no instance twice for one varbind, for subtrees in *)
(* any position: the duplicates that are left (manager.py: "eliminates     *)
(* duplicate OIDs") are instances of two requested subtrees.               *)
THEOREM YieldsOnce == Spec => []NoDuplicates
<1>1. WalkInv => NoDuplicates
  BY DEF WalkInv, NoDuplicates
<1> QED
  BY <1>1, InitWalkInv, NextKeepsWalkInv, PTL DEF Spec

(* If every response carries a whole row, a result contains all that the   *)
(* agent had during the walk in the subtrees that were not passed over.    *)
THEOREM MissesNothing == WholeRow => (Spec => []NothingMissed)
<1> SUFFICES ASSUME WholeRow PROVE Spec => []NothingMissed
  OBVIOUS
<1>1. WalkInv => NothingMissed
  <2> SUFFICES ASSUME WalkInv, pc = "done", NEW i \in Varbinds \ passed,
                      NEW o \in stable \cap Subtree(i)
               PROVE  o \in metrics
    BY DEF NothingMissed
  <2>1. <<i, o>> \in yielded
    BY DEF WalkInv, Collected
  <2> QED
    BY <2>1 DEF metrics
<1> QED
  BY <1>1, InitWalkInv, NextKeepsWalkInv, PTL DEF Spec

-----------------------------------------------------------------------------
(* The end of a walk.                                                      *)

(* What is left of it: rounds are counted in instances that have not been  *)
(* yielded for a varbind and chunks that are not begun, of this try and of *)
(* those to come.                                                          *)
NumPairs == Cardinality(Varbinds \X Oids)
PerTry == NumPairs + NumVarbinds + 2

Left ==
    IF pc # "request" THEN 0
    ELSE 1 + (MaxRetries - retries) * PerTry
           + (NumVarbinds + 1 - chunk) + (NumPairs - Cardinality(yielded))

EndInv ==
    /\ WalkInv
    /\ retries <= MaxRetries
    /\ chunk <= NumVarbinds + 1

LEMMA YieldedCount ==
    ASSUME NEW S \in SUBSET (Varbinds \X Oids)
    PROVE  /\ NumPairs \in Nat /\ Cardinality(S) \in Nat /\ Cardinality(S) <= NumPairs
           /\ \A T \in SUBSET S : Cardinality(T) <= Cardinality(S)
                                    /\ (Cardinality(S) = Cardinality(T) => S = T)
<1>1. IsFiniteSet(Oids) /\ IsFiniteSet(Varbinds)
  BY FS_Interval, BoundsAssumption DEF Oids, Varbinds
<1>2. IsFiniteSet(Varbinds \X Oids)
  BY <1>1, FS_Product
<1>3. IsFiniteSet(S) /\ Cardinality(S) <= NumPairs
  BY <1>2, FS_Subset DEF NumPairs
<1> QED
  BY <1>2, <1>3, FS_Subset, FS_CardinalityType DEF NumPairs

(* A chunk number times the length of a chunk is no less than the number.  *)
LEMMA ChunkGrows ==
    ASSUME NEW n \in Nat
    PROVE  n <= n * MaxOid
<1>1. MaxOid \in Nat /\ MaxOid >= 1
  BY BoundsAssumption
<1>2. n * MaxOid = n + n * (MaxOid - 1) /\ n * (MaxOid - 1) \in Nat
  BY <1>1
<1> QED
  BY <1>1, <1>2

LEMMA LeftIs ==
    ASSUME EndInv
    PROVE  /\ Left \in Nat
           /\ pc = "request" => Left > 0
<1>1. /\ retries \in Nat /\ chunk \in Nat /\ yielded \in SUBSET (Varbinds \X Oids)
      /\ retries <= MaxRetries /\ chunk <= NumVarbinds + 1
  BY DEF EndInv, WalkInv, TypeOK
<1>2. NumPairs \in Nat /\ Cardinality(yielded) \in Nat /\ Cardinality(yielded) <= NumPairs
  BY <1>1, YieldedCount
<1>3. (MaxRetries - retries) * PerTry \in Nat
  <2>1. MaxRetries - retries \in Nat /\ PerTry \in Nat
    BY <1>1, <1>2, BoundsAssumption DEF PerTry
  <2> QED
    BY <2>1
<1>4. /\ NumVarbinds + 1 - chunk \in Nat
      /\ NumPairs - Cardinality(yielded) \in Nat
  BY <1>1, <1>2, BoundsAssumption
<1> QED
  BY <1>3, <1>4 DEF Left

LEMMA NotLast ==
    ASSUME chunk \in Nat, ~LastChunk
    PROVE  chunk + 1 <= NumVarbinds
<1>1. chunk * MaxOid \in Nat /\ chunk <= chunk * MaxOid
  BY ChunkGrows, BoundsAssumption
<1> QED
  BY <1>1, BoundsAssumption DEF LastChunk

(* A response that does not end the walk brings an instance that was not   *)
(* yet yielded for its varbind, or the next chunk.                         *)
LEMMA RespondLeaves ==
    ASSUME EndInv, NEW q \in 0..MaxRepetitions, NEW cut \in 0..NumVarbinds, Respond(q, cut)
    PROVE  chunk' <= NumVarbinds + 1 /\ retries' = retries /\ Left' < Left
<1>1. WalkInv'
  BY RespondKeepsWalkInv DEF EndInv
<1>2. PICK kept, ended :
         /\ yielded' = yielded \cup kept
         /\ repeated' = repeated \cup (yielded \cap kept)
         /\ pc' = IF ChunkEnds(kept, ended) /\ LastChunk THEN "done" ELSE "request"
         /\ chunk' = IF ChunkEnds(kept, ended) /\ ~LastChunk THEN chunk + 1 ELSE chunk
  BY DEF Respond
<1>3. pc = "request" /\ retries' = retries
  BY DEF Respond
<1>4. /\ chunk \in Nat /\ NumVarbinds \in Nat /\ retries \in Nat
      /\ yielded \in SUBSET (Varbinds \X Oids) /\ yielded' \in SUBSET (Varbinds \X Oids)
      /\ chunk <= NumVarbinds + 1
  BY <1>1, BoundsAssumption DEF EndInv, WalkInv, TypeOK
<1>5. ~LastChunk => chunk + 1 <= NumVarbinds
  BY <1>4, NotLast
<1>6. /\ Cardinality(yielded) \in Nat /\ Cardinality(yielded') \in Nat
      /\ Cardinality(yielded) <= Cardinality(yielded')
      /\ Cardinality(yielded) = Cardinality(yielded') => yielded' = yielded
  BY <1>2, <1>4, YieldedCount
<1>7. yielded \cap kept = {}
  BY <1>1, <1>2 DEF WalkInv
<1>8. chunk' <= NumVarbinds + 1
  BY <1>2, <1>4, <1>5
<1>9. Left > 0 /\ Left \in Nat
  BY <1>3, LeftIs
<1> DEFINE rest == (MaxRetries - retries) * PerTry
<1>10. /\ Left = 1 + rest + (NumVarbinds + 1 - chunk) + (NumPairs - Cardinality(yielded))
       /\ pc' = "request" =>
            Left' = 1 + rest + (NumVarbinds + 1 - chunk') + (NumPairs - Cardinality(yielded'))
       /\ pc' # "request" => Left' = 0
  BY <1>3 DEF Left, PerTry
<1>11. rest \in Int /\ NumPairs \in Int
  BY <1>4, YieldedCount, BoundsAssumption DEF PerTry
<1> HIDE DEF rest
<1> SUFFICES Left' < Left
  BY <1>3, <1>8
<1>12. CASE pc' # "request"
  BY <1>9, <1>10, <1>12
<1>13. CASE pc' = "request" /\ chunk' = chunk + 1
  BY <1>4, <1>6, <1>10, <1>11, <1>13
<1>14. CASE pc' = "request" /\ chunk' = chunk
  <2>1. ~ChunkEnds(kept, ended)
    BY <1>2, <1>4, <1>14
  <2>2. yielded' # yielded
    BY <1>2, <1>7, <2>1 DEF ChunkEnds
  <2>3. Cardinality(yielded) < Cardinality(yielded')
    BY <1>6, <2>2
  <2> QED
    BY <1>4, <1>6, <1>10, <1>11, <1>14, <2>3
<1>15. pc' \in {"request", "done"} /\ (chunk' = chunk + 1 \/ chunk' = chunk)
  BY <1>2
<1> QED
  BY <1>12, <1>13, <1>14, <1>15

(* A chunk that is passed over is one chunk less.                          *)
LEMMA PassOverLeaves ==
    ASSUME EndInv, PassOver
    PROVE  chunk' <= NumVarbinds + 1 /\ retries' = retries /\ Left' < Left
<1>1. /\ chunk \in Nat /\ chunk <= NumVarbinds + 1 /\ retries \in Nat
      /\ NumVarbinds \in Nat /\ MaxRetries \in Nat /\ yielded \in SUBSET (Varbinds \X Oids)
  BY BoundsAssumption DEF EndInv, WalkInv, TypeOK
<1>2. pc = "request" /\ retries' = retries /\ yielded' = yielded /\ Left \in Nat /\ Left > 0
  BY LeftIs DEF PassOver
<1>3. NumPairs \in Nat /\ Cardinality(yielded) \in Nat
  BY <1>1, YieldedCount
<1>4. CASE LastChunk
  <2>1. pc' = "done" /\ chunk' = chunk
    BY <1>4 DEF PassOver
  <2>2. Left' = 0
    BY <2>1 DEF Left
  <2> QED
    BY <1>1, <1>2, <2>1, <2>2
<1>5. CASE ~LastChunk
  <2>1. pc' = "request" /\ chunk' = chunk + 1
    BY <1>5 DEF PassOver
  <2> DEFINE rest == (MaxRetries - retries) * PerTry
  <2>2. rest \in Int
    BY <1>1, <1>3 DEF PerTry
  <2>3. /\ Left = 1 + rest + (NumVarbinds + 1 - chunk) + (NumPairs - Cardinality(yielded))
        /\ Left' = 1 + rest + (NumVarbinds + 1 - (chunk + 1)) + (NumPairs - Cardinality(yielded))
    BY <1>2, <2>1 DEF Left, PerTry, NumPairs
  <2> HIDE DEF rest
  <2> QED
    BY <1>1, <1>2, <1>3, <1>5, <2>1, <2>2, <2>3, NotLast
<1> QED
  BY <1>4, <1>5

(* A retry begins from nothing, but it is one try less.                    *)
LEMMA FailLeaves ==
    ASSUME EndInv, Fail
    PROVE  chunk' <= NumVarbinds + 1 /\ retries' <= MaxRetries /\ Left' < Left
<1>1. /\ retries \in Nat /\ MaxRetries \in Nat /\ NumVarbinds \in Nat
      /\ chunk \in Nat /\ chunk <= NumVarbinds + 1 /\ retries <= MaxRetries
      /\ yielded \in SUBSET (Varbinds \X Oids) /\ PerTry = NumPairs + NumVarbinds + 2
  BY BoundsAssumption DEF EndInv, WalkInv, TypeOK, PerTry
<1>2. NumPairs \in Nat /\ Cardinality(yielded) \in Nat /\ Cardinality(yielded) <= NumPairs
  BY <1>1, YieldedCount
<1>3. pc = "request" /\ Left \in Nat /\ Left > 0
  BY LeftIs DEF Fail
<1>4. CASE retries < MaxRetries /\ Begin /\ retries' = retries + 1
  <2>1. pc' = "request" /\ chunk' = 1 /\ yielded' = {} /\ retries' = retries + 1
    BY <1>4 DEF Begin
  <2>2. Cardinality(yielded') = 0
    BY <2>1, FS_EmptySet
  <2> DEFINE rest == (MaxRetries - (retries + 1)) * PerTry
  <2>3. (MaxRetries - retries) * PerTry = rest + PerTry /\ rest \in Int
    BY <1>1, <1>2
  <2>4. Left' = 1 + rest + (NumVarbinds + 1 - 1) + (NumPairs - 0)
    BY <2>1, <2>2 DEF Left, PerTry, NumPairs
  <2>5. Left = 1 + (rest + PerTry) + (NumVarbinds + 1 - chunk) + (NumPairs - Cardinality(yielded))
    BY <1>3, <2>3 DEF Left
  <2> HIDE DEF rest
  <2> QED
    BY <1>1, <1>2, <1>4, <2>1, <2>3, <2>4, <2>5
<1>5. CASE ~(retries < MaxRetries /\ Begin /\ retries' = retries + 1)
  <2>1. pc' = "failed" /\ UNCHANGED <<chunk, retries>>
    BY <1>5 DEF Fail
  <2>2. Left' = 0
    BY <2>1 DEF Left
  <2> QED
    BY <1>1, <1>3, <2>1, <2>2
<1> QED
  BY <1>4, <1>5

LEMMA NextEndInv == EndInv /\ [Next]_vars => EndInv' /\ (Left' < Left \/ UNCHANGED task)
<1> SUFFICES ASSUME EndInv, [Next]_vars
             PROVE  EndInv' /\ (Left' < Left \/ UNCHANGED task)
  OBVIOUS
<1>1. WalkInv' /\ chunk \in Nat /\ retries \in Nat
  BY NextKeepsWalkInv DEF EndInv, WalkInv, TypeOK
<1>2. CASE UNCHANGED vars \/ AgentChanges
  BY <1>1, <1>2 DEF EndInv, vars, task, AgentChanges
<1>3. CASE Fail
  BY <1>1, <1>3, FailLeaves DEF EndInv
<1>4. ASSUME NEW q \in 0..MaxRepetitions, NEW cut \in 0..NumVarbinds, Respond(q, cut)
      PROVE  EndInv' /\ Left' < Left
  BY <1>1, <1>4, RespondLeaves DEF EndInv
<1>5. CASE PassOver
  BY <1>1, <1>5, PassOverLeaves DEF EndInv
<1> QED
  BY <1>2, <1>3, <1>4, <1>5 DEF Next

(* The loop of the generator, the loop over chunks and the retries of the  *)
(* task together: every answer, every chunk passed over and every error    *)
(* brings the walk nearer to its end, however the subtrees lie and the     *)
(* agent's rows change; so a walk makes no more than a fixed number of     *)
(* requests.                                                               *)
THEOREM EveryRoundCounts == Spec => [](Left \in Nat) /\ [][Left' < Left \/ UNCHANGED task]_vars
<1>1. Init => EndInv
  BY InitWalkInv, BoundsAssumption DEF EndInv, Init
<1>2. EndInv => Left \in Nat
  BY LeftIs
<1>3. EndInv /\ [Next]_vars => [Left' < Left \/ UNCHANGED task]_vars
  BY NextEndInv
<1>4. EndInv /\ [Next]_vars => EndInv'
  BY NextEndInv
<1> QED
  BY <1>1, <1>2, <1>3, <1>4, PTL DEF Spec
=============================================================================
