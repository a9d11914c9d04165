---------------------------- MODULE Traps_proofs ----------------------------
(***************************************************************************)
(* The way of a trap, in two parts: the receivers, which learn engine IDs  *)
(* and hand traps on, and the worker that resolves one trap after another. *)
(* Proved for any receivers, IDs, index, traps, passes and failures: what  *)
(* a receiver has learnt stays known and few traps are lost meanwhile; a   *)
(* worker asks for no module twice, keeps every varbind of a trap with     *)
(* distinct OIDs, and uses what the MIB server delivers in time.           *)
(***************************************************************************)
EXTENDS EngineIds, TrapTask, FunctionTheorems, FiniteSetTheorems, WellFoundedInduction, TLAPS

-----------------------------------------------------------------------------
(* The receivers.  IdInv says where an engine ID has got to when one has   *)
(* reached a certain point; on top of it, LossInv counts the receivers     *)
(* that may still lose a trap of an ID.                                    *)

(* Handed on implies stored, stored implies cached by whoever starts then, *)
(* cached implies registered by whoever is running.                        *)
Stored == forwarded \subseteq records
Booted(r) == heard[r] \subseteq cached[r] /\ cached[r] \subseteq records
SavedIsStored(r) == stage[r] = "saved" => engine[r] \in records
Missing(r) ==
    missed[r] # NoId => \/ stage[r] = "sync" /\ missed[r] \in todo[r]
                        \/ stage[r] = "trap" /\ missed[r] = engine[r]

IdInv ==
    /\ ReceiversTypeOK /\ HeardIsRegistered /\ Stored
    /\ \A r \in Receivers : Booted(r) /\ SavedIsStored(r) /\ Missing(r)

(* Nothing has happened at first.                                          *)
LEMMA InitIdInv == ReceiversInit => IdInv
BY EngineAssumption
   DEF ReceiversInit, IdInv, ReceiversTypeOK, Pcs, HeardIsRegistered, Running, Stored,
       Booted, SavedIsStored, Missing

(* A process starts with what the collection has.                          *)
LEMMA BootKeepsIdInv == ASSUME IdInv, NEW r \in Receivers, Boot(r) PROVE IdInv'
<1>1. ReceiversTypeOK'
  BY EngineAssumption DEF IdInv, ReceiversTypeOK, Pcs, Boot, stores
<1> QED
  BY <1>1 DEF IdInv, ReceiversTypeOK, HeardIsRegistered, Running, Stored, Booted,
     SavedIsStored, Missing, Boot, stores

(* An ID is cached only if the collection has it.                          *)
LEMMA FindKeepsIdInv ==
    ASSUME IdInv, NEW r \in Receivers, NEW id \in Spellings, Find(r, id) PROVE IdInv'
<1>1. ReceiversTypeOK'
  BY EngineAssumption DEF IdInv, ReceiversTypeOK, Pcs, Find, Saving, Saved, stores, history
<1> QED
  BY <1>1 DEF IdInv, ReceiversTypeOK, HeardIsRegistered, Running, Stored, Booted,
     SavedIsStored, Missing, Find, Saving, Saved, stores, history

(* insert_one stores what it caches.                                       *)
LEMMA InsertKeepsIdInv ==
    ASSUME IdInv, NEW r \in Receivers, Insert(r) PROVE IdInv'
<1>1. ReceiversTypeOK'
  BY EngineAssumption DEF IdInv, ReceiversTypeOK, Pcs, Insert, Saved, history
<1> QED
  BY <1>1 DEF IdInv, ReceiversTypeOK, HeardIsRegistered, Running, Stored, Booted,
     SavedIsStored, Missing, Insert, Saved, history

(* A failing receiver forgets the trap it had in hand.                     *)
LEMMA RaiseKeepsIdInv ==
    ASSUME IdInv, NEW r \in Receivers, stage[r] \in {"sync", "trap", "saved"}, Raise(r),
           records \subseteq records', records' \subseteq Spellings,
           faults' \in 0..MaxFaults
    PROVE  IdInv'
<1>1. lost' \in [EngineIds -> Nat]
  <2>1. CASE stage[r] = "sync"
    BY <2>1 DEF Raise, IdInv, ReceiversTypeOK
  <2>2. CASE stage[r] # "sync"
    <3>1. engine[r] \in EngineIds
      BY <2>2 DEF IdInv, ReceiversTypeOK
    <3>2. lost' = [lost EXCEPT ![engine[r]] = @ + 1]
      BY <2>2 DEF Raise
    <3> QED
      BY <3>1, <3>2 DEF IdInv, ReceiversTypeOK
  <2> QED
    BY <2>1, <2>2
<1>2. /\ missed' = [missed EXCEPT ![r] = NoId] /\ engine' = [engine EXCEPT ![r] = NoId]
      /\ stage' = [stage EXCEPT ![r] = IF @ = "sync" THEN "down" ELSE "ready"]
      /\ UNCHANGED <<configured, discover, todo, discovering, cached, added, usm,
                     forwarded, heard, edits>>
  BY DEF Raise
<1>3. ReceiversTypeOK'
  BY <1>1, <1>2 DEF IdInv, ReceiversTypeOK, Pcs
<1>4. HeardIsRegistered'
  BY <1>2 DEF IdInv, ReceiversTypeOK, HeardIsRegistered, Running
<1> QED
  BY <1>2, <1>3, <1>4 DEF IdInv, ReceiversTypeOK, Stored, Booted, SavedIsStored, Missing

(* DuplicateKeyError changes nothing in the collection.                    *)
LEMMA DuplicateKeepsIdInv ==
    ASSUME IdInv, NEW r \in Receivers, Duplicate(r) PROVE IdInv'
<1>1. stage[r] \in {"sync", "trap"}
  BY DEF Duplicate, IdInv, Missing
<1>2. records \subseteq records' /\ records' \subseteq Spellings /\ faults' \in 0..MaxFaults
  BY DEF Duplicate, IdInv, ReceiversTypeOK
<1> QED
  BY <1>1, <1>2, RaiseKeepsIdInv DEF Duplicate

(* A service that fails may have stored the ID.                            *)
LEMMA ServiceFailsKeepsIdInv ==
    ASSUME IdInv, NEW r \in Receivers, ServiceFails(r) PROVE IdInv'
<1>1. stage[r] \in {"sync", "trap", "saved"}
  BY DEF ServiceFails, Saving
<1>2. records \subseteq records' /\ records' \subseteq Spellings
  BY DEF ServiceFails, IdInv, ReceiversTypeOK
<1>3. faults' \in 0..MaxFaults
  BY EngineAssumption DEF ServiceFails, IdInv, ReceiversTypeOK
<1> QED
  BY <1>1, <1>2, <1>3, RaiseKeepsIdInv DEF ServiceFails

(* main registers every cached ID, hence every one heard before.           *)
LEMMA SyncDoneKeepsIdInv ==
    ASSUME IdInv, NEW r \in Receivers, SyncDone(r) PROVE IdInv'
<1>1. ReceiversTypeOK'
  BY EngineAssumption DEF IdInv, ReceiversTypeOK, Pcs, SyncDone, stores, history
<1>2. heard[r] \subseteq {Canon[id] : id \in cached[r]}
  BY EngineAssumption DEF IdInv, ReceiversTypeOK, Booted
<1>3. HeardIsRegistered'
  BY <1>2 DEF IdInv, ReceiversTypeOK, HeardIsRegistered, Running, SyncDone, history
<1> QED
  BY <1>1, <1>3 DEF IdInv, ReceiversTypeOK, Stored, Booted, SavedIsStored, Missing, SyncDone,
     stores, history

(* A datagram only adds registrations.                                     *)
LEMMA DatagramKeepsIdInv ==
    ASSUME IdInv, NEW r \in Receivers, NEW user \in Names, NEW id \in EngineIds,
           NEW keys \in BOOLEAN, Datagram(r, user, id, keys) PROVE IdInv'
<1>1. ReceiversTypeOK'
  BY EngineAssumption DEF IdInv, ReceiversTypeOK, Pcs, Datagram, stores, history
<1> QED
  BY <1>1 DEF IdInv, ReceiversTypeOK, HeardIsRegistered, Running, Stored, Booted,
     SavedIsStored, Missing, Datagram, stores, history

(* A trap is handed on after its ID was stored.                            *)
LEMMA PublishKeepsIdInv ==
    ASSUME IdInv, NEW r \in Receivers, Publish(r) PROVE IdInv'
<1>1. ReceiversTypeOK'
  BY EngineAssumption DEF IdInv, ReceiversTypeOK, Pcs, Publish, stores
<1> QED
  BY <1>1 DEF IdInv, ReceiversTypeOK, HeardIsRegistered, Running, Stored, Booted,
     SavedIsStored, Missing, Publish, stores

(* A process that ends keeps nothing.                                      *)
LEMMA StopKeepsIdInv ==
    ASSUME IdInv, NEW r \in Receivers, Stop(r) PROVE IdInv'
<1>1. ReceiversTypeOK'
  BY EngineAssumption DEF IdInv, ReceiversTypeOK, Pcs, Stop, stores, history
<1> QED
  BY <1>1 DEF IdInv, ReceiversTypeOK, HeardIsRegistered, Running, Stored, Booted,
     SavedIsStored, Missing, Stop, stores, history

(* The settings concern processes that start later.                        *)
LEMMA EditKeepsIdInv == ASSUME IdInv, EditConfiguration PROVE IdInv'
<1>1. ReceiversTypeOK'
  BY EngineAssumption DEF IdInv, ReceiversTypeOK, EditConfiguration, receiver, history
<1> QED
  BY <1>1 DEF IdInv, HeardIsRegistered, Running, Stored, Booted, SavedIsStored,
     Missing, EditConfiguration, receiver, history

(* IdInv is inductive.                                                     *)
LEMMA NextKeepsIdInv == IdInv /\ [ReceiversNext]_receiverVars => IdInv'
<1> SUFFICES ASSUME IdInv, [ReceiversNext]_receiverVars PROVE IdInv'
  OBVIOUS
<1>1. CASE UNCHANGED receiverVars
  BY <1>1 DEF receiverVars, stores, receiver, history, IdInv, ReceiversTypeOK, HeardIsRegistered,
     Running, Stored, Booted, SavedIsStored, Missing
<1>2. CASE EditConfiguration
  BY <1>2, EditKeepsIdInv
<1>3. ASSUME NEW r \in Receivers,
             \/ Proceed(r) \/ ServiceFails(r) \/ Stop(r)
             \/ \E user \in Names, id \in EngineIds, keys \in BOOLEAN :
                    Datagram(r, user, id, keys)
      PROVE  IdInv'
  BY <1>3, BootKeepsIdInv, FindKeepsIdInv, InsertKeepsIdInv, DuplicateKeepsIdInv,
     SyncDoneKeepsIdInv, PublishKeepsIdInv, ServiceFailsKeepsIdInv, StopKeepsIdInv,
     DatagramKeepsIdInv DEF Proceed
<1> QED
  BY <1>1, <1>2, <1>3 DEF ReceiversNext

(* Every variable keeps to its type; above all a receiver that is at work  *)
(* on a trap has its engine ID, and _added_engine_ids holds IDs as         *)
(* decode_security_context writes them.                                    *)
THEOREM EngineTypes == ReceiversSpec => []ReceiversTypeOK
<1>1. IdInv => ReceiversTypeOK
  BY DEF IdInv
<1> QED
  BY <1>1, InitIdInv, NextKeepsIdInv, PTL DEF ReceiversSpec

(* Whatever replicas, crashes, failures and changes of the settings, a     *)
(* receiver that has come up has registered every user under every engine  *)
(* ID from which a trap had been handed on before it started.              *)
THEOREM ForgetsNoEngine == ReceiversSpec => []HeardIsRegistered
<1>1. IdInv => HeardIsRegistered
  BY DEF IdInv
<1> QED
  BY <1>1, InitIdInv, NextKeepsIdInv, PTL DEF ReceiversSpec

-----------------------------------------------------------------------------
(* Receivers that have not found the ID of their trap and are about to     *)
(* insert it.                                                              *)
Late(id) == {r \in Receivers : stage[r] = "trap" /\ missed[r] = id}

(* Until an ID is stored no duplicate of it is possible; then the late     *)
(* receivers can lose a trap each, and no other joins them.                *)
LossInv ==
    \A id \in EngineIds :
        IF id \in records
        THEN lost[id] + Cardinality(Late(id)) <= Cardinality(Receivers) - 1 + faults
        ELSE lost[id] <= faults

(* There are at most as many late receivers as receivers.                  *)
LEMMA LateSize ==
    ASSUME NEW id
    PROVE  /\ IsFiniteSet(Late(id)) /\ Cardinality(Late(id)) \in Nat
           /\ Cardinality(Late(id)) <= Cardinality(Receivers)
           /\ Cardinality(Receivers) \in Nat \ {0}
<1>1. Late(id) \subseteq Receivers
  BY DEF Late
<1>2. Cardinality(Receivers) \in Nat \ {0}
  BY EngineAssumption, FS_EmptySet, FS_CardinalityType
<1> QED
  BY <1>1, <1>2, EngineAssumption, FS_Subset, FS_CardinalityType

(* Without one of them there are fewer.                                    *)
LEMMA FewerLate ==
    ASSUME NEW id, NEW r \in Receivers, Late(id)' \subseteq Late(id) \ {r}
    PROVE  /\ Cardinality(Late(id)') \in Nat
           /\ Cardinality(Late(id)') <= Cardinality(Receivers) - 1
           /\ Cardinality(Late(id)') <= Cardinality(Late(id))
           /\ r \in Late(id) => Cardinality(Late(id)') <= Cardinality(Late(id)) - 1
<1>1. Late(id)' \subseteq Receivers \ {r} /\ IsFiniteSet(Receivers \ {r})
  BY EngineAssumption, FS_RemoveElement DEF Late
<1>2. Cardinality(Receivers \ {r}) = Cardinality(Receivers) - 1
  BY EngineAssumption, FS_RemoveElement
<1>3. Cardinality(Late(id)') <= Cardinality(Receivers) - 1 /\ Cardinality(Late(id)') \in Nat
  BY <1>1, <1>2, FS_Subset, FS_CardinalityType
<1>4. Cardinality(Late(id)') <= Cardinality(Late(id))
  BY LateSize, FS_Subset
<1>5. ASSUME r \in Late(id)
      PROVE  Cardinality(Late(id)') <= Cardinality(Late(id)) - 1
  <2>1. /\ IsFiniteSet(Late(id) \ {r})
        /\ Cardinality(Late(id) \ {r}) = Cardinality(Late(id)) - 1
    BY <1>5, LateSize, FS_RemoveElement
  <2> QED
    BY <2>1, FS_Subset
<1> QED
  BY <1>3, <1>4, <1>5

(* Steps that lose no trap and store no ID.                                *)
LEMMA QuietKeepsLossInv ==
    ASSUME IdInv, LossInv, UNCHANGED <<lost, records>>, faults' \in Nat, faults <= faults',
           \A id \in records : Late(id)' \subseteq Late(id)
    PROVE  LossInv'
<1> SUFFICES ASSUME NEW id \in EngineIds
             PROVE  IF id \in records
                    THEN lost[id] + Cardinality(Late(id)')
                            <= Cardinality(Receivers) - 1 + faults'
                    ELSE lost[id] <= faults'
  BY DEF LossInv
<1>1. lost[id] \in Nat /\ faults \in Nat
  BY EngineAssumption DEF IdInv, ReceiversTypeOK
<1>2. CASE id \in records
  <2>1. Cardinality(Late(id)') \in Nat /\ Cardinality(Late(id)') <= Cardinality(Late(id))
    BY <1>2, LateSize, FS_Subset, FS_CardinalityType
  <2>2. lost[id] + Cardinality(Late(id)) <= Cardinality(Receivers) - 1 + faults
    BY <1>2 DEF LossInv
  <2> QED
    BY <1>1, <1>2, <2>1, <2>2, LateSize
<1>3. CASE id \notin records
  BY <1>1, <1>3 DEF LossInv
<1> QED
  BY <1>2, <1>3

(* The receiver that inserts an ID is not late; all the others may be.     *)
LEMMA InsertKeepsLossInv ==
    ASSUME IdInv, LossInv, NEW r \in Receivers, Insert(r) PROVE LossInv'
<1> SUFFICES ASSUME NEW id \in EngineIds
             PROVE  IF id \in records'
                    THEN lost[id] + Cardinality(Late(id)')
                            <= Cardinality(Receivers) - 1 + faults
                    ELSE lost[id] <= faults
  BY DEF LossInv, Insert, Saved, history
<1>1. lost[id] \in Nat /\ faults \in Nat
  BY EngineAssumption DEF IdInv, ReceiversTypeOK
<1>2. Late(id)' \subseteq Late(id) \ {r}
  BY EngineAssumption DEF Late, Insert, Saved, IdInv, ReceiversTypeOK
<1>3. /\ Cardinality(Late(id)') \in Nat /\ Cardinality(Receivers) \in Nat
      /\ Cardinality(Late(id)) \in Nat
      /\ Cardinality(Late(id)') <= Cardinality(Receivers) - 1
      /\ Cardinality(Late(id)') <= Cardinality(Late(id))
      /\ r \in Late(id) => Cardinality(Late(id)') <= Cardinality(Late(id)) - 1
  BY <1>2, FewerLate, LateSize
<1>4. CASE id \in records
  <2>1. lost[id] + Cardinality(Late(id)) <= Cardinality(Receivers) - 1 + faults
    BY <1>4 DEF LossInv
  <2> QED
    BY <1>1, <1>2, <1>4, <2>1, <1>3 DEF Insert
<1>5. CASE id \notin records
  <2>1. lost[id] <= faults
    BY <1>5 DEF LossInv
  <2> QED
    BY <1>1, <1>2, <2>1, <1>3
<1> QED
  BY <1>4, <1>5

(* DuplicateKeyError takes a trap from a receiver that was late.           *)
LEMMA DuplicateKeepsLossInv ==
    ASSUME IdInv, LossInv, NEW r \in Receivers, Duplicate(r) PROVE LossInv'
<1> SUFFICES ASSUME NEW id \in EngineIds
             PROVE  IF id \in records
                    THEN lost'[id] + Cardinality(Late(id)')
                            <= Cardinality(Receivers) - 1 + faults
                    ELSE lost'[id] <= faults
  BY DEF LossInv, Duplicate
<1>1. lost \in [EngineIds -> Nat] /\ faults \in Nat /\ lost[id] \in Nat
  BY EngineAssumption DEF IdInv, ReceiversTypeOK
<1>2. Late(id)' \subseteq Late(id) \ {r}
  BY EngineAssumption DEF Late, Duplicate, Raise, IdInv, ReceiversTypeOK
<1>3. /\ Cardinality(Late(id)') \in Nat /\ Cardinality(Receivers) \in Nat
      /\ Cardinality(Late(id)) \in Nat
      /\ Cardinality(Late(id)') <= Cardinality(Receivers) - 1
      /\ Cardinality(Late(id)') <= Cardinality(Late(id))
      /\ r \in Late(id) => Cardinality(Late(id)') <= Cardinality(Late(id)) - 1
  BY <1>2, FewerLate, LateSize
<1>4. CASE stage[r] = "sync" \/ engine[r] # id
  <2>1. lost'[id] = lost[id]
    BY <1>1, <1>4 DEF Duplicate, Raise
  <2> QED
    BY <1>1, <1>2, <2>1, <1>3 DEF LossInv
<1>5. CASE stage[r] # "sync" /\ engine[r] = id
  <2>1. r \in Late(id) /\ id \in records
    BY <1>5 DEF Duplicate, IdInv, Missing, Late
  <2>2. lost'[id] = lost[id] + 1
    BY <1>1, <1>5 DEF Duplicate, Raise
  <2>3. lost[id] + Cardinality(Late(id)) <= Cardinality(Receivers) - 1 + faults
    BY <2>1 DEF LossInv
  <2> QED
    BY <1>1, <1>2, <2>1, <2>2, <2>3, <1>3
<1> QED
  BY <1>4, <1>5

(* A failing service takes at most one trap.                               *)
LEMMA ServiceFailsKeepsLossInv ==
    ASSUME IdInv, LossInv, NEW r \in Receivers, ServiceFails(r) PROVE LossInv'
<1> SUFFICES ASSUME NEW id \in EngineIds
             PROVE  IF id \in records'
                    THEN lost'[id] + Cardinality(Late(id)')
                            <= Cardinality(Receivers) - 1 + faults'
                    ELSE lost'[id] <= faults'
  BY DEF LossInv
<1>1. lost \in [EngineIds -> Nat] /\ faults \in Nat /\ lost[id] \in Nat
  BY EngineAssumption DEF IdInv, ReceiversTypeOK
<1>2. Late(id)' \subseteq Late(id) \ {r}
  BY EngineAssumption DEF Late, ServiceFails, Raise, IdInv, ReceiversTypeOK
<1>3. /\ Cardinality(Late(id)') \in Nat /\ Cardinality(Receivers) \in Nat
      /\ Cardinality(Late(id)) \in Nat
      /\ Cardinality(Late(id)') <= Cardinality(Receivers) - 1
      /\ Cardinality(Late(id)') <= Cardinality(Late(id))
      /\ r \in Late(id) => Cardinality(Late(id)') <= Cardinality(Late(id)) - 1
  BY <1>2, FewerLate, LateSize
<1>4. faults' = faults + 1 /\ lost'[id] \in {lost[id], lost[id] + 1}
      /\ records \subseteq records'
  BY <1>1 DEF ServiceFails, Raise
<1>5. CASE id \in records
  <2>1. lost[id] + Cardinality(Late(id)) <= Cardinality(Receivers) - 1 + faults
    BY <1>5 DEF LossInv
  <2> QED
    BY <1>1, <1>2, <1>4, <1>5, <2>1, <1>3
<1>6. CASE id \notin records
  <2>1. lost[id] <= faults
    BY <1>6 DEF LossInv
  <2> QED
    BY <1>1, <1>2, <1>4, <2>1, <1>3
<1> QED
  BY <1>5, <1>6

(* LossInv is inductive on top of IdInv.                                   *)
LEMMA NextKeepsLossInv == IdInv /\ LossInv /\ [ReceiversNext]_receiverVars => LossInv'
<1> SUFFICES ASSUME IdInv, LossInv, [ReceiversNext]_receiverVars PROVE LossInv'
  OBVIOUS
<1>1. faults \in Nat /\ MaxFaults \in Nat
  BY EngineAssumption DEF IdInv, ReceiversTypeOK
<1>2. CASE UNCHANGED receiverVars
  BY <1>1, <1>2, QuietKeepsLossInv DEF receiverVars, stores, receiver, history, Late
<1>3. CASE EditConfiguration
  BY <1>1, <1>3, QuietKeepsLossInv DEF EditConfiguration, receiver, history, Late
<1>4. ASSUME NEW r \in Receivers,
             Boot(r) \/ SyncDone(r) \/ Publish(r) \/ Stop(r)
      PROVE  LossInv'
  <2>1. UNCHANGED <<lost, records>> /\ faults' \in Nat /\ faults <= faults'
    BY <1>1, <1>4 DEF Boot, SyncDone, Publish, Stop, stores, history
  <2>2. \A id \in records : Late(id)' \subseteq Late(id)
    BY <1>4 DEF Boot, SyncDone, Publish, Stop, Late, IdInv, ReceiversTypeOK
  <2> QED
    BY <2>1, <2>2, QuietKeepsLossInv
<1>5. ASSUME NEW r \in Receivers, NEW id \in Spellings, Find(r, id) PROVE LossInv'
  <2>1. UNCHANGED <<lost, records, faults>>
    BY <1>5 DEF Find, Saved, stores, history
  <2>2. \A k \in records : Late(k)' \subseteq Late(k)
    BY <1>5, EngineAssumption DEF Find, Saved, Saving, Late, IdInv, ReceiversTypeOK
  <2> QED
    BY <1>1, <2>1, <2>2, QuietKeepsLossInv
<1>6. ASSUME NEW r \in Receivers, NEW user \in Names, NEW id \in EngineIds,
             NEW keys \in BOOLEAN, Datagram(r, user, id, keys)
      PROVE  LossInv'
  <2>1. UNCHANGED <<lost, records, faults, missed>>
    BY <1>6 DEF Datagram, stores, history
  <2>2. missed[r] = NoId
    BY <1>6 DEF Datagram, IdInv, Missing
  <2>3. \A k \in records : Late(k)' \subseteq Late(k)
    BY <1>6, <2>1, <2>2, EngineAssumption DEF Datagram, Late, IdInv, ReceiversTypeOK
  <2> QED
    BY <1>1, <2>1, <2>3, QuietKeepsLossInv
<1> QED
  BY <1>2, <1>3, <1>4, <1>5, <1>6, InsertKeepsLossInv, DuplicateKeepsLossInv,
     ServiceFailsKeepsLossInv DEF ReceiversNext, Proceed

(* Two replicas that see an engine ID for the first time at once can make  *)
(* each other lose a trap, but over any run the traps of one engine ID     *)
(* that are lost this way are fewer than the replicas.                     *)
THEOREM FewTrapsLost == ReceiversSpec => []LossBounded
<1>1. ReceiversInit => LossInv
  BY EngineAssumption DEF ReceiversInit, LossInv
<1>2. IdInv /\ LossInv => LossBounded
  <2> SUFFICES ASSUME IdInv, LossInv, NEW id \in EngineIds
               PROVE  lost[id] <= Cardinality(Receivers) - 1 + faults
    BY DEF LossBounded
  <2>1. lost[id] \in Nat /\ faults \in Nat
    BY EngineAssumption DEF IdInv, ReceiversTypeOK
  <2> QED
    BY <2>1, LateSize DEF LossInv
<1> QED
  BY <1>1, <1>2, InitIdInv, NextKeepsIdInv, NextKeepsLossInv, PTL DEF ReceiversSpec

-----------------------------------------------------------------------------
(* The trap worker.                                                        *)

(* The strengthening: what is in the result comes from the trap at hand, the  *)
(* modules tried are those counted, and when a trap is done everything     *)
(* that is not in the result is under sc4snmp::unresolved.                 *)
Counted == \A m \in Mibs : attempts[m] = IF m \in attempted THEN 1 ELSE 0
FromData == translated \cup inherited \subseteq {data[i] : i \in Places}
Kept == \A i \in Places :
            \/ data[i] \in untranslated
            \/ \E v \in translated \cup inherited : v.oid = data[i].oid
TrapInv ==
    /\ TypeOK /\ Counted /\ FromData
    /\ pc = "done" /\ IncludeUnresolved /\ DistinctOids => Kept

(* The worker starts with nothing tried and no trap.                       *)
LEMMA InitTrapInv == Init => TrapInv
<1> SUFFICES ASSUME Init PROVE TrapInv
  OBVIOUS
<1>1. Places = {} /\ data \in Seq(Varbinds)
  BY DEF Init, Places
<1> QED
  BY <1>1, TrapAssumption DEF Init, TrapInv, TypeOK, Counted, FromData, Outcomes

(* The first varbinds of a trap are a trap.                                *)
LEMMA LimitedType == ASSUME NEW t \in Traps PROVE Limited(t) \in Seq(Varbinds)
<1>1. t \in Seq(Varbinds)
  BY TrapAssumption
<1>2. CASE MaxVarbinds = 0 \/ Len(t) <= MaxVarbinds
  BY <1>1, <1>2 DEF Limited
<1>3. CASE ~(MaxVarbinds = 0 \/ Len(t) <= MaxVarbinds)
  <2>1. MaxVarbinds \in 1..Len(t)
    BY <1>1, <1>3, TrapAssumption
  <2>2. SubSeq(t, 1, MaxVarbinds) \in Seq(Varbinds)
    BY <1>1, <2>1
  <2> QED
    BY <1>3, <2>2 DEF Limited
<1> QED
  BY <1>2, <1>3

(* Loading what the index lists keeps the books of the worker.             *)
LEMMA LoadKeepsBooks ==
    ASSUME TrapInv, NEW wanted \in SUBSET Mibs, NEW ok \in SUBSET NewMibs(wanted),
           Load(wanted, ok)
    PROVE  /\ loaded' \subseteq Mibs /\ attempted' \subseteq Mibs
           /\ attempts' \in [Mibs -> Nat] /\ denied' \subseteq Mibs /\ Counted'
<1>1. loaded' \subseteq Mibs /\ attempted' \subseteq Mibs /\ denied' \subseteq Mibs
  BY DEF Load, NewMibs, TrapInv, TypeOK
<1>2. attempts' = [m \in Mibs |-> attempts[m] + IF m \in NewMibs(wanted) THEN 1 ELSE 0]
      /\ attempts \in [Mibs -> Nat] /\ attempted' = attempted \cup NewMibs(wanted)
  BY DEF Load, TrapInv, TypeOK
<1>3. ASSUME NEW m \in Mibs
      PROVE  attempts'[m] \in Nat /\ attempts'[m] = IF m \in attempted' THEN 1 ELSE 0
  <2>1. attempts[m] = IF m \in attempted THEN 1 ELSE 0
    BY DEF TrapInv, Counted
  <2>2. attempts'[m] = attempts[m] + IF m \in NewMibs(wanted) THEN 1 ELSE 0
    BY <1>2
  <2> QED
    BY <2>1, <2>2, <1>2 DEF NewMibs
<1> QED
  BY <1>1, <1>2, <1>3 DEF Counted

(* The index lists modules only.                                           *)
LEMMA MibsOfType == ASSUME NEW S \in SUBSET Oids PROVE MibsOf(S) \in SUBSET Mibs
BY TrapAssumption DEF MibsOf

(* A place of a trap holds an OID and a value.                             *)
LEMMA PlaceType ==
    ASSUME TypeOK, NEW i \in Places PROVE data[i] \in Varbinds /\ data[i].oid \in Oids
<1>1. data \in Seq(Varbinds) /\ i \in DOMAIN data
  BY DEF TypeOK, Places
<1>2. data[i] \in Varbinds
  BY <1>1
<1> QED
  BY <1>2 DEF Varbinds

(* A resolution has an outcome for every varbind.                          *)
LEMMA ResolveAllType ==
    ASSUME NEW mibs PROVE ResolveAll(mibs) \in [Places -> Outcomes]
BY DEF ResolveAll, Resolve, Outcomes

(* A new trap finds no result of the last one.                             *)
LEMMA ReceiveKeepsTrapInv == ASSUME NEW t \in Traps, TrapInv, Receive(t) PROVE TrapInv'
<1>1. data' \in Seq(Varbinds) /\ Places' = DOMAIN Limited(t)
  BY LimitedType DEF Receive, Places
<1>2. TypeOK'
  BY <1>1, TrapAssumption DEF Receive, TrapInv, TypeOK, worker, Outcomes
<1> QED
  BY <1>2 DEF Receive, TrapInv, Counted, FromData, worker

(* Nothing of a trap is left when the task returns.                        *)
LEMMA ReturnKeepsTrapInv == ASSUME TrapInv, Return PROVE TrapInv'
<1>1. data' \in Seq(Varbinds) /\ Places' = {}
  BY DEF Return, Places
<1>2. TypeOK'
  BY <1>1, TrapAssumption DEF Return, TrapInv, TypeOK, worker, Outcomes
<1> QED
  BY <1>2 DEF Return, TrapInv, Counted, FromData, worker

(* The first resolution fills the tables and asks for new modules only.    *)
LEMMA PreloadKeepsTrapInv == ASSUME TrapInv, Preload PROVE TrapInv'
<1>1. PreloadMibs \in SUBSET Mibs
  BY MibsOfType, TrapAssumption DEF PreloadMibs
<1>2. PICK ok \in SUBSET NewMibs(PreloadMibs) :
        /\ Load(PreloadMibs, ok)
        /\ table' = ResolveAll(loaded')
        /\ current' = table'
        /\ pc' = IF ok = {} /\ \E i \in Places : table'[i] = "failed"
                 THEN "retry" ELSE "process"
  BY DEF Preload
<1>3. UNCHANGED <<data, passes, results, known>>
  BY DEF Preload
<1>4. /\ loaded' \subseteq Mibs /\ attempted' \subseteq Mibs
      /\ attempts' \in [Mibs -> Nat] /\ denied' \subseteq Mibs /\ Counted'
  BY <1>1, <1>2, LoadKeepsBooks
<1>5. table' \in [Places -> Outcomes] /\ current' \in [Places -> Outcomes] /\ Places' = Places
  BY <1>2, <1>3, ResolveAllType DEF Places
<1>6. pc' \in {"retry", "process"}
  BY <1>2
<1> QED
  BY <1>3, <1>4, <1>5, <1>6 DEF TrapInv, TypeOK, FromData, Places, results

(* So does the second one.                                                 *)
LEMMA RetryKeepsTrapInv == ASSUME TrapInv, Retry PROVE TrapInv'
<1> DEFINE failed == {data[i].oid : i \in {j \in Places : table[j] = "failed"}}
<1>1. failed \in SUBSET Oids
  BY PlaceType DEF TrapInv
<1>2. PICK ok \in SUBSET NewMibs(MibsOf(failed)) :
        /\ Load(MibsOf(failed), ok)
        /\ table' = ResolveAll(loaded')
        /\ current' = table'
  BY DEF Retry
<1>3. pc' = "process" /\ UNCHANGED <<data, passes, results, known>>
  BY DEF Retry
<1>4. /\ loaded' \subseteq Mibs /\ attempted' \subseteq Mibs
      /\ attempts' \in [Mibs -> Nat] /\ denied' \subseteq Mibs /\ Counted'
  <2> HIDE DEF failed
  <2> QED
    BY <1>1, <1>2, MibsOfType, LoadKeepsBooks
<1>5. table' \in [Places -> Outcomes] /\ current' \in [Places -> Outcomes] /\ Places' = Places
  BY <1>2, <1>3, ResolveAllType DEF Places
<1> QED
  BY <1>3, <1>4, <1>5 DEF TrapInv, TypeOK, FromData, Places, results

(* A pass adds varbinds of the trap to the result, and takes out only what *)
(* it replaces.                                                            *)
LEMMA ProcessKeepsTrapInv == ASSUME TrapInv, Process PROVE TrapInv'
<1> DEFINE wanted == MibsOf({data[i].oid : i \in {j \in Deferred :
                                \A k \in Deferred : j <= k}})
<1>1. wanted \in SUBSET Mibs
  <2>1. {data[i].oid : i \in {j \in Deferred : \A k \in Deferred : j <= k}} \in SUBSET Oids
    BY PlaceType DEF TrapInv, Deferred
  <2> QED
    BY <2>1, MibsOfType
<1>2. PICK ok \in SUBSET NewMibs(wanted) :
        /\ Load(wanted, ok)
        /\ IF ok = {}
           THEN pc' = "report" /\ UNCHANGED current
           ELSE /\ current' = ResolveAll(loaded')
                /\ pc' = IF passes' = RetryMax THEN "report" ELSE "process"
  BY DEF Process
<1>3. /\ UNCHANGED <<data, table, untranslated, known>>
      /\ translated' = Overwritten(translated, Processed("translated"))
      /\ inherited' = Overwritten(inherited, Processed("inherited"))
      /\ passes' = passes + 1 /\ passes < RetryMax
  BY DEF Process
<1>4. /\ loaded' \subseteq Mibs /\ attempted' \subseteq Mibs
      /\ attempts' \in [Mibs -> Nat] /\ denied' \subseteq Mibs /\ Counted'
  <2> HIDE DEF wanted
  <2> QED
    BY <1>1, <1>2, LoadKeepsBooks
<1>5. current' \in [Places -> Outcomes] /\ Places' = Places
  BY <1>2, <1>3, ResolveAllType DEF Places, TrapInv, TypeOK
<1>6. passes' \in 0..RetryMax
  BY <1>3, TrapAssumption DEF TrapInv, TypeOK
<1>7. FromData'
  <2>1. ASSUME NEW P \in SUBSET Places, NEW R \in SUBSET {data[i] : i \in Places}
        PROVE  Overwritten(R, P) \subseteq {data[i] : i \in Places}
    BY DEF Overwritten, LastOf
  <2>2. Processed("translated") \in SUBSET Places /\ Processed("inherited") \in SUBSET Places
    BY DEF Processed, Reached
  <2>3. translated' \cup inherited' \subseteq {data[i] : i \in Places}
    BY <1>3, <2>1, <2>2 DEF FromData, TrapInv
  <2> QED
    BY <1>3, <2>3 DEF FromData, Places
<1>8. translated' \subseteq Varbinds /\ inherited' \subseteq Varbinds
  BY <1>7, <1>3 DEF FromData, TrapInv, TypeOK, Places
<1>9. pc' \in {"report", "process"}
  BY <1>2
<1>10. table' \in [Places' -> Outcomes] /\ data' \in Seq(Varbinds)
       /\ untranslated' \subseteq Varbinds /\ known' \subseteq Mibs
  BY <1>3, <1>5 DEF TrapInv, TypeOK
<1> QED
  BY <1>4, <1>5, <1>6, <1>7, <1>8, <1>9, <1>10 DEF TrapInv, TypeOK

(* What a trap with distinct OIDs lists as untranslated is everything the  *)
(* result lacks: no entry replaces another.                                *)
LEMMA ReportKeepsTrapInv == ASSUME TrapInv, Report PROVE TrapInv'
<1> DEFINE listed == Unresolved \cup Unprocessed
           first == {i \in listed : \A j \in listed :
                            data[j] = data[i] => Rank(i) <= Rank(j)}
           stored == {data[i] : i \in {j \in first : \A k \in first :
                            data[k].oid = data[j].oid => Rank(k) <= Rank(j)}}
<1>1. /\ untranslated' = IF ~IncludeUnresolved THEN {} ELSE stored
      /\ pc' = "done"
      /\ UNCHANGED <<worker, data, table, current, passes, translated, inherited, known>>
  BY DEF Report
<1>2. listed \subseteq Places /\ \A i \in Places : Rank(i) \in Nat
  BY DEF Unresolved, Unprocessed, Rank, Places, TrapInv, TypeOK
<1>3. TypeOK'
  <2>1. stored \subseteq {data[i] : i \in Places}
    BY <1>2
  <2>2. stored \subseteq Varbinds
    BY <2>1, PlaceType DEF TrapInv
  <2>3. untranslated' \subseteq Varbinds
    BY <1>1, <2>2
  <2> QED
    BY <1>1, <2>3 DEF TrapInv, TypeOK, worker, Places
<1>4. ASSUME IncludeUnresolved, DistinctOids PROVE Kept'
  <2> SUFFICES ASSUME NEW i \in Places
               PROVE  \/ data[i] \in untranslated'
                      \/ \E v \in translated \cup inherited : v.oid = data[i].oid
    BY <1>1 DEF Kept, Places
  <2>1. CASE i \in listed
    <3>1. \A j \in listed : data[j].oid = data[i].oid => j = i
      BY <1>2, <1>4 DEF DistinctOids
    <3>2. \A j \in listed : data[j] = data[i] => j = i
      BY <3>1
    <3>3. i \in first
      BY <2>1, <3>2, <1>2
    <3>4. \A k \in first : data[k].oid = data[i].oid => k = i
      BY <3>1
    <3>5. data[i] \in stored
      <4> HIDE DEF first
      <4> QED
        BY <3>3, <3>4, <1>2
    <3> QED
      BY <3>5, <1>1, <1>4
  <2>2. CASE i \notin listed
    BY <2>2 DEF Unresolved, Unprocessed
  <2> QED
    BY <2>1, <2>2
<1> QED
  BY <1>1, <1>3, <1>4 DEF TrapInv, Counted, FromData, worker, Places, DistinctOids

(* A new worker has tried nothing.                                         *)
LEMMA RestartKeepsTrapInv == ASSUME TrapInv, Restart PROVE TrapInv'
<1>1. /\ loaded' = StandardMibs /\ attempted' = {} /\ attempts' = [m \in Mibs |-> 0]
      /\ denied' = {} /\ passes' = 0 /\ translated' = {} /\ inherited' = {}
      /\ data' = data /\ untranslated' = untranslated
      /\ table' = [i \in Places |-> "failed"] /\ current' = [i \in Places |-> "failed"]
      /\ pc' \in {"idle", "preload"} /\ known' \subseteq Mibs
  BY TrapAssumption DEF Restart, TrapInv, TypeOK
<1>2. TypeOK'
  BY <1>1, TrapAssumption DEF TrapInv, TypeOK, Outcomes, Places
<1> QED
  BY <1>1, <1>2 DEF TrapInv, Counted, FromData

(* TrapInv is inductive.                                                   *)
LEMMA NextKeepsTrapInv == TrapInv /\ [Next]_vars => TrapInv'
<1> SUFFICES ASSUME TrapInv, [Next]_vars PROVE TrapInv'
  OBVIOUS
<1>1. CASE UNCHANGED vars
  BY <1>1 DEF vars, worker, results, TrapInv, TypeOK, Counted, FromData, Kept, Places, DistinctOids
<1>2. CASE Next
  BY <1>2, ReceiveKeepsTrapInv, PreloadKeepsTrapInv, RetryKeepsTrapInv,
     ProcessKeepsTrapInv, ReportKeepsTrapInv, ReturnKeepsTrapInv, RestartKeepsTrapInv
     DEF Next
<1> QED
  BY <1>1, <1>2

(* The variables of the task and its worker have values of their types;    *)
(* the loop of _process_trap_metrics keeps to its bound.                   *)
THEOREM TrapTypes == Spec => []TypeOK
<1>1. TrapInv => TypeOK
  BY DEF TrapInv
<1> QED
  BY <1>1, InitTrapInv, NextKeepsTrapInv, PTL DEF Spec

(* _load_new_trap_mibs asks for no module twice.                           *)
THEOREM AsksOnce == Spec => []AttemptedOnce
<1>1. TrapInv => AttemptedOnce
  BY DEF TrapInv, Counted, AttemptedOnce
<1> QED
  BY <1>1, InitTrapInv, NextKeepsTrapInv, PTL DEF Spec

(* With INCLUDE_UNRESOLVED_TRAP_VARBINDS no varbind of a trap with         *)
(* distinct OIDs is lost.                                                  *)
THEOREM LosesNoVarbind == Spec => []EveryVarbindReported
<1>1. TrapInv => EveryVarbindReported
  <2> SUFFICES ASSUME TrapInv, pc = "done", IncludeUnresolved, DistinctOids,
                      NEW i \in Places
               PROVE  data[i] \in translated \cup inherited \cup untranslated
    BY DEF EveryVarbindReported
  <2>1. CASE data[i] \in untranslated
    BY <2>1
  <2>2. CASE \E v \in translated \cup inherited : v.oid = data[i].oid
    <3>1. PICK v \in translated \cup inherited : v.oid = data[i].oid
      BY <2>2
    <3>2. PICK j \in Places : v = data[j]
      BY DEF TrapInv, FromData
    <3> QED
      BY <3>1, <3>2 DEF DistinctOids
  <2> QED
    BY <2>1, <2>2 DEF TrapInv, Kept
<1> QED
  BY <1>1, InitTrapInv, NextKeepsTrapInv, PTL DEF Spec

-----------------------------------------------------------------------------
(* Listed varbinds are translated.  The hypotheses and the conclusion of   *)
(* ListedIsTranslated, and the modules the passes still have to load.      *)
Delivered ==
    /\ DistinctOids
    /\ denied \cap {MibOf[data[i].oid] : i \in Places} = {}
    /\ Cardinality(LeftToPasses \ {NoMib}) < RetryMax

Expected(i) ==
    /\ MibOf[data[i].oid] # NoMib /\ Fits(i)
    /\ \/ data[i].oid \in Enterprise \/ MibOf[data[i].oid] \in known
       \/ data[i].value \in Bare /\ Above[data[i].oid] \cap loaded = {}

ToLoad == {MibOf[data[i].oid] : i \in Deferred}

(* What was tried was loaded or denied; the preload has tried the modules  *)
(* of the enterprise OIDs; the loop works with the modules that are loaded *)
(* and has as many passes left as modules to load, so that it ends with a  *)
(* pass that stops at no placeholder.                                      *)
ListedInv ==
    /\ attempted \subseteq loaded \cup denied
    /\ known \subseteq loaded /\ (pc = "idle" => known = {})
    /\ pc \in {"preload", "retry"} => passes = 0
    /\ pc \in {"retry", "process"} => \A i \in Places :
            data[i].oid \in Enterprise /\ MibOf[data[i].oid] # NoMib
                => MibOf[data[i].oid] \in attempted
    /\ pc = "process" => current = ResolveAll(loaded)
    /\ pc = "process" /\ Delivered =>
            passes + Cardinality(ToLoad) <= Cardinality(LeftToPasses \ {NoMib})
    /\ pc \in {"report", "done"} /\ Delivered =>
            \A i \in Places : Expected(i) => data[i] \in translated

(* A trap has finitely many varbinds, hence modules.                       *)
LEMMA FewModules ==
    ASSUME NEW d \in Seq(Varbinds), NEW S \in SUBSET DOMAIN d
    PROVE  IsFiniteSet({MibOf[d[i].oid] : i \in S})
<1> DEFINE T == {MibOf[d[i].oid] : i \in S}
           f == [i \in S |-> MibOf[d[i].oid]]
<1>1. Len(d) \in Nat /\ DOMAIN d = 1..Len(d)
  OBVIOUS
<1>2. IsFiniteSet(1..Len(d))
  BY <1>1, FS_Interval
<1>3. IsFiniteSet(S)
  BY <1>1, <1>2, FS_Subset
<1>4. f \in [S -> T] /\ \A t \in T : \E s \in S : f[s] = t
  OBVIOUS
<1>5. f \in Surjection(S, T)
  <2> HIDE DEF f, T
  <2> QED
    BY <1>4, Fun_IsSurj
<1> HIDE DEF f, T
<1>6. IsFiniteSet(T)
  BY <1>3, <1>5, FS_Surjection
<1> QED
  BY <1>6 DEF T

(* A set of places that is not empty has a first one.                      *)
LEMMA FirstPlace ==
    ASSUME NEW S \in SUBSET Nat, S # {}
    PROVE  \E x \in S : \A y \in S : x <= y
<1>1. PICK x \in S : \A y \in S : ~ (<<y, x>> \in OpToRel(<, Nat))
  BY NatLessThanWellFounded, WFMin
<1>2. \A y \in S : ~ (y < x)
  BY <1>1 DEF OpToRel
<1> QED
  BY <1>2

(* Loading adds to what is loaded, tried and denied; all that was asked    *)
(* for has then been tried.                                                *)
LEMMA LoadMonotone ==
    ASSUME NEW wanted, NEW ok \in SUBSET NewMibs(wanted), Load(wanted, ok),
           attempted \subseteq loaded \cup denied
    PROVE  /\ attempted' \subseteq loaded' \cup denied'
           /\ loaded \subseteq loaded' /\ denied \subseteq denied'
           /\ attempted \subseteq attempted' /\ wanted \subseteq attempted'
           /\ loaded' = loaded \cup ok /\ NewMibs(wanted) \ ok \subseteq denied'
BY DEF Load, NewMibs

(* While the trap is the same, what was denied stays denied.               *)
LEMMA DeliveredBefore ==
    ASSUME UNCHANGED data, denied \subseteq denied', Delivered'
    PROVE  Delivered /\ LeftToPasses' = LeftToPasses /\ Places' = Places
BY DEF Delivered, DistinctOids, LeftToPasses, Places

(* With the preload done, at most the modules left to the passes are to be *)
(* loaded when the loop begins.                                            *)
LEMMA LoopBegins ==
    ASSUME TypeOK', Delivered', attempted' \subseteq loaded' \cup denied',
           current' = ResolveAll(loaded)', passes' = 0,
           \A i \in Places' :
                data'[i].oid \in Enterprise /\ MibOf[data'[i].oid] # NoMib
                    => MibOf[data'[i].oid] \in attempted'
    PROVE  passes' + Cardinality(ToLoad') <= Cardinality((LeftToPasses \ {NoMib})')
<1> DEFINE L == (LeftToPasses \ {NoMib})'
           S == {j \in Places' : data'[j].oid \notin Enterprise /\ MibOf[data'[j].oid] # NoMib}
<1>1. L = {MibOf[data'[i].oid] : i \in S}
  BY DEF LeftToPasses
<1>2. ASSUME NEW i \in Places', current'[i] = "placeholder", MibOf[data'[i].oid] # NoMib
      PROVE  data'[i].oid \notin Enterprise
  <2>1. MibOf[data'[i].oid] \notin loaded'
    BY <1>2 DEF ResolveAll, Resolve
  <2>2. MibOf[data'[i].oid] \notin denied'
    BY DEF Delivered
  <2> QED
    BY <1>2, <2>1, <2>2
<1>3. ToLoad' \subseteq L
  BY <1>1, <1>2 DEF ToLoad, Deferred
<1>4. IsFiniteSet(L)
  <2>1. S \in SUBSET DOMAIN data' /\ data' \in Seq(Varbinds)
    BY DEF Places, TypeOK
  <2>2. IsFiniteSet({MibOf[data'[i].oid] : i \in S})
    <3> HIDE DEF S
    <3> QED
      BY <2>1, FewModules
  <2> QED
    BY <1>1, <2>2
<1>5. IsFiniteSet(ToLoad') /\ Cardinality(ToLoad') <= Cardinality(L)
  BY <1>3, <1>4, FS_Subset
<1>6. Cardinality(ToLoad') \in Nat
  BY <1>5, FS_CardinalityType
<1> QED
  BY <1>5, <1>6

LEMMA InitListed == Init => ListedInv
BY DEF Init, ListedInv

(* Nothing is loaded when a trap arrives or leaves, or has just been       *)
(* reported, and a new worker has tried nothing.                           *)
LEMMA BetweenTrapsListed ==
    ASSUME TrapInv, ListedInv,
           (\E t \in Traps : Receive(t)) \/ Return \/ Restart \/ Report
    PROVE  ListedInv'
<1>1. CASE \E t \in Traps : Receive(t)
  BY <1>1 DEF Receive, ListedInv, worker
<1>2. CASE Return
  BY <1>2 DEF Return, ListedInv, worker
<1>3. CASE Restart
  <2>1. /\ loaded' = StandardMibs /\ attempted' = {} /\ passes' = 0
        /\ IF pc = "idle" THEN UNCHANGED <<pc, known>>
           ELSE pc' = "preload" /\ known' = StandardMibs
    BY <1>3 DEF Restart
  <2> QED
    BY <2>1 DEF ListedInv
<1>4. CASE Report
  <2>1. /\ pc = "report" /\ pc' = "done"
        /\ UNCHANGED <<loaded, attempted, denied, data, translated, known>>
    BY <1>4 DEF Report, worker
  <2>2. Delivered' = Delivered /\ Places' = Places /\ \A i : Expected(i)' = Expected(i)
    BY <2>1 DEF Delivered, DistinctOids, LeftToPasses, Places, Expected, Fits
  <2> QED
    BY <2>1, <2>2 DEF ListedInv
<1> QED
  BY <1>1, <1>2, <1>3, <1>4

(* The preload has tried the modules of all enterprise OIDs in names.      *)
LEMMA PreloadListed == ASSUME TrapInv, TrapInv', ListedInv, Preload PROVE ListedInv'
<1>1. PICK ok \in SUBSET NewMibs(PreloadMibs) :
        /\ Load(PreloadMibs, ok)
        /\ table' = ResolveAll(loaded')
        /\ current' = table'
        /\ pc' = IF ok = {} /\ \E i \in Places : table'[i] = "failed"
                 THEN "retry" ELSE "process"
  BY DEF Preload
<1>2. pc = "preload" /\ UNCHANGED <<data, passes, known>>
  BY DEF Preload
<1>3. /\ attempted' \subseteq loaded' \cup denied'
      /\ loaded \subseteq loaded' /\ PreloadMibs \subseteq attempted'
  BY <1>1, LoadMonotone DEF ListedInv
<1>4. pc' \in {"retry", "process"} /\ passes' = 0 /\ Places' = Places
  BY <1>1, <1>2 DEF ListedInv, Places
<1>5. \A i \in Places' :
            data'[i].oid \in Enterprise /\ MibOf[data'[i].oid] # NoMib
                => MibOf[data'[i].oid] \in attempted'
  BY <1>2, <1>3, <1>4 DEF PreloadMibs, MibsOf
<1>6. current' = ResolveAll(loaded)'
  BY <1>1, <1>2, <1>4 DEF ResolveAll
<1>7. Delivered' => passes' + Cardinality(ToLoad') <= Cardinality((LeftToPasses \ {NoMib})')
  BY <1>3, <1>4, <1>5, <1>6, LoopBegins DEF TrapInv
<1> QED
  BY <1>2, <1>3, <1>4, <1>5, <1>6, <1>7 DEF ListedInv

(* The second resolution loads more, at most.                              *)
LEMMA RetryListed == ASSUME TrapInv, TrapInv', ListedInv, Retry PROVE ListedInv'
<1> DEFINE failed == {data[i].oid : i \in {j \in Places : table[j] = "failed"}}
<1>1. PICK ok \in SUBSET NewMibs(MibsOf(failed)) :
        /\ Load(MibsOf(failed), ok)
        /\ table' = ResolveAll(loaded')
        /\ current' = table'
  BY DEF Retry
<1>2. pc = "retry" /\ pc' = "process" /\ UNCHANGED <<data, passes, known>>
  BY DEF Retry
<1>3. /\ attempted' \subseteq loaded' \cup denied'
      /\ loaded \subseteq loaded' /\ attempted \subseteq attempted'
  <2> HIDE DEF failed
  <2> QED
    BY <1>1, LoadMonotone DEF ListedInv
<1>4. passes' = 0 /\ Places' = Places
  BY <1>2 DEF ListedInv, Places
<1>5. \A i \in Places' :
            data'[i].oid \in Enterprise /\ MibOf[data'[i].oid] # NoMib
                => MibOf[data'[i].oid] \in attempted'
  BY <1>2, <1>3, <1>4 DEF ListedInv
<1>6. current' = ResolveAll(loaded)'
  BY <1>1, <1>2, <1>4 DEF ResolveAll
<1>7. Delivered' => passes' + Cardinality(ToLoad') <= Cardinality((LeftToPasses \ {NoMib})')
  BY <1>3, <1>4, <1>5, <1>6, LoopBegins DEF TrapInv
<1> QED
  BY <1>2, <1>3, <1>4, <1>5, <1>6, <1>7 DEF ListedInv

(* A pass either loads the module it stopped at, or stops at none and      *)
(* takes every expected varbind into the result.                           *)
LEMMA ProcessListed == ASSUME TrapInv, TrapInv', ListedInv, Process PROVE ListedInv'
<1> DEFINE firsts == {j \in Deferred : \A k \in Deferred : j <= k}
           wanted == MibsOf({data[i].oid : i \in firsts})
<1>1. PICK ok \in SUBSET NewMibs(wanted) :
        /\ Load(wanted, ok)
        /\ IF ok = {}
           THEN pc' = "report" /\ UNCHANGED current
           ELSE /\ current' = ResolveAll(loaded')
                /\ pc' = IF passes' = RetryMax THEN "report" ELSE "process"
  BY DEF Process
<1>2. /\ pc = "process" /\ passes < RetryMax
      /\ translated' = Overwritten(translated, Processed("translated"))
      /\ passes' = passes + 1
      /\ UNCHANGED <<data, table, untranslated, known>>
  BY DEF Process
<1>3. /\ attempted' \subseteq loaded' \cup denied'
      /\ loaded \subseteq loaded' /\ denied \subseteq denied' /\ attempted \subseteq attempted'
      /\ loaded' = loaded \cup ok /\ NewMibs(wanted) \ ok \subseteq denied'
  <2> HIDE DEF wanted
  <2> QED
    BY <1>1, LoadMonotone DEF ListedInv
<1>4. /\ current = ResolveAll(loaded) /\ Places' = Places
      /\ pc' \in {"report", "process"}
      /\ pc' = "process" => ok # {}
  BY <1>1, <1>2 DEF ListedInv, Places
<1>5. ok # {} => current' = ResolveAll(loaded)'
  BY <1>1, <1>4, <1>2 DEF ResolveAll
<1>6. data \in Seq(Varbinds) /\ Places = 1..Len(data) /\ Len(data) \in Nat
  BY DEF TrapInv, TypeOK, Places
<1>7. ASSUME Delivered', Deferred = {}, NEW i \in Places, Expected(i)
      PROVE  data[i] \in translated'
  <2>1. Delivered
    BY <1>2, <1>3, <1>7, DeliveredBefore
  <2>2. data[i].oid \in Enterprise \/ MibOf[data[i].oid] \in known => MibOf[data[i].oid] \in loaded
    BY <1>2, <1>7, <2>1 DEF ListedInv, Expected, Delivered
  <2>3. current[i] \in {"translated", "placeholder"}
    BY <1>4, <1>7, <2>2 DEF Expected, Fits, ResolveAll, Resolve
  <2>4. i \in Processed("translated")
    BY <1>7, <2>3 DEF Deferred, Reached, Processed, Expected
  <2>5. \A k \in Processed("translated") : data[k].oid = data[i].oid => k = i
    BY <2>1, <2>4 DEF Delivered, DistinctOids, Processed, Reached
  <2>6. data[i] \in LastOf(Processed("translated"))
    BY <1>6, <2>4, <2>5 DEF LastOf
  <2> QED
    BY <1>2, <2>6 DEF Overwritten
<1>8. ASSUME Delivered', Deferred # {}
      PROVE  /\ pc' = "process"
             /\ passes' + Cardinality(ToLoad') <= Cardinality((LeftToPasses \ {NoMib})')
  <2>1. Delivered /\ LeftToPasses' = LeftToPasses
    BY <1>2, <1>3, <1>8, DeliveredBefore
  <2>2. Deferred \in SUBSET Nat
    BY <1>6 DEF Deferred
  <2>3. PICK j \in Deferred : \A k \in Deferred : j <= k
    BY <1>8, <2>2, FirstPlace
  <2>4. firsts = {j}
    <3>1. \A k \in firsts : k = j
      BY <2>2, <2>3
    <3> QED
      BY <2>3, <3>1
  <2> DEFINE m == MibOf[data[j].oid]
  <2>5. /\ j \in Places /\ current[j] = "placeholder" /\ m # NoMib
    BY <2>3 DEF Deferred
  <2>6. wanted = {m}
    BY <2>4, <2>5 DEF MibsOf
  <2>7. m \notin loaded
    BY <1>4, <2>5 DEF ResolveAll, Resolve
  <2>8. m \notin denied'
    BY <1>2, <1>4, <1>8, <2>5 DEF Delivered
  <2>9. m \notin attempted
    BY <1>3, <2>7, <2>8 DEF ListedInv
  <2>10. ok = {m}
    BY <1>3, <2>6, <2>8, <2>9 DEF NewMibs
  <2>11. ToLoad' \subseteq ToLoad \ {m}
    <3> SUFFICES ASSUME NEW i \in Places, current'[i] = "placeholder", MibOf[data[i].oid] # NoMib
                 PROVE  MibOf[data[i].oid] \in ToLoad \ {m}
      BY <1>2, <1>4 DEF ToLoad, Deferred
    <3>1. current'[i] = Resolve(data[i], loaded')
      BY <1>2, <1>4, <1>5, <2>10 DEF ResolveAll
    <3>2. /\ MibOf[data[i].oid] \notin loaded' /\ data[i].value \in Bare
          /\ Above[data[i].oid] \cap loaded' = {}
      BY <3>1 DEF Resolve
    <3>4. Above[data[i].oid] \cap loaded = {} /\ MibOf[data[i].oid] \notin loaded
      BY <1>3, <3>2
    <3>3. current[i] = "placeholder"
      BY <1>4, <3>2, <3>4 DEF ResolveAll, Resolve
    <3> QED
      BY <1>3, <2>10, <3>2, <3>3 DEF ToLoad, Deferred
  <2>12. m \in ToLoad
    BY <2>3 DEF ToLoad
  <2>13. IsFiniteSet(ToLoad)
    <3>1. Deferred \in SUBSET DOMAIN data
      BY DEF Deferred, Places
    <3>2. IsFiniteSet({MibOf[data[i].oid] : i \in Deferred})
      BY <1>6, <3>1, FewModules
    <3> QED
      BY <3>2 DEF ToLoad
  <2>14. IsFiniteSet(ToLoad \ {m}) /\ Cardinality(ToLoad \ {m}) = Cardinality(ToLoad) - 1
    BY <2>12, <2>13, FS_RemoveElement
  <2>15. IsFiniteSet(ToLoad') /\ Cardinality(ToLoad') <= Cardinality(ToLoad) - 1
    BY <2>11, <2>14, FS_Subset
  <2>16. IsFiniteSet(LeftToPasses \ {NoMib})
    <3> DEFINE S == {k \in Places : data[k].oid \notin Enterprise /\ MibOf[data[k].oid] # NoMib}
    <3>1. S \in SUBSET DOMAIN data
      BY DEF Places
    <3>2. LeftToPasses \ {NoMib} = {MibOf[data[k].oid] : k \in S}
      BY DEF LeftToPasses
    <3> HIDE DEF S
    <3> QED
      BY <1>6, <3>1, <3>2, FewModules
  <2>17. /\ Cardinality(ToLoad) \in Nat /\ Cardinality(ToLoad') \in Nat
         /\ Cardinality(LeftToPasses \ {NoMib}) \in Nat
    BY <2>13, <2>15, <2>16, FS_CardinalityType
  <2>18. /\ passes + Cardinality(ToLoad) <= Cardinality(LeftToPasses \ {NoMib})
         /\ Cardinality(LeftToPasses \ {NoMib}) < RetryMax
    BY <1>2, <2>1 DEF ListedInv, Delivered
  <2>19. passes \in Nat /\ RetryMax \in Nat
    BY TrapAssumption DEF TrapInv, TypeOK
  <2> HIDE DEF wanted, firsts, m
  <2>20. /\ passes' + Cardinality(ToLoad') <= Cardinality(LeftToPasses \ {NoMib})
         /\ passes' # RetryMax
    BY <1>2, <2>15, <2>17, <2>18, <2>19
  <2>21. pc' = "process"
    BY <1>1, <2>10, <2>20
  <2> QED
    BY <2>1, <2>20, <2>21
<1>9. Deferred = {} => ok = {}
  <2> SUFFICES ASSUME Deferred = {} PROVE wanted = {}
    BY DEF NewMibs
  <2> QED
    BY DEF MibsOf
<1>10. \A i \in Places : Expected(i)' => Expected(i)
  BY <1>2, <1>3 DEF Expected, Fits
<1>11. pc' = "process" /\ Delivered' =>
            passes' + Cardinality(ToLoad') <= Cardinality((LeftToPasses \ {NoMib})')
  BY <1>4, <1>8, <1>9
<1>12. pc' \in {"report", "done"} /\ Delivered' =>
            \A i \in Places' : Expected(i)' => data'[i] \in translated'
  BY <1>2, <1>4, <1>7, <1>8, <1>10
<1>13. pc' = "process" => \A i \in Places' :
            data'[i].oid \in Enterprise /\ MibOf[data'[i].oid] # NoMib
                => MibOf[data'[i].oid] \in attempted'
  BY <1>2, <1>3, <1>4 DEF ListedInv
<1> HIDE DEF wanted, firsts
<1>14. /\ attempted' \subseteq loaded' \cup denied' /\ known' \subseteq loaded'
       /\ pc' \notin {"idle", "preload", "retry", "done"}
  BY <1>2, <1>3, <1>4 DEF ListedInv
<1>15. pc' = "process" => current' = ResolveAll(loaded)'
  BY <1>4, <1>5
<1> QED
  BY <1>11, <1>12, <1>13, <1>14, <1>15 DEF ListedInv

LEMMA NextKeepsListed ==
    ASSUME TrapInv, TrapInv', ListedInv, [Next]_vars
    PROVE  ListedInv'
<1>1. CASE UNCHANGED vars
  BY <1>1 DEF vars, worker, results, ListedInv, Delivered, DistinctOids, LeftToPasses, Places,
              Expected, Fits, ToLoad, Deferred, ResolveAll
<1> QED
  BY <1>1, BetweenTrapsListed, PreloadListed, RetryListed, ProcessListed DEF Next

(* The loop of _process_trap_metrics ends too early for no varbind: when   *)
(* the MIB server delivers the modules of a trap and those that the        *)
(* preload does not cover are fewer than the passes, every varbind with a  *)
(* listed module is translated that is below enterprises, or has a bare    *)
(* value and no loaded module has a node above it, whatever else the trap  *)
(* carries and whatever the worker has loaded before.                      *)
THEOREM ListedAreTranslated == Spec => []ListedIsTranslated
<1>1. Init => TrapInv /\ ListedInv
  BY InitTrapInv, InitListed
<1>2. TrapInv /\ ListedInv /\ [Next]_vars => TrapInv' /\ ListedInv'
  BY NextKeepsTrapInv, NextKeepsListed
<1>3. ListedInv => ListedIsTranslated
  BY DEF ListedInv, Delivered, Expected, ListedIsTranslated
<1> QED
  BY <1>1, <1>2, <1>3, PTL DEF Spec
=============================================================================
