----------------------------- MODULE EngineIds -----------------------------
(***************************************************************************)
(* The trap receivers (traps.py) and the engine IDs they know              *)
(* (EngineIdManager in common/collection_manager.py).  A receiver hands an *)
(* SNMPv3 trap on if its USM table has the user of the trap under the      *)
(* engine ID of the sender.  The replicas share the collection             *)
(* engine_id_records, which has a unique index.  A receiver is one event   *)
(* loop: it finishes a trap before it looks at the next datagram.          *)
(***************************************************************************)
EXTENDS FiniteSets, Naturals

CONSTANTS
    Receivers,           \* replicas of the trap receiver
    Users,               \* names in usernameSecrets
    Names,               \* users in the traps that devices send
    EngineIds,           \* engine IDs as decode_security_context writes them
    Spellings, Canon,    \* engine IDs as an administrator may write them
    NoId,
    Configs,             \* values of SNMP_V3_SECURITY_ENGINE_ID: sets of spellings
    MaxEdits,            \* bound on changes of the configuration
    MaxFaults            \* bound on failures of receivers and of the database

ASSUME EngineAssumption ==
    /\ IsFiniteSet(Receivers) /\ Receivers # {}
    /\ EngineIds \subseteq Spellings /\ NoId \notin Spellings
    /\ Canon \in [Spellings -> EngineIds] /\ \A e \in EngineIds : Canon[e] = e
    /\ Configs \subseteq SUBSET Spellings
    /\ MaxEdits \in Nat /\ MaxFaults \in Nat

VARIABLES
    configured,  \* SNMP_V3_SECURITY_ENGINE_ID
    discover,    \* DISCOVER_ENGINE_ID
    records,     \* the collection engine_id_records
    stage,       \* per receiver: "down", "sync", "ready", "trap", "saved"
    todo,        \* per receiver: configured IDs that main has still to save
    discovering, \* per receiver: the setting the process was started with
    cached,      \* per receiver: _cached_engine_ids
    added,       \* per receiver: _added_engine_ids
    usm,         \* per receiver: users registered with the SNMP engine
    engine,      \* per receiver: engine ID of the trap in cb_fun
    missed,      \* per receiver: the ID find_one has not found
    forwarded,   \* history: engine IDs from which a trap was handed on
    heard,       \* history, per receiver: forwarded when the process started
    lost,        \* history: authenticated traps dropped by an error
    edits, faults

stores == <<configured, discover, records>>
receiver == <<stage, todo, discovering, cached, added, usm, engine, missed>>
history == <<forwarded, heard, lost>>
receiverVars == <<stores, receiver, history, edits, faults>>

Pcs == {"down", "sync", "ready", "trap", "saved"}

ReceiversTypeOK ==
    /\ configured \in Configs /\ discover \in BOOLEAN /\ records \subseteq Spellings
    /\ stage \in [Receivers -> Pcs] /\ todo \in [Receivers -> SUBSET Spellings]
    /\ discovering \in [Receivers -> BOOLEAN]
    /\ cached \in [Receivers -> SUBSET Spellings]
    /\ added \in [Receivers -> SUBSET EngineIds]
    /\ usm \in [Receivers -> SUBSET (Users \X EngineIds)]
    /\ engine \in [Receivers -> EngineIds \cup {NoId}]
    /\ \A r \in Receivers : stage[r] \in {"trap", "saved"} => engine[r] # NoId
    /\ missed \in [Receivers -> Spellings \cup {NoId}]
    /\ forwarded \subseteq EngineIds /\ heard \in [Receivers -> SUBSET EngineIds]
    /\ lost \in [EngineIds -> Nat]
    /\ edits \in 0..MaxEdits /\ faults \in 0..MaxFaults

ReceiversInit ==
    /\ configured \in Configs /\ discover \in BOOLEAN /\ records = {}
    /\ stage = [r \in Receivers |-> "down"] /\ todo = [r \in Receivers |-> {}]
    /\ discovering = [r \in Receivers |-> FALSE]
    /\ cached = [r \in Receivers |-> {}] /\ added = [r \in Receivers |-> {}]
    /\ usm = [r \in Receivers |-> {}]
    /\ engine = [r \in Receivers |-> NoId] /\ missed = [r \in Receivers |-> NoId]
    /\ forwarded = {} /\ heard = [r \in Receivers |-> {}]
    /\ lost = [e \in EngineIds |-> 0] /\ edits = 0 /\ faults = 0

-----------------------------------------------------------------------------
(* Mutant of Boot: the cache is filled by save_engine_id only.             *)
BootWithEmptyCache(r) ==
    /\ stage[r] = "down"
    /\ stage' = [stage EXCEPT ![r] = "sync"]
    /\ todo' = [todo EXCEPT ![r] = configured]
    /\ discovering' = [discovering EXCEPT ![r] = discover]
    /\ cached' = [cached EXCEPT ![r] = {}]
    /\ added' = [added EXCEPT ![r] = {}] /\ usm' = [usm EXCEPT ![r] = {}]
    /\ heard' = [heard EXCEPT ![r] = forwarded]
    /\ UNCHANGED <<stores, engine, missed, forwarded, lost, edits, faults>>

(* The container starts: the environment and the collection are read.      *)
Boot(r) ==
    /\ stage[r] = "down"
    /\ stage' = [stage EXCEPT ![r] = "sync"]
    /\ todo' = [todo EXCEPT ![r] = configured]
    /\ discovering' = [discovering EXCEPT ![r] = discover]
    /\ cached' = [cached EXCEPT ![r] = records]
    /\ added' = [added EXCEPT ![r] = {}] /\ usm' = [usm EXCEPT ![r] = {}]
    /\ heard' = [heard EXCEPT ![r] = forwarded]
    /\ UNCHANGED <<stores, engine, missed, forwarded, lost, edits, faults>>

(* save_engine_id is at work: in the loop over the configured IDs or for   *)
(* the engine ID of a trap.                                                *)
Saving(r, id) ==
    \/ stage[r] = "sync" /\ id \in todo[r]
    \/ stage[r] = "trap" /\ id = engine[r]

(* save_engine_id returns.                                                 *)
Saved(r, id) ==
    /\ stage' = [stage EXCEPT ![r] = IF @ = "trap" THEN "saved" ELSE @]
    /\ todo' = [todo EXCEPT ![r] = @ \ {id}]
    /\ UNCHANGED <<configured, discover, discovering, added, usm, engine, history,
                   edits, faults>>

(* Mutant of Find: insert_one alone decides, as a unique index would do.   *)
FindInCache(r, id) ==
    /\ Saving(r, id) /\ missed[r] = NoId
    /\ IF id \in cached[r]
       THEN Saved(r, id) /\ UNCHANGED <<missed, records, cached>>
       ELSE /\ missed' = [missed EXCEPT ![r] = id]
            /\ UNCHANGED <<stage, todo, discovering, cached, added, usm, engine,
                           stores, history, edits, faults>>

(* The cache and find_one.                                                 *)
Find(r, id) ==
    /\ Saving(r, id) /\ missed[r] = NoId
    /\ IF id \in cached[r] \cup records
       THEN /\ cached' = [cached EXCEPT ![r] = @ \cup {id}]
            /\ Saved(r, id) /\ UNCHANGED <<missed, records>>
       ELSE /\ missed' = [missed EXCEPT ![r] = id]
            /\ UNCHANGED <<stage, todo, discovering, cached, added, usm, engine,
                           stores, history, edits, faults>>

(* insert_one, when no other receiver has inserted the ID in between.      *)
Insert(r) ==
    /\ missed[r] # NoId /\ missed[r] \notin records
    /\ records' = records \cup {missed[r]}
    /\ cached' = [cached EXCEPT ![r] = @ \cup {missed[r]}]
    /\ missed' = [missed EXCEPT ![r] = NoId]
    /\ Saved(r, missed[r])

(* An exception of save_engine_id ends main, and it ends cb_fun before the *)
(* chain of the trap is sent.                                              *)
Raise(r) ==
    /\ missed' = [missed EXCEPT ![r] = NoId] /\ engine' = [engine EXCEPT ![r] = NoId]
    /\ stage' = [stage EXCEPT ![r] = IF @ = "sync" THEN "down" ELSE "ready"]
    /\ lost' = IF stage[r] = "sync" THEN lost ELSE [lost EXCEPT ![engine[r]] = @ + 1]
    /\ UNCHANGED <<configured, discover, todo, discovering, cached, added, usm,
                   forwarded, heard, edits>>

(* insert_one raises DuplicateKeyError.                                    *)
Duplicate(r) ==
    /\ missed[r] # NoId /\ missed[r] \in records
    /\ Raise(r) /\ UNCHANGED <<records, faults>>

(* MongoDB does not answer find_one or insert_one, which may have stored   *)
(* the record all the same, or the broker does not take the chain.         *)
ServiceFails(r) ==
    /\ \/ \E id \in Spellings : Saving(r, id) /\ id \notin cached[r]
       \/ stage[r] = "saved"
    /\ records' \in {records, records \cup ({missed[r]} \ {NoId})}
    /\ faults < MaxFaults /\ faults' = faults + 1
    /\ Raise(r)

(* Mutant of SyncDone: main waits for the IDs as devices send them.        *)
SyncDoneWaits(r) ==
    /\ stage[r] = "sync" /\ todo[r] = {} /\ {Canon[id] : id \in cached[r]} \subseteq records
    /\ stage' = [stage EXCEPT ![r] = "ready"]
    /\ added' = [added EXCEPT ![r] = {Canon[id] : id \in cached[r]}]
    /\ usm' = [usm EXCEPT ![r] = Users \X {Canon[id] : id \in cached[r]}]
    /\ UNCHANGED <<stores, todo, discovering, cached, engine, missed, history, edits, faults>>

(* main registers every user under every ID, all of which are now cached,  *)
(* and starts the event loop.                                              *)
SyncDone(r) ==
    /\ stage[r] = "sync" /\ todo[r] = {}
    /\ stage' = [stage EXCEPT ![r] = "ready"]
    /\ added' = [added EXCEPT ![r] = {Canon[id] : id \in cached[r]}]
    /\ usm' = [usm EXCEPT ![r] = Users \X {Canon[id] : id \in cached[r]}]
    /\ UNCHANGED <<stores, todo, discovering, cached, engine, missed, history, edits, faults>>

-----------------------------------------------------------------------------
(* datagram_received registers a new engine ID if the user is known; then  *)
(* pysnmp looks the user up and, if the keys are right, calls cb_fun.      *)
Datagram(r, user, id, keys) ==
    /\ stage[r] = "ready"
    /\ LET new == discovering[r] /\ user \in Users /\ id \notin added[r]
       IN  /\ added' = [added EXCEPT ![r] = IF new THEN @ \cup {id} ELSE @]
           /\ usm' = [usm EXCEPT ![r] = IF new THEN @ \cup Users \X {id} ELSE @]
    /\ IF keys /\ <<user, id>> \in usm'[r]
       THEN stage' = [stage EXCEPT ![r] = "trap"] /\ engine' = [engine EXCEPT ![r] = id]
       ELSE UNCHANGED <<stage, engine>>
    /\ UNCHANGED <<stores, todo, discovering, cached, missed, history, edits, faults>>

(* cb_fun sends the chain of the trap.                                     *)
Publish(r) ==
    /\ stage[r] = "saved"
    /\ forwarded' = forwarded \cup {engine[r]}
    /\ stage' = [stage EXCEPT ![r] = "ready"] /\ engine' = [engine EXCEPT ![r] = NoId]
    /\ UNCHANGED <<stores, todo, discovering, cached, added, usm, missed, heard, lost,
                   edits, faults>>

(* The process ends: a crash, or a new pod after a change of the settings. *)
Stop(r) ==
    /\ stage[r] # "down" /\ faults < MaxFaults /\ faults' = faults + 1
    /\ stage' = [stage EXCEPT ![r] = "down"]
    /\ missed' = [missed EXCEPT ![r] = NoId] /\ engine' = [engine EXCEPT ![r] = NoId]
    /\ UNCHANGED <<stores, todo, discovering, cached, added, usm, history, edits>>

EditConfiguration ==
    /\ edits < MaxEdits /\ edits' = edits + 1
    /\ configured' \in Configs /\ discover' \in BOOLEAN
    /\ UNCHANGED <<records, receiver, history, faults>>

Proceed(r) ==
    \/ Boot(r) \/ Insert(r) \/ Duplicate(r) \/ SyncDone(r) \/ Publish(r)
    \/ \E id \in Spellings : Find(r, id)

ReceiversNext ==
    \/ EditConfiguration
    \/ \E r \in Receivers :
        \/ Proceed(r) \/ ServiceFails(r) \/ Stop(r)
        \/ \E user \in Names, id \in EngineIds, keys \in BOOLEAN :
                Datagram(r, user, id, keys)

ReceiversSpec == ReceiversInit /\ [][ReceiversNext]_receiverVars

(* Kubernetes starts a container that has ended again, and a process that  *)
(* has work to do goes on.                                                 *)
FairSpec == ReceiversSpec /\ \A r \in Receivers : WF_receiverVars(Proceed(r))

-----------------------------------------------------------------------------
Running(r) == stage[r] \in {"ready", "trap", "saved"}

(* docs/configuration/traps.md, Engine ID Discovery: an engine ID from     *)
(* which a trap was ever handed on, by whichever replica, is registered    *)
(* for every user in every receiver started since then, also when the      *)
(* discovery or the ID has been taken out of the configuration.            *)
HeardIsRegistered ==
    \A r \in Receivers : Running(r) => Users \X heard[r] \subseteq usm[r]

(* save_engine_id: of the replicas that see an engine ID for the first     *)
(* time at once, each but one may lose one trap to DuplicateKeyError; no   *)
(* replica ever loses a second one that way, nor any after a restart.      *)
LossBounded ==
    \A id \in EngineIds : lost[id] <= Cardinality(Receivers) - 1 + faults

(* _sync_engine_ids_with_mongo: replicas started at the same time make one *)
(* another fail on the configured IDs, but all of them come up in the end. *)
ReceiversStart == <>[](\A r \in Receivers : Running(r))
=============================================================================
