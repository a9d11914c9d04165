------------------------------ MODULE BulkWalk ------------------------------
(***************************************************************************)
(* The bulk part of a walk or poll: Poller.run_bulk_request                *)
(* (snmp/manager.py) walks the subtrees of the requested varbinds, some at *)
(* a time, with the generator multi_bulk_walk_cmd                          *)
(* (snmp/multi_bulk_walk_cmd.py), while the agent's rows come and go.      *)
(* OIDs of instances are numbers in lexicographic order; the generator is  *)
(* called with nonRepeaters = 0, without maxRows and maxCalls, and with    *)
(* lexicographicMode = False, and the agent returns increasing OIDs.       *)
(* Which MIB an OID belongs to plays no role here.                         *)
(***************************************************************************)
EXTENDS FiniteSets, Naturals

CONSTANTS
    NumOids,        \* instances are among 1..NumOids
    NumVarbinds,    \* length of varbinds_bulk
    Root, Last,     \* the subtree of varbind i is Root[i]+1 .. Last[i]
    MaxOid,         \* max_oid_to_process: varbinds walked together
    MaxRepetitions, \* rows asked for in one request
    MaxRetries,     \* retries of the task: WALK_MAX_RETRIES for a walk, 0 for a poll
    WholeRow,       \* the agent answers at least the first row of a request in full
    MaxChanges      \* bound on changes of the agent's rows

Oids == 1..NumOids
Varbinds == 1..NumVarbinds
Subtree(i) == (Root[i] + 1)..Last[i]

ASSUME BoundsAssumption ==
    /\ NumOids \in Nat /\ NumVarbinds \in Nat
    /\ MaxOid \in Nat \ {0} /\ MaxRepetitions \in Nat \ {0}
    /\ MaxRetries \in Nat /\ MaxChanges \in Nat /\ WholeRow \in BOOLEAN

(* Subtrees may lie within each other: VarBindContainer drops an entry for *)
(* a requested parent by their names only, so that [IP-MIB, icmp] and      *)
(* [IP-MIB, icmpInMsgs], or two modules, stay side by side.                *)
ASSUME SubtreesAssumption ==
    /\ Root \in [Varbinds -> 0..NumOids] /\ Last \in [Varbinds -> 0..NumOids]
    /\ \A i \in Varbinds : Root[i] <= Last[i]

VARIABLES
    agent,      \* instances the agent has
    changes,    \* number of changes of `agent' so far
    pc,         \* "request", "done": the task has a result, "failed"
    retries,    \* retries of the task so far
    chunk,      \* number of the chunk of varbinds that is being walked
    last,       \* last_oids
    completed,  \* completed
    yielded,    \* <<i, o>>: instance o was yielded for varbind i
    repeated,   \* history: pairs that were yielded more than once
    passed,     \* history: varbinds whose chunk was given up without an error
    stable      \* history: instances the agent has had since this try began

task == <<pc, retries, chunk, last, completed, yielded, repeated, passed>>
vars == <<agent, changes, task, stable>>

(* The instances in the result.                                            *)
metrics == {p[2] : p \in yielded}

TypeOK ==
    /\ agent \in SUBSET Oids /\ changes \in Nat
    /\ pc \in {"request", "done", "failed"} /\ retries \in Nat /\ chunk \in Nat \ {0}
    /\ last \in [Varbinds -> Nat]
    /\ \A i \in Varbinds : last[i] \in Root[i]..Last[i]
    /\ completed \in SUBSET Varbinds /\ passed \in SUBSET Varbinds
    /\ yielded \in SUBSET (Varbinds \X Oids) /\ repeated \in SUBSET (Varbinds \X Oids)
    /\ stable \in SUBSET Oids

(* do_work begins with an empty result and the varbinds as they are.       *)
Begin ==
    /\ pc' = "request"
    /\ chunk' = 1
    /\ last' = Root
    /\ completed' = {}
    /\ yielded' = {}
    /\ repeated' = {}
    /\ passed' = {}
    /\ stable' = agent

Init ==
    /\ agent \in SUBSET Oids /\ changes = 0 /\ retries = 0
    /\ pc = "request" /\ chunk = 1 /\ last = Root /\ completed = {}
    /\ yielded = {} /\ repeated = {} /\ passed = {} /\ stable = agent

-----------------------------------------------------------------------------
Chunk == {i \in Varbinds : (chunk - 1) * MaxOid < i /\ i <= chunk * MaxOid}
LastChunk == NumVarbinds <= chunk * MaxOid
Active == Chunk \ completed

(* What the agent has after OID o, and the first n of it.                  *)
After(o) == {y \in agent : y > o}
FirstAfter(o, n) ==
    {y \in After(o) : Cardinality({z \in agent : o < z /\ z <= y}) <= n}

(* Of the entries of varbind i the generator keeps those in its subtree.   *)
InScope(i, received) == received \cap Subtree(i)

(* An entry is beyond the subtree, or it is endOfMibView: the agent had    *)
(* fewer instances left than it was asked for.                             *)
HitsEnd(i, received, n) ==
    \/ received \ Subtree(i) # {}
    \/ received = After(last[i]) /\ Cardinality(received) < n

(* last_oids[i] moves to the last entry that was kept.                     *)
Greatest(S) == CHOOSE x \in S : \A y \in S : y <= x
StayBehind(i, valid) == last[i]
Advance(i, valid) == IF valid = {} THEN last[i] ELSE Greatest(valid)

(* The generator ends when nothing was kept or every varbind is completed. *)
SomeCompleted(valid, ended) == valid = {} \/ ended \cap Chunk # {}
ChunkEnds(valid, ended) == valid = {} \/ Chunk \subseteq ended

(* A response: q entries for every active varbind, and one more for the    *)
(* first ones, up to varbind `cut', when it was truncated.  A response     *)
(* without an entry is the error indication EmptyResponse.                 *)
Respond(q, cut) ==
    /\ pc = "request"
    /\ q = MaxRepetitions => cut = 0
    /\ q >= 1 \/ (~WholeRow /\ \E i \in Active : i <= cut)
    /\ LET share(i) == IF i <= cut THEN q + 1 ELSE q
           received == [i \in Active |-> FirstAfter(last[i], share(i))]
           valid == [i \in Active |-> InScope(i, received[i])]
           kept == UNION {{i} \X valid[i] : i \in Active}
           ended == completed \cup {i \in Active : HitsEnd(i, received[i], share(i))}
           ends == ChunkEnds(kept, ended)
       IN  /\ last' = [i \in Varbinds |->
                          IF i \in Active THEN Advance(i, valid[i]) ELSE last[i]]
           /\ completed' = ended
           /\ yielded' = yielded \cup kept
           /\ repeated' = repeated \cup (yielded \cap kept)
           /\ pc' = IF ends /\ LastChunk THEN "done" ELSE "request"
           /\ chunk' = IF ends /\ ~LastChunk THEN chunk + 1 ELSE chunk
    /\ UNCHANGED <<agent, changes, retries, passed, stable>>

(* Error status 2 is reset to 0 by the generator, and EmptyResponse is     *)
(* passed over with IGNORE_EMPTY_VARBINDS: the generator ends, nothing is  *)
(* raised, and the walk goes on as if the chunk were complete.             *)
PassOver ==
    /\ pc = "request"
    /\ passed' = passed \cup Active
    /\ pc' = IF LastChunk THEN "done" ELSE "request"
    /\ chunk' = IF LastChunk THEN chunk ELSE chunk + 1
    /\ UNCHANGED <<agent, changes, retries, last, completed, yielded, repeated, stable>>

(* Any other error indication or status makes the consumer raise           *)
(* SnmpActionError, which drops the result; the task is retried from its   *)
(* beginning as long as it has retries.  Another exception, such as the    *)
(* library's on the unresolved rows yielded for error status 2, is not     *)
(* retried.                                                                *)
Fail ==
    /\ pc = "request"
    /\ \/ retries < MaxRetries /\ Begin /\ retries' = retries + 1
       \/ /\ pc' = "failed"
          /\ UNCHANGED <<retries, chunk, last, completed, yielded, repeated, passed, stable>>
    /\ UNCHANGED <<agent, changes>>

(* A row appears in the agent or disappears from it.                       *)
AgentChanges ==
    /\ changes < MaxChanges
    /\ \E o \in Oids : agent' = IF o \in agent THEN agent \ {o} ELSE agent \cup {o}
    /\ changes' = changes + 1
    /\ stable' = stable \cap agent'
    /\ UNCHANGED task

Next ==
    \/ \E q \in 0..MaxRepetitions, cut \in 0..NumVarbinds : Respond(q, cut)
    \/ PassOver
    \/ Fail
    \/ AgentChanges

Spec == Init /\ [][Next]_vars

(* A request is answered or times out, and timeouts use up the retries, so *)
(* answers come as long as the task asks.  A failure is never relied on: a *)
(* loop that answers do not get out of goes on for ever.                   *)
FairSpec ==
    /\ Spec
    /\ WF_vars(\E q \in 0..MaxRepetitions, cut \in 0..NumVarbinds : Respond(q, cut))

-----------------------------------------------------------------------------
(* multi_bulk_walk_cmd with several varbinds: no instance is yielded twice *)
(* for one varbind, whichever varbinds complete first and however the rows *)
(* change; so one comes twice only if two requested subtrees contain it.   *)
NoDuplicates == repeated = {}

(* run_bulk_request: a result that is handed on contains every instance of *)
(* the requested subtrees that the agent had all the time, unless the      *)
(* chunk was given up in silence; rows that appear, disappear or complete  *)
(* another varbind hide none of them.                                      *)
NothingMissed ==
    pc = "done" => \A i \in Varbinds \ passed : stable \cap Subtree(i) \subseteq metrics

(* The loop of the generator and the retries of the task come to an end.   *)
WalkEnds == <>(pc # "request")
=============================================================================
