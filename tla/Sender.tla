------------------------------- MODULE Sender -------------------------------
(***************************************************************************)
(* The task send (splunk/tasks.py): it posts the events and metrics that   *)
(* prepare has made of one result to Splunk HEC and the metrics to OTEL,   *)
(* SPLUNK_HEC_CHUNK_SIZE items at a time.  Its message is delivered at     *)
(* least once: a worker that is lost after it has published a retry leaves *)
(* a copy of the task behind.                                              *)
(***************************************************************************)
EXTENDS FiniteSets, Naturals

CONSTANTS
    NumEvents, NumMetrics, \* items in data["events"] and data["metrics"]
    HecToken, OtelUrl,     \* whether SPLUNK_HEC_TOKEN and OTEL_METRICS_URL are set
    ChunkSize,             \* SPLUNK_HEC_CHUNK_SIZE
    MaxRetries,            \* max_retries
    Copies, First,         \* copies of the message; the one that is there at first
    MaxLost                \* bound on lost workers

(* The calls of do_send in their order: events to HEC, metrics to HEC,     *)
(* metrics to OTEL.                                                        *)
Calls == 1..3
Length(s) == IF s = 1 THEN NumEvents ELSE NumMetrics
Used(s) == IF s = 3 THEN OtelUrl ELSE HecToken
Items == UNION {{s} \X (1..Length(s)) : s \in {u \in Calls : Used(u)}}

ASSUME SenderAssumption ==
    /\ NumEvents \in Nat /\ NumMetrics \in Nat /\ ChunkSize \in Nat \ {0}
    /\ HecToken \in BOOLEAN /\ OtelUrl \in BOOLEAN
    /\ MaxRetries \in Nat /\ MaxLost \in Nat /\ First \in Copies

VARIABLES
    pc,       \* per copy: "none", "queued", "sending", "done", "failed", "killed"
    retries,  \* per copy: request.retries
    call,     \* per copy: the call of do_send, 4 after the last
    offset,   \* per copy: i of the loop in do_send
    accepted, \* items that their destination has taken
    answered, \* items for which a final answer came, 200 or an error
    posts,    \* history: how often each item was posted
    lost      \* number of workers lost so far

vars == <<pc, retries, call, offset, accepted, answered, posts, lost>>

TypeOK ==
    /\ pc \in [Copies -> {"none", "queued", "sending", "done", "failed", "killed"}]
    /\ retries \in [Copies -> 0..MaxRetries]
    /\ call \in [Copies -> 1..4] /\ offset \in [Copies -> Nat]
    /\ accepted \subseteq Items /\ answered \subseteq Items
    /\ posts \in [Items -> Nat] /\ lost \in 0..MaxLost

Init ==
    /\ pc = [c \in Copies |-> IF c = First THEN "queued" ELSE "none"]
    /\ retries = [c \in Copies |-> 0]
    /\ call = [c \in Copies |-> 1] /\ offset = [c \in Copies |-> 0]
    /\ accepted = {} /\ answered = {} /\ posts = [i \in Items |-> 0] /\ lost = 0

-----------------------------------------------------------------------------
ItemsAt(s, o) == {i \in Items : i[1] = s /\ o < i[2] /\ i[2] <= o + ChunkSize}
InLoop(c) ==
    /\ pc[c] = "sending" /\ call[c] \in Calls
    /\ Used(call[c]) /\ offset[c] < Length(call[c])

(* Every execution of the task begins with the first chunk.                *)
Start(c) ==
    /\ pc[c] = "queued"
    /\ pc' = [pc EXCEPT ![c] = "sending"]
    /\ call' = [call EXCEPT ![c] = 1] /\ offset' = [offset EXCEPT ![c] = 0]
    /\ UNCHANGED <<retries, accepted, answered, posts, lost>>

Post(c) == posts' = [i \in Items |->
                        posts[i] + IF i \in ItemsAt(call[c], offset[c]) THEN 1 ELSE 0]

(* Mutant of NextChunk: the rest of the data goes with a refused chunk.    *)
NextAcceptedChunk(c, ok) ==
    IF ok THEN offset' = [offset EXCEPT ![c] = @ + ChunkSize]
          ELSE offset' = [offset EXCEPT ![c] = Length(call[c])]

NextChunk(c, ok) == offset' = [offset EXCEPT ![c] = @ + ChunkSize]

(* 200 and 202 accept the chunk; after 400, 401, 403 or an undocumented    *)
(* code it is dropped with a line in the log.                              *)
Answer(c, ok) ==
    /\ InLoop(c)
    /\ Post(c)
    /\ accepted' = IF ok THEN accepted \cup ItemsAt(call[c], offset[c]) ELSE accepted
    /\ answered' = answered \cup ItemsAt(call[c], offset[c])
    /\ NextChunk(c, ok)
    /\ UNCHANGED <<pc, retries, call, lost>>

(* Mutant of Again: the message of the retry counts from the beginning.    *)
AgainUncounted(c) ==
    /\ pc' = [pc EXCEPT ![c] = "queued"]
    /\ UNCHANGED retries

(* self.retry: a new message, or MaxRetriesExceededError.                  *)
Again(c) ==
    IF retries[c] < MaxRetries
    THEN /\ pc' = [pc EXCEPT ![c] = "queued"]
         /\ retries' = [retries EXCEPT ![c] = @ + 1]
    ELSE /\ pc' = [pc EXCEPT ![c] = "failed"]
         /\ UNCHANGED retries

(* A post without an answer, or one whose answer nobody reads: the         *)
(* destination may have accepted the chunk all the same.                   *)
Unanswered(c) ==
    /\ InLoop(c)
    /\ Post(c)
    /\ accepted' \in {accepted, accepted \cup ItemsAt(call[c], offset[c])}

(* 500, 503, no connection or no answer in time.                           *)
NoAnswer(c) ==
    /\ Unanswered(c)
    /\ Again(c)
    /\ UNCHANGED <<call, offset, answered, lost>>

(* Mutant of LoopOver: a last chunk that is not full is stepped over.      *)
LoopMisses(c) == ~Used(call[c]) \/ offset[c] = Length(call[c])

(* The loop of one call is over, or the destination is not configured.     *)
LoopOver(c) == ~Used(call[c]) \/ offset[c] >= Length(call[c])

NextCall(c) ==
    /\ pc[c] = "sending" /\ call[c] \in Calls /\ LoopOver(c)
    /\ call' = [call EXCEPT ![c] = @ + 1] /\ offset' = [offset EXCEPT ![c] = 0]
    /\ UNCHANGED <<pc, retries, accepted, answered, posts, lost>>

Finish(c) ==
    /\ pc[c] = "sending" /\ call[c] = 4
    /\ pc' = [pc EXCEPT ![c] = "done"]
    /\ UNCHANGED <<retries, call, offset, accepted, answered, posts, lost>>

(* The process ends between two posts or in the middle of one.             *)
CutOff(c) ==
    /\ pc[c] = "sending"
    /\ Unanswered(c) \/ UNCHANGED <<posts, accepted>>

(* task_time_limit; task_acks_on_failure_or_timeout ends the message.      *)
TimeLimit(c) ==
    /\ CutOff(c)
    /\ pc' = [pc EXCEPT ![c] = "killed"]
    /\ UNCHANGED <<retries, call, offset, answered, lost>>

(* task_acks_late and task_reject_on_worker_lost: the message of a lost    *)
(* worker is delivered again.                                              *)
WorkerLost(c) ==
    /\ CutOff(c) /\ lost < MaxLost
    /\ pc' = [pc EXCEPT ![c] = "queued"]
    /\ lost' = lost + 1
    /\ UNCHANGED <<retries, call, offset, answered>>

(* The worker is lost between the publication of the retry and the         *)
(* acknowledgement of the message it retries: both are delivered.          *)
LostAfterRetry(c, d) ==
    /\ Unanswered(c) /\ retries[c] < MaxRetries
    /\ pc[d] = "none" /\ lost < MaxLost
    /\ pc' = [pc EXCEPT ![c] = "queued", ![d] = "queued"]
    /\ retries' = [retries EXCEPT ![d] = retries[c] + 1]
    /\ lost' = lost + 1
    /\ UNCHANGED <<call, offset, answered>>

Work(c) ==
    \/ Start(c)
    \/ \E ok \in BOOLEAN : Answer(c, ok)
    \/ NoAnswer(c) \/ NextCall(c) \/ Finish(c)

Next ==
    \/ \E c \in Copies : Work(c) \/ TimeLimit(c) \/ WorkerLost(c)
    \/ \E c, d \in Copies : LostAfterRetry(c, d)

Spec == Init /\ [][Next]_vars

(* A sender worker takes every message, and every post ends: it is         *)
(* answered or times out after 60 seconds.                                 *)
FairSpec == Spec /\ \A c \in Copies : WF_vars(Work(c))

-----------------------------------------------------------------------------
(* A send that ends normally has brought every item to an answer of every  *)
(* configured destination: no chunk is skipped after a refused one, after  *)
(* a retry, or because another copy of the task was at work.               *)
EverythingAnswered == (\E c \in Copies : pc[c] = "done") => answered = Items

(* max_retries bounds the duplicates: without lost workers an item is      *)
(* posted at most once more than there are retries, and a lost worker adds *)
(* at most another such series and one repetition.                         *)
DuplicatesBounded ==
    \A i \in Items : posts[i] <= (lost + 1) * (MaxRetries + 1) + lost

(* A send does not go on for ever, whatever the destinations answer, even  *)
(* without the time limit.                                                 *)
SendEnds == <>[](\A c \in Copies : pc[c] \notin {"queued", "sending"})
=============================================================================
