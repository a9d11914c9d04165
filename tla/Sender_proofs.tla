---------------------------- MODULE Sender_proofs ----------------------------
(***************************************************************************)
(* A send that ends normally has left nothing out, and the duplicates are  *)
(* bounded: for any amount of data, chunk size, answers, retries, copies   *)
(* of the task and lost workers.                                           *)
(***************************************************************************)
EXTENDS Sender, FiniteSetTheorems, TLAPS

(* The strengthening: whatever lies before the place of a running copy has *)
(* been answered.                                                          *)
Before(i, c) == i[1] < call[c] \/ (i[1] = call[c] /\ i[2] <= offset[c])
Covered == \A c \in Copies : pc[c] = "sending" =>
               \A i \in Items : Before(i, c) => i \in answered
SendInv == TypeOK /\ Covered /\ EverythingAnswered

(* An item belongs to a configured call and has its number there.          *)
LEMMA ItemType ==
    ASSUME NEW i \in Items
    PROVE  /\ i[1] \in Calls /\ Used(i[1])
           /\ i[2] \in Nat /\ i[2] \in 1..Length(i[1])
<1>1. PICK s \in {u \in Calls : Used(u)} : i \in {s} \X (1..Length(s))
  BY DEF Items
<1>2. i[1] = s /\ i[2] \in 1..Length(s)
  BY <1>1
<1>3. Length(s) \in Nat
  BY SenderAssumption DEF Length
<1> QED
  BY <1>1, <1>2, <1>3

(* A post counts as one more for the items of its chunk.                   *)
LEMMA PostType ==
    ASSUME TypeOK, NEW c \in Copies, Post(c)
    PROVE  posts' \in [Items -> Nat]
BY DEF Post, TypeOK

(* So does a post whose answer nobody reads.                               *)
LEMMA UnansweredType ==
    ASSUME TypeOK, NEW c \in Copies, Unanswered(c)
    PROVE  posts' \in [Items -> Nat] /\ accepted' \subseteq Items
<1>1. posts' \in [Items -> Nat]
  BY PostType DEF Unanswered
<1>2. accepted' \subseteq Items
  BY DEF Unanswered, ItemsAt, TypeOK
<1> QED
  BY <1>1, <1>2

(* The first copy waits in the queue.                                      *)
LEMMA InitSendInv == Init => SendInv
BY SenderAssumption DEF Init, SendInv, TypeOK, Covered, EverythingAnswered

(* Nothing lies before the place where an execution begins.                *)
LEMMA StartKeepsSendInv ==
    ASSUME SendInv, NEW c \in Copies, Start(c) PROVE SendInv'
<1>1. TypeOK'
  BY DEF Start, SendInv, TypeOK
<1>2. Covered'
  <2> SUFFICES ASSUME NEW d \in Copies, pc'[d] = "sending", NEW i \in Items, Before(i, d)'
               PROVE  i \in answered
    BY DEF Start, Covered
  <2>1. CASE d = c
    BY <2>1, ItemType DEF Start, Before, SendInv, TypeOK, Calls
  <2>2. CASE d # c
    BY <2>2 DEF Start, Before, SendInv, TypeOK, Covered
  <2> QED
    BY <2>1, <2>2
<1>3. EverythingAnswered'
  BY DEF Start, SendInv, TypeOK, EverythingAnswered
<1> QED
  BY <1>1, <1>2, <1>3 DEF SendInv

(* The items between the old and the new place are those of the chunk.     *)
LEMMA AnswerKeepsSendInv ==
    ASSUME SendInv, NEW c \in Copies, NEW ok \in BOOLEAN, Answer(c, ok) PROVE SendInv'
<1>1. /\ offset' = [offset EXCEPT ![c] = @ + ChunkSize]
      /\ answered' = answered \cup ItemsAt(call[c], offset[c])
      /\ UNCHANGED <<pc, retries, call, lost>>
  BY DEF Answer, NextChunk
<1>2. TypeOK'
  <2>1. posts' \in [Items -> Nat]
    BY PostType DEF Answer, SendInv
  <2>2. accepted' \subseteq Items /\ answered' \subseteq Items
    BY <1>1 DEF Answer, ItemsAt, SendInv, TypeOK
  <2>3. offset' \in [Copies -> Nat]
    BY <1>1, SenderAssumption DEF SendInv, TypeOK
  <2> QED
    BY <1>1, <2>1, <2>2, <2>3 DEF SendInv, TypeOK
<1>3. Covered'
  <2> SUFFICES ASSUME NEW d \in Copies, pc[d] = "sending", NEW i \in Items, Before(i, d)'
               PROVE  i \in answered'
    BY <1>1 DEF Covered
  <2>1. CASE Before(i, d)
    BY <2>1, <1>1 DEF SendInv, Covered
  <2>2. CASE ~Before(i, d)
    <3>1. d = c
      BY <2>2, <1>1 DEF Before, SendInv, TypeOK
    <3>2. i[1] = call[c] /\ offset[c] < i[2] /\ i[2] <= offset[c] + ChunkSize
      BY <2>2, <3>1, <1>1, ItemType, SenderAssumption DEF Before, SendInv, TypeOK
    <3> QED
      BY <3>2, <1>1 DEF ItemsAt
  <2> QED
    BY <2>1, <2>2
<1>4. EverythingAnswered'
  <2>1. ItemsAt(call[c], offset[c]) \subseteq Items
    BY DEF ItemsAt
  <2> QED
    BY <1>1, <2>1 DEF SendInv, EverythingAnswered
<1> QED
  BY <1>2, <1>3, <1>4 DEF SendInv

(* Again counts to max_retries and takes the copy out of the loop.         *)
LEMMA NoAnswerKeepsSendInv ==
    ASSUME SendInv, NEW c \in Copies, NoAnswer(c) PROVE SendInv'
<1>1. /\ pc' \in {[pc EXCEPT ![c] = "queued"], [pc EXCEPT ![c] = "failed"]}
      /\ retries' \in [Copies -> 0..MaxRetries]
      /\ UNCHANGED <<call, offset, answered, lost>>
  BY SenderAssumption DEF NoAnswer, Again, SendInv, TypeOK
<1>2. posts' \in [Items -> Nat] /\ accepted' \subseteq Items
  BY UnansweredType DEF NoAnswer, SendInv
<1>3. TypeOK'
  BY <1>1, <1>2 DEF SendInv, TypeOK
<1> QED
  BY <1>1, <1>3 DEF SendInv, Covered, EverythingAnswered, Before, TypeOK

(* A call that is over has nothing left, and one that is not configured    *)
(* has no items.                                                           *)
LEMMA NextCallKeepsSendInv ==
    ASSUME SendInv, NEW c \in Copies, NextCall(c) PROVE SendInv'
<1>1. /\ pc[c] = "sending" /\ call[c] \in Calls /\ LoopOver(c)
      /\ call' = [call EXCEPT ![c] = @ + 1] /\ offset' = [offset EXCEPT ![c] = 0]
      /\ UNCHANGED <<pc, retries, accepted, answered, posts, lost>>
  BY DEF NextCall
<1>2. TypeOK'
  BY <1>1 DEF SendInv, TypeOK, Calls
<1>3. Covered'
  <2> SUFFICES ASSUME NEW d \in Copies, pc[d] = "sending", NEW i \in Items, Before(i, d)'
               PROVE  i \in answered
    BY <1>1 DEF Covered
  <2>1. CASE d # c
    BY <2>1, <1>1 DEF Before, SendInv, TypeOK, Covered
  <2>2. CASE d = c
    <3>1. i[1] <= call[c]
      BY <2>2, <1>1, ItemType DEF Before, SendInv, TypeOK, Calls
    <3>2. i[1] = call[c] => i[2] <= offset[c]
      BY <1>1, ItemType, SenderAssumption DEF LoopOver, SendInv, TypeOK, Length
    <3>3. Before(i, c)
      BY <3>1, <3>2, <1>1, ItemType DEF Before, Calls
    <3> QED
      BY <3>3, <1>1 DEF SendInv, Covered
  <2> QED
    BY <2>1, <2>2
<1> QED
  BY <1>1, <1>2, <1>3 DEF SendInv, EverythingAnswered

(* After the last call every item lies before the place of the copy.       *)
LEMMA FinishKeepsSendInv ==
    ASSUME SendInv, NEW c \in Copies, Finish(c) PROVE SendInv'
<1>1. /\ pc[c] = "sending" /\ call[c] = 4 /\ pc' = [pc EXCEPT ![c] = "done"]
      /\ UNCHANGED <<retries, call, offset, accepted, answered, posts, lost>>
  BY DEF Finish
<1>2. TypeOK'
  BY <1>1 DEF SendInv, TypeOK
<1>3. answered = Items
  <2>1. \A i \in Items : Before(i, c)
    BY <1>1, ItemType DEF Before, Calls
  <2> QED
    BY <2>1, <1>1 DEF SendInv, Covered, TypeOK
<1> QED
  BY <1>1, <1>2, <1>3 DEF SendInv, Covered, EverythingAnswered, Before, TypeOK

(* A copy that is cut off is out of the loop.                              *)
LEMMA CutOffKeepsSendInv ==
    ASSUME SendInv, NEW c \in Copies, TimeLimit(c) \/ WorkerLost(c) PROVE SendInv'
<1>1. /\ pc' \in {[pc EXCEPT ![c] = "queued"], [pc EXCEPT ![c] = "killed"]}
      /\ lost' \in 0..MaxLost
      /\ UNCHANGED <<retries, call, offset, answered>>
  BY SenderAssumption DEF TimeLimit, WorkerLost, SendInv, TypeOK
<1>2. posts' \in [Items -> Nat] /\ accepted' \subseteq Items
  BY UnansweredType DEF TimeLimit, WorkerLost, CutOff, SendInv, TypeOK
<1>3. TypeOK'
  BY <1>1, <1>2 DEF SendInv, TypeOK
<1> QED
  BY <1>1, <1>3 DEF SendInv, Covered, EverythingAnswered, Before, TypeOK

(* Both copies of a task that is delivered twice wait in the queue.        *)
LEMMA LostAfterRetryKeepsSendInv ==
    ASSUME SendInv, NEW c \in Copies, NEW d \in Copies, LostAfterRetry(c, d) PROVE SendInv'
<1>1. /\ pc' = [pc EXCEPT ![c] = "queued", ![d] = "queued"]
      /\ retries' \in [Copies -> 0..MaxRetries]
      /\ lost' \in 0..MaxLost
      /\ UNCHANGED <<call, offset, answered>>
  BY SenderAssumption DEF LostAfterRetry, SendInv, TypeOK
<1>2. posts' \in [Items -> Nat] /\ accepted' \subseteq Items
  BY UnansweredType DEF LostAfterRetry, SendInv
<1>3. TypeOK'
  BY <1>1, <1>2 DEF SendInv, TypeOK
<1> QED
  BY <1>1, <1>3 DEF SendInv, Covered, EverythingAnswered, Before, TypeOK

(* SendInv is inductive.                                                   *)
LEMMA NextKeepsSendInv == SendInv /\ [Next]_vars => SendInv'
<1> SUFFICES ASSUME SendInv, [Next]_vars PROVE SendInv'
  OBVIOUS
<1>1. CASE UNCHANGED vars
  BY <1>1 DEF vars, SendInv, TypeOK, Covered, EverythingAnswered, Before
<1>2. CASE Next
  BY <1>2, StartKeepsSendInv, AnswerKeepsSendInv, NoAnswerKeepsSendInv,
     NextCallKeepsSendInv, FinishKeepsSendInv, CutOffKeepsSendInv,
     LostAfterRetryKeepsSendInv DEF Next, Work
<1> QED
  BY <1>1, <1>2

(* The variables have values of their types: in particular no copy of the  *)
(* task is retried more often than max_retries.                            *)
THEOREM SendTypes == Spec => []TypeOK
<1>1. SendInv => TypeOK
  BY DEF SendInv
<1> QED
  BY <1>1, InitSendInv, NextKeepsSendInv, PTL DEF Spec

(* do_send leaves no chunk out: a send that ends normally has an answer    *)
(* for every item from every configured destination.                       *)
THEOREM SendLeavesNothingOut == Spec => []EverythingAnswered
<1>1. SendInv => EverythingAnswered
  BY DEF SendInv
<1> QED
  BY <1>1, InitSendInv, NextKeepsSendInv, PTL DEF Spec

-----------------------------------------------------------------------------
(* The duplicates are bounded.  Each copy of the task has a number of      *)
(* executions left, the running one included as long as it has not come to *)
(* the item; the posts of an item and the executions left over all copies  *)
(* grow only with a lost worker.  The executions of the copies are a set   *)
(* of pairs, so that no sum over the copies is needed.                     *)
Due(c, i) ==
    {k \in retries[c]..MaxRetries :
        \/ pc[c] = "queued"
        \/ pc[c] = "sending" /\ (Before(i, c) => k > retries[c])}

ExecutionsLeft(i) == {x \in Copies \X (0..MaxRetries) : x[2] \in Due(x[1], i)}

Bound(n) == (n + 1) * (MaxRetries + 1) + n

PostsInv ==
    \A i \in Items :
        /\ IsFiniteSet(ExecutionsLeft(i))
        /\ posts[i] + Cardinality(ExecutionsLeft(i)) <= Bound(lost)

(* A lost worker is worth a series of retries and one repetition.          *)
LEMMA BoundStep ==
    ASSUME NEW n \in Nat
    PROVE  /\ Bound(n) \in Nat /\ Bound(n + 1) = Bound(n) + MaxRetries + 2
<1>1. MaxRetries + 1 \in Nat
  BY SenderAssumption
<1>2. ASSUME NEW a \in Nat, NEW b \in Nat
      PROVE  a * b \in Nat /\ (a + 1) * b = a * b + b
  OBVIOUS
<1>3. (n + 1) * (MaxRetries + 1) \in Nat
      /\ (n + 1 + 1) * (MaxRetries + 1) = (n + 1) * (MaxRetries + 1) + (MaxRetries + 1)
  <2>1. n + 1 \in Nat
    OBVIOUS
  <2> QED
    BY <1>1, <1>2, <2>1
<1> QED
  BY <1>3, SenderAssumption DEF Bound

(* The item that is posted is still due in the execution that posts it.    *)
LEMMA PostedWasDue ==
    ASSUME TypeOK, NEW c \in Copies, Unanswered(c) \/ UNCHANGED posts \/ (InLoop(c) /\ Post(c)),
           NEW i \in Items
    PROVE  \/ posts'[i] = posts[i]
           \/ /\ posts'[i] = posts[i] + 1 /\ pc[c] = "sending"
              /\ i \in ItemsAt(call[c], offset[c])
              /\ ~ Before(i, c) /\ retries[c] \in Due(c, i)
<1>1. CASE UNCHANGED posts
  BY <1>1
<1>2. CASE InLoop(c) /\ Post(c)
  <2>1. posts'[i] = posts[i] + IF i \in ItemsAt(call[c], offset[c]) THEN 1 ELSE 0
    BY <1>2 DEF Post
  <2>2. CASE i \in ItemsAt(call[c], offset[c])
    <3>1. pc[c] = "sending" /\ call[c] \in Calls /\ offset[c] \in Nat
      BY <1>2 DEF InLoop, TypeOK
    <3>2. ~ Before(i, c)
      BY <2>2, <3>1, ItemType DEF ItemsAt, Before, Calls
    <3>3. retries[c] \in retries[c]..MaxRetries
      BY SenderAssumption DEF TypeOK
    <3> QED
      BY <2>1, <2>2, <3>1, <3>2, <3>3 DEF Due
  <2>3. CASE i \notin ItemsAt(call[c], offset[c])
    BY <2>1, <2>3 DEF TypeOK
  <2> QED
    BY <2>2, <2>3
<1> QED
  BY <1>1, <1>2 DEF Unanswered

(* A step that makes nothing due, and posts only what was due in a running *)
(* execution and no longer is.                                             *)
LEMMA PaidPost ==
    ASSUME TypeOK, PostsInv, NEW i \in Items, NEW c \in Copies, lost' = lost,
           \A d \in Copies : Due(d, i)' \subseteq Due(d, i),
           \/ posts'[i] = posts[i]
           \/ /\ posts'[i] = posts[i] + 1
              /\ retries[c] \in Due(c, i) /\ retries[c] \notin Due(c, i)'
    PROVE  /\ IsFiniteSet(ExecutionsLeft(i)')
           /\ posts'[i] + Cardinality(ExecutionsLeft(i)') <= Bound(lost')
<1> DEFINE S == ExecutionsLeft(i)
           T == ExecutionsLeft(i)'
<1>1. IsFiniteSet(S) /\ posts[i] + Cardinality(S) <= Bound(lost)
  BY DEF PostsInv
<1>2. T \subseteq S
  BY DEF ExecutionsLeft
<1>3. posts[i] \in Nat /\ Bound(lost) \in Nat
  BY BoundStep, SenderAssumption DEF TypeOK
<1>4. CASE posts'[i] = posts[i]
  <2> HIDE DEF S, T
  <2>1. IsFiniteSet(T) /\ Cardinality(T) <= Cardinality(S)
    BY <1>1, <1>2, FS_Subset
  <2>2. Cardinality(T) \in Nat /\ Cardinality(S) \in Nat
    BY <1>1, <2>1, FS_CardinalityType
  <2>3. posts[i] + Cardinality(T) <= Bound(lost)
    BY <1>1, <1>3, <2>1, <2>2
  <2> QED
    BY <1>4, <2>1, <2>3 DEF T
<1>5. CASE /\ posts'[i] = posts[i] + 1
           /\ retries[c] \in Due(c, i) /\ retries[c] \notin Due(c, i)'
  <2> DEFINE x == <<c, retries[c]>>
  <2>1. x \in S /\ x \notin T
    BY <1>5, SenderAssumption DEF ExecutionsLeft, TypeOK
  <2> HIDE DEF S, T, x
  <2>2. T \subseteq S \ {x}
    BY <1>2, <2>1
  <2>3. IsFiniteSet(S \ {x}) /\ Cardinality(S \ {x}) = Cardinality(S) - 1
    BY <1>1, <2>1, FS_RemoveElement
  <2>4. IsFiniteSet(T) /\ Cardinality(T) <= Cardinality(S \ {x})
    BY <2>2, <2>3, FS_Subset
  <2>5. Cardinality(T) \in Nat /\ Cardinality(S) \in Nat
    BY <1>1, <2>4, FS_CardinalityType
  <2>6. posts[i] + 1 + Cardinality(T) <= Bound(lost)
    BY <1>1, <1>3, <2>3, <2>4, <2>5
  <2> QED
    BY <1>5, <2>4, <2>6 DEF T
<1> QED
  BY <1>4, <1>5

(* A lost worker repeats an execution and may leave a copy of the task     *)
(* behind, which has one retry less.                                       *)
LEMMA LostPost ==
    ASSUME TypeOK, TypeOK', PostsInv, NEW i \in Items, NEW c \in Copies, NEW d \in Copies,
           lost' = lost + 1, posts'[i] \in {posts[i], posts[i] + 1},
           \A e \in Copies : \A k \in Due(e, i)' :
                \/ k \in Due(e, i)
                \/ e = c /\ k = retries[c]
                \/ e = d /\ k \in (retries[c] + 1)..MaxRetries
    PROVE  /\ IsFiniteSet(ExecutionsLeft(i)')
           /\ posts'[i] + Cardinality(ExecutionsLeft(i)') <= Bound(lost')
<1> DEFINE S == ExecutionsLeft(i)
           T == ExecutionsLeft(i)'
           later == (retries[c] + 1)..MaxRetries
           x == <<c, retries[c]>>
           D == {d} \X later
<1>1. IsFiniteSet(S) /\ posts[i] + Cardinality(S) <= Bound(lost)
  BY DEF PostsInv
<1>2. T \subseteq (S \cup D) \cup {x}
  BY DEF ExecutionsLeft
<1>3. posts[i] \in Nat /\ lost \in Nat /\ Bound(lost) \in Nat
      /\ Bound(lost') = Bound(lost) + MaxRetries + 2
  <2>1. posts[i] \in Nat /\ lost \in Nat
    BY SenderAssumption DEF TypeOK
  <2> QED
    BY <2>1, BoundStep
<1>4. retries[c] \in 0..MaxRetries /\ MaxRetries \in Nat
  BY SenderAssumption DEF TypeOK
<1>5. IsFiniteSet(D) /\ Cardinality(D) <= MaxRetries
  <2>1. IsFiniteSet(later) /\ Cardinality(later) <= MaxRetries /\ Cardinality(later) \in Nat
    <3>1. retries[c] + 1 \in Int /\ MaxRetries \in Int
      BY <1>4
    <3>2. /\ IsFiniteSet(later)
          /\ Cardinality(later) = IF retries[c] + 1 > MaxRetries THEN 0
                                  ELSE MaxRetries - (retries[c] + 1) + 1
      BY <3>1, FS_Interval
    <3> HIDE DEF later
    <3> QED
      BY <1>4, <3>2
  <2>2. IsFiniteSet({d}) /\ Cardinality({d}) = 1
    BY FS_Singleton
  <2> HIDE DEF later
  <2>3. IsFiniteSet(D) /\ Cardinality(D) = 1 * Cardinality(later)
    BY <2>1, <2>2, FS_Product
  <2> QED
    BY <2>1, <2>3
<1> HIDE DEF S, T, D, x
<1>6. /\ IsFiniteSet(S \cup D)
      /\ Cardinality(S \cup D) = Cardinality(S) + Cardinality(D) - Cardinality(S \cap D)
      /\ IsFiniteSet(S \cap D)
  BY <1>1, <1>5, FS_Union, FS_Intersection
<1>7. /\ IsFiniteSet((S \cup D) \cup {x})
      /\ Cardinality((S \cup D) \cup {x})
            \in {Cardinality(S \cup D), Cardinality(S \cup D) + 1}
  BY <1>6, FS_AddElement
<1>8. IsFiniteSet(T) /\ Cardinality(T) <= Cardinality((S \cup D) \cup {x})
  BY <1>2, <1>7, FS_Subset
<1>9. /\ Cardinality(S) \in Nat /\ Cardinality(D) \in Nat /\ Cardinality(S \cap D) \in Nat
      /\ Cardinality(T) \in Nat /\ Cardinality(S \cup D) \in Nat
  BY <1>1, <1>5, <1>6, <1>8, FS_CardinalityType
<1>10. Cardinality(T) <= Cardinality(S) + MaxRetries + 1
  BY <1>4, <1>5, <1>6, <1>7, <1>8, <1>9
<1>11. posts'[i] + Cardinality(T) <= Bound(lost')
  BY <1>1, <1>3, <1>4, <1>9, <1>10
<1> QED
  BY <1>8, <1>11 DEF T

LEMMA InitPosts == Init => PostsInv
<1> SUFFICES ASSUME Init, NEW i \in Items
             PROVE  /\ IsFiniteSet(ExecutionsLeft(i))
                    /\ posts[i] + Cardinality(ExecutionsLeft(i)) <= Bound(lost)
  BY DEF PostsInv
<1>1. posts[i] = 0 /\ lost = 0 /\ MaxRetries \in Nat
  BY SenderAssumption DEF Init
<1>2. ExecutionsLeft(i) \subseteq {First} \X (0..MaxRetries)
  <2> SUFFICES ASSUME NEW d \in Copies, NEW k \in Due(d, i) PROVE d = First
    BY DEF ExecutionsLeft
  <2> QED
    BY DEF Due, Init
<1>3. IsFiniteSet(0..MaxRetries) /\ Cardinality(0..MaxRetries) = MaxRetries + 1
  BY <1>1, FS_Interval
<1>4. IsFiniteSet({First}) /\ Cardinality({First}) = 1
  BY FS_Singleton
<1> DEFINE I == 0..MaxRetries
<1> HIDE DEF I
<1>5. IsFiniteSet({First} \X I) /\ Cardinality({First} \X I) = 1 * Cardinality(I)
  BY <1>3, <1>4, FS_Product DEF I
<1>6. IsFiniteSet(ExecutionsLeft(i)) /\ Cardinality(ExecutionsLeft(i)) <= Cardinality({First} \X I)
  BY <1>2, <1>5, FS_Subset DEF I
<1>7. Cardinality(ExecutionsLeft(i)) \in Nat
  BY <1>6, FS_CardinalityType
<1>8. Cardinality(ExecutionsLeft(i)) <= MaxRetries + 1
  BY <1>1, <1>3, <1>5, <1>6, <1>7 DEF I
<1>9. Bound(0) = MaxRetries + 1
  BY <1>1 DEF Bound
<1> QED
  BY <1>1, <1>6, <1>7, <1>8, <1>9

(* The executions left after each kind of step.                            *)
LEMMA NextKeepsPosts ==
    ASSUME TypeOK, TypeOK', PostsInv, [Next]_vars
    PROVE  PostsInv'
<1> SUFFICES ASSUME NEW i \in Items
             PROVE  /\ IsFiniteSet(ExecutionsLeft(i)')
                    /\ posts'[i] + Cardinality(ExecutionsLeft(i)') <= Bound(lost')
  BY DEF PostsInv
<1>1. ASSUME NEW c \in Copies, lost' = lost,
             \A d \in Copies \ {c} : pc'[d] = pc[d] /\ retries'[d] = retries[d]
                                     /\ call'[d] = call[d] /\ offset'[d] = offset[d],
             Due(c, i)' \subseteq Due(c, i),
             \/ posts'[i] = posts[i]
             \/ /\ posts'[i] = posts[i] + 1
                /\ retries[c] \in Due(c, i) /\ retries[c] \notin Due(c, i)'
      PROVE  /\ IsFiniteSet(ExecutionsLeft(i)')
             /\ posts'[i] + Cardinality(ExecutionsLeft(i)') <= Bound(lost')
  <2>1. \A d \in Copies \ {c} : Due(d, i)' = Due(d, i)
    BY <1>1 DEF Due, Before
  <2>2. \A d \in Copies : Due(d, i)' \subseteq Due(d, i)
    BY <1>1, <2>1
  <2> QED
    BY <1>1, <2>2, PaidPost
<1>2. ASSUME NEW c \in Copies, Start(c) \/ NextCall(c) \/ Finish(c)
      PROVE  /\ IsFiniteSet(ExecutionsLeft(i)')
             /\ posts'[i] + Cardinality(ExecutionsLeft(i)') <= Bound(lost')
  <2>1. /\ lost' = lost /\ posts'[i] = posts[i] /\ retries'[c] = retries[c]
        /\ \A d \in Copies \ {c} : pc'[d] = pc[d] /\ retries'[d] = retries[d]
                                   /\ call'[d] = call[d] /\ offset'[d] = offset[d]
    BY <1>2 DEF Start, NextCall, Finish, TypeOK
  <2>2. Due(c, i)' \subseteq Due(c, i)
    <3>1. CASE Start(c)
      BY <3>1 DEF Start, Due, TypeOK
    <3>2. CASE NextCall(c)
      <4>1. /\ pc[c] = "sending" /\ pc'[c] = "sending" /\ retries'[c] = retries[c]
            /\ call'[c] = call[c] + 1 /\ call[c] \in Calls
        BY <3>2 DEF NextCall, TypeOK
      <4>2. Before(i, c) => Before(i, c)'
        BY <4>1, ItemType DEF Before, Calls
      <4> QED
        BY <4>1, <4>2 DEF Due
    <3>3. CASE Finish(c)
      BY <3>3 DEF Finish, Due, TypeOK
    <3> QED
      BY <1>2, <3>1, <3>2, <3>3
  <2> QED
    BY <1>1, <2>1, <2>2
<1>3. ASSUME NEW c \in Copies, NEW ok \in BOOLEAN, Answer(c, ok)
      PROVE  /\ IsFiniteSet(ExecutionsLeft(i)')
             /\ posts'[i] + Cardinality(ExecutionsLeft(i)') <= Bound(lost')
  <2>1. /\ lost' = lost /\ pc' = pc /\ retries' = retries /\ call' = call
        /\ pc[c] = "sending" /\ offset'[c] = offset[c] + ChunkSize
        /\ \A d \in Copies \ {c} : offset'[d] = offset[d]
    BY <1>3 DEF Answer, NextChunk, InLoop, TypeOK
  <2>2. Before(i, c) => Before(i, c)'
    BY <2>1, ItemType, SenderAssumption DEF Before, TypeOK
  <2>3. Due(c, i)' \subseteq Due(c, i)
    BY <2>1, <2>2 DEF Due
  <2>4. i \in ItemsAt(call[c], offset[c]) => Before(i, c)'
    BY <2>1 DEF ItemsAt, Before
  <2>5. Before(i, c)' => retries[c] \notin Due(c, i)'
    BY <2>1 DEF Due, TypeOK
  <2>6. \/ posts'[i] = posts[i]
        \/ /\ posts'[i] = posts[i] + 1
           /\ retries[c] \in Due(c, i) /\ retries[c] \notin Due(c, i)'
    BY <1>3, <2>4, <2>5, PostedWasDue DEF Answer
  <2> QED
    BY <1>1, <2>1, <2>3, <2>6
<1>4. ASSUME NEW c \in Copies, NoAnswer(c) \/ TimeLimit(c)
      PROVE  /\ IsFiniteSet(ExecutionsLeft(i)')
             /\ posts'[i] + Cardinality(ExecutionsLeft(i)') <= Bound(lost')
  <2>1. /\ lost' = lost /\ call' = call /\ offset' = offset /\ pc[c] = "sending"
        /\ \A d \in Copies \ {c} : pc'[d] = pc[d] /\ retries'[d] = retries[d]
        /\ \/ pc'[c] = "queued" /\ retries'[c] = retries[c] + 1
           \/ pc'[c] \in {"failed", "killed"}
    BY <1>4 DEF NoAnswer, TimeLimit, Unanswered, CutOff, InLoop, Again, TypeOK
  <2>2. Due(c, i)' \subseteq Due(c, i) /\ retries[c] \notin Due(c, i)'
    BY <2>1 DEF Due, TypeOK
  <2>3. \/ posts'[i] = posts[i]
        \/ posts'[i] = posts[i] + 1 /\ retries[c] \in Due(c, i)
    BY <1>4, PostedWasDue DEF NoAnswer, TimeLimit, CutOff
  <2> QED
    BY <1>1, <2>1, <2>2, <2>3
<1>5. ASSUME NEW c \in Copies, WorkerLost(c)
      PROVE  /\ IsFiniteSet(ExecutionsLeft(i)')
             /\ posts'[i] + Cardinality(ExecutionsLeft(i)') <= Bound(lost')
  <2>1. /\ lost' = lost + 1 /\ UNCHANGED <<retries, call, offset>> /\ pc[c] = "sending"
        /\ \A d \in Copies \ {c} : pc'[d] = pc[d]
    BY <1>5 DEF WorkerLost, CutOff, TypeOK
  <2>2. posts'[i] \in {posts[i], posts[i] + 1}
    BY <1>5, PostedWasDue DEF WorkerLost, CutOff
  <2>3. ASSUME NEW e \in Copies, NEW k \in Due(e, i)'
        PROVE  k \in Due(e, i) \/ (e = c /\ k = retries[c])
    <3>1. k \in retries[e]..MaxRetries /\ k \in Int /\ retries[e] \in Int
      BY <2>1, <2>3 DEF Due, TypeOK
    <3>2. CASE e = c
      BY <2>1, <3>1, <3>2 DEF Due
    <3>3. CASE e # c
      BY <2>1, <2>3, <3>3 DEF Due, Before
    <3> QED
      BY <3>2, <3>3
  <2> QED
    BY <2>1, <2>2, <2>3, LostPost
<1>6. ASSUME NEW c \in Copies, NEW d \in Copies, LostAfterRetry(c, d)
      PROVE  /\ IsFiniteSet(ExecutionsLeft(i)')
             /\ posts'[i] + Cardinality(ExecutionsLeft(i)') <= Bound(lost')
  <2>1. /\ lost' = lost + 1 /\ UNCHANGED <<call, offset>> /\ pc[c] = "sending" /\ c # d
        /\ retries'[d] = retries[c] + 1
        /\ \A e \in Copies \ {d} : retries'[e] = retries[e]
        /\ \A e \in Copies \ {c, d} : pc'[e] = pc[e]
    BY <1>6 DEF LostAfterRetry, Unanswered, InLoop, TypeOK
  <2>2. posts'[i] \in {posts[i], posts[i] + 1}
    BY <1>6, PostedWasDue DEF LostAfterRetry
  <2>3. ASSUME NEW e \in Copies, NEW k \in Due(e, i)'
        PROVE  \/ k \in Due(e, i)
               \/ e = c /\ k = retries[c]
               \/ e = d /\ k \in (retries[c] + 1)..MaxRetries
    <3>1. k \in retries'[e]..MaxRetries /\ k \in Int /\ retries[e] \in Int
      BY <2>3 DEF Due, TypeOK
    <3>2. CASE e = c
      BY <2>1, <3>1, <3>2 DEF Due
    <3>3. CASE e = d
      BY <2>1, <3>1, <3>3
    <3>4. CASE e # c /\ e # d
      BY <2>1, <2>3, <3>4 DEF Due, Before
    <3> QED
      BY <3>2, <3>3, <3>4
  <2> QED
    BY <2>1, <2>2, <2>3, LostPost
<1>7. CASE UNCHANGED vars
  BY <1>7 DEF vars, PostsInv, ExecutionsLeft, Due, Before
<1> QED
  BY <1>2, <1>3, <1>4, <1>5, <1>6, <1>7 DEF Next, Work

(* max_retries bounds the duplicates at the destinations: whatever they    *)
(* answer, an item is posted at most once more than there are retries,     *)
(* and a lost worker adds at most another such series and one repetition,  *)
(* for any number of copies of the task.                                   *)
THEOREM DuplicatesAreBounded == Spec => []DuplicatesBounded
<1>1. Init => SendInv /\ PostsInv
  BY InitSendInv, InitPosts
<1>2. SendInv /\ PostsInv /\ [Next]_vars => SendInv' /\ PostsInv'
  <2>1. SendInv /\ [Next]_vars => SendInv'
    BY NextKeepsSendInv
  <2>2. SendInv => TypeOK
    BY DEF SendInv
  <2>3. SendInv' => TypeOK'
    BY DEF SendInv
  <2> QED
    BY <2>1, <2>2, <2>3, NextKeepsPosts
<1>3. SendInv /\ PostsInv => DuplicatesBounded
  <2> SUFFICES ASSUME SendInv, PostsInv, NEW i \in Items PROVE posts[i] <= Bound(lost)
    BY DEF DuplicatesBounded, Bound
  <2>1. /\ posts[i] \in Nat /\ lost \in Nat
        /\ IsFiniteSet(ExecutionsLeft(i))
        /\ posts[i] + Cardinality(ExecutionsLeft(i)) <= Bound(lost)
    BY SenderAssumption DEF SendInv, PostsInv, TypeOK
  <2>2. Cardinality(ExecutionsLeft(i)) \in Nat /\ Bound(lost) \in Nat
    BY <2>1, FS_CardinalityType, BoundStep
  <2> QED
    BY <2>1, <2>2
<1> QED
  BY <1>1, <1>2, <1>3, PTL DEF Spec
=============================================================================
