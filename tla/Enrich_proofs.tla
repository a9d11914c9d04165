----------------------------- MODULE Enrich_proofs -----------------------------
(***************************************************************************)
(* For any fields, values, number of tasks and faults: a restart of the    *)
(* device is noticed, twins in the collection attributes stay empty, and   *)
(* no field is lost, unless tasks of the host overlap.                     *)
(***************************************************************************)
EXTENDS Enrich, TLAPS

(* A task under way.                                                       *)
Busy == [stage : Stages \ {"free"}, up : Uptimes, values : FieldSets,
         old : Uptimes \cup {NoUptime}, current : Documents]

TypeInv ==
    /\ TypeOK
    /\ task = [t \in Tasks |-> task[t]]

LEMMA BusyTask ==
    ASSUME TypeInv, NEW t \in Tasks, ~ At(t, "free")
    PROVE  task[t] \in Busy
BY DEF TypeInv, TypeOK, Busy, At, NoTask

LEMMA BusyIsTask ==
    ASSUME NEW n \in Busy PROVE n # NoTask /\ n.stage # "free"
BY DEF Busy, NoTask

LEMMA EmptyDocumentType ==
    NoFields \in FieldSets /\ EmptyDocument \in Documents /\ EmptyDocument.whole
    /\ EmptyDocument.fields = NoFields
BY DEF NoFields, FieldSets, EmptyDocument, Documents

(* A new value of one task.                                                *)
LEMMA SetTask ==
    ASSUME TypeInv, NEW t \in Tasks, NEW n, task' = [task EXCEPT ![t] = n]
    PROVE  /\ task' = [u \in Tasks |-> task'[u]]
           /\ \A u \in Tasks : task'[u] = IF u = t THEN n ELSE task[u]
BY DEF TypeInv

(* A document is replaced, or another one follows.                         *)
LEMMA ChangedOne ==
    ASSUME NEW S, NEW s \in Seq(S), NEW i \in DOMAIN s, NEW e \in S
    PROVE  /\ [s EXCEPT ![i] = e] \in Seq(S) /\ [s EXCEPT ![i] = e] # <<>>
           /\ Len([s EXCEPT ![i] = e]) = Len(s)
           /\ [s EXCEPT ![i] = e][i] = e
           /\ \A j \in DOMAIN s \ {i} : [s EXCEPT ![i] = e][j] = s[j]
OBVIOUS

LEMMA FirstOne ==
    ASSUME NEW S, NEW s \in Seq(S), s # <<>>
    PROVE  1 \in DOMAIN s /\ s[1] \in S /\ DOMAIN s = 1..Len(s)
OBVIOUS

LEMMA Appended ==
    ASSUME NEW S, NEW s \in Seq(S), NEW e \in S
    PROVE  /\ Append(s, e) \in Seq(S) /\ Append(s, e) # <<>>
           /\ Len(Append(s, e)) = Len(s) + 1
           /\ \A j \in 1..Len(s) : Append(s, e)[j] = s[j]
           /\ Append(s, e)[Len(s) + 1] = e
OBVIOUS

-----------------------------------------------------------------------------
(* What a step of a task does to it: the stage it goes to, with the same   *)
(* result.                                                                 *)
Moves(t, s) ==
    \E n \in Busy :
        /\ n.stage = s /\ n.up = task[t].up /\ n.values = task[t].values
        /\ task' = [task EXCEPT ![t] = n]

LEMMA EnterMoves ==
    ASSUME TypeInv, NEW t \in Tasks, ~ At(t, "free"),
           NEW s \in Stages \ {"free"}, Enter(t, s)
    PROVE  Moves(t, s)
<1> DEFINE n == [task[t] EXCEPT !.stage = s]
<1>1. task[t] \in Busy
  BY BusyTask
<1>2. n \in Busy /\ n.stage = s /\ n.up = task[t].up /\ n.values = task[t].values
  BY <1>1 DEF Busy
<1>3. task' = [task EXCEPT ![t] = n]
  BY DEF Enter
<1> QED
  BY <1>2, <1>3 DEF Moves

LEMMA SetMoves ==
    ASSUME TypeInv, NEW t \in Tasks, ~ At(t, "free"), NEW s \in Stages \ {"free"},
           NEW up \in Uptimes \cup {NoUptime}, NEW d \in Documents,
           \/ task' = [task EXCEPT ![t] = [@ EXCEPT !.stage = s, !.old = up]]
           \/ task' = [task EXCEPT ![t] = [@ EXCEPT !.stage = s, !.current = d]]
    PROVE  Moves(t, s)
<1>1. task[t] \in Busy
  BY BusyTask
<1>2. ASSUME NEW n, n = [task[t] EXCEPT !.stage = s, !.old = up],
             task' = [task EXCEPT ![t] = n]
      PROVE  Moves(t, s)
  <2>1. n \in Busy /\ n.stage = s /\ n.up = task[t].up /\ n.values = task[t].values
    BY <1>1, <1>2 DEF Busy
  <2> QED
    BY <1>2, <2>1 DEF Moves
<1>3. ASSUME NEW n, n = [task[t] EXCEPT !.stage = s, !.current = d],
             task' = [task EXCEPT ![t] = n]
      PROVE  Moves(t, s)
  <2>1. n \in Busy /\ n.stage = s /\ n.up = task[t].up /\ n.values = task[t].values
    BY <1>1, <1>3 DEF Busy
  <2> QED
    BY <1>3, <2>1 DEF Moves
<1> QED
  BY <1>2, <1>3

(* A step of one task.                                                     *)
TaskStep(t) == EnrichStep(t) \/ NoWalk(t) \/ WorkerLost(t)

(* Where a step leads: to a write of fields only with a document there or  *)
(* deleted, or with nothing to write; to an upsert only when no document   *)
(* was found; and to the store of sysUpTime with the value that was read.  *)
StageFits(t, s) ==
    /\ s = "update" => documents' # <<>>
    /\ s = "bulk" => documents' # <<>> \/ deletedUnder \/ \A f \in Fields : ~ Has(t, f)
    /\ s = "upsert" => documents' = <<>>
    /\ s = "insert" => At(t, "upsert") /\ UNCHANGED documents
    /\ s = "uptime" => task'[t].old = target'

(* What a step of a task does to the documents of the group.               *)
Headless(t, fields) ==
    [whole |-> FALSE,
     fields |-> [f \in Fields |-> IF f \in fields THEN task[t].values[f] ELSE NoValue]]

DocumentStep(t) ==
    \/ UNCHANGED documents
    \/ At(t, "insert") /\ documents' = Append(documents, EmptyDocument)
    \/ /\ At(t, "upsert")
       /\ \E j \in DOMAIN documents : documents' = [documents EXCEPT ![j] = EmptyDocument]
    \/ /\ documents # <<>>
       /\ \E fields \in SUBSET {f \in Fields : Has(t, f)} : documents' = Written(t, fields)
    \/ /\ documents = <<>> /\ deletedUnder
       /\ \E fields \in SUBSET {f \in Fields : Has(t, f)} : documents' = <<Headless(t, fields)>>

(* Where nothing was found.                                                *)
LEMMA NotFoundMoves ==
    ASSUME TypeInv, NEW t \in Tasks, ~ At(t, "free"), NotFound(t), documents' = <<>>
    PROVE  \E s \in Stages \ {"free"} : Moves(t, s) /\ StageFits(t, s)
<1> DEFINE s == IF \A f \in Fields : ~ Has(t, f) THEN "bulk" ELSE "upsert"
<1>1. s \in Stages \ {"free"} /\ Enter(t, s)
  BY DEF NotFound, Stages
<1>2. StageFits(t, s)
  BY DEF StageFits
<1> HIDE DEF s
<1> QED
  BY <1>1, <1>2, EnterMoves

(* What a write with upsert does.                                          *)
LEMMA UpsertedStep ==
    ASSUME TypeInv, NEW t \in Tasks, NEW fields \in SUBSET {f \in Fields : Has(t, f)},
           documents' = Upserted(t, fields), documents # <<>> \/ deletedUnder \/ fields = {}
    PROVE  DocumentStep(t)
<1>1. CASE documents # <<>>
  BY <1>1 DEF Upserted, DocumentStep
<1>2. CASE documents = <<>> /\ fields = {}
  BY <1>2 DEF Upserted, DocumentStep
<1>3. CASE documents = <<>> /\ fields # {}
  BY <1>3 DEF Upserted, DocumentStep, Headless
<1> QED
  BY <1>1, <1>2, <1>3

LEMMA EnrichSteps ==
    ASSUME TypeInv, NEW t \in Tasks, TaskStep(t)
    PROVE  /\ ~ At(t, "free") /\ UNCHANGED deletedUnder
           /\ DocumentStep(t)
           /\ \/ task' = [task EXCEPT ![t] = NoTask]
              \/ \E s \in Stages \ {"free"} : Moves(t, s) /\ StageFits(t, s)
<1>0. documents \in Seq(Documents) /\ target \in Uptimes \cup {NoUptime}
  BY DEF TypeInv, TypeOK
<1>1. /\ At(t, "update") => documents # <<>> \/ deletedUnder
      /\ At(t, "bulk") => documents # <<>> \/ deletedUnder \/ \A f \in Fields : ~ Has(t, f)
  BY DEF TypeInv, TypeOK, At, NoTask
<1>2. ASSUME NEW s \in Stages \ {"free", "uptime"}, ~ At(t, "free"), Enter(t, s),
             s = "update" => documents' # <<>>,
             s = "bulk" => documents' # <<>> \/ deletedUnder \/ \A f \in Fields : ~ Has(t, f),
             s = "upsert" => documents' = <<>>,
             s = "insert" => At(t, "upsert") /\ UNCHANGED documents
      PROVE  Moves(t, s) /\ StageFits(t, s)
  BY <1>2, EnterMoves DEF StageFits
<1>3. CASE GetCurrentTarget(t)
  <2>1. ~ At(t, "free") /\ UNCHANGED <<documents, target, deletedUnder>>
        /\ task' = [task EXCEPT ![t] = [@ EXCEPT !.stage = "uptime", !.old = target]]
    BY <1>3 DEF GetCurrentTarget, StoresUnchanged, HistoryUnchanged, At
  <2>2. Moves(t, "uptime")
    BY <1>0, <2>1, SetMoves, EmptyDocumentType DEF Stages
  <2>3. task[t] \in Busy
    BY <2>1, BusyTask
  <2>4. task'[t].old = target
    BY <2>1, <2>3 DEF TypeInv, Busy
  <2> QED
    BY <2>1, <2>2, <2>4 DEF StageFits, DocumentStep, Stages
<1>4. CASE StoreUptime(t)
  <2> DEFINE s == IF Lower(task[t].up, task[t].old) THEN "trigger" ELSE "any"
  <2>1. ~ At(t, "free") /\ UNCHANGED <<documents, deletedUnder>>
        /\ task' = [task EXCEPT ![t] = [@ EXCEPT !.stage = s, !.old = NoUptime]]
    BY <1>4 DEF StoreUptime, At
  <2>2. s \in {"trigger", "any"}
    OBVIOUS
  <2> HIDE DEF s
  <2>3. Moves(t, s)
    BY <1>0, <2>1, <2>2, SetMoves, EmptyDocumentType DEF Stages
  <2> QED
    BY <2>1, <2>2, <2>3 DEF StageFits, DocumentStep, Stages
<1>5. CASE TriggerWalk(t) \/ NoWalk(t)
  BY <1>2, <1>5 DEF TriggerWalk, NoWalk, StoresUnchanged, At, DocumentStep, Stages
<1>6. CASE FindAny(t)
  <2>1. ~ At(t, "free") /\ UNCHANGED <<documents, deletedUnder>>
    BY <1>6 DEF FindAny, StoresUnchanged, HistoryUnchanged, At
  <2>2. CASE Enter(t, "group")
    BY <1>2, <2>1, <2>2 DEF DocumentStep, Stages
  <2>3. CASE documents = <<>> /\ NotFound(t)
    BY <2>1, <2>3, NotFoundMoves DEF DocumentStep
  <2> QED
    BY <1>6, <2>2, <2>3 DEF FindAny
<1>7. CASE FindGroup(t)
  <2>0. ~ At(t, "free") /\ UNCHANGED <<documents, deletedUnder>>
    BY <1>7 DEF FindGroup, StoresUnchanged, HistoryUnchanged, At
  <2>1. CASE documents = <<>>
    BY <1>7, <2>0, <2>1, NotFoundMoves DEF FindGroup, DocumentStep
  <2>2. CASE documents # <<>>
    <3>1. /\ documents[1] \in Documents
          /\ task' = [task EXCEPT ![t] = [@ EXCEPT !.stage = "update", !.current = documents[1]]]
      BY <1>0, <1>7, <2>2 DEF FindGroup
    <3>2. Moves(t, "update")
      BY <1>0, <2>0, <3>1, SetMoves DEF Stages
    <3> QED
      BY <2>0, <2>2, <3>1, <3>2 DEF StageFits, DocumentStep, Stages
  <2> QED
    BY <2>1, <2>2
<1>8. CASE UpsertGroup(t)
  <2>0. At(t, "upsert") /\ ~ At(t, "free") /\ UNCHANGED deletedUnder
    BY <1>8 DEF UpsertGroup, HistoryUnchanged, At
  <2>1. CASE Enter(t, "insert") /\ UNCHANGED documents
    BY <1>2, <2>0, <2>1 DEF DocumentStep, Stages
  <2>2. ASSUME NEW j \in DOMAIN documents, documents' = [documents EXCEPT ![j] = EmptyDocument],
               Enter(t, "bulk")
        PROVE  DocumentStep(t) /\ Moves(t, "bulk") /\ StageFits(t, "bulk")
    <3>1. documents' # <<>>
      BY <1>0, <2>2, EmptyDocumentType, ChangedOne
    <3> QED
      BY <1>2, <2>0, <2>2, <3>1 DEF DocumentStep, Stages
  <2> QED
    BY <1>8, <2>0, <2>1, <2>2, <1>2 DEF UpsertGroup, Stages
<1>9. CASE InsertGroup(t)
  <2>1. documents' # <<>>
    BY <1>0, <1>9, EmptyDocumentType, Appended DEF InsertGroup
  <2> QED
    BY <1>2, <1>9, <2>1 DEF InsertGroup, HistoryUnchanged, At, DocumentStep, Stages
<1>10. CASE UpdateGroup(t)
  <2>0. At(t, "update") /\ ~ At(t, "free") /\ UNCHANGED deletedUnder
    BY <1>10 DEF UpdateGroup, HistoryUnchanged, At
  <2>1. PICK fields \in Modified(t) :
            documents' = IF documents = <<>> /\ Cardinality(fields) < Batch THEN <<>>
                         ELSE Upserted(t, fields)
    BY <1>10 DEF UpdateGroup
  <2>2. fields \in SUBSET {f \in Fields : Has(t, f)}
    BY <2>1 DEF Modified, Known, Differing
  <2>3. DocumentStep(t)
    <3>1. CASE UNCHANGED documents
      BY <3>1 DEF DocumentStep
    <3>2. CASE documents' = Upserted(t, fields)
      BY <1>1, <2>0, <2>2, <3>2, UpsertedStep
    <3> QED
      BY <2>1, <3>1, <3>2
  <2>4. documents' # <<>> \/ deletedUnder
    <3>1. CASE documents # <<>>
      BY <2>1, <3>1, <1>0 DEF Upserted, Written
    <3> QED
      BY <1>1, <2>0, <3>1
  <2>5. CASE Enter(t, "bulk")
    BY <1>2, <2>0, <2>3, <2>4, <2>5 DEF Stages
  <2> QED
    BY <1>10, <2>0, <2>3, <2>5 DEF UpdateGroup
<1>11. CASE BulkWrite(t)
  <2>1. NewFields(t) \in SUBSET {f \in Fields : Has(t, f)}
    BY DEF NewFields
  <2>2. At(t, "bulk") /\ documents' = Upserted(t, NewFields(t))
    BY <1>11 DEF BulkWrite
  <2>3. documents # <<>> \/ deletedUnder \/ NewFields(t) = {}
    BY <1>1, <2>2 DEF NewFields
  <2>4. DocumentStep(t)
    BY <2>1, <2>2, <2>3, UpsertedStep
  <2> QED
    BY <1>11, <2>4 DEF BulkWrite, HistoryUnchanged, At
<1>12. CASE WorkerLost(t)
  <2>1. ~ At(t, "free") /\ UNCHANGED <<documents, deletedUnder>>
        /\ task' = [task EXCEPT ![t] = NewTask(task[t].up, task[t].values)]
    BY <1>12 DEF WorkerLost, At
  <2>2. task[t] \in Busy
    BY <2>1, BusyTask
  <2>3. NewTask(task[t].up, task[t].values) \in Busy
    BY <2>2, EmptyDocumentType DEF Busy, NewTask, Stages
  <2>4. Moves(t, "start")
    BY <2>1, <2>3 DEF Moves, NewTask
  <2> QED
    BY <2>1, <2>4 DEF StageFits, DocumentStep, Stages
<1>13. UNCHANGED deletedUnder
  BY DEF TaskStep, EnrichStep, NoWalk, WorkerLost, GetCurrentTarget, StoreUptime, TriggerWalk,
      FindAny, FindGroup, UpsertGroup, InsertGroup, UpdateGroup, BulkWrite, HistoryUnchanged
<1> QED
  BY <1>3, <1>4, <1>5, <1>6, <1>7, <1>8, <1>9, <1>10, <1>11, <1>12, <1>13
     DEF EnrichStep, TaskStep

(* A walk or a poll brings a task that has not begun.                      *)
LEMMA CollectSteps ==
    ASSUME TypeInv, NEW t \in Tasks, Collect(t, Fields) \/ Collect(t, PollFields)
    PROVE  \E n \in Busy : n.stage = "start" /\ task' = [task EXCEPT ![t] = n]
<1>1. PICK fields : Collect(t, fields)
  OBVIOUS
<1> DEFINE up == [boot |-> device.boot, uptime |-> device.uptime]
           values == [f \in Fields |-> IF f \in fields THEN device.values[f] ELSE NoValue]
<1>2. device \in [boot : Nat, uptime : 0..MaxUptime, values : [Fields -> Values]]
  BY DEF TypeInv, TypeOK
<1>3. up \in Uptimes /\ values \in FieldSets
  BY <1>2 DEF Uptimes, FieldSets
<1>4. task' = [task EXCEPT ![t] = NewTask(up, values)]
  BY <1>1 DEF Collect
<1> HIDE DEF up, values
<1>5. NewTask(up, values) \in Busy /\ NewTask(up, values).stage = "start"
  BY <1>3, EmptyDocumentType DEF NewTask, Busy, Stages
<1> QED
  BY <1>4, <1>5

(* The documents stay a sequence; the first one is not deleted, no other   *)
(* one but the last is new, and one without an id is new only where the    *)
(* host was deleted.                                                       *)
LEMMA DocumentTypes ==
    ASSUME TypeInv, NEW t \in Tasks, ~ At(t, "free"), DocumentStep(t)
    PROVE  /\ documents' \in Seq(Documents)
           /\ documents # <<>> => documents' # <<>>
           /\ \/ Len(documents') = Len(documents)
              \/ /\ At(t, "insert") /\ Len(documents') = Len(documents) + 1
                 /\ documents'[Len(documents) + 1] = EmptyDocument
              \/ documents = <<>> /\ Len(documents') = 1
           /\ \A j \in 2..Len(documents) : documents'[j] \in {documents[j], EmptyDocument}
           /\ \A j \in DOMAIN documents' : documents'[j].whole \/ deletedUnder
<1>1. documents \in Seq(Documents) /\ task[t] \in Busy
  BY BusyTask DEF TypeInv, TypeOK
<1>2. \A j \in DOMAIN documents : documents[j].whole \/ deletedUnder
  BY DEF TypeInv, TypeOK
<1>3. CASE UNCHANGED documents
  BY <1>1, <1>2, <1>3
<1>4. CASE At(t, "insert") /\ documents' = Append(documents, EmptyDocument)
  BY <1>1, <1>2, <1>4, EmptyDocumentType, Appended
<1>5. ASSUME NEW e \in Documents, NEW i \in DOMAIN documents, e.whole \/ deletedUnder,
             i = 1 \/ e = EmptyDocument, documents' = [documents EXCEPT ![i] = e]
      PROVE  /\ documents' \in Seq(Documents) /\ documents' # <<>>
             /\ Len(documents') = Len(documents)
             /\ \A j \in 2..Len(documents) : documents'[j] \in {documents[j], EmptyDocument}
             /\ \A j \in DOMAIN documents' : documents'[j].whole \/ deletedUnder
  BY <1>1, <1>2, <1>5, ChangedOne
<1>6. ASSUME NEW fields \in SUBSET Fields, documents # <<>>, documents' = Written(t, fields)
      PROVE  \E e \in Documents : /\ documents' = [documents EXCEPT ![1] = e]
                                 /\ e.whole = documents[1].whole
  <2> DEFINE g == [f \in Fields |-> IF f \in fields THEN task[t].values[f]
                                    ELSE documents[1].fields[f]]
             e == [documents[1] EXCEPT !.fields = g]
  <2>1. documents[1] \in Documents /\ task[t].values \in FieldSets
    BY <1>1, <1>6 DEF Busy
  <2>2. g \in FieldSets
    BY <2>1 DEF FieldSets, Documents
  <2>3. documents' = [documents EXCEPT ![1] = e]
    BY <1>6 DEF Written
  <2> HIDE DEF g
  <2>4. e \in Documents /\ e.whole = documents[1].whole
    BY <2>1, <2>2 DEF Documents
  <2> QED
    BY <2>3, <2>4
<1>7. ASSUME NEW fields \in SUBSET Fields, documents = <<>>, deletedUnder,
             documents' = <<Headless(t, fields)>>
      PROVE  documents' \in Seq(Documents) /\ Len(documents') = 1
  <2>1. task[t].values \in FieldSets
    BY <1>1 DEF Busy
  <2>2. Headless(t, fields) \in Documents
    BY <2>1 DEF Headless, Documents, FieldSets
  <2> QED
    BY <1>7, <2>2
<1>8. CASE documents # <<>> /\ \E fields \in SUBSET {f \in Fields : Has(t, f)} :
                documents' = Written(t, fields)
  <2>1. PICK e \in Documents : /\ documents' = [documents EXCEPT ![1] = e]
                               /\ e.whole = documents[1].whole
    BY <1>6, <1>8
  <2>2. 1 \in DOMAIN documents
    BY <1>1, <1>8, FirstOne
  <2> QED
    BY <1>2, <1>5, <2>1, <2>2
<1>9. CASE /\ documents = <<>> /\ deletedUnder
           /\ \E fields \in SUBSET {f \in Fields : Has(t, f)} : documents' = <<Headless(t, fields)>>
  BY <1>1, <1>7, <1>9
<1>10. CASE At(t, "upsert") /\ \E j \in DOMAIN documents :
                documents' = [documents EXCEPT ![j] = EmptyDocument]
  BY <1>5, <1>10, EmptyDocumentType
<1> QED
  BY <1>3, <1>4, <1>8, <1>9, <1>10 DEF DocumentStep

-----------------------------------------------------------------------------
LEMMA InitTypeInv == Init => TypeInv
<1> SUFFICES ASSUME Init PROVE TypeInv
  OBVIOUS
<1>1. device \in [boot : Nat, uptime : 0..MaxUptime, values : [Fields -> Values]]
  BY EnrichAssumption DEF Init
<1>2. documents \in Seq(Documents) /\ DOMAIN documents = {}
  BY DEF Init
<1>3. task = [t \in Tasks |-> NoTask]
  BY DEF Init
<1>4. /\ target = NoUptime /\ events = 0 /\ unnoticed = FALSE /\ lostTrigger = FALSE
      /\ noTrigger = FALSE /\ deletedUnder = FALSE /\ overlapped = FALSE
  BY DEF Init
<1> QED
  BY <1>1, <1>2, <1>3, <1>4 DEF TypeInv, TypeOK

(* What a step leaves: the tasks, or all but one of them.                  *)
LEMMA Steps ==
    ASSUME TypeInv, [Next]_vars
    PROVE  \/ UNCHANGED <<task, target, documents, unnoticed, lostTrigger, noTrigger, deletedUnder>>
           \/ DropTarget
           \/ DropDocuments
           \/ \E t \in Tasks : Collect(t, Fields) \/ Collect(t, PollFields)
           \/ \E t \in Tasks : TaskStep(t)
BY DEF Next, vars, Tick, Restart, ValueChanges, HistoryUnchanged, TaskStep

LEMMA NextKeepsTypes == TypeInv /\ [Next]_vars => TypeInv'
<1> SUFFICES ASSUME TypeInv, [Next]_vars PROVE TypeInv'
  OBVIOUS
<1>1. device' \in [boot : Nat, uptime : 0..MaxUptime, values : [Fields -> Values]]
  <2>1. CASE Tick
    BY <2>1, EnrichAssumption DEF Tick, TypeInv, TypeOK
  <2>2. CASE Restart
    <3>1. device \in [boot : Nat, uptime : 0..MaxUptime, values : [Fields -> Values]]
      BY DEF TypeInv, TypeOK
    <3>2. 0 \in 0..MaxUptime /\ device.boot + 1 \in Nat
      BY <3>1, EnrichAssumption
    <3>3. device' = [device EXCEPT !.boot = device.boot + 1, !.uptime = 0]
      BY <2>2 DEF Restart
    <3> QED
      BY <3>1, <3>2, <3>3
  <2>3. CASE ValueChanges
    <3>1. PICK f \in Fields, v \in Values : device' = [device EXCEPT !.values[f] = v]
      BY <2>3 DEF ValueChanges
    <3> QED
      BY <3>1 DEF TypeInv, TypeOK
  <2>4. CASE UNCHANGED device
    BY <2>4 DEF TypeInv, TypeOK
  <2> QED
    BY <2>1, <2>2, <2>3, <2>4 DEF Next, vars, Collect, StoresUnchanged, EnrichStep, WorkerLost,
        DropTarget, DropDocuments, NoWalk,
        GetCurrentTarget, StoreUptime, TriggerWalk, FindAny, FindGroup, UpsertGroup, InsertGroup,
        UpdateGroup, BulkWrite
<1>2. target' \in Uptimes \cup {NoUptime}
  <2>1. ASSUME NEW t \in Tasks, StoreUptime(t) PROVE target' \in Uptimes
    <3>1. task[t] \in Busy
      BY <2>1, BusyTask DEF StoreUptime, At
    <3> QED
      BY <2>1, <3>1 DEF StoreUptime, Busy
  <2>2. CASE UNCHANGED target \/ target' = NoUptime
    BY <2>2 DEF TypeInv, TypeOK
  <2> QED
    BY <2>1, <2>2 DEF Next, vars, Tick, Restart, ValueChanges, DropTarget,
        DropDocuments, NoWalk, Collect, StoresUnchanged,
        EnrichStep, WorkerLost, GetCurrentTarget, TriggerWalk, FindAny, FindGroup, UpsertGroup,
        InsertGroup, UpdateGroup, BulkWrite
<1>3. /\ unnoticed' \in BOOLEAN /\ lostTrigger' \in BOOLEAN /\ noTrigger' \in BOOLEAN
      /\ deletedUnder' \in BOOLEAN /\ overlapped' \in BOOLEAN /\ events' \in Nat
  <2>1. overlapped' \in BOOLEAN
    BY DEF Next, vars, RecordOverlap, TypeInv, TypeOK
  <2>2. UNCHANGED events \/ events' = events + 1
    BY DEF Next, vars, Tick, Restart, ValueChanges, DropTarget,
        DropDocuments, NoWalk, Collect, StoresUnchanged, EnrichStep,
        WorkerLost, GetCurrentTarget, StoreUptime, TriggerWalk, FindAny, FindGroup, UpsertGroup,
        InsertGroup, UpdateGroup, BulkWrite, Event
  <2>3. events' \in Nat
    BY <2>2 DEF TypeInv, TypeOK
  <2>4. UNCHANGED unnoticed \/ unnoticed' \in BOOLEAN
    BY DEF Next, vars, Tick, Restart, ValueChanges, DropTarget,
        DropDocuments, NoWalk, Collect, HistoryUnchanged, EnrichStep,
        WorkerLost, GetCurrentTarget, StoreUptime, TriggerWalk, FindAny, FindGroup, UpsertGroup,
        InsertGroup, UpdateGroup, BulkWrite
  <2>5. /\ UNCHANGED lostTrigger \/ lostTrigger' \in BOOLEAN
        /\ UNCHANGED noTrigger \/ noTrigger' \in BOOLEAN
        /\ UNCHANGED deletedUnder \/ deletedUnder' \in BOOLEAN
    BY DEF Next, vars, Tick, Restart, ValueChanges, DropTarget,
        DropDocuments, NoWalk, Collect, HistoryUnchanged, EnrichStep,
        WorkerLost, GetCurrentTarget, StoreUptime, TriggerWalk, FindAny, FindGroup, UpsertGroup,
        InsertGroup, UpdateGroup, BulkWrite
  <2> QED
    BY <2>1, <2>3, <2>4, <2>5 DEF TypeInv, TypeOK
<1>4. ASSUME NEW t \in Tasks, NEW n, task' = [task EXCEPT ![t] = n],
             documents' \in Seq(Documents), documents # <<>> => documents' # <<>>,
             UNCHANGED deletedUnder,
             \A j \in DOMAIN documents' : documents'[j].whole \/ deletedUnder,
             \/ n = NoTask
             \/ /\ n \in Busy
                /\ n.stage = "update" => documents' # <<>>
                /\ n.stage = "bulk" => \/ documents' # <<>> \/ deletedUnder
                                       \/ \A f \in Fields : n.values[f] = NoValue
      PROVE  TypeInv'
  <2>1. /\ task' = [u \in Tasks |-> task'[u]]
        /\ \A u \in Tasks : task'[u] = IF u = t THEN n ELSE task[u]
    BY <1>4, SetTask
  <2>2. ASSUME NEW u \in Tasks, task'[u] # NoTask
        PROVE  /\ task'[u] \in Busy
               /\ task'[u].stage = "update" => (documents' # <<>> \/ deletedUnder)
               /\ task'[u].stage = "bulk" =>
                     (documents' # <<>> \/ deletedUnder \/ \A f \in Fields : ~ Has(u, f)')
    <3>1. CASE u = t
      BY <1>4, <2>1, <2>2, <3>1 DEF Has
    <3>2. CASE u # t
      BY <1>4, <2>1, <2>2, <3>2 DEF Has, TypeInv, TypeOK, Busy
    <3> QED
      BY <3>1, <3>2
  <2> QED
    BY <1>1, <1>2, <1>3, <1>4, <2>1, <2>2 DEF TypeInv, TypeOK, Busy
<1>5. CASE UNCHANGED <<task, documents, deletedUnder>>
  BY <1>1, <1>2, <1>3, <1>5 DEF TypeInv, TypeOK, Has
<1>6. ASSUME NEW t \in Tasks, Collect(t, Fields) \/ Collect(t, PollFields) PROVE TypeInv'
  <2>1. /\ UNCHANGED <<documents, deletedUnder>> /\ documents \in Seq(Documents)
        /\ \A j \in DOMAIN documents : documents[j].whole \/ deletedUnder
    BY <1>6 DEF Collect, StoresUnchanged, HistoryUnchanged, TypeInv, TypeOK
  <2>2. PICK n \in Busy : n.stage = "start" /\ task' = [task EXCEPT ![t] = n]
    BY <1>6, CollectSteps
  <2> QED
    BY <1>4, <2>1, <2>2
<1>7. ASSUME NEW t \in Tasks, TaskStep(t) PROVE TypeInv'
  <2>1. /\ documents' \in Seq(Documents) /\ (documents # <<>> => documents' # <<>>)
        /\ UNCHANGED deletedUnder
        /\ \A j \in DOMAIN documents' : documents'[j].whole \/ deletedUnder
    BY <1>7, EnrichSteps, DocumentTypes
  <2>2. \/ task' = [task EXCEPT ![t] = NoTask]
        \/ \E s \in Stages \ {"free"} : Moves(t, s) /\ StageFits(t, s)
    BY <1>7, EnrichSteps
  <2>3. CASE task' = [task EXCEPT ![t] = NoTask]
    BY <1>4, <2>1, <2>3
  <2>4. ASSUME NEW s \in Stages \ {"free"}, Moves(t, s), StageFits(t, s) PROVE TypeInv'
    <3>1. PICK n \in Busy : /\ n.stage = s /\ n.values = task[t].values
                            /\ task' = [task EXCEPT ![t] = n]
      BY <2>4 DEF Moves
    <3>2. /\ n.stage = "update" => documents' # <<>>
          /\ n.stage = "bulk" => \/ documents' # <<>> \/ deletedUnder
                                 \/ \A f \in Fields : n.values[f] = NoValue
      BY <2>4, <3>1 DEF StageFits, Has
    <3> QED
      BY <1>4, <2>1, <3>1, <3>2
  <2> QED
    BY <2>2, <2>3, <2>4
<1>8. CASE DropTarget
  BY <1>5, <1>8 DEF DropTarget, HistoryUnchanged
<1>9. CASE DropDocuments
  <2>1. /\ documents' = <<>> /\ UNCHANGED task
        /\ deletedUnder' = (deletedUnder \/ \E t \in Tasks : task[t].stage \in {"update", "bulk"})
    BY <1>9 DEF DropDocuments
  <2>2. /\ task' = [u \in Tasks |-> task'[u]]
        /\ \A u \in Tasks : task'[u] # NoTask =>
              task'[u] \in Busy /\ (task'[u].stage \in {"update", "bulk"} => deletedUnder')
    BY <2>1 DEF TypeInv, TypeOK, Busy
  <2>3. documents' \in Seq(Documents) /\ DOMAIN documents' = {}
    BY <2>1
  <2> QED
    BY <1>1, <1>2, <1>3, <2>2, <2>3 DEF TypeInv, TypeOK, Busy
<1> QED
  BY <1>5, <1>6, <1>7, <1>8, <1>9, Steps

(* Device, stores and tasks have values of their types; a task misses the  *)
(* document it has found or made, and a document has no id, only after the *)
(* inventory job has deleted the host under a task.                        *)
THEOREM EnrichTypes == Spec => []TypeOK
<1>1. TypeInv => TypeOK
  BY DEF TypeInv
<1> QED
  BY <1>1, InitTypeInv, NextKeepsTypes, PTL DEF Spec

-----------------------------------------------------------------------------
(* As long as no two tasks were under way at a time, the one that is has   *)
(* the stored sysUpTime where it compares with it, if the inventory job    *)
(* has not deleted that, and creates a document only where there is none.  *)
Alone ==
    /\ \A t, u \in Tasks : t # u => task[t] = NoTask \/ task[u] = NoTask
    /\ \A t \in Tasks :
          /\ At(t, "uptime") => target \in {task[t].old, NoUptime}
          /\ At(t, "upsert") \/ At(t, "insert") => documents = <<>>

OneInv == overlapped \/ Alone

LEMMA NextKeepsOneInv == TypeInv /\ OneInv /\ [Next]_vars => OneInv'
<1> SUFFICES ASSUME TypeInv, OneInv, [Next]_vars, ~ overlapped'
             PROVE  Alone'
  BY DEF OneInv
<1>1. ~ overlapped /\ Alone
  <2>1. overlapped => overlapped'
    BY DEF Next, RecordOverlap, vars
  <2> QED
    BY <2>1 DEF OneInv
<1>2. \A t, u \in Tasks : t # u => task'[t] = NoTask \/ task'[u] = NoTask
  BY <1>1 DEF Next, RecordOverlap, vars, Alone
<1>3. ASSUME NEW t \in Tasks, NEW n, task' = [task EXCEPT ![t] = n],
             \/ UNCHANGED <<target, documents>>
             \/ task[t] # NoTask,
             \/ n = NoTask
             \/ n \in Busy /\ StageFits(t, n.stage)
      PROVE  Alone'
  <2>1. \A u \in Tasks : task'[u] = IF u = t THEN n ELSE task[u]
    BY <1>3, SetTask
  <2>2. /\ At(t, "uptime")' => target' \in {task'[t].old, NoUptime}
        /\ At(t, "upsert")' \/ At(t, "insert")' => documents' = <<>>
    BY <1>1, <1>3, <2>1 DEF StageFits, At, NoTask, Alone
  <2>3. ASSUME NEW u \in Tasks, u # t
        PROVE  /\ At(u, "uptime")' => target' \in {task'[u].old, NoUptime}
               /\ At(u, "upsert")' \/ At(u, "insert")' => documents' = <<>>
    <3>1. task'[u] = task[u]
      BY <2>1, <2>3
    <3>2. CASE UNCHANGED <<target, documents>>
      BY <1>1, <3>1, <3>2 DEF Alone, At
    <3>3. CASE task[t] # NoTask
      <4>1. task'[u] = NoTask
        BY <1>1, <2>3, <3>1, <3>3 DEF Alone
      <4> QED
        BY <4>1 DEF At, NoTask
    <3> QED
      BY <1>3, <3>2, <3>3
  <2> QED
    BY <1>2, <2>2, <2>3 DEF Alone
<1>4. CASE UNCHANGED <<task, target, documents>>
  BY <1>1, <1>4 DEF Alone, At
<1>5. ASSUME NEW t \in Tasks, Collect(t, Fields) \/ Collect(t, PollFields) PROVE Alone'
  <2>1. UNCHANGED <<target, documents>>
    BY <1>5 DEF Collect, StoresUnchanged
  <2>2. PICK n \in Busy : n.stage = "start" /\ task' = [task EXCEPT ![t] = n]
    BY <1>5, CollectSteps
  <2>3. StageFits(t, n.stage)
    BY <2>2 DEF StageFits
  <2> QED
    BY <1>3, <2>1, <2>2, <2>3
<1>6. ASSUME NEW t \in Tasks, TaskStep(t) PROVE Alone'
  <2>1. task[t] # NoTask
    BY <1>6, EnrichSteps DEF At, NoTask
  <2>2. \/ task' = [task EXCEPT ![t] = NoTask]
        \/ \E s \in Stages \ {"free"} : Moves(t, s) /\ StageFits(t, s)
    BY <1>6, EnrichSteps
  <2> QED
    BY <1>3, <2>1, <2>2 DEF Moves
<1>7. CASE DropTarget \/ DropDocuments
  BY <1>1, <1>7 DEF DropTarget, DropDocuments, Alone, At
<1> QED
  BY <1>4, <1>5, <1>6, <1>7, Steps

LEMMA InitOneInv == Init => OneInv
BY DEF Init, OneInv, Alone, At, NoTask

-----------------------------------------------------------------------------
LEMMA NextKeepsNotice ==
    TypeInv /\ OneInv /\ RestartIsNoticed /\ [Next]_vars => RestartIsNoticed'
<1> SUFFICES ASSUME TypeInv, OneInv, RestartIsNoticed, [Next]_vars,
                    unnoticed', ~ lostTrigger', ~ noTrigger', ~ overlapped'
             PROVE  \E t \in Tasks : At(t, "trigger")'
  BY DEF RestartIsNoticed
<1>1. ~ overlapped /\ Alone
  <2>1. overlapped => overlapped'
    BY DEF Next, RecordOverlap, vars
  <2> QED
    BY <2>1 DEF OneInv
<1>2. ~ lostTrigger /\ ~ noTrigger
  <2>1. (~ lostTrigger \/ UNCHANGED lostTrigger) /\ (~ noTrigger \/ UNCHANGED noTrigger)
    BY DEF Next, vars, Tick, Restart, ValueChanges, DropTarget,
        DropDocuments, NoWalk, Collect, HistoryUnchanged, EnrichStep,
        WorkerLost, GetCurrentTarget, StoreUptime, TriggerWalk, FindAny, FindGroup, UpsertGroup,
        InsertGroup, UpdateGroup, BulkWrite
  <2> QED
    BY <2>1
<1>3. CASE UNCHANGED <<task, unnoticed>>
  BY <1>1, <1>2, <1>3 DEF RestartIsNoticed, At
<1>4. ASSUME NEW t \in Tasks, UNCHANGED unnoticed, ~ At(t, "trigger"),
             NEW n, task' = [task EXCEPT ![t] = n]
      PROVE  \E u \in Tasks : At(u, "trigger")'
  <2>1. PICK u \in Tasks : At(u, "trigger")
    BY <1>1, <1>2, <1>4 DEF RestartIsNoticed
  <2>2. u # t
    BY <1>4, <2>1
  <2>3. task'[u] = task[u]
    BY <1>4, <2>2, SetTask
  <2> QED
    BY <2>1, <2>3 DEF At
<1>5. ASSUME NEW t \in Tasks, Collect(t, Fields) \/ Collect(t, PollFields)
      PROVE  \E u \in Tasks : At(u, "trigger")'
  <2>1. UNCHANGED unnoticed /\ ~ At(t, "trigger")
    BY <1>5 DEF Collect, HistoryUnchanged, At
  <2> QED
    BY <1>4, <1>5, <2>1, CollectSteps
<1>6. ASSUME NEW t \in Tasks, StoreUptime(t) PROVE \E u \in Tasks : At(u, "trigger")'
  <2>1. task[t].stage = "uptime" /\ target \in {task[t].old, NoUptime}
    BY <1>1, <1>6 DEF StoreUptime, At, Alone
  <2>2. CASE unnoticed
    <3>1. PICK u \in Tasks : At(u, "trigger")
      BY <1>1, <1>2, <2>2 DEF RestartIsNoticed
    <3>2. u # t /\ task[u] # NoTask /\ task[t] # NoTask
      BY <2>1, <3>1 DEF At, NoTask
    <3> QED
      BY <1>1, <3>2 DEF Alone
  <2>3. CASE ~ unnoticed
    <3>1. Lower(task[t].up, task[t].old)
      BY <1>6, <2>1, <2>3 DEF StoreUptime, Lower
    <3>2. task' = [task EXCEPT ![t] = [@ EXCEPT !.stage = "trigger", !.old = NoUptime]]
      BY <1>6, <2>1, <3>1 DEF StoreUptime
    <3>3. task[t] \in Busy
      BY <2>1, BusyTask DEF At
    <3>4. At(t, "trigger")'
      BY <3>2, <3>3 DEF TypeInv, At, Busy
    <3> QED
      BY <3>4
  <2> QED
    BY <2>2, <2>3
<1>7. ASSUME NEW t \in Tasks, WorkerLost(t) PROVE \E u \in Tasks : At(u, "trigger")'
  <2>1. UNCHANGED unnoticed /\ ~ At(t, "trigger")
    BY <1>7 DEF WorkerLost
  <2> QED
    BY <1>4, <1>7, <2>1 DEF WorkerLost
<1>9. ASSUME NEW t \in Tasks, NoWalk(t) PROVE FALSE
  BY <1>9 DEF NoWalk
<1>10. CASE DropTarget \/ DropDocuments
  BY <1>3, <1>10 DEF DropTarget, DropDocuments, HistoryUnchanged
<1>8. ASSUME NEW t \in Tasks, EnrichStep(t), ~ StoreUptime(t)
      PROVE  \E u \in Tasks : At(u, "trigger")'
  <2>1. UNCHANGED unnoticed /\ ~ At(t, "trigger")
    BY <1>8 DEF EnrichStep, GetCurrentTarget, TriggerWalk, FindAny, FindGroup, UpsertGroup,
        InsertGroup, UpdateGroup, BulkWrite, HistoryUnchanged, At
  <2>2. \E n : task' = [task EXCEPT ![t] = n]
    BY <1>8, EnrichSteps DEF Moves, TaskStep
  <2> QED
    BY <1>4, <2>1, <2>2
<1> QED
  BY <1>3, <1>5, <1>6, <1>7, <1>8, <1>9, <1>10, Steps DEF TaskStep

(* check_restart stores the new sysUpTime before it triggers the walk, and *)
(* reads the old one even earlier: still a restart of the device is missed *)
(* only when a worker is lost in between, when the walk entry is missing   *)
(* or Redis raises, or when tasks of the host overlap.                     *)
THEOREM RestartsAreNoticed == Spec => []RestartIsNoticed
<1>1. Init => RestartIsNoticed
  BY DEF Init, RestartIsNoticed
<1> QED
  BY <1>1, InitTypeInv, InitOneInv, NextKeepsTypes, NextKeepsOneInv, NextKeepsNotice, PTL
     DEF Spec

-----------------------------------------------------------------------------
LEMMA NextKeepsTwins ==
    TypeInv /\ OneInv /\ TwinsStayEmpty /\ [Next]_vars => TwinsStayEmpty'
<1> SUFFICES ASSUME TypeInv, OneInv, TwinsStayEmpty, [Next]_vars PROVE TwinsStayEmpty'
  OBVIOUS
<1>1. overlapped => overlapped'
  BY DEF Next, RecordOverlap, vars
<1>2. documents \in Seq(Documents)
  BY DEF TypeInv, TypeOK
<1>3. CASE UNCHANGED documents
  BY <1>1, <1>3 DEF TwinsStayEmpty
<1>4. ASSUME NEW t \in Tasks, TaskStep(t) PROVE TwinsStayEmpty'
  <2>1. /\ documents' \in Seq(Documents)
        /\ \/ Len(documents') = Len(documents)
           \/ /\ At(t, "insert") /\ Len(documents') = Len(documents) + 1
              /\ documents'[Len(documents) + 1] = EmptyDocument
           \/ documents = <<>> /\ Len(documents') = 1
        /\ \A j \in 2..Len(documents) : documents'[j] \in {documents[j], EmptyDocument}
    BY <1>4, EnrichSteps, DocumentTypes
  <2>2. CASE Len(documents') = Len(documents)
    BY <1>1, <1>2, <2>1, <2>2, EmptyDocumentType DEF TwinsStayEmpty
  <2>4. CASE documents = <<>> /\ Len(documents') = 1
    BY <2>4 DEF TwinsStayEmpty
  <2>3. CASE /\ At(t, "insert") /\ Len(documents') = Len(documents) + 1
             /\ documents'[Len(documents) + 1] = EmptyDocument
    <3>1. CASE overlapped
      <4> SUFFICES ASSUME NEW j \in 2..Len(documents')
                   PROVE  overlapped' /\ documents'[j].fields = NoFields
        BY DEF TwinsStayEmpty
      <4>1. j \in 2..Len(documents) \/ j = Len(documents) + 1
        BY <1>2, <2>3
      <4> QED
        BY <1>1, <2>1, <2>3, <3>1, <4>1, EmptyDocumentType DEF TwinsStayEmpty
    <3>2. CASE ~ overlapped
      <4>1. documents = <<>>
        BY <2>3, <3>2 DEF OneInv, Alone
      <4>2. Len(documents') = 1
        BY <2>3, <4>1
      <4> QED
        BY <4>2 DEF TwinsStayEmpty
    <3> QED
      BY <3>1, <3>2
  <2> QED
    BY <2>1, <2>2, <2>3, <2>4
<1>5. CASE \E t \in Tasks : Collect(t, Fields) \/ Collect(t, PollFields)
  BY <1>3, <1>5 DEF Collect, StoresUnchanged
<1>6. CASE DropTarget
  BY <1>3, <1>6 DEF DropTarget
<1>7. CASE DropDocuments
  <2>1. Len(documents') = 0
    BY <1>7 DEF DropDocuments
  <2> QED
    BY <2>1 DEF TwinsStayEmpty
<1> QED
  BY <1>3, <1>4, <1>5, <1>6, <1>7, Steps

(* No unique index keeps overlapping tasks from inserting a document each; *)
(* all but the first stay empty for ever.                                  *)
THEOREM TwinsAreEmpty == Spec => []TwinsStayEmpty
<1>1. Init => TwinsStayEmpty
  BY DEF Init, TwinsStayEmpty
<1> QED
  BY <1>1, InitTypeInv, InitOneInv, NextKeepsTypes, NextKeepsOneInv, NextKeepsTwins, PTL
     DEF Spec

-----------------------------------------------------------------------------
LEMMA StepKeepsFields ==
    ASSUME TypeInv, OneInv, [Next]_vars, documents # <<>>, NEW f \in Fields,
           documents[1].fields[f] # NoValue, ~ overlapped
    PROVE  documents' = <<>> \/ documents'[1].fields[f] # NoValue
<1>1. documents \in Seq(Documents)
  BY DEF TypeInv, TypeOK
<1>2. CASE UNCHANGED documents
  BY <1>2
<1>3. ASSUME NEW t \in Tasks, TaskStep(t)
      PROVE  documents'[1].fields[f] # NoValue
  <2>1. CASE documents' = Append(documents, EmptyDocument)
    BY <1>1, <2>1, EmptyDocumentType, Appended, FirstOne
  <2>2. ~ At(t, "upsert")
    BY DEF OneInv, Alone
  <2>3. ASSUME NEW fields \in SUBSET {g \in Fields : Has(t, g)}, documents' = Written(t, fields)
        PROVE  documents'[1].fields[f] # NoValue
    <3> DEFINE g == [h \in Fields |-> IF h \in fields THEN task[t].values[h]
                                      ELSE documents[1].fields[h]]
               e == [documents[1] EXCEPT !.fields = g]
    <3>1. documents' = [documents EXCEPT ![1] = e]
      BY <2>3 DEF Written
    <3>2. documents'[1] = e
      BY <1>1, <3>1, FirstOne
    <3>3. documents[1] \in Documents
      BY <1>1, FirstOne
    <3>4. e.fields = g
      BY <3>3 DEF Documents
    <3> QED
      BY <2>3, <3>2, <3>4 DEF Has
  <2> QED
    BY <1>2, <1>3, <2>1, <2>2, <2>3, EnrichSteps DEF DocumentStep
<1>4. CASE \E t \in Tasks : Collect(t, Fields) \/ Collect(t, PollFields)
  BY <1>2, <1>4 DEF Collect, StoresUnchanged
<1>5. CASE DropTarget \/ DropDocuments
  BY <1>2, <1>5 DEF DropTarget, DropDocuments
<1> QED
  BY <1>2, <1>3, <1>4, <1>5, Steps

(* set_attribute_updates writes single fields: a poll with few fields, a   *)
(* redelivered or an older result takes none from the document, unless it  *)
(* has met another task of the host.                                       *)
THEOREM FieldsStay == Spec => FieldsAreKept
<1>1. TypeInv /\ OneInv /\ [Next]_vars
        => (documents # <<>> => \A f \in Fields :
               documents[1].fields[f] # NoValue =>
                   \/ documents' = <<>>
                   \/ documents'[1].fields[f] # NoValue
                   \/ overlapped)
  BY StepKeepsFields
<1> QED
  BY <1>1, InitTypeInv, InitOneInv, NextKeepsTypes, NextKeepsOneInv, PTL
     DEF Spec, FieldsAreKept
===============================================================================
