------------------------------- MODULE Enrich -------------------------------
(***************************************************************************)
(* enrich/tasks.py for one host and the fields of one group: the results   *)
(* of its walks and polls are compared with what MongoDB has, to notice a  *)
(* restart of the device and to store new and changed fields.  Every call  *)
(* to MongoDB is a step; several tasks of the host may be under way, a     *)
(* result may be enriched after a later one, and the inventory job may     *)
(* delete the host, and with it what a task has just found.                *)
(***************************************************************************)
EXTENDS Naturals, Sequences, FiniteSets

CONSTANTS
    Fields,       \* fields a walk of the group has
    PollFields,   \* those that a poll has
    Values,
    NoValue,      \* a field that a document or a result does not have
    NoUptime,     \* no sysUpTime is stored
    Tasks,        \* slots for tasks of the host
    Batch,        \* MONGO_UPDATE_BATCH_THRESHOLD
    MaxUptime,    \* bound on the clock of the device
    MaxEvents     \* bound on restarts and changes of the device, lost workers,
                  \* deletions and walks that cannot be triggered

ASSUME EnrichAssumption ==
    /\ PollFields \subseteq Fields
    /\ NoValue \notin Values
    /\ Batch \in Nat \ {0}
    /\ MaxUptime \in Nat /\ MaxEvents \in Nat

VARIABLES
    device,       \* the device: boot, uptime and values
    target,       \* MongoDB: sysUpTime of the target; the boot is a history variable
    documents,    \* MongoDB: documents of the group in the collection attributes
    task,         \* tasks under way
    events,
    unnoticed,    \* history: a restart was stored and no walk triggered since
    lostTrigger,  \* history: a worker was lost before it triggered a walk
    noTrigger,    \* history: a walk could not be triggered
    deletedUnder, \* history: a document was deleted that a task had found or made
    overlapped    \* history: two tasks were under way at a time

vars == <<device, target, documents, task, events,
          unnoticed, lostTrigger, noTrigger, deletedUnder, overlapped>>

Uptimes == [boot : Nat, uptime : 0..MaxUptime]
NoFields == [f \in Fields |-> NoValue]
FieldSets == [Fields -> Values \cup {NoValue}]
(* A document; `whole' if it has the keys `id' and `indexes'.              *)
Documents == [whole : BOOLEAN, fields : FieldSets]
EmptyDocument == [whole |-> TRUE, fields |-> NoFields]

Stages == {"free", "start", "uptime", "trigger", "any", "group", "upsert", "insert",
           "update", "bulk"}
NoTask == [stage |-> "free"]
NewTask(up, values) ==
    [stage |-> "start", up |-> up, values |-> values, old |-> NoUptime,
     current |-> EmptyDocument]

Has(t, f) == task[t].values[f] # NoValue
Event == events < MaxEvents /\ events' = events + 1
At(t, s) == task[t].stage = s
Enter(t, s) == task' = [task EXCEPT ![t].stage = s]
StoresUnchanged == UNCHANGED <<device, target, documents, events>>
HistoryUnchanged == UNCHANGED <<unnoticed, lostTrigger, noTrigger, deletedUnder>>

Init ==
    /\ \E v \in Values : device = [boot |-> 0, uptime |-> 0, values |-> [f \in Fields |-> v]]
    /\ target = NoUptime
    /\ documents = <<>>
    /\ task = [t \in Tasks |-> NoTask]
    /\ events = 0
    /\ unnoticed = FALSE /\ lostTrigger = FALSE /\ noTrigger = FALSE
    /\ deletedUnder = FALSE /\ overlapped = FALSE

-----------------------------------------------------------------------------
Tick ==
    /\ device.uptime < MaxUptime
    /\ device' = [device EXCEPT !.uptime = @ + 1]
    /\ UNCHANGED <<target, documents, task, events>> /\ HistoryUnchanged

Restart ==
    /\ Event
    /\ device' = [device EXCEPT !.boot = @ + 1, !.uptime = 0]
    /\ UNCHANGED <<target, documents, task>> /\ HistoryUnchanged

ValueChanges ==
    /\ Event
    /\ \E f \in Fields, v \in Values :
          v # device.values[f] /\ device' = [device EXCEPT !.values[f] = v]
    /\ UNCHANGED <<target, documents, task>> /\ HistoryUnchanged

(* InventoryRecordManager.delete removes the target and, with another      *)
(* call, the attributes of the host; the record may come back.             *)
DropTarget ==
    /\ Event
    /\ target' = NoUptime
    /\ UNCHANGED <<device, documents, task>> /\ HistoryUnchanged

DropDocuments ==
    /\ Event
    /\ documents' = <<>>
    /\ deletedUnder' = \/ deletedUnder
                       \/ \E t \in Tasks : task[t].stage \in {"update", "bulk"}
    /\ UNCHANGED <<device, target, task, unnoticed, lostTrigger, noTrigger>>

(* A walk or a poll has a result.                                          *)
Collect(t, fields) ==
    /\ At(t, "free")
    /\ task' = [task EXCEPT ![t] =
            NewTask([boot |-> device.boot, uptime |-> device.uptime],
                    [f \in Fields |-> IF f \in fields THEN device.values[f] ELSE NoValue])]
    /\ StoresUnchanged /\ HistoryUnchanged

-----------------------------------------------------------------------------
(* Mutant of GetCurrentTarget: the value is read when it was replaced.     *)
GetCurrentTargetLate(t) ==
    /\ At(t, "start")
    /\ task' = [task EXCEPT ![t] = [@ EXCEPT !.stage = "uptime", !.old = task[t].up]]
    /\ StoresUnchanged /\ HistoryUnchanged

GetCurrentTarget(t) ==
    /\ At(t, "start")
    /\ task' = [task EXCEPT ![t] = [@ EXCEPT !.stage = "uptime", !.old = target]]
    /\ StoresUnchanged /\ HistoryUnchanged

Lower(up, old) == old # NoUptime /\ up.uptime < old.uptime

(* check_restart: the new value is stored before it is compared with the   *)
(* one that was read.                                                      *)
StoreUptime(t) ==
    /\ At(t, "uptime")
    /\ LET up == task[t].up
       IN  /\ target' = up
           /\ task' = [task EXCEPT ![t] =
                  [@ EXCEPT !.stage = IF Lower(up, task[t].old) THEN "trigger" ELSE "any",
                            !.old = NoUptime]]
           /\ unnoticed' = \/ unnoticed
                           \/ /\ Lower(up, target)
                              /\ target.boot < up.boot
    /\ UNCHANGED <<device, documents, events, lostTrigger, noTrigger, deletedUnder>>

(* trigger_walk_after_restart; WorkChains has what it does to the entry.   *)
TriggerWalk(t) ==
    /\ At(t, "trigger")
    /\ Enter(t, "any")
    /\ unnoticed' = FALSE
    /\ StoresUnchanged /\ UNCHANGED <<lostTrigger, noTrigger, deletedUnder>>

(* The walk entry is missing, or Redis raises: both are logged, and the    *)
(* task goes on with the new sysUpTime stored.                             *)
NoWalk(t) ==
    /\ Event
    /\ At(t, "trigger")
    /\ Enter(t, "any")
    /\ noTrigger' = TRUE
    /\ UNCHANGED <<device, target, documents, unnoticed, lostTrigger, deletedUnder>>

-----------------------------------------------------------------------------
(* No document was found: one is made if the group has fields in this      *)
(* result.                                                                 *)
NotFound(t) ==
    Enter(t, IF \A f \in Fields : ~ Has(t, f) THEN "bulk" ELSE "upsert")

(* is_any_address_in_attributes_collection: a document of another group    *)
(* may be there as well.                                                   *)
FindAny(t) ==
    /\ At(t, "any")
    /\ \/ Enter(t, "group")
       \/ documents = <<>> /\ NotFound(t)
    /\ StoresUnchanged /\ HistoryUnchanged

(* current_attributes: find_one returns the first document.                *)
FindGroup(t) ==
    /\ At(t, "group")
    /\ IF documents = <<>>
       THEN NotFound(t)
       ELSE task' = [task EXCEPT ![t] = [@ EXCEPT !.stage = "update", !.current = documents[1]]]
    /\ StoresUnchanged /\ HistoryUnchanged

(* Mutant of UpsertGroup: the document is taken to be there.               *)
UpsertGroupLater(t) ==
    /\ At(t, "upsert")
    /\ Enter(t, "bulk")
    /\ StoresUnchanged /\ HistoryUnchanged

(* update_one with upsert: its filter has the indexes, so that it sets     *)
(* `fields' to {} in the first whole document if one came in between;      *)
(* otherwise it inserts one, and without a unique index another one may    *)
(* come in between once more.                                              *)
IsFirstWhole(j) == documents[j].whole /\ \A i \in 1..(j - 1) : ~ documents[i].whole

UpsertGroup(t) ==
    /\ At(t, "upsert")
    /\ \/ /\ \A j \in DOMAIN documents : ~ documents[j].whole
          /\ Enter(t, "insert") /\ UNCHANGED documents
       \/ /\ \E j \in DOMAIN documents :
                IsFirstWhole(j) /\ documents' = [documents EXCEPT ![j] = EmptyDocument]
          /\ Enter(t, "bulk")
    /\ UNCHANGED <<device, target, events>> /\ HistoryUnchanged

(* Mutant of InsertGroup: the document is inserted with the fields, not    *)
(* before them.                                                            *)
InsertGroupFilled(t) ==
    /\ At(t, "insert")
    /\ documents' = Append(documents, [whole |-> TRUE, fields |-> task[t].values])
    /\ Enter(t, "bulk")
    /\ UNCHANGED <<device, target, events>> /\ HistoryUnchanged

InsertGroup(t) ==
    /\ At(t, "insert")
    /\ documents' = Append(documents, EmptyDocument)
    /\ Enter(t, "bulk")
    /\ UNCHANGED <<device, target, events>> /\ HistoryUnchanged

(* set_attribute_updates: fields that the document had not are new; the    *)
(* others are modified if value or time differ, which only a redelivered   *)
(* task may find equal.                                                    *)
NewFields(t) == {f \in Fields : Has(t, f) /\ task[t].current.fields[f] = NoValue}
Known(t) == {f \in Fields : Has(t, f)} \ NewFields(t)
Differing(t) == {f \in Known(t) : task[t].current.fields[f] # task[t].values[f]}
(* Mutant of Modified: only new fields are written.                        *)
ModifiedNever(t) == {{}}

Modified(t) == {Known(t), Differing(t)}

(* Mutant of Written: a field that is written replaces all the others.     *)
WrittenAlone(t, fields) ==
    IF fields = {} THEN documents
    ELSE [documents EXCEPT ![1].fields =
            [f \in Fields |-> IF f \in fields THEN task[t].values[f] ELSE NoValue]]

(* $set of single fields in the first document of the group ...            *)
Written(t, fields) ==
    [documents EXCEPT ![1].fields =
        [f \in Fields |-> IF f \in fields THEN task[t].values[f] ELSE @[f]]]

(* ... or, with upsert, in a new one, which has neither id nor indexes.    *)
Upserted(t, fields) ==
    IF documents # <<>> THEN Written(t, fields)
    ELSE IF fields = {} THEN <<>>
    ELSE <<[whole |-> FALSE,
            fields |-> [f \in Fields |-> IF f \in fields THEN task[t].values[f] ELSE NoValue]]>>

(* update_collections: the modified fields, group by group, with upsert    *)
(* only if they fill a batch.  A document without id raises then, before   *)
(* any new field of the result is written.                                 *)
UpdateGroup(t) ==
    /\ At(t, "update")
    /\ \E fields \in Modified(t) :
          documents' = IF documents = <<>> /\ Cardinality(fields) < Batch THEN <<>>
                       ELSE Upserted(t, fields)
    /\ IF task[t].current.whole THEN Enter(t, "bulk") ELSE task' = [task EXCEPT ![t] = NoTask]
    /\ UNCHANGED <<device, target, events>> /\ HistoryUnchanged

(* bulk_write_attributes: the new ones, when all groups are done.          *)
BulkWrite(t) ==
    /\ At(t, "bulk")
    /\ documents' = Upserted(t, NewFields(t))
    /\ task' = [task EXCEPT ![t] = NoTask]
    /\ UNCHANGED <<device, target, events>> /\ HistoryUnchanged

(* A worker is lost; the task is delivered again, with the same result.    *)
WorkerLost(t) ==
    /\ Event
    /\ task[t].stage \notin {"free", "start"}
    /\ task' = [task EXCEPT ![t] = NewTask(task[t].up, task[t].values)]
    /\ lostTrigger' = (lostTrigger \/ At(t, "trigger"))
    /\ UNCHANGED <<device, target, documents, unnoticed, noTrigger, deletedUnder>>

-----------------------------------------------------------------------------
EnrichStep(t) ==
    \/ GetCurrentTarget(t) \/ StoreUptime(t) \/ TriggerWalk(t)
    \/ FindAny(t) \/ FindGroup(t) \/ UpsertGroup(t) \/ InsertGroup(t)
    \/ UpdateGroup(t) \/ BulkWrite(t)

RecordOverlap ==
    overlapped' = \/ overlapped
                  \/ \E t, u \in Tasks : t # u /\ task'[t] # NoTask /\ task'[u] # NoTask

Next ==
    /\ \/ Tick \/ Restart \/ ValueChanges \/ DropTarget \/ DropDocuments
       \/ \E t \in Tasks : \/ Collect(t, Fields) \/ Collect(t, PollFields)
                           \/ EnrichStep(t) \/ NoWalk(t) \/ WorkerLost(t)
    /\ RecordOverlap

Spec == Init /\ [][Next]_vars

(* Results are enriched, and the host is walked again and again.           *)
Fairness ==
    \A t \in Tasks : /\ WF_vars(EnrichStep(t) /\ RecordOverlap)
                     /\ SF_vars(Collect(t, Fields) /\ RecordOverlap)

FairSpec == Spec /\ Fairness

-----------------------------------------------------------------------------
(* Device, stores and tasks have values of their types.  A task that       *)
(* writes fields misses the document it has found or made, and a bulk      *)
(* write makes one without an id, only if the inventory job has deleted    *)
(* the host under a task.                                                  *)
TypeOK ==
    /\ device \in [boot : Nat, uptime : 0..MaxUptime, values : [Fields -> Values]]
    /\ target \in Uptimes \cup {NoUptime}
    /\ documents \in Seq(Documents)
    /\ \A t \in Tasks : task[t] # NoTask =>
        /\ task[t] \in [stage : Stages \ {"free"}, up : Uptimes, values : FieldSets,
                        old : Uptimes \cup {NoUptime}, current : Documents]
        /\ (task[t].stage = "update" => (documents # <<>> \/ deletedUnder))
        /\ (task[t].stage = "bulk" =>
              (documents # <<>> \/ deletedUnder \/ \A f \in Fields : ~ Has(t, f)))
    /\ \A j \in DOMAIN documents : documents[j].whole \/ deletedUnder
    /\ unnoticed \in BOOLEAN /\ lostTrigger \in BOOLEAN /\ noTrigger \in BOOLEAN
    /\ deletedUnder \in BOOLEAN /\ overlapped \in BOOLEAN
    /\ events \in Nat

(* check_restart: when the sysUpTime of a device that has restarted        *)
(* replaces a higher one, a walk is triggered; this can go wrong only if   *)
(* the worker is lost between the two, if the walk entry is missing or     *)
(* Redis raises just then, or if two tasks of the host were under way at a *)
(* time and a result was enriched after a later one.                       *)
RestartIsNoticed ==
    unnoticed => (\E t \in Tasks : At(t, "trigger")) \/ lostTrigger \/ noTrigger \/ overlapped

(* The collection attributes has no unique index: two tasks that both find *)
(* no document leave two, and the second one stays empty for ever (no      *)
(* condition on its fields holds, but every negated one does).             *)
TwinsStayEmpty == \A j \in 2..Len(documents) : overlapped /\ documents[j].fields = NoFields

(* A poll, whose result has fewer fields than that of a walk, a redelivery *)
(* or an older result never takes a field from the document; only the      *)
(* upsert of a task that found no document may, when another task was      *)
(* under way, and the deletion of the host.                                *)
FieldsAreKept ==
    [][documents # <<>> => \A f \in Fields :
          documents[1].fields[f] # NoValue =>
              \/ documents' = <<>>
              \/ documents'[1].fields[f] # NoValue
              \/ overlapped]_vars

(* Whatever was overwritten by older results or lost, eventually and then  *)
(* for ever the document has the values of the device; unless the host was *)
(* deleted under a task and came back: the document that the bulk write    *)
(* has left has no id, and every enrich of the group raises on it.         *)
AttributesFollowDevice ==
    <>[]/\ documents # <<>>
        /\ \/ documents[1].fields = device.values
           \/ deletedUnder /\ ~ documents[1].whole
=============================================================================
