------------------------------ MODULE Discovery ------------------------------
(***************************************************************************)
(* Discovery of devices: the loader (discovery/loader.py) schedules one    *)
(* task per configured discovery, RedBeat fires them, worker processes     *)
(* check every address of the subnet concurrently on one SNMP engine       *)
(* (discovery/discovery_manager.py, get_discovery_auth of snmp/auth.py)    *)
(* and bring the rows of the discovery in the one CSV file up to date      *)
(* (common/csv_record_manager.py), under a file lock.                      *)
(***************************************************************************)
EXTENDS FiniteSets, Naturals, Sequences

CONSTANTS
    Keys,         \* names of discoveries
    Ips,          \* addresses; the engine of a device is named by its address
    Workers,      \* processes of the queue "discovery"
    Groups,       \* groups that rules give
    DefaultGroup,
    Descriptions, \* values of sysDescr
    Silent,       \* no device answers at the address
    Networks,     \* what may answer at each address: a description or nobody
    FirstNetwork, \* the first of them
    NoEngine,     \* no EngineID
    Records,      \* valid DiscoveryRecords
    Invalid,      \* a configuration that DiscoveryRecord rejects
    IPv6Disabled, \* a subnet of addresses that are not enabled
    Absent,       \* no such discovery
    Order,        \* the keys of `autodiscovery', in the order of the file
    Expiries,     \* values of CHAIN_OF_TASKS_EXPIRY_TIME
    Configs,      \* versions of both
    FirstConfig,  \* the first of them
    Concurrency,  \* SUBNET_DISCOVERY_CONCURRENCY
    MaxEvents     \* bound on edits, changes of devices and faults

Rules == [matching : SUBSET Descriptions, group : Groups]

ASSUME DiscoveryAssumption ==
    /\ DefaultGroup \notin Groups
    /\ Silent \notin Descriptions /\ NoEngine \notin Ips
    /\ Networks \subseteq [Ips -> Descriptions \cup {Silent}] /\ FirstNetwork \in Networks
    /\ Records \subseteq [ips : SUBSET Ips, localized : BOOLEAN, delete : BOOLEAN,
                          engine : Ips \cup {NoEngine}, rules : Seq(Rules)]
    /\ {Invalid, IPv6Disabled, Absent} \cap Records = {}
    /\ Cardinality({Invalid, IPv6Disabled, Absent}) = 3
    /\ Configs \subseteq [of : [Keys -> Records \cup {Invalid, IPv6Disabled, Absent}],
                           expires : Expiries]
    /\ FirstConfig \in Configs
    /\ Order \in Seq(Keys) /\ Keys = {Order[j] : j \in DOMAIN Order}
    /\ Concurrency \in Nat \ {0} /\ MaxEvents \in Nat

VARIABLES
    config,       \* the configuration
    device,       \* what answers now at each address
    loader,       \* the discovery job: program counter and keys still to come
    schedule,     \* Redis: the discovery entry of each key
    queue,        \* tasks that no worker has taken
    task,         \* the task of each worker
    csv,          \* discovery_devices.csv: how often each row is there
    events

vars == <<config, device, loader, schedule, queue, task, csv, events>>

AllGroups == Groups \cup {DefaultGroup}
Rows == [key : Keys, ip : Ips, group : AllGroups]
NoRows == [r \in Rows |-> 0]

(* due: the entry was made with run_immediately.                           *)
Entries == [record : Records, expires : Expiries, due : BOOLEAN]
NoEntry == [record |-> Absent]
Messages == [key : Keys, record : Records]

(* A check of an address: waiting for the semaphore, probing for the       *)
(* EngineID, asking for sysDescr; what it has for an EngineID; its result. *)
Stages == {"wait", "probe", "probed", "ask", "done"}
NotFound == "not found"
Checks == [stage : Stages, engine : Ips \cup {NoEngine}, result : AllGroups \cup {NotFound}]
NewCheck == [stage |-> "wait", engine |-> NoEngine, result |-> NotFound]

(* pc, the message, the checks of the scan, and the rows as read.          *)
IdleTask == [pc |-> "idle"]

(* Mutant of NewTask: every address is checked.                            *)
NewTaskEverywhere(m) == [pc |-> "scan", msg |-> m, scan |-> [i \in Ips |-> NewCheck],
                         rows |-> NoRows]

NewTask(m) == [pc |-> "scan", msg |-> m, scan |-> [i \in m.record.ips |-> NewCheck],
               rows |-> NoRows]

Event == events < MaxEvents /\ events' = events + 1
At(w, l) == task[w].pc = l

Init ==
    /\ config = FirstConfig
    /\ device = FirstNetwork
    /\ loader = [pc |-> "due", left |-> <<>>]
    /\ schedule = [k \in Keys |-> NoEntry]
    /\ queue = {}
    /\ task = [w \in Workers |-> IdleTask]
    /\ csv = NoRows
    /\ events = 0

-----------------------------------------------------------------------------
(* The configuration changes and the job is started.                       *)
Edit ==
    /\ Event /\ loader.pc = "idle"
    /\ \E c \in Configs \ {config} : config' = c
    /\ loader' = [loader EXCEPT !.pc = "due"]
    /\ UNCHANGED <<device, schedule, queue, task, csv>>

DeviceChanges ==
    /\ Event
    /\ \E n \in Networks \ {device} : device' = n
    /\ UNCHANGED <<config, loader, schedule, queue, task, csv>>

-----------------------------------------------------------------------------
(* load(): did_expiry_time_change deletes every discovery entry when one   *)
(* has another expiry time.                                                *)
StoredExpiries == {schedule[k].expires : k \in {j \in Keys : schedule[j] # NoEntry}}

LoadStart ==
    /\ loader.pc = "due"
    /\ schedule' = IF StoredExpiries \subseteq {config.expires} THEN schedule
                   ELSE [k \in Keys |-> NoEntry]
    /\ loader' = [pc |-> "records", left |-> Order]
    /\ UNCHANGED <<config, device, queue, task, csv, events>>

(* manage_task replaces everything of an entry but its options.            *)
Managed(entry, record) ==
    IF entry = NoEntry THEN [record |-> record, expires |-> config.expires, due |-> TRUE]
    ELSE [entry EXCEPT !.record = record]

(* One discovery after the other; one that DiscoveryRecord rejects ends    *)
(* the job with an exception, and Kubernetes starts it again.              *)
LoadRecord ==
    /\ loader.pc = "records" /\ loader.left # <<>>
    /\ LET k == Head(loader.left)
       IN  IF config.of[k] = Invalid
           THEN loader' = [pc |-> "due", left |-> <<>>] /\ UNCHANGED schedule
           ELSE /\ loader' = [loader EXCEPT !.left = Tail(@)]
                /\ schedule' = IF config.of[k] \in Records
                               THEN [schedule EXCEPT ![k] = Managed(@, config.of[k])]
                               ELSE schedule
    /\ UNCHANGED <<config, device, queue, task, csv, events>>

(* Mutant of LoadPrune: nothing is deleted.                                *)
LoadPruneNothing ==
    /\ loader.pc = "records" /\ loader.left = <<>>
    /\ loader' = [loader EXCEPT !.pc = "idle"]
    /\ UNCHANGED <<config, device, schedule, queue, task, csv, events>>

(* delete_unused_discovery_tasks.                                          *)
LoadPrune ==
    /\ loader.pc = "records" /\ loader.left = <<>>
    /\ schedule' = [k \in Keys |-> IF config.of[k] \in Records THEN schedule[k] ELSE NoEntry]
    /\ loader' = [loader EXCEPT !.pc = "idle"]
    /\ UNCHANGED <<config, device, queue, task, csv, events>>

LoadCrash ==
    /\ Event /\ loader.pc = "records"
    /\ loader' = [pc |-> "due", left |-> <<>>]
    /\ UNCHANGED <<config, device, schedule, queue, task, csv>>

-----------------------------------------------------------------------------
(* RedBeat sends the task with the arguments of the entry, at once when    *)
(* the entry is new, then again and again.  The period is at least six     *)
(* hours, which a scan does not take; the task of a new entry may overlap  *)
(* one of the entry before, or one that was delivered again.               *)
Busy(k) == \E w \in Workers : ~At(w, "idle") /\ task[w].msg.key = k

Fire(k) ==
    /\ schedule[k] # NoEntry
    /\ \A m \in queue : m.key # k
    /\ schedule[k].due \/ ~Busy(k)
    /\ queue' = queue \cup {[key |-> k, record |-> schedule[k].record]}
    /\ schedule' = [schedule EXCEPT ![k].due = FALSE]
    /\ UNCHANGED <<config, device, loader, task, csv, events>>

(* A task that no worker takes in time expires.                            *)
Expire(m) ==
    /\ Event
    /\ queue' = queue \ {m}
    /\ UNCHANGED <<config, device, loader, schedule, task, csv>>

Take(w, m) ==
    /\ At(w, "idle") /\ m \in queue
    /\ queue' = queue \ {m}
    /\ task' = [task EXCEPT ![w] = NewTask(m)]
    /\ UNCHANGED <<config, device, loader, schedule, csv, events>>

-----------------------------------------------------------------------------
(* The scan.  Checks run concurrently in one event loop, as many at a time *)
(* as the semaphore allows.                                                *)
Stage(w, i) == task[w].scan[i].stage
Checking(w, i) == At(w, "scan") /\ i \in DOMAIN task[w].scan
InFlight(w) == {i \in DOMAIN task[w].scan : Stage(w, i) \in {"probe", "probed", "ask"}}
SetCheck(w, i, check) == task' = [task EXCEPT ![w].scan[i] = check]
ScanUnchanged == UNCHANGED <<config, device, loader, schedule, queue, csv>>

(* get_discovery_auth: a configured EngineID is taken; localized keys need *)
(* the one of the device before the request; otherwise none is given and   *)
(* the request finds it out.                                               *)
StartCheck(w, i) ==
    /\ Checking(w, i) /\ Stage(w, i) = "wait"
    /\ Cardinality(InFlight(w)) < Concurrency
    /\ LET record == task[w].msg.record
       IN  SetCheck(w, i, [NewCheck EXCEPT
               !.stage = IF record.localized /\ record.engine = NoEngine THEN "probe" ELSE "ask",
               !.engine = record.engine])
    /\ ScanUnchanged /\ UNCHANGED events

(* Mutant of ProbeEngine: the engine of the scan.                          *)
ProbeEngineShared(w, i) == <<w>>

(* The engine that get_security_engine_id probes with.                     *)
ProbeEngine(w, i) == <<w, i>>

(* The report of a device: every observer of the engine is called, and     *)
(* notes the EngineID in its context.                                      *)
Noted(w, i, j) ==
    IF Stage(w, j) \in {"probe", "probed"} /\ ProbeEngine(w, j) = ProbeEngine(w, i)
    THEN [stage |-> IF j = i THEN "probed" ELSE Stage(w, j), engine |-> i,
          result |-> task[w].scan[j].result]
    ELSE task[w].scan[j]

Report(w, i) ==
    /\ Checking(w, i) /\ Stage(w, i) = "probe" /\ device[i] # Silent
    /\ task' = [task EXCEPT ![w].scan = [j \in DOMAIN @ |-> Noted(w, i, j)]]
    /\ ScanUnchanged /\ UNCHANGED events

(* get_cmd returns; fetch_security_engine_id looks into the context.       *)
ProbeEnds(w, i) ==
    SetCheck(w, i, IF task[w].scan[i].engine = NoEngine
                   THEN [task[w].scan[i] EXCEPT !.stage = "done"]
                   ELSE [task[w].scan[i] EXCEPT !.stage = "ask"])

Fetch(w, i) ==
    /\ Checking(w, i)
    /\ \/ Stage(w, i) = "probed"
       \/ Stage(w, i) = "probe" /\ device[i] = Silent
    /\ ProbeEnds(w, i)
    /\ ScanUnchanged /\ UNCHANGED events

(* find_device_group: the first rule that matches; one without a pattern,  *)
(* or whose pattern raises, matches nothing.                               *)
FindDeviceGroup(rules, descr) ==
    LET fitting == {j \in DOMAIN rules : descr \in rules[j].matching}
    IN  IF fitting = {} THEN DefaultGroup
        ELSE rules[CHOOSE j \in fitting : \A k \in fitting : j <= k].group

(* check_snmp_device: a device answers when it is there and is asked for   *)
(* with its own EngineID, or with none.                                    *)
Answers(i, engine) == device[i] # Silent /\ engine \in {NoEngine, i}

Ask(w, i) ==
    /\ Checking(w, i) /\ Stage(w, i) = "ask"
    /\ SetCheck(w, i, [task[w].scan[i] EXCEPT
           !.stage = "done",
           !.result = IF Answers(i, task[w].scan[i].engine)
                      THEN FindDeviceGroup(task[w].msg.record.rules, device[i])
                      ELSE NotFound])
    /\ ScanUnchanged /\ UNCHANGED events

(* Every request to a device is lost.                                      *)
RequestLost(w, i) ==
    /\ Event
    /\ Checking(w, i)
    /\ \/ Stage(w, i) = "probe" /\ ProbeEnds(w, i)
       \/ Stage(w, i) = "ask" /\ SetCheck(w, i, [task[w].scan[i] EXCEPT !.stage = "done"])
    /\ ScanUnchanged

-----------------------------------------------------------------------------
(* add_devices_detail_to_csv.                                              *)
Found(w) ==
    {[key |-> task[w].msg.key, ip |-> i, group |-> task[w].scan[i].result] :
        i \in {j \in DOMAIN task[w].scan : task[w].scan[j].result # NotFound}}

(* Mutant of CreateRows: rows that are there are not looked for.           *)
CreateRowsAlways(rows, found) ==
    [r \in Rows |-> IF r \in found THEN rows[r] + 1 ELSE rows[r]]

(* create_rows: rows that are there are not added again.                   *)
CreateRows(rows, found) ==
    [r \in Rows |-> IF r \in found /\ rows[r] = 0 THEN 1 ELSE rows[r]]

DeleteRowsByKey(rows, k) == [r \in Rows |-> IF r.key = k THEN 0 ELSE rows[r]]

(* Mutant of UpToDate: the old rows are deleted after the new ones came.   *)
UpToDateDeletesLast(w) ==
    IF task[w].msg.record.delete
    THEN DeleteRowsByKey(CreateRows(task[w].rows, Found(w)), task[w].msg.key)
    ELSE CreateRows(task[w].rows, Found(w))

UpToDate(w) ==
    CreateRows(IF task[w].msg.record.delete
               THEN DeleteRowsByKey(task[w].rows, task[w].msg.key) ELSE task[w].rows,
               Found(w))

(* Mutant of LockFree: the lock is not waited for.                         *)
LockIgnored(w) == w \in Workers

(* FileLock: nobody is between reading and writing the file.               *)
LockFree(w) == \A v \in Workers : ~At(v, "write")

(* All checks are done: the lock is taken and the file read ...            *)
ReadCsv(w) ==
    /\ At(w, "scan")
    /\ \A i \in DOMAIN task[w].scan : Stage(w, i) = "done"
    /\ LockFree(w)
    /\ task' = [task EXCEPT ![w] = [pc |-> "write", msg |-> @.msg, scan |-> @.scan,
                                       rows |-> csv]]
    /\ ScanUnchanged /\ UNCHANGED events

(* ... and written; the task is acknowledged.                              *)
WriteCsv(w) ==
    /\ At(w, "write")
    /\ csv' = UpToDate(w)
    /\ task' = [task EXCEPT ![w] = IdleTask]
    /\ UNCHANGED <<config, device, loader, schedule, queue, events>>

(* A worker is lost.  The file is truncated before it is written, so that  *)
(* only some of the rows may be there; the lock is released, and the task  *)
(* delivered again (task_acks_late).                                       *)
WorkerLost(w) ==
    /\ Event
    /\ ~At(w, "idle")
    /\ \/ csv' = csv
       \/ /\ At(w, "write")
          /\ \E kept \in SUBSET {r \in Rows : UpToDate(w)[r] # 0} :
               csv' = [r \in Rows |-> IF r \in kept THEN UpToDate(w)[r] ELSE 0]
    /\ queue' = queue \cup {task[w].msg}
    /\ task' = [task EXCEPT ![w] = IdleTask]
    /\ UNCHANGED <<config, device, loader, schedule>>

-----------------------------------------------------------------------------
Load == LoadStart \/ LoadRecord \/ LoadPrune

ScanStep(w) ==
    \/ \E i \in Ips : StartCheck(w, i) \/ Report(w, i) \/ Fetch(w, i) \/ Ask(w, i)
    \/ ReadCsv(w)
    \/ WriteCsv(w)

Next ==
    \/ Edit \/ DeviceChanges
    \/ Load \/ LoadCrash
    \/ \E k \in Keys : Fire(k)
    \/ \E m \in queue : Expire(m) \/ \E w \in Workers : Take(w, m)
    \/ \E w \in Workers : ScanStep(w) \/ WorkerLost(w) \/ \E i \in Ips : RequestLost(w, i)

Spec == Init /\ [][Next]_vars

(* The job runs to its end or again, RedBeat fires, checks end with an     *)
(* answer or a timeout, a lock that is released again and again is taken,  *)
(* and so is a task of each discovery.                                     *)
Fairness ==
    /\ WF_vars(Load)
    /\ \A k \in Keys :
        /\ WF_vars(Fire(k))
        /\ SF_vars(\E w \in Workers, m \in queue : m.key = k /\ Take(w, m))
    /\ \A w \in Workers : WF_vars(ScanStep(w)) /\ SF_vars(ReadCsv(w))

FairSpec == Spec /\ Fairness

-----------------------------------------------------------------------------
(* Configuration, job, schedule, tasks and file have values of their       *)
(* types.                                                                  *)
TypeOK ==
    /\ config \in Configs
    /\ device \in Networks
    /\ loader \in [pc : {"due", "records", "idle"}, left : Seq(Keys)]
    /\ schedule \in [Keys -> Entries \cup {NoEntry}]
    /\ queue \subseteq Messages
    /\ \A w \in Workers : task[w] # IdleTask =>
        /\ task[w].pc \in {"scan", "write"}
        /\ task[w].msg \in Messages
        /\ task[w].scan \in [task[w].msg.record.ips -> Checks]
        /\ task[w].rows \in [Rows -> Nat]
    /\ csv \in [Rows -> Nat]

(* load() as a whole, with crashes, repetitions and a rejected discovery:  *)
(* when the job has completed, exactly the discoveries of the              *)
(* configuration are scheduled, with their arguments and expiry time.      *)
ScheduleIsConfiguration ==
    loader.pc = "idle" => \A k \in Keys :
        IF config.of[k] \in Records
        THEN schedule[k] # NoEntry /\ schedule[k].record = config.of[k]
                                   /\ schedule[k].expires = config.expires
        ELSE schedule[k] = NoEntry

(* get_discovery_auth: however the checks of a scan overlap, no request    *)
(* goes to a device with the EngineID that another one reported.           *)
EngineIdIsTheTargets ==
    \A w \in Workers : At(w, "scan") => \A i \in DOMAIN task[w].scan :
        Stage(w, i) = "ask" /\ task[w].msg.record.engine = NoEngine
            => task[w].scan[i].engine \in {NoEngine, i}

(* create_rows: repeated, overlapping and redelivered runs of a discovery  *)
(* leave no device in the file twice with the same row.                    *)
NoTwinRows == \A r \in Rows : csv[r] <= 1

(* FileLock around read, change and write: the file behaves as if every    *)
(* run changed it in one step, so that the rows of a discovery change only *)
(* by its own runs and none is lost because another run wrote back what it *)
(* had read before; a fault of a worker excepted.                          *)
File == INSTANCE DiscoveryFile WITH listed <- {r \in Rows : csv[r] # 0}, faults <- events

FileIsUpdatedAtOnce == File!Spec

(* The discovery of a device.                                              *)
Visible(k, i) ==
    /\ config.of[k] \in Records /\ i \in config.of[k].ips
    /\ Answers(i, config.of[k].engine)

RowOf(k, i) == [key |-> k, ip |-> i, group |-> FindDeviceGroup(config.of[k].rules, device[i])]

(* Job, schedule, scan and file together, with lost workers that leave a   *)
(* torn file: a device that answers is eventually and then for ever in the *)
(* file, under its group, if no discovery of the configuration is invalid. *)
EveryDeviceIsListed ==
    <>[]((\A k \in Keys : config.of[k] # Invalid) =>
            \A k \in Keys, i \in Ips : Visible(k, i) => csv[RowOf(k, i)] # 0)
=============================================================================
