--------------------------- MODULE Discovery_proofs ---------------------------
(***************************************************************************)
(* For any discoveries, subnets, rules, workers, configurations and        *)
(* faults: the job leaves the schedule of its configuration, no request    *)
(* uses the EngineID of another device, no row is listed twice, and the    *)
(* CSV file implements DiscoveryFile.                                      *)
(***************************************************************************)
EXTENDS Discovery, WellFoundedInduction, TLAPS

(* A set of positions that is not empty has a first one.                   *)
LEMMA FirstPosition ==
    ASSUME NEW S \in SUBSET Nat, S # {}
    PROVE  \E x \in S : \A y \in S : x <= y
<1>1. PICK x \in S : \A y \in S : ~ (<<y, x>> \in OpToRel(<, Nat))
  BY NatLessThanWellFounded, WFMin
<1>2. \A y \in S : ~ (y < x)
  BY <1>1 DEF OpToRel
<1> QED
  BY <1>2

(* The group of a device is one of a rule, or the default.                 *)
LEMMA GroupType ==
    ASSUME NEW rules \in Seq(Rules), NEW descr
    PROVE  FindDeviceGroup(rules, descr) \in AllGroups
<1> DEFINE fitting == {j \in DOMAIN rules : descr \in rules[j].matching}
<1>1. CASE fitting = {}
  BY <1>1 DEF FindDeviceGroup, AllGroups
<1>2. CASE fitting # {}
  <2>1. fitting \subseteq Nat
    OBVIOUS
  <2>2. \E j \in fitting : \A k \in fitting : j <= k
    BY <1>2, <2>1, FirstPosition
  <2> DEFINE first == CHOOSE j \in fitting : \A k \in fitting : j <= k
  <2>3. first \in fitting
    BY <2>2
  <2>4. rules[first].group \in Groups
    <3>1. rules[first] \in Rules
      BY <2>3
    <3> QED
      BY <3>1 DEF Rules
  <2>5. FindDeviceGroup(rules, descr) = rules[first].group
    BY <1>2 DEF FindDeviceGroup
  <2> QED
    BY <2>4, <2>5 DEF AllGroups
<1> QED
  BY <1>1, <1>2

-----------------------------------------------------------------------------
(* A task with its message, a check for every address of its subnet, and   *)
(* the rows it has read.                                                   *)
Working(t) ==
    /\ t = [pc |-> t.pc, msg |-> t.msg, scan |-> t.scan, rows |-> t.rows]
    /\ t.pc \in {"scan", "write"} /\ t.msg \in Messages
    /\ t.scan \in [t.msg.record.ips -> Checks]
    /\ t.rows \in [Rows -> Nat]

TypeInv ==
    /\ TypeOK
    /\ task = [w \in Workers |-> task[w]]
    /\ \A w \in Workers : task[w] = IdleTask \/ Working(task[w])
    /\ events \in Nat

(* A new task of a worker leaves those of the others alone.                *)
LEMMA TaskUpdate ==
    ASSUME TypeInv, NEW w \in Workers, NEW t, Working(t) \/ t = IdleTask,
           task' = [task EXCEPT ![w] = t]
    PROVE  /\ task' = [v \in Workers |-> task'[v]]
           /\ \A v \in Workers : task'[v] = IF v = w THEN t ELSE task[v]
           /\ \A v \in Workers : task'[v] = IdleTask \/ Working(task'[v])
<1>1. /\ task' = [v \in Workers |-> task'[v]]
      /\ \A v \in Workers : task'[v] = IF v = w THEN t ELSE task[v]
  BY DEF TypeInv
<1> QED
  BY <1>1 DEF TypeInv

(* A worker that does not idle works.                                      *)
LEMMA BusyWorks ==
    ASSUME TypeInv, NEW w \in Workers, task[w].pc # "idle"
    PROVE  Working(task[w])
BY DEF TypeInv, IdleTask

(* The record of a message is a discovery.                                 *)
LEMMA MessageType ==
    ASSUME NEW m \in Messages
    PROVE  /\ m.key \in Keys /\ m.record \in Records
           /\ m.record.ips \in SUBSET Ips /\ m.record.engine \in Ips \cup {NoEngine}
           /\ m.record.rules \in Seq(Rules)
<1>1. m.key \in Keys /\ m.record \in Records
  BY DEF Messages
<1> QED
  BY <1>1, DiscoveryAssumption

(* A new value of a check.                                                 *)
LEMMA CheckUpdate ==
    ASSUME TypeInv, NEW w \in Workers, NEW i, i \in DOMAIN task[w].scan, Working(task[w]),
           NEW check \in Checks, SetCheck(w, i, check)
    PROVE  \E t : /\ Working(t) /\ task' = [task EXCEPT ![w] = t]
                  /\ t = [pc |-> task[w].pc, msg |-> task[w].msg, rows |-> task[w].rows,
                          scan |-> [task[w].scan EXCEPT ![i] = check]]
<1> DEFINE t == [pc |-> task[w].pc, msg |-> task[w].msg, rows |-> task[w].rows,
                 scan |-> [task[w].scan EXCEPT ![i] = check]]
<1>1. Working(t)
  BY DEF Working
<1>2. [task[w] EXCEPT !.scan[i] = check] = t
  BY DEF Working
<1>3. task' = [task EXCEPT ![w] = t]
  BY <1>2 DEF SetCheck
<1> QED
  BY <1>1, <1>3

-----------------------------------------------------------------------------
(* Nothing is scheduled, queued or listed at first.                        *)
LEMMA InitTypeInv == Init => TypeInv
<1> SUFFICES ASSUME Init PROVE TypeInv
  OBVIOUS
<1>1. schedule \in [Keys -> Entries \cup {NoEntry}]
  BY DEF Init
<1>2. csv \in [Rows -> Nat]
  BY DEF Init, NoRows
<1>3. loader \in [pc : {"due", "records", "idle"}, left : Seq(Keys)]
  BY DEF Init
<1> QED
  BY <1>1, <1>2, <1>3, DiscoveryAssumption DEF Init, TypeInv, TypeOK, IdleTask

(* Steps of the job and of the administrator write the schedule only.      *)
LEMMA JobKeepsTypes ==
    ASSUME TypeInv, Edit \/ Load \/ LoadCrash
    PROVE  TypeInv'
<1>1. config' \in Configs /\ loader' \in [pc : {"due", "records", "idle"}, left : Seq(Keys)]
  <2>1. CASE Edit
    BY <2>1 DEF Edit, TypeInv, TypeOK
  <2>2. CASE LoadStart
    BY <2>2, DiscoveryAssumption DEF LoadStart, TypeInv, TypeOK
  <2>3. CASE LoadRecord
    <3>1. loader.left \in Seq(Keys) /\ loader.left # <<>>
      BY <2>3 DEF LoadRecord, TypeInv, TypeOK
    <3>2. Tail(loader.left) \in Seq(Keys)
      BY <3>1
    <3>3. \/ loader' = [pc |-> "due", left |-> <<>>]
          \/ loader' = [loader EXCEPT !.left = Tail(loader.left)]
      BY <2>3 DEF LoadRecord
    <3>4. loader' \in [pc : {"due", "records", "idle"}, left : Seq(Keys)]
      <4>1. CASE loader' = [pc |-> "due", left |-> <<>>]
        BY <4>1
      <4>2. CASE loader' = [loader EXCEPT !.left = Tail(loader.left)]
        BY <3>2, <4>2 DEF TypeInv, TypeOK
      <4> QED
        BY <3>3, <4>1, <4>2
    <3> QED
      BY <2>3, <3>4 DEF LoadRecord, TypeInv, TypeOK
  <2>4. CASE LoadPrune
    BY <2>4 DEF LoadPrune, TypeInv, TypeOK
  <2>5. CASE LoadCrash
    BY <2>5 DEF LoadCrash, TypeInv, TypeOK
  <2> QED
    BY <2>1, <2>2, <2>3, <2>4, <2>5 DEF Load
<1>2. schedule' \in [Keys -> Entries \cup {NoEntry}]
  <2>1. CASE Edit \/ LoadCrash
    BY <2>1 DEF Edit, LoadCrash, TypeInv, TypeOK
  <2>2. CASE LoadStart
    BY <2>2 DEF LoadStart, TypeInv, TypeOK
  <2>3. CASE LoadRecord
    <3> DEFINE k == Head(loader.left)
    <3>1. CASE UNCHANGED schedule
      BY <3>1 DEF TypeInv, TypeOK
    <3>2. CASE config.of[k] \in Records
               /\ schedule' = [schedule EXCEPT ![k] = Managed(@, config.of[k])]
      <4>1. k \in Keys
        BY <2>3 DEF LoadRecord, TypeInv, TypeOK
      <4>2. config.expires \in Expiries
        BY DiscoveryAssumption DEF TypeInv, TypeOK
      <4>3. schedule[k] = NoEntry \/ schedule[k] \in Entries
        BY <4>1 DEF TypeInv, TypeOK
      <4>4. Managed(schedule[k], config.of[k]) \in Entries
        BY <3>2, <4>2, <4>3 DEF Managed, Entries
      <4> QED
        BY <3>2, <4>1, <4>4 DEF TypeInv, TypeOK
    <3> QED
      BY <2>3, <3>1, <3>2 DEF LoadRecord
  <2>4. CASE LoadPrune
    BY <2>4 DEF LoadPrune, TypeInv, TypeOK
  <2> QED
    BY <2>1, <2>2, <2>3, <2>4 DEF Load
<1>3. UNCHANGED <<device, queue, task, csv>> /\ events' \in Nat
  BY DEF Edit, Load, LoadStart, LoadRecord, LoadPrune, LoadCrash, Event, TypeInv
<1> QED
  BY <1>1, <1>2, <1>3 DEF TypeInv, TypeOK, Working

(* Devices change, and messages come and go.                               *)
LEMMA QueueKeepsTypes ==
    ASSUME TypeInv,
           \/ DeviceChanges
           \/ \E k \in Keys : Fire(k)
           \/ \E m \in queue : Expire(m)
    PROVE  TypeInv'
<1>1. CASE DeviceChanges
  BY <1>1 DEF DeviceChanges, Event, TypeInv, TypeOK, Working
<1>2. ASSUME NEW k \in Keys, Fire(k) PROVE TypeInv'
  <2>1. schedule[k] \in Entries
    BY <1>2 DEF Fire, TypeInv, TypeOK
  <2>2. queue' \subseteq Messages
    BY <1>2, <2>1 DEF Fire, TypeInv, TypeOK, Entries, Messages
  <2>3. schedule' \in [Keys -> Entries \cup {NoEntry}]
    BY <1>2, <2>1 DEF Fire, TypeInv, TypeOK, Entries
  <2> QED
    BY <1>2, <2>2, <2>3 DEF Fire, TypeInv, TypeOK, Working
<1>3. ASSUME NEW m \in queue, Expire(m) PROVE TypeInv'
  BY <1>3 DEF Expire, Event, TypeInv, TypeOK, Working
<1> QED
  BY <1>1, <1>2, <1>3

-----------------------------------------------------------------------------
(* What a step of a scan leaves of the task: a check has the EngineID it   *)
(* had, that of its own device, or the configured one.                     *)
Scanned(w, t) ==
    /\ Working(task[w]) /\ Working(t)
    /\ task[w].pc = "scan" /\ t.pc = "scan"
    /\ t.msg = task[w].msg /\ t.rows = task[w].rows
    /\ \A j \in DOMAIN t.scan :
          t.scan[j].engine \in {task[w].scan[j].engine, j, t.msg.record.engine}
    /\ task' = [task EXCEPT ![w] = t]

LEMMA CheckScanned ==
    ASSUME TypeInv, NEW w \in Workers, NEW i, Checking(w, i), NEW check \in Checks,
           check.engine \in {task[w].scan[i].engine, i, task[w].msg.record.engine},
           SetCheck(w, i, check)
    PROVE  \E t : Scanned(w, t)
<1>1. Working(task[w]) /\ task[w].pc = "scan" /\ i \in DOMAIN task[w].scan
  BY BusyWorks DEF Checking, At
<1>2. PICK t : /\ Working(t) /\ task' = [task EXCEPT ![w] = t]
               /\ t = [pc |-> task[w].pc, msg |-> task[w].msg, rows |-> task[w].rows,
                       scan |-> [task[w].scan EXCEPT ![i] = check]]
  BY <1>1, CheckUpdate
<1>3. t.scan = [task[w].scan EXCEPT ![i] = check]
  BY <1>2
<1>4. \A j \in DOMAIN t.scan :
          t.scan[j].engine \in {task[w].scan[j].engine, j, t.msg.record.engine}
  BY <1>2, <1>3
<1> QED
  BY <1>1, <1>2, <1>4 DEF Scanned

(* A check starts with the configured EngineID.                            *)
LEMMA StartScanned ==
    ASSUME TypeInv, NEW w \in Workers, NEW i \in Ips, StartCheck(w, i)
    PROVE  \E t : Scanned(w, t)
<1> DEFINE record == task[w].msg.record
           check == [NewCheck EXCEPT
               !.stage = IF record.localized /\ record.engine = NoEngine THEN "probe" ELSE "ask",
               !.engine = record.engine]
<1>1. Checking(w, i) /\ Working(task[w])
  BY BusyWorks DEF StartCheck, Checking, At
<1>2. record.engine \in Ips \cup {NoEngine}
  BY <1>1, MessageType DEF Working
<1>3. check \in Checks /\ check.engine = record.engine
  BY <1>2 DEF Checks, NewCheck, Stages
<1>4. SetCheck(w, i, check)
  BY DEF StartCheck
<1> QED
  BY <1>1, <1>3, <1>4, CheckScanned

(* The engine a device is probed with reports to no other check.           *)
LEMMA ReportScanned ==
    ASSUME TypeInv, NEW w \in Workers, NEW i \in Ips, Report(w, i)
    PROVE  \E t : Scanned(w, t)
<1> DEFINE scan == [j \in DOMAIN task[w].scan |-> Noted(w, i, j)]
           t == [pc |-> task[w].pc, msg |-> task[w].msg, rows |-> task[w].rows, scan |-> scan]
<1>1. Working(task[w]) /\ task[w].pc = "scan"
  BY BusyWorks DEF Report, Checking, At
<1>2. task' = [task EXCEPT ![w] = [task[w] EXCEPT !.scan = scan]]
  BY DEF Report
<1>3. [task[w] EXCEPT !.scan = scan] = t
  BY <1>1 DEF Working
<1>4. ASSUME NEW j \in DOMAIN task[w].scan
      PROVE  /\ scan[j] \in Checks
             /\ scan[j].engine \in {task[w].scan[j].engine, j}
  <2>1. task[w].scan[j] \in Checks
    BY <1>1 DEF Working
  <2>2. ProbeEngine(w, j) = ProbeEngine(w, i) => j = i
    BY DEF ProbeEngine
  <2> QED
    BY <2>1, <2>2 DEF Checks, Stages, Noted, Stage
<1>5. DOMAIN task[w].scan = task[w].msg.record.ips
  BY <1>1 DEF Working
<1>6. scan \in [task[w].msg.record.ips -> Checks]
  <2> HIDE DEF scan
  <2>1. scan = [j \in DOMAIN task[w].scan |-> scan[j]]
    BY DEF scan
  <2> QED
    BY <1>4, <1>5, <2>1
<1>7. Working(t)
  <2> HIDE DEF scan
  <2> QED
    BY <1>1, <1>6 DEF Working
<1>8. \A j \in DOMAIN t.scan :
          t.scan[j].engine \in {task[w].scan[j].engine, j, t.msg.record.engine}
  <2>1. DOMAIN scan = DOMAIN task[w].scan
    OBVIOUS
  <2> HIDE DEF scan
  <2> QED
    BY <1>4, <2>1
<1>9. task' = [task EXCEPT ![w] = t]
  <2> HIDE DEF scan, t
  <2> QED
    BY <1>2, <1>3
<1>10. t.pc = "scan" /\ t.msg = task[w].msg /\ t.rows = task[w].rows
  BY <1>1
<1> QED
  <2> HIDE DEF t
  <2> QED
    BY <1>1, <1>7, <1>8, <1>9, <1>10 DEF Scanned

(* A probe that ends and a request leave the EngineID alone.               *)
LEMMA EndScanned ==
    ASSUME TypeInv, NEW w \in Workers, NEW i \in Ips,
           Fetch(w, i) \/ Ask(w, i) \/ RequestLost(w, i)
    PROVE  \E t : Scanned(w, t)
<1>1. Checking(w, i) /\ Working(task[w]) /\ task[w].scan[i] \in Checks
  BY BusyWorks DEF Fetch, Ask, RequestLost, Checking, At, Working
<1>2. ASSUME NEW s \in {"ask", "done"}, NEW r \in AllGroups \cup {NotFound},
             SetCheck(w, i, [task[w].scan[i] EXCEPT !.stage = s, !.result = r])
      PROVE  \E t : Scanned(w, t)
  <2> DEFINE check == [task[w].scan[i] EXCEPT !.stage = s, !.result = r]
  <2>1. check \in Checks /\ check.engine = task[w].scan[i].engine
    BY <1>1 DEF Checks, Stages
  <2> QED
    BY <1>1, <1>2, <2>1, CheckScanned
<1>3. ASSUME NEW s \in {"ask", "done"},
             SetCheck(w, i, [task[w].scan[i] EXCEPT !.stage = s])
      PROVE  \E t : Scanned(w, t)
  <2> DEFINE check == [task[w].scan[i] EXCEPT !.stage = s]
  <2>1. check \in Checks /\ check.engine = task[w].scan[i].engine
    BY <1>1 DEF Checks, Stages
  <2> QED
    BY <1>1, <1>3, <2>1, CheckScanned
<1>4. CASE ProbeEnds(w, i)
  BY <1>3, <1>4 DEF ProbeEnds
<1>5. CASE Ask(w, i)
  <2>1. task[w].msg.record.rules \in Seq(Rules)
    BY <1>1, MessageType DEF Working
  <2> DEFINE r == IF Answers(i, task[w].scan[i].engine)
                  THEN FindDeviceGroup(task[w].msg.record.rules, device[i]) ELSE NotFound
  <2>2. r \in AllGroups \cup {NotFound}
    BY <2>1, GroupType
  <2>3. SetCheck(w, i, [task[w].scan[i] EXCEPT !.stage = "done", !.result = r])
    BY <1>5 DEF Ask
  <2> HIDE DEF r
  <2> QED
    BY <1>2, <2>2, <2>3
<1>6. CASE RequestLost(w, i)
  BY <1>3, <1>4, <1>6 DEF RequestLost
<1> QED
  BY <1>4, <1>5, <1>6 DEF Fetch

LEMMA ScanStepScanned ==
    ASSUME TypeInv, NEW w \in Workers, NEW i \in Ips,
           StartCheck(w, i) \/ Report(w, i) \/ Fetch(w, i) \/ Ask(w, i) \/ RequestLost(w, i)
    PROVE  \E t : Scanned(w, t)
BY StartScanned, ReportScanned, EndScanned

(* The rows of a run are those of its discovery.                           *)
LEMMA FoundType ==
    ASSUME NEW w \in Workers, Working(task[w])
    PROVE  Found(w) \subseteq {r \in Rows : r.key = task[w].msg.key}
<1>1. task[w].msg.key \in Keys /\ task[w].msg.record.ips \in SUBSET Ips
  BY MessageType DEF Working
<1>2. task[w].scan \in [task[w].msg.record.ips -> Checks]
  BY DEF Working
<1> SUFFICES ASSUME NEW i \in DOMAIN task[w].scan, task[w].scan[i].result # NotFound
             PROVE  [key |-> task[w].msg.key, ip |-> i, group |-> task[w].scan[i].result]
                        \in {r \in Rows : r.key = task[w].msg.key}
  BY DEF Found
<1>3. task[w].scan[i].result \in AllGroups /\ i \in Ips
  BY <1>1, <1>2 DEF Checks
<1> QED
  BY <1>1, <1>3 DEF Rows

(* The new contents of the file: the old rows, or those of the others, and *)
(* the rows found, each at most once if it was so before.                  *)
LEMMA UpToDateRows ==
    ASSUME NEW w \in Workers, Working(task[w])
    PROVE  /\ UpToDate(w) \in [Rows -> Nat]
           /\ \A r \in Rows :
                 /\ UpToDate(w)[r] \in {0, 1, task[w].rows[r]}
                 /\ UpToDate(w)[r] # 0 <=>
                       \/ r \in Found(w)
                       \/ /\ task[w].rows[r] # 0
                          /\ ~ task[w].msg.record.delete \/ r.key # task[w].msg.key
<1> DEFINE k == task[w].msg.key
           before == IF task[w].msg.record.delete THEN DeleteRowsByKey(task[w].rows, k)
                     ELSE task[w].rows
<1>1. task[w].rows \in [Rows -> Nat]
  BY DEF Working
<1>2. /\ before \in [Rows -> Nat]
      /\ \A r \in Rows : /\ before[r] \in {0, task[w].rows[r]}
                         /\ before[r] # 0 <=>
                               /\ task[w].rows[r] # 0
                               /\ ~ task[w].msg.record.delete \/ r.key # k
  BY <1>1 DEF DeleteRowsByKey
<1>3. UpToDate(w) = CreateRows(before, Found(w))
  BY DEF UpToDate
<1> HIDE DEF before
<1>4. UpToDate(w) = [r \in Rows |-> IF r \in Found(w) /\ before[r] = 0 THEN 1 ELSE before[r]]
  BY <1>3 DEF CreateRows
<1>5. UpToDate(w) \in [Rows -> Nat]
  BY <1>2, <1>4
<1>6. ASSUME NEW r \in Rows
      PROVE  /\ UpToDate(w)[r] \in {0, 1, task[w].rows[r]}
             /\ UpToDate(w)[r] # 0 <=> r \in Found(w) \/ before[r] # 0
  BY <1>2, <1>4
<1> QED
  BY <1>2, <1>5, <1>6

-----------------------------------------------------------------------------
(* A worker takes a message.                                               *)
LEMMA NewTaskWorks ==
    ASSUME NEW m \in Messages PROVE Working(NewTask(m))
<1>1. NewCheck \in Checks
  BY DEF NewCheck, Checks, Stages
<1>2. NoRows \in [Rows -> Nat]
  BY DEF NoRows
<1> HIDE DEF NewCheck
<1> QED
  BY <1>1, <1>2 DEF Working, NewTask

LEMMA WorkerKeepsTypes ==
    ASSUME TypeInv, NEW w \in Workers,
           \/ \E m \in queue : Take(w, m)
           \/ ScanStep(w) \/ WorkerLost(w) \/ \E i \in Ips : RequestLost(w, i)
    PROVE  TypeInv'
<1>1. ASSUME NEW t, Working(t) \/ t = IdleTask, task' = [task EXCEPT ![w] = t],
             UNCHANGED <<config, device, loader, schedule>>,
             queue' \subseteq Messages, csv' \in [Rows -> Nat], events' \in Nat
      PROVE  TypeInv'
  <2>1. /\ task' = [v \in Workers |-> task'[v]]
        /\ \A v \in Workers : task'[v] = IdleTask \/ Working(task'[v])
    BY <1>1, TaskUpdate
  <2>2. \A v \in Workers : Working(task'[v]) =>
            /\ task'[v].pc \in {"scan", "write"}
            /\ task'[v].msg \in Messages
            /\ task'[v].scan \in [task'[v].msg.record.ips -> Checks]
            /\ task'[v].rows \in [Rows -> Nat]
    BY DEF Working
  <2>3. TypeOK'
    BY <1>1, <2>1, <2>2 DEF TypeInv, TypeOK
  <2> QED
    BY <1>1, <2>1, <2>3 DEF TypeInv, Working
<1>2. queue \subseteq Messages /\ csv \in [Rows -> Nat] /\ events \in Nat /\ events + 1 \in Nat
  BY DEF TypeInv, TypeOK
<1>3. ASSUME NEW m \in queue, Take(w, m) PROVE TypeInv'
  BY <1>1, <1>2, <1>3, NewTaskWorks DEF Take
<1>4. ASSUME NEW i \in Ips,
             StartCheck(w, i) \/ Report(w, i) \/ Fetch(w, i) \/ Ask(w, i) \/ RequestLost(w, i)
      PROVE  TypeInv'
  <2>1. PICK t : Scanned(w, t)
    BY <1>4, ScanStepScanned
  <2>2. ScanUnchanged /\ events' \in Nat
    BY <1>2, <1>4 DEF StartCheck, Report, Fetch, Ask, RequestLost, Event
  <2> QED
    BY <1>1, <1>2, <2>1, <2>2 DEF Scanned, ScanUnchanged
<1>5. CASE ReadCsv(w)
  <2>1. Working(task[w])
    BY <1>5, BusyWorks DEF ReadCsv, At
  <2> DEFINE t == [pc |-> "write", msg |-> task[w].msg, scan |-> task[w].scan, rows |-> csv]
  <2>2. Working(t)
    BY <1>2, <2>1 DEF Working
  <2>3. task' = [task EXCEPT ![w] = t]
    BY <1>5 DEF ReadCsv
  <2> QED
    BY <1>1, <1>2, <1>5, <2>2, <2>3 DEF ReadCsv, ScanUnchanged
<1>6. CASE WriteCsv(w)
  <2>1. Working(task[w])
    BY <1>6, BusyWorks DEF WriteCsv, At
  <2> QED
    BY <1>1, <1>2, <1>6, <2>1, UpToDateRows DEF WriteCsv
<1>7. CASE WorkerLost(w)
  <2>1. Working(task[w]) /\ task[w].msg \in Messages
    BY <1>7, BusyWorks DEF WorkerLost, At, Working
  <2>2. csv' \in [Rows -> Nat]
    <3>1. ASSUME NEW kept,
                 csv' = [r \in Rows |-> IF r \in kept THEN UpToDate(w)[r] ELSE 0]
          PROVE  csv' \in [Rows -> Nat]
      BY <2>1, <3>1, UpToDateRows
    <3> QED
      BY <1>2, <1>7, <3>1 DEF WorkerLost
  <2> QED
    BY <1>1, <1>2, <1>7, <2>1, <2>2 DEF WorkerLost, Event
<1> QED
  BY <1>3, <1>4, <1>5, <1>6, <1>7 DEF ScanStep

LEMMA NextKeepsTypes == TypeInv /\ [Next]_vars => TypeInv'
<1>1. ASSUME TypeInv, UNCHANGED vars PROVE TypeInv'
  BY <1>1 DEF vars, TypeInv, TypeOK, Working
<1> QED
  BY <1>1, JobKeepsTypes, QueueKeepsTypes, WorkerKeepsTypes DEF Next

(* Job, schedule, tasks and file have values of their types whatever the   *)
(* configuration, the subnets and the faults are; in particular a task has *)
(* a check for every address of its subnet, and for no other.              *)
THEOREM DiscoveryTypes == Spec => []TypeOK
<1>1. TypeInv => TypeOK
  BY DEF TypeInv
<1> QED
  BY <1>1, InitTypeInv, NextKeepsTypes, PTL DEF Spec

-----------------------------------------------------------------------------
(* What a step does to the tasks: one of them changes, or none.            *)
LEMMA TaskSteps ==
    ASSUME TypeInv, [Next]_vars
    PROVE  \/ UNCHANGED <<task, csv>>
           \/ \E w \in Workers : \E t : Scanned(w, t) /\ UNCHANGED <<csv, queue>>
           \/ \E w \in Workers : \/ \E m \in queue : Take(w, m)
                                \/ ReadCsv(w) \/ WriteCsv(w) \/ WorkerLost(w)
<1>1. CASE UNCHANGED vars
  BY <1>1 DEF vars
<1>2. CASE \/ Edit \/ DeviceChanges \/ Load \/ LoadCrash
           \/ \E k \in Keys : Fire(k)
           \/ \E m \in queue : Expire(m)
  BY <1>2 DEF Edit, DeviceChanges, Load, LoadStart, LoadRecord, LoadPrune, LoadCrash, Fire, Expire
<1>3. ASSUME NEW w \in Workers, NEW i \in Ips,
             StartCheck(w, i) \/ Report(w, i) \/ Fetch(w, i) \/ Ask(w, i) \/ RequestLost(w, i)
      PROVE  \E t : Scanned(w, t) /\ UNCHANGED <<csv, queue>>
  <2>1. UNCHANGED <<csv, queue>>
    BY <1>3 DEF StartCheck, Report, Fetch, Ask, RequestLost, ScanUnchanged
  <2> QED
    BY <1>3, <2>1, ScanStepScanned
<1> QED
  BY <1>1, <1>2, <1>3 DEF Next, ScanStep

(* The lock: the one task that is about to write has read what is in the   *)
(* file.                                                                   *)
FileInv ==
    /\ \A w \in Workers : At(w, "write") => task[w].rows = csv
    /\ \A v, w \in Workers : At(v, "write") /\ At(w, "write") => v = w
    /\ NoTwinRows

LEMMA InitFileInv == Init => FileInv
BY DEF Init, FileInv, NoTwinRows, At, IdleTask, NoRows

LEMMA NextKeepsFileInv == TypeInv /\ FileInv /\ [Next]_vars => FileInv'
<1> SUFFICES ASSUME TypeInv, FileInv, [Next]_vars PROVE FileInv'
  OBVIOUS
<1>1. csv \in [Rows -> Nat]
  BY DEF TypeInv, TypeOK
<1>2. CASE UNCHANGED <<task, csv>>
  BY <1>2 DEF FileInv, NoTwinRows, At
<1>3. ASSUME NEW w \in Workers, NEW t, Working(t) \/ t = IdleTask,
             t.pc = "write" => At(w, "write") /\ t.rows = task[w].rows,
             task' = [task EXCEPT ![w] = t], UNCHANGED csv
      PROVE  FileInv'
  <2>1. \A v \in Workers : task'[v] = IF v = w THEN t ELSE task[v]
    BY <1>3, TaskUpdate
  <2> QED
    BY <1>3, <2>1 DEF FileInv, NoTwinRows, At
<1>4. ASSUME NEW w \in Workers, NEW t, Scanned(w, t), UNCHANGED csv PROVE FileInv'
  BY <1>3, <1>4 DEF Scanned
<1>5. ASSUME NEW w \in Workers, NEW m \in queue, Take(w, m) PROVE FileInv'
  <2>1. Working(NewTask(m)) /\ NewTask(m).pc = "scan"
    BY NewTaskWorks DEF TypeInv, TypeOK, NewTask
  <2> QED
    BY <1>3, <1>5, <2>1 DEF Take
<1>6. ASSUME NEW w \in Workers, ReadCsv(w) PROVE FileInv'
  <2>1. Working(task[w])
    BY <1>6, BusyWorks DEF ReadCsv, At
  <2> DEFINE t == [pc |-> "write", msg |-> task[w].msg, scan |-> task[w].scan, rows |-> csv]
  <2>2. Working(t) /\ t.pc = "write" /\ t.rows = csv
    BY <1>1, <2>1 DEF Working
  <2>3. task' = [task EXCEPT ![w] = t] /\ UNCHANGED csv
    BY <1>6 DEF ReadCsv, ScanUnchanged
  <2>4. \A v \in Workers : task'[v] = IF v = w THEN t ELSE task[v]
    BY <2>2, <2>3, TaskUpdate
  <2>5. \A v \in Workers : task[v].pc # "write"
    BY <1>6 DEF ReadCsv, LockFree, At
  <2> HIDE DEF t
  <2> QED
    BY <2>2, <2>3, <2>4, <2>5 DEF FileInv, NoTwinRows, At
<1>7. ASSUME NEW w \in Workers, WriteCsv(w) \/ WorkerLost(w) PROVE FileInv'
  <2>1. Working(task[w])
    BY <1>7, BusyWorks DEF WriteCsv, WorkerLost, At
  <2>2. task' = [task EXCEPT ![w] = IdleTask]
    BY <1>7 DEF WriteCsv, WorkerLost
  <2>3. CASE UNCHANGED csv
    BY <1>3, <2>2, <2>3 DEF IdleTask
  <2>4. CASE /\ At(w, "write")
             /\ csv' \in [Rows -> Nat]
             /\ \A r \in Rows : csv'[r] \in {0, UpToDate(w)[r]}
    <3>1. \A v \in Workers : task'[v] = IF v = w THEN IdleTask ELSE task[v]
      BY <2>2, TaskUpdate
    <3>2. \A v \in Workers : ~ At(v, "write")'
      BY <2>4, <3>1 DEF FileInv, At, IdleTask
    <3>3. \A r \in Rows : UpToDate(w)[r] <= 1
      BY <1>1, <2>1, <2>4, UpToDateRows DEF FileInv, NoTwinRows
    <3>4. NoTwinRows'
      BY <2>4, <3>3 DEF NoTwinRows
    <3> QED
      BY <3>2, <3>4 DEF FileInv
  <2>5. CASE WriteCsv(w)
    BY <2>1, <2>4, <2>5, UpToDateRows DEF WriteCsv
  <2>6. ASSUME At(w, "write"), NEW kept,
               csv' = [r \in Rows |-> IF r \in kept THEN UpToDate(w)[r] ELSE 0]
        PROVE  FileInv'
    <3>1. UpToDate(w) \in [Rows -> Nat]
      BY <2>1, UpToDateRows
    <3> QED
      BY <2>4, <2>6, <3>1
  <2> QED
    BY <1>7, <2>3, <2>5, <2>6 DEF WorkerLost
<1> QED
  BY <1>2, <1>4, <1>5, <1>6, <1>7, TaskSteps

(* Repeated, overlapping and redelivered runs of add_devices_detail_to_csv *)
(* leave no device in the file twice with one row.                         *)
THEOREM ListsOnce == Spec => []NoTwinRows
<1>1. FileInv => NoTwinRows
  BY DEF FileInv
<1> QED
  BY <1>1, InitTypeInv, InitFileInv, NextKeepsTypes, NextKeepsFileInv, PTL DEF Spec

-----------------------------------------------------------------------------
(* The refinement: a write is an update, a fault a fault, the rest nothing.*)
Listed == {r \in Rows : csv[r] # 0}

LEMMA UpdateOfFile ==
    ASSUME NEW w \in Workers, Working(task[w]), task[w].rows = csv
    PROVE  /\ Found(w) \in SUBSET File!RowsOf(task[w].msg.key)
           /\ {r \in Rows : UpToDate(w)[r] # 0} \in File!Updated(task[w].msg.key, Found(w))
<1> DEFINE k == task[w].msg.key
           new == {r \in Rows : UpToDate(w)[r] # 0}
           own == {r \in Rows : r.key = k}
           del == task[w].msg.record.delete
<1>1. Found(w) \subseteq own
  BY FoundType
<1>2. ASSUME NEW r \in Rows
      PROVE  r \in new <=> r \in Found(w) \/ (r \in Listed /\ (~ del \/ r \notin own))
  <2>1. UpToDate(w)[r] # 0 <=> \/ r \in Found(w)
                               \/ /\ task[w].rows[r] # 0
                                  /\ ~ task[w].msg.record.delete \/ r.key # k
    BY UpToDateRows
  <2>2. r \in Listed <=> task[w].rows[r] # 0
    BY DEF Listed
  <2>3. r \in new <=> UpToDate(w)[r] # 0
    OBVIOUS
  <2>4. r \in own <=> r.key = k
    OBVIOUS
  <2> HIDE DEF new, own, k
  <2> QED
    BY <2>1, <2>2, <2>3, <2>4
<1>3. new \subseteq Rows /\ Listed \subseteq Rows /\ own \subseteq Rows
  BY DEF Listed
<1>4. new \in {(Listed \ own) \cup Found(w), Listed \cup Found(w)}
  <2> HIDE DEF new, own, k, del
  <2>1. CASE del
    <3>1. new = (Listed \ own) \cup Found(w)
      BY <1>1, <1>2, <1>3, <2>1
    <3> QED
      BY <3>1
  <2>2. CASE ~ del
    <3>1. new = Listed \cup Found(w)
      BY <1>1, <1>2, <1>3, <2>2
    <3> QED
      BY <3>1
  <2> QED
    BY <2>1, <2>2
<1> QED
  BY <1>1, <1>4 DEF File!Updated, File!RowsOf, Listed

LEMMA StepOfFile ==
    ASSUME TypeInv, FileInv, [Next]_vars
    PROVE  [File!Next]_(File!vars)
<1>1. CASE UNCHANGED csv /\ UNCHANGED events
  BY <1>1 DEF File!vars
<1>2. CASE UNCHANGED csv /\ events' = events + 1
  BY <1>2 DEF File!Next, File!Fault
<1>3. ASSUME NEW w \in Workers, WriteCsv(w) PROVE File!Next
  <2>1. Working(task[w]) /\ task[w].rows = csv
    BY <1>3, BusyWorks DEF WriteCsv, At, FileInv
  <2>2. task[w].msg.key \in Keys
    BY <2>1, MessageType DEF Working
  <2>3. {r \in Rows : csv'[r] # 0} \in File!Updated(task[w].msg.key, Found(w))
    BY <1>3, <2>1, UpdateOfFile DEF WriteCsv
  <2> QED
    BY <1>3, <2>1, <2>2, <2>3, UpdateOfFile DEF WriteCsv, File!Next, File!Update
<1>4. ASSUME NEW w \in Workers, WorkerLost(w) PROVE File!Next
  <2>1. events' = events + 1
    BY <1>4 DEF WorkerLost, Event
  <2>2. CASE UNCHANGED csv
    BY <2>1, <2>2 DEF File!Next, File!Fault
  <2>3. ASSUME At(w, "write"), NEW kept \in SUBSET {r \in Rows : UpToDate(w)[r] # 0},
               csv' = [r \in Rows |-> IF r \in kept THEN UpToDate(w)[r] ELSE 0]
        PROVE  File!Next
    <3>1. Working(task[w]) /\ task[w].rows = csv
      BY <2>3, BusyWorks DEF At, FileInv
    <3>2. task[w].msg.key \in Keys
      BY <3>1, MessageType DEF Working
    <3>3. {r \in Rows : csv'[r] # 0} \subseteq {r \in Rows : UpToDate(w)[r] # 0}
      BY <2>3
    <3> QED
      <4>1. Found(w) \in SUBSET File!RowsOf(task[w].msg.key)
        BY <3>1, UpdateOfFile
      <4>2. {r \in Rows : UpToDate(w)[r] # 0} \in File!Updated(task[w].msg.key, Found(w))
        BY <3>1, UpdateOfFile
      <4>3. File!Fault
        BY <2>1, <3>2, <3>3, <4>1, <4>2 DEF File!Fault
      <4> QED
        BY <4>3 DEF File!Next
  <2> QED
    BY <1>4, <2>2, <2>3 DEF WorkerLost
<1>5. ASSUME NEW w \in Workers, NEW i \in Ips,
             StartCheck(w, i) \/ Report(w, i) \/ Fetch(w, i) \/ Ask(w, i) \/ RequestLost(w, i)
      PROVE  UNCHANGED csv /\ (UNCHANGED events \/ events' = events + 1)
  BY <1>5 DEF StartCheck, Report, Fetch, Ask, RequestLost, ScanUnchanged, Event
<1>6. CASE \/ Edit \/ DeviceChanges \/ Load \/ LoadCrash
           \/ \E k \in Keys : Fire(k)
           \/ \E m \in queue : Expire(m) \/ \E w \in Workers : Take(w, m)
           \/ \E w \in Workers : ReadCsv(w)
  <2>1. UNCHANGED csv /\ (UNCHANGED events \/ events' = events + 1)
    BY <1>6 DEF Edit, DeviceChanges, Load, LoadStart, LoadRecord, LoadPrune, LoadCrash, Fire,
                Expire, Take, ReadCsv, ScanUnchanged, Event
  <2> QED
    BY <1>1, <1>2, <2>1
<1>7. CASE UNCHANGED vars
  BY <1>1, <1>7 DEF vars
<1> QED
  BY <1>1, <1>2, <1>3, <1>4, <1>5, <1>6, <1>7 DEF Next, ScanStep

(* However workers, faults and the rest overlap, the CSV file behaves as   *)
(* one in which every run of add_devices_detail_to_csv is one step, and in *)
(* which only a fault takes rows from another discovery.                   *)
THEOREM FileImplemented == Spec => FileIsUpdatedAtOnce
<1>1. Init => File!Init
  BY DEF Init, File!Init, NoRows
<1> QED
  BY <1>1, InitTypeInv, InitFileInv, NextKeepsTypes, NextKeepsFileInv, StepOfFile, PTL
     DEF Spec, FileIsUpdatedAtOnce, File!Spec

-----------------------------------------------------------------------------
(* The EngineIDs of a scan for which none is configured: none, or that of  *)
(* the device itself, at every stage of its check.                         *)
OwnEngines(t) ==
    Working(t) /\ t.msg.record.engine = NoEngine
        => \A i \in DOMAIN t.scan : t.scan[i].engine \in {NoEngine, i}

EngineInv == \A w \in Workers : OwnEngines(task[w])

LEMMA NextKeepsEngineInv == TypeInv /\ EngineInv /\ [Next]_vars => EngineInv'
<1> SUFFICES ASSUME TypeInv, EngineInv, [Next]_vars PROVE EngineInv'
  OBVIOUS
<1>1. ASSUME NEW w \in Workers, NEW t, Working(t) \/ t = IdleTask, OwnEngines(t),
             task' = [task EXCEPT ![w] = t]
      PROVE  EngineInv'
  <2>1. \A v \in Workers : task'[v] = IF v = w THEN t ELSE task[v]
    BY <1>1, TaskUpdate
  <2> QED
    BY <1>1, <2>1 DEF EngineInv, OwnEngines, Working
<1>2. OwnEngines(IdleTask)
  BY DEF OwnEngines, Working, IdleTask
<1>3. CASE UNCHANGED <<task, csv>>
  BY <1>3 DEF EngineInv, OwnEngines, Working
<1>4. ASSUME NEW w \in Workers, NEW t, Scanned(w, t) PROVE EngineInv'
  <2>1. t.scan \in [t.msg.record.ips -> Checks] /\ task[w].scan \in [t.msg.record.ips -> Checks]
    BY <1>4 DEF Scanned, Working
  <2>2. OwnEngines(task[w])
    BY DEF EngineInv
  <2>3. OwnEngines(t)
    BY <1>4, <2>1, <2>2 DEF Scanned, OwnEngines
  <2> QED
    BY <1>1, <1>4, <2>3 DEF Scanned
<1>5. ASSUME NEW w \in Workers, NEW m \in queue, Take(w, m) PROVE EngineInv'
  <2>1. Working(NewTask(m))
    BY NewTaskWorks DEF TypeInv, TypeOK
  <2>2. OwnEngines(NewTask(m))
    BY DEF OwnEngines, NewTask, NewCheck
  <2> QED
    BY <1>1, <1>5, <2>1, <2>2 DEF Take
<1>6. ASSUME NEW w \in Workers, ReadCsv(w) PROVE EngineInv'
  <2>1. Working(task[w]) /\ OwnEngines(task[w])
    BY <1>6, BusyWorks DEF ReadCsv, At, EngineInv
  <2> DEFINE t == [pc |-> "write", msg |-> task[w].msg, scan |-> task[w].scan, rows |-> csv]
  <2>2. Working(t) /\ OwnEngines(t)
    BY <2>1 DEF Working, OwnEngines, TypeInv, TypeOK
  <2>3. task' = [task EXCEPT ![w] = t]
    BY <1>6 DEF ReadCsv
  <2> QED
    BY <1>1, <2>2, <2>3
<1>7. ASSUME NEW w \in Workers, WriteCsv(w) \/ WorkerLost(w) PROVE EngineInv'
  <2>1. task' = [task EXCEPT ![w] = IdleTask]
    BY <1>7 DEF WriteCsv, WorkerLost
  <2> QED
    BY <1>1, <1>2, <2>1
<1> QED
  BY <1>3, <1>4, <1>5, <1>6, <1>7, TaskSteps

(* However the checks of a scan overlap on the one SNMP engine of the      *)
(* worker, get_discovery_auth gives no request the EngineID that another   *)
(* device has reported.                                                    *)
THEOREM OwnEngineIds == Spec => []EngineIdIsTheTargets
<1>1. Init => EngineInv
  <2>1. Init => \A w \in Workers : task[w] = IdleTask
    BY DEF Init
  <2> QED
    BY <2>1 DEF EngineInv, OwnEngines, Working, IdleTask
<1>2. TypeInv /\ EngineInv => EngineIdIsTheTargets
  <2> SUFFICES ASSUME TypeInv, EngineInv, NEW w \in Workers, At(w, "scan"),
                      NEW i \in DOMAIN task[w].scan, task[w].msg.record.engine = NoEngine
               PROVE  task[w].scan[i].engine \in {NoEngine, i}
    BY DEF EngineIdIsTheTargets
  <2>1. Working(task[w])
    BY BusyWorks DEF At
  <2> QED
    BY <2>1 DEF EngineInv, OwnEngines
<1> QED
  BY <1>1, <1>2, InitTypeInv, NextKeepsTypes, NextKeepsEngineInv, PTL DEF Spec

-----------------------------------------------------------------------------
(* The schedule while the job runs: every entry has the expiry time of the *)
(* configuration, and the entry of a discovery that is not still to come   *)
(* is that of the configuration.                                           *)
Scheduled(k) == schedule[k] # NoEntry /\ schedule[k].record = config.of[k]
ToCome(k) == k \in {loader.left[j] : j \in DOMAIN loader.left}

SchedInv ==
    /\ loader.pc \in {"records", "idle"} => \A k \in Keys :
          schedule[k] # NoEntry => schedule[k].expires = config.expires
    /\ loader.pc = "records" => \A k \in Keys :
          config.of[k] \in Records => Scheduled(k) \/ ToCome(k)
    /\ loader.pc = "idle" => \A k \in Keys :
          IF config.of[k] \in Records THEN Scheduled(k) ELSE schedule[k] = NoEntry

(* Every discovery is to come first, and one of those to come is the next. *)
LEMMA HeadOrTail ==
    ASSUME NEW s \in Seq(Keys), s # <<>>
    PROVE  \A j \in DOMAIN s : s[j] = Head(s) \/ \E i \in DOMAIN Tail(s) : s[j] = Tail(s)[i]
<1> SUFFICES ASSUME NEW j \in DOMAIN s, j # 1
             PROVE  \E i \in DOMAIN Tail(s) : s[j] = Tail(s)[i]
  OBVIOUS
<1>1. j \in 1 .. Len(s) /\ j - 1 \in 1 .. (Len(s) - 1)
  OBVIOUS
<1>2. Len(Tail(s)) = Len(s) - 1 /\ DOMAIN Tail(s) = 1 .. (Len(s) - 1)
  OBVIOUS
<1>3. Tail(s)[j - 1] = s[j]
  BY <1>1
<1> QED
  BY <1>1, <1>2, <1>3

LEMMA NextKeepsSchedInv == TypeInv /\ SchedInv /\ [Next]_vars => SchedInv'
<1> SUFFICES ASSUME TypeInv, SchedInv, [Next]_vars PROVE SchedInv'
  OBVIOUS
<1>1. CASE UNCHANGED <<config, loader, schedule>>
  BY <1>1 DEF SchedInv, Scheduled, ToCome
<1>2. CASE Edit \/ LoadCrash
  <2>1. loader'.pc = "due"
    BY <1>2 DEF Edit, LoadCrash, TypeInv, TypeOK
  <2> QED
    BY <2>1 DEF SchedInv
<1>3. CASE LoadStart
  <2>1. UNCHANGED config /\ loader' = [pc |-> "records", left |-> Order]
    BY <1>3 DEF LoadStart
  <2>2. \A k \in Keys : ToCome(k)'
    BY <2>1, DiscoveryAssumption DEF ToCome
  <2>3. \A k \in Keys : schedule'[k] # NoEntry => schedule'[k].expires = config'.expires
    BY <1>3 DEF LoadStart, StoredExpiries
  <2> QED
    BY <2>1, <2>2, <2>3 DEF SchedInv
<1>4. CASE LoadRecord
  <2> DEFINE k == Head(loader.left)
  <2>1. /\ loader.pc = "records" /\ loader.left # <<>> /\ loader.left \in Seq(Keys)
        /\ UNCHANGED config /\ k \in Keys
    BY <1>4 DEF LoadRecord, TypeInv, TypeOK
  <2>2. CASE config.of[k] = Invalid
    BY <1>4, <2>2 DEF LoadRecord, SchedInv
  <2>3. CASE config.of[k] # Invalid
    <3>1. /\ loader'.pc = "records" /\ loader'.left = Tail(loader.left)
          /\ schedule' = IF config.of[k] \in Records
                         THEN [schedule EXCEPT ![k] = Managed(schedule[k], config.of[k])]
                         ELSE schedule
      BY <1>4, <2>3 DEF LoadRecord, TypeInv, TypeOK
    <3>2. \A j \in Keys : ToCome(j) => j = k \/ ToCome(j)'
      BY <2>1, <3>1, HeadOrTail DEF ToCome
    <3>3. \A j \in Keys : j # k => schedule'[j] = schedule[j]
      BY <2>1, <3>1 DEF TypeInv, TypeOK
    <3>4. CASE config.of[k] \in Records
      <4>1. schedule'[k] = Managed(schedule[k], config.of[k])
        BY <2>1, <3>1, <3>4 DEF TypeInv, TypeOK
      <4>2. schedule[k] = NoEntry \/ schedule[k] \in Entries
        BY <2>1 DEF TypeInv, TypeOK
      <4>3. schedule[k] # NoEntry => schedule[k].expires = config.expires
        BY <2>1 DEF SchedInv
      <4>4. config.of[k] # Absent
        BY <3>4, DiscoveryAssumption
      <4>5. /\ schedule'[k] # NoEntry /\ schedule'[k].record = config.of[k]
            /\ schedule'[k].expires = config.expires
        BY <4>1, <4>2, <4>3, <4>4 DEF Managed, NoEntry, Entries
      <4> QED
        BY <2>1, <3>1, <3>2, <3>3, <4>5 DEF SchedInv, Scheduled
    <3>5. CASE config.of[k] \notin Records
      BY <2>1, <3>1, <3>2, <3>5 DEF SchedInv, Scheduled
    <3> QED
      BY <3>4, <3>5
  <2> QED
    BY <2>2, <2>3
<1>5. CASE LoadPrune
  <2>1. loader.pc = "records" /\ loader.left = <<>> /\ loader'.pc = "idle" /\ UNCHANGED config
    BY <1>5 DEF LoadPrune, TypeInv, TypeOK
  <2>2. \A k \in Keys : schedule'[k] = IF config.of[k] \in Records THEN schedule[k] ELSE NoEntry
    BY <1>5 DEF LoadPrune
  <2>3. \A k \in Keys : ~ ToCome(k)
    BY <2>1 DEF ToCome
  <2> QED
    BY <2>1, <2>2, <2>3 DEF SchedInv, Scheduled
<1>6. ASSUME NEW k \in Keys, Fire(k) PROVE SchedInv'
  <2>1. schedule[k] # NoEntry /\ schedule[k] \in Entries /\ UNCHANGED <<config, loader>>
    BY <1>6 DEF Fire, TypeInv, TypeOK
  <2>2. schedule' = [schedule EXCEPT ![k] = [schedule[k] EXCEPT !.due = FALSE]]
    BY <1>6 DEF Fire
  <2>3. /\ schedule'[k].record = schedule[k].record /\ schedule'[k].expires = schedule[k].expires
        /\ schedule'[k] # NoEntry
    <3>1. schedule'[k] \in Entries
      BY <2>1, <2>2 DEF TypeInv, TypeOK, Entries
    <3>2. schedule'[k].record \in Records
      BY <3>1 DEF Entries
    <3> QED
      BY <2>1, <2>2, <3>2, DiscoveryAssumption DEF TypeInv, TypeOK, Entries, NoEntry
  <2>4. \A j \in Keys : j # k => schedule'[j] = schedule[j]
    BY <2>2 DEF TypeInv, TypeOK
  <2> QED
    BY <2>1, <2>3, <2>4 DEF SchedInv, Scheduled, ToCome
<1>7. CASE \/ DeviceChanges
           \/ \E m \in queue : Expire(m) \/ \E w \in Workers : Take(w, m)
           \/ \E w \in Workers : \/ ScanStep(w) \/ WorkerLost(w)
                                \/ \E i \in Ips : RequestLost(w, i)
  <2>1. UNCHANGED <<config, loader, schedule>>
    BY <1>7 DEF DeviceChanges, Expire, Take, ScanStep, StartCheck, Report, Fetch, Ask,
                RequestLost, ReadCsv, WriteCsv, WorkerLost, ScanUnchanged
  <2> QED
    BY <1>1, <2>1
<1>8. CASE UNCHANGED vars
  BY <1>1, <1>8 DEF vars
<1> QED
  BY <1>2, <1>3, <1>4, <1>5, <1>6, <1>7, <1>8 DEF Next, Load

(* However often the job crashes, is repeated or meets a discovery that it *)
(* rejects: when load() has completed, exactly the discoveries of the      *)
(* configuration are scheduled, with its arguments and expiry time.        *)
THEOREM ScheduleFollows == Spec => []ScheduleIsConfiguration
<1>1. Init => SchedInv
  BY DEF Init, SchedInv
<1>2. SchedInv => ScheduleIsConfiguration
  <2> SUFFICES ASSUME SchedInv, loader.pc = "idle", NEW k \in Keys
               PROVE  IF config.of[k] \in Records
                      THEN schedule[k] # NoEntry /\ schedule[k].record = config.of[k]
                                                 /\ schedule[k].expires = config.expires
                      ELSE schedule[k] = NoEntry
    BY DEF ScheduleIsConfiguration
  <2> QED
    BY DEF SchedInv, Scheduled
<1> QED
  BY <1>1, <1>2, InitTypeInv, NextKeepsTypes, NextKeepsSchedInv, PTL DEF Spec
=============================================================================
