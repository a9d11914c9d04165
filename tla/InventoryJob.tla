---------------------------- MODULE InventoryJob ----------------------------
(***************************************************************************)
(* The inventory job (inventory/loader.py, common/inventory_processor.py): *)
(* load() brings the inventory collection and the walk schedules in line   *)
(* with the configuration.  Every call that changes a store is an action   *)
(* of its own (a deletion of several keys or documents is one call), so    *)
(* that a crash or a step of a worker can come between any two of them.    *)
(* The job is a Kubernetes Job with restartPolicy OnFailure: after a       *)
(* crash, or after a run that logged an exception for a record (exit code  *)
(* 1), it is started again.                                                *)
(***************************************************************************)
EXTENDS ControlState

CONSTANT MaxFaults   \* bound on crashes, lost workers and failing records

ASSUME MaxFaultsAssumption == MaxFaults \in Nat

VARIABLES
    job,      \* the process: program counter and local variables of load()
    jobDue,   \* a run is requested, or the last one has to be repeated
    faults    \* number of faults so far

JobPcs == {"idle", "expiry", "dropWalks", "dropPolls", "clearProfiles",
           "fillProfiles", "clearGroups", "fillGroups", "records",
           "dropInventory", "dropTargets", "dropAttributes", "load", "save"}

(* expiry_time_changed, previous_groups, hosts_from_groups_to_delete, the  *)
(* lines still to be processed, the current one, the entry manage_task has *)
(* read, and inventory_errors.                                             *)
IdleJob == [pc |-> "idle", changed |-> FALSE, previous |-> [g \in Groups |-> {}],
            doomed |-> {}, todo |-> {}, line |-> NoLine, read |-> NoEntry,
            errors |-> FALSE]

(* In the middle of a record the job knows which line it is working on.    *)
JobTypeOK ==
    /\ job \in [pc : JobPcs, changed : BOOLEAN, previous : [Groups -> SUBSET Hosts],
                doomed : SUBSET Hosts, todo : SUBSET Lines, line : Lines \cup {NoLine},
                read : WalkEntries \cup {NoEntry}, errors : BOOLEAN]
    /\ job.pc \in {"dropInventory", "dropTargets", "dropAttributes", "load", "save"}
         => job.line \in Lines
    /\ job.pc \in {"load", "save"} => job.line.what \in Records
    /\ jobDue \in BOOLEAN
    /\ faults \in Nat

JobInit == job = IdleJob /\ jobDue = FALSE /\ faults = 0

At(l) == job.pc = l
Goto(l) == job' = [job EXCEPT !.pc = l]

-----------------------------------------------------------------------------
JobStart ==
    /\ At("idle") /\ jobDue
    /\ Goto("expiry")
    /\ UNCHANGED <<config, mongo, redis, jobDue, faults>>

(* did_expiry_time_change compares the `expires' of all walk and poll      *)
(* entries with the setting ...                                            *)
JobCheckExpiry ==
    /\ At("expiry")
    /\ LET changed == StoredExpiries # {} /\ StoredExpiries # {expiry}
       IN  job' = [job EXCEPT !.changed = changed,
                              !.pc = IF changed THEN "dropWalks" ELSE "clearProfiles"]
    /\ UNCHANGED <<config, mongo, redis, jobDue, faults>>

(* ... and, when they differ, deletes the walks of all hosts, then the     *)
(* polls, because manage_task never updates the options of an entry.       *)
JobDropWalks ==
    /\ At("dropWalks")
    /\ walkEntry' = [h \in Hosts |-> NoEntry]
    /\ Goto("dropPolls")
    /\ UNCHANGED <<config, mongo, pollEntry, jobDue, faults>>

JobDropPolls ==
    /\ At("dropPolls")
    /\ pollEntry' = [h \in Hosts |-> NoPolls]
    /\ Goto("clearProfiles")
    /\ UNCHANGED <<config, mongo, walkEntry, jobDue, faults>>

(* previous_groups is read, then update_all replaces profiles and groups.  *)
(* delete_many and insert_many are not given the session, so the           *)
(* transaction around them covers neither: others see the gap.             *)
JobClearProfiles ==
    /\ At("clearProfiles")
    /\ profiles' = NoProfiles
    /\ job' = [job EXCEPT !.pc = "fillProfiles", !.previous = groups]
    /\ UNCHANGED <<config, inventory, groups, targets, attributes, redis, jobDue, faults>>

JobFillProfiles ==
    /\ At("fillProfiles")
    /\ profiles' = profilesFile
    /\ Goto("clearGroups")
    /\ UNCHANGED <<config, inventory, groups, targets, attributes, redis, jobDue, faults>>

JobClearGroups ==
    /\ At("clearGroups")
    /\ groups' = [g \in Groups |-> {}]
    /\ Goto("fillGroups")
    /\ UNCHANGED <<config, inventory, profiles, targets, attributes, redis, jobDue, faults>>

(* After the groups are stored the job reads them back and computes the    *)
(* lines to process and the hosts that left a group.                       *)
JobFillGroups ==
    /\ At("fillGroups")
    /\ groups' = groupsFile
    /\ job' = [job EXCEPT !.pc = "records",
                          !.doomed = LeftGroups(job.previous, groupsFile),
                          !.todo = PlannedLines(lines, groupsFile)]
    /\ UNCHANGED <<config, inventory, profiles, targets, attributes, redis, jobDue, faults>>

-----------------------------------------------------------------------------
(* InventoryRecordManager.delete, for the hosts that left a group first    *)
(* and then for the lines with delete=true: schedules, inventory, targets, *)
(* attributes.                                                             *)
JobDropSchedules(l) ==
    /\ At("records")
    /\ \/ /\ l.host \in job.doomed
          /\ l = [host |-> l.host, what |-> Delete, group |-> NoGroup]
          /\ job' = [job EXCEPT !.pc = "dropInventory", !.line = l]
       \/ /\ job.doomed = {} /\ l \in job.todo /\ l.what = Delete
          /\ job' = [job EXCEPT !.pc = "dropInventory", !.line = l, !.todo = @ \ {l}]
    /\ walkEntry' = WithoutWalksOf(l.host)
    /\ pollEntry' = WithoutPollsOf(l.host)
    /\ UNCHANGED <<config, mongo, jobDue, faults>>

JobDropInventory ==
    /\ At("dropInventory")
    /\ inventory' = [inventory EXCEPT ![job.line.host] = NoDoc]
    /\ Goto("dropTargets")
    /\ UNCHANGED <<config, groups, profiles, targets, attributes, redis, jobDue, faults>>

JobDropTargets ==
    /\ At("dropTargets")
    /\ targets' = targets \ {job.line.host}
    /\ Goto("dropAttributes")
    /\ UNCHANGED <<config, inventory, groups, profiles, attributes, redis, jobDue, faults>>

JobDropAttributes ==
    /\ At("dropAttributes")
    /\ attributes' = attributes \ {job.line.host}
    /\ job' = [job EXCEPT !.pc = "records", !.line = NoLine, !.doomed = @ \ {job.line.host}]
    /\ UNCHANGED <<config, inventory, groups, profiles, targets, redis, jobDue, faults>>

(* Mutant of JobUpsert: an unchanged record never gets its walk task back. *)
JobUpsertTrustsWalk(l) ==
    /\ At("records") /\ job.doomed = {}
    /\ l \in job.todo /\ l.what # Delete
    /\ LET doc == [rec |-> l.what, group |-> l.group]
           register == inventory[l.host] # doc \/ job.changed
       IN  /\ inventory' = [inventory EXCEPT ![l.host] = doc]
           /\ job' = [job EXCEPT !.todo = @ \ {l},
                                 !.pc = IF register THEN "load" ELSE "records",
                                 !.line = IF register THEN l ELSE NoLine]
    /\ UNCHANGED <<config, groups, profiles, targets, attributes, redis, jobDue, faults>>

(* InventoryRecordManager.update: upsert the document; the walk task is    *)
(* (re)created when the document is new or modified, and for an unchanged  *)
(* one only when the expiry time changed or its walk task is missing,      *)
(* whatever walk profile the configuration has for it by now.              *)
JobUpsert(l) ==
    /\ At("records") /\ job.doomed = {}
    /\ l \in job.todo /\ l.what # Delete
    /\ LET doc == [rec |-> l.what, group |-> l.group]
           register == \/ inventory[l.host] # doc
                       \/ job.changed
                       \/ walkEntry[l.host] = NoEntry
       IN  /\ inventory' = [inventory EXCEPT ![l.host] = doc]
           /\ job' = [job EXCEPT !.todo = @ \ {l},
                                 !.pc = IF register THEN "load" ELSE "records",
                                 !.line = IF register THEN l ELSE NoLine]
    /\ UNCHANGED <<config, groups, profiles, targets, attributes, redis, jobDue, faults>>

(* manage_task for the walk of the current line: from_key, then save.  Its *)
(* walk profile is that of the profiles this run has stored.               *)
JobLoadWalk ==
    /\ At("load")
    /\ job' = [job EXCEPT !.pc = "save", !.read = walkEntry[job.line.host]]
    /\ UNCHANGED <<config, mongo, redis, jobDue, faults>>

JobSaveWalk ==
    /\ At("save")
    /\ walkEntry' = [walkEntry EXCEPT ![job.line.host] =
                        ManagedWalk(job.read, job.line.what,
                                    WalkProfileOf[profilesFile][job.line.what], expiry)]
    /\ job' = [job EXCEPT !.pc = "records", !.line = NoLine, !.read = NoEntry]
    /\ UNCHANGED <<config, mongo, pollEntry, jobDue, faults>>

(* load() returns; with inventory_errors the process exits with 1 and is   *)
(* started again.                                                          *)
JobFinish ==
    /\ At("records") /\ job.doomed = {} /\ job.todo = {}
    /\ job' = IdleJob
    /\ jobDue' = job.errors
    /\ UNCHANGED <<config, mongo, redis, faults>>

-----------------------------------------------------------------------------
(* The process dies: its local variables are lost and it starts again.     *)
JobCrash ==
    /\ ~At("idle") /\ faults < MaxFaults
    /\ job' = IdleJob
    /\ faults' = faults + 1
    /\ UNCHANGED <<config, mongo, redis, jobDue>>

(* An exception while an inventory line is processed, before its upsert or *)
(* first deletion, between the deletions or in manage_task, is logged and  *)
(* the job goes on with the next line.  The deletion of hosts that left a  *)
(* group is outside the try: there it ends the process, as JobCrash does.  *)
JobRecordFails ==
    /\ faults < MaxFaults
    /\ \/ /\ At("records") /\ job.doomed = {}
          /\ \E l \in job.todo : job' = [job EXCEPT !.todo = @ \ {l}, !.errors = TRUE]
       \/ /\ job.pc \in {"dropInventory", "dropTargets", "dropAttributes", "load", "save"}
          /\ job.doomed = {}
          /\ job' = [job EXCEPT !.pc = "records", !.line = NoLine,
                                !.read = NoEntry, !.errors = TRUE]
    /\ faults' = faults + 1
    /\ UNCHANGED <<config, mongo, redis, jobDue>>

JobStep ==
    \/ JobStart \/ JobCheckExpiry \/ JobDropWalks \/ JobDropPolls
    \/ JobClearProfiles \/ JobFillProfiles \/ JobClearGroups \/ JobFillGroups
    \/ \E l \in Lines : JobDropSchedules(l) \/ JobUpsert(l)
    \/ JobDropInventory \/ JobDropTargets \/ JobDropAttributes
    \/ JobLoadWalk \/ JobSaveWalk \/ JobFinish
=============================================================================
