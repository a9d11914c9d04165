--------------------------- MODULE PollingControl ---------------------------
(***************************************************************************)
(* The control plane of polling: the administrator edits the configuration *)
(* and requests a run of the inventory job, the job and the workers'       *)
(* chains run concurrently over MongoDB and Redis.                         *)
(***************************************************************************)
EXTENDS InventoryJob, WorkChains

CONSTANT MaxEdits    \* bound on edits of the configuration

ASSUME MaxEditsAssumption == MaxEdits \in Nat

VARIABLES
    edits,   \* number of edits so far
    raced,   \* history: hosts whose last deletion overlapped a chain that
             \* was writing schedule entries of the host
    behind   \* history: hosts whose walk entry had no chance to follow

history == <<raced, behind>>
vars == <<config, mongo, redis, job, jobDue, faults, chain, restarts, edits, history>>

-----------------------------------------------------------------------------
(* An edit followed by `helm upgrade': the administrator waits until the   *)
(* inventory job is gone (docs/configuration/inventory.md) and then edits  *)
(* an inventory line, a group, the profiles or the expiry time.  Writing   *)
(* back the old value is a run of the job without a change.                *)
EditConfiguration ==
    /\ At("idle") /\ edits < MaxEdits
    /\ \/ /\ \E x \in Hosts \cup Groups, v \in Records \cup {Absent, Delete} :
                lines' = [lines EXCEPT ![x] = v]
          /\ UNCHANGED <<groupsFile, profilesFile, expiry>>
       \/ /\ \E g \in Groups, s \in SUBSET Hosts :
                groupsFile' = [groupsFile EXCEPT ![g] = s]
          /\ UNCHANGED <<lines, profilesFile, expiry>>
       \/ /\ \E ps \in ProfileSets \ {NoProfiles} : profilesFile' = ps
          /\ UNCHANGED <<lines, groupsFile, expiry>>
       \/ /\ \E e \in Expiries : expiry' = e
          /\ UNCHANGED <<lines, groupsFile, profilesFile>>
    /\ edits' = edits + 1
    /\ jobDue' = TRUE
    /\ UNCHANGED <<mongo, redis, job, faults, chain, restarts>>

(* A chain is past its last look at the inventory document of its host and *)
(* has still to write schedule entries of the host.                        *)
Writing(c, h) ==
    /\ chain[c] # Idle
    /\ chain[c].host = h
    /\ chain[c].stage \in {"restartSave", "schedule", "savePoll"}

(* The job has deleted the schedules of h and not yet its document.        *)
Unscheduled(h) == At("dropInventory") /\ job.line.host = h

Overlapped == {h \in Hosts : Unscheduled(h) /\ \E c \in Chains : Writing(c, h)}

(* A deletion that begins forgets how the one before went.                 *)
RecordRaces ==
    raced' = {h \in raced : Unscheduled(h)' => Unscheduled(h)} \cup Overlapped'

(* The walk entry of a host is left behind when an edit of the profiles    *)
(* gives its stored record another walk profile, when a run is cut short   *)
(* or the record fails between storing it and saving the walk, and when    *)
(* the task that noticed a restart saves what it read before; until the    *)
(* job saves the entry or it is deleted.                                   *)
RecordBehind ==
    LET edited == {h \in Hosts : inventory[h] # NoDoc /\
                        WalkProfileOf[profilesFile'][inventory[h].rec]
                            # WalkProfileOf[profilesFile][inventory[h].rec]}
        registering == {h \in Hosts : job.pc \in {"load", "save"} /\ job.line.host = h
                                         /\ job'.pc \notin {"load", "save"}}
        saved == IF faults' = faults THEN registering ELSE {}
        restored == {h \in Hosts : job' = job /\ walkEntry'[h] # walkEntry[h]}
    IN  behind' = {h \in (behind \cup edited \cup registering \cup restored) \ saved :
                      walkEntry'[h] # NoEntry}

RecordHistory == RecordRaces /\ RecordBehind

Init ==
    /\ StoresInit /\ JobInit /\ ChainsInit
    /\ edits = 0
    /\ raced = {} /\ behind = {}

JobAction ==
    /\ JobStep \/ JobCrash \/ JobRecordFails
    /\ UNCHANGED <<chain, restarts, edits>>

(* A chain in slot c: fired by RedBeat, collecting, enriching, setting up. *)
ChainAction(c) ==
    /\ \/ \E h \in Hosts : FireWalk(c, h) \/ \E p \in Periods : FirePoll(c, h, p)
       \/ Collect(c) \/ GiveUp(c) \/ ChainStep(c)
    /\ UNCHANGED <<job, jobDue, faults, edits>>

WorkerLost(c) ==
    /\ faults < MaxFaults
    /\ Redeliver(c)
    /\ faults' = faults + 1
    /\ UNCHANGED <<job, jobDue, edits>>

Next ==
    /\ \/ EditConfiguration
       \/ JobAction
       \/ \E c \in Chains : ChainAction(c) \/ WorkerLost(c)
    /\ RecordHistory

Spec == Init /\ [][Next]_vars

(* Kubernetes runs the job to its end; RedBeat fires the walk of every     *)
(* host again and again; queued tasks are executed; a host that is walked  *)
(* again and again answers again and again.                                *)
Fairness ==
    /\ WF_vars(JobStep /\ UNCHANGED <<chain, restarts, edits>> /\ RecordHistory)
    /\ \A h \in Hosts : SF_vars(\E c \in Chains :
            FireWalk(c, h) /\ UNCHANGED <<job, jobDue, faults, edits>> /\ RecordHistory)
    /\ \A h \in Hosts : SF_vars(\E c \in Chains :
            /\ AtStage(c, "walk") /\ chain[c].host = h
            /\ Collect(c) /\ UNCHANGED <<job, jobDue, faults, edits>> /\ RecordHistory)
    /\ \A c \in Chains :
        /\ WF_vars(ChainStep(c) /\ UNCHANGED <<job, jobDue, faults, edits>> /\ RecordHistory)
        /\ WF_vars((Collect(c) \/ GiveUp(c))
                     /\ UNCHANGED <<job, jobDue, faults, edits>> /\ RecordHistory)

FairSpec == Spec /\ Fairness

-----------------------------------------------------------------------------
(* The configuration, the stores, the job and the chains have values of    *)
(* their types.                                                            *)
TypeOK ==
    /\ ConfigTypeOK /\ StoresTypeOK /\ JobTypeOK /\ ChainsTypeOK
    /\ edits \in Nat
    /\ raced \in SUBSET Hosts /\ behind \in SUBSET Hosts

Scheduled(h) == walkEntry[h] # NoEntry \/ pollEntry[h] # NoPolls

(* The last requested run of the inventory job has completed.              *)
Applied == At("idle") /\ ~jobDue

Planned == PlannedLines(lines, groupsFile)
OnlyLineOf(h, l) == l \in Planned /\ {k \in Planned : k.host = h} = {l}

(* InventoryRecordManager.delete against the chains: a host without an     *)
(* inventory document has no schedule entry, unless a chain was writing    *)
(* its entries during the deletion.  Nothing else, no crash of the job, no *)
(* redelivery and no other order of steps, brings the schedules of a       *)
(* deleted host back.                                                      *)
DeletedHostIsSilent ==
    \A h \in Hosts : inventory[h] = NoDoc /\ h \notin raced => ~Scheduled(h)

(* load() as a whole, with crashes and repetitions: when it has completed, *)
(* every host with one line in the inventory has the document of that line *)
(* and a walk entry, and a host whose line says delete has no document.    *)
NoHostForgotten ==
    Applied => \A l \in Lines : OnlyLineOf(l.host, l) =>
        IF l.what = Delete
        THEN inventory[l.host] = NoDoc
        ELSE /\ inventory[l.host] = [rec |-> l.what, group |-> l.group]
             /\ walkEntry[l.host] # NoEntry

(* did_expiry_time_change, with crashes and repetitions: when the job has  *)
(* completed every walk entry has the configured expiry time, although     *)
(* manage_task never updates the options of an entry; only the task that   *)
(* noticed a restart of a device may save one it read before.              *)
WalkExpiryApplied ==
    Applied /\ restarts = 0 => \A h \in Hosts :
        walkEntry[h] # NoEntry => walkEntry[h].expires = expiry

(* return_hosts_from_deleted_groups: when the job has completed, a         *)
(* document that came from a group belongs to a member of the group,       *)
(* unless a run was cut short between replacing the groups and deleting    *)
(* the hosts: who left is only in its memory.                              *)
NoStrayGroupMember ==
    Applied /\ faults = 0 => \A h \in Hosts, g \in Groups :
        inventory[h] # NoDoc /\ inventory[h].group = g => h \in groupsFile[g]

(* InventoryRecordManager.update and manage_task, which read and save in   *)
(* separate requests, with crashes, failing records and restart tasks:     *)
(* when the job has completed, the walk entry of a host has the interval   *)
(* of its record and the walk profile that the configured profiles give    *)
(* it, except in the three cases of RecordBehind.  In those the repeated   *)
(* or next run finds the record unchanged and leaves the entry as it is.   *)
WalkFollowsInventory ==
    Applied => \A h \in Hosts \ behind :
        inventory[h] # NoDoc /\ walkEntry[h] # NoEntry =>
            /\ walkEntry[h].rec = inventory[h].rec
            /\ walkEntry[h].profile = WalkProfileOf[profilesFile][inventory[h].rec]

(* delete_unused_poll_tasks: setting up one host leaves the poll entries,  *)
(* hence the polling frequencies, of every other host alone.               *)
SetupMindsItsHost ==
    [][\A c \in Chains : SetupPrune(c) =>
            \A h \in Hosts \ {chain[c].host} : pollEntry'[h] = pollEntry[h]]_vars

(* The chain walk - enrich - inventory_setup_poller: a host in the         *)
(* inventory is eventually and then for ever polled with exactly the       *)
(* frequencies that its record and the configured profiles assign.         *)
EventuallyPolled ==
    \A h \in Hosts :
        <>[](\A l \in Lines : OnlyLineOf(h, l) /\ l.what # Delete =>
                {p \in Periods : pollEntry[h][p] # NoEntry}
                    = Assign[profilesFile][l.what])
=============================================================================
