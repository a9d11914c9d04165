----------------------------- MODULE WorkChains -----------------------------
(***************************************************************************)
(* The task chains of the Celery workers.  RedBeat fires a schedule entry; *)
(* a worker runs walk or poll (snmp/tasks.py), then enrich                 *)
(* (enrich/tasks.py), and after a walk inventory_setup_poller              *)
(* (inventory/tasks.py), which creates the poll entries of the host.       *)
(* Chains of the same host are not serialised, neither with each other nor *)
(* with the inventory job.  Sending to Splunk, the other branch of the     *)
(* chain, reads and writes none of these stores.                           *)
(***************************************************************************)
EXTENDS ControlState

CONSTANTS
    Chains,        \* slots for chains in flight
    MaxRestarts,   \* bound on restarts of devices
    Idle           \* a free slot

ASSUME MaxRestartsAssumption == MaxRestarts \in Nat

VARIABLES
    chain,         \* the task a chain is waiting for or running, with its locals
    restarts       \* number of device restarts so far

(* Stage "walk" or "poll": the message is queued or its task is running.   *)
(* The other stages are the points of enrich and inventory_setup_poller    *)
(* between two requests to a store.                                        *)
EnrichStages == {"enrich", "restart", "restartSave", "attributes"}
SetupStages == {"setup", "inventory", "schedule", "savePoll"}
Stages == {"walk", "poll"} \cup EnrichStages \cup SetupStages

(* `isWalk': the chain began with a walk; `expires': its kwarg             *)
(* chain_of_tasks_expiry_time; `profiles': the collection as read by the   *)
(* setup; `want' and `left': the periods assigned and those still to be    *)
(* saved; `period' and `read': the entry manage_task is working on.        *)
ActiveChains ==
    [stage : Stages, host : Hosts, isWalk : BOOLEAN, expires : Expiries \cup {NoEntry},
     profiles : ProfileSets, want : SUBSET Periods, left : SUBSET Periods,
     period : Periods \cup {NoEntry}, read : WalkEntries \cup Expiries \cup {NoEntry}]

ASSUME IdleAssumption == Idle \notin ActiveChains

(* What manage_task read belongs to the stage; only a walk is followed by  *)
(* the setup, and a walk brings the expiry time along.                     *)
WellFormedChains ==
    {k \in ActiveChains :
        /\ k.stage = "restartSave" => k.read \in WalkEntries
        /\ k.stage = "savePoll" => k.read \in Expiries \cup {NoEntry} /\ k.period \in Periods
        /\ k.isWalk => k.expires \in Expiries
        /\ k.stage \in SetupStages \cup {"walk"} => k.isWalk}

NewChain(stage, h, exp) ==
    [stage |-> stage, host |-> h, isWalk |-> stage = "walk", expires |-> exp,
     profiles |-> NoProfiles, want |-> {}, left |-> {}, period |-> NoEntry,
     read |-> NoEntry]

ChainsTypeOK ==
    /\ chain \in [Chains -> WellFormedChains \cup {Idle}]
    /\ restarts \in Nat

ChainsInit == chain = [c \in Chains |-> Idle] /\ restarts = 0

AtStage(c, s) == chain[c] # Idle /\ chain[c].stage = s
Store(c, k) == chain' = [chain EXCEPT ![c] = k]
Enter(c, s) == Store(c, [chain[c] EXCEPT !.stage = s])
End(c) == Store(c, Idle)

-----------------------------------------------------------------------------
(* RedBeat puts the message of a due entry into the queue.  Time is not    *)
(* modelled: any entry may be due at any moment.                           *)
FireWalk(c, h) ==
    /\ chain[c] = Idle /\ walkEntry[h] # NoEntry
    /\ Store(c, NewChain("walk", h, walkEntry[h].chainExpires))
    /\ UNCHANGED <<config, mongo, redis, restarts>>

FirePoll(c, h, p) ==
    /\ chain[c] = Idle /\ pollEntry[h][p] # NoEntry
    /\ Store(c, NewChain("poll", h, NoEntry))
    /\ UNCHANGED <<config, mongo, redis, restarts>>

(* walk and poll read the inventory document and query the device; the     *)
(* result goes to enrich.                                                  *)
Collect(c) ==
    /\ AtStage(c, "walk") \/ AtStage(c, "poll")
    /\ inventory[chain[c].host] # NoDoc
    /\ Enter(c, "enrich")
    /\ UNCHANGED <<config, mongo, redis, restarts>>

(* The chain ends without a result: get_inventory raises ValueError when   *)
(* the document is gone, the device does not answer and the retries are    *)
(* used up, or the message expired in the queue.                           *)
GiveUp(c) ==
    /\ AtStage(c, "walk") \/ AtStage(c, "poll")
    /\ End(c)
    /\ UNCHANGED <<config, mongo, redis, restarts>>

(* enrich, check_restart: sysUpTime is written to targets; when it is      *)
(* lower than the value read before, the device has restarted.             *)
EnrichTarget(c) ==
    /\ AtStage(c, "enrich")
    /\ targets' = targets \cup {chain[c].host}
    /\ \/ /\ Enter(c, "attributes")
          /\ UNCHANGED restarts
       \/ /\ chain[c].host \in targets /\ restarts < MaxRestarts
          /\ Enter(c, "restart")
          /\ restarts' = restarts + 1
    /\ UNCHANGED <<config, inventory, groups, profiles, attributes, redis>>

(* Mutant of RestartLoad: the missing entry is not noticed.                *)
RestartLoadUnchecked(c) ==
    /\ AtStage(c, "restart")
    /\ Store(c, [chain[c] EXCEPT !.stage = "restartSave",
                                 !.read = walkEntry[chain[c].host]])
    /\ UNCHANGED <<config, mongo, redis, restarts>>

(* trigger_walk_after_restart: an existing walk entry is read and saved    *)
(* again with run_immediately set; a missing one is left missing.          *)
RestartLoad(c) ==
    /\ AtStage(c, "restart")
    /\ LET read == walkEntry[chain[c].host]
       IN  IF read = NoEntry
           THEN Enter(c, "attributes")
           ELSE Store(c, [chain[c] EXCEPT !.stage = "restartSave", !.read = read])
    /\ UNCHANGED <<config, mongo, redis, restarts>>

RestartSave(c) ==
    /\ AtStage(c, "restartSave")
    /\ walkEntry' = [walkEntry EXCEPT ![chain[c].host] = chain[c].read]
    /\ Store(c, [chain[c] EXCEPT !.stage = "attributes", !.read = NoEntry])
    /\ UNCHANGED <<config, mongo, pollEntry, restarts>>

(* The rest of enrich: the fields of the result are written to attributes, *)
(* the tracked ones to the state of the target too.                        *)
EnrichAttributes(c) ==
    /\ AtStage(c, "attributes")
    /\ attributes' = attributes \cup {chain[c].host}
    /\ targets' = targets \cup {chain[c].host}
    /\ IF chain[c].isWalk THEN Enter(c, "setup") ELSE End(c)
    /\ UNCHANGED <<config, inventory, groups, profiles, redis, restarts>>

-----------------------------------------------------------------------------
(* inventory_setup_poller reads the profiles; an empty collection is read  *)
(* again twice and then taken as it is.                                    *)
SetupReadProfiles(c) ==
    /\ AtStage(c, "setup")
    /\ Store(c, [chain[c] EXCEPT !.stage = "inventory", !.profiles = profiles])
    /\ UNCHANGED <<config, mongo, redis, restarts>>

(* It reads the inventory document and the target and assigns profiles to  *)
(* the record.  A missing document ends the task; so may a missing target, *)
(* which a smart profile with a field condition dereferences.              *)
SetupReadInventory(c) ==
    /\ AtStage(c, "inventory")
    /\ LET h == chain[c].host
           want == Assign[chain[c].profiles][inventory[h].rec]
       IN  \/ /\ inventory[h] # NoDoc
              /\ Store(c, [chain[c] EXCEPT !.stage = "schedule", !.want = want, !.left = want])
           \/ /\ inventory[h] = NoDoc \/ h \notin targets
              /\ End(c)
    /\ UNCHANGED <<config, mongo, redis, restarts>>

(* manage_task for the poll of one of the periods: from_key, then save.    *)
SetupLoadPoll(c, p) ==
    /\ AtStage(c, "schedule") /\ p \in chain[c].left
    /\ Store(c, [chain[c] EXCEPT !.stage = "savePoll", !.left = @ \ {p},
                                 !.period = p, !.read = pollEntry[chain[c].host][p]])
    /\ UNCHANGED <<config, mongo, redis, restarts>>

SetupSavePoll(c) ==
    /\ AtStage(c, "savePoll")
    /\ pollEntry' = [pollEntry EXCEPT ![chain[c].host][chain[c].period] =
                        ManagedPoll(chain[c].read, chain[c].expires)]
    /\ Store(c, [chain[c] EXCEPT !.stage = "schedule", !.period = NoEntry,
                                 !.read = NoEntry])
    /\ UNCHANGED <<config, mongo, walkEntry, restarts>>

(* When all periods are saved the other poll entries are deleted.          *)
SetupPrune(c) ==
    /\ AtStage(c, "schedule") /\ chain[c].left = {}
    /\ pollEntry' = WithoutUnusedPolls(chain[c].host, chain[c].want)
    /\ End(c)
    /\ UNCHANGED <<config, mongo, walkEntry, restarts>>

ChainStep(c) ==
    \/ EnrichTarget(c) \/ RestartLoad(c) \/ RestartSave(c) \/ EnrichAttributes(c)
    \/ SetupReadProfiles(c) \/ SetupReadInventory(c)
    \/ \E p \in Periods : SetupLoadPoll(c, p)
    \/ SetupSavePoll(c) \/ SetupPrune(c)

(* A worker is lost (acks_late, reject_on_worker_lost): the task it ran is *)
(* delivered again and starts over.                                        *)
Redeliver(c) ==
    /\ chain[c] # Idle
    /\ \/ /\ chain[c].stage \in EnrichStages \ {"enrich"}
          /\ Store(c, [chain[c] EXCEPT !.stage = "enrich", !.read = NoEntry])
       \/ /\ chain[c].stage \in SetupStages \ {"setup"}
          /\ Store(c, [chain[c] EXCEPT !.stage = "setup", !.profiles = NoProfiles,
                                       !.want = {}, !.left = {}, !.period = NoEntry,
                                       !.read = NoEntry])
    /\ UNCHANGED <<config, mongo, redis, restarts>>
=============================================================================
