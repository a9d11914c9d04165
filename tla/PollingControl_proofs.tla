----------------------- MODULE PollingControl_proofs -----------------------
(***************************************************************************)
(* Theorems about PollingControl, for any hosts, groups, records, profile  *)
(* sets, expiry times, any number of chains in flight and any bounds:      *)
(* the type invariant; that the schedules of a deleted host stay deleted   *)
(* unless a chain was writing them; and what a completed inventory job     *)
(* achieves: no host forgotten, no walk with an old expiry time, no walk   *)
(* with an old record or walk profile but for three reasons, no former     *)
(* member of a group; and for which reasons a poll entry disappears.       *)
(***************************************************************************)
EXTENDS PollingControl, TLAPS

USE DEF config, mongo, redis

-----------------------------------------------------------------------------
(* Type correctness.                                                       *)

(* The expanded inventory consists of well-formed lines: every host keeps  *)
(* the content of its group's line or of its own line.                     *)
LEMMA PlannedLinesType ==
    ASSUME NEW file \in [Hosts \cup Groups -> Records \cup {Absent, Delete}],
           NEW members \in [Groups -> SUBSET Hosts]
    PROVE  PlannedLines(file, members) \in SUBSET Lines
BY DEF PlannedLines, Lines

(* Hosts that leave groups are hosts.                                      *)
LEMMA LeftGroupsType ==
    ASSUME NEW before \in [Groups -> SUBSET Hosts],
           NEW after \in [Groups -> SUBSET Hosts]
    PROVE  LeftGroups(before, after) \in SUBSET Hosts
BY DEF LeftGroups

(* manage_task keeps walk and poll entries well formed.                    *)
LEMMA ManagedTypes ==
    ASSUME NEW exp \in Expiries
    PROVE  /\ \A read \in WalkEntries \cup {NoEntry}, r \in Records, profile \in WalkProfiles :
                ManagedWalk(read, r, profile, exp) \in WalkEntries
           /\ \A read \in Expiries \cup {NoEntry} : ManagedPoll(read, exp) \in Expiries
BY DEF ManagedWalk, ManagedPoll, WalkEntries

(* Deleting entries keeps the store of entries well formed.                *)
LEMMA DeletionTypes ==
    ASSUME StoresTypeOK, NEW h \in Hosts, NEW active \in SUBSET Periods
    PROVE  /\ WithoutWalksOf(h) \in [Hosts -> WalkEntries \cup {NoEntry}]
           /\ WithoutPollsOf(h) \in [Hosts -> [Periods -> Expiries \cup {NoEntry}]]
           /\ WithoutUnusedPolls(h, active) \in [Hosts -> [Periods -> Expiries \cup {NoEntry}]]
BY DEF StoresTypeOK, WithoutWalksOf, WithoutPollsOf, WithoutUnusedPolls, NoPolls

(* Before the first installation every store has a value of its type.     *)
LEMMA InitTypeOK == Init => TypeOK
<1> SUFFICES ASSUME Init PROVE TypeOK
  OBVIOUS
<1>1. ConfigTypeOK
  BY DEF Init, StoresInit, ConfigTypeOK
<1>2. StoresTypeOK
  BY AssignAssumption DEF Init, StoresInit, StoresTypeOK
<1>3. JobTypeOK
  BY DEF Init, JobInit, JobTypeOK, IdleJob, JobPcs
<1>4. ChainsTypeOK
  BY DEF Init, ChainsInit, ChainsTypeOK
<1>5. edits \in Nat /\ raced \in SUBSET Hosts /\ behind \in SUBSET Hosts
  BY DEF Init
<1> QED
  BY <1>1, <1>2, <1>3, <1>4, <1>5 DEF TypeOK

(* Every step of the inventory job keeps the types.                        *)
LEMMA JobKeepsTypes ==
    ASSUME TypeOK, JobStep
    PROVE  StoresTypeOK' /\ JobTypeOK'
<1> USE DEF TypeOK, ConfigTypeOK, StoresTypeOK, JobTypeOK, JobPcs, At, Goto
<1>1. CASE JobStart
  BY <1>1 DEF JobStart
<1>2. CASE JobCheckExpiry
  BY <1>2 DEF JobCheckExpiry
<1>3. CASE JobDropWalks
  BY <1>3 DEF JobDropWalks
<1>4. CASE JobDropPolls
  BY <1>4 DEF JobDropPolls, NoPolls
<1>5. CASE JobClearProfiles
  BY <1>5, AssignAssumption DEF JobClearProfiles
<1>6. CASE JobFillProfiles
  BY <1>6 DEF JobFillProfiles
<1>7. CASE JobClearGroups
  BY <1>7 DEF JobClearGroups
<1>8. CASE JobFillGroups
  BY <1>8, PlannedLinesType, LeftGroupsType DEF JobFillGroups
<1>9. ASSUME NEW l \in Lines, JobDropSchedules(l)
      PROVE  StoresTypeOK' /\ JobTypeOK'
  <2>1. l.host \in Hosts
    BY DEF Lines
  <2>2. StoresTypeOK'
    BY <1>9, <2>1, DeletionTypes DEF JobDropSchedules
  <2>3. PICK t \in SUBSET Lines :
           job' = [job EXCEPT !.pc = "dropInventory", !.line = l, !.todo = t]
    <3>1. job.todo \ {l} \in SUBSET Lines
      OBVIOUS
    <3>2. CASE job' = [job EXCEPT !.pc = "dropInventory", !.line = l]
      <4>1. job' = [job EXCEPT !.pc = "dropInventory", !.line = l, !.todo = job.todo]
        BY <3>2
      <4> QED
        BY <4>1
    <3>3. CASE job' = [job EXCEPT !.pc = "dropInventory", !.line = l, !.todo = @ \ {l}]
      <4>1. job' = [job EXCEPT !.pc = "dropInventory", !.line = l, !.todo = job.todo \ {l}]
        BY <3>3
      <4> QED
        BY <3>1, <4>1
    <3> QED
      BY <1>9, <3>2, <3>3 DEF JobDropSchedules
  <2>4. JobTypeOK'
    <3>1. UNCHANGED <<jobDue, faults>>
      BY <1>9 DEF JobDropSchedules
    <3>2. /\ job' \in [pc : JobPcs, changed : BOOLEAN, previous : [Groups -> SUBSET Hosts],
                       doomed : SUBSET Hosts, todo : SUBSET Lines, line : Lines \cup {NoLine},
                       read : WalkEntries \cup {NoEntry}, errors : BOOLEAN]
          /\ job'.pc = "dropInventory" /\ job'.line = l
      BY <2>3
    <3> QED
      BY <3>1, <3>2
  <2> QED
    BY <2>2, <2>4
<1>10. ASSUME NEW l \in Lines, JobUpsert(l)
       PROVE  StoresTypeOK' /\ JobTypeOK'
  BY <1>10 DEF JobUpsert, Lines, Docs
<1>11. CASE JobDropInventory
  BY <1>11 DEF JobDropInventory
<1>12. CASE JobDropTargets
  BY <1>12 DEF JobDropTargets
<1>13. CASE JobDropAttributes
  <2>1. job' = [job EXCEPT !.pc = "records", !.line = NoLine,
                           !.doomed = job.doomed \ {job.line.host}]
    BY <1>13 DEF JobDropAttributes
  <2>2. UNCHANGED <<jobDue, faults>> /\ StoresTypeOK'
    BY <1>13 DEF JobDropAttributes
  <2> QED
    BY <2>1, <2>2
<1>14. CASE JobLoadWalk
  BY <1>14 DEF JobLoadWalk, Lines
<1>15. CASE JobSaveWalk
  <2> DEFINE saved == ManagedWalk(job.read, job.line.what,
                                  WalkProfileOf[profilesFile][job.line.what], expiry)
  <2>1. job.line.what \in Records /\ WalkProfileOf[profilesFile][job.line.what] \in WalkProfiles
    BY <1>15, WalkProfileAssumption DEF JobSaveWalk
  <2>2. saved \in WalkEntries
    BY <2>1, ManagedTypes
  <2>3. walkEntry' = [walkEntry EXCEPT ![job.line.host] = saved]
    BY <1>15 DEF JobSaveWalk
  <2> HIDE DEF saved
  <2>4. /\ UNCHANGED <<config, mongo, pollEntry, jobDue, faults>>
        /\ job' = [job EXCEPT !.pc = "records", !.line = NoLine, !.read = NoEntry]
    BY <1>15 DEF JobSaveWalk
  <2>5. StoresTypeOK'
    BY <2>2, <2>3, <2>4
  <2>6. JobTypeOK'
    BY <2>4
  <2> QED
    BY <2>5, <2>6
<1>16. CASE JobFinish
  BY <1>16 DEF JobFinish, IdleJob
<1> QED
  BY <1>1, <1>2, <1>3, <1>4, <1>5, <1>6, <1>7, <1>8, <1>9, <1>10, <1>11, <1>12,
     <1>13, <1>14, <1>15, <1>16 DEF JobStep

(* A crash of the job and an exception for a record keep the types.        *)
LEMMA JobFaultsKeepTypes ==
    ASSUME TypeOK, JobCrash \/ JobRecordFails
    PROVE  StoresTypeOK' /\ JobTypeOK'
<1> USE DEF TypeOK, ConfigTypeOK, StoresTypeOK, JobTypeOK, JobPcs, At
<1>1. CASE JobCrash
  BY <1>1 DEF JobCrash, IdleJob
<1>2. CASE JobRecordFails
  <2>1. StoresTypeOK' /\ jobDue' \in BOOLEAN /\ faults' \in Nat
    <3>1. UNCHANGED <<config, mongo, redis, jobDue>> /\ faults' = faults + 1
      BY <1>2 DEF JobRecordFails
    <3> QED
      BY <3>1
  <2>2. CASE \E l \in job.todo : job' = [job EXCEPT !.todo = @ \ {l}, !.errors = TRUE]
    <3>1. PICK l \in job.todo : job' = [job EXCEPT !.todo = @ \ {l}, !.errors = TRUE]
      BY <2>2
    <3>2. job' = [job EXCEPT !.todo = job.todo \ {l}, !.errors = TRUE]
      BY <3>1
    <3> QED
      BY <2>1, <3>2
  <2>3. CASE job' = [job EXCEPT !.pc = "records", !.line = NoLine, !.read = NoEntry,
                                !.errors = TRUE]
    BY <2>1, <2>3
  <2> QED
    BY <1>2, <2>2, <2>3 DEF JobRecordFails
<1> QED
  BY <1>1, <1>2

(* Writing a well-formed chain into a slot keeps the slots well formed.    *)
LEMMA StoreType ==
    ASSUME ChainsTypeOK, NEW c \in Chains, NEW k \in WellFormedChains \cup {Idle},
           Store(c, k), restarts' \in Nat
    PROVE  ChainsTypeOK'
BY DEF ChainsTypeOK, Store

(* Every step of a chain keeps its slot well formed.                       *)
LEMMA ChainKeepsSlots ==
    ASSUME TypeOK, NEW c \in Chains,
           \/ \E h \in Hosts : FireWalk(c, h) \/ \E p \in Periods : FirePoll(c, h, p)
           \/ Collect(c) \/ GiveUp(c) \/ ChainStep(c) \/ Redeliver(c)
    PROVE  ChainsTypeOK'
<1> USE AssignAssumption DEF TypeOK, StoresTypeOK
<1>1. chain[c] # Idle => chain[c] \in WellFormedChains
  BY DEF ChainsTypeOK
<1>2. restarts \in Nat /\ restarts' \in Nat
  <2>1. restarts \in Nat
    BY DEF ChainsTypeOK
  <2>2. restarts' \in {restarts, restarts + 1}
    BY DEF ChainStep, FireWalk, FirePoll, Collect, GiveUp, EnrichTarget, RestartLoad,
           RestartSave, EnrichAttributes, SetupReadProfiles, SetupReadInventory,
           SetupLoadPoll, SetupSavePoll, SetupPrune, Redeliver
  <2> QED
    BY <2>1, <2>2
<1>3. ASSUME NEW k \in WellFormedChains \cup {Idle}, Store(c, k)
      PROVE  ChainsTypeOK'
  BY <1>2, <1>3, StoreType
<1> USE DEF AtStage, Enter, End, Stages, EnrichStages, SetupStages
<1>4. ASSUME NEW h \in Hosts, FireWalk(c, h)
      PROVE  ChainsTypeOK'
  <2>1. NewChain("walk", h, walkEntry[h].chainExpires) \in WellFormedChains
    BY <1>4 DEF FireWalk, NewChain, WellFormedChains, ActiveChains, WalkEntries
  <2> QED
    BY <1>3, <1>4, <2>1 DEF FireWalk
<1>5. ASSUME NEW h \in Hosts, NEW p \in Periods, FirePoll(c, h, p)
      PROVE  ChainsTypeOK'
  <2>1. NewChain("poll", h, NoEntry) \in WellFormedChains
    BY DEF NewChain, WellFormedChains, ActiveChains
  <2> QED
    BY <1>3, <1>5, <2>1 DEF FirePoll
<1>6. ASSUME chain[c] # Idle,
             NEW s \in {"enrich", "restart", "attributes"}
      PROVE  [chain[c] EXCEPT !.stage = s] \in WellFormedChains
  BY <1>1, <1>6 DEF WellFormedChains, ActiveChains
<1>7. CASE Collect(c)
  BY <1>3, <1>6, <1>7 DEF Collect
<1>8. CASE GiveUp(c)
  BY <1>3, <1>8 DEF GiveUp
<1>9. CASE EnrichTarget(c)
  BY <1>3, <1>6, <1>9 DEF EnrichTarget
<1>10. CASE RestartLoad(c)
  <2>1. CASE walkEntry[chain[c].host] = NoEntry
    BY <1>3, <1>6, <1>10, <2>1 DEF RestartLoad
  <2>2. CASE walkEntry[chain[c].host] # NoEntry
    <3> DEFINE k == [chain[c] EXCEPT !.stage = "restartSave",
                                     !.read = walkEntry[chain[c].host]]
    <3>1. walkEntry[chain[c].host] \in WalkEntries
      BY <1>1, <1>10, <2>2 DEF RestartLoad, WellFormedChains, ActiveChains
    <3>2. k \in WellFormedChains
      BY <1>1, <1>10, <3>1 DEF RestartLoad, WellFormedChains, ActiveChains
    <3> QED
      BY <1>3, <1>10, <2>2, <3>2 DEF RestartLoad
  <2> QED
    BY <2>1, <2>2
<1>11. CASE RestartSave(c)
  <2>1. [chain[c] EXCEPT !.stage = "attributes", !.read = NoEntry] \in WellFormedChains
    BY <1>1, <1>11 DEF RestartSave, WellFormedChains, ActiveChains
  <2> QED
    BY <1>3, <1>11, <2>1 DEF RestartSave
<1>12. CASE EnrichAttributes(c)
  <2>1. chain[c].isWalk => [chain[c] EXCEPT !.stage = "setup"] \in WellFormedChains
    BY <1>1, <1>12 DEF EnrichAttributes, WellFormedChains, ActiveChains
  <2> QED
    BY <1>3, <1>12, <2>1 DEF EnrichAttributes
<1>13. CASE SetupReadProfiles(c)
  <2>1. [chain[c] EXCEPT !.stage = "inventory", !.profiles = profiles]
          \in WellFormedChains
    BY <1>1, <1>13 DEF SetupReadProfiles, WellFormedChains, ActiveChains
  <2> QED
    BY <1>3, <1>13, <2>1 DEF SetupReadProfiles
<1>14. CASE SetupReadInventory(c)
  <2> DEFINE h == chain[c].host
             want == Assign[chain[c].profiles][inventory[h].rec]
             k == [chain[c] EXCEPT !.stage = "schedule", !.want = want, !.left = want]
  <2>1. CASE inventory[h] # NoDoc /\ Store(c, k)
    <3>1. chain[c] \in WellFormedChains /\ chain[c].stage = "inventory"
      BY <1>1, <1>14 DEF SetupReadInventory
    <3>2. chain[c].profiles \in ProfileSets /\ h \in Hosts
      BY <3>1 DEF WellFormedChains, ActiveChains
    <3>3. inventory[h].rec \in Records
      BY <2>1, <3>2 DEF Docs
    <3>4. want \in SUBSET Periods
      BY <3>2, <3>3
    <3>5. k \in WellFormedChains
      BY <3>1, <3>4 DEF WellFormedChains, ActiveChains
    <3> QED
      BY <1>3, <2>1, <3>5
  <2>2. CASE End(c)
    BY <1>3, <2>2
  <2> QED
    BY <1>14, <2>1, <2>2 DEF SetupReadInventory
<1>15. ASSUME NEW p \in Periods, SetupLoadPoll(c, p)
       PROVE  ChainsTypeOK'
  <2> DEFINE k == [chain[c] EXCEPT !.stage = "savePoll", !.left = @ \ {p},
                                   !.period = p, !.read = pollEntry[chain[c].host][p]]
  <2>1. pollEntry[chain[c].host][p] \in Expiries \cup {NoEntry}
    BY <1>1, <1>15 DEF SetupLoadPoll, WellFormedChains, ActiveChains
  <2>2. k \in WellFormedChains
    BY <1>1, <1>15, <2>1 DEF SetupLoadPoll, WellFormedChains, ActiveChains
  <2> QED
    BY <1>3, <1>15, <2>2 DEF SetupLoadPoll
<1>16. CASE SetupSavePoll(c)
  <2>1. [chain[c] EXCEPT !.stage = "schedule", !.period = NoEntry, !.read = NoEntry]
          \in WellFormedChains
    BY <1>1, <1>16 DEF SetupSavePoll, WellFormedChains, ActiveChains
  <2> QED
    BY <1>3, <1>16, <2>1 DEF SetupSavePoll
<1>17. CASE SetupPrune(c)
  BY <1>3, <1>17 DEF SetupPrune
<1>18. CASE Redeliver(c)
  <2> DEFINE e == [chain[c] EXCEPT !.stage = "enrich", !.read = NoEntry]
             s == [chain[c] EXCEPT !.stage = "setup", !.profiles = NoProfiles,
                                   !.want = {}, !.left = {}, !.period = NoEntry,
                                   !.read = NoEntry]
  <2>1. e \in WellFormedChains
    BY <1>1, <1>18 DEF Redeliver, WellFormedChains, ActiveChains
  <2>2. chain[c].stage \in SetupStages => s \in WellFormedChains
    BY <1>1, <1>18 DEF Redeliver, WellFormedChains, ActiveChains
  <2> QED
    BY <1>3, <1>18, <2>1, <2>2 DEF Redeliver
<1> QED
  BY <1>4, <1>5, <1>7, <1>8, <1>9, <1>10, <1>11, <1>12, <1>13, <1>14, <1>15, <1>16,
     <1>17, <1>18 DEF ChainStep

(* What a chain does to the stores keeps them well formed.                 *)
LEMMA ChainKeepsStores ==
    ASSUME TypeOK, NEW c \in Chains,
           \/ \E h \in Hosts : FireWalk(c, h) \/ \E p \in Periods : FirePoll(c, h, p)
           \/ Collect(c) \/ GiveUp(c) \/ ChainStep(c) \/ Redeliver(c)
    PROVE  StoresTypeOK'
<1> USE DEF TypeOK, StoresTypeOK, AtStage
<1>1. chain[c] # Idle => chain[c] \in WellFormedChains
  BY DEF ChainsTypeOK
<1>2. CASE \/ \E h \in Hosts : FireWalk(c, h) \/ \E p \in Periods : FirePoll(c, h, p)
           \/ Collect(c) \/ GiveUp(c) \/ Redeliver(c)
  BY <1>2 DEF FireWalk, FirePoll, Collect, GiveUp, Redeliver
<1>3. CASE EnrichTarget(c)
  BY <1>1, <1>3 DEF EnrichTarget, WellFormedChains, ActiveChains
<1>4. CASE RestartLoad(c)
  BY <1>4 DEF RestartLoad
<1>5. CASE RestartSave(c)
  BY <1>1, <1>5 DEF RestartSave, WellFormedChains
<1>6. CASE EnrichAttributes(c)
  BY <1>1, <1>6 DEF EnrichAttributes, WellFormedChains, ActiveChains
<1>7. CASE SetupReadProfiles(c)
  BY <1>7 DEF SetupReadProfiles
<1>8. CASE SetupReadInventory(c)
  BY <1>8 DEF SetupReadInventory
<1>9. CASE \E p \in Periods : SetupLoadPoll(c, p)
  BY <1>9 DEF SetupLoadPoll
<1>10. CASE SetupSavePoll(c)
  <2>1. chain[c] \in WellFormedChains /\ chain[c].isWalk
    BY <1>1, <1>10 DEF SetupSavePoll, WellFormedChains, SetupStages
  <2>2. ManagedPoll(chain[c].read, chain[c].expires) \in Expiries
    BY <1>10, <2>1 DEF SetupSavePoll, WellFormedChains, ManagedPoll
  <2> QED
    BY <1>10, <2>2 DEF SetupSavePoll
<1>11. CASE SetupPrune(c)
  <2>1. chain[c].host \in Hosts /\ chain[c].want \in SUBSET Periods
    BY <1>1, <1>11 DEF SetupPrune, WellFormedChains, ActiveChains
  <2> QED
    BY <1>11, <2>1, DeletionTypes DEF SetupPrune
<1> QED
  BY <1>2, <1>3, <1>4, <1>5, <1>6, <1>7, <1>8, <1>9, <1>10, <1>11 DEF ChainStep

(* An edit of the configuration keeps the types.                           *)
LEMMA EditKeepsTypes ==
    ASSUME TypeOK, EditConfiguration
    PROVE  ConfigTypeOK' /\ StoresTypeOK' /\ JobTypeOK' /\ ChainsTypeOK' /\ edits' \in Nat
<1>0. /\ jobDue' = TRUE /\ edits' = edits + 1
      /\ UNCHANGED <<mongo, redis, job, faults, chain, restarts>>
  BY DEF EditConfiguration
<1>1. ConfigTypeOK'
  BY DEF TypeOK, ConfigTypeOK, EditConfiguration
<1>2. StoresTypeOK' /\ ChainsTypeOK' /\ edits' \in Nat
  BY <1>0 DEF TypeOK, StoresTypeOK, ChainsTypeOK
<1>3. JobTypeOK'
  BY <1>0 DEF TypeOK, JobTypeOK
<1> QED
  BY <1>1, <1>2, <1>3

(* Actions of the job and the chains leave the configuration alone.        *)
LEMMA ConfigStable ==
    ASSUME TypeOK, JobAction \/ \E c \in Chains : ChainAction(c) \/ WorkerLost(c)
    PROVE  ConfigTypeOK' /\ edits' \in Nat
<1>1. UNCHANGED <<lines, groupsFile, profilesFile, expiry, edits>>
  BY DEF JobAction, JobStep, JobStart, JobCheckExpiry, JobDropWalks, JobDropPolls,
         JobClearProfiles, JobFillProfiles, JobClearGroups, JobFillGroups,
         JobDropSchedules, JobUpsert, JobDropInventory, JobDropTargets,
         JobDropAttributes, JobLoadWalk, JobSaveWalk, JobFinish, JobCrash,
         JobRecordFails, ChainAction, WorkerLost, FireWalk, FirePoll, Collect, GiveUp,
         ChainStep, EnrichTarget, RestartLoad, RestartSave, EnrichAttributes,
         SetupReadProfiles, SetupReadInventory, SetupLoadPoll, SetupSavePoll,
         SetupPrune, Redeliver
<1> QED
  BY <1>1 DEF TypeOK, ConfigTypeOK

(* Type correctness is inductive: no step of the job, a chain, the         *)
(* administrator or a lost worker stores an ill-formed value.              *)
LEMMA NextKeepsTypes == TypeOK /\ [Next]_vars => TypeOK'
<1> SUFFICES ASSUME TypeOK, [Next]_vars PROVE TypeOK'
  OBVIOUS
<1>1. CASE Next
  <2>1. raced' \in SUBSET Hosts /\ behind' \in SUBSET Hosts
    BY <1>1 DEF Next, RecordHistory, RecordRaces, Overlapped, RecordBehind, TypeOK
  <2>2. CASE EditConfiguration
    BY <2>1, <2>2, EditKeepsTypes DEF TypeOK
  <2>3. CASE JobAction
    <3>1. ConfigTypeOK' /\ edits' \in Nat
      BY <2>3, ConfigStable
    <3>2. StoresTypeOK' /\ JobTypeOK'
      BY <2>3, JobKeepsTypes, JobFaultsKeepTypes DEF JobAction
    <3>3. ChainsTypeOK'
      BY <2>3 DEF JobAction, TypeOK, ChainsTypeOK
    <3> QED
      BY <2>1, <3>1, <3>2, <3>3 DEF TypeOK
  <2>4. ASSUME NEW c \in Chains, ChainAction(c)
        PROVE  TypeOK'
    <3>1. ConfigTypeOK' /\ edits' \in Nat
      BY <2>4, ConfigStable
    <3>2. StoresTypeOK' /\ ChainsTypeOK'
      BY <2>4, ChainKeepsStores, ChainKeepsSlots DEF ChainAction
    <3>3. JobTypeOK'
      BY <2>4 DEF ChainAction, TypeOK, JobTypeOK
    <3> QED
      BY <2>1, <3>1, <3>2, <3>3 DEF TypeOK
  <2>5. ASSUME NEW c \in Chains, WorkerLost(c)
        PROVE  TypeOK'
    <3>1. ConfigTypeOK' /\ edits' \in Nat
      BY <2>5, ConfigStable
    <3>2. StoresTypeOK' /\ ChainsTypeOK'
      BY <2>5, ChainKeepsStores, ChainKeepsSlots DEF WorkerLost
    <3>3. JobTypeOK'
      BY <2>5 DEF WorkerLost, TypeOK, JobTypeOK
    <3> QED
      BY <2>1, <3>1, <3>2, <3>3 DEF TypeOK
  <2> QED
    BY <1>1, <2>2, <2>3, <2>4, <2>5 DEF Next
<1>2. CASE UNCHANGED vars
  BY <1>2 DEF vars, history, TypeOK, ConfigTypeOK, StoresTypeOK, JobTypeOK, ChainsTypeOK
<1> QED
  BY <1>1, <1>2

(* The stores, the job and the chains always have values of their types:   *)
(* in particular save() only ever writes complete walk definitions, and a  *)
(* chain in the middle of manage_task holds an entry of the right kind.    *)
THEOREM TypeInvariant == Spec => []TypeOK
<1>1. Init => TypeOK
  BY InitTypeOK
<1>2. TypeOK /\ [Next]_vars => TypeOK'
  BY NextKeepsTypes
<1> QED
  BY <1>1, <1>2, PTL DEF Spec

-----------------------------------------------------------------------------
(* Deleted hosts stay silent.                                              *)

(* The strengthening: from the moment the job has deleted the schedules of *)
(* h, h has no schedules and no chain is about to write one, unless h is   *)
(* raced; and the job saves a walk only for a host that has a document.    *)
Gone(h) == inventory[h] = NoDoc \/ Unscheduled(h)

SilentInv ==
    /\ TypeOK
    /\ \A h \in Hosts : Gone(h) /\ h \notin raced =>
            ~Scheduled(h) /\ \A c \in Chains : ~Writing(c, h)
    /\ job.pc \in {"load", "save"} => inventory[job.line.host] # NoDoc

(* Before the first installation no host has a document or a schedule.     *)
LEMMA InitSilent == Init => SilentInv
<1> SUFFICES ASSUME Init PROVE SilentInv
  OBVIOUS
<1>1. TypeOK
  BY InitTypeOK
<1>2. \A h \in Hosts : ~Scheduled(h)
  BY DEF Init, StoresInit, Scheduled, NoPolls
<1>3. \A h \in Hosts, c \in Chains : ~Writing(c, h)
  BY DEF Init, ChainsInit, Writing
<1>4. job.pc = "idle"
  BY DEF Init, JobInit, IdleJob
<1> QED
  BY <1>1, <1>2, <1>3, <1>4 DEF SilentInv

(* A step keeps SilentInv when it writes no schedule entry, puts no chain  *)
(* into a writing stage, drops no document and begins no deletion.         *)
LEMMA HarmlessStep ==
    ASSUME SilentInv, TypeOK', RecordRaces,
           \A h \in Hosts : Scheduled(h)' => Scheduled(h),
           \A h \in Hosts, c \in Chains : Writing(c, h)' => Writing(c, h),
           \A h \in Hosts : inventory[h] # NoDoc => inventory'[h] # NoDoc,
           \A h \in Hosts : Unscheduled(h)' => Unscheduled(h),
           job'.pc \in {"load", "save"} => inventory'[job'.line.host] # NoDoc
    PROVE  SilentInv'
BY DEF SilentInv, RecordRaces, Gone

(* Steps of the inventory job.                                             *)
LEMMA JobKeepsSilent ==
    ASSUME SilentInv, TypeOK', JobAction, RecordRaces
    PROVE  SilentInv'
<1> USE DEF SilentInv
<1>1. \A h \in Hosts, c \in Chains : Writing(c, h)' <=> Writing(c, h)
  BY DEF JobAction, Writing
<1>2. \A h \in Hosts : h \in raced' <=>
        \/ h \in raced /\ (Unscheduled(h)' => Unscheduled(h))
        \/ Unscheduled(h)' /\ \E c \in Chains : Writing(c, h)'
  BY DEF RecordRaces, Overlapped, TypeOK
<1>3. ASSUME NEW l \in Lines, JobDropSchedules(l)
      PROVE  SilentInv'
  <2>1. /\ job'.pc = "dropInventory" /\ job'.line = l /\ l.host \in Hosts
        /\ At("records") /\ inventory' = inventory
    BY <1>3 DEF JobDropSchedules, TypeOK, JobTypeOK, Lines
  <2>2. \A h \in Hosts : Unscheduled(h)' <=> h = l.host
    BY <2>1 DEF Unscheduled, At
  <2>3. ~Scheduled(l.host)'
    BY <1>3, <2>1, MatchesAssumption
       DEF JobDropSchedules, Scheduled, WithoutWalksOf, WithoutPollsOf
  <2>4. \A h \in Hosts : Scheduled(h)' => Scheduled(h)
    BY <1>3, MatchesAssumption
       DEF JobDropSchedules, Scheduled, WithoutWalksOf, WithoutPollsOf
  <2>5. \A h \in Hosts : ~Unscheduled(h)
    BY <2>1 DEF Unscheduled, At
  <2> QED
    BY <1>1, <1>2, <2>1, <2>2, <2>3, <2>4, <2>5 DEF Gone
<1>4. CASE JobDropInventory
  <2>1. /\ job.line.host \in Hosts /\ Unscheduled(job.line.host)
        /\ job'.pc = "dropTargets"
    BY <1>4 DEF JobDropInventory, TypeOK, JobTypeOK, Lines, At, Goto, Unscheduled
  <2>2. \A h \in Hosts : ~Unscheduled(h)'
    BY <2>1 DEF Unscheduled, At
  <2>3. \A h \in Hosts : Scheduled(h)' <=> Scheduled(h)
    BY <1>4 DEF JobDropInventory, Scheduled
  <2>4. \A h \in Hosts : Gone(h)' => Gone(h)
    BY <1>4, <2>1, <2>2 DEF JobDropInventory, Gone, TypeOK, StoresTypeOK
  <2> QED
    BY <1>1, <1>2, <2>1, <2>2, <2>3, <2>4
<1>5. ASSUME NEW l \in Lines, JobUpsert(l)
      PROVE  SilentInv'
  <2>1. l.host \in Hosts
    BY DEF Lines
  <2>2. \A h \in Hosts : ~Unscheduled(h)'
    BY <1>5 DEF JobUpsert, Unscheduled, At, TypeOK, JobTypeOK
  <2>3. inventory'[l.host] # NoDoc
    <3>1. [rec |-> l.what, group |-> l.group] \in Docs
      BY <1>5 DEF JobUpsert, Docs, Lines
    <3> QED
      BY <1>5, <2>1, <3>1, SentinelsAssumption DEF JobUpsert, TypeOK, StoresTypeOK
  <2>4. \A h \in Hosts : inventory[h] # NoDoc => inventory'[h] # NoDoc
    BY <1>5, <2>1, <2>3 DEF JobUpsert, TypeOK, StoresTypeOK
  <2>5. \A h \in Hosts : Scheduled(h)' <=> Scheduled(h)
    BY <1>5 DEF JobUpsert, Scheduled
  <2>6. job'.pc \in {"load", "save"} => job'.line = l
    BY <1>5 DEF JobUpsert, TypeOK, JobTypeOK
  <2> QED
    BY <1>1, <2>2, <2>3, <2>4, <2>5, <2>6, HarmlessStep
<1>6. CASE JobSaveWalk
  <2> DEFINE h0 == job.line.host
  <2>1. h0 \in Hosts /\ inventory[h0] # NoDoc /\ job'.pc = "records" /\ At("save")
    BY <1>6 DEF JobSaveWalk, TypeOK, JobTypeOK, Lines, At
  <2>2. \A h \in Hosts : ~Unscheduled(h) /\ ~Unscheduled(h)'
    BY <2>1 DEF Unscheduled, At
  <2>3. inventory' = inventory
    BY <1>6 DEF JobSaveWalk
  <2>4. \A h \in Hosts : h # h0 => (Scheduled(h)' <=> Scheduled(h))
    BY <1>6, <2>1 DEF JobSaveWalk, Scheduled, TypeOK, StoresTypeOK
  <2> QED
    BY <1>1, <1>2, <2>1, <2>2, <2>3, <2>4 DEF Gone
<1>7. CASE \/ JobStart \/ JobCheckExpiry \/ JobDropWalks \/ JobDropPolls
           \/ JobClearProfiles \/ JobFillProfiles \/ JobClearGroups \/ JobFillGroups
           \/ JobDropTargets \/ JobDropAttributes \/ JobLoadWalk \/ JobFinish
           \/ JobCrash \/ JobRecordFails
  <2>1. inventory' = inventory
    BY <1>7 DEF JobStart, JobCheckExpiry, JobDropWalks, JobDropPolls, JobClearProfiles,
                JobFillProfiles, JobClearGroups, JobFillGroups, JobDropTargets,
                JobDropAttributes, JobLoadWalk, JobFinish, JobCrash, JobRecordFails
  <2>2. /\ job'.pc # "dropInventory"
        /\ job'.pc \in {"load", "save"} => job.pc = "load" /\ job'.line = job.line
    <3>1. CASE JobStart \/ JobCheckExpiry \/ JobDropWalks \/ JobDropPolls
      BY <3>1 DEF JobStart, JobCheckExpiry, JobDropWalks, JobDropPolls, At, Goto,
                  TypeOK, JobTypeOK
    <3>2. CASE JobClearProfiles \/ JobFillProfiles \/ JobClearGroups \/ JobFillGroups
      BY <3>2 DEF JobClearProfiles, JobFillProfiles, JobClearGroups, JobFillGroups, At,
                  Goto, TypeOK, JobTypeOK
    <3>3. CASE JobDropTargets \/ JobDropAttributes \/ JobLoadWalk
      BY <3>3 DEF JobDropTargets, JobDropAttributes, JobLoadWalk, At, Goto, TypeOK,
                  JobTypeOK
    <3>4. CASE JobFinish \/ JobCrash
      BY <3>4 DEF JobFinish, JobCrash, IdleJob
    <3>5. CASE JobRecordFails
      <4>1. job'.pc = "records"
        BY <3>5 DEF JobRecordFails, At, TypeOK, JobTypeOK
      <4> QED
        BY <4>1
    <3> QED
      BY <1>7, <3>1, <3>2, <3>3, <3>4, <3>5
  <2>3. \A h \in Hosts : Scheduled(h)' => Scheduled(h)
    BY <1>7 DEF JobStart, JobCheckExpiry, JobDropWalks, JobDropPolls, JobClearProfiles,
                JobFillProfiles, JobClearGroups, JobFillGroups, JobDropTargets,
                JobDropAttributes, JobLoadWalk, JobFinish, JobCrash, JobRecordFails,
                Scheduled
  <2>4. \A h \in Hosts : ~Unscheduled(h)'
    BY <2>2 DEF Unscheduled, At
  <2> QED
    BY <1>1, <2>1, <2>2, <2>3, <2>4, HarmlessStep
<1> QED
  BY <1>3, <1>4, <1>5, <1>6, <1>7 DEF JobAction, JobStep

(* Steps of the chains, and lost workers.                                  *)
LEMMA ChainKeepsSilent ==
    ASSUME SilentInv, TypeOK', RecordRaces, NEW c \in Chains,
           ChainAction(c) \/ WorkerLost(c)
    PROVE  SilentInv'
<1> USE DEF SilentInv
<1>1. UNCHANGED <<job, inventory>>
  BY DEF ChainAction, WorkerLost, FireWalk, FirePoll, Collect, GiveUp, ChainStep,
         EnrichTarget, RestartLoad, RestartSave, EnrichAttributes, SetupReadProfiles,
         SetupReadInventory, SetupLoadPoll, SetupSavePoll, SetupPrune, Redeliver
<1>2. \A h \in Hosts : (Unscheduled(h)' <=> Unscheduled(h)) /\ (Gone(h)' <=> Gone(h))
  BY <1>1 DEF Unscheduled, Gone, At
<1>3. \A h \in Hosts : h \notin raced' =>
        h \notin raced /\ (Unscheduled(h) => ~\E d \in Chains : Writing(d, h)')
  BY <1>2 DEF RecordRaces, Overlapped
<1>4. chain[c] # Idle => chain[c] \in WellFormedChains /\ chain[c].host \in Hosts
  BY DEF TypeOK, ChainsTypeOK, WellFormedChains, ActiveChains
<1>5. ASSUME \A h \in Hosts : Gone(h) /\ h \notin raced' /\ Scheduled(h)' => Scheduled(h),
             \A h \in Hosts : Gone(h) /\ h \notin raced' /\ Writing(c, h)' =>
                Writing(c, h) \/ Scheduled(h)
      PROVE  SilentInv'
  <2>1. \A d \in Chains \ {c}, h \in Hosts : Writing(d, h)' <=> Writing(d, h)
    BY DEF ChainAction, WorkerLost, FireWalk, FirePoll, Collect, GiveUp, ChainStep,
           EnrichTarget, RestartLoad, RestartSave, EnrichAttributes, SetupReadProfiles,
           SetupReadInventory, SetupLoadPoll, SetupSavePoll, SetupPrune, Redeliver,
           Store, Enter, End, Writing, TypeOK, ChainsTypeOK
  <2> QED
    BY <1>1, <1>2, <1>3, <1>5, <2>1
<1> USE DEF AtStage, Enter, End, Store
<1>6. ASSUME UNCHANGED redis,
             chain'[c] = Idle \/ chain'[c].stage \notin {"restartSave", "schedule", "savePoll"}
      PROVE  SilentInv'
  BY <1>5, <1>6 DEF Scheduled, Writing
<1>7. chain \in [Chains -> WellFormedChains \cup {Idle}]
  BY DEF TypeOK, ChainsTypeOK
<1>8. ASSUME NEW h \in Hosts, FireWalk(c, h)
      PROVE  SilentInv'
  BY <1>6, <1>7, <1>8 DEF FireWalk, NewChain
<1>9. ASSUME NEW h \in Hosts, NEW p \in Periods, FirePoll(c, h, p)
      PROVE  SilentInv'
  BY <1>6, <1>7, <1>9 DEF FirePoll, NewChain
<1>10. ASSUME chain[c] # Idle, UNCHANGED redis,
              NEW s \in {"enrich", "restart", "attributes", "setup"},
              Enter(c, s)
       PROVE  SilentInv'
  <2>1. chain'[c].stage = s
    BY <1>4, <1>7, <1>10 DEF WellFormedChains, ActiveChains
  <2> QED
    BY <1>6, <1>10, <2>1
<1>11. ASSUME UNCHANGED redis, End(c)
       PROVE  SilentInv'
  BY <1>6, <1>7, <1>11
<1>12. CASE Collect(c) \/ GiveUp(c) \/ EnrichTarget(c) \/ EnrichAttributes(c)
  BY <1>10, <1>11, <1>12 DEF Collect, GiveUp, EnrichTarget, EnrichAttributes
<1>13. CASE RestartLoad(c)
  <2>1. CASE walkEntry[chain[c].host] = NoEntry
    BY <1>10, <1>13, <2>1 DEF RestartLoad
  <2>2. CASE walkEntry[chain[c].host] # NoEntry
    <3> DEFINE k == [chain[c] EXCEPT !.stage = "restartSave",
                                     !.read = walkEntry[chain[c].host]]
    <3>1. UNCHANGED redis /\ chain'[c].host = chain[c].host
      <4>1. UNCHANGED redis /\ chain[c] # Idle /\ chain'[c] = k
        BY <1>7, <1>13, <2>2 DEF RestartLoad
      <4>2. k.host = chain[c].host
        BY <1>4, <4>1 DEF WellFormedChains, ActiveChains
      <4> QED
        BY <4>1, <4>2
    <3>2. Scheduled(chain[c].host)
      BY <2>2 DEF Scheduled
    <3> QED
      BY <1>5, <3>1, <3>2 DEF Writing, Scheduled
  <2> QED
    BY <2>1, <2>2
<1>14. CASE RestartSave(c)
  <2>1. Writing(c, chain[c].host) /\ chain[c].host \in Hosts
    BY <1>4, <1>14 DEF RestartSave, Writing
  <2>2. chain'[c].stage = "attributes"
    BY <1>4, <1>7, <1>14 DEF RestartSave, WellFormedChains, ActiveChains
  <2>3. \A h \in Hosts : h # chain[c].host => (Scheduled(h)' <=> Scheduled(h))
    BY <1>14, <2>1 DEF RestartSave, Scheduled, TypeOK, StoresTypeOK
  <2> QED
    BY <1>3, <1>5, <2>1, <2>2, <2>3 DEF Writing
<1>15. CASE SetupReadProfiles(c)
  <2>1. UNCHANGED redis /\ chain'[c].stage = "inventory"
    BY <1>4, <1>7, <1>15 DEF SetupReadProfiles, WellFormedChains, ActiveChains
  <2> QED
    BY <1>6, <2>1
<1>16. CASE SetupReadInventory(c)
  <2> DEFINE h0 == chain[c].host
             want == Assign[chain[c].profiles][inventory[h0].rec]
             k == [chain[c] EXCEPT !.stage = "schedule", !.want = want, !.left = want]
  <2>1. UNCHANGED redis
    BY <1>16 DEF SetupReadInventory
  <2>2. CASE inventory[h0] # NoDoc /\ Store(c, k)
    <3>1. chain'[c] = k /\ chain[c] # Idle
      BY <1>7, <1>16, <2>2 DEF SetupReadInventory
    <3>2. k.host = h0 /\ k.stage = "schedule"
      BY <1>4, <3>1 DEF WellFormedChains, ActiveChains
    <3>3. h0 \in Hosts
      BY <1>4, <3>1
    <3>4. \A h \in Hosts : Writing(c, h)' => h = h0
      BY <3>1, <3>2 DEF Writing
    <3>5. \A h \in Hosts : h = h0 /\ Gone(h) /\ Writing(c, h)' => h \in raced'
      BY <1>3, <2>2, <3>3 DEF Gone
    <3>6. \A h \in Hosts : Scheduled(h)' => Scheduled(h)
      BY <2>1 DEF Scheduled
    <3>7. \A h \in Hosts : ~(Gone(h) /\ h \notin raced' /\ Writing(c, h)')
      BY <3>4, <3>5
    <3> QED
      BY <1>5, <3>6, <3>7
  <2>3. CASE End(c)
    BY <1>11, <2>1, <2>3
  <2> QED
    BY <1>16, <2>2, <2>3 DEF SetupReadInventory
<1>17. ASSUME NEW p \in Periods, SetupLoadPoll(c, p)
       PROVE  SilentInv'
  <2>1. UNCHANGED redis /\ chain'[c].host = chain[c].host
    BY <1>4, <1>7, <1>17 DEF SetupLoadPoll, WellFormedChains, ActiveChains
  <2>2. Writing(c, chain[c].host)
    BY <1>17 DEF SetupLoadPoll, Writing
  <2> QED
    BY <1>5, <2>1, <2>2 DEF Writing, Scheduled
<1>18. CASE SetupSavePoll(c)
  <2>1. Writing(c, chain[c].host) /\ chain[c].host \in Hosts
    BY <1>4, <1>18 DEF SetupSavePoll, Writing
  <2>2. chain'[c].host = chain[c].host
    BY <1>4, <1>7, <1>18 DEF SetupSavePoll, WellFormedChains, ActiveChains
  <2>3. \A h \in Hosts : h # chain[c].host => (Scheduled(h)' <=> Scheduled(h))
    BY <1>18, <2>1 DEF SetupSavePoll, Scheduled, TypeOK, StoresTypeOK
  <2> QED
    BY <1>3, <1>5, <2>1, <2>2, <2>3 DEF Writing
<1>19. CASE SetupPrune(c)
  <2>1. chain'[c] = Idle
    BY <1>7, <1>19 DEF SetupPrune
  <2>2. \A h \in Hosts : Scheduled(h)' => Scheduled(h)
    BY <1>4, <1>19, MatchesAssumption
       DEF SetupPrune, Scheduled, WithoutUnusedPolls, NoPolls, TypeOK, StoresTypeOK
  <2> QED
    BY <1>5, <2>1, <2>2 DEF Writing
<1>20. CASE WorkerLost(c)
  <2> DEFINE e == [chain[c] EXCEPT !.stage = "enrich", !.read = NoEntry]
             s == [chain[c] EXCEPT !.stage = "setup", !.profiles = NoProfiles,
                                   !.want = {}, !.left = {}, !.period = NoEntry,
                                   !.read = NoEntry]
  <2>1. UNCHANGED redis /\ chain'[c].stage \in {"enrich", "setup"}
    <3>1. UNCHANGED redis /\ chain[c] # Idle /\ chain'[c] \in {e, s}
      BY <1>7, <1>20 DEF WorkerLost, Redeliver
    <3>2. e.stage = "enrich" /\ s.stage = "setup"
      BY <1>4, <3>1 DEF WellFormedChains, ActiveChains
    <3> QED
      BY <3>1, <3>2
  <2> QED
    BY <1>6, <2>1
<1> QED
  BY <1>8, <1>9, <1>12, <1>13, <1>14, <1>15, <1>16, <1>17, <1>18, <1>19, <1>20
     DEF ChainAction, ChainStep

(* An edit touches neither documents nor schedules, so it keeps SilentInv. *)
LEMMA EditKeepsSilent ==
    ASSUME SilentInv, TypeOK', EditConfiguration, RecordRaces
    PROVE  SilentInv'
<1>1. UNCHANGED <<mongo, redis, job, chain>>
  BY DEF EditConfiguration
<1>2. \A h \in Hosts : /\ Scheduled(h)' <=> Scheduled(h)
                       /\ Unscheduled(h)' <=> Unscheduled(h)
                       /\ \A c \in Chains : Writing(c, h)' <=> Writing(c, h)
  BY <1>1 DEF Scheduled, Unscheduled, Writing, At
<1> QED
  BY <1>1, <1>2, HarmlessStep DEF SilentInv

(* A host without an inventory document has no schedule entry, whatever    *)
(* the job, its crashes, the workers and redeliveries do in whatever       *)
(* order, unless a chain was writing entries of the host while the job     *)
(* deleted it.                                                             *)
THEOREM DeletedHostsStaySilent == Spec => []DeletedHostIsSilent
<1>1. Init => SilentInv
  BY InitSilent
<1>2. SilentInv /\ [Next]_vars => SilentInv'
  <2> SUFFICES ASSUME SilentInv, [Next]_vars PROVE SilentInv'
    OBVIOUS
  <2>1. TypeOK'
    BY NextKeepsTypes DEF SilentInv
  <2>2. CASE Next
    BY <2>1, <2>2, EditKeepsSilent, JobKeepsSilent, ChainKeepsSilent DEF Next, RecordHistory
  <2>3. CASE UNCHANGED vars
    BY <2>1, <2>3 DEF vars, history, SilentInv, Gone, Unscheduled, Scheduled, Writing, At
  <2> QED
    BY <2>2, <2>3
<1>3. SilentInv => DeletedHostIsSilent
  BY DEF SilentInv, DeletedHostIsSilent, Gone
<1> QED
  BY <1>1, <1>2, <1>3, PTL DEF Spec

-----------------------------------------------------------------------------
(* What a step does that is not one of the job.                            *)

(* The configuration changes only while the job is idle, and the edit      *)
(* requests a run.                                                         *)
LEMMA EditSteps ==
    ASSUME EditConfiguration
    PROVE  /\ At("idle") /\ jobDue'
           /\ UNCHANGED <<mongo, redis, job, faults, chain, restarts>>
BY DEF EditConfiguration

(* Chains leave configuration, documents, groups and job alone; of the     *)
(* walk entries a chain writes only the one it has read after a restart.   *)
LEMMA ChainSteps ==
    ASSUME NEW c \in Chains, ChainAction(c) \/ WorkerLost(c)
    PROVE  /\ UNCHANGED <<lines, groupsFile, profilesFile, expiry, inventory, groups, job, jobDue>>
           /\ faults' \in {faults, faults + 1} /\ restarts' \in {restarts, restarts + 1}
           /\ \/ UNCHANGED walkEntry
              \/ /\ AtStage(c, "restartSave")
                 /\ walkEntry' = [walkEntry EXCEPT ![chain[c].host] = chain[c].read]
BY DEF ChainAction, WorkerLost, FireWalk, FirePoll, Collect, GiveUp, ChainStep, EnrichTarget,
       RestartLoad, RestartSave, EnrichAttributes, SetupReadProfiles, SetupReadInventory,
       SetupLoadPoll, SetupSavePoll, SetupPrune, Redeliver

(* A chain only ever adds a walk entry.                                    *)
LEMMA ChainsKeepWalks ==
    ASSUME TypeOK, NEW c \in Chains, ChainAction(c) \/ WorkerLost(c),
           NEW h \in Hosts, walkEntry[h] # NoEntry
    PROVE  walkEntry'[h] # NoEntry
<1>1. CASE UNCHANGED walkEntry
  BY <1>1
<1>2. CASE /\ AtStage(c, "restartSave")
           /\ walkEntry' = [walkEntry EXCEPT ![chain[c].host] = chain[c].read]
  <2>1. chain[c].read \in WalkEntries
    BY <1>2 DEF AtStage, TypeOK, ChainsTypeOK, WellFormedChains
  <2> QED
    BY <1>2, <2>1, SentinelsAssumption DEF TypeOK, StoresTypeOK
<1> QED
  BY <1>1, <1>2, ChainSteps

(* The job leaves configuration and chains alone.                          *)
LEMMA JobSteps ==
    ASSUME JobAction
    PROVE  /\ UNCHANGED <<lines, groupsFile, profilesFile, expiry, chain, restarts>>
           /\ faults' \in {faults, faults + 1}
BY DEF JobAction, JobStep, JobStart, JobCheckExpiry, JobDropWalks, JobDropPolls,
       JobClearProfiles, JobFillProfiles, JobClearGroups, JobFillGroups, JobDropSchedules,
       JobUpsert, JobDropInventory, JobDropTargets, JobDropAttributes, JobLoadWalk, JobSaveWalk,
       JobFinish, JobCrash, JobRecordFails

(* The deletion of a host, and the part of a run that knows its lines.     *)
DropPcs == {"dropInventory", "dropTargets", "dropAttributes"}
Recording == job.pc \in {"records", "load", "save"} \cup DropPcs

-----------------------------------------------------------------------------
(* No host is forgotten, when deleting one host deletes no other's keys.   *)
OwnKeysOnly == \A h \in Hosts : Matches[h] = {h}

(* A line that the job has applied: for one that says delete, the document *)
(* is gone; otherwise it is there, and so is the walk entry.  The last     *)
(* request for the line may still be to come.                              *)
Served(l) ==
    IF l.what = Delete
    THEN inventory[l.host] = NoDoc \/ (At("dropInventory") /\ job.line = l)
    ELSE /\ inventory[l.host] = [rec |-> l.what, group |-> l.group]
         /\ walkEntry[l.host] # NoEntry \/ (job.pc \in {"load", "save"} /\ job.line = l)

AllServed(todo) == \A l \in Lines : OnlyLineOf(l.host, l) /\ l \notin todo => Served(l)

(* What the job knows of its lines: it has applied none while hosts that   *)
(* left a group are still to be deleted, and those that are not to come    *)
(* any more if no record has failed.                                       *)
LinesInv ==
    /\ job.todo \subseteq Planned
    /\ job.doomed # {} => job.todo = Planned
    /\ job.pc \in DropPcs =>
          job.todo = Planned \/ (job.line \in Planned /\ job.line.what = Delete)
    /\ ~ job.errors => AllServed(job.todo)

HostInv ==
    /\ ~ At("idle") => jobDue
    /\ Recording => LinesInv
    /\ Applied => AllServed({})

LEMMA OnlyLine ==
    ASSUME NEW h, NEW l, OnlyLineOf(h, l), NEW k \in Planned, k.host = h
    PROVE  k = l
BY DEF OnlyLineOf

LEMMA InitHostInv == Init => HostInv
<1> SUFFICES ASSUME Init PROVE HostInv
  OBVIOUS
<1>1. lines = [x \in Hosts \cup Groups |-> Absent] /\ job.pc = "idle"
  BY DEF Init, StoresInit, JobInit, IdleJob
<1>2. Planned = {}
  BY <1>1 DEF Planned, PlannedLines
<1> QED
  BY <1>1, <1>2 DEF HostInv, Recording, DropPcs, AllServed, OnlyLineOf, At

(* A step that leaves the stores of documents and walks alone, and with    *)
(* them the line that is worked on, keeps a line served.                   *)
LEMMA ServedStays ==
    ASSUME NEW l, Served(l), UNCHANGED inventory,
           walkEntry[l.host] # NoEntry => walkEntry'[l.host] # NoEntry,
           \/ UNCHANGED job
           \/ l.what = Delete /\ job.pc # "dropInventory"
           \/ l.what # Delete /\ job.pc \notin {"load", "save"}
    PROVE  Served(l)'
BY DEF Served, At

(* Between the lines: only the line that is deleted or stored loses or     *)
(* gets its document and walk entry.                                       *)
LEMMA RecordsKeepHosts ==
    ASSUME OwnKeysOnly, TypeOK, TypeOK', HostInv, UNCHANGED <<lines, groupsFile>>,
           NEW l \in Lines, JobDropSchedules(l) \/ JobUpsert(l)
    PROVE  HostInv'
<1>1. /\ job.pc = "records" /\ l.host \in Hosts /\ Planned' = Planned
      /\ jobDue' = jobDue /\ LinesInv /\ jobDue
  BY DEF JobDropSchedules, JobUpsert, At, Lines, Planned, HostInv, Recording
<1>2. \A k \in Lines : OnlyLineOf(k.host, k)' <=> OnlyLineOf(k.host, k)
  BY <1>1 DEF OnlyLineOf
<1>3. ~ Applied'
  BY <1>1 DEF Applied
<1>4. \A k \in Lines : Served(k) =>
        IF k.what = Delete THEN inventory[k.host] = NoDoc
        ELSE /\ inventory[k.host] = [rec |-> k.what, group |-> k.group]
             /\ walkEntry[k.host] # NoEntry
  BY <1>1 DEF Served, At
<1>5. CASE JobDropSchedules(l)
  <2>1. /\ job'.pc = "dropInventory" /\ job'.line = l /\ job'.errors = job.errors
        /\ UNCHANGED inventory /\ l.what = Delete
        /\ \/ /\ l.host \in job.doomed /\ job'.todo = job.todo
              /\ job'.doomed = job.doomed
           \/ /\ job.doomed = {} /\ job'.doomed = {} /\ l \in job.todo
              /\ job'.todo = job.todo \ {l}
    <3>1. CASE /\ l.host \in job.doomed
               /\ l = [host |-> l.host, what |-> Delete, group |-> NoGroup]
               /\ job' = [job EXCEPT !.pc = "dropInventory", !.line = l]
      <4>1. l.what = Delete
        BY <3>1
      <4> QED
        BY <1>5, <3>1, <4>1 DEF JobDropSchedules, TypeOK, JobTypeOK
    <3>2. CASE /\ job.doomed = {} /\ l \in job.todo /\ l.what = Delete
               /\ job' = [job EXCEPT !.pc = "dropInventory", !.line = l, !.todo = @ \ {l}]
      <4>1. job' = [job EXCEPT !.pc = "dropInventory", !.line = l, !.todo = job.todo \ {l}]
        BY <3>2
      <4> QED
        BY <1>5, <3>2, <4>1 DEF JobDropSchedules, TypeOK, JobTypeOK
    <3> QED
      BY <1>5, <3>1, <3>2 DEF JobDropSchedules
  <2>2. \A h \in Hosts : h # l.host => walkEntry'[h] = walkEntry[h]
    BY <1>1, <1>5 DEF JobDropSchedules, WithoutWalksOf, OwnKeysOnly
  <2>3. ASSUME NEW k \in Lines, OnlyLineOf(k.host, k), k \notin job'.todo, ~ job.errors
        PROVE  Served(k)'
    <3>1. CASE k = l
      BY <2>1, <3>1 DEF Served, At
    <3>2. CASE k # l
      <4>1. k \notin job.todo
        BY <2>1, <2>3, <3>2
      <4>2. k.host \in Hosts /\ Served(k)
        BY <1>1, <2>3, <4>1 DEF Lines, LinesInv, AllServed
      <4>3. CASE k.what = Delete
        BY <1>4, <2>1, <4>2, <4>3 DEF Served
      <4>4. CASE k.host # l.host
        BY <1>4, <2>1, <2>2, <4>2, <4>4 DEF Served
      <4>5. CASE k.host = l.host /\ l \in job.todo
        BY <1>1, <2>3, <3>2, <4>5, OnlyLine DEF LinesInv
      <4>6. CASE l.host \in job.doomed
        <5>1. job.todo = Planned
          BY <1>1, <4>6 DEF LinesInv
        <5> QED
          BY <2>3, <4>1, <5>1 DEF OnlyLineOf
      <4> QED
        BY <2>1, <4>3, <4>4, <4>5, <4>6
    <3> QED
      BY <3>1, <3>2
  <2>4. LinesInv'
    <3>1. ~ job'.errors => AllServed(job.todo)'
      BY <1>2, <2>1, <2>3 DEF AllServed
    <3>2. /\ job'.todo \subseteq Planned
          /\ job'.doomed # {} => job'.todo = Planned
          /\ job'.todo = Planned \/ (job'.line \in Planned /\ job'.line.what = Delete)
      BY <1>1, <2>1 DEF LinesInv
    <3> QED
      BY <1>1, <3>1, <3>2 DEF LinesInv
  <2> QED
    BY <1>1, <1>3, <2>1, <2>4 DEF HostInv, At
<1>6. CASE JobUpsert(l)
  <2> DEFINE doc == [rec |-> l.what, group |-> l.group]
  <2>1. /\ job'.doomed = {} /\ l \in job.todo /\ job'.todo = job.todo \ {l}
        /\ job'.errors = job.errors /\ UNCHANGED walkEntry /\ l.what # Delete
        /\ \/ job'.pc = "load" /\ job'.line = l
           \/ job'.pc = "records" /\ walkEntry[l.host] # NoEntry
    BY <1>6 DEF JobUpsert, TypeOK, JobTypeOK
  <2>2. inventory' = [inventory EXCEPT ![l.host] = doc]
    BY <1>6 DEF JobUpsert
  <2>3. inventory'[l.host] = doc /\ \A h \in Hosts : h # l.host => inventory'[h] = inventory[h]
    BY <1>1, <2>2 DEF TypeOK, StoresTypeOK
  <2>4. ASSUME NEW k \in Lines, OnlyLineOf(k.host, k), k \notin job'.todo, ~ job.errors
        PROVE  Served(k)'
    <3>1. CASE k = l
      BY <2>1, <2>3, <3>1 DEF Served, At
    <3>2. CASE k # l
      <4>1. k \notin job.todo /\ k.host \in Hosts
        BY <2>1, <2>4, <3>2 DEF Lines
      <4>2. Served(k)
        BY <1>1, <2>4, <4>1 DEF LinesInv, AllServed
      <4>3. k.host # l.host
        BY <1>1, <2>1, <2>4, <3>2, OnlyLine DEF LinesInv
      <4> QED
        BY <1>4, <2>1, <2>3, <4>1, <4>2, <4>3 DEF Served
    <3> QED
      BY <3>1, <3>2
  <2>5. LinesInv'
    <3>1. ~ job'.errors => AllServed(job.todo)'
      BY <1>2, <2>1, <2>4 DEF AllServed
    <3> QED
      BY <1>1, <2>1, <3>1 DEF LinesInv, DropPcs
  <2> QED
    BY <1>1, <1>3, <2>1, <2>5 DEF HostInv, At
<1> QED
  BY <1>5, <1>6

(* The other steps of a run.                                               *)
LEMMA JobKeepsHosts ==
    ASSUME OwnKeysOnly, TypeOK, TypeOK', HostInv, JobAction
    PROVE  HostInv'
<1>1. UNCHANGED <<lines, groupsFile>> /\ Planned' = Planned
  BY JobSteps DEF Planned
<1>2. \A k \in Lines : OnlyLineOf(k.host, k)' <=> OnlyLineOf(k.host, k)
  BY <1>1 DEF OnlyLineOf
<1>3. job \in [pc : JobPcs, changed : BOOLEAN, previous : [Groups -> SUBSET Hosts],
               doomed : SUBSET Hosts, todo : SUBSET Lines, line : Lines \cup {NoLine},
               read : WalkEntries \cup {NoEntry}, errors : BOOLEAN]
  BY DEF TypeOK, JobTypeOK
<1>4. ASSUME jobDue', job'.pc \notin {"records", "load", "save"} \cup DropPcs
      PROVE  HostInv'
  BY <1>4 DEF HostInv, Recording, Applied
<1>5. ASSUME jobDue, UNCHANGED jobDue, LinesInv' PROVE HostInv'
  BY <1>5 DEF HostInv, Applied
<1>6. CASE \/ JobStart \/ JobCheckExpiry \/ JobDropWalks \/ JobDropPolls
           \/ JobClearProfiles \/ JobFillProfiles \/ JobClearGroups
  <2>1. jobDue'
    BY <1>6 DEF JobStart, JobCheckExpiry, JobDropWalks, JobDropPolls, JobClearProfiles,
                JobFillProfiles, JobClearGroups, At, HostInv
  <2>2. job'.pc \in {"expiry", "dropWalks", "dropPolls", "clearProfiles", "fillProfiles",
                     "clearGroups", "fillGroups"}
    BY <1>3, <1>6 DEF JobStart, JobCheckExpiry, JobDropWalks, JobDropPolls, JobClearProfiles,
                JobFillProfiles, JobClearGroups, Goto
  <2> QED
    BY <1>4, <2>1, <2>2 DEF DropPcs
<1>7. CASE JobFillGroups
  <2>1. /\ job'.pc = "records" /\ job'.todo = Planned /\ jobDue /\ UNCHANGED jobDue
    BY <1>3, <1>7 DEF JobFillGroups, Planned, At, HostInv
  <2>2. AllServed(job.todo)'
    BY <1>1, <2>1 DEF AllServed, OnlyLineOf
  <2>3. LinesInv'
    BY <1>1, <2>1, <2>2 DEF LinesInv, DropPcs
  <2> QED
    BY <1>5, <2>1, <2>3
<1>8. ASSUME NEW l \in Lines, JobDropSchedules(l) \/ JobUpsert(l) PROVE HostInv'
  BY <1>1, <1>8, RecordsKeepHosts
<1>9. ASSUME Recording, job'.todo = job.todo, job'.doomed \subseteq job.doomed,
             job'.errors = job.errors, UNCHANGED jobDue,
             job'.pc \in DropPcs => job.pc \in DropPcs /\ job'.line = job.line,
             \A k \in Lines : OnlyLineOf(k.host, k) /\ k \notin job.todo /\ Served(k) => Served(k)'
      PROVE  HostInv'
  <2>1. jobDue /\ LinesInv
    BY <1>9 DEF HostInv, Recording, DropPcs, At
  <2>2. LinesInv'
    <3>1. ~ job'.errors => AllServed(job.todo)'
      BY <1>2, <1>9, <2>1 DEF LinesInv, AllServed
    <3> QED
      BY <1>1, <1>9, <2>1, <3>1 DEF LinesInv
  <2> QED
    BY <1>5, <1>9, <2>1, <2>2
<1>10. CASE JobDropInventory
  <2>1. /\ job.pc = "dropInventory" /\ job'.pc = "dropTargets" /\ UNCHANGED <<jobDue, walkEntry>>
        /\ job'.line = job.line /\ job.line.host \in Hosts
        /\ job'.todo = job.todo /\ job'.doomed = job.doomed /\ job'.errors = job.errors
    BY <1>3, <1>10 DEF JobDropInventory, At, Goto, TypeOK, JobTypeOK, Lines
  <2>2. LinesInv /\ Recording
    BY <2>1 DEF HostInv, Recording, DropPcs
  <2>3. /\ inventory'[job.line.host] = NoDoc
        /\ \A h \in Hosts : h # job.line.host => inventory'[h] = inventory[h]
    BY <1>10, <2>1 DEF JobDropInventory, TypeOK, StoresTypeOK
  <2>4. ASSUME NEW k \in Lines, OnlyLineOf(k.host, k), k \notin job.todo, Served(k)
        PROVE  Served(k)'
    <3>1. job.todo # Planned
      BY <2>4 DEF OnlyLineOf
    <3>2. job.line \in Planned /\ job.line.what = Delete
      BY <2>1, <2>2, <3>1 DEF LinesInv, DropPcs
    <3>3. k.host = job.line.host => k = job.line
      BY <2>4, <3>2, OnlyLine
    <3>4. k.host \in Hosts
      BY DEF Lines
    <3> QED
      BY <2>1, <2>3, <2>4, <3>2, <3>3, <3>4 DEF Served, At
  <2> QED
    BY <1>9, <2>1, <2>2, <2>4 DEF DropPcs
<1>11. CASE JobDropTargets \/ JobDropAttributes
  <2>1. /\ job.pc \in {"dropTargets", "dropAttributes"} /\ job'.pc \in {"dropAttributes", "records"}
        /\ UNCHANGED <<jobDue, walkEntry, inventory>>
        /\ job'.pc = "dropAttributes" => job'.line = job.line
        /\ job'.todo = job.todo /\ job'.doomed \subseteq job.doomed /\ job'.errors = job.errors
    <3>1. CASE JobDropTargets
      BY <1>3, <3>1 DEF JobDropTargets, At, Goto
    <3>2. CASE JobDropAttributes
      <4>1. /\ job.pc = "dropAttributes" /\ UNCHANGED <<jobDue, walkEntry, inventory>>
            /\ job' = [job EXCEPT !.pc = "records", !.line = NoLine,
                                  !.doomed = job.doomed \ {job.line.host}]
        BY <3>2 DEF JobDropAttributes, At
      <4> QED
        BY <1>3, <4>1
    <3> QED
      BY <1>11, <3>1, <3>2
  <2>2. \A k \in Lines : Served(k) => Served(k)'
    BY <2>1 DEF Served, At
  <2> QED
    BY <1>9, <2>1, <2>2 DEF DropPcs, Recording
<1>12. CASE JobLoadWalk
  <2>1. /\ job.pc = "load" /\ job'.pc = "save" /\ UNCHANGED <<jobDue, walkEntry, inventory>>
        /\ job'.line = job.line
        /\ job'.todo = job.todo /\ job'.doomed = job.doomed /\ job'.errors = job.errors
    BY <1>3, <1>12 DEF JobLoadWalk, At
  <2>2. \A k \in Lines : Served(k) => Served(k)'
    BY <2>1 DEF Served, At
  <2> QED
    BY <1>9, <2>1, <2>2 DEF DropPcs, Recording
<1>13. CASE JobSaveWalk
  <2>1. /\ job.pc = "save" /\ job'.pc = "records" /\ UNCHANGED <<jobDue, inventory>>
        /\ job'.todo = job.todo /\ job'.doomed = job.doomed /\ job'.errors = job.errors
    BY <1>3, <1>13 DEF JobSaveWalk, At
  <2>2. /\ job.line \in Lines /\ job.line.host \in Hosts /\ job.line.what \in Records
        /\ expiry \in Expiries /\ job.read \in WalkEntries \cup {NoEntry}
    BY <2>1 DEF TypeOK, JobTypeOK, ConfigTypeOK, Lines
  <2> DEFINE profile == WalkProfileOf[profilesFile][job.line.what]
  <2>3. ManagedWalk(job.read, job.line.what, profile, expiry) # NoEntry
    <3>1. profile \in WalkProfiles
      BY <2>2, WalkProfileAssumption DEF TypeOK, ConfigTypeOK
    <3> QED
      BY <2>2, <3>1, ManagedTypes, SentinelsAssumption
  <2>4. /\ walkEntry'[job.line.host] # NoEntry
        /\ \A h \in Hosts : h # job.line.host => walkEntry'[h] = walkEntry[h]
    BY <1>13, <2>2, <2>3 DEF JobSaveWalk, TypeOK, StoresTypeOK
  <2>5. \A k \in Lines : Served(k) => Served(k)'
    BY <2>1, <2>4 DEF Served, At, Lines
  <2> QED
    BY <1>9, <2>1, <2>5 DEF DropPcs, Recording
<1>14. CASE JobFinish
  <2>1. /\ job.pc = "records" /\ job.todo = {} /\ job'.pc = "idle" /\ jobDue' = job.errors
        /\ UNCHANGED <<inventory, walkEntry>>
    BY <1>14 DEF JobFinish, At, IdleJob
  <2>2. LinesInv
    BY <2>1 DEF HostInv, Recording
  <2>3. \A k \in Lines : Served(k) => Served(k)'
    BY <2>1 DEF Served, At
  <2>4. ~ job.errors => AllServed({})'
    BY <1>2, <2>1, <2>2, <2>3 DEF LinesInv, AllServed
  <2> QED
    BY <2>1, <2>4 DEF HostInv, Applied, At, Recording, DropPcs
<1>15. CASE JobCrash
  <2>1. jobDue' /\ job'.pc = "idle"
    BY <1>15 DEF JobCrash, IdleJob, HostInv
  <2> QED
    BY <1>4, <2>1 DEF DropPcs
<1>16. CASE JobRecordFails
  <2>1. UNCHANGED jobDue /\ job.pc \in {"records", "load", "save"} \cup DropPcs
    BY <1>16 DEF JobRecordFails, At, DropPcs
  <2>2. jobDue /\ LinesInv
    BY <2>1 DEF HostInv, At, Recording, DropPcs
  <2>3. /\ job'.pc = "records" /\ job'.errors = TRUE /\ job'.doomed = job.doomed
        /\ job'.todo = job.todo \/ (job.doomed = {} /\ job'.todo \subseteq job.todo)
    <3>1. CASE At("records") /\ job.doomed = {}
               /\ \E l \in job.todo : job' = [job EXCEPT !.todo = @ \ {l}, !.errors = TRUE]
      <4>1. PICK l \in job.todo : job' = [job EXCEPT !.todo = job.todo \ {l}, !.errors = TRUE]
        BY <3>1
      <4> QED
        BY <1>3, <3>1, <4>1 DEF At
    <3>2. CASE job' = [job EXCEPT !.pc = "records", !.line = NoLine,
                                  !.read = NoEntry, !.errors = TRUE]
      BY <1>3, <3>2
    <3> QED
      BY <1>16, <3>1, <3>2 DEF JobRecordFails
  <2>4. LinesInv'
    BY <1>1, <2>2, <2>3 DEF LinesInv, DropPcs
  <2> QED
    BY <1>5, <2>1, <2>2, <2>4
<1> QED
  BY <1>6, <1>7, <1>8, <1>10, <1>11, <1>12, <1>13, <1>14, <1>15, <1>16 DEF JobAction, JobStep

LEMMA NextKeepsHosts ==
    ASSUME OwnKeysOnly, TypeOK, TypeOK', HostInv, [Next]_vars
    PROVE  HostInv'
<1>1. ASSUME UNCHANGED <<lines, groupsFile, inventory, job, jobDue>>,
             \A h \in Hosts : walkEntry[h] # NoEntry => walkEntry'[h] # NoEntry
      PROVE  HostInv'
  <2>1. \A k \in Lines : Served(k) => Served(k)'
    BY <1>1, ServedStays DEF Lines
  <2>2. Planned' = Planned
    BY <1>1 DEF Planned
  <2>3. \A k \in Lines : OnlyLineOf(k.host, k)' <=> OnlyLineOf(k.host, k)
    BY <2>2 DEF OnlyLineOf
  <2>4. AllServed({}) => AllServed({})'
    BY <2>1, <2>3 DEF AllServed
  <2>5. AllServed(job.todo) => AllServed(job.todo)'
    BY <1>1, <2>1, <2>3 DEF AllServed
  <2>6. LinesInv => LinesInv'
    BY <1>1, <2>2, <2>5 DEF LinesInv
  <2> QED
    BY <1>1, <2>4, <2>6 DEF HostInv, Applied, At, Recording
<1>2. CASE EditConfiguration
  BY <1>2, EditSteps DEF HostInv, Applied, At, Recording, DropPcs
<1>3. ASSUME NEW c \in Chains, ChainAction(c) \/ WorkerLost(c) PROVE HostInv'
  BY <1>1, <1>3, ChainSteps, ChainsKeepWalks
<1>4. CASE UNCHANGED vars
  BY <1>1, <1>4 DEF vars
<1> QED
  BY <1>2, <1>3, <1>4, JobKeepsHosts DEF Next

(* load(), whatever crashes, failing records, repetitions and chains come  *)
(* in between: when it has completed, every host with one line has its     *)
(* document and its walk entry, and a deleted host no document - provided  *)
(* that the pattern of no host matches the keys of another one.            *)
THEOREM HostsAreRemembered == OwnKeysOnly => (Spec => []NoHostForgotten)
<1> SUFFICES ASSUME OwnKeysOnly PROVE Spec => []NoHostForgotten
  OBVIOUS
<1>1. Init => TypeOK /\ HostInv
  BY InitTypeOK, InitHostInv
<1>2. TypeOK /\ HostInv /\ [Next]_vars => TypeOK' /\ HostInv'
  BY NextKeepsTypes, NextKeepsHosts
<1>3. HostInv => NoHostForgotten
  BY DEF HostInv, NoHostForgotten, AllServed, Served, Applied, At
<1> QED
  BY <1>1, <1>2, <1>3, PTL DEF Spec

-----------------------------------------------------------------------------
(* As long as no device has restarted.                                     *)

(* Then no chain is between reading a walk entry and saving it again.      *)
NoneRestarted ==
    restarts = 0 => \A c \in Chains : ~ AtStage(c, "restart") /\ ~ AtStage(c, "restartSave")

(* A chain gets to the saving only through check_restart.                  *)
LEMMA ChainsRestart ==
    ASSUME TypeOK, NEW c \in Chains, ChainAction(c) \/ WorkerLost(c)
    PROVE  /\ \A d \in Chains \ {c} : chain'[d] = chain[d]
           /\ AtStage(c, "restart")' => restarts' = restarts + 1
           /\ AtStage(c, "restartSave")' => AtStage(c, "restart")
<1> DEFINE Goal == /\ \A d \in Chains \ {c} : chain'[d] = chain[d]
                   /\ AtStage(c, "restart")' => restarts' = restarts + 1
                   /\ AtStage(c, "restartSave")' => AtStage(c, "restart")
           OnItsWay(k) == k = Idle \/ k.stage \notin {"restart", "restartSave"}
<1> SUFFICES Goal
  OBVIOUS
<1>1. chain \in [Chains -> WellFormedChains \cup {Idle}]
  BY DEF TypeOK, ChainsTypeOK
<1>2. ASSUME NEW k, Store(c, k)
      PROVE  chain'[c] = k /\ \A d \in Chains \ {c} : chain'[d] = chain[d]
  BY <1>1, <1>2 DEF Store
<1>3. ASSUME chain[c] # Idle PROVE chain[c] \in ActiveChains
  BY <1>1, <1>3 DEF WellFormedChains
<1>4. ASSUME NEW k, Store(c, k), OnItsWay(k) PROVE Goal
  BY <1>2, <1>4 DEF AtStage
<1>5. ASSUME NEW s, chain[c] # Idle PROVE [chain[c] EXCEPT !.stage = s].stage = s
  BY <1>3, <1>5 DEF ActiveChains
<1>6. OnItsWay(Idle)
  OBVIOUS
<1>7. ASSUME NEW s \in {"enrich", "attributes", "setup"}, chain[c] # Idle, Enter(c, s)
      PROVE  Goal
  <2>1. OnItsWay([chain[c] EXCEPT !.stage = s])
    BY <1>5, <1>7
  <2> HIDE DEF OnItsWay, Goal
  <2> QED
    BY <1>4, <1>7, <2>1 DEF Enter
<1>8. ASSUME End(c) PROVE Goal
  <2> HIDE DEF OnItsWay, Goal
  <2> QED
    BY <1>4, <1>6, <1>8 DEF End
<1>9. CASE RestartLoad(c)
  <2>1. AtStage(c, "restart") /\ chain[c] # Idle
    BY <1>9 DEF RestartLoad, AtStage
  <2>2. CASE Enter(c, "attributes")
    <3> HIDE DEF Goal
    <3> QED
      BY <1>7, <2>1, <2>2
  <2>3. CASE Store(c, [chain[c] EXCEPT !.stage = "restartSave",
                                       !.read = walkEntry[chain[c].host]])
    <3> DEFINE k == [chain[c] EXCEPT !.stage = "restartSave",
                                     !.read = walkEntry[chain[c].host]]
    <3>1. k.stage = "restartSave"
      BY <1>3, <2>1 DEF ActiveChains
    <3> HIDE DEF k
    <3>2. chain'[c] = k /\ \A d \in Chains \ {c} : chain'[d] = chain[d]
      BY <1>2, <2>3 DEF k
    <3> QED
      BY <2>1, <3>1, <3>2 DEF AtStage
  <2>4. \/ Enter(c, "attributes")
        \/ Store(c, [chain[c] EXCEPT !.stage = "restartSave",
                                      !.read = walkEntry[chain[c].host]])
    BY <1>9 DEF RestartLoad
  <2> QED
    BY <2>2, <2>3, <2>4
<1>10. CASE EnrichTarget(c)
  <2>1. chain[c] # Idle
    BY <1>10 DEF EnrichTarget, AtStage
  <2>2. CASE Enter(c, "attributes")
    <3> HIDE DEF Goal
    <3> QED
      BY <1>7, <2>1, <2>2
  <2>3. CASE Enter(c, "restart") /\ restarts' = restarts + 1
    <3>1. chain'[c].stage = "restart"
      BY <1>2, <1>5, <2>1, <2>3 DEF Enter
    <3> QED
      BY <1>2, <2>3, <3>1 DEF AtStage, Enter
  <2> QED
    BY <1>10, <2>2, <2>3 DEF EnrichTarget
<1>11. CASE RestartSave(c)
  <2> DEFINE k == [chain[c] EXCEPT !.stage = "attributes", !.read = NoEntry]
  <2>1. Store(c, k) /\ chain[c] # Idle
    BY <1>11 DEF RestartSave, AtStage
  <2>2. k.stage = "attributes"
    BY <1>3, <2>1 DEF ActiveChains
  <2>3. OnItsWay(k)
    BY <2>2
  <2> HIDE DEF OnItsWay, Goal, k
  <2> QED
    BY <1>4, <2>1, <2>3
<1>12. CASE EnrichAttributes(c) \/ Collect(c) \/ GiveUp(c)
  <2>1. chain[c] # Idle /\ (End(c) \/ \E s \in {"enrich", "attributes", "setup"} : Enter(c, s))
    BY <1>12 DEF EnrichAttributes, Collect, GiveUp, AtStage
  <2> HIDE DEF OnItsWay, Goal
  <2> QED
    BY <1>7, <1>8, <2>1
<1>13. CASE \E h \in Hosts : FireWalk(c, h) \/ \E p \in Periods : FirePoll(c, h, p)
  <2>1. \E s \in {"walk", "poll"}, h \in Hosts : \E exp : Store(c, NewChain(s, h, exp))
    BY <1>13 DEF FireWalk, FirePoll
  <2>2. \A s \in {"walk", "poll"}, h \in Hosts : \A exp : NewChain(s, h, exp).stage = s
    BY DEF NewChain
  <2>3. \A s \in {"walk", "poll"}, h \in Hosts : \A exp : OnItsWay(NewChain(s, h, exp))
    BY <2>2
  <2> HIDE DEF OnItsWay, Goal
  <2> QED
    BY <1>4, <2>1, <2>3
<1>14. CASE SetupReadProfiles(c)
  <2> DEFINE k == [chain[c] EXCEPT !.stage = "inventory", !.profiles = profiles]
  <2>1. Store(c, k) /\ chain[c] # Idle
    BY <1>14 DEF SetupReadProfiles, AtStage
  <2>2. k.stage = "inventory"
    BY <1>3, <2>1 DEF ActiveChains
  <2>3. OnItsWay(k)
    BY <2>2
  <2> HIDE DEF OnItsWay, Goal, k
  <2> QED
    BY <1>4, <2>1, <2>3
<1>15. CASE SetupReadInventory(c)
  <2> DEFINE k(want) == [chain[c] EXCEPT !.stage = "schedule", !.want = want, !.left = want]
  <2>1. chain[c] # Idle /\ (End(c) \/ \E want : Store(c, k(want)))
    BY <1>15 DEF SetupReadInventory, AtStage
  <2>2. \A want : k(want).stage = "schedule"
    BY <1>3, <2>1 DEF ActiveChains
  <2>3. \A want : OnItsWay(k(want))
    BY <2>2
  <2> HIDE DEF OnItsWay, Goal, k
  <2> QED
    BY <1>4, <1>8, <2>1, <2>3
<1>16. CASE \E p \in Periods : SetupLoadPoll(c, p)
  <2> DEFINE k(left, p, read) == [chain[c] EXCEPT !.stage = "savePoll", !.left = left,
                                                  !.period = p, !.read = read]
  <2>1. chain[c] # Idle /\ \E left, p, read : Store(c, k(left, p, read))
    BY <1>16 DEF SetupLoadPoll, AtStage
  <2>2. \A left, p, read : k(left, p, read).stage = "savePoll"
    BY <1>3, <2>1 DEF ActiveChains
  <2>3. \A left, p, read : OnItsWay(k(left, p, read))
    BY <2>2
  <2> HIDE DEF OnItsWay, Goal, k
  <2> QED
    BY <1>4, <2>1, <2>3
<1>17. CASE SetupSavePoll(c)
  <2> DEFINE k == [chain[c] EXCEPT !.stage = "schedule", !.period = NoEntry, !.read = NoEntry]
  <2>1. Store(c, k) /\ chain[c] # Idle
    BY <1>17 DEF SetupSavePoll, AtStage
  <2>2. k.stage = "schedule"
    BY <1>3, <2>1 DEF ActiveChains
  <2>3. OnItsWay(k)
    BY <2>2
  <2> HIDE DEF OnItsWay, Goal, k
  <2> QED
    BY <1>4, <2>1, <2>3
<1>18. CASE SetupPrune(c)
  <2> HIDE DEF Goal
  <2> QED
    BY <1>8, <1>18 DEF SetupPrune
<1>19. CASE WorkerLost(c)
  <2> DEFINE e == [chain[c] EXCEPT !.stage = "enrich", !.read = NoEntry]
             s == [chain[c] EXCEPT !.stage = "setup", !.profiles = NoProfiles, !.want = {},
                                   !.left = {}, !.period = NoEntry, !.read = NoEntry]
  <2>1. chain[c] # Idle /\ (Store(c, e) \/ Store(c, s))
    BY <1>19 DEF WorkerLost, Redeliver
  <2>2. e.stage = "enrich" /\ s.stage = "setup"
    BY <1>3, <2>1 DEF ActiveChains
  <2>3. OnItsWay(e) /\ OnItsWay(s)
    BY <2>2
  <2> HIDE DEF OnItsWay, Goal, e, s
  <2> QED
    BY <1>4, <2>1, <2>3
<1> HIDE DEF Goal
<1> QED
  BY <1>9, <1>10, <1>11, <1>12, <1>13, <1>14, <1>15, <1>16, <1>17, <1>18, <1>19
     DEF ChainAction, ChainStep

LEMMA NextKeepsNoneRestarted ==
    ASSUME TypeOK, NoneRestarted, [Next]_vars
    PROVE  NoneRestarted'
<1>1. CASE UNCHANGED <<chain, restarts>>
  BY <1>1 DEF NoneRestarted, AtStage
<1>2. ASSUME NEW c \in Chains, ChainAction(c) \/ WorkerLost(c) PROVE NoneRestarted'
  <2>1. restarts \in Nat /\ restarts' \in {restarts, restarts + 1}
    BY <1>2, ChainSteps DEF TypeOK, ChainsTypeOK
  <2> SUFFICES ASSUME restarts' = 0, NEW d \in Chains
               PROVE  ~ AtStage(d, "restart")' /\ ~ AtStage(d, "restartSave")'
    BY DEF NoneRestarted
  <2>2. restarts = 0 /\ restarts' # restarts + 1
    BY <2>1
  <2>3. CASE d = c
    BY <1>2, <2>2, <2>3, ChainsRestart DEF NoneRestarted
  <2>4. CASE d # c
    BY <1>2, <2>2, <2>4, ChainsRestart DEF NoneRestarted, AtStage
  <2> QED
    BY <2>3, <2>4
<1>3. CASE EditConfiguration \/ JobAction \/ UNCHANGED vars
  BY <1>1, <1>3, EditSteps, JobSteps DEF vars
<1> QED
  BY <1>2, <1>3 DEF Next

LEMMA InitNoneRestarted == Init => NoneRestarted
BY DEF Init, ChainsInit, NoneRestarted, AtStage

(* Without a restart no chain writes a walk entry.                         *)
LEMMA ChainsLeaveWalks ==
    ASSUME TypeOK, NoneRestarted, NEW c \in Chains, ChainAction(c) \/ WorkerLost(c),
           restarts' = 0
    PROVE  restarts = 0 /\ UNCHANGED walkEntry
<1>1. restarts \in Nat /\ restarts' \in {restarts, restarts + 1}
  BY ChainSteps DEF TypeOK, ChainsTypeOK
<1>2. restarts = 0
  BY <1>1
<1> QED
  BY <1>2, ChainSteps DEF NoneRestarted

-----------------------------------------------------------------------------
(* A changed expiry time reaches every walk.                               *)
Expires(exp) == \A h \in Hosts : walkEntry[h] # NoEntry => walkEntry[h].expires = exp

(* From the comparison on, the entries that are there have the configured  *)
(* expiry time, those of other values having been deleted; so has the one  *)
(* that manage_task is about to save again.                                *)
ExpiryInv ==
    /\ ~ At("idle") => jobDue
    /\ restarts = 0 =>
        /\ Applied \/ job.pc \notin {"idle", "expiry", "dropWalks"} => Expires(expiry)
        /\ At("save") /\ job.read # NoEntry => job.read.expires = expiry

LEMMA JobKeepsExpiry ==
    ASSUME TypeOK, TypeOK', ExpiryInv, JobAction
    PROVE  ExpiryInv'
<1>1. UNCHANGED <<expiry, restarts>>
  BY JobSteps
<1>2. job \in [pc : JobPcs, changed : BOOLEAN, previous : [Groups -> SUBSET Hosts],
               doomed : SUBSET Hosts, todo : SUBSET Lines, line : Lines \cup {NoLine},
               read : WalkEntries \cup {NoEntry}, errors : BOOLEAN]
  BY DEF TypeOK, JobTypeOK
<1>3. ASSUME jobDue', job'.pc \in {"idle", "expiry", "dropWalks"} PROVE ExpiryInv'
  BY <1>3 DEF ExpiryInv, Applied, At
<1>4. ASSUME jobDue, UNCHANGED jobDue, job'.pc # "save", restarts = 0 => Expires(expiry)'
      PROVE  ExpiryInv'
  BY <1>1, <1>4 DEF ExpiryInv, At
<1>5. CASE JobStart \/ JobCrash
  <2>1. jobDue' /\ job'.pc \in {"idle", "expiry"}
    BY <1>2, <1>5 DEF JobStart, JobCrash, IdleJob, ExpiryInv, Goto
  <2> QED
    BY <1>3, <2>1
<1>6. CASE JobCheckExpiry
  <2>1. UNCHANGED <<jobDue, walkEntry>> /\ jobDue
    BY <1>6 DEF JobCheckExpiry, ExpiryInv, At
  <2>2. CASE StoredExpiries # {} /\ StoredExpiries # {expiry}
    <3>1. job'.pc = "dropWalks"
      BY <1>2, <1>6, <2>2 DEF JobCheckExpiry
    <3> QED
      BY <1>3, <2>1, <3>1
  <2>3. CASE ~ (StoredExpiries # {} /\ StoredExpiries # {expiry})
    <3>1. job'.pc = "clearProfiles"
      BY <1>2, <1>6, <2>3 DEF JobCheckExpiry
    <3>2. Expires(expiry)
      BY <2>3 DEF Expires, StoredExpiries
    <3>3. Expires(expiry)'
      BY <1>1, <2>1, <3>2 DEF Expires
    <3> QED
      BY <1>4, <2>1, <3>1, <3>3
  <2> QED
    BY <2>2, <2>3
<1>7. CASE JobDropWalks
  <2>1. UNCHANGED jobDue /\ jobDue /\ job'.pc = "dropPolls"
    BY <1>2, <1>7 DEF JobDropWalks, ExpiryInv, At, Goto
  <2>2. Expires(expiry)'
    BY <1>7 DEF JobDropWalks, Expires
  <2> QED
    BY <1>4, <2>1, <2>2
<1>8. CASE \/ JobDropPolls \/ JobClearProfiles \/ JobFillProfiles \/ JobClearGroups
           \/ JobFillGroups \/ JobDropInventory \/ JobDropTargets \/ JobDropAttributes
  <2>1. UNCHANGED <<jobDue, walkEntry>> /\ jobDue /\ job.pc \notin {"idle", "expiry", "dropWalks"}
    BY <1>8 DEF JobDropPolls, JobClearProfiles, JobFillProfiles, JobClearGroups, JobFillGroups,
                JobDropInventory, JobDropTargets, JobDropAttributes, ExpiryInv, At
  <2>2. job'.pc # "save"
    BY <1>2, <1>8 DEF JobDropPolls, JobClearProfiles, JobFillProfiles, JobClearGroups,
                JobFillGroups, JobDropInventory, JobDropTargets, JobDropAttributes, Goto
  <2>3. restarts = 0 => Expires(expiry)'
    BY <1>1, <2>1 DEF ExpiryInv, Expires
  <2> QED
    BY <1>4, <2>1, <2>2, <2>3
<1>9. ASSUME NEW l \in Lines, JobDropSchedules(l) PROVE ExpiryInv'
  <2>1. UNCHANGED jobDue /\ jobDue /\ job.pc = "records" /\ job'.pc # "save"
    BY <1>2, <1>9 DEF JobDropSchedules, ExpiryInv, At
  <2>2. Expires(expiry) => Expires(expiry)'
    BY <1>1, <1>9 DEF JobDropSchedules, WithoutWalksOf, Expires
  <2> QED
    BY <1>4, <2>1, <2>2 DEF ExpiryInv
<1>10. ASSUME NEW l \in Lines, JobUpsert(l) PROVE ExpiryInv'
  <2>1. UNCHANGED <<jobDue, walkEntry>> /\ jobDue /\ job.pc = "records" /\ job'.pc # "save"
    BY <1>2, <1>10 DEF JobUpsert, ExpiryInv, At
  <2>2. Expires(expiry) => Expires(expiry)'
    BY <1>1, <2>1 DEF Expires
  <2> QED
    BY <1>4, <2>1, <2>2 DEF ExpiryInv
<1>11. CASE JobLoadWalk
  <2>1. /\ UNCHANGED <<jobDue, walkEntry>> /\ jobDue /\ job.pc = "load" /\ job'.pc = "save"
        /\ job'.read = walkEntry[job.line.host] /\ job.line.host \in Hosts
    BY <1>2, <1>11 DEF JobLoadWalk, ExpiryInv, At, TypeOK, JobTypeOK, Lines
  <2>2. restarts = 0 => Expires(expiry)
    BY <2>1 DEF ExpiryInv
  <2> QED
    BY <1>1, <2>1, <2>2 DEF ExpiryInv, Expires, At
<1>12. CASE JobSaveWalk
  <2>1. /\ UNCHANGED jobDue /\ jobDue /\ job.pc = "save" /\ job'.pc = "records"
        /\ job.line.host \in Hosts
    BY <1>2, <1>12 DEF JobSaveWalk, ExpiryInv, At, TypeOK, JobTypeOK, Lines
  <2>2. restarts = 0 => ManagedWalk(job.read, job.line.what,
                            WalkProfileOf[profilesFile][job.line.what], expiry).expires = expiry
    BY <2>1 DEF ManagedWalk, ExpiryInv, At
  <2>3. restarts = 0 => Expires(expiry)'
    BY <1>1, <1>12, <2>1, <2>2
       DEF JobSaveWalk, Expires, ExpiryInv, TypeOK, StoresTypeOK
  <2> QED
    BY <1>4, <2>1, <2>3
<1>13. CASE JobFinish
  <2>1. UNCHANGED walkEntry /\ job.pc = "records" /\ job'.pc = "idle"
    BY <1>13 DEF JobFinish, IdleJob, At
  <2>2. restarts = 0 => Expires(expiry)'
    BY <1>1, <2>1 DEF ExpiryInv, Expires
  <2> QED
    BY <1>1, <2>1, <2>2 DEF ExpiryInv, At
<1>14. CASE JobRecordFails
  <2>1. /\ UNCHANGED <<jobDue, walkEntry>>
        /\ job.pc \in {"records", "dropInventory", "dropTargets", "dropAttributes", "load", "save"}
    BY <1>14 DEF JobRecordFails, At
  <2>2. jobDue
    BY <2>1 DEF ExpiryInv, At
  <2>3. job'.pc # "save"
    <3>1. CASE At("records") /\ \E l \in job.todo :
                    job' = [job EXCEPT !.todo = @ \ {l}, !.errors = TRUE]
      <4>1. PICK l \in job.todo : job' = [job EXCEPT !.todo = job.todo \ {l}, !.errors = TRUE]
        BY <3>1
      <4> QED
        BY <1>2, <3>1, <4>1 DEF At
    <3>2. CASE job' = [job EXCEPT !.pc = "records", !.line = NoLine, !.read = NoEntry,
                                  !.errors = TRUE]
      BY <1>2, <3>2
    <3> QED
      BY <1>14, <3>1, <3>2 DEF JobRecordFails
  <2>4. restarts = 0 => Expires(expiry)'
    BY <1>1, <2>1 DEF ExpiryInv, Expires
  <2> QED
    BY <1>4, <2>1, <2>2, <2>3, <2>4
<1> QED
  BY <1>5, <1>6, <1>7, <1>8, <1>9, <1>10, <1>11, <1>12, <1>13, <1>14 DEF JobAction, JobStep

LEMMA NextKeepsExpiry ==
    ASSUME TypeOK, TypeOK', NoneRestarted, ExpiryInv, [Next]_vars
    PROVE  ExpiryInv'
<1>1. CASE EditConfiguration
  BY <1>1, EditSteps DEF ExpiryInv, Applied, At
<1>2. ASSUME NEW c \in Chains, ChainAction(c) \/ WorkerLost(c) PROVE ExpiryInv'
  <2>1. UNCHANGED <<expiry, job, jobDue>>
    BY <1>2, ChainSteps
  <2>2. restarts' = 0 => restarts = 0 /\ UNCHANGED walkEntry
    BY <1>2, ChainsLeaveWalks
  <2>3. restarts' = 0 /\ Expires(expiry) => Expires(expiry)'
    BY <2>1, <2>2 DEF Expires
  <2> QED
    BY <2>1, <2>2, <2>3 DEF ExpiryInv, Applied, At
<1>3. CASE UNCHANGED vars
  BY <1>3 DEF vars, ExpiryInv, Applied, At, Expires
<1> QED
  BY <1>1, <1>2, <1>3, JobKeepsExpiry DEF Next

(* did_expiry_time_change, with crashes, failing records and repetitions:  *)
(* when the job has completed every walk entry has the configured expiry   *)
(* time, unless a device has restarted.  No assumption on the patterns is  *)
(* needed: a deletion that hits another host only removes entries.         *)
THEOREM ExpiryReachesWalks == Spec => []WalkExpiryApplied
<1>1. Init => TypeOK /\ NoneRestarted /\ ExpiryInv
  <2>1. Init => ExpiryInv
    BY DEF Init, StoresInit, JobInit, IdleJob, ExpiryInv, Expires, At, Applied
  <2> QED
    BY <2>1, InitTypeOK, InitNoneRestarted
<1>2. TypeOK /\ NoneRestarted /\ ExpiryInv /\ [Next]_vars
        => TypeOK' /\ NoneRestarted' /\ ExpiryInv'
  BY NextKeepsTypes, NextKeepsNoneRestarted, NextKeepsExpiry
<1>3. ExpiryInv => WalkExpiryApplied
  BY DEF ExpiryInv, WalkExpiryApplied, Expires
<1> QED
  BY <1>1, <1>2, <1>3, PTL DEF Spec

-----------------------------------------------------------------------------
(* Walks follow the inventory and the profiles.                            *)

(* The walk follows the document and the configured profiles, unless the   *)
(* job is about to register it or the host is behind.                      *)
WalkOf(h) == inventory[h] # NoDoc /\ walkEntry[h] # NoEntry
Follows(h) ==
    /\ walkEntry[h].rec = inventory[h].rec
    /\ walkEntry[h].profile = WalkProfileOf[profilesFile][inventory[h].rec]
Registering(h) == job.pc \in {"load", "save"} /\ job.line.host = h

WalkInv ==
    /\ job.pc \in {"load", "save"} =>
        /\ inventory[job.line.host] # NoDoc
        /\ inventory[job.line.host].rec = job.line.what
    /\ \A h \in Hosts \ behind : WalkOf(h) => Follows(h) \/ Registering(h)

(* A host with a walk entry is behind after a step unless the job has      *)
(* saved the entry, or the host was not behind and the step is none that   *)
(* leaves it behind.                                                       *)
LEMMA NotBehind ==
    ASSUME RecordBehind, NEW h \in Hosts, h \notin behind', walkEntry'[h] # NoEntry
    PROVE  \/ Registering(h) /\ job'.pc \notin {"load", "save"} /\ faults' = faults
           \/ /\ h \notin behind
              /\ Registering(h) => job'.pc \in {"load", "save"}
              /\ job' = job => walkEntry'[h] = walkEntry[h]
              /\ inventory[h] # NoDoc =>
                    WalkProfileOf[profilesFile'][inventory[h].rec]
                        = WalkProfileOf[profilesFile][inventory[h].rec]
BY DEF RecordBehind, Registering

LEMMA JobKeepsWalks ==
    ASSUME TypeOK, WalkInv, RecordBehind, JobStep, UNCHANGED profilesFile
    PROVE  WalkInv'
<1>1. job \in [pc : JobPcs, changed : BOOLEAN, previous : [Groups -> SUBSET Hosts],
               doomed : SUBSET Hosts, todo : SUBSET Lines, line : Lines \cup {NoLine},
               read : WalkEntries \cup {NoEntry}, errors : BOOLEAN]
  BY DEF TypeOK, JobTypeOK
<1>2. ASSUME job.pc \notin {"load", "save"}, job'.pc \notin {"load", "save"},
             \A h \in Hosts : WalkOf(h)' =>
                WalkOf(h) /\ inventory'[h] = inventory[h] /\ walkEntry'[h] = walkEntry[h]
      PROVE  WalkInv'
  <2>1. ASSUME NEW h \in Hosts, h \notin behind', WalkOf(h)'
        PROVE  Follows(h)'
    <3>1. h \notin behind /\ ~ Registering(h)
      BY <1>2, <2>1, NotBehind DEF WalkOf, Registering
    <3>2. Follows(h)
      BY <1>2, <2>1, <3>1 DEF WalkInv
    <3> QED
      BY <1>2, <2>1, <3>2 DEF Follows
  <2> QED
    BY <1>2, <2>1 DEF WalkInv
<1>3. CASE \/ JobStart \/ JobCheckExpiry \/ JobDropWalks \/ JobDropPolls
           \/ JobClearProfiles \/ JobFillProfiles \/ JobClearGroups \/ JobFillGroups
           \/ JobDropTargets \/ JobDropAttributes \/ JobFinish
  <2>1. /\ UNCHANGED inventory /\ job.pc \notin {"load", "save"}
        /\ UNCHANGED walkEntry \/ walkEntry' = [h \in Hosts |-> NoEntry]
    BY <1>3 DEF JobStart, JobCheckExpiry, JobDropWalks, JobDropPolls, JobClearProfiles,
                JobFillProfiles, JobClearGroups, JobFillGroups, JobDropTargets,
                JobDropAttributes, JobFinish, At
  <2>2. job'.pc \notin {"load", "save"}
    <3>1. CASE JobStart \/ JobCheckExpiry \/ JobDropWalks \/ JobDropPolls
      BY <1>1, <3>1 DEF JobStart, JobCheckExpiry, JobDropWalks, JobDropPolls, Goto
    <3>2. CASE JobClearProfiles \/ JobFillProfiles \/ JobClearGroups \/ JobFillGroups
      BY <1>1, <3>2 DEF JobClearProfiles, JobFillProfiles, JobClearGroups, JobFillGroups, Goto
    <3>3. CASE JobDropTargets \/ JobDropAttributes
      BY <1>1, <3>3 DEF JobDropTargets, JobDropAttributes, Goto
    <3>4. CASE JobFinish
      BY <3>4 DEF JobFinish, IdleJob
    <3> QED
      BY <1>3, <3>1, <3>2, <3>3, <3>4
  <2> QED
    BY <1>2, <2>1, <2>2 DEF WalkOf
<1>4. ASSUME NEW l \in Lines, JobDropSchedules(l) PROVE WalkInv'
  <2>1. UNCHANGED inventory /\ job.pc = "records" /\ job'.pc = "dropInventory"
    BY <1>1, <1>4 DEF JobDropSchedules, At
  <2>2. walkEntry' = [x \in Hosts |-> IF x \in Matches[l.host] THEN NoEntry ELSE walkEntry[x]]
    BY <1>4 DEF JobDropSchedules, WithoutWalksOf
  <2> QED
    BY <1>2, <2>1, <2>2 DEF WalkOf
<1>5. CASE JobDropInventory
  <2>1. /\ UNCHANGED walkEntry /\ job.pc = "dropInventory" /\ job'.pc = "dropTargets"
        /\ inventory' = [inventory EXCEPT ![job.line.host] = NoDoc]
    BY <1>1, <1>5 DEF JobDropInventory, At, Goto
  <2> QED
    BY <1>2, <2>1 DEF WalkOf, TypeOK, StoresTypeOK
<1>6. ASSUME NEW l \in Lines, JobUpsert(l) PROVE WalkInv'
  <2> DEFINE doc == [rec |-> l.what, group |-> l.group]
  <2>1. /\ UNCHANGED walkEntry /\ job.pc = "records" /\ l.host \in Hosts /\ doc # NoDoc
        /\ inventory' = [inventory EXCEPT ![l.host] = doc]
    <3>1. doc \in Docs
      BY <1>6 DEF JobUpsert, Docs, Lines
    <3> QED
      BY <1>6, <3>1, SentinelsAssumption DEF JobUpsert, At, Lines
  <2>2. /\ inventory'[l.host] = doc /\ doc.rec = l.what
        /\ \A h \in Hosts : h # l.host => inventory'[h] = inventory[h]
    BY <2>1 DEF TypeOK, StoresTypeOK
  <2>3. CASE inventory[l.host] # doc \/ job.changed \/ walkEntry[l.host] = NoEntry
    <3>1. job'.pc = "load" /\ job'.line = l
      BY <1>1, <1>6, <2>3 DEF JobUpsert
    <3>2. ASSUME NEW h \in Hosts, h \notin behind', WalkOf(h)', h # l.host
          PROVE  Follows(h)'
      <4>1. h \notin behind /\ ~ Registering(h)
        BY <2>1, <3>2, NotBehind DEF WalkOf, Registering
      <4>2. Follows(h)
        BY <2>1, <2>2, <3>2, <4>1 DEF WalkInv, WalkOf
      <4> QED
        BY <2>1, <2>2, <3>2, <4>2 DEF Follows
    <3> QED
      BY <2>1, <2>2, <3>1, <3>2 DEF WalkInv, Registering
  <2>4. CASE ~ (inventory[l.host] # doc \/ job.changed \/ walkEntry[l.host] = NoEntry)
    <3>1. job'.pc = "records"
      BY <1>1, <1>6, <2>4 DEF JobUpsert
    <3>2. \A h \in Hosts : inventory'[h] = inventory[h]
      BY <2>2, <2>4
    <3> QED
      BY <1>2, <2>1, <3>1, <3>2 DEF WalkOf
  <2> QED
    BY <2>3, <2>4
<1>7. CASE JobLoadWalk
  <2>1. /\ UNCHANGED <<inventory, walkEntry>> /\ job.pc = "load" /\ job'.pc = "save"
        /\ job'.line = job.line
    BY <1>1, <1>7 DEF JobLoadWalk, At
  <2>2. ASSUME NEW h \in Hosts, h \notin behind', WalkOf(h)'
        PROVE  Follows(h)' \/ Registering(h)'
    <3>1. h \notin behind
      BY <2>1, <2>2, NotBehind DEF WalkOf
    <3> QED
      BY <2>1, <2>2, <3>1 DEF WalkInv, WalkOf, Follows, Registering
  <2> QED
    BY <2>1, <2>2 DEF WalkInv
<1>8. CASE JobSaveWalk
  <2> DEFINE h0 == job.line.host
             saved == ManagedWalk(job.read, job.line.what,
                                  WalkProfileOf[profilesFile][job.line.what], expiry)
  <2>1. /\ UNCHANGED inventory /\ job.pc = "save" /\ job'.pc = "records"
        /\ walkEntry' = [walkEntry EXCEPT ![h0] = saved]
    BY <1>1, <1>8 DEF JobSaveWalk, At
  <2>2. /\ inventory[h0].rec = job.line.what /\ saved.rec = job.line.what
        /\ saved.profile = WalkProfileOf[profilesFile][job.line.what]
    BY <2>1 DEF WalkInv, ManagedWalk
  <2>3. \A h \in Hosts : walkEntry'[h] = IF h = h0 THEN saved ELSE walkEntry[h]
    BY <2>1 DEF TypeOK, StoresTypeOK
  <2> HIDE DEF saved
  <2>4. ASSUME NEW h \in Hosts, h \notin behind', WalkOf(h)'
        PROVE  Follows(h)'
    <3>1. CASE h = h0
      BY <2>1, <2>2, <2>3, <3>1 DEF Follows
    <3>2. CASE h # h0
      <4>1. h \notin behind /\ ~ Registering(h)
        BY <2>4, <3>2, NotBehind DEF WalkOf, Registering
      <4> QED
        BY <2>1, <2>3, <2>4, <3>2, <4>1 DEF WalkInv, WalkOf, Follows
    <3> QED
      BY <3>1, <3>2
  <2> QED
    BY <2>1, <2>4 DEF WalkInv
<1> QED
  BY <1>3, <1>4, <1>5, <1>6, <1>7, <1>8 DEF JobStep

(* Steps after which the job is not registering, and that change neither   *)
(* documents nor walks of hosts that are not behind: a crash, a failing    *)
(* record, an edit and the steps of the chains.                            *)
LEMMA OthersKeepWalks ==
    ASSUME TypeOK, WalkInv, RecordBehind, UNCHANGED inventory,
           \/ /\ UNCHANGED <<walkEntry, profilesFile>> /\ faults' # faults
              /\ job'.pc \notin {"load", "save"}
           \/ UNCHANGED <<walkEntry, job>> /\ job.pc = "idle"
           \/ UNCHANGED <<job, profilesFile>>
    PROVE  WalkInv'
<1>1. ASSUME NEW h \in Hosts, h \notin behind', WalkOf(h)'
      PROVE  Follows(h)' \/ Registering(h)'
  <2>1. /\ h \notin behind /\ walkEntry'[h] = walkEntry[h]
        /\ Registering(h) => Registering(h)'
        /\ WalkProfileOf[profilesFile'][inventory[h].rec]
             = WalkProfileOf[profilesFile][inventory[h].rec]
    BY <1>1, NotBehind DEF WalkOf, Registering
  <2>2. Follows(h) \/ Registering(h)
    BY <1>1, <2>1 DEF WalkInv, WalkOf
  <2> QED
    BY <2>1, <2>2 DEF Follows
<1>2. job'.pc \in {"load", "save"} => job' = job
  OBVIOUS
<1> QED
  BY <1>1, <1>2 DEF WalkInv

(* InventoryRecordManager.update with manage_task, through crashes,        *)
(* failing records, edits and restart tasks in any order: whenever the job *)
(* has completed, the walk entry of a host has the interval of its record  *)
(* and the walk profile that the configured profiles give the record,      *)
(* unless it is behind for one of the three reasons of RecordBehind.       *)
THEOREM WalksFollow == Spec => []WalkFollowsInventory
<1> DEFINE Inv == TypeOK /\ WalkInv
<1>1. Init => Inv
  <2>1. Init => WalkInv
    BY DEF Init, StoresInit, JobInit, IdleJob, WalkInv, WalkOf
  <2> QED
    BY <2>1, InitTypeOK
<1>2. Inv /\ [Next]_vars => Inv'
  <2> SUFFICES ASSUME Inv, [Next]_vars PROVE Inv'
    OBVIOUS
  <2>1. TypeOK'
    BY NextKeepsTypes
  <2>2. CASE Next
    <3>1. RecordBehind /\ TypeOK /\ WalkInv
      BY <2>2 DEF Next, RecordHistory
    <3>2. ASSUME EditConfiguration PROVE WalkInv'
      <4>1. UNCHANGED <<inventory, walkEntry, job>> /\ job.pc = "idle"
        BY <3>2, EditSteps DEF At
      <4> QED
        BY <3>1, <4>1, OthersKeepWalks
    <3>3. ASSUME NEW c \in Chains, ChainAction(c) \/ WorkerLost(c) PROVE WalkInv'
      BY <3>1, <3>3, ChainSteps, OthersKeepWalks
    <3>4. ASSUME JobAction, JobStep PROVE WalkInv'
      <4>1. UNCHANGED profilesFile
        BY <3>4, JobSteps
      <4> QED
        BY <3>1, <3>4, <4>1, JobKeepsWalks
    <3>5. ASSUME JobCrash \/ JobRecordFails PROVE WalkInv'
      <4>1. UNCHANGED <<inventory, walkEntry, profilesFile>> /\ faults' = faults + 1
        BY <3>5 DEF JobCrash, JobRecordFails
      <4>2. faults' # faults
        BY <3>1, <4>1 DEF TypeOK, JobTypeOK
      <4>3. JobCrash => job'.pc = "idle"
        BY DEF JobCrash, IdleJob
      <4>4. JobRecordFails => job'.pc = "records"
        BY <3>1 DEF JobRecordFails, At, TypeOK, JobTypeOK
      <4>5. job'.pc \notin {"load", "save"}
        BY <3>5, <4>3, <4>4
      <4> QED
        BY <3>1, <4>1, <4>2, <4>5, OthersKeepWalks
    <3> QED
      BY <2>1, <2>2, <3>2, <3>3, <3>4, <3>5 DEF Next, JobAction
  <2>3. CASE UNCHANGED vars
    BY <2>1, <2>3 DEF vars, history, WalkInv, WalkOf, Follows, Registering
  <2> QED
    BY <2>2, <2>3
<1>3. Inv => WalkFollowsInventory
  BY DEF WalkInv, WalkOf, Follows, Registering, WalkFollowsInventory, Applied, At
<1> QED
  BY <1>1, <1>2, <1>3, PTL DEF Spec

-----------------------------------------------------------------------------
(* Who left a group is deleted, unless a run is cut short or a record      *)
(* fails.                                                                  *)

(* Faults are counted for good.                                            *)
LEMMA FaultsStay ==
    ASSUME TypeOK, [Next]_vars, faults' = 0
    PROVE  faults = 0 /\ ~ JobCrash /\ ~ JobRecordFails
<1>1. faults \in Nat
  BY DEF TypeOK, JobTypeOK
<1>2. faults' \in {faults, faults + 1}
  BY EditSteps, JobSteps, ChainSteps DEF Next, vars
<1>3. JobCrash \/ JobRecordFails => faults' = faults + 1
  BY DEF JobCrash, JobRecordFails
<1> QED
  BY <1>1, <1>2, <1>3

MembersOf(members) ==
    \A h \in Hosts, g \in Groups :
        inventory[h] # NoDoc /\ inventory[h].group = g => h \in members[g]

(* A document that came from a group belongs to a member of the group as   *)
(* it was stored by the last run, and from the moment the new groups are   *)
(* stored to one of its members now, or to a host still to be deleted.     *)
MemberInv ==
    /\ ~ At("idle") => jobDue
    /\ Applied => groups = groupsFile
    /\ job.pc \in {"idle", "expiry", "dropWalks", "dropPolls", "clearProfiles"} =>
            MembersOf(groups)
    /\ job.pc \in {"fillProfiles", "clearGroups", "fillGroups"} => MembersOf(job.previous)
    /\ Recording =>
        /\ groups = groupsFile /\ job.todo \subseteq Planned
        /\ \A h \in Hosts, g \in Groups :
                inventory[h] # NoDoc /\ inventory[h].group = g =>
                    h \in groups[g] \/ h \in job.doomed
    /\ job.pc \in {"dropTargets", "dropAttributes"} => inventory[job.line.host] = NoDoc

(* A line that came from a group is the line of a member.                  *)
LEMMA PlannedMembers ==
    ASSUME NEW l \in Planned, l.group \in Groups
    PROVE  l.host \in groupsFile[l.group]
BY NamesAssumption DEF Planned, PlannedLines

LEMMA JobKeepsMembers ==
    ASSUME TypeOK, MemberInv, JobStep, UNCHANGED <<lines, groupsFile>>
    PROVE  MemberInv'
<1>1. job \in [pc : JobPcs, changed : BOOLEAN, previous : [Groups -> SUBSET Hosts],
               doomed : SUBSET Hosts, todo : SUBSET Lines, line : Lines \cup {NoLine},
               read : WalkEntries \cup {NoEntry}, errors : BOOLEAN]
  BY DEF TypeOK, JobTypeOK
<1>2. Planned' = Planned
  BY DEF Planned
<1>3. CASE JobStart \/ JobCheckExpiry \/ JobDropWalks \/ JobDropPolls
  <2>1. /\ UNCHANGED <<inventory, groups, jobDue>> /\ jobDue
        /\ job.pc \in {"idle", "expiry", "dropWalks", "dropPolls"}
    BY <1>3 DEF JobStart, JobCheckExpiry, JobDropWalks, JobDropPolls, At, MemberInv
  <2>2. job'.pc \in {"expiry", "dropWalks", "dropPolls", "clearProfiles"}
    BY <1>1, <1>3 DEF JobStart, JobCheckExpiry, JobDropWalks, JobDropPolls, Goto
  <2> QED
    BY <2>1, <2>2 DEF MemberInv, MembersOf, Recording, DropPcs, At, Applied
<1>4. CASE JobClearProfiles
  <2>1. /\ UNCHANGED <<inventory, groups, jobDue>> /\ jobDue /\ job.pc = "clearProfiles"
        /\ job'.pc = "fillProfiles" /\ job'.previous = groups
    BY <1>1, <1>4 DEF JobClearProfiles, At, MemberInv
  <2> QED
    BY <2>1 DEF MemberInv, MembersOf, Recording, DropPcs, At, Applied
<1>5. CASE JobFillProfiles \/ JobClearGroups
  <2>1. /\ UNCHANGED <<inventory, jobDue>> /\ jobDue /\ job.pc \in {"fillProfiles", "clearGroups"}
        /\ job'.pc \in {"clearGroups", "fillGroups"} /\ job'.previous = job.previous
    BY <1>1, <1>5 DEF JobFillProfiles, JobClearGroups, At, Goto, MemberInv
  <2> QED
    BY <2>1 DEF MemberInv, MembersOf, Recording, DropPcs, At, Applied
<1>6. CASE JobFillGroups
  <2>1. /\ UNCHANGED <<inventory, jobDue>> /\ jobDue /\ job.pc = "fillGroups"
        /\ job'.pc = "records" /\ job'.todo = Planned /\ groups' = groupsFile
        /\ job'.doomed = LeftGroups(job.previous, groupsFile)
    BY <1>1, <1>6 DEF JobFillGroups, At, Planned, MemberInv
  <2>2. MembersOf(job.previous)
    BY <2>1 DEF MemberInv
  <2>3. \A h \in Hosts, g \in Groups :
            inventory'[h] # NoDoc /\ inventory'[h].group = g =>
                h \in groups'[g] \/ h \in job'.doomed
    BY <2>1, <2>2 DEF MembersOf, LeftGroups
  <2> QED
    BY <1>2, <2>1, <2>3 DEF MemberInv, Recording, DropPcs, At, Applied
<1>7. ASSUME Recording, job'.pc \in {"records", "load", "save"} \cup DropPcs,
             UNCHANGED <<groups, jobDue>>, job'.todo \subseteq job.todo,
             \A h \in Hosts, g \in Groups :
                inventory'[h] # NoDoc /\ inventory'[h].group = g =>
                  \/ h \in groups[g]
                  \/ /\ inventory[h] # NoDoc /\ inventory[h].group = g
                     /\ h \in job.doomed => h \in job'.doomed,
             job'.pc \in {"dropTargets", "dropAttributes"} => inventory'[job'.line.host] = NoDoc
      PROVE  MemberInv'
  <2>1. /\ jobDue /\ groups = groupsFile /\ job.todo \subseteq Planned
        /\ \A h \in Hosts, g \in Groups :
                inventory[h] # NoDoc /\ inventory[h].group = g =>
                    h \in groups[g] \/ h \in job.doomed
    BY <1>7 DEF MemberInv, Recording, DropPcs, At
  <2>2. \A h \in Hosts, g \in Groups :
            inventory'[h] # NoDoc /\ inventory'[h].group = g =>
                h \in groups'[g] \/ h \in job'.doomed
    BY <1>7, <2>1
  <2>3. job'.pc \notin {"idle", "expiry", "dropWalks", "dropPolls", "clearProfiles",
                        "fillProfiles", "clearGroups", "fillGroups"}
    BY <1>7 DEF DropPcs
  <2> QED
    BY <1>2, <1>7, <2>1, <2>2, <2>3 DEF MemberInv, Applied, At
<1>8. ASSUME NEW l \in Lines, JobDropSchedules(l) PROVE MemberInv'
  <2>1. /\ UNCHANGED <<inventory, groups, jobDue>> /\ job.pc = "records"
        /\ job'.pc = "dropInventory" /\ job'.todo \subseteq job.todo /\ job'.doomed = job.doomed
    <3>1. CASE job' = [job EXCEPT !.pc = "dropInventory", !.line = l]
      BY <1>1, <1>8, <3>1 DEF JobDropSchedules, At
    <3>2. CASE job' = [job EXCEPT !.pc = "dropInventory", !.line = l, !.todo = @ \ {l}]
      <4>1. job' = [job EXCEPT !.pc = "dropInventory", !.line = l, !.todo = job.todo \ {l}]
        BY <3>2
      <4> QED
        BY <1>1, <1>8, <4>1 DEF JobDropSchedules, At
    <3> QED
      BY <1>8, <3>1, <3>2 DEF JobDropSchedules
  <2> QED
    BY <1>7, <2>1 DEF Recording, DropPcs
<1>9. CASE JobDropInventory
  <2>1. /\ UNCHANGED <<groups, jobDue>> /\ job.pc = "dropInventory" /\ job'.pc = "dropTargets"
        /\ job'.todo = job.todo /\ job'.doomed = job.doomed
        /\ job'.line = job.line /\ job.line.host \in Hosts
        /\ inventory' = [inventory EXCEPT ![job.line.host] = NoDoc]
    BY <1>1, <1>9 DEF JobDropInventory, At, Goto, TypeOK, JobTypeOK, Lines
  <2>2. /\ inventory'[job.line.host] = NoDoc
        /\ \A h \in Hosts : inventory'[h] # NoDoc => inventory'[h] = inventory[h]
    BY <2>1 DEF TypeOK, StoresTypeOK
  <2> QED
    BY <1>7, <2>1, <2>2 DEF Recording, DropPcs
<1>10. ASSUME NEW l \in Lines, JobUpsert(l) PROVE MemberInv'
  <2> DEFINE doc == [rec |-> l.what, group |-> l.group]
  <2>1. /\ UNCHANGED <<groups, jobDue>> /\ job.pc = "records" /\ l.host \in Hosts
        /\ l \in job.todo /\ job.doomed = {}
        /\ inventory' = [inventory EXCEPT ![l.host] = doc]
        /\ job'.pc \in {"records", "load"} /\ job'.todo \subseteq job.todo
    BY <1>1, <1>10 DEF JobUpsert, At, Lines
  <2>2. l \in Planned /\ groups = groupsFile
    BY <2>1 DEF MemberInv, Recording
  <2>3. \A h \in Hosts : inventory'[h] = IF h = l.host THEN doc ELSE inventory[h]
    BY <2>1 DEF TypeOK, StoresTypeOK
  <2>4. \A h \in Hosts, g \in Groups :
            inventory'[h] # NoDoc /\ inventory'[h].group = g =>
                h \in groups[g] \/ inventory'[h] = inventory[h]
    BY <2>2, <2>3, PlannedMembers
  <2>5. \A h \in Hosts : h \notin job.doomed
    BY <2>1
  <2> QED
    BY <1>7, <2>1, <2>4, <2>5 DEF Recording, DropPcs
<1>11. CASE JobDropTargets \/ JobLoadWalk \/ JobSaveWalk
  <2>1. /\ UNCHANGED <<inventory, groups, jobDue>>
        /\ job.pc \in {"dropTargets", "load", "save"}
        /\ job'.pc \in {"dropAttributes", "records", "save"}
        /\ job'.pc = "dropAttributes" => job.pc = "dropTargets" /\ job'.line = job.line
        /\ job'.todo = job.todo /\ job'.doomed = job.doomed
    BY <1>1, <1>11 DEF JobDropTargets, JobLoadWalk, JobSaveWalk, At, Goto
  <2>2. job'.pc \in {"dropTargets", "dropAttributes"} => inventory'[job'.line.host] = NoDoc
    BY <2>1 DEF MemberInv
  <2> QED
    BY <1>7, <2>1, <2>2 DEF Recording, DropPcs
<1>13. CASE JobDropAttributes
  <2>1. /\ UNCHANGED <<inventory, groups, jobDue>> /\ job.pc = "dropAttributes"
        /\ job'.pc = "records" /\ job'.todo = job.todo
        /\ job'.doomed = job.doomed \ {job.line.host}
    BY <1>1, <1>13 DEF JobDropAttributes, At
  <2>2. inventory[job.line.host] = NoDoc
    BY <2>1 DEF MemberInv
  <2> QED
    BY <1>7, <2>1, <2>2 DEF Recording, DropPcs
<1>12. CASE JobFinish
  <2>1. /\ UNCHANGED <<inventory, groups>> /\ job.pc = "records" /\ job.doomed = {}
        /\ job'.pc = "idle"
    BY <1>12 DEF JobFinish, IdleJob, At
  <2>2. groups = groupsFile /\ MembersOf(groups)
    BY <2>1 DEF MemberInv, Recording, MembersOf
  <2> QED
    BY <2>1, <2>2 DEF MemberInv, MembersOf, Recording, DropPcs, At
<1> QED
  BY <1>3, <1>4, <1>5, <1>6, <1>8, <1>9, <1>10, <1>11, <1>12, <1>13 DEF JobStep

(* return_hosts_from_deleted_groups: unless a run was cut short or a       *)
(* record failed, a document that came from a group belongs, when the job  *)
(* has completed, to a member of the group; whatever the chains do, and    *)
(* although other processes see the groups empty while they are replaced.  *)
THEOREM StrayMembersAreDeleted == Spec => []NoStrayGroupMember
<1> DEFINE Inv == TypeOK /\ (faults = 0 => MemberInv)
<1>1. Init => Inv
  <2>1. Init => MemberInv
    BY DEF Init, StoresInit, JobInit, IdleJob, MemberInv, MembersOf, Recording, DropPcs, At,
           Applied
  <2> QED
    BY <2>1, InitTypeOK
<1>2. Inv /\ [Next]_vars => Inv'
  <2> SUFFICES ASSUME Inv, [Next]_vars PROVE Inv'
    OBVIOUS
  <2>1. TypeOK'
    BY NextKeepsTypes
  <2>2. ASSUME faults' = 0 PROVE MemberInv'
    <3>1. faults = 0 /\ ~ JobCrash /\ ~ JobRecordFails /\ MemberInv
      BY <2>2, FaultsStay
    <3>2. CASE EditConfiguration
      BY <3>1, <3>2, EditSteps DEF MemberInv, MembersOf, Recording, DropPcs, At, Applied
    <3>3. ASSUME UNCHANGED <<lines, groupsFile, inventory, groups, job, jobDue>>
          PROVE  MemberInv'
      BY <3>1, <3>3
         DEF MemberInv, MembersOf, Recording, At, Applied, Planned
    <3>4. ASSUME NEW c \in Chains, ChainAction(c) \/ WorkerLost(c) PROVE MemberInv'
      BY <3>3, <3>4, ChainSteps
    <3>5. CASE UNCHANGED vars
      BY <3>3, <3>5 DEF vars
    <3>6. CASE JobAction
      BY <3>1, <3>6, JobSteps, JobKeepsMembers DEF JobAction
    <3> QED
      BY <3>2, <3>4, <3>5, <3>6 DEF Next
  <2> QED
    BY <2>1, <2>2
<1>3. Inv => NoStrayGroupMember
  BY DEF MemberInv, MembersOf, NoStrayGroupMember, Applied, At
<1> QED
  BY <1>1, <1>2, <1>3, PTL DEF Spec

-----------------------------------------------------------------------------
(* Who can end the polls of a host.                                        *)

PollEnds(h, p) == pollEntry[h][p] # NoEntry /\ pollEntry'[h][p] = NoEntry

(* The reasons: the expiry time changed, the host is deleted, or its own   *)
(* setup, whose record and profiles no longer have the period.             *)
Reason(h, p) ==
    \/ JobDropPolls
    \/ \E l \in Lines : l.host = h /\ JobDropSchedules(l)
    \/ \E c \in Chains : SetupPrune(c) /\ chain[c].host = h /\ p \notin chain[c].want

(* The poll entries as a step of the job or of a chain leaves them.        *)
LEMMA JobPolls ==
    ASSUME JobAction
    PROVE  \/ UNCHANGED pollEntry
           \/ JobDropPolls
           \/ \E l \in Lines : JobDropSchedules(l)
BY DEF JobAction, JobStep, JobStart, JobCheckExpiry, JobDropWalks, redis,
       JobClearProfiles, JobFillProfiles, JobClearGroups, JobFillGroups,
       JobUpsert, JobDropInventory, JobDropTargets, JobDropAttributes, JobLoadWalk, JobSaveWalk,
       JobFinish, JobCrash, JobRecordFails

LEMMA ChainPolls ==
    ASSUME NEW c \in Chains, ChainAction(c) \/ WorkerLost(c)
    PROVE  UNCHANGED pollEntry \/ SetupSavePoll(c) \/ SetupPrune(c)
BY DEF ChainAction, WorkerLost, FireWalk, FirePoll, Collect, GiveUp, ChainStep, EnrichTarget,
       RestartLoad, RestartSave, EnrichAttributes, SetupReadProfiles, SetupReadInventory,
       SetupLoadPoll, Redeliver, redis

(* manage_task never saves an entry without an expiry time.                *)
LEMMA SavedPollIs ==
    ASSUME TypeOK, NEW c \in Chains, SetupSavePoll(c), NEW h \in Hosts, NEW p \in Periods
    PROVE  ~PollEnds(h, p)
<1>1. chain[c] \in WellFormedChains /\ chain[c].stage = "savePoll"
  BY DEF SetupSavePoll, AtStage, TypeOK, ChainsTypeOK
<1>2. chain[c].isWalk /\ chain[c].expires \in Expiries /\ chain[c].read \in Expiries \cup {NoEntry}
  BY <1>1 DEF WellFormedChains, SetupStages
<1> DEFINE saved == ManagedPoll(chain[c].read, chain[c].expires)
<1>3. saved \in Expiries /\ NoEntry \notin Expiries
  BY <1>2, SentinelsAssumption DEF ManagedPoll
<1>4. pollEntry' = [pollEntry EXCEPT ![chain[c].host][chain[c].period] = saved]
  BY DEF SetupSavePoll
<1>5. pollEntry \in [Hosts -> [Periods -> Expiries \cup {NoEntry}]]
  BY DEF TypeOK, StoresTypeOK
<1> HIDE DEF saved
<1>6. pollEntry'[h][p] = pollEntry[h][p] \/ pollEntry'[h][p] = saved
  BY <1>4, <1>5
<1> QED
  BY <1>3, <1>6 DEF PollEnds

LEMMA PollsOfOthers ==
    ASSUME OwnKeysOnly, TypeOK, NEW h \in Hosts, NEW x \in Hosts, NEW active
    PROVE  /\ h # x => WithoutUnusedPolls(x, active)[h] = pollEntry[h]
           /\ h # x => WithoutPollsOf(x)[h] = pollEntry[h]
           /\ \A p \in Periods \cap active : WithoutUnusedPolls(x, active)[h][p] = pollEntry[h][p]
BY DEF OwnKeysOnly, WithoutUnusedPolls, WithoutPollsOf

LEMMA StepEndsForAReason ==
    ASSUME OwnKeysOnly, TypeOK, [Next]_vars, NEW h \in Hosts, NEW p \in Periods, PollEnds(h, p)
    PROVE  Reason(h, p)
<1>1. pollEntry'[h][p] # pollEntry[h][p] /\ pollEntry' # pollEntry
  BY DEF PollEnds
<1>2. CASE UNCHANGED vars \/ EditConfiguration
  BY <1>1, <1>2, EditSteps DEF vars, redis
<1>3. CASE JobAction
  <2>1. ASSUME NEW l \in Lines, JobDropSchedules(l) PROVE l.host = h
    <3>1. pollEntry' = WithoutPollsOf(l.host) /\ l.host \in Hosts
      BY <2>1 DEF JobDropSchedules, Lines
    <3> QED
      BY <1>1, <3>1, PollsOfOthers
  <2> QED
    BY <1>1, <1>3, <2>1, JobPolls DEF Reason
<1>4. ASSUME NEW c \in Chains, ChainAction(c) \/ WorkerLost(c)
      PROVE  Reason(h, p)
  <2>1. SetupPrune(c)
    BY <1>1, <1>4, ChainPolls, SavedPollIs
  <2>2. pollEntry' = WithoutUnusedPolls(chain[c].host, chain[c].want) /\ chain[c].host \in Hosts
    BY <2>1 DEF SetupPrune, AtStage, TypeOK, ChainsTypeOK, WellFormedChains, ActiveChains
  <2>3. chain[c].host = h /\ p \notin chain[c].want
    BY <1>1, <2>2, PollsOfOthers
  <2> QED
    BY <2>1, <2>3 DEF Reason
<1> QED
  BY <1>2, <1>3, <1>4 DEF Next

(* When no key of a host matches the pattern of another, no interleaving   *)
(* of chains, job, crashes, redeliveries and edits ends a poll of a host   *)
(* for another reason than these three; without this, the setup of one     *)
(* host ends the polls of another.                                         *)
THEOREM PollsEndForAReason ==
    OwnKeysOnly => (Spec => [][\A h \in Hosts, p \in Periods : PollEnds(h, p) => Reason(h, p)]_vars)
<1> SUFFICES ASSUME OwnKeysOnly
             PROVE  Spec => [][\A h \in Hosts, p \in Periods : PollEnds(h, p) => Reason(h, p)]_vars
  OBVIOUS
<1>1. TypeOK /\ [Next]_vars => [\A h \in Hosts, p \in Periods : PollEnds(h, p) => Reason(h, p)]_vars
  BY StepEndsForAReason
<1> QED
  BY <1>1, TypeInvariant, PTL DEF Spec

(* delete_unused_poll_tasks: under the same hypothesis a setup leaves the  *)
(* poll entries of every other host alone.  What breaks it is the pattern  *)
(* that matches keys by their end, and nothing else.                       *)
THEOREM SetupsMindTheirHost == OwnKeysOnly => (Spec => SetupMindsItsHost)
<1> SUFFICES ASSUME OwnKeysOnly PROVE Spec => SetupMindsItsHost
  OBVIOUS
<1>1. ASSUME TypeOK, NEW c \in Chains, SetupPrune(c), NEW h \in Hosts \ {chain[c].host}
      PROVE  pollEntry'[h] = pollEntry[h]
  <2>1. pollEntry' = WithoutUnusedPolls(chain[c].host, chain[c].want) /\ chain[c].host \in Hosts
    BY <1>1 DEF SetupPrune, AtStage, TypeOK, ChainsTypeOK, WellFormedChains, ActiveChains
  <2> QED
    BY <1>1, <2>1, PollsOfOthers
<1>2. TypeOK /\ [Next]_vars
        => [\A c \in Chains : SetupPrune(c) =>
               \A h \in Hosts \ {chain[c].host} : pollEntry'[h] = pollEntry[h]]_vars
  BY <1>1
<1> QED
  BY <1>2, TypeInvariant, PTL DEF Spec, SetupMindsItsHost
=============================================================================
