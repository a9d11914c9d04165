# Formal model of Splunk Connect for SNMP

TLA+ modules, TLC configurations and TLAPS proofs about the program under
`splunk_connect_for_snmp/`. The modules are written from the Python source; a
module says at its head which files it is about, and every operator carries
the name of the function it stands for or says which one in its comment.

`tlc -config X.cfg MCModule.tla` checks an instance, `tlapm M_proofs.tla`
checks the proofs of a module.

## 1. The system

| component | source | state it keeps | operations | hard behaviour |
|---|---|---|---|---|
| Inventory job | `inventory/loader.py`, `common/inventory_processor.py`, `common/collection_manager.py`, `common/inventory_record.py` | collections `inventory`, `groups`, `profiles`; its own list of lines and of removed members | compare expiry times, replace profiles and groups, delete removed members, insert/update/delete every record | crashes between two calls, repetition by Kubernetes, concurrent workers |
| Schedule manager | `customtaskmanager.py`, `common/task_generator.py` | RedBeat entries in Redis | `manage_task` (read, then save), deletions by pattern | read-modify-save by several processes, keys matched by suffix |
| Poll scheduler | `celery_config.py`, `poller.py`, `walk.py` | due times | sends the chain of an entry | redelivery of tasks of lost workers |
| Poller | `snmp/tasks.py`, `snmp/manager.py`, `snmp/multi_bulk_walk_cmd.py` | MIB view, profiles, cursors of a walk | `walk`, `poll`, GETBULK walks, GETs, MIB loading | truncated answers, rows that change during the walk, retries |
| Enrich | `enrich/tasks.py` | `targets`, `attributes` | restart detection, documents of a host | results in another order, two tasks that both insert, a worker lost between store and trigger |
| Setup of polling | `inventory/tasks.py` | poll entries | `inventory_setup_poller` | stale reads, overlapping chains |
| Trap receiver | `traps.py`, `EngineIdManager` | USM table, caches, collection `engine_id_records` | start-up, datagram, `cb_fun`, `save_engine_id` | replicas racing on the unique index, restarts, changed settings |
| Trap worker | `snmp/tasks.py`, `snmp/trap_varbind_limit.py` | loaded and attempted MIBs | `trap` | partial MIB loads, order of varbinds |
| Sender | `splunk/tasks.py` | nothing but its message | `prepare`, `send` | retries, refused chunks, duplicated messages |
| Profiles and varbinds | `snmp/varbinds_resolver.py` | `ProfileCollection` of a worker | merge of profiles, `update` | suppressed entries, reading a collection that is being refilled |
| Discovery | `discovery/` , `common/csv_record_manager.py`, `snmp/auth.py` | CSV of devices, schedules | load the configuration, scan a subnet, rewrite the CSV | concurrent checks, workers sharing a file, a worker lost while writing |
| Migration, UI database | `common/schema_migration.py`, `inventory/loader.py` | schema version, `*_ui` collections | `migrate_database` | crash between steps |
| MIB index client | `snmp/manager.py`, `snmp/mib_index_validator.py` | cached response, index of a worker | fetch, validate, cache, load modules | unusable answers, outage |
| Authentication, process set-up, formats | `snmp/auth.py`, `celery_signals_handlers.py`, `common/common.py`, ... | none to speak of | | |

The components meet in three places. MongoDB holds the inventory, profiles,
groups, targets, attributes and engine IDs; Redis holds the schedule entries
and the Celery queues. A **walk** of a host is a chain
`walk -> enrich -> (inventory_setup_poller, prepare -> send)`; its setup
creates the **poll** entries of the host, whose chain is
`poll -> enrich -> prepare -> send`. Traps take the way
`receiver -> trap -> prepare -> send`. Nothing but the broker orders the steps
of different chains, and nothing orders them against the inventory job.

What makes each component right:

* inventory job and schedules: the schedules end up as the inventory says,
  whatever crashes and overlaps: no host forgotten, no deleted host polled, no
  stale options, every host polled with the frequencies of its profiles;
* bulk walk: a result handed on is complete, no instance comes twice for one
  varbind, and the walk ends;
* poller: a request is the union of its profiles, a value is reported for a
  profile that asked for it, a failure costs its own chunk and no other;
* enrich: restarts are noticed, stored fields are kept and follow the device;
* profiles: polls ask for what configuration and device call for, in the end;
* discovery: the schedule is the configuration, the file changes as if every
  run were one step, every device that answers is listed;
* MIB index: no answer of the MIB server keeps a worker from starting;
* trap worker: no varbind is lost, no MIB is asked for again and again, and
  what can be translated is;
* trap receiver: what was learnt survives restarts, replicas do not hinder
  each other for long;
* sender: nothing is left out of a send that ends normally, repetitions are
  bounded, and a send ends.

## 2. Modules

### Polling control: `ControlState`, `InventoryJob`, `WorkChains`, `PollingControl`

`ControlState` has the configuration (`lines`, `groupsFile`, `profilesFile`,
`expiry`), the stores (`inventory`, `groups`, `profiles`, `targets`,
`attributes`, `walkEntry`, `pollEntry`) and, as operators, what one request
does to them: `ManagedWalk` and `ManagedPoll` are `manage_task` for a walk (with
the record's part of the entry and the walk profile, which
`return_walk_profile` takes from the record and the configured profiles,
`WalkProfileOf`) and a poll, `WithoutUnusedPolls` is `delete_unused_poll_tasks`,
`StoredExpiries` is `get_chain_of_task_expiries`, `LeftGroups` is
`return_hosts_from_deleted_groups`.

`InventoryJob` is `load()`: a program counter and its local variables, one
action for every call that changes a store. `JobDropSchedules`,
`JobDropInventory`, `JobDropTargets`, `JobDropAttributes` are the four calls of
`InventoryRecordManager.delete`; `JobUpsert`, `JobLoadWalk`, `JobSaveWalk` are
`update` with the read and the save of `manage_task` apart. `JobCrash` ends the
process anywhere, `JobRecordFails` is the exception that `manage_inventory_records`
logs and that makes the exit code 1, before a record has had an effect, between its
deletions or between its upsert and its walk; after both the job is due again.

`WorkChains` has a set of chains, each a record with its place in the chain
and what it has read. `FireWalk` and `FirePoll` may come whenever the entry
exists. `Collect` and `GiveUp` are the task `walk` or `poll`, with the inventory
document and the SNMP answer; `EnrichTarget`, `RestartLoad`, `RestartSave`,
`EnrichAttributes` are `enrich`; `SetupReadProfiles`, `SetupReadInventory`,
`SetupLoadPoll`, `SetupSavePoll`, `SetupPrune` are `inventory_setup_poller`.
`Redeliver` puts the task of a lost worker back to its beginning.

`PollingControl` composes them with an administrator (`EditConfiguration`),
states the properties and the fairness. Two history variables name exceptions:
`raced` the hosts whose deletion met a chain in the middle of writing their
entries, `behind` the hosts whose walk entry the code leaves as it was
(`RecordBehind`, see section 3).

### `BulkWalk`

`multi_bulk_walk_cmd` as `run_bulk_request` calls it, with the agent. The OIDs
of the agent are 1..`NumOids`; a varbind has the subtree from `Root` to `Last`, and
subtrees may lie within each other, as `VarBindContainer` compares names only.
`task` holds the cursors and flags of the generator. `Respond` is one round: the
agent answers the active varbinds with repetitions and may cut the answer off;
the entries are dealt to the varbinds by position; the generator yields them,
moves the cursors, and ends the chunk when `stopFlag` stays set or all are
completed. `PassOver` is a chunk that ends in silence: error status 2, which the
generator resets to 0, and `EmptyResponse` with `IGNORE_EMPTY_VARBINDS`. `Fail` is an
error raised in `_any_failure_happened` and the retry of the task, or an exception
that is not retried. `AgentChanges` lets a row appear or disappear in between;
`WholeRow` says whether the agent always fits one full row in an answer.

### `Varbinds`, `MibIndex`, `Poller`

`Varbinds` is `varbinds_resolver.py` as operators: an entry of `varBinds` is a
sequence of one to three components, and one lies below another when it extends
it. `InsertedAll` is `VarBindContainer.insert_varbind` over entries sorted by
length: first the short ones, all of one length at once, as entries of one length
are no parents of each other. `Processed` is `Profile.process`, `AddedProfiles` is
`Profile.__add__` with its two mappings, `GetProfile` and `CombineProfiles` are
`get_profile` and `combine_profiles`, and `PollingInfo` is
`get_polling_info_from_profiles`, a recursive function over the names where the
code has `reduce`. Their reference definition is the invariant
`RequestIsTheUnion` of `Poller`.

`MibIndex` is the index of modules: what the MIB server answers (an index, an
unusable body, an error, nothing), the cached response in MongoDB, the index
and the builder of a worker. `StoredResponse` is the hook
`MibIndexResponseValidator` with `stale_if_error`, `StartWorker` is
`Poller.__init__`, which needs the index and the standard modules, `LoadMibs` is
`load_mibs`.

`Poller` is a worker process that runs `do_work` for one task after another:
`Begin` (profiles, request, loading of MIB families), `BeginChunk`, `Response`,
`EndChunk` (`run_bulk_request`, where a table that wants a module is processed
twice), `GetChunk`, `GetChunkRaises` (`run_get_request`, which loads the modules of
its names as it builds the request, and whose exceptions are logged), `TaskFails`,
`BulkNamesRaise`, `ReturnResult`. The order of the rows of a walk is the subject of
`BulkWalk`; here a response is any set of rows due. `Nested` has the instances in the
subtree of an entry whose names are not below it. `Above` has what an instance is
called by loaded modules above its own: such a name passes `is_mib_resolved`, so
that its own module is not asked for (`Resolved`, `NameIn`). `Mentions` is the substring
match of `match_mapping_to_profile`: the entries whose key contains the name of a
module.

### `SetupPoller`, `ProfileCycle`

`SetupPoller` is `inventory_setup_poller` for one host seen from its profiles:
`AssignedProfiles` (`assign_profiles` with static, base, field, mandatory and
walk profiles), and for conditional profiles `Evaluate`, `InsertEvaluated`
(`generate_conditional_profile` and the two halves of `replace_one` with
upsert). `Enrich` is what a walk leaves in the database: a row has a document that
fits the condition, one that does not, or one without the field, and keeps it
when the device no longer has the row; `Finds` is which of them a condition or its
negation finds. Its steps that write the schedule are one step, as `WorkChains` has
them apart.

`ProfileCycle` composes it with the inventory job, which empties and refills
the collection document by document (`JobClear`, `JobFill`), and with worker
processes that read it when they start and when `PROFILES_RELOAD_DELAY` has
passed (`StartProcess`, `Reload`). `KeysAmong`, a recursive function over the
documents, is the order of a dictionary's keys; `Gathered` is what the job stores of
packaged profiles and file, and a job that has no profile left only clears. `Promised`
is what configuration and documentation call for, `Asked` what the polls of a worker
ask for.

### `Enrich`

`enrich` for one host and the fields of one group, every call to MongoDB a
step: `GetCurrentTarget`, `StoreUptime` and `TriggerWalk` are `check_restart`, with
`NoWalk` for the walk that is not triggered because its entry is missing or
saving it raises; `FindAny`, `FindGroup`, `UpsertGroup`, `InsertGroup` look for the
document and insert it, `UpdateGroup` and `BulkWrite` write the modified and the new
fields, with upsert where the code has it. `DropTarget` and `DropDocuments` are the
deletion of the host by the inventory job, at any time. `documents` is a sequence, as
find and update take the first one of several; a document that an upsert of fields
has made is not `whole`: it has neither `id` nor `indexes`. History variables say that
a restart is not acted on yet, and name the exceptions: a worker lost before the
trigger, a walk that could not be triggered, a document deleted under a task, two
tasks under way at a time.

### `Discovery`, `DiscoveryFile`

`Discovery` has the discovery job (`LoadStart`, `LoadRecord`, `LoadPrune`), the
RedBeat entries, the queue, and workers with one task each: concurrent checks
under the semaphore (`StartCheck`, the probe for an engine ID in `Report` and
`Fetch`, the request in `Ask`), then `ReadCsv` and `WriteCsv` between taking and
releasing the file lock. `WorkerLost` may leave a part of the file.

`DiscoveryFile` is what `add_devices_detail_to_csv` promises: a set of rows in
which a run brings the rows of its discovery up to date in one step. `Discovery`
implements it with `listed <- {r \in Rows : csv[r] # 0}` and
`faults <- events`: reading, and everything before it, is a stutter, and the write is
`Update`, which is only so because nobody writes between a reading and its
write. Only a step that counts as a fault may take rows of other discoveries.

### `TrapTask`

A trap worker over any number of traps. `Receive` takes a trap with the limit
on varbinds, `Preload` and `Retry` are the loads before and after the first
resolution, `Process` is one pass of `_process_trap_metrics`, `Report` merges
unresolved and unprocessed varbinds, `Return` ends the task, `Restart` loses
the worker. `Resolve` is the outcome of a resolution: translated, named after a node
of another loaded module above it (`Above`), which `is_mib_resolved` takes for a
translation, a placeholder under the name of the subtree, or `SmiError`.

### `Sender`

The copies of the message of one `send`, with their retries and their place in
the three calls of `do_send`. `Answer` and `NoAnswer` are the outcomes of a
post, `Again` is `self.retry`, `TimeLimit` the end by Celery, `WorkerLost` a
redelivery and `LostAfterRetry` the worker that is lost between publishing a
retry and acknowledging the message, after which there are two.

### `EngineIds`

The replicas of the trap receiver, each with its start-up (`Boot`, the saving
of the configured IDs, `SyncDone`) and its event loop (`Datagram`,
`save_engine_id` as `Find` and `Insert` or `Duplicate`, `Publish`), on one
collection with a unique index. `Canon` is the form in which a datagram has an
ID that an administrator may have written in capitals. `ServiceFails` is an
error of MongoDB or of the broker, `Stop` the end of a container,
`EditConfiguration` a change of the settings, which a process sees when it
starts.

The `MC...` modules give the constants that are functions their values; the
`..._proofs` modules have the theorems.

## 3. Runs

| run | question | result |
|---|---|---|
| `changes` (`ControlChanges.cfg`) | two hosts, a group, two records, two walk profiles, two expiry times, a chain; three edits, a crash or failing record or lost worker, a restart of a device | a deleted host stays without schedules unless a chain was writing them (`DeletedHostIsSilent`); after a completed job every line has its document and walk (`NoHostForgotten`), no document of a former member is left (`NoStrayGroupMember`), no walk entry has an old expiry time (`WalkExpiryApplied`), the walk of a host has the interval of its record and the walk profile of the configuration (`WalkFollowsInventory`) |
| `liveness` (`ControlLiveness.cfg`) | overlapping chains, edits of profiles, a fault | `EventuallyPolled`: in the end a host is polled with exactly its frequencies, for ever |
| `bulk_complete` (`BulkComplete.cfg`) | three subtrees, one inside another, in two chunks, answers cut after the first row, a changing row, an error, a chunk ended in silence and a retry | `NoDuplicates`, `NothingMissed`, `WalkEnds` |
| `poller` (`PollerTasks.cfg`) | walks and polls of overlapping, empty, conditional and missing profiles in any order; a row of one module in the subtree of another; a MIB server that changes, fails or is down; a failing chunk or task or the end of the process | requests are the union of the profiles (`RequestIsTheUnion`), numbers are reported for an asker (`EveryValueHasItsAsker`), failures stay in their chunk (`FailuresStayInTheirChunk`), in the end all is translated, by its own module or one above (`EventuallyTranslated`), no answer for the index keeps a worker from starting (`IndexOutageIsHarmless`) |
| `profiles` (`Profiles.cfg`) | the job refills the profiles while two setups of a host and a worker read them; a condition and its negation, rows that come and go; a changed file or device, a crash, a lost worker | two documents only after overlapping setups (`TwinsNeedOverlap`), no reload loses a profile (`GapLosesNoProfile`), polls follow configuration and device (`PollsFollowConfiguration`) |
| `enrich` (`EnrichTasks.cfg`) | two tasks of a host, results in any order; a restart, a changed value, a lost worker, a deletion of the host or a walk that cannot be triggered | `RestartIsNoticed`, `TwinsStayEmpty`, `FieldsAreKept`, and the stored values end up as those of the device (`AttributesFollowDevice`) |
| `discovery` (`Discoveries.cfg`) | two discoveries of overlapping subnets on two workers, a rejected or IPv6 configuration, a changed expiry time, a changed device, a lost worker, request or job | `ScheduleIsConfiguration`, `EngineIdIsTheTargets`, `NoTwinRows`, the refinement `FileIsUpdatedAtOnce`, `EveryDeviceIsListed` |
| `trap_varbinds` (`TrapVarbinds.cfg`) | every trap of up to two varbinds and those of three distinct OIDs, after any other ones, any module failing at any time, OIDs below a node of another module, two passes | `EveryVarbindReported`, `AttemptedOnce`, `ListedIsTranslated` |
| `send_chunks` (`SendChunks.cfg`) | full and partial chunks, three calls, every answer, two retries, a lost worker | `EverythingAnswered`, `DuplicatesBounded`, `SendEnds` |
| `engine_replicas` (`EngineReplicas.cfg`) | two replicas, two IDs, one configured in capitals, a failure and an edit | `HeardIsRegistered`, `LossBounded`, `ReceiversStart` |
| `suffix_hosts` (`SuffixHosts.cfg`) | the key of one host ends with the key of another | violated: the setup of one deletes the poll entries of the other |
| `trap_two_values` (`TrapTwoValues.cfg`) | one OID twice with different untranslated values | violated: the second value overwrites the first |

The last two are disagreements between the code and its own comments or
documentation; `PROJECT.json` quotes both sides. The type invariants of
`BulkWalk`, `TrapTask`, `Sender` and `EngineIds` are proved (section 4) and not
part of a run; those of the other modules are checked.

Some properties say what holds, and their conditions say what does not:

* `WalkFollowsInventory` leaves out the hosts in `behind`, whose entry stays as it
  was until something else makes the job save it:
  - an edit of the profiles alone that gives the stored record another walk profile:
    `update` returns for an unchanged record (`inventory_processor.py:236-237`), so
    the walk goes on with the old profile;
  - a run cut short, or a record that fails, between the upsert of a changed record
    and the registration of its walk (`:213`): the repeated run takes the record for
    unchanged, finds the old walk and returns, although
    `docs/configuration/inventory.md:91` promises a walk "during any change in
    inventory";
  - `trigger_walk_after_restart` reads the walk entry and saves it in two requests,
    and can overwrite an update that came in between.
* `WalkExpiryApplied` is about runs without device restarts, for the last of these
  reasons.
  Poll entries can keep an old expiry time: a walk in flight carries it, so the
  property says nothing of them.
* `NoStrayGroupMember` is about runs without faults: the set of removed members is
  lost with a job that crashes after the groups were replaced, as the repeated run
  compares the new groups with themselves.
* `NothingMissed` assumes `WholeRow`, an agent that answers at least one row in
  full. With fewer entries than active varbinds, all of them beyond their subtree,
  the generator stops for all varbinds (`multi_bulk_walk_cmd.py:287`), although
  :286 says that "all varbinds have completed". It leaves out the varbinds in
  `passed`: error status 2 (`:220-234`) and an ignored `EmptyResponse`
  (`manager.py:157-159`) end a chunk as if it were complete. After error status 2 the
  tuple that is yielded has varbinds that were never resolved, on which the consumer
  may raise instead; the model has both.
* `NoDuplicates` is about one varbind. `VarBindContainer` drops an entry for a parent
  by name only (`varbinds_resolver.py:37-63`): `[IP-MIB, icmp]` and
  `[IP-MIB, icmpInMsgs]`, or `BRIDGE-MIB` and `Q-BRIDGE-MIB`, are walked side by side,
  and an instance in both is yielded for each, although `manager.py:674` says that
  the walk "eliminates duplicate OIDs". `RequestIsTheUnion` likewise speaks of names.
* `ListedIsTranslated` and `EventuallyTranslated` leave out what a loaded module above
  has named: a varbind or row of Q-BRIDGE-MIB gets a name of BRIDGE-MIB, which passes
  `is_mib_resolved` (`manager.py:174-182`), and its own module is never loaded for it.
* `EveryValueHasItsAsker`: a number that no entry names gets the profile of any key
  that contains the name of its module (`mib in mib_map`, `manager.py:872`), which may
  be a longer name: numbers of BRIDGE-MIB get a profile that asked for Q-BRIDGE-MIB.
* `IndexOutageIsHarmless` leaves out a MIB server that cannot be reached: a new worker
  loads the standard modules from it outside any `try` (`manager.py:386-388`) and
  does not start, whatever is cached.
* `PollsFollowConfiguration` demands every row that a condition calls for, and
  allows two kinds besides (`LeftOver`): rows that the device no longer has, as nothing
  removes their documents, and for a negated condition documents of the module
  without the field, among them the empty second one of overlapping tasks, since
  `$ne`, `$nin` and `$not` match a missing field (`inventory/tasks.py:300-379`).
  It leaves out two documents of one conditional profile,
  of which only the first is ever replaced (`TwinsNeedOverlap` says when there are
  two), and a file with `varBinds` that the schema accepts and `Profile.process`
  raises on (`[[]]`): then workers keep their old profiles, and none can start.
* `RestartIsNoticed` names the ways to miss a restart: a worker lost between the
  store and the trigger, a walk entry that is missing (`enrich/tasks.py:79-85`), an
  exception while it is saved, which is swallowed (`:88-92`), and overlapping tasks.
  Every one of them leaves the new sysUpTime stored.
* `FieldsAreKept` names two ways to lose a field: the deletion of the host, and the
  upsert with `fields: {}` of a task that found no document (`:139`) after another
  task has written one.
* `AttributesFollowDevice`: when the inventory job deletes the attributes of a host
  under an enrich task, the bulk write of the task makes a document by upsert
  (`:155-160`) that has no `id`; when the host is in the inventory again, every enrich
  of that group raises `KeyError` (`:175`), and its values never follow the device.
* `EveryDeviceIsListed` leaves out a configuration that `DiscoveryRecord` rejects:
  it ends the job before the discoveries behind it (`discovery/loader.py:71`).

### Bounds

* Control: one or two hosts, one group, one or two records, one or two chains,
  at most three edits, one fault, one device restart. Two chains (in `liveness`)
  are what it takes for a chain to undo the work of another; two hosts for a
  deletion of one to touch the other; three edits for a change, its reverse and a
  change again. The job handles its lines one by one, so more hosts repeat the
  same steps. Of the profile sets one has the walk profile that the records name and
  one has not, and the empty one is the gap of the refill. `changes` uses the
  symmetry of hosts, records and expiry times, which nothing in the modules tells
  apart; it checks no temporal property.
* Poller: five values in four modules, one of them in the subtree of entries of
  another module, which can name it, and with a name that is part of a third module's;
  chunks of one entry, so that every failure is between other chunks; two
  collections, so that a profile changes between tasks; one fault and one change
  of the MIB server, which begins in every state.
* Profiles: two profiles, two frequencies, two rows and two devices, of which one has
  the first row and one only the second, which has a document without the field
  too; four files that change the frequency and negate the condition, replace a
  packaged profile, toggle it off, or are malformed; one event of any kind; two
  setups, as many as it takes for two documents.
* Enrich: a field that only walks have and one of polls too, two values, two
  tasks; one event (a restart, a changed value, a lost worker, a deletion, a walk that
  cannot be triggered); a batch of two, as many as there are fields, so that an update
  is with and without upsert; a clock of two values is enough for a result to be
  older, newer or as old as another.
* Discovery: two discoveries that share an address, one with localized keys that
  replaces its rows and one that adds to them; two workers; one event of any kind.
* Bulk: seven OIDs and three varbinds in chunks of two give a full and a short
  chunk, a subtree inside another one of the same chunk, adjacent ones in two chunks,
  a subtree longer than an answer and one that ends in its middle.
* Trap: two modules below enterprises and two below mib-2, one of these below a
  node of the other, one OID without a module below a node of a vendor's, values
  that are bare, text or an OID, three varbinds, two passes: with two modules left
  to the passes the bound of the passes is reached with a varbind left over.
* Sender: chunks of two with three events and two metrics: a full and a short
  chunk; one lost worker and two copies of the message; two retries.
* Engine IDs: two replicas are what a race takes; one failure is a crash at any
  step or an error at any request.
* `MaxEdits`, `MaxFaults`, `MaxRestarts`, `MaxChanges`, `MaxLost`, `MaxEvents`,
  `MaxUptime` and `MaxRetries` (the last one is also in the code) are the bounds in
  guards. `CHECK_DEADLOCK`
  is off where the bounds let the system come to rest.

### Fairness

* Control: the job runs on (weak fairness); RedBeat sends the walk of every
  host again and again, and its collect succeeds again and again (strong
  fairness, a host that never answers is never set up); a queued task is
  executed (weak). Crashes, edits and device restarts are never required.
* Poller: Kubernetes restarts the process and a running task goes on (weak, per
  step); no task is ever required to be sent, and the MIB server need not
  recover: `EventuallyTranslated` has its recovery as a premise.
* Profiles: the job runs on, the host is walked again and again, tasks are
  executed, processes are started and read the profiles again (weak, per walk
  and per worker). The setups need no strong fairness as nothing disables them.
* Enrich: a task goes on (weak) and the host is walked again and again (strong).
* Discovery: the job runs on or again, RedBeat fires every entry, checks end with
  an answer or a timeout (weak); a task of each discovery is taken and the lock
  obtained again and again (strong, as other tasks may come first).
* Bulk: answers come as long as the task asks (weak fairness of the answers;
  timeouts use up the retries). An error is never relied on to end a loop.
* Sender: a worker takes every message, every post ends, as it has a timeout
  of 60 seconds (weak, per copy). The time limit is not relied on.
* Engine IDs: Kubernetes restarts an ended container, and a process that has
  work to do goes on (weak, per replica). Traps are never required to arrive.

## 4. Proofs

Each theorem holds for every value of the constants that satisfies the named
assumptions of its module; five have a further hypothesis, which stands in front of
the specification.

| module | theorem | property |
|---|---|---|
| `PollingControl_proofs` | `TypeInvariant` | `TypeOK` |
| | `DeletedHostsStaySilent` | `DeletedHostIsSilent` |
| | `HostsAreRemembered` | `NoHostForgotten`, if `OwnKeysOnly` |
| | `ExpiryReachesWalks` | `WalkExpiryApplied` |
| | `WalksFollow` | `WalkFollowsInventory` |
| | `StrayMembersAreDeleted` | `NoStrayGroupMember` |
| | `PollsEndForAReason` | the reasons for which a poll entry disappears, if `OwnKeysOnly` |
| | `SetupsMindTheirHost` | `SetupMindsItsHost`, if `OwnKeysOnly` |
| `BulkWalk_proofs` | `WalkTypes` | `TypeOK` |
| | `YieldsOnce` | `NoDuplicates` |
| | `MissesNothing` | `NothingMissed`, if `WholeRow` |
| | `EveryRoundCounts` | the number `Left` falls with every answer and error |
| `Traps_proofs` | `TrapTypes` | `TypeOK` of `TrapTask` |
| | `AsksOnce` | `AttemptedOnce` |
| | `LosesNoVarbind` | `EveryVarbindReported` |
| | `ListedAreTranslated` | `ListedIsTranslated` |
| | `EngineTypes` | `ReceiversTypeOK` of `EngineIds` |
| | `ForgetsNoEngine` | `HeardIsRegistered` |
| | `FewTrapsLost` | `LossBounded` |
| `Sender_proofs` | `SendTypes` | `TypeOK` |
| | `SendLeavesNothingOut` | `EverythingAnswered` |
| | `DuplicatesAreBounded` | `DuplicatesBounded` |
| `Discovery_proofs` | `DiscoveryTypes` | `TypeOK` |
| | `ListsOnce` | `NoTwinRows` |
| | `FileImplemented` | `FileIsUpdatedAtOnce` (refinement of `DiscoveryFile`) |
| | `OwnEngineIds` | `EngineIdIsTheTargets` |
| | `ScheduleFollows` | `ScheduleIsConfiguration` |
| `Enrich_proofs` | `EnrichTypes` | `TypeOK` |
| | `RestartsAreNoticed` | `RestartIsNoticed` |
| | `TwinsAreEmpty` | `TwinsStayEmpty` |
| | `FieldsStay` | `FieldsAreKept` |
| `Poller_proofs` | `TypesAreKept` | `TypeOK` |
| | `RequestsAreUnions` | `RequestIsTheUnion` |
| | `FailuresAreContained` | `FailuresStayInTheirChunk` |
| | `ValuesHaveAskers` | `EveryValueHasItsAsker`, if `PollsDoNotWalk` and `CompleteAnswerThemselves` |
| `ProfileCycle_proofs` | `TypesHold` | `TypeOK` |
| | `TwinsHold` | `TwinsNeedOverlap` |
| | `GapHolds` | `GapLosesNoProfile` |

The arguments:

* *Deleted hosts.* `DeletedHostIsSilent` is not inductive: the job deletes the
  schedules before the document, and a chain writes an entry later than it reads
  the document. `SilentInv` says of every host that is `Gone`, from the moment the
  job has deleted its schedules, and is not `raced`, that it has no schedule and
  that no chain is about to write one; and that the job saves a walk only for a
  host with a document.
* *After a completed job.* Each of these invariants follows the job from its
  comparison of expiry times to its end, through crashes and repetitions.
  - `NoHostForgotten`: `LinesInv` says that the lines that are not to come any more
    have been applied if no record has failed, where the last request for the line at
    work may be missing. The hosts that left a group are deleted before the first
    line, and one that is also a line is inserted again. The
    theorem needs `OwnKeysOnly`, the keys of one host never match the pattern of
    another: otherwise the deletion of one host removes the walk of another that
    was registered before, which is what the run `suffix_hosts` shows for polls.
  - `WalkExpiryApplied`: `ExpiryInv` has the configured expiry time in every entry
    from the deletion of the old ones on, and in the entry `manage_task` has read and
    is about to save. `NoneRestarted` keeps the other writer of walk entries out: a
    chain reaches `trigger_walk_after_restart` only by a device restart. Nothing is
    assumed of the keys.
  - `WalkFollowsInventory`: `WalkInv` says that the entry of a host that is not
    `behind` has the record of its document and the configured walk profile, in every
    state but between the upsert and the save for this host. `NotBehind` is what
    leaving `behind`, or staying out of it, says about a step; with it the property
    needs no assumption on faults or restarts.
  - `NoStrayGroupMember`: `MemberInv` follows the members from the groups as they
    were stored, through the copy the job takes before it replaces them, to the
    hosts it still has to delete. The groups are empty in between, and the copy is
    lost in a crash, which is why the property is about runs without faults.
* *Poll entries.* `PollsEndForAReason` goes through every step that can take a poll
  entry away; what `manage_task` saves always has an expiry time, since only a chain
  that began with a walk gets there. `SetupsMindTheirHost` is the other half of the
  run `suffix_hosts`: without the suffix match the property holds.
* *Bulk walk.* `WalkInv`: what is in the result of a subtree lies at or before the
  cursor of its varbind, and of what the agent has had all along everything at or
  before the cursor is in the result; for a completed varbind that is the whole
  subtree. From the first part a new entry is never one that was yielded
  already for this varbind; nothing is assumed of how the subtrees lie.
  `NothingMissed` also needs that the varbinds of earlier chunks are completed or were
  passed over, which follows from whole rows: a round that keeps no entry has hit
  the end of every active varbind. `EveryRoundCounts` is the part of `WalkEnds` that
  needs no fairness: `Left` counts the pairs of a varbind and an instance not yet
  yielded, chunks to come and tries to come; as no pair is yielded twice
  (`NoDuplicates`), a round either brings a new one or ends the chunk, a chunk passed
  over is one less, and a retry has one try less before it. So
  a walk makes a bounded number of requests even while rows come and go, and without
  whole rows.
* *Traps.* `attempts[m]` is 1 for a module in `attempted` and 0 otherwise.
  Everything translated comes from the trap, and at the end every place is in
  the result, listed, or represented by a result with the same OID. For
  `ListedIsTranslated`, `ListedInv` has as many passes left as there are modules to
  load (`ToLoad`, the modules of the placeholders): a pass ends at its first
  placeholder, loads its module, and takes it out of this set, so that the last pass
  meets none. What is expected of a varbind (`Expected`) can only become less while a
  trap is handled, as modules above its OID are loaded. That a trap has finitely
  many modules is a lemma.
* *Sender.* A copy at call `s` and offset `o` has answers for every item before
  that place: an execution starts from the first chunk again, and answers are
  never taken back. For the duplicates, `ExecutionsLeft(i)` is the set of pairs of a
  copy and an execution of it that can still post item `i`; the posts of `i` and the
  cardinality of this set stay below a bound that grows with `lost` only. A set of
  pairs needs no sum over the copies.
* *Engine IDs.* Handed on implies stored, stored when a process starts implies
  cached, cached implies registered when it runs. For the bound on lost traps:
  until an ID is stored nobody can lose a trap of it to a duplicate; when it is
  stored the receivers that had missed it are at most all but one, no other joins
  them, and each of them leaves with at most one lost trap.
* *Discovery.* `FileInv`: at most one task is about to write, and the rows it has
  read are those of the file. A write is then an `Update` of the abstract file, the
  loss of the writer a `Fault` (what is left are rows of an update), and nothing
  else touches the file; a row that is there is not added again. For the engine
  IDs, `Scanned` says that a step of a scan leaves the EngineID of every check as it
  was, its own, or the configured one: each probe has an engine of its own. For
  the schedule, `SchedInv` holds while the job runs: the entry of a discovery that
  is not still to come is that of the configuration, and all entries have its
  expiry time. That a rule gives one of the configured groups needs that a set of
  positions has a first one, which is the library's well-foundedness of `<`.
* *Enrich.* `Alone`: as long as no two tasks were under way at a time, the one that
  is has the stored `sysUpTime` where it compares with it, unless the target was
  deleted, and creates a document only where there is none. So a restart leads it to
  the trigger, and it neither inserts a second document nor empties the first. The
  invariants are stated for any number of tasks, with the deletions by the inventory
  job at any time. That a task misses its document only after a deletion under it
  (`EnrichTypes`) is kept by every step, overlapping tasks or not, as nothing else
  makes the sequence of documents shorter.

* *Poller.* `Serves` says what a request has of a set of profiles: every entry or a
  parent of it, nothing else, no walked entry below another by its name, and
  mappings that name only profiles that ask; `Attributes` that the mappings name a
  profile for everything. Both hold of one profile (`ProcessedServes`) and are kept
  by `__add__` (`AddedServes`), which rests on the order of keys (`WithinOrder`) and
  on inserting short entries first (`InsertedAllKeeps`). For any number of profiles,
  `PollingInfoServes` takes the least length at which `reduced` fails to have them;
  that this recursive function exists at all is proved likewise (`SumsExist`).
  `TaskInv` keeps the request of a task together with the collection and names it
  was built from. `ResultInv`: when all could be translated from the start, the
  entries done have their values or expect them, those of a chunk that raised
  excepted. `AskerInv`: the values so far are reported for an asker.
  `ValuesHaveAskers` has two hypotheses. `PollsDoNotWalk`: no poll has a walk
  profile, which is what `check_profiles_type` and `is_smart_profile_valid`
  (`inventory/tasks.py:171`, `:237`) see to; a profile that becomes a walk profile
  between its assignment and the poll has no mappings and is outside. And
  `CompleteAnswerThemselves`: the answer to a complete entry is translated to this
  entry, and nothing of another name answers it or is called like it. The run
  `poller` meets both.

* *Profiles.* The documents of `TwinsNeedOverlap` have three writers. `JobInsertsNew`:
  what the job has still to insert has names of the configuration, each once
  (`GatheredAre`, from `KeysAre`, what the recursive function over the documents yields,
  again by the least counterexample), and none of them is in the collection, which the
  job has emptied; setups write no such name, as no configured profile is named like
  an evaluated one (`SetupAssumption`). `Ordered`: as long as setups came one after the
  other, names are unique and what a setup is about to insert is not in the collection:
  the only writer of such names is the setup itself, as `SetupEffect` has it of every
  step. A crash of the job, a failed evaluation and a redelivery keep this.
  `GapLosesNoProfile` rests on `UpdatedTable`, a table keeps its names whatever was
  read, and on a process that is down having none. The types need that what
  `check_profiles_type` computes are valid conditional profiles, which have a
  frequency, so that an evaluated document is valid too.

Only model-checked: liveness (`EventuallyPolled`, `WalkEnds`, `SendEnds`,
`ReceiversStart`, `EventuallyTranslated`, `IndexOutageIsHarmless`,
`PollsFollowConfiguration`,
`EveryDeviceIsListed`, `AttributesFollowDevice`; TLAPS does not handle fairness and
ENABLED here). Every invariant and every action property without fairness that a
passing run checks is a theorem. There are no RECURSIVE operators.
The induction theorems of the library, which take a predicate, are out of the
provers' reach here; where a fact needs induction over a number, the proof takes a
least counterexample instead, by the well-foundedness of `<`.

## 5. Abstractions and limits

* Time is left out: an entry may be due at any time, a timeout is an outcome.
* In `PollingControl` the record of an inventory line is one value, and the
  profiles that apply to it are the constants `Assign`, from which come its poll
  periods, and `WalkProfileOf`; `SetupPoller` is how profiles are assigned.
* A line is edited while the job is idle, as `docs/configuration/inventory.md`
  demands; the configuration of groups and profiles likewise.
* The three reads of profiles at the beginning of the setup are one action;
  `EnrichTarget` is one action; a deletion of several keys or documents by one
  call is one action.
* In `WorkChains` a device restart is an event that the next result shows;
  `Enrich` has the values of `sysUpTime`, and the walk that cannot be triggered.
  Every result carries it. `Enrich` has one group of fields; all initial values of a
  device are alike.
* In `Varbinds` the profiles are combined from the left, as by `reduce`, so that the
  mapping that is added has one name per key and `Joined` appends that name.
* In `Poller` an unresolved row is recognised by its module; a table that stops at
  it may have seen any of the rows before it. Which key of a module comes first in
  a dictionary is left open.
* No profile of the configuration has a name of the form `n__host` that the
  evaluation of another one yields.
* In `SetupPoller` a condition is about one field of one table, and the values of rows
  are those that fit and those that do not; of the query there are the two kinds of
  operators, those that a missing field satisfies and those that it does not.
* In `Discovery` the engine of a device is named by its address, and a torn row at
  the end of a partial file is left out. nmap returns the addresses of the subnet.
  The order of rows is not modelled. A scan is shorter than the period of its
  discovery, which is at least six hours.
* A group that the inventory names and the configuration does not have is taken
  for a host by the code and fails; in the model it has no lines. Ports of
  groups are part of the name of a host. The inventory of the UI is not modelled.
* The agent of `BulkWalk` sends OIDs in increasing order
  (`ignoreNonIncreasingOid`). Where an empty response is an error it is a `Fail`.
* In `TrapTask` every OID is below enterprises or mib-2, and an index entry
  names the module that defines the OID; a pair that failed to resolve and for
  which no module was loaded fails again. Which module above an OID names it is left
  open, as nothing is said of the name.
* In `Sender` the publication of a retry succeeds, and items do not carry data.
* `EngineIds` has traps of SNMP v3 only, and IDs that are valid hexadecimal.

### Not modelled

* Schema migration: it runs once per upgrade before the rest of `load()`. Its steps
  are deletions, drops, the creation of an index and a `$set` for all documents,
  which a repetition after a crash does again; what they convert are forms of data
  of earlier versions, whose writers are not in this repository.
* The UI database: the collections `*_ui` are written by the UI, another program.
  `configure_ui_database` sets `used_ui` before it fills them, so that a malformed
  inventory line leaves them incomplete for good.
* The formats of `prepare`, translations, schemas and logging: formatting.
* `get_auth` and secrets, process set-up (fork hooks, health files, tracing):
  libraries and files, without a protocol of their own.

## 6. Plan

Done: polling control, bulk walk, trap worker, sender, trap receiver, poller with
its MIB index, profiles, enrich, discovery with its refinement, and the theorems of
section 4.

Left:

1. An abstract life of a host (unknown, scheduled, polled, deleted) that
   `PollingControl` implements under a refinement mapping.
2. Ports of groups, and the migration if its data become of interest again.
