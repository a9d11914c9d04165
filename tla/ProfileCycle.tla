---------------------------- MODULE ProfileCycle ----------------------------
(***************************************************************************)
(* The way of a profile from the configuration to the polls of a host: the *)
(* inventory job stores the profiles (common/collection_manager.py), the   *)
(* setup that follows every walk assigns and evaluates them (SetupPoller), *)
(* the worker processes keep a table of processed profiles and look up in  *)
(* it what the poll entries name (snmp/manager.py, varbinds_resolver.py).  *)
(* Nothing orders the three.                                               *)
(***************************************************************************)
EXTENDS SetupPoller

CONSTANTS
    Workers,      \* processes that run polls
    Packaged,     \* the profiles that come with the program, in their order
    Files,        \* versions of the profiles in config.yaml
    FirstFile,    \* the version the program is installed with
    Malformed,    \* varBinds that the schema accepts and process() cannot
    MaxEvents     \* bound on changes of config.yaml or the device and on faults

(* No profile of the configuration is named like an evaluated one.         *)
Configured == {d \in Docs : d.name \in Names}

ASSUME CycleAssumption ==
    /\ Packaged \in Seq(Configured)
    /\ Files \subseteq Seq(Configured) /\ FirstFile \in Files
    /\ Malformed \in Objects
    /\ MaxEvents \in Nat

VARIABLES
    file,         \* the profiles of config.yaml
    job,          \* the inventory job: due, idle, or the documents to be inserted
    process,      \* list_of_profiles_raw and list_of_profiles of each worker
    events,       \* how many of them there were
    overlapped    \* history: two setups of the host were under way at a time

cycleVars == <<file, job, process, events, overlapped>>
vars == <<setupVars, cycleVars>>

NoTable == [n \in {} |-> 0]
Down == [up |-> FALSE, raw |-> NoTable, table |-> NoTable]

-----------------------------------------------------------------------------
(* The keys of a dictionary built from documents, in its order: those of   *)
(* the names that are kept.                                                *)
KeysAmong(docs, names) ==
    LET keys[j \in 0..Len(docs)] ==
            IF j = 0 THEN <<>>
            ELSE IF docs[j].name \in names \ ToSet(keys[j - 1])
                 THEN Append(keys[j - 1], docs[j].name)
                 ELSE keys[j - 1]
    IN  keys[Len(docs)]

KeysOf(docs) == KeysAmong(docs, NamesOf(docs))

(* gather_elements: the file overrides packaged profiles.                  *)
Merged(docs) == Collection(Packaged \o docs)

(* update_collection: one document for each element.                       *)
DocsOf(keys, elements) ==
    [j \in DOMAIN keys |-> [name |-> keys[j], body |-> elements[keys[j]]]]

(* validate_elements: a walk profile has no frequency, every other one     *)
(* has; none has the keys `enabled' and `disabled', so that a profile that *)
(* has `enabled' is gone, whether it is true or false.                     *)
Valid(body) ==
    /\ ~body.toggled
    /\ body.kind = "walk" <=> body.period = NoPeriod

(* Mutant of Gathered: nothing is validated.                               *)
GatheredUnchecked(docs) == DocsOf(KeysOf(Packaged \o docs), Merged(docs))

Gathered(docs) ==
    LET valid == {n \in DOMAIN Merged(docs) : Valid(Merged(docs)[n])}
    IN  DocsOf(KeysAmong(Packaged \o docs, valid), Merged(docs))

(* Mutant of Updated: the table is the collection as read.                 *)
UpdatedToCollection(p, read, keys) == [p EXCEPT !.raw = read, !.table = read]

(* Mutant of Updated: what was read is kept and never processed.           *)
UpdatedUnprocessed(p, read, keys) == [p EXCEPT !.raw = read]

(* ProfileCollection.update and process_profiles: what was read is kept    *)
(* first, then processed in its order up to one that raises; the table     *)
(* never loses a name.                                                     *)
Updated(p, read, keys) ==
    LET done == {keys[j] : j \in {k \in DOMAIN keys :
                    \A l \in 1..k : read[keys[l]].objects # Malformed}}
    IN  IF read = p.raw THEN p
        ELSE [p EXCEPT !.raw = read,
                       !.table = [n \in done \cup DOMAIN @ |->
                                    IF n \in done THEN read[n] ELSE @[n]]]

Processable(read) == \A n \in DOMAIN read : read[n].objects # Malformed

-----------------------------------------------------------------------------
Init ==
    /\ file = FirstFile
    /\ job = [pc |-> "due", docs |-> <<>>]
    /\ stored = <<>>
    /\ state = FALSE /\ attributes = [up |-> {}, down |-> {}, bare |-> {}]
    /\ assigned = [p \in Periods |-> {}]
    /\ device \in Devices
    /\ walk = [w \in Walks |-> NoWalk]
    /\ process = [w \in Workers |-> Down]
    /\ events = 0
    /\ overlapped = FALSE

Event == events < MaxEvents /\ events' = events + 1

InSetup(w) == walk[w].stage \in {"evaluate", "insert"}

(* Every step records whether it leaves two setups under way.              *)
RecordOverlap ==
    overlapped' = (overlapped \/ \E v, w \in Walks : v # w /\ InSetup(v)' /\ InSetup(w)')

(* helm upgrade with another config.yaml starts the job once more.         *)
EditFile ==
    /\ Event /\ job.pc = "idle"
    /\ \E f \in Files \ {file} : file' = f
    /\ job' = [job EXCEPT !.pc = "due"]
    /\ UNCHANGED <<setupVars, process>>

DeviceChanges ==
    /\ Event
    /\ \E d \in Devices \ {device} : device' = d
    /\ UNCHANGED <<stored, state, attributes, assigned, walk, file, job, process>>

(* update_all: gather, validate, delete_many, which is all when no profile *)
(* is left ...                                                             *)
JobClear ==
    /\ job.pc = "due"
    /\ stored' = <<>>
    /\ \E docs \in {Gathered(file)} :
          job' = [pc |-> IF docs = <<>> THEN "idle" ELSE "fill", docs |-> docs]
    /\ UNCHANGED <<state, attributes, assigned, device, walk, file, process, events>>

(* ... and insert_many, which others see document by document: neither     *)
(* call is given the session of the transaction.                           *)
JobFill ==
    /\ job.pc = "fill"
    /\ stored' = Append(stored, Head(job.docs))
    /\ job' = [pc |-> IF Len(job.docs) = 1 THEN "idle" ELSE "fill", docs |-> Tail(job.docs)]
    /\ UNCHANGED <<state, attributes, assigned, device, walk, file, process, events>>

(* Poller.__init__: without processable profiles no process comes up.      *)
StartProcess(w) ==
    /\ ~process[w].up
    /\ \E read \in {Collection(stored)} :
          /\ Processable(read)
          /\ process' = [process EXCEPT ![w] = [up |-> TRUE, raw |-> read, table |-> read]]
    /\ UNCHANGED <<setupVars, file, job, events>>

(* do_work when PROFILES_RELOAD_DELAY has passed.                          *)
Reload(w) ==
    /\ process[w].up
    /\ \E read \in {Collection(stored)}, keys \in {KeysOf(stored)} :
          process' = [process EXCEPT ![w] = Updated(@, read, keys)]
    /\ UNCHANGED <<setupVars, file, job, events>>

ProcessEnds(w) ==
    /\ Event
    /\ process[w].up
    /\ process' = [process EXCEPT ![w] = Down]
    /\ UNCHANGED <<setupVars, file, job>>

(* The job is lost; Kubernetes starts it again.                            *)
JobCrash ==
    /\ Event
    /\ job.pc = "fill"
    /\ job' = [pc |-> "due", docs |-> <<>>]
    /\ UNCHANGED <<setupVars, file, process>>

(* A worker is lost, or MongoDB raises in generate_conditional_profile.    *)
SetupFault(w) ==
    /\ Event
    /\ SetupRedelivered(w) \/ \E n \in Names : EvaluationFails(w, n)
    /\ UNCHANGED <<file, job, process>>

SetupAction(w) ==
    /\ SetupStep(w)
    /\ UNCHANGED <<file, job, process, events>>

Next ==
    /\ \/ EditFile \/ DeviceChanges \/ JobClear \/ JobFill \/ JobCrash
       \/ \E w \in Workers : StartProcess(w) \/ Reload(w) \/ ProcessEnds(w)
       \/ \E w \in Walks : SetupAction(w) \/ SetupFault(w)
    /\ RecordOverlap

Spec == Init /\ [][Next]_vars

(* The job runs to its end, the host is walked again and again, tasks are  *)
(* executed, processes are started and poll on.                            *)
Fairness ==
    /\ WF_vars((JobClear \/ JobFill) /\ RecordOverlap)
    /\ \A w \in Walks : WF_vars(SetupStep(w)
                                  /\ UNCHANGED <<file, job, process, events>> /\ RecordOverlap)
    /\ \A w \in Workers : WF_vars((StartProcess(w) \/ Reload(w)) /\ RecordOverlap)

FairSpec == Spec /\ Fairness

-----------------------------------------------------------------------------
(* What the next polls of a worker ask for: objects, or rows of objects.   *)
AsksFor(name, body) ==
    IF body.kind = "evaluated" THEN {<<body.objects, i>> : i \in body.indices}
    ELSE {<<body.objects>>}

Asked(w) ==
    [p \in Periods |->
        UNION {AsksFor(n, process[w].table[n]) : n \in assigned[p] \cap DOMAIN process[w].table}]

(* Objects of the conditional profiles of a file, for rows of their own.   *)
ComputedOf == [f \in Files |-> Computed(Collection(Gathered(f)))]
RowsAsked(f, p, Rows(_)) ==
    UNION {{<<body.objects, i>> : i \in Rows(body)} :
              body \in {b \in Range(ComputedOf[f]) : b.period = p}}

(* What the documentation promises for the host, of a file and a device:   *)
(* a condition is about a value gathered from the field.                   *)
Promised(f, d) ==
    LET profiles == Collection(Gathered(f))
        names == AssignedProfiles(profiles, d.fits)
    IN  [p \in Periods |->
            {<<profiles[n].objects>> : n \in names[p]}
              \cup RowsAsked(f, p, LAMBDA body : IF body.negated THEN d.down ELSE d.up)]

Promises == [f \in Files |-> [d \in Devices |-> Promised(f, d)]]

(* Rows that conditions may find beside: those that the device no longer   *)
(* has, and, when negated, those with a document without the field.        *)
LeftOver(f, p) ==
    LET gone == (attributes.up \cup attributes.down) \ (device.up \cup device.down)
    IN  RowsAsked(f, p, LAMBDA body : gone \cup IF body.negated THEN attributes.bare ELSE {})

Usable == {f \in Files : Processable(Collection(Gathered(f)))}

Twins == \E j, k \in DOMAIN stored : j # k /\ stored[j].name = stored[k].name

(* Documents, lists, walks, job and processes have values of their types.  *)
TypeOK ==
    /\ stored \in Seq(Docs) /\ \A j \in DOMAIN stored : Valid(stored[j].body)
    /\ file \in Files
    /\ state \in BOOLEAN /\ attributes \in RowSets /\ device \in Devices
    /\ assigned \in [Periods -> SUBSET (Names \cup Tags)]
    /\ \A w \in Walks : /\ walk[w].stage \in Stages
                        /\ DOMAIN walk[w].computed \subseteq Names
    /\ job.pc \in {"due", "fill", "idle"} /\ job.docs \in Seq(Docs)
    /\ \A w \in Workers : DOMAIN process[w].table \subseteq Names \cup Tags

(* The collection profiles has no unique index and inventory_setup_poller  *)
(* looks before it inserts: a profile has two documents only if two setups *)
(* of the host were under way at a time; no redelivery and no gap of the   *)
(* inventory job is enough.                                                *)
TwinsNeedOverlap == Twins => overlapped

(* update_all empties the collection and fills it document by document     *)
(* while workers read it: no reload makes a poll lose a profile that it    *)
(* could look up before.                                                   *)
GapLosesNoProfile ==
    [][\A w \in Workers, p \in Periods : process'[w].up =>
        assigned[p] \cap DOMAIN process[w].table \subseteq DOMAIN process'[w].table]_vars

(* Configuration, job, setup and workers together: whatever the order of   *)
(* their steps, eventually and then for ever the polls of every worker ask *)
(* for all that file and device call for, in the right frequency, unless   *)
(* the file has a malformed profile or two documents of one profile were   *)
(* left; and what they ask for besides are rows of a conditional profile   *)
(* that the device no longer has or, when its condition is negated, whose  *)
(* document does not have the field.                                       *)
PollsFollowConfiguration ==
    \A w \in Workers :
        <>[](\/ Twins \/ file \notin Usable
             \/ \A p \in Periods :
                   /\ Promises[file][device][p] \subseteq Asked(w)[p]
                   /\ Asked(w)[p] \subseteq Promises[file][device][p] \cup LeftOver(file, p))
=============================================================================
