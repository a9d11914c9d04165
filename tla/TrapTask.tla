------------------------------ MODULE TrapTask ------------------------------
(***************************************************************************)
(* The task trap of a trap worker (snmp/tasks.py): it translates the       *)
(* varbinds of one trap after the other with the MIB modules its process   *)
(* has loaded, and loads the modules that the MIB index lists for what is  *)
(* still untranslated.  OIDs lie below enterprises or mib-2, and an index  *)
(* entry names the module that defines the OID.  The varbinds of a trap    *)
(* are told apart by their position.                                       *)
(***************************************************************************)
EXTENDS FiniteSets, Naturals, Sequences

CONSTANTS
    Oids,
    Enterprise,        \* OIDs below 1.3.6.1.4.1
    Mibs, NoMib,
    MibOf,             \* mib_map: the module of an OID, or NoMib
    Above,             \* modules that have a node above an OID: without its own
                       \* module an OID gets the name of one of these
    StandardMibs,      \* loaded by Poller.__init__
    Values,            \* values of varbinds; some may be OIDs
    Bare,              \* values that need no syntax of a MIB: integers and ""
    Misfits,           \* <<oid, value>>: the syntax of the OID rejects the value
    Traps,             \* what devices send: sequences of varbinds
    MaxVarbinds,       \* MAX_TRAP_VARBINDS_TO_DECODE, 0: no limit
    IncludeUnresolved, \* INCLUDE_UNRESOLVED_TRAP_VARBINDS
    RetryMax           \* _TRAP_MIB_RETRY_MAX

Varbinds == [oid : Oids, value : Values]

ASSUME TrapAssumption ==
    /\ NoMib \notin Mibs /\ StandardMibs \subseteq Mibs /\ Enterprise \subseteq Oids
    /\ MibOf \in [Oids -> Mibs \cup {NoMib}]
    /\ Above \in [Oids -> SUBSET Mibs]
    /\ Bare \subseteq Values \ Oids
    /\ Traps \subseteq Seq(Varbinds)
    /\ MaxVarbinds \in Nat /\ RetryMax \in Nat \ {0}
    /\ IncludeUnresolved \in BOOLEAN

VARIABLES
    loaded,       \* modules in the MIB view of the process
    attempted,    \* already_attempted_mibs
    attempts,     \* history: how often the process tried to load each module
    denied,       \* history: modules the process tried and could not load
    pc,           \* "idle", "preload", "retry", "process", "report", "done"
    data,         \* work["data"]
    table,        \* varbind_table of trap(): what became of each varbind
    current,      \* varbind_table of _process_trap_metrics
    passes,       \* calls of process_snmp_data for this trap
    translated,   \* varbinds in the result under the name of their MIB object
    inherited,    \* varbinds in the result under the name of a node above them
    untranslated, \* varbinds in the result under sc4snmp::unresolved
    known         \* history: modules that were loaded when the trap arrived

worker == <<loaded, attempted, attempts, denied>>
results == <<translated, inherited, untranslated>>
vars == <<worker, pc, data, table, current, passes, results, known>>

Places == DOMAIN data
Outcomes == {"translated", "inherited", "placeholder", "failed"}

TypeOK ==
    /\ loaded \subseteq Mibs /\ attempted \subseteq Mibs
    /\ attempts \in [Mibs -> Nat] /\ denied \subseteq Mibs
    /\ pc \in {"idle", "preload", "retry", "process", "report", "done"}
    /\ data \in Seq(Varbinds)
    /\ table \in [Places -> Outcomes] /\ current \in [Places -> Outcomes]
    /\ passes \in 0..RetryMax
    /\ translated \subseteq Varbinds /\ inherited \subseteq Varbinds
    /\ untranslated \subseteq Varbinds
    /\ known \subseteq Mibs

Init ==
    /\ loaded = StandardMibs /\ attempted = {} /\ attempts = [m \in Mibs |-> 0]
    /\ denied = {}
    /\ pc = "idle" /\ data = <<>> /\ table = <<>> /\ current = <<>> /\ passes = 0
    /\ translated = {} /\ inherited = {} /\ untranslated = {} /\ known = {}

-----------------------------------------------------------------------------
(* _load_new_trap_mibs: modules that were never tried are, and of those    *)
(* `ok' are loaded.                                                        *)
NewMibs(wanted) == wanted \ attempted

(* Mutant of Load: only what could be loaded counts as tried.              *)
LoadRemembersSuccess(wanted, ok) ==
    /\ ok \subseteq NewMibs(wanted)
    /\ loaded \cap NewMibs(wanted) \subseteq ok
    /\ attempted' = attempted \cup ok
    /\ loaded' = loaded \cup ok /\ denied' = denied \cup (NewMibs(wanted) \ ok)
    /\ attempts' = [m \in Mibs |-> attempts[m] + IF m \in NewMibs(wanted) THEN 1 ELSE 0]

Load(wanted, ok) ==
    /\ ok \subseteq NewMibs(wanted)
    /\ loaded \cap NewMibs(wanted) \subseteq ok
    /\ attempted' = attempted \cup NewMibs(wanted)
    /\ loaded' = loaded \cup ok /\ denied' = denied \cup (NewMibs(wanted) \ ok)
    /\ attempts' = [m \in Mibs |-> attempts[m] + IF m \in NewMibs(wanted) THEN 1 ELSE 0]

MibsOf(oids) == {MibOf[o] : o \in oids} \ {NoMib}

(* _resolve_trap_varbind: with its module loaded a varbind is translated   *)
(* unless the syntax rejects the value.  Without it any value but a bare   *)
(* one gets SmiError, and a bare one the name of the nearest node above,   *)
(* which is_mib_resolved takes for a translation unless it is one of the   *)
(* subtrees themselves.                                                    *)
Resolve(v, mibs) ==
    IF MibOf[v.oid] \in mibs
    THEN IF <<v.oid, v.value>> \in Misfits THEN "failed" ELSE "translated"
    ELSE IF v.value \notin Bare THEN "failed"
    ELSE IF Above[v.oid] \cap mibs # {} THEN "inherited" ELSE "placeholder"

(* _resolve_work_varbinds; the table keeps the order of the trap.          *)
ResolveAll(mibs) == [i \in Places |-> Resolve(data[i], mibs)]

-----------------------------------------------------------------------------
Limited(t) == IF MaxVarbinds = 0 \/ Len(t) <= MaxVarbinds THEN t
              ELSE SubSeq(t, 1, MaxVarbinds)

Receive(t) ==
    /\ pc = "idle"
    /\ data' = Limited(t)
    /\ table' = [i \in DOMAIN Limited(t) |-> "failed"]
    /\ current' = [i \in DOMAIN Limited(t) |-> "failed"]
    /\ passes' = 0 /\ translated' = {} /\ inherited' = {} /\ untranslated' = {}
    /\ known' = loaded
    /\ pc' = "preload"
    /\ UNCHANGED worker

(* Mutant of PreloadMibs: OIDs in the names of varbinds are forgotten.     *)
PreloadOfValues ==
    MibsOf({o \in Enterprise : \E i \in Places : o = data[i].value})

(* _preload_trap_mibs: the modules of the enterprise OIDs in the names and *)
(* the values of the varbinds.                                             *)
PreloadMibs ==
    MibsOf({o \in Enterprise : \E i \in Places : o \in {data[i].oid, data[i].value}})

(* If a module was loaded the first resolution is final, otherwise what    *)
(* failed is retried.                                                      *)
Preload ==
    /\ pc = "preload"
    /\ \E ok \in SUBSET NewMibs(PreloadMibs) :
        /\ Load(PreloadMibs, ok)
        /\ table' = ResolveAll(loaded')
        /\ current' = table'
        /\ pc' = IF ok = {} /\ \E i \in Places : table'[i] = "failed"
                 THEN "retry" ELSE "process"
    /\ UNCHANGED <<data, passes, results, known>>

(* _retry_trap_varbinds_after_mib_load.  When nothing was loaded the       *)
(* second resolution of the failed varbinds fails like the first, and so   *)
(* _re_resolve_trap_work_if_needed finds every placeholder as it was.      *)
Retry ==
    /\ pc = "retry"
    /\ LET failed == {data[i].oid : i \in {j \in Places : table[j] = "failed"}}
       IN  \E ok \in SUBSET NewMibs(MibsOf(failed)) :
            /\ Load(MibsOf(failed), ok)
            /\ table' = ResolveAll(loaded')
            /\ current' = table'
    /\ pc' = "process"
    /\ UNCHANGED <<data, passes, results, known>>

-----------------------------------------------------------------------------
(* process_snmp_data goes through the varbinds in order and stops at the   *)
(* first placeholder for which the index lists a module.                   *)
Deferred == {i \in Places : current[i] = "placeholder" /\ MibOf[data[i].oid] # NoMib}
Reached == {i \in Places : \A j \in Deferred : i < j}
Processed(outcome) == {i \in Reached : current[i] = outcome}

(* Results are keyed by the name of the object: the last value stays.      *)
LastOf(places) ==
    {data[i] : i \in {j \in places : \A k \in places :
                            data[k].oid = data[j].oid => k <= j}}
Overwritten(result, places) ==
    {v \in result : \A i \in places : data[i].oid # v.oid} \cup LastOf(places)

(* A pass of the loop in _process_trap_metrics.                            *)
Process ==
    /\ pc = "process" /\ passes < RetryMax
    /\ translated' = Overwritten(translated, Processed("translated"))
    /\ inherited' = Overwritten(inherited, Processed("inherited"))
    /\ passes' = passes + 1
    /\ LET wanted == MibsOf({data[i].oid : i \in {j \in Deferred :
                                \A k \in Deferred : j <= k}})
       IN  \E ok \in SUBSET NewMibs(wanted) :
            /\ Load(wanted, ok)
            /\ IF ok = {}
               THEN pc' = "report" /\ UNCHANGED current
               ELSE /\ current' = ResolveAll(loaded')
                    /\ pc' = IF passes' = RetryMax THEN "report" ELSE "process"
    /\ UNCHANGED <<data, table, untranslated, known>>

(* Mutant of Unprocessed: what was resolved is taken to be processed.      *)
NothingUnprocessed == {}

(* _unprocessed_trap_varbinds: in the table of trap(), not in the result.  *)
Unprocessed == {i \in Places : /\ table[i] # "failed"
                               /\ \A v \in translated \cup inherited : v.oid # data[i].oid}
Unresolved == {i \in Places : table[i] = "failed"}

(* The unresolved varbinds and then the unprocessed ones are stored under  *)
(* their OIDs; an identical pair is stored once, at its first place.       *)
Rank(i) == IF i \in Unresolved THEN i ELSE Len(data) + i
Report ==
    /\ pc = "report"
    /\ LET listed == Unresolved \cup Unprocessed
           first == {i \in listed : \A j \in listed :
                            data[j] = data[i] => Rank(i) <= Rank(j)}
       IN  untranslated' =
            IF ~IncludeUnresolved THEN {}
            ELSE {data[i] : i \in {j \in first : \A k \in first :
                            data[k].oid = data[j].oid => Rank(k) <= Rank(j)}}
    /\ pc' = "done"
    /\ UNCHANGED <<worker, data, table, current, passes, translated, inherited, known>>

(* The task returns its result.                                            *)
Return ==
    /\ pc = "done"
    /\ pc' = "idle" /\ data' = <<>> /\ table' = <<>> /\ current' = <<>> /\ passes' = 0
    /\ translated' = {} /\ inherited' = {} /\ untranslated' = {} /\ known' = {}
    /\ UNCHANGED worker

(* The worker is lost; another one takes its place and the trap again.     *)
Restart ==
    /\ pc # "done"
    /\ loaded' = StandardMibs /\ attempted' = {} /\ attempts' = [m \in Mibs |-> 0]
    /\ denied' = {}
    /\ IF pc = "idle" THEN UNCHANGED <<pc, known>>
       ELSE pc' = "preload" /\ known' = StandardMibs
    /\ table' = [i \in Places |-> "failed"] /\ current' = [i \in Places |-> "failed"]
    /\ passes' = 0 /\ translated' = {} /\ inherited' = {}
    /\ UNCHANGED <<data, untranslated>>

Next ==
    \/ \E t \in Traps : Receive(t)
    \/ Preload \/ Retry \/ Process \/ Report \/ Return
    \/ Restart

Spec == Init /\ [][Next]_vars

-----------------------------------------------------------------------------
DistinctOids == \A i, j \in Places : data[i].oid = data[j].oid => i = j
Fits(i) == <<data[i].oid, data[i].value>> \notin Misfits

(* INCLUDE_UNRESOLVED_TRAP_VARBINDS: whichever modules can be loaded in    *)
(* whichever pass, the payload of a trap with distinct OIDs keeps every    *)
(* varbind.                                                                *)
EveryVarbindReported ==
    pc = "done" /\ IncludeUnresolved /\ DistinctOids =>
        \A i \in Places : data[i] \in translated \cup inherited \cup untranslated

(* _load_new_trap_mibs: over all the traps a worker handles, no module is  *)
(* asked for twice.                                                        *)
AttemptedOnce == \A m \in Mibs : attempts[m] <= 1

(* Modules the passes of _process_trap_metrics may have to load: the       *)
(* preload is about enterprise OIDs only.                                  *)
LeftToPasses == {MibOf[data[i].oid] : i \in {j \in Places : data[j].oid \notin Enterprise}}

(* When the MIB server delivers the modules of the varbinds and they are   *)
(* fewer than the passes, a varbind with a listed module is translated if  *)
(* it is below enterprises or its module was there before; below mib-2     *)
(* also if it has a bare value and no loaded module has a node above it,   *)
(* whose name it would get, its own module never being asked for.          *)
ListedIsTranslated ==
    /\ pc = "done" /\ DistinctOids
    /\ denied \cap {MibOf[data[i].oid] : i \in Places} = {}
    /\ Cardinality(LeftToPasses \ {NoMib}) < RetryMax
    => \A i \in Places :
            /\ MibOf[data[i].oid] # NoMib /\ Fits(i)
            /\ \/ data[i].oid \in Enterprise \/ MibOf[data[i].oid] \in known
               \/ data[i].value \in Bare /\ Above[data[i].oid] \cap loaded = {}
            => data[i] \in translated

(* _merge_unresolved_trap_varbinds: an OID that occurs more than once in a *)
(* trap with different untranslated values keeps all of them.              *)
EveryValueReported ==
    pc = "done" /\ IncludeUnresolved =>
        \A i \in Unresolved : data[i] \in translated \cup inherited \cup untranslated
=============================================================================
