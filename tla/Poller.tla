------------------------------- MODULE Poller -------------------------------
(***************************************************************************)
(* One worker process that polls and walks (snmp/manager.py): the task     *)
(* instance lives as long as the process and runs Poller.do_work for one   *)
(* task after the other.  A task chooses its requests from its profiles,   *)
(* loads their MIB modules, walks the bulk part chunk by chunk, asks for   *)
(* the get part chunk by chunk, and collects the values with the profiles  *)
(* they are for.  The order of rows within a walk is that of BulkWalk.     *)
(***************************************************************************)
EXTENDS Varbinds, MibIndex

CONSTANTS
    Instances,    \* what the device has: <<mib, object, index>>
    Nested,       \* Nested[v]: instances in the subtree of v whose names are not below v
    Above,        \* Above[i]: what i is called by the modules above its own, nearest first
    Numeric,      \* names with a metric type and a number; the others are fields
    Mentions,     \* Mentions[m]: entries whose key contains the name of module m
    Collections,  \* collections of profiles the worker may have read
    WalkProfile,  \* the profiles a walk may be given: sequences of at most one name
    PollProfiles, \* the profiles a poll may be given: sequences of names
    MaxOid,       \* max_oid_to_process
    MaxFaults,    \* bound on failing requests and ends of the process
    MaxChanges    \* bound on changes of what the MIB server answers

(* What an instance may be called: by its own module, or by the nearest    *)
(* module above it that is loaded, whose object stands for the start of    *)
(* its OID.                                                                *)
CallNames(i) == <<i>> \o Above[i]
NamesOf(is) == UNION {ToSet(CallNames(i)) : i \in is}

ASSUME PollerAssumption ==
    /\ \A i \in Instances : Above[i] \in Seq(ToSet(Above[i]))
    /\ \A n \in NamesOf(Instances) : n \in Seq(ToSet(n)) /\ Len(n) = 3 /\ n[1] \in Mibs
    /\ \A i \in Instances : ToSet(Above[i]) \cap Instances = {}
    /\ \A v \in Varbinds : v[1] \in Mibs /\ v \in Mentions[v[1]]
    /\ Nested \in [Varbinds -> SUBSET Instances]
    /\ Numeric \subseteq NamesOf(Instances)
    /\ \A c \in Collections : DOMAIN c \subseteq Names /\ \A n \in DOMAIN c : c[n] \in Bodies
    /\ WalkProfile \subseteq Seq(Names) /\ \A names \in WalkProfile : Len(names) <= 1
    /\ PollProfiles \subseteq Seq(Names) \ {<<>>}
    /\ MaxOid \in Nat \ {0} /\ MaxFaults \in Nat /\ MaxChanges \in Nat

VARIABLES task, faults, changes

vars == <<mibVars, task, faults, changes>>

(* ObjectIdentity("1.3.6"), which a walk without a profile asks for.       *)
Everything == <<>>

(* The instances in the subtree of an entry.                               *)
Below(v) == {i \in Instances : Within(i, v)} \cup (IF v = Everything THEN {} ELSE Nested[v])
AllBelow(vs) == UNION {Below(v) : v \in vs}

(* The values of one group key (get_group_key) go to one event; module and *)
(* index are those of the name a value has.                                *)
Group(i) == <<i[1], i[3]>>

(* pc; the arguments; the request; what is left of it; the chunk at work   *)
(* and its instances still to come; the result: the names of the values,   *)
(* and the pairs of a group and a profile; the entries of chunks that      *)
(* failed; whether every answer could be translated when the task began.   *)
IdleTask == [pc |-> "idle", isWalk |-> FALSE, names |-> <<>>, collection |-> <<>>,
             request |-> NoRequest, bulk |-> {}, get |-> {}, chunk |-> {}, due |-> {},
             values |-> {}, profiles |-> {}, failed |-> {}, translated |-> FALSE]

DownTask == [IdleTask EXCEPT !.pc = "down"]

Init ==
    /\ MibInit
    /\ task = DownTask
    /\ faults = 0 /\ changes = 0

At(l) == task.pc = l

-----------------------------------------------------------------------------
(* The process starts, and starts again when the index was not usable.     *)
StartUp ==
    /\ At("down")
    /\ StartWorker
    /\ task' = IF mibMap' = NoIndex THEN DownTask ELSE IdleTask
    /\ UNCHANGED <<faults, changes>>

(* The MIB server is updated, goes wrong or recovers.                      *)
ServerChanges ==
    /\ changes < MaxChanges
    /\ \E s \in Servers \ {server} : server' = s
    /\ changes' = changes + 1
    /\ UNCHANGED <<cache, mibMap, builder, alreadyLoaded, task, faults>>

RequestOf(walk, names, c) ==
    IF walk /\ names = <<>>
    THEN [NoRequest EXCEPT !.bulk = {Everything}]
    ELSE PollingInfo(c, names, walk)

(* do_work for a walk or a poll, with the collection read last, up to and  *)
(* including get_varbinds: the families that were never loaded are loaded; *)
(* a walk of everything loads none.                                        *)
Begin(walk, names, c) ==
    /\ At("idle")
    /\ LET request == RequestOf(walk, names, c)
           families == IF Everything \in request.bulk THEN {}
                       ELSE Families(request) \ alreadyLoaded
           asked == AllBelow(request.bulk \cup request.get)
       IN  /\ LoadMibs(families)
           /\ task' = [IdleTask EXCEPT !.pc = "bulk", !.isWalk = walk, !.names = names,
                                       !.collection = c, !.request = request,
                                       !.bulk = request.bulk, !.get = request.get,
                                       !.translated = \A i \in asked : i[1] \in builder']
    /\ UNCHANGED <<faults, changes>>

-----------------------------------------------------------------------------
(* process_snmp_data.  set_profile_name looks for the name of the value,   *)
(* its object and its MIB module in the mapping, match_mapping_to_profile  *)
(* then for any key that contains the name of the module, be it as part of *)
(* a longer name (the first of the dictionary, an order no property        *)
(* depends on).                                                            *)
MatchedNames(mapping, i) ==
    LET exact == {k \in DOMAIN mapping : Within(i, k)}
        ofMib == DOMAIN mapping \cap Mentions[i[1]]
        longest(ks) == CHOOSE k \in ks : \A l \in ks : Len(l) <= Len(k)
    IN  IF exact # {} THEN mapping[longest(exact)]
        ELSE IF ofMib # {} THEN mapping[CHOOSE k \in ofMib : TRUE]
        ELSE <<>>

(* clean_profile_name cuts the joined names behind the first conditional   *)
(* profile, whose "__host" goes away with the rest.                        *)
CleanNames(ns) ==
    {ns[j] : j \in {k \in DOMAIN ns : \A l \in 1..(k - 1) : ns[l] \notin Conditional}}

(* handle_metrics adds the profiles to the group of a number only.         *)
Attributed(mapping, seen) ==
    UNION {{<<Group(i), n>> : n \in CleanNames(MatchedNames(mapping, i))} :
              i \in seen \cap Numeric}

Collected(t, mapping, seen) ==
    [t EXCEPT !.values = @ \cup seen, !.profiles = @ \cup Attributed(mapping, seen)]

(* is_mib_resolved and is_mib_known: the nearest name, of the instance's   *)
(* own module or of one above, that is found among some modules.           *)
Resolved(i, mibs) == \E n \in ToSet(CallNames(i)) : n[1] \in mibs
NameIn(i, mibs) ==
    LET names == CallNames(i)
    IN  names[CHOOSE j \in DOMAIN names :
                  names[j][1] \in mibs /\ \A k \in 1..(j - 1) : names[k][1] \notin mibs]

(* Mutant of Outcomes: a module is not wanted.                             *)
OutcomesWantNone(rows, loaded) ==
    LET resolved == {i \in rows : Resolved(i, loaded)}
        known == {i \in rows \ resolved : Resolved(i, mibMap)}
    IN  {[seen |-> {NameIn(i, loaded) : i \in part}, wanted |-> {}] :
            part \in IF known = {} THEN {resolved} ELSE SUBSET resolved}

(* The rows of a table up to the first one that is unresolved and found in *)
(* the index: those before it are seen, its module is wanted.  A row that  *)
(* is called by a module above its own is resolved, whether or not its own *)
(* module is in the index.  Unresolved rows that the index does not have   *)
(* are passed over.                                                        *)
Outcomes(rows, loaded) ==
    LET resolved == {i \in rows : Resolved(i, loaded)}
        known == {i \in rows \ resolved : Resolved(i, mibMap)}
        seen(part) == {NameIn(i, loaded) : i \in part}
    IN  IF known = {} THEN {[seen |-> seen(resolved), wanted |-> {}]}
        ELSE {[seen |-> seen(part), wanted |-> {NameIn(i, mibMap)[1]}] :
                 part \in SUBSET resolved, i \in known}

(* get_varbind_chunk: at most max_oid_to_process entries at a time.        *)
ChunksOf(vs) ==
    {c \in SUBSET vs : Cardinality(c) = IF Cardinality(vs) < MaxOid THEN Cardinality(vs)
                                        ELSE MaxOid}

(* The names of a chunk are resolved when the request is built; pysnmp     *)
(* loads a missing module itself, or raises.                               *)
MissingOf(chunk) == {v[1] : v \in chunk \ {Everything}} \ builder
NamesResolve(chunk) == MissingOf(chunk) \subseteq Loadable
LoadNames(chunk) ==
    /\ builder' = builder \cup MissingOf(chunk)
    /\ UNCHANGED <<server, cache, mibMap, alreadyLoaded>>

BeginChunk ==
    /\ At("bulk") /\ task.bulk # {}
    /\ \E chunk \in ChunksOf(task.bulk) :
          /\ NamesResolve(chunk)
          /\ LoadNames(chunk)
          /\ task' = [task EXCEPT !.pc = "walking", !.bulk = @ \ chunk, !.chunk = chunk,
                                  !.due = AllBelow(chunk)]
    /\ UNCHANGED <<faults, changes>>

(* One response of the walk: its table is processed; when a module is      *)
(* wanted it is loaded and the same table processed again, which stops at  *)
(* the same row because the table was translated on arrival.               *)
Response ==
    /\ At("walking")
    /\ \E rows \in SUBSET task.due \ {{}} : \E table \in Outcomes(rows, builder) :
          /\ LoadMibs(table.wanted)
          /\ task' = [Collected(task, task.request.bulkMapping, table.seen)
                         EXCEPT !.due = @ \ rows]
    /\ UNCHANGED <<faults, changes>>

EndChunk ==
    /\ At("walking") /\ task.due = {}
    /\ task' = [task EXCEPT !.pc = "bulk", !.chunk = {}]
    /\ UNCHANGED <<mibVars, faults, changes>>

(* run_get_request: a chunk is answered as a whole and translated with the *)
(* modules of its names; those it would want besides are ignored.          *)
GetChunk ==
    /\ At("bulk") /\ task.bulk = {} /\ task.get # {}
    /\ \E chunk \in ChunksOf(task.get) :
          /\ NamesResolve(chunk)
          /\ LoadNames(chunk)
          /\ \E table \in Outcomes(AllBelow(chunk), builder') :
                task' = [Collected(task, task.request.getMapping, table.seen)
                            EXCEPT !.get = @ \ chunk]
    /\ UNCHANGED <<faults, changes>>

(* Mutant of GetChunkRaises: the chunks that are left are not asked for.   *)
GetChunkBreaks ==
    /\ At("bulk") /\ task.bulk = {} /\ task.get # {}
    /\ \E chunk \in ChunksOf(task.get) :
          /\ \/ ~NamesResolve(chunk) /\ UNCHANGED faults
             \/ faults < MaxFaults /\ faults' = faults + 1
          /\ task' = [task EXCEPT !.get = {}, !.failed = @ \cup chunk]
    /\ UNCHANGED <<mibVars, changes>>

(* An exception in get_cmd, for a name or for another reason, is logged    *)
(* and the next chunk is asked for.                                        *)
GetChunkRaises ==
    /\ At("bulk") /\ task.bulk = {} /\ task.get # {}
    /\ \E chunk \in ChunksOf(task.get) :
          /\ \/ ~NamesResolve(chunk) /\ UNCHANGED faults
             \/ faults < MaxFaults /\ faults' = faults + 1
          /\ task' = [task EXCEPT !.get = @ \ chunk, !.failed = @ \cup chunk]
    /\ UNCHANGED <<mibVars, changes>>

(* A name of the bulk part that does not resolve raises out of the task.   *)
BulkNamesRaise ==
    /\ At("bulk") /\ \E chunk \in ChunksOf(task.bulk) : ~NamesResolve(chunk)
    /\ task' = IdleTask
    /\ UNCHANGED <<mibVars, faults, changes>>

(* An error the engine or the device reports (_any_failure_happened), or   *)
(* an exception in the bulk part, ends the task without a result.          *)
TaskFails ==
    /\ At("walking") \/ (At("bulk") /\ task.get # {})
    /\ faults < MaxFaults
    /\ task' = IdleTask
    /\ faults' = faults + 1
    /\ UNCHANGED <<mibVars, changes>>

(* The result is handed to enrich.                                         *)
ReturnResult ==
    /\ At("bulk") /\ task.bulk = {} /\ task.get = {}
    /\ task' = [task EXCEPT !.pc = "done"]
    /\ UNCHANGED <<mibVars, faults, changes>>

NextTask ==
    /\ At("done")
    /\ task' = IdleTask
    /\ UNCHANGED <<mibVars, faults, changes>>

ProcessEnds ==
    /\ ~At("down") /\ faults < MaxFaults
    /\ StopWorker
    /\ task' = DownTask
    /\ faults' = faults + 1
    /\ UNCHANGED changes

TaskStep ==
    \/ BeginChunk \/ BulkNamesRaise \/ Response \/ EndChunk
    \/ GetChunk \/ GetChunkRaises \/ TaskFails \/ ReturnResult \/ NextTask

Next ==
    \/ StartUp \/ ServerChanges \/ ProcessEnds \/ TaskStep
    \/ \E c \in Collections :
          \/ \E names \in WalkProfile : Begin(TRUE, names, c)
          \/ \E names \in PollProfiles : Begin(FALSE, names, c)

Spec == Init /\ [][Next]_vars

(* Kubernetes restarts the process, and a running task goes on.            *)
FairSpec ==
    /\ Spec
    /\ WF_vars(StartUp)
    /\ WF_vars(BeginChunk) /\ WF_vars(BulkNamesRaise) /\ WF_vars(Response) /\ WF_vars(EndChunk)
    /\ WF_vars(GetChunk) /\ WF_vars(GetChunkRaises)
    /\ WF_vars(ReturnResult) /\ WF_vars(NextTask)

-----------------------------------------------------------------------------
TaskPcs == {"down", "idle", "bulk", "walking", "done"}

(* The task and the MIB data of the worker have values of their types.     *)
TypeOK ==
    /\ MibTypeOK
    /\ task.pc \in TaskPcs
    /\ task.bulk \subseteq task.request.bulk /\ task.get \subseteq task.request.get
    /\ task.chunk \subseteq task.request.bulk
    /\ task.due \subseteq Instances /\ task.values \subseteq NamesOf(Instances)
    /\ task.profiles \subseteq {Group(i) : i \in NamesOf(Instances)} \X Names
    /\ task.failed \subseteq task.request.get
    /\ faults \in 0..MaxFaults /\ changes \in 0..MaxChanges

(* What profile n of the task asks for.                                    *)
AskedBy(n) ==
    IF ~Found(task.collection, n) THEN {}
    ELSE task.collection[n].varBinds
           \cup (IF task.collection[n].walk THEN {System} ELSE {})

AskedNames == ToSet(task.names)
Asked == UNION {AskedBy(n) : n \in AskedNames}
Requested == task.request.bulk \cup task.request.get

(* Profile.process and Profile.__add__: whatever the profiles of a task    *)
(* and their order, the merged request has every entry of every profile,   *)
(* or a parent of it by name, and nothing that no profile has; and no      *)
(* entry is walked beside one that its name lies below.  Subtrees of       *)
(* different names may still lie in each other; BulkWalk is about them.    *)
RequestIsTheUnion ==
    task.pc \in {"bulk", "walking", "done"} /\ task.names # <<>> =>
        /\ \A v \in Asked : \E w \in Requested : Within(v, w)
        /\ Requested \subseteq Asked
        /\ \A v, w \in task.request.bulk : Within(v, w) => v = w

(* set_profile_name over the merged mappings: a number whose name some     *)
(* profile asked for is reported for a profile that asked for it, and no   *)
(* profile is named that asked for nothing whose key contains the name of  *)
(* its module.  One that asked for Q-BRIDGE-MIB is named for a number of   *)
(* BRIDGE-MIB that came with the walk of something else.                   *)
EveryValueHasItsAsker ==
    At("done") /\ ~task.isWalk =>
        /\ \A i \in task.values \cap Numeric :
              (\E v \in Asked \ task.failed : Within(i, v)) =>
                  \E n \in AskedNames :
                      <<Group(i), n>> \in task.profiles /\ \E v \in AskedBy(n) : Within(i, v)
        /\ \A pair \in task.profiles : \E v \in AskedBy(pair[2]) : v \in Mentions[pair[1][1]]

(* run_get_request and run_bulk_request: when everything could be          *)
(* translated from the start, the result lacks the values of the chunks    *)
(* that raised and no other; and it has nothing that was not asked for.    *)
FailuresStayInTheirChunk ==
    At("done") =>
        /\ task.values \subseteq NamesOf(AllBelow(Requested))
        /\ task.translated => AllBelow(Requested \ task.failed) \subseteq task.values

(* load_mibs during a walk: rows behind the first row of a module that is  *)
(* not loaded yet are dropped, but from some time on, when the MIB server  *)
(* stays up, every result has all the values whose module is in the index: *)
(* under their own names, or, when a module above was loaded first and     *)
(* their own never, under the names of that one.                           *)
EventuallyTranslated ==
    <>[](server \in Indexes) =>
        <>[](At("done") =>
                \A i \in AllBelow(Requested) : i[1] \in mibMap =>
                    \/ i \in task.values
                    \/ i[1] \notin builder /\ ToSet(Above[i]) \cap task.values # {})

(* MibIndexResponseValidator and stale_if_error: once an index was cached, *)
(* no answer of the MIB server keeps a worker from starting; only a server *)
(* that cannot be reached does, for the standard modules.                  *)
IndexOutageIsHarmless == [](cache # NoIndex => <>(~At("down") \/ server = Down))
=============================================================================
