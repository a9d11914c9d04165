------------------------------ MODULE MibIndex ------------------------------
(***************************************************************************)
(* The MIB index of a worker: Poller._refresh_mib_map                      *)
(* (snmp/manager.py), the check of responses before they are cached        *)
(* (snmp/mib_index_validator.py) and the loading of MIB modules.  The MIB  *)
(* server and the cache of requests-cache in MongoDB are shared by all     *)
(* workers; the builder and the index are those of one worker process.     *)
(***************************************************************************)
EXTENDS FiniteSets

CONSTANTS
    Mibs,        \* names of MIB modules
    Standard,    \* DEFAULT_STANDARD_MIBS
    Indexes,     \* usable contents of the index: nonempty sets of modules
    NoIndex,     \* nothing: an empty cache, an empty map
    Unusable,    \* the server answers 200 with a body without one mapping
    Failing,     \* the server answers the index with an error status
    Down         \* the server cannot be reached

ASSUME MibsAssumption ==
    /\ Standard \subseteq Mibs
    /\ \A index \in Indexes : index \subseteq Mibs /\ index # {}
    /\ NoIndex = {}
    /\ {Unusable, Failing, Down} \cap Indexes = {}

VARIABLES
    server,         \* what the MIB server answers: an index or one of the failures
    cache,          \* MongoDB: the cached response, its usable mappings
    mibMap,         \* mib_map of the worker
    builder,        \* modules in its MibBuilder
    alreadyLoaded   \* already_loaded_mibs

mibVars == <<server, cache, mibMap, builder, alreadyLoaded>>

Servers == Indexes \cup {Unusable, Failing, Down}

MibTypeOK ==
    /\ server \in Servers
    /\ cache \in Indexes \cup {NoIndex}
    /\ mibMap \in Indexes \cup {NoIndex}
    /\ builder \subseteq Mibs /\ alreadyLoaded \subseteq Mibs

MibInit ==
    /\ server \in Servers
    /\ cache = NoIndex /\ mibMap = NoIndex
    /\ builder = {} /\ alreadyLoaded = {}

-----------------------------------------------------------------------------
(* Mutant of StoredResponse: any successful response is cached.            *)
StoredUnchecked ==
    IF server \in Indexes THEN server ELSE IF server = Unusable THEN NoIndex ELSE cache

(* Mutant of StoredResponse: whatever arrives is cached.                   *)
StoredAnything == IF server = Down THEN cache ELSE server

(* The hook MibIndexResponseValidator.__call__ runs before the response is *)
(* cached and refuses one without mappings.                                *)
StoredResponse == IF server \in Indexes THEN server ELSE cache

(* Poller.__init__: the standard modules are loaded through the compiler,  *)
(* whose source is the MIB server, and the index is refreshed.  When the   *)
(* request or the hook fails, the answer is the cached response            *)
(* (stale_if_error).  The exception of a module that cannot be had, or     *)
(* RuntimeError for want of an index, ends the process.  parse_mib_index   *)
(* keeps the rows it can use.                                              *)
StartWorker ==
    LET starts == server # Down /\ StoredResponse # NoIndex
    IN  /\ cache' = StoredResponse
        /\ mibMap' = IF starts THEN StoredResponse ELSE NoIndex
        /\ builder' = IF starts THEN Standard ELSE {}
        /\ alreadyLoaded' = {}
        /\ UNCHANGED server

(* The memory of a process that ended is gone.                             *)
StopWorker ==
    /\ mibMap' = NoIndex /\ builder' = {} /\ alreadyLoaded' = {}
    /\ UNCHANGED <<server, cache>>

(* What builder.load_modules finds: a module it has, or one on the server. *)
Loadable == builder \cup (IF server = Down THEN {} ELSE Mibs)

(* load_mibs: a module that cannot be loaded is skipped with a warning;    *)
(* the caller remembers those that were.                                   *)
LoadMibs(mibs) ==
    /\ builder' = builder \cup (mibs \cap Loadable)
    /\ alreadyLoaded' = alreadyLoaded \cup (mibs \cap Loadable)
    /\ UNCHANGED <<server, cache, mibMap>>
=============================================================================
