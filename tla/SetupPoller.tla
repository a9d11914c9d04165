---------------------------- MODULE SetupPoller -----------------------------
(***************************************************************************)
(* inventory/tasks.py: after a walk, inventory_setup_poller assigns the    *)
(* profiles of a host to polling frequencies and evaluates its conditional *)
(* profiles against what the walk wrote to the database.  The module has   *)
(* one host; WorkChains has the steps that write its schedule entries,     *)
(* which are one step here.                                                *)
(***************************************************************************)
EXTENDS FiniteSets, Functions, Naturals, SequencesExt, TLC

CONSTANTS
    Names,        \* names of the profiles of the configuration
    TagOf,        \* TagOf[n]: the name "n__host" of the evaluated profile
    Objects,      \* what varBinds may list, whatever it is
    Indices,      \* rows of the table a condition is about
    Periods,      \* polling frequencies
    NoPeriod,     \* a profile without a frequency
    HostProfiles, \* profiles of the inventory record
    SmartHost,    \* smart_profiles of the inventory record
    PollBase,     \* POLL_BASE_PROFILES
    Devices,      \* what the device may answer: whether it fits, and its rows
    Walks         \* slots for walks of the host in flight

Tags == {TagOf[n] : n \in Names}

ASSUME SetupAssumption ==
    /\ TagOf \in [Names -> Tags] /\ Tags \cap Names = {}
    /\ \A m, n \in Names : TagOf[m] = TagOf[n] => m = n
    /\ HostProfiles \subseteq Names
    /\ SmartHost \in BOOLEAN /\ PollBase \in BOOLEAN
    /\ NoPeriod \notin Periods
    /\ Devices \subseteq [fits : BOOLEAN, up : SUBSET Indices, down : SUBSET Indices,
                          bare : SUBSET Indices]

(* `condition.type', or which other key the profile has.  `toggled': there *)
(* is a key `enabled' or `disabled'.  `negated': of the condition.         *)
Kinds == {"static", "base", "field", "mandatory", "walk", "conditional", "evaluated"}
Bodies == [kind : Kinds, period : Periods \cup {NoPeriod}, toggled : BOOLEAN,
           negated : BOOLEAN, objects : Objects, indices : SUBSET Indices]
Docs == [name : Names \cup Tags, body : Bodies]

RowSets == [up : SUBSET Indices, down : SUBSET Indices, bare : SUBSET Indices]

VARIABLES
    stored,       \* MongoDB: documents of the collection profiles, in their order
    state,        \* MongoDB: whether the state of the target fits the field conditions
    attributes,   \* MongoDB: rows by their documents, see Enrich
    assigned,     \* Redis: the profiles in the poll entry of each frequency
    device,       \* what the device would answer now
    walk          \* walks and setups in flight

setupVars == <<stored, state, attributes, assigned, device, walk>>

(* The bodies of the conditional profiles still to be evaluated, the lists *)
(* so far, the document to be inserted.                                    *)
NoWalk == [stage |-> "free", computed |-> <<>>,
           lists |-> [p \in Periods |-> {}], doc |-> <<>>]

Stages == {"free", "setup", "evaluate", "insert"}

-----------------------------------------------------------------------------
(* return_collection: later documents override earlier ones of the name.   *)
NamesOf(docs) == {docs[j].name : j \in DOMAIN docs}
LastOf(docs, n) ==
    CHOOSE j \in DOMAIN docs :
        docs[j].name = n /\ \A k \in DOMAIN docs : docs[k].name = n => k <= j

Collection(docs) == [n \in NamesOf(docs) |-> docs[LastOf(docs, n)].body]

(* is_smart_profile_valid and assign_smart_profiles.  No stored profile    *)
(* has the key `disabled': every schema rejects it.                        *)
SmartlyAssigned(collection, fits) ==
    {n \in DOMAIN collection :
        LET body == collection[n]
        IN  /\ SmartHost
            /\ body.period # NoPeriod
            /\ \/ body.kind = "base" /\ PollBase
               \/ body.kind = "field" /\ fits}

(* check_profiles_type: a walk profile is no static one; a smart profile   *)
(* is taken although it need not be listed; a conditional one is computed; *)
(* a profile without frequency, or none of that name, is skipped.          *)
Listed(collection) == HostProfiles \cap DOMAIN collection
StaticallyAssigned(collection) ==
    {n \in Listed(collection) :
        collection[n].kind \notin {"walk", "conditional"} /\ collection[n].period # NoPeriod}
Computed(collection) ==
    Restrict(collection, {n \in Listed(collection) : collection[n].kind = "conditional"})

Mandatory(collection) == {n \in DOMAIN collection : collection[n].kind = "mandatory"}

(* assign_profiles.                                                        *)
AssignedProfiles(collection, fits) ==
    LET names == SmartlyAssigned(collection, fits) \cup StaticallyAssigned(collection)
                   \cup Mandatory(collection)
    IN  [p \in Periods |-> {n \in names : collection[n].period = p}]

(* create_query: $ne, $nin and $not also find a document of the MIB module *)
(* that does not have the field.                                           *)
Finds(body, rows) == IF body.negated THEN rows.down \cup rows.bare ELSE rows.up

(* generate_conditional_profile: the objects of the profile for the rows   *)
(* that were found.                                                        *)
Evaluated(n, body) ==
    [name |-> TagOf[n],
     body |-> [kind |-> "evaluated", period |-> body.period, toggled |-> FALSE,
               negated |-> FALSE, objects |-> body.objects,
               indices |-> Finds(body, attributes)]]

-----------------------------------------------------------------------------
At(w, s) == walk[w].stage = s

(* A walk of the host, scheduled or after a restart: enrich writes what    *)
(* the device answered before the setup runs.  The field of a row has a    *)
(* value that fits (up) or does not (down); a row of another table of the  *)
(* module is bare of it, and so is the second document that two tasks may  *)
(* create for a new row (module Enrich).  A row that is not reported keeps *)
(* its document.                                                           *)
Enrich(w) ==
    /\ At(w, "free")
    /\ state' = device.fits
    /\ \E twins \in SUBSET ((device.up \cup device.down)
                               \ (attributes.up \cup attributes.down)) :
          attributes' = [up   |-> device.up \cup (attributes.up \ device.down),
                         down |-> device.down \cup (attributes.down \ device.up),
                         bare |-> attributes.bare \cup device.bare \cup twins]
    /\ walk' = [walk EXCEPT ![w].stage = "setup"]
    /\ UNCHANGED <<stored, assigned, device>>

(* The collection is read, up to three times while it is empty, then the   *)
(* target; the profiles are assigned.                                      *)
Assign(w) ==
    /\ At(w, "setup")
    /\ \E collection \in {Collection(stored)} :
          walk' = [walk EXCEPT ![w].stage = "evaluate",
                               ![w].computed = Computed(collection),
                               ![w].lists = AssignedProfiles(collection, state)]
    /\ UNCHANGED <<stored, state, attributes, assigned, device>>

Without(computed, n) == Restrict(computed, DOMAIN computed \ {n})

(* add_profile_to_assigned_list, before or after the document is stored.   *)
Added(w, n) ==
    [walk[w] EXCEPT !.computed = Without(@, n),
                    !.lists[walk[w].computed[n].period] = @ \cup {TagOf[n]}]

PositionsOf(tag) == {j \in DOMAIN stored : stored[j].name = tag}

(* Mutant of Evaluate: the document is always inserted.                    *)
EvaluateInserts(w, n) ==
    /\ At(w, "evaluate") /\ n \in DOMAIN walk[w].computed
    /\ walk' = [walk EXCEPT ![w] = [Added(w, n) EXCEPT !.stage = "insert",
                                        !.doc = <<Evaluated(n, walk[w].computed[n])>>]]
    /\ UNCHANGED <<stored, state, attributes, assigned, device>>

(* A computed profile is evaluated and its document replaced (replace_one  *)
(* replaces the first that matches), or an insertion begins: the           *)
(* collection has no unique index, so nothing stops a second one.          *)
Evaluate(w, n) ==
    /\ At(w, "evaluate") /\ n \in DOMAIN walk[w].computed
    /\ LET doc == Evaluated(n, walk[w].computed[n])
           positions == PositionsOf(TagOf[n])
           first == CHOOSE j \in positions : \A k \in positions : j <= k
       IN  IF positions # {}
           THEN /\ stored' = [stored EXCEPT ![first] = doc]
                /\ walk' = [walk EXCEPT ![w] = Added(w, n)]
           ELSE /\ walk' = [walk EXCEPT ![w] = [Added(w, n) EXCEPT !.stage = "insert",
                                                                   !.doc = <<doc>>]]
                /\ UNCHANGED stored
    /\ UNCHANGED <<state, attributes, assigned, device>>

InsertEvaluated(w) ==
    /\ At(w, "insert")
    /\ stored' = stored \o walk[w].doc
    /\ walk' = [walk EXCEPT ![w].stage = "evaluate", ![w].doc = <<>>]
    /\ UNCHANGED <<state, attributes, assigned, device>>

(* An exception in generate_conditional_profile skips the profile.         *)
EvaluationFails(w, n) ==
    /\ At(w, "evaluate") /\ n \in DOMAIN walk[w].computed
    /\ walk' = [walk EXCEPT ![w].computed = Without(@, n)]
    /\ UNCHANGED <<stored, state, attributes, assigned, device>>

(* The poll entries are saved, those without a profile deleted.            *)
Schedule(w) ==
    /\ At(w, "evaluate") /\ walk[w].computed = <<>>
    /\ assigned' = walk[w].lists
    /\ walk' = [walk EXCEPT ![w] = NoWalk]
    /\ UNCHANGED <<stored, state, attributes, device>>

(* A worker is lost: its task is delivered again.                          *)
SetupRedelivered(w) ==
    /\ walk[w].stage \in {"evaluate", "insert"}
    /\ walk' = [walk EXCEPT ![w] = [NoWalk EXCEPT !.stage = "setup"]]
    /\ UNCHANGED <<stored, state, attributes, assigned, device>>

SetupStep(w) ==
    \/ Enrich(w) \/ Assign(w) \/ InsertEvaluated(w) \/ Schedule(w)
    \/ \E n \in Names : Evaluate(w, n)
=============================================================================
