---------------------------- MODULE ControlState ----------------------------
(***************************************************************************)
(* The stores that the inventory job and the Celery workers share:         *)
(*   - MongoDB: the collections inventory, groups, profiles, targets and   *)
(*     attributes;                                                         *)
(*   - Redis: the RedBeat schedule entries, one walk entry per host and    *)
(*     one poll entry per host and polling period;                         *)
(*   - the configuration the administrator edits (inventory.csv and        *)
(*     config.yaml), which only the inventory job reads.                   *)
(* CustomPeriodicTaskManager (customtaskmanager.py) has no state of its    *)
(* own: its methods are operators over the schedule entries.               *)
(***************************************************************************)
EXTENDS FiniteSets, Naturals

CONSTANTS
    Hosts,        \* targets, "address:port"
    Groups,       \* names of host groups
    Records,      \* contents of an inventory line: credentials, walk_interval, profiles
    ProfileSets,  \* contents the profiles collection can have
    Periods,      \* polling frequencies
    Expiries,     \* values of CHAIN_OF_TASKS_EXPIRY_TIME
    Assign,       \* Assign[ps][r]: frequencies of the profiles of ps assigned to record r
    WalkProfiles, \* names of walk profiles, or none for a walk of everything
    WalkProfileOf, \* WalkProfileOf[ps][r]: return_walk_profile for record r
    Matches,      \* Matches[h]: the hosts whose keys the pattern "*h;*" matches
    Absent, Delete,                 \* no inventory line; a line with delete=true
    NoProfiles, NoGroup, NoDoc, NoEntry, NoLine

(* Hosts and groups are told apart by their first character: the address   *)
(* of a host starts with a digit (InventoryProcessor.process_line).        *)
ASSUME NamesAssumption == Hosts \cap Groups = {} /\ NoGroup \notin Groups

ASSUME RecordsAssumption == Absent \notin Records /\ Delete \notin Records

(* An empty profiles collection assigns nothing.                           *)
ASSUME AssignAssumption ==
    /\ NoProfiles \in ProfileSets
    /\ Assign \in [ProfileSets -> [Records -> SUBSET Periods]]
    /\ \A r \in Records : Assign[NoProfiles][r] = {}

ASSUME WalkProfileAssumption ==
    WalkProfileOf \in [ProfileSets -> [Records -> WalkProfiles]]

(* The pattern of a host matches at least the keys of the host itself.     *)
ASSUME MatchesAssumption ==
    /\ Matches \in [Hosts -> SUBSET Hosts]
    /\ \A h \in Hosts : h \in Matches[h]

-----------------------------------------------------------------------------
(* A document of the collection inventory, a line of the expanded          *)
(* inventory, and the definition RedBeat stores for a walk: what it takes  *)
(* from the record, the kwarg `profile', options["expires"] of the walk    *)
(* task as `expires', and the kwarg chain_of_tasks_expiry_time, which the  *)
(* walk hands down to the polls, as `chainExpires'.  Of a poll entry only  *)
(* options["expires"] is kept.                                             *)
Docs == [rec : Records, group : Groups \cup {NoGroup}]
Lines == [host : Hosts, what : Records \cup {Delete}, group : Groups \cup {NoGroup}]
WalkEntries == [rec : Records, profile : WalkProfiles,
                expires : Expiries, chainExpires : Expiries]

ASSUME SentinelsAssumption ==
    /\ NoDoc \notin Docs
    /\ NoLine \notin Lines
    /\ NoEntry \notin WalkEntries
    /\ NoEntry \notin Expiries

VARIABLES
    lines,        \* [Hosts \cup Groups -> line]: inventory.csv
    groupsFile,   \* the section "groups" of config.yaml
    profilesFile, \* the section "profiles" of config.yaml and the built-in ones
    expiry,       \* the setting CHAIN_OF_TASKS_EXPIRY_TIME
    inventory,    \* MongoDB: inventory document of each host, or NoDoc
    groups,       \* MongoDB: groups
    profiles,     \* MongoDB: profiles
    targets,      \* MongoDB: hosts with a document in targets
    attributes,   \* MongoDB: hosts with documents in attributes
    walkEntry,    \* Redis: walk entry of each host, or NoEntry
    pollEntry     \* Redis: `expires' of the poll entry of a host and period, or NoEntry

config == <<lines, groupsFile, profilesFile, expiry>>
mongo  == <<inventory, groups, profiles, targets, attributes>>
redis  == <<walkEntry, pollEntry>>

ConfigTypeOK ==
    /\ lines \in [Hosts \cup Groups -> Records \cup {Absent, Delete}]
    /\ groupsFile \in [Groups -> SUBSET Hosts]
    /\ profilesFile \in ProfileSets
    /\ expiry \in Expiries

StoresTypeOK ==
    /\ inventory \in [Hosts -> Docs \cup {NoDoc}]
    /\ groups \in [Groups -> SUBSET Hosts]
    /\ profiles \in ProfileSets
    /\ targets \in SUBSET Hosts
    /\ attributes \in SUBSET Hosts
    /\ walkEntry \in [Hosts -> WalkEntries \cup {NoEntry}]
    /\ pollEntry \in [Hosts -> [Periods -> Expiries \cup {NoEntry}]]

(* Before the first installation: nothing configured, every store empty.   *)
StoresInit ==
    /\ lines = [x \in Hosts \cup Groups |-> Absent]
    /\ groupsFile = [g \in Groups |-> {}]
    /\ profilesFile \in ProfileSets \ {NoProfiles}
    /\ expiry \in Expiries
    /\ inventory = [h \in Hosts |-> NoDoc]
    /\ groups = [g \in Groups |-> {}]
    /\ profiles = NoProfiles
    /\ targets = {}
    /\ attributes = {}
    /\ walkEntry = [h \in Hosts |-> NoEntry]
    /\ pollEntry = [h \in Hosts |-> [p \in Periods |-> NoEntry]]

-----------------------------------------------------------------------------
(* CustomPeriodicTaskManager.  manage_task reads an entry in one request   *)
(* and saves it in another, so the operators for it take what was read.    *)

NoPolls == [p \in Periods |-> NoEntry]

(* Mutant of ManagedWalk: an existing entry is saved as it was read.       *)
ManagedWalkKeepsOld(read, r, profile, exp) ==
    IF read # NoEntry THEN read
    ELSE [rec |-> r, profile |-> profile, expires |-> exp, chainExpires |-> exp]

(* Saving the walk task of record r: an existing entry gets new args,      *)
(* kwargs and schedule but keeps its options, hence its `expires'.         *)
ManagedWalk(read, r, profile, exp) ==
    [rec |-> r, profile |-> profile,
     expires |-> IF read = NoEntry THEN exp ELSE read.expires,
     chainExpires |-> exp]

(* Saving a poll task: only a new entry takes the `expires' it is given.   *)
ManagedPoll(read, exp) == IF read = NoEntry THEN exp ELSE read

(* Mutant of WithoutPollsOf: only the walk of a host is deleted.           *)
PollsNotDeleted(h) == pollEntry

(* delete_all_tasks_of_host deletes whatever the pattern of h matches.     *)
WithoutWalksOf(h) ==
    [x \in Hosts |-> IF x \in Matches[h] THEN NoEntry ELSE walkEntry[x]]
WithoutPollsOf(h) ==
    [x \in Hosts |-> IF x \in Matches[h] THEN NoPolls ELSE pollEntry[x]]

(* Mutant of WithoutUnusedPolls: the unused entries stay.                  *)
UnusedPollsStay(h, active) == pollEntry

(* delete_unused_poll_tasks: of the poll entries the pattern of h matches, *)
(* only those of h itself for an active period stay.                       *)
WithoutUnusedPolls(h, active) ==
    [x \in Hosts |->
        IF x \notin Matches[h] THEN pollEntry[x]
        ELSE [p \in Periods |->
                IF x = h /\ p \in active THEN pollEntry[x][p] ELSE NoEntry]]

(* Mutant of StoredExpiries: the walk tasks are not looked at.             *)
StoredPollExpiries ==
    (UNION {{pollEntry[h][p] : p \in Periods} : h \in Hosts}) \ {NoEntry}

(* get_chain_of_task_expiries for the walk and poll tasks.                 *)
StoredExpiries ==
    {walkEntry[h].expires : h \in {x \in Hosts : walkEntry[x] # NoEntry}}
      \cup ((UNION {{pollEntry[h][p] : p \in Periods} : h \in Hosts}) \ {NoEntry})

(* InventoryProcessor.get_all_hosts: the hosts of every listed group, then *)
(* the single hosts that are in none of those groups.                      *)
PlannedLines(file, members) ==
    LET listed == {g \in Groups : file[g] # Absent}
        ofGroup(g) == {[host |-> h, what |-> file[g], group |-> g] : h \in members[g]}
        grouped == UNION {members[g] : g \in listed}
        single == {h \in Hosts \ grouped : file[h] # Absent}
    IN  (UNION {ofGroup(g) : g \in listed})
          \cup {[host |-> h, what |-> file[h], group |-> NoGroup] : h \in single}

(* Mutant of LeftGroups: only groups that are gone altogether count.       *)
EmptiedGroups(before, after) ==
    UNION {before[g] : g \in {x \in Groups : after[x] = {}}}

(* return_hosts_from_deleted_groups: members that left their group.        *)
LeftGroups(before, after) ==
    UNION {before[g] \ after[g] : g \in Groups}
=============================================================================
