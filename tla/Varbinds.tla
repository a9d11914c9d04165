------------------------------ MODULE Varbinds ------------------------------
(***************************************************************************)
(* snmp/varbinds_resolver.py: how the varBinds of the profiles of a task   *)
(* become the subtrees it walks with GETBULK, the objects it asks for with *)
(* GET, and the mappings that tell which profiles asked for what.          *)
(***************************************************************************)
EXTENDS FiniteSets, Naturals, SequencesExt

CONSTANTS
    Varbinds,     \* entries of varBinds: <<mib>>, <<mib, object>>, <<mib, object, index>>
    System,       \* the entry <<"SNMPv2-MIB">>, part of every walk profile
    Names,        \* names of profiles
    Conditional   \* the names "profile__host" of evaluated conditional profiles

ASSUME VarbindsAssumption ==
    /\ \A v \in Varbinds : v \in Seq(ToSet(v)) /\ Len(v) \in 1..3
    /\ System \in Varbinds /\ Len(System) = 1
    /\ Conditional \subseteq Names

(* The body of a profile, as far as polling it goes: whether its condition *)
(* has the type "walk", and its varBinds.                                  *)
Bodies == [walk : BOOLEAN, varBinds : SUBSET Varbinds]

(* Keys are told apart by their components: <<a, b>> is "a::b".  Parents   *)
(* are decided by names: an object whose OID lies below that of another    *)
(* object or module, but not its name, is no child of it.                  *)
Within(v, w) == IsPrefix(w, v)

-----------------------------------------------------------------------------
(* VarBindContainer: the set of its varbinds.                              *)

(* are_parents_in_map, which insert_varbind also asks: the entry or a      *)
(* parent is there.                                                        *)
HasParent(map, v) == \E w \in map : Within(v, w)

(* insert_varbind for the entries of one length: nothing happens to one    *)
(* that is there or has a parent there.  Entries of one length are no      *)
(* parents of each other, so their order does not matter.                  *)
Inserted(map, vs, length) == map \cup {v \in vs : Len(v) = length /\ ~HasParent(map, v)}

(* Mutant of InsertedAll: the entries come in the other order.             *)
InsertedAllLongest(map, vs) == Inserted(Inserted(Inserted(map, vs, 3), vs, 2), vs, 1)

(* Both loops insert sorted by length, __add__ by that of the key, which   *)
(* is longer than the key of a parent.                                     *)
InsertedAll(map, vs) == Inserted(Inserted(Inserted(map, vs, 1), vs, 2), vs, 3)

-----------------------------------------------------------------------------
(* Mappings: from the key of a varbind to the names of its profiles, in    *)
(* the order of the comma-separated value.  A walk profile has none.       *)
NoMapping == [v \in {} |-> <<>>]
MappingOf(map, n, walk) == IF walk THEN NoMapping ELSE [v \in map |-> <<n>>]
NamesAt(mapping, v) == IF v \in DOMAIN mapping THEN mapping[v] ELSE <<>>

(* add_mappings.  The profiles are combined from the left, so what comes   *)
(* in is the mapping of one profile, and its value is a single name.       *)
Joined(ns, incoming) == IF ToSet(incoming) \subseteq ToSet(ns) THEN ns ELSE ns \o incoming

AddedMappings(base, incoming) ==
    [v \in DOMAIN base \cup DOMAIN incoming |-> Joined(NamesAt(base, v), NamesAt(incoming, v))]

(* Profile.process: short entries are walked, complete ones are asked for  *)
(* unless the profile walks a parent.                                      *)
Processed(n, body) ==
    LET bulk == InsertedAll(IF body.walk THEN {System} ELSE {},
                            {v \in body.varBinds : Len(v) < 3})
        get  == InsertedAll({}, {v \in body.varBinds : Len(v) = 3 /\ ~HasParent(bulk, v)})
    IN  [bulk |-> bulk, get |-> get,
         bulkMapping |-> MappingOf(bulk, n, body.walk),
         getMapping |-> MappingOf(get, n, body.walk)]

(* Mutant of AddedProfiles: the second mapping of GET is forgotten.        *)
AddedForgetsMapping(p, q) ==
    [bulk |-> InsertedAll({}, p.bulk \cup q.bulk),
     get  |-> InsertedAll({}, p.get \cup q.get),
     bulkMapping |-> AddedMappings(p.bulkMapping, q.bulkMapping),
     getMapping  |-> p.getMapping]

(* Profile.__add__: the two kinds of requests are merged apart.            *)
AddedProfiles(p, q) ==
    [bulk |-> InsertedAll({}, p.bulk \cup q.bulk),
     get  |-> InsertedAll({}, p.get \cup q.get),
     bulkMapping |-> AddedMappings(p.bulkMapping, q.bulkMapping),
     getMapping  |-> AddedMappings(p.getMapping, q.getMapping)]

NoRequest == [bulk |-> {}, get |-> {}, bulkMapping |-> NoMapping, getMapping |-> NoMapping]

-----------------------------------------------------------------------------
(* ProfileCollection.  get_profile finds a profile when it is in the       *)
(* collection and, unless it is a walk or a conditional one, not empty.    *)
Found(collection, n) ==
    /\ n \in DOMAIN collection
    /\ collection[n].varBinds # {} \/ collection[n].walk \/ n \in Conditional

GetProfile(collection, n) ==
    IF Found(collection, n) THEN Processed(n, collection[n]) ELSE NoRequest

(* combine_profiles: what get_profile did not find is left out.            *)
CombineProfiles(p, q) ==
    IF p = NoRequest THEN q ELSE IF q = NoRequest THEN p ELSE AddedProfiles(p, q)

(* get_polling_info_from_profiles: the first profile of a walk, all        *)
(* combined for a poll.                                                    *)
PollingInfo(collection, names, isWalk) ==
    LET reduced[j \in 1..Len(names)] ==
            IF j = 1 THEN GetProfile(collection, names[1])
            ELSE CombineProfiles(reduced[j - 1], GetProfile(collection, names[j]))
    IN  reduced[IF isWalk THEN 1 ELSE Len(names)]

(* get_mib_families.                                                       *)
Families(request) == {v[1] : v \in request.bulk \cup request.get}
=============================================================================
