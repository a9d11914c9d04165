-------------------------- MODULE MCPollingControl --------------------------
(***************************************************************************)
(* Small instances of PollingControl.  The first profile set assigns every *)
(* period to every record, the second only one period; only the first has  *)
(* the walk profile that the records name.                                 *)
(***************************************************************************)
EXTENDS PollingControl, TLC

CONSTANTS h1, h2, p1, fullProfiles, fewProfiles

(* No property that the run with it checks is temporal.                    *)
MCSymmetry == Permutations(Hosts) \cup Permutations(Records) \cup Permutations(Expiries)

MCAssign ==
    [ps \in ProfileSets |-> [r \in Records |->
        CASE ps = fullProfiles -> Periods
          [] ps = fewProfiles  -> {p1} \cap Periods
          [] OTHER -> {}]]

MCWalkProfileOf ==
    [ps \in ProfileSets |-> [r \in Records |->
        IF ps = fullProfiles THEN "special" ELSE "WalkProfile"]]

(* No key of a host is matched by the pattern of another host.             *)
MCMatches == [h \in Hosts |-> {h}]

(* The key of h1 is a suffix of the key of h2, as 10.0.0.1:161 is one of   *)
(* 110.0.0.1:161: the pattern "*10.0.0.1:161;*" matches the keys of both.  *)
MCSuffixMatches == [h \in Hosts |-> IF h = h1 THEN Hosts ELSE {h}]
=============================================================================
