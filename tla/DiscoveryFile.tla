--------------------------- MODULE DiscoveryFile ---------------------------
(***************************************************************************)
(* What add_devices_detail_to_csv promises for discovery_devices.csv: the  *)
(* file is a set of rows, and a run of a discovery brings the rows of that *)
(* discovery up to date in one step, whatever other runs do meanwhile.     *)
(* Only a fault may take rows away from another discovery.                 *)
(***************************************************************************)
EXTENDS Naturals

CONSTANTS
    Keys, \* names of discoveries
    Rows  \* rows; row.key is the discovery that found the device

VARIABLES
    listed, \* the rows of the file
    faults  \* how many faults there were

vars == <<listed, faults>>

RowsOf(k) == {r \in Rows : r.key = k}

Init == listed = {} /\ faults = 0

(* delete_already_discovered: the rows found replace those of the          *)
(* discovery; otherwise they are added.                                    *)
Updated(k, found) == {(listed \ RowsOf(k)) \cup found, listed \cup found}

Update(k) ==
    /\ \E found \in SUBSET RowsOf(k) : listed' \in Updated(k, found)
    /\ UNCHANGED faults

(* A fault somewhere, or that of a worker that writes: only some of the    *)
(* rows it was about to write are left.                                    *)
Fault ==
    /\ \/ UNCHANGED listed
       \/ \E k \in Keys : \E found \in SUBSET RowsOf(k) :
             \E rows \in Updated(k, found) : listed' \subseteq rows
    /\ faults' = faults + 1

Next == Fault \/ \E k \in Keys : Update(k)

Spec == Init /\ [][Next]_vars
=============================================================================
