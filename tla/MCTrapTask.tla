----------------------------- MODULE MCTrapTask -----------------------------
(***************************************************************************)
(* Instances of TrapTask: two enterprise OIDs and two below mib-2, all     *)
(* with modules of their own, and one OID that no module lists.  std2 lies *)
(* below a node of the module of std, as Q-BRIDGE-MIB below BRIDGE-MIB,    *)
(* and the stray OID below one of the module of entA.                      *)
(***************************************************************************)
EXTENDS TrapTask

CONSTANTS entA, entB, std, std2, stray, mibA, mibB, mibS, mibT, number, text, MaxLength

MCOids == {entA, entB, std, std2, stray}
MCMibs == {mibA, mibB, mibS, mibT}
MCMibOf == [o \in MCOids |->
    CASE o = entA -> mibA [] o = entB -> mibB
      [] o = std -> mibS [] o = std2 -> mibT [] OTHER -> NoMib]

MCAbove == [o \in MCOids |->
    CASE o = std2 -> {mibS} [] o = stray -> {mibA} [] OTHER -> {}]

(* entB rejects texts; entB occurs as a value too, as the OID of a trap.   *)
MCValues == {number, text, entB}
MCMisfits == {<<entB, text>>, <<entB, entB>>}

(* Three varbinds have distinct OIDs; the OID of a trap is the value of a  *)
(* standard one only, and std2 always has a number.                        *)
MCTelling(v) == CASE v.oid = std -> TRUE [] v.oid = std2 -> v.value = number
                  [] OTHER -> v.value # entB
MCThree == {t \in [1..3 -> {v \in [oid : MCOids, value : MCValues] : MCTelling(v)}] :
                Cardinality({t[i].oid : i \in 1..3}) = 3}

MCTraps == UNION {[1..n -> [oid : MCOids, value : MCValues]] : n \in 1..2}
           \cup IF MaxLength = 3 THEN MCThree ELSE {}
=============================================================================
