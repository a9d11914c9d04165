---------------------------- MODULE MCEngineIds ----------------------------
(***************************************************************************)
(* An instance of EngineIds: one of two engine IDs may be configured, and  *)
(* in capitals.                                                            *)
(***************************************************************************)
EXTENDS EngineIds

CONSTANTS r1, r2, r3, u1, u2, e1, e2, capitalE1

MCCanon == [s \in Spellings |-> IF s = capitalE1 THEN e1 ELSE s]
MCConfigs == {{}, {capitalE1}, {e2}}
=============================================================================
