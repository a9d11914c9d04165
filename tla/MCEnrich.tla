------------------------------ MODULE MCEnrich ------------------------------
(* An instance of Enrich: a field that only walks report, and one that     *)
(* polls report too.                                                       *)
EXTENDS Enrich
=============================================================================
