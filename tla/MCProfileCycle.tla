--------------------------- MODULE MCProfileCycle ---------------------------
(* An instance with a conditional profile that changes its frequency or    *)
(* whose condition is negated, and a packaged one, for hosts of one kind,  *)
(* that the file replaces by a static one or by one that is malformed, or  *)
(* takes away.  The device changes its kind and its rows.                  *)
EXTENDS ProfileCycle

MCNames == {"plain", "cond"}
MCTagOf == [n \in MCNames |-> IF n = "plain" THEN "plain__h" ELSE "cond__h"]

Body(kind, period, objects) ==
    [kind |-> kind, period |-> period, toggled |-> FALSE, negated |-> FALSE,
     objects |-> objects, indices |-> {}]
Negated(body) == [body EXCEPT !.negated = TRUE]
Doc(n, body) == [name |-> n, body |-> body]

MCPackaged == <<Doc("plain", Body("field", 60, "o1"))>>
MCFirstFile == <<Doc("cond", Body("conditional", 60, "o3"))>>
MCFiles == {MCFirstFile,
    <<Doc("cond", Negated(Body("conditional", 30, "o3"))), Doc("plain", Body("static", 60, "o2"))>>,
    <<Doc("plain", [Body("field", 60, "o1") EXCEPT !.toggled = TRUE]),
      Doc("cond", Body("conditional", 60, "o2"))>>,
    <<Doc("plain", Body("static", 30, "bad")), Doc("cond", Body("conditional", 60, "o3"))>>}

MCDevices == {[fits |-> FALSE, up |-> {1}, down |-> {}, bare |-> {2}],
              [fits |-> TRUE, up |-> {}, down |-> {2}, bare |-> {2}]}
MCHostProfiles == {"plain", "cond"}
=============================================================================
