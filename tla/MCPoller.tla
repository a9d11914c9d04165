------------------------------ MODULE MCPoller ------------------------------
(* Poller for TLC: a device with five values, two of them in the subtree   *)
(* of one family, one of another module in it.  The name of module c is    *)
(* part of the name of module b.                                           *)
EXTENDS Poller

CONSTANTS a, b, c, s, x, z, u, one, two, p1, p2, q, w

MCVarbinds == {<<a>>, <<a, x>>, <<a, x, one>>, <<b>>, <<b, z, one>>, <<s>>}
MCSystem == <<s>>
MCInstances == {<<a, x, one>>, <<a, x, two>>, <<b, z, one>>, <<c, u, one>>, <<s, u, one>>}
MCNested == [v \in MCVarbinds |-> IF v \in {<<a>>, <<a, x>>} THEN {<<c, u, one>>} ELSE {}]
MCAbove == [i \in MCInstances |-> IF i = <<c, u, one>> THEN <<<<a, x, u>>>> ELSE <<>>]
MCNumeric == (MCInstances \ {<<s, u, one>>}) \cup {<<a, x, u>>}
MCMentions == [m \in {a, b, c, s} |-> {v \in MCVarbinds : v[1] = m \/ (m = c /\ v[1] = b)}]
MCIndexes == {{a, b}, {a, b, c}}

Poll(vs) == [walk |-> FALSE, varBinds |-> vs]
Walk(vs) == [walk |-> TRUE, varBinds |-> vs]

(* Overlapping profiles, an empty one, one that is missing.                *)
MCCollections ==
    {(p1 :> Poll({<<a>>, <<a, x, one>>}) @@ p2 :> Poll({<<a, x>>, <<b, z, one>>})
        @@ q :> Poll({<<a, x, one>>}) @@ w :> Walk({<<a>>, <<s>>})),
     (p1 :> Poll({<<a, x>>, <<a, x, one>>}) @@ p2 :> Poll({}) @@ q :> Poll({<<b>>})
        @@ w :> Walk({<<b>>}))}
MCWalkProfile == {<<>>, <<w>>}
MCPollProfiles == {<<p1, p2>>, <<q, p2>>, <<q, p1>>}
NoMibs == {}
=============================================================================
