---------------------------- MODULE MCDiscovery ----------------------------
(* Two discoveries of overlapping subnets; one has localized keys and      *)
(* replaces its rows, the other one adds to them.                          *)
EXTENDS Discovery

MCOrder == <<"k1", "k2">>
Rule(ds, g) == [matching |-> ds, group |-> g]
Localized == [ips |-> {"a", "b"}, localized |-> TRUE, delete |-> TRUE, engine |-> NoEngine,
              rules |-> <<>>]
Adding == [ips |-> {"a"}, localized |-> FALSE, delete |-> FALSE, engine |-> NoEngine,
           rules |-> <<Rule({}, "g1"), Rule({"linux"}, "g1")>>]
MCRecords == {Localized, Adding}
MCFirstNetwork == [i \in {"a", "b"} |-> "linux"]
MCNetworks == {MCFirstNetwork, [MCFirstNetwork EXCEPT !["a"] = Silent]}
MCFirstConfig ==
    [of |-> [k \in {"k1", "k2"} |-> IF k = "k1" THEN Localized ELSE Adding], expires |-> 60]
MCConfigs == {MCFirstConfig,
    [MCFirstConfig EXCEPT !.expires = 120],
    [MCFirstConfig EXCEPT !.of["k1"] = IPv6Disabled],
    [MCFirstConfig EXCEPT !.of["k2"] = Invalid, !.expires = 120]}
=============================================================================
