-------------------------- MODULE MCDnsForwarders --------------------------
(* Small instances of DnsForwarders for TLC. *)
EXTENDS DnsForwarders, TLC

CONSTANTS n1, n2, n3

C(p, f) == [primary |-> p, fallback |-> f]

\* One primary with and without a fallback, and no name server at all.
RestartConfigs == {C({n1}, {n2}), C({n1}, {}), C({}, {})}

\* Two primaries and a fallback, a primary alone, and no name server at all.
MixedConfigs == {C({n1, n3}, {n2}), C({n1}, {}), C({}, {})}

PrimaryAndFallback == {C({n1}, {n2})}
PrimaryOnly == {C({n1}, {})}
NoNameServer == {C({}, {})}

RequestSymmetry == Permutations(Request)
=============================================================================
