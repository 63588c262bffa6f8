--------------------------- MODULE MCRelyingParty ---------------------------
(* Instances of RelyingParty for TLC.                                      *)
EXTENDS RelyingPartyProperties, TLC

CONSTANTS h1, h2, u1, u2, n1, s1, o2

\* Single sign-on with and without OIDC_REQUIRED_GROUPS, and the login form.
OIDC(g) == [mode |-> "oidc", hash |-> h1, grouped |-> g]
Form == [mode |-> "credentials", hash |-> h2, grouped |-> FALSE]
AnyConfig == {OIDC(FALSE), OIDC(TRUE), Form}
OpenConfig == {OIDC(FALSE)}

\* One user on two devices, or two users.
OneUser == [s \in Sids |-> u1]
TwoUsers == [s \in Sids |-> IF s = s1 THEN u1 ELSE u2]
LegacyU1 == [i \in Legacy |-> u1]

BySub == {[sub |-> u1, user |-> None, all |-> FALSE, except |-> {}]}
ByBoth == {[sub |-> u1, user |-> n1, all |-> FALSE, except |-> {}]}

\* A registrar older than 1.2.0, and one that knows another host.
Lists == {{}, {o2}}
\* The gate first starts ungrouped; a restart may bring any configuration.
StartInit == Init /\ ~config.grouped
StartSpec == StartInit /\ [][Next]_vars

Symmetry == Permutations(Workers) \cup Permutations(States) \cup
            Permutations(Ids \ Legacy)

=============================================================================
