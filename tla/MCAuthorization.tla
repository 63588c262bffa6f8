--------------------------- MODULE MCAuthorization --------------------------
(* An instance of Authorization for TLC.                                   *)
EXTENDS AuthorizationProperties, TLC

CONSTANTS c1, b1

\* Client c1 registered the redirect_uri of binding b1 only.
MCRegistered == {<<c1, b1>>}

Symmetry == Permutations(Tokens) \cup Permutations(Codes)
            \cup Permutations(Requests) \cup Permutations(Tabs)

=============================================================================
