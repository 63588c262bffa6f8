------------------------------- MODULE Router -------------------------------
(***************************************************************************)
(* internal/router: which handler serves a path, under configuration c.    *)
(* The broker is there exactly when c.resource is set, the authenticator   *)
(* when something can grant access (cmd/appshield).                        *)
(***************************************************************************)
EXTENDS Configuration, SequencesExt

CONSTANTS
    Extends,    \* pairs of segments, the first a proper prefix of the second
    HasSuffix,  \* pairs of a segment and an extension it ends with
    Hashes40    \* segments of 40 hex digits

\* strings.HasPrefix.
HasPrefix(path, p) ==
    LET n == Len(p) IN
      /\ n <= Len(path)
      /\ \A i \in 1 .. n - 1 : path[i] = p[i]
      /\ \/ p[n] \in {"", path[n]}
         \/ <<p[n], path[n]>> \in Extends

\* Not "/mcpx" under "/mcp".
underPrefix(path, p) ==
    HasPrefix(path, p) /\ Last(p) \in {"", path[Len(p)]}

isHashContentPath(path) == path[1] \in Hashes40

matchesBypass(c, path) ==
    \/ \E p \in c.allowed : IsPrefix(p, path)
    \/ \E x \in c.extensions : <<Last(path), x>> \in HasSuffix
    \/ c.hashContent /\ isHashContentPath(path)

brokerWellKnown ==
    {<<".well-known", "openid-configuration">>,
     <<".well-known", "oauth-authorization-server">>,
     <<".well-known", "oauth-protected-resource">>}

HasBroker(c) == c.resource # None
HasAuth(c)   == c.mode # "none" \/ HasBroker(c)

gateRoute(path) ==
    \/ path = <<"health">>
    \/ path[1] = "login"
    \/ path[1] = "nhl-auth" /\ Len(path) > 1

brokerRoute(c, path) ==
    /\ HasBroker(c)
    /\ path \in brokerWellKnown \/ (path[1] = "AppShield" /\ Len(path) > 1)

\* The resource outranks the bypass rules, unless it is the whole host.
isProtected(c, path) ==
    HasBroker(c) /\ c.protected # <<"">> /\ underPrefix(path, c.protected)

\* Fault: a bypass rule is looked at before the gate's routes.
MatchGateLast(c, path) ==
    IF isProtected(c, path) THEN "gated"
    ELSE IF matchesBypass(c, path) THEN "bypass"
    ELSE IF gateRoute(path) THEN "gate"
    ELSE IF brokerRoute(c, path) THEN "broker"
    ELSE "gated"

Match(c, path) ==
    IF gateRoute(path) THEN "gate"
    ELSE IF brokerRoute(c, path) THEN "broker"
    ELSE IF isProtected(c, path) THEN "gated"
    ELSE IF matchesBypass(c, path) THEN "bypass"
    ELSE "gated"

=============================================================================
