------------------------- MODULE ServingProperties -------------------------
(* What the gate promises its operator, its backend and its clients.       *)
EXTENDS Serving

\* An access token works for as long as it says, for the resource it names,
\* whenever the gate is up: through restarts, a kill anywhere in a boot, and any
\* change of environment the gate agrees to start with, unless the operator
\* deleted the key or the issuer file (New: "silently rotating the signing key
\* would 401 every access token in flight"; checkIssuerStable).  A key file that
\* is damaged keeps the gate down, or up with the key it has.
TokensOutliveRestarts ==
    proc = "up" =>
      \A t \in Issued \ forfeited :
        /\ issued[t].kind = "access"
        /\ issued[t].aud = config.resource
        /\ now < issued[t].exp
        => VerifyBearer(issued[t])

\* What the operator asked to leave open (README.md, ALLOWED_PATHS and the
\* others), the resource excepted (Match: "must not be reachable through
\* ALLOWED_PATHS"), unless the resource is the whole host.
Public(path) ==
    /\ \/ \E p \in env.allowed \ {<<>>} : IsPrefix(p, path)
       \/ \E x \in env.extensions : <<path[Len(path)], x>> \in HasSuffix
       \/ env.hashContent /\ path[1] \in Hashes40
    /\ env.resource # None =>
         LET p == PathIn[env.resource] IN
           p \in {None, <<"">>} \/ ~IsPrefix(p, path)

\* The environment names no authentication that this release has, nor an
\* AUTH_HASH or a CREDENTIAL_VALIDATE_URL.
NamesNone == ~env.registrar /\ ~env.login /\ env.resource = None /\ ~env.retired

\* It names none of 2.x's either.
AsksForNothing == NamesNone /\ ~env.managed

\* 2.x's managed hash is the only authentication it names.
ManagedHashOnly == NamesNone /\ env.managed

\* What a session was made for still counts: the password it was made with is
\* the one set now, the groups its user had then are those asked for now.
StillGood(s) ==
    \/ s.sub = None /\ s.hash = env.hash
    \/ s.sub # None /\ (env.grouped => s.claims # None /\ s.claims.member)

\* Nothing reaches the backend but requests for what is public, requests to a
\* gate that was never asked to authenticate, and requests with a token or a
\* session that is good under the environment of today, whatever it was under
\* the one it was made in (Load's refusal to start unprotected, main's choice of
\* the authenticator, Match, Authenticate).  The exception is ManagedHashOnly,
\* which passes everything: see RemovedSettingRefusesBoot.
OnlyTheAdmittedPass ==
    proc = "up" => \A r \in Incoming : Forwarded(r) =>
      \/ Public(r.path)
      \/ AsksForNothing \/ ManagedHashOnly
      \/ /\ r.bearer \in Issued
         /\ issued[r.bearer].aud = env.resource /\ now < issued[r.bearer].exp
      \/ r.cookie \in Live /\ StillGood(sessions[r.cookie])

GatesOwn(path) ==
    \/ path[1] = "login" \/ path = <<"health">>
    \/ Len(path) > 1 /\ path[1] = "nhl-auth"
    \/ Len(path) > 1 /\ path[1] = "AppShield" /\ env.resource # None

\* No rule sends a path of the gate's own to the backend (Match: "The gate's own
\* routes always win").
OwnRoutesStay ==
    proc = "up" => \A r \in Incoming : GatesOwn(r.path) => ~Forwarded(r)

\* Headers h say this, and nothing else, to a backend.
Say(h, method, sub, user, groups) ==
    /\ h["X-AppShield-Method"] = method /\ h["X-AppShield-Sub"] = sub
    /\ h["Remote-User"] = user /\ h["Remote-Groups"] = groups
    /\ h["X-AppShield-User"] = None
    /\ LET a == h["X-AppShield-Assertion"] IN
         IF env.secret = None THEN a = None
         ELSE /\ a.aud = firstOf(env.app, "appshield")
              /\ a.sub = firstOf(sub, firstOf(user, method))

\* The backend is told nothing of who asks.
Untold(r) == Bypassed(r) \/ ~HasAuth(config) \/ ~env.headers

\* The credential a request passes with: the token before the session.
PassesByToken(r) ==
    HasBroker(config) /\ r.bearer \in Issued /\ VerifyBearer(issued[r.bearer])

\* Every managed header, and the assertion, tell of the owner of the one
\* credential that let the request pass, as that credential does, also when a
\* request brings somebody's token and somebody else's session; and of nobody
\* on a bypassed route or with forwarding off.  So nothing a client wrote is
\* left (identity: "every header in this package's managed set is overwritten
\* on EVERY route"; Authenticate: bearerIdentity, then sessionIdentity).
BackendSeesTheOwner ==
    proc = "up" => \A r \in Incoming : Forwarded(r) =>
      LET h == Outgoing(r)
          s == sessions[r.cookie]
      IN
        \/ Untold(r) /\ \A x \in Managed : h[x] = None
        \/ /\ ~Untold(r) /\ PassesByToken(r)
           /\ Say(h, "oauth", issued[r.bearer].sub, None, None)
        \/ /\ ~Untold(r) /\ ~PassesByToken(r) /\ r.cookie \in Live
           /\ \/ s.sub = None /\ Say(h, "password", None, env.user, None)
              \/ /\ s.sub # None /\ s.claims = None
                 /\ Say(h, "oidc", s.sub, None, None)
              \/ /\ s.sub # None /\ s.claims # None
                 /\ Say(h, "oidc", s.sub, s.claims.user, s.claims.member)

\* Every kind of signed token opens one door: only an access token is a bearer
\* token, and neither a token of the broker nor the assertion a backend is handed
\* is a control token, whatever the app is called (ControlAudience: "if the two
\* shared an audience, a logged assertion would double as a session-revocation
\* credential").
EachTokenHasOneDoor ==
    proc = "up" =>
      /\ \A t \in Issued :
           /\ HasBroker(config) /\ VerifyBearer(issued[t]) => issued[t].kind = "access"
           /\ ~VerifyControlToken(config, issued[t], now)
      /\ \A r \in Incoming : Forwarded(r) =>
           LET a == Outgoing(r)["X-AppShield-Assertion"] IN
             a # None => ~VerifyControlToken(config, a, now) /\ ~VerifyBearer(a)
      /\ ~VerifyBearer(ControlToken(now, now + 1))

\* The operator has changed the issuer without deleting the marker, has damaged
\* the key, or asks for what the gate refuses.
OperatorsDoing == blame # {} \/ Refused(env)

\* However often the first boots are cut short, between whichever files, the
\* gate comes up in the end, unless the operator has to act (New and
\* checkIssuerStable write two files, each whole or not at all).
ComesUp == <>[](proc = "up" \/ OperatorsDoing)

-----------------------------------------------------------------------------
(* What a comment says, and the code does not do.                          *)

\* config.go:231, of the settings 3.0 has removed, AUTH_HASH_MODE and
\* AUTH_HASH_FILE among them: "each refuses the boot if it was the only thing
\* standing between the backend and the internet".
RemovedSettingRefusesBoot == proc = "up" => HasAuth(config) \/ AsksForNothing

=============================================================================
