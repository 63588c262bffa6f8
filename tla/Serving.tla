------------------------------ MODULE Serving ------------------------------
(***************************************************************************)
(* The gate in its container: cmd/appshield boots it from an environment   *)
(* and a data directory, the router, the authenticator and the propagator  *)
(* answer requests, and the broker signs tokens that must outlive all of   *)
(* it.  Composes Gate (sessions), Router and Identity.                     *)
(*                                                                         *)
(* Each access to the data directory in broker.New is one step; the        *)
(* process can end between any two.  What a token request does before it   *)
(* signs is BrokerTokens' subject, how SESSIONS_FILE keeps the sessions is *)
(* SessionStore's.  The operator recreates the container to change its     *)
(* environment, and may touch the broker's two files at any time.          *)
(***************************************************************************)
EXTENDS Gate, Router, Identity

CONSTANTS
    Envs,               \* environments the container may be created with
    Keys, Corrupt,      \* signing keys; a key file that does not parse
    Tokens, Clients,    \* tokens the broker may sign, OAuth clients
    Paths,              \* paths a request may name
    Forged,             \* what a client writes into a managed header
    AccessTTL,          \* one hour
    MaxTime, MaxStops, MaxEdits, MaxTampers    \* bounds

ASSUME ServingAssumption ==
    /\ \A e \in Envs : ~Refused(e) => Load(e) \in Configs
    /\ \A e \in Envs : e.resource # None => Issuer(e) # None
    /\ Clients \cap {e.resource : e \in Envs} = {}
    /\ Corrupt \notin Keys /\ None \notin Keys \cup {Corrupt, Forged}
    /\ Paths \subseteq Seq(STRING) \ {<<>>}
    /\ \A e \in Envs : e.allowed \subseteq Seq(STRING)
    /\ \A e \in Envs : e.resource # None =>
         PathIn[e.resource] \in (Seq(STRING) \ {<<>>}) \cup {None}
    /\ None \notin {"oauth", "oidc", "password"}
    /\ {AccessTTL, AssertionTTL, MaxTime} \subseteq Nat \ {0}
    /\ {MaxStops, MaxEdits, MaxTampers} \subseteq Nat

VARIABLES
    env,            \* the container's environment
    proc,           \* how far the process has come, "down" when there is none
    key,            \* the signing key in memory
    keyFile, marker,    \* jwks.json and the issuer file
    issued,         \* the access and ID tokens signed
    now,            \* from 1: a time of 0 is no time in a token
    stops, edits, tampers,
    \* History.
    forfeited,      \* tokens the operator gave up by deleting one of the files
    blame           \* what the operator has done that may keep the gate down

disk   == <<keyFile, marker>>
bounds == <<stops, edits, tampers>>
ghost  == <<forfeited, blame>>
vars   == <<gateVars, env, proc, key, disk, issued, now, bounds, ghost>>

\* kind is not in the token.
Token == [kind: {"access", "id"}, alg: {"RS256"}, key: Keys, iat: Nat, exp: Nat,
          iss: {Issuer(e) : e \in Envs}, sub: Subs,
          aud: {e.resource : e \in Envs} \cup Clients]

Stages == {"down", "key", "persist", "issuer", "mark", "listen", "up"}

TypeOK ==
    /\ config \in Configs
    /\ sessions \in [Ids -> Session \cup {None}]
    /\ madeUnder \in [Ids -> Configs \cup {None}] /\ revoked \subseteq Subs
    /\ env \in Envs /\ proc \in Stages
    /\ key \in Keys \cup {None}
    /\ keyFile \in Keys \cup {Corrupt, None}
    /\ marker \in {Issuer(e) : e \in Envs} \cup {None}
    /\ issued \in [Tokens -> Token \cup {None}]
    /\ now \in 1 .. MaxTime /\ {stops, edits, tampers} \subseteq Nat
    /\ forfeited \subseteq Tokens /\ blame \subseteq {"key", "issuer"}
    /\ \/ proc = "persist"
       \/ proc \in {"issuer", "mark", "listen", "up"} /\ HasBroker(config)
       => key # None

Init ==
    /\ GateInit
    /\ env \in Envs /\ ~Refused(env) /\ config = Load(env)
    /\ proc = "down" /\ key = None
    /\ keyFile = None /\ marker = None
    /\ issued = [t \in Tokens |-> None]
    /\ now = 1
    /\ stops = 0 /\ edits = 0 /\ tampers = 0
    /\ forfeited = {} /\ blame = {}

Issued == {t \in Tokens : issued[t] # None}

-----------------------------------------------------------------------------
(* run and broker.New.                                                     *)

Reach(stage) == proc' = stage

\* config.FromEnv.  The broker is built only when OAUTH_RESOURCE is set.
Start ==
    /\ proc = "down" /\ ~Refused(env)
    /\ config' = Load(env)
    /\ Reach(IF HasBroker(Load(env)) THEN "key" ELSE "listen")
    /\ UNCHANGED <<sessions, madeUnder, revoked, env, key, disk, issued, now,
                   bounds, ghost>>

\* jose.ParseKey.
Parses(file) == file \in Keys

\* Fault: a key file that does not parse is replaced.
LoadKeyOrReplace ==
    /\ proc = "key"
    /\ IF Parses(keyFile)
       THEN key' = keyFile /\ Reach("issuer")
       ELSE key' \in Keys \ {key} /\ Reach("persist")
    /\ UNCHANGED <<gateVars, env, disk, issued, now, bounds, ghost>>

\* Fault: it is logged.
LoadKeyOrIgnore ==
    /\ proc = "key"
    /\ key' = IF Parses(keyFile) THEN keyFile ELSE key
    /\ Reach("issuer")
    /\ UNCHANGED <<gateVars, env, disk, issued, now, bounds, ghost>>

\* A generated key is new.
Fresh(k) == k # keyFile /\ \A t \in Issued : issued[t].key # k

LoadKey ==
    /\ proc = "key"
    /\ \/ Parses(keyFile) /\ key' = keyFile /\ Reach("issuer")
       \/ /\ keyFile # None /\ ~Parses(keyFile)
          /\ key' = None /\ Reach("down")
       \/ /\ keyFile = None
          /\ key' \in {k \in Keys : Fresh(k)}
          /\ Reach("persist")
    /\ UNCHANGED <<gateVars, env, disk, issued, now, bounds, ghost>>

\* Fault: the file is written in place, and the process may end half way.
PersistKeyInPlace ==
    /\ proc = "persist"
    /\ \/ keyFile' = key /\ Reach("issuer") /\ UNCHANGED key
       \/ keyFile' = Corrupt /\ Reach("down") /\ key' = None
    /\ UNCHANGED <<gateVars, env, marker, issued, now, bounds, ghost>>

PersistKey ==
    /\ proc = "persist"
    /\ keyFile' = key
    /\ Reach("issuer")
    /\ UNCHANGED <<gateVars, env, key, marker, issued, now, bounds, ghost>>

\* checkIssuerStable.
CheckIssuer ==
    /\ proc = "issuer"
    /\ \/ marker = None /\ Reach("mark") /\ UNCHANGED key
       \/ marker # None /\ marker = config.origin /\ Reach("listen") /\ UNCHANGED key
       \/ marker # None /\ marker # config.origin /\ Reach("down") /\ key' = None
    /\ UNCHANGED <<gateVars, env, disk, issued, now, bounds, ghost>>

WriteMarker ==
    /\ proc = "mark"
    /\ marker' = config.origin
    /\ Reach("listen")
    /\ UNCHANGED <<gateVars, env, key, keyFile, issued, now, bounds, ghost>>

Listen ==
    /\ proc = "listen"
    /\ Reach("up")
    /\ UNCHANGED <<gateVars, env, key, disk, issued, now, bounds, ghost>>

\* The process is stopped or killed, or a step of the boot returns an error: a
\* directory that cannot be written, a port in use.
Stop ==
    /\ proc # "down" /\ stops < MaxStops
    /\ stops' = stops + 1
    /\ Reach("down") /\ key' = None
    /\ UNCHANGED <<gateVars, env, disk, issued, now, edits, tampers, ghost>>

-----------------------------------------------------------------------------
(* The operator.                                                           *)

\* The container is created again with another environment.
Edit(e) ==
    /\ proc = "down" /\ edits < MaxEdits
    /\ edits' = edits + 1
    /\ env' = e
    /\ blame' = IF Issuer(e) = Issuer(env) THEN blame ELSE blame \cup {"issuer"}
    /\ UNCHANGED <<gateVars, proc, key, disk, issued, now, stops, tampers, forfeited>>

\* "delete <marker> to accept invalidating all existing tokens".
DeleteMarker ==
    /\ marker' = None
    /\ blame' = blame \ {"issuer"}
    /\ forfeited' = forfeited \cup Issued
    /\ UNCHANGED keyFile

DeleteKey ==
    /\ keyFile' = None
    /\ blame' = blame \ {"key"}
    /\ forfeited' = forfeited \cup Issued
    /\ UNCHANGED marker

DamageKey ==
    /\ keyFile # None
    /\ keyFile' = Corrupt
    /\ blame' = blame \cup {"key"}
    /\ UNCHANGED <<marker, forfeited>>

Tamper ==
    /\ tampers < MaxTampers
    /\ tampers' = tampers + 1
    /\ DeleteMarker \/ DeleteKey \/ DamageKey
    /\ UNCHANGED <<gateVars, env, proc, key, issued, now, stops, edits>>

Tick ==
    /\ now < MaxTime
    /\ now' = now + 1
    /\ UNCHANGED <<gateVars, env, proc, key, disk, issued, bounds, ghost>>

-----------------------------------------------------------------------------
(* Tokens of the broker.                                                   *)

Claimed(kind, sub, client) ==
    [kind |-> kind, alg |-> "RS256", key |-> key, iss |-> config.origin,
     aud |-> IF kind = "access" THEN config.resource ELSE client,
     sub |-> sub, iat |-> now, exp |-> now + AccessTTL]

\* issue, for a code or a refresh token of an account.  A token signed after the
\* operator deleted a file is as doomed as those before.
Issue(t, kind, sub, client) ==
    /\ proc = "up" /\ HasBroker(config) /\ issued[t] = None
    /\ issued' = [issued EXCEPT ![t] = Claimed(kind, sub, client)]
    /\ forfeited' = IF keyFile # None /\ marker = config.origin THEN forfeited
                    ELSE forfeited \cup {t}
    /\ UNCHANGED <<gateVars, env, proc, key, disk, now, bounds, blame>>

VerifyBearer(tok) ==
    /\ Verify(tok, key)
    /\ tok.iss = config.origin /\ tok.aud = config.resource
    /\ now < tok.exp

-----------------------------------------------------------------------------
(* A request: its path, its session cookie and its bearer token.  Every    *)
(* client writes into every managed header.                                *)

Incoming == [path: Paths, cookie: Ids \cup {None}, bearer: Tokens \cup {None}]
Sent == [h \in Managed |-> Forged]

bearerIdentity(r) ==
    IF HasBroker(config) /\ r.bearer \in Issued /\ VerifyBearer(issued[r.bearer])
    THEN [Nobody EXCEPT !.method = "oauth", !.sub = issued[r.bearer].sub]
    ELSE Nobody

\* Fault: a session is good for as long as it lives.
UsableWhileLive(i) == i \in Live

Usable(i) ==
    /\ i \in Live
    /\ ~Ungraded(sessions[i]) /\ ~StalePassword(sessions[i]) /\ ~Forbidden(sessions[i])

sessionIdentity(r) ==
    LET s == sessions[r.cookie] IN
      IF r.cookie = None \/ ~Usable(r.cookie) THEN Nobody
      ELSE IF s.sub = None
      THEN [Nobody EXCEPT !.method = "password", !.user = config.user]
      ELSE [method |-> "oidc", sub |-> s.sub,
            user   |-> IF s.claims = None THEN None ELSE s.claims.user,
            groups |-> IF s.claims = None THEN None ELSE s.claims.member]

\* Fault: what the token does not say is taken from the session.
IdentifiedMerged(r) ==
    LET b == bearerIdentity(r)
        s == sessionIdentity(r)
    IN  IF b = Nobody THEN s ELSE [f \in DOMAIN b |-> firstOf(b[f], s[f])]

\* Machine access first, then a browser session.
Identified(r) ==
    IF bearerIdentity(r) # Nobody THEN bearerIdentity(r) ELSE sessionIdentity(r)

Bypassed(r) == Match(config, r.path) = "bypass"
Gated(r)    == Match(config, r.path) = "gated"

\* Router.ServeHTTP: what goes on to the backend, and with which headers.
Forwarded(r) ==
    \/ Bypassed(r)
    \/ Gated(r) /\ (HasAuth(config) => Identified(r) # Nobody)

Outgoing(r) ==
    IF Gated(r) /\ HasAuth(config)
    THEN Apply(config, Identified(r), Sent, now)
    ELSE Clear(Sent)

\* A session the gate finds useless is deleted on the way.
ServeHTTP(r) ==
    /\ Gated(r) /\ HasAuth(config) /\ bearerIdentity(r) = Nobody
    /\ r.cookie # None /\ Authenticate(r.cookie)

\* The provider vouches for a subject (RelyingParty has the way to it).
SignIn(i, sub, user, member) ==
    LET claims == [user |-> user, member |-> member] IN
    /\ config.mode = "oidc" /\ groupsAllowed(claims)
    /\ Create(i, [NoSession EXCEPT !.sub = sub, !.claims = claims])
    /\ revoked' = revoked \ {sub}
    /\ UNCHANGED config

\* A backend signs a control token whenever it has the secret.
ControlToken(iat, exp) ==
    [alg |-> "HS256", key |-> config.secret, iss |-> "appshield-backend",
     aud |-> "appshield-control", sub |-> None, iat |-> iat, exp |-> exp]

ControlCall(r) ==
    /\ \E iat, exp \in 0 .. MaxTime + ControlMaxLifetime :
         VerifyControlToken(config, ControlToken(iat, exp), now)
    /\ handleRevoke(r, {})

Serve ==
    /\ proc = "up"
    /\ \/ \E r \in Incoming : ServeHTTP(r)
       \/ \E i \in Ids : handleLogin(i) \/ Leave(i)
       \/ \E i \in Ids, sub \in Subs, user \in Names, member \in BOOLEAN :
            SignIn(i, sub, user, member)
       \/ \E r \in Requests : ControlCall(r)
    /\ UNCHANGED <<env, proc, key, disk, issued, now, bounds, ghost>>

-----------------------------------------------------------------------------
Boot == Start \/ LoadKey \/ PersistKey \/ CheckIssuer \/ WriteMarker \/ Listen

Next ==
    \/ Boot \/ Stop \/ Tamper \/ Tick \/ Serve
    \/ \E e \in Envs : Edit(e)
    \/ \E t \in Tokens, kind \in {"access", "id"}, sub \in Subs, client \in Clients :
         Issue(t, kind, sub, client)

Spec == Init /\ [][Next]_vars

=============================================================================
