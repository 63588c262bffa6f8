--------------------------- MODULE ServingProofs ---------------------------
(***************************************************************************)
(* Theorems about the gate in its container, for every value of the        *)
(* constants: any environments, paths, sessions, tokens and keys, and any  *)
(* number of restarts, edits and deletions.                                *)
(***************************************************************************)
EXTENDS ServingProperties, TLAPS

\* A process runs under the environment it was started in, and one it accepts.
FollowsEnvironment ==
    proc # "down" => config = Load(env) /\ ~Refused(env)

\* A session without a subject was made with a password.
CredentialShape ==
    \A i \in Live : sessions[i].sub = None => sessions[i].hash # None

\* An ID token is for a client, an access token for a resource.
AudienceShape ==
    \A t \in Issued :
      /\ issued[t].kind = "id" => issued[t].aud \in Clients
      /\ issued[t].kind = "access" => issued[t].aud # None

Booted == {"issuer", "mark", "listen", "up"}

\* The key in memory is the one on disk, when there is one.
KeyOnDisk ==
    proc \in Booted /\ HasBroker(config) => keyFile \in {key, Corrupt, None}

\* A token nobody gave up still has its key and its issuer, on disk and, once
\* they are read, in memory; so no boot can be about to write either.
KeyStands ==
    \A t \in Issued \ forfeited :
      /\ keyFile \in {issued[t].key, Corrupt}
      /\ marker = issued[t].iss /\ marker # None
      /\ proc \notin {"persist", "mark"}
      /\ proc \in Booted /\ HasBroker(config) => key = issued[t].key
      /\ proc \in {"listen", "up"} /\ HasBroker(config) => config.origin = marker

IInv ==
    TypeOK /\ FollowsEnvironment /\ CredentialShape /\ AudienceShape
    /\ KeyOnDisk /\ KeyStands

-----------------------------------------------------------------------------
(* What the environment says of the configuration.                         *)

\* The configuration keeps what the invariants look at.
LEMMA Loaded ==
    ASSUME NEW e
    PROVE  /\ Load(e).origin = Issuer(e) /\ Load(e).resource = e.resource
           /\ Load(e).hash = e.hash /\ Load(e).grouped = e.grouped
           /\ Load(e).mode = Mode(e) /\ Load(e).user = e.user /\ Load(e).app = e.app
           /\ Load(e).headers = e.headers /\ Load(e).secret = e.secret
           /\ Load(e).allowed = e.allowed \ {<<>>}
           /\ Load(e).extensions = e.extensions
           /\ Load(e).hashContent = e.hashContent
           /\ Load(e).protected = OAuthProtectedPath(e)
           /\ HasBroker(Load(e)) <=> e.resource # None
BY DEF Load, HasBroker

\* A sign-in, a logout, a revocation or a request leaves the sessions well typed,
\* each with the credential it was made with.
LEMMA ServeKeepsSessions ==
    ASSUME TypeOK, CredentialShape, Serve
    PROVE  /\ sessions' \in [Ids -> Session \cup {None}]
           /\ madeUnder' \in [Ids -> Configs \cup {None}]
           /\ revoked' \subseteq Subs /\ config' = config
           /\ CredentialShape'
<1> USE GateAssumption
<1>1. ASSUME NEW i \in Ids, NEW s \in Session, s.sub = None => s.hash # None, Create(i, s)
      PROVE  /\ sessions' \in [Ids -> Session \cup {None}]
             /\ madeUnder' \in [Ids -> Configs \cup {None}]
             /\ CredentialShape'
  BY <1>1 DEF TypeOK, CredentialShape, Live, Create
<1>2. ASSUME NEW S \in SUBSET Ids, End(S), UNCHANGED madeUnder
      PROVE  /\ sessions' \in [Ids -> Session \cup {None}]
             /\ madeUnder' \in [Ids -> Configs \cup {None}]
             /\ CredentialShape'
  BY <1>2 DEF TypeOK, CredentialShape, Live, End
<1>3. CASE \E r \in Incoming : ServeHTTP(r)
  <2> PICK r \in Incoming : ServeHTTP(r)
    BY <1>3
  <2>1. r.cookie \in Ids /\ End({r.cookie}) /\ UNCHANGED <<config, madeUnder, revoked>>
    BY DEF ServeHTTP, Authenticate, Live
  <2> QED BY <2>1, <1>2 DEF TypeOK
<1>4. CASE \E i \in Ids : handleLogin(i)
  <2> PICK i \in Ids : handleLogin(i)
    BY <1>4
  <2> DEFINE s == [NoSession EXCEPT !.hash = config.hash]
  <2>1. s \in Session /\ s.hash # None
    BY DEF TypeOK, Session, NoSession
  <2> QED BY <2>1, <1>1 DEF handleLogin, TypeOK
<1>5. CASE \E i \in Ids : Leave(i)
  <2> PICK i \in Ids : Leave(i)
    BY <1>5
  <2> QED BY <1>2 DEF Leave, TypeOK
<1>6. CASE \E i \in Ids, sub \in Subs, user \in Names, member \in BOOLEAN :
             SignIn(i, sub, user, member)
  <2> PICK i \in Ids, sub \in Subs, user \in Names, member \in BOOLEAN :
             SignIn(i, sub, user, member)
    BY <1>6
  <2> DEFINE claims == [user |-> user, member |-> member]
             s == [NoSession EXCEPT !.sub = sub, !.claims = claims]
  <2>1. claims \in Claims
    BY DEF Claims
  <2>2. s \in Session /\ s.sub # None
    BY <2>1 DEF Session, NoSession
  <2>3. Create(i, s) /\ revoked' = revoked \ {sub} /\ config' = config
    BY DEF SignIn
  <2> QED BY <2>2, <2>3, <1>1 DEF TypeOK
<1>7. CASE \E r \in Requests : ControlCall(r)
  <2> PICK r \in Requests : ControlCall(r)
    BY <1>7
  <2>1. /\ End({i \in Live : i \notin r.except /\ Selected(r, sessions[i])})
        /\ revoked' = revoked \cup (Barred(r) \ {})
        /\ UNCHANGED <<config, madeUnder>>
    BY DEF ControlCall, handleRevoke
  <2>2. {i \in Live : i \notin r.except /\ Selected(r, sessions[i])} \in SUBSET Ids
    BY DEF Live
  <2> QED BY <2>1, <2>2, <1>2 DEF TypeOK, Barred
<1> QED BY <1>3, <1>4, <1>5, <1>6, <1>7 DEF Serve

-----------------------------------------------------------------------------
(* The invariant.                                                          *)

\* A container starts with an empty directory and no process.
LEMMA InitIInv == Init => IInv
<1> SUFFICES ASSUME Init PROVE IInv
  OBVIOUS
<1> USE GateAssumption, ServingAssumption
<1>1. config \in Configs /\ env \in Envs
  BY DEF Init
<1>2. \A i \in Legacy : /\ LegacySession(i) \in Session
                        /\ LegacySession(i).sub # None
  BY DEF LegacySession, NoSession, Session
<1>3. /\ sessions \in [Ids -> Session \cup {None}]
      /\ madeUnder \in [Ids -> Configs \cup {None}] /\ revoked \subseteq Subs
      /\ CredentialShape
  BY <1>2 DEF Init, GateInit, CredentialShape, Live
<1>4. issued \in [Tokens -> Token \cup {None}] /\ Issued = {}
  BY DEF Init, Issued
<1>5. TypeOK
  <2>1. /\ env \in Envs /\ proc \in Stages /\ key \in Keys \cup {None}
        /\ keyFile \in Keys \cup {Corrupt, None}
        /\ marker \in {Issuer(e) : e \in Envs} \cup {None}
    BY DEF Init, Stages
  <2>2. now \in 1 .. MaxTime /\ {stops, edits, tampers} \subseteq Nat
    BY DEF Init
  <2>3. forfeited \subseteq Tokens /\ blame \subseteq {"key", "issuer"} /\ proc = "down"
    BY DEF Init
  <2> QED BY <1>1, <1>3, <1>4, <2>1, <2>2, <2>3 DEF TypeOK
<1>6. FollowsEnvironment /\ AudienceShape /\ KeyOnDisk /\ KeyStands
  BY <1>4 DEF Init, FollowsEnvironment, AudienceShape, KeyOnDisk, KeyStands, Booted
<1> QED BY <1>3, <1>5, <1>6 DEF IInv

\* A token is typed by the configuration it was signed under.
LEMMA ClaimedIsToken ==
    ASSUME IInv, proc = "up", HasBroker(config),
           NEW kind \in {"access", "id"}, NEW sub \in Subs, NEW client \in Clients
    PROVE  /\ Claimed(kind, sub, client) \in Token
           /\ Claimed(kind, sub, client).key = key
           /\ Claimed(kind, sub, client).iss = config.origin
           /\ Claimed(kind, sub, client).kind = kind
           /\ Claimed(kind, sub, client).aud =
                IF kind = "access" THEN config.resource ELSE client
<1> USE ServingAssumption DEF IInv
<1>1. config = Load(env) /\ env \in Envs /\ key \in Keys /\ now \in Nat
  BY DEF FollowsEnvironment, TypeOK
<1>2. config.origin \in {Issuer(e) : e \in Envs}
  BY <1>1, Loaded
<1>3. config.resource \in {e.resource : e \in Envs}
  BY <1>1, Loaded
<1>4. now + AccessTTL \in Nat
  BY <1>1
<1> QED BY <1>1, <1>2, <1>3, <1>4 DEF Claimed, Token

\* Whatever a boot, the operator or a request does, the state stays well typed.
LEMMA TypeStep == IInv /\ [Next]_vars => TypeOK'
<1> SUFFICES ASSUME IInv, [Next]_vars PROVE TypeOK'
  OBVIOUS
<1> USE GateAssumption, ServingAssumption DEF IInv, disk, bounds, ghost, gateVars, Stages, Reach
<1>1. CASE Start
  <2>1. Load(env) \in Configs
    BY <1>1 DEF Start, TypeOK
  <2> QED BY <1>1, <2>1 DEF Start, TypeOK
<1>2. CASE LoadKey
  BY <1>2 DEF LoadKey, Parses, TypeOK
<1>3. CASE PersistKey
  BY <1>3 DEF PersistKey, TypeOK, FollowsEnvironment
<1>4. CASE CheckIssuer
  BY <1>4 DEF CheckIssuer, TypeOK
<1>5. CASE WriteMarker
  <2>1. config.origin \in {Issuer(e) : e \in Envs}
    BY <1>5, Loaded DEF WriteMarker, FollowsEnvironment, TypeOK
  <2> QED BY <1>5, <2>1 DEF WriteMarker, TypeOK
<1>6. CASE Listen
  BY <1>6 DEF Listen, TypeOK
<1>7. CASE Stop
  BY <1>7 DEF Stop, TypeOK
<1>8. CASE Tamper
  BY <1>8 DEF Tamper, DeleteMarker, DeleteKey, DamageKey, Issued, TypeOK
<1>9. CASE Tick
  BY <1>9 DEF Tick, TypeOK
<1>10. CASE Serve
  BY <1>10, ServeKeepsSessions DEF Serve, TypeOK
<1>11. CASE \E e \in Envs : Edit(e)
  BY <1>11 DEF Edit, TypeOK
<1>12. CASE \E t \in Tokens, kind \in {"access", "id"}, sub \in Subs, client \in Clients :
              Issue(t, kind, sub, client)
  <2> PICK t \in Tokens, kind \in {"access", "id"}, sub \in Subs, client \in Clients :
              Issue(t, kind, sub, client)
    BY <1>12
  <2>1. Claimed(kind, sub, client) \in Token
    BY ClaimedIsToken DEF Issue
  <2> QED BY <2>1 DEF Issue, TypeOK
<1>13. CASE UNCHANGED vars
  BY <1>13 DEF vars, TypeOK
<1> QED BY <1>1, <1>2, <1>3, <1>4, <1>5, <1>6, <1>7, <1>8, <1>9, <1>10, <1>11, <1>12, <1>13
        DEF Next, Boot

\* The environment changes, and is accepted, only between two processes.
LEMMA EnvironmentStep == IInv /\ [Next]_vars => FollowsEnvironment'
<1> SUFFICES ASSUME IInv, [Next]_vars PROVE FollowsEnvironment'
  OBVIOUS
<1> USE DEF IInv, FollowsEnvironment, Reach, gateVars
<1>1. CASE Boot
  BY <1>1 DEF Boot, Start, LoadKey, PersistKey, CheckIssuer, WriteMarker, Listen
<1>2. CASE Stop \/ Tamper \/ Tick \/ UNCHANGED vars
  BY <1>2 DEF Stop, Tamper, Tick, vars
<1>3. CASE Serve
  BY <1>3, ServeKeepsSessions DEF Serve
<1>4. CASE \E e \in Envs : Edit(e)
  BY <1>4 DEF Edit
<1>5. CASE \E t \in Tokens, kind \in {"access", "id"}, sub \in Subs, client \in Clients :
              Issue(t, kind, sub, client)
  BY <1>5 DEF Issue
<1> QED BY <1>1, <1>2, <1>3, <1>4, <1>5 DEF Next

\* Sessions and tokens keep the shape they are made with.
LEMMA ShapeStep == IInv /\ [Next]_vars => CredentialShape' /\ AudienceShape'
<1> SUFFICES ASSUME IInv, [Next]_vars PROVE CredentialShape' /\ AudienceShape'
  OBVIOUS
<1> USE DEF IInv, gateVars
<1>1. CASE UNCHANGED <<sessions, issued>>
  BY <1>1 DEF CredentialShape, Live, AudienceShape, Issued
<1>2. CASE Serve
  BY <1>2, ServeKeepsSessions DEF Serve, AudienceShape, Issued
<1>3. CASE \E t \in Tokens, kind \in {"access", "id"}, sub \in Subs, client \in Clients :
              Issue(t, kind, sub, client)
  <2> PICK t \in Tokens, kind \in {"access", "id"}, sub \in Subs, client \in Clients :
              Issue(t, kind, sub, client)
    BY <1>3
  <2>1. CredentialShape'
    BY DEF Issue, CredentialShape, Live
  <2>2. /\ Claimed(kind, sub, client).kind = kind
        /\ kind = "id" => Claimed(kind, sub, client).aud = client
        /\ kind = "access" => Claimed(kind, sub, client).aud # None
    BY ClaimedIsToken DEF Issue, HasBroker
  <2>3. issued' = [issued EXCEPT ![t] = Claimed(kind, sub, client)]
        /\ issued \in [Tokens -> Token \cup {None}]
    BY DEF Issue, TypeOK
  <2>4. AudienceShape'
    BY <2>2, <2>3 DEF AudienceShape, Issued
  <2> QED BY <2>1, <2>4
<1>4. CASE Boot
  BY <1>4, <1>1 DEF Boot, Start, LoadKey, PersistKey, CheckIssuer, WriteMarker, Listen
<1>5. CASE Stop \/ Tamper \/ Tick \/ UNCHANGED vars
  BY <1>5, <1>1 DEF Stop, Tamper, Tick, vars
<1>6. CASE \E e \in Envs : Edit(e)
  BY <1>6, <1>1 DEF Edit
<1> QED BY <1>2, <1>3, <1>4, <1>5, <1>6 DEF Next

\* Only a boot that found no key has one that is not on disk.
LEMMA KeyOnDiskStep == IInv /\ [Next]_vars => KeyOnDisk'
<1> SUFFICES ASSUME IInv, [Next]_vars PROVE KeyOnDisk'
  OBVIOUS
<1> USE DEF IInv, KeyOnDisk, Booted, Reach, disk, gateVars
<1>1. CASE Start
  BY <1>1 DEF Start
<1>2. CASE LoadKey
  BY <1>2 DEF LoadKey
<1>3. CASE PersistKey
  BY <1>3 DEF PersistKey
<1>4. CASE CheckIssuer \/ WriteMarker \/ Listen
  BY <1>4 DEF CheckIssuer, WriteMarker, Listen
<1>5. CASE Tamper
  BY <1>5 DEF Tamper, DeleteMarker, DeleteKey, DamageKey
<1>6. CASE Serve
  BY <1>6, ServeKeepsSessions DEF Serve
<1>7. CASE Stop \/ Tick \/ UNCHANGED vars \/ \E e \in Envs : Edit(e)
  BY <1>7 DEF Stop, Tick, vars, Edit
<1>8. CASE \E t \in Tokens, kind \in {"access", "id"}, sub \in Subs, client \in Clients :
              Issue(t, kind, sub, client)
  BY <1>8 DEF Issue
<1> QED BY <1>1, <1>2, <1>3, <1>4, <1>5, <1>6, <1>7, <1>8 DEF Next, Boot

\* A boot that finds the key and the issuer of a token that counts changes
\* neither; the operator who deletes one of them gives the token up.
LEMMA KeyStandsStep == IInv /\ [Next]_vars => KeyStands'
<1> SUFFICES ASSUME IInv, [Next]_vars PROVE KeyStands'
  OBVIOUS
<1> USE ServingAssumption
        DEF IInv, KeyStands, Booted, Reach, disk, ghost, bounds, gateVars
<1>1. CASE Start
  BY <1>1 DEF Start, Issued
<1>2. CASE LoadKey
  <2>1. \A t \in Issued : issued[t].key \in Keys
    BY DEF TypeOK, Token, Issued
  <2>2. UNCHANGED <<config, keyFile, marker, issued, forfeited>>
    BY <1>2 DEF LoadKey
  <2>3. CASE Parses(keyFile) /\ key' = keyFile /\ proc' = "issuer"
    BY <2>2, <2>3 DEF Parses, Issued
  <2>4. CASE keyFile # None /\ ~Parses(keyFile) /\ key' = None /\ proc' = "down"
    BY <2>2, <2>4 DEF Issued
  <2>5. CASE keyFile = None
    BY <2>1, <2>2, <2>5 DEF Issued
  <2> QED BY <1>2, <2>3, <2>4, <2>5 DEF LoadKey
<1>3. CASE PersistKey
  BY <1>3 DEF PersistKey, Issued
<1>4. CASE CheckIssuer
  BY <1>4 DEF CheckIssuer, Issued
<1>5. CASE WriteMarker
  BY <1>5 DEF WriteMarker, Issued
<1>6. CASE Listen
  BY <1>6 DEF Listen, Issued
<1>7. CASE Tamper
  BY <1>7 DEF Tamper, DeleteMarker, DeleteKey, DamageKey, Issued
<1>8. CASE Serve
  BY <1>8, ServeKeepsSessions DEF Serve, Issued
<1>9. CASE Stop \/ Tick \/ UNCHANGED vars \/ \E e \in Envs : Edit(e)
  BY <1>9 DEF Stop, Tick, vars, Edit, Issued
<1>10. CASE \E t \in Tokens, kind \in {"access", "id"}, sub \in Subs, client \in Clients :
              Issue(t, kind, sub, client)
  <2> PICK t \in Tokens, kind \in {"access", "id"}, sub \in Subs, client \in Clients :
              Issue(t, kind, sub, client)
    BY <1>10
  <2> DEFINE tok == Claimed(kind, sub, client)
  <2>1. tok.key = key /\ tok.iss = config.origin
    BY ClaimedIsToken DEF Issue
  <2>2. /\ proc = "up" /\ HasBroker(config) /\ key # None
        /\ issued[t] = None /\ issued' = [issued EXCEPT ![t] = tok]
        /\ issued \in [Tokens -> Token \cup {None}]
        /\ UNCHANGED <<config, proc, key, keyFile, marker>>
    BY DEF Issue, TypeOK
  <2>3. config.origin # None
    BY <2>2, Loaded DEF FollowsEnvironment, TypeOK
  <2>4. ASSUME t \notin forfeited'
        PROVE  keyFile \in {key, Corrupt} /\ marker = config.origin
    BY <2>2, <2>4 DEF Issue, KeyOnDisk
  <2>5. ASSUME NEW x \in (Issued \ forfeited)', x # t
        PROVE  x \in Issued \ forfeited /\ issued'[x] = issued[x]
    BY <2>2, <2>5 DEF Issue, Issued
  <2>6. issued'[t] = tok
    BY <2>2
  <2> HIDE DEF tok
  <2> QED BY <2>1, <2>2, <2>3, <2>4, <2>5, <2>6
<1> QED BY <1>1, <1>2, <1>3, <1>4, <1>5, <1>6, <1>7, <1>8, <1>9, <1>10 DEF Next, Boot

\* The invariant holds in every reachable state.
LEMMA Invariant == Spec => []IInv
<1>1. IInv /\ [Next]_vars => IInv'
  BY TypeStep, EnvironmentStep, ShapeStep, KeyOnDiskStep, KeyStandsStep DEF IInv
<1> QED BY InitIInv, <1>1, PTL DEF Spec

-----------------------------------------------------------------------------
(* What goes through the gate.                                             *)

\* A path below the resource is under its prefix, whatever else it is.
LEMMA BelowIsUnder ==
    ASSUME NEW p \in Seq(STRING) \ {<<>>}, NEW path \in Seq(STRING), IsPrefix(p, path)
    PROVE  underPrefix(path, p)
<1>1. Len(p) \in Nat \ {0} /\ Len(path) \in Nat /\ Len(p) <= Len(path)
  BY DEF IsPrefix
<1>2. \A i \in 1 .. Len(p) : path[i] = p[i]
  <2> SUFFICES ASSUME NEW i \in 1 .. Len(p) PROVE path[i] = p[i]
    OBVIOUS
  <2>1. SubSeq(p, 1, Len(p))[i] = p[i] /\ SubSeq(path, 1, Len(p))[i] = path[i]
    BY <1>1
  <2> QED BY <2>1 DEF IsPrefix
<1>3. Len(p) \in 1 .. Len(p) /\ \A i \in 1 .. Len(p) - 1 : i \in 1 .. Len(p)
  BY <1>1
<1> QED BY <1>1, <1>2, <1>3 DEF underPrefix, HasPrefix, Last

\* Only what the environment leaves open is bypassed.
LEMMA BypassIsPublic ==
    ASSUME IInv, proc = "up", NEW path \in Paths, Match(config, path) = "bypass"
    PROVE  Public(path)
<1> USE ServingAssumption
<1>1. config = Load(env) /\ env \in Envs
  BY DEF IInv, FollowsEnvironment, TypeOK
<1>2. matchesBypass(config, path) /\ ~isProtected(config, path)
  BY DEF Match
<1>3. \/ \E p \in env.allowed \ {<<>>} : IsPrefix(p, path)
      \/ \E x \in env.extensions : <<path[Len(path)], x>> \in HasSuffix
      \/ env.hashContent /\ path[1] \in Hashes40
  BY <1>1, <1>2, Loaded DEF matchesBypass, isHashContentPath, Last
<1>4. ASSUME env.resource # None, PathIn[env.resource] \notin {None, <<"">>},
             IsPrefix(PathIn[env.resource], path)
      PROVE  FALSE
  <2>1. PathIn[env.resource] \in Seq(STRING) \ {<<>>} /\ path \in Seq(STRING)
    BY <1>1, <1>4
  <2>2. config.protected = PathIn[env.resource] /\ HasBroker(config)
    BY <1>1, <1>4, Loaded DEF OAuthProtectedPath
  <2> QED BY <1>2, <1>4, <2>1, <2>2, BelowIsUnder DEF isProtected
<1> QED BY <1>3, <1>4 DEF Public

\* A session the gate lets pass is good under the environment of today.
LEMMA UsableIsGood ==
    ASSUME IInv, proc = "up", NEW i \in Ids, Usable(i)
    PROVE  StillGood(sessions[i])
<1>1. config.hash = env.hash /\ config.grouped = env.grouped
  BY Loaded DEF IInv, FollowsEnvironment
<1>2. i \in Live /\ (sessions[i].sub = None => sessions[i].hash # None)
  BY DEF IInv, CredentialShape, Usable
<1> QED BY <1>1, <1>2 DEF Usable, StillGood, Ungraded, StalePassword, Forbidden, groupsAllowed

\* The identity a request passes with is that of its credential's owner: of the
\* token when there is a good one, else of the session.
LEMMA WhoPasses ==
    ASSUME IInv, proc = "up", NEW r \in Incoming, Identified(r) # Nobody
    PROVE  LET s == sessions[r.cookie] IN
             \/ /\ PassesByToken(r)
                /\ Identified(r) = [method |-> "oauth", sub |-> issued[r.bearer].sub,
                                    user |-> None, groups |-> None]
             \/ /\ ~PassesByToken(r) /\ r.cookie \in Live
                /\ \/ /\ s.sub = None
                      /\ Identified(r) = [method |-> "password", sub |-> None,
                                          user |-> env.user, groups |-> None]
                   \/ /\ s.sub # None /\ s.claims = None
                      /\ Identified(r) = [method |-> "oidc", sub |-> s.sub,
                                          user |-> None, groups |-> None]
                   \/ /\ s.sub # None /\ s.claims # None
                      /\ Identified(r) = [method |-> "oidc", sub |-> s.sub,
                                          user |-> s.claims.user,
                                          groups |-> s.claims.member]
<1> DEFINE s == sessions[r.cookie]
<1>1. CASE PassesByToken(r)
  <2> DEFINE said == [method |-> "oauth", sub |-> issued[r.bearer].sub,
                      user |-> None, groups |-> None]
  <2>1. bearerIdentity(r) = said
    BY <1>1 DEF PassesByToken, bearerIdentity, Nobody
  <2>2. said # Nobody
    <3>1. said.method = "oauth" /\ Nobody.method = None
      BY DEF Nobody
    <3> QED BY <3>1, ServingAssumption
  <2> QED BY <1>1, <2>1, <2>2 DEF Identified
<1>2. CASE ~PassesByToken(r)
  <2>1. Identified(r) = sessionIdentity(r)
    BY <1>2 DEF PassesByToken, bearerIdentity, Identified
  <2>2. r.cookie \in Live /\ r.cookie # None /\ Usable(r.cookie)
    BY <2>1 DEF sessionIdentity, Usable
  <2>3. config.user = env.user
    BY Loaded DEF IInv, FollowsEnvironment
  <2>4. CASE s.sub = None
    <3>1. sessionIdentity(r) = [method |-> "password", sub |-> None,
                                user |-> env.user, groups |-> None]
      BY <2>2, <2>3, <2>4 DEF sessionIdentity, Nobody
    <3> QED BY <1>2, <2>1, <2>2, <2>4, <3>1
  <2>5. CASE s.sub # None /\ s.claims = None
    <3>1. sessionIdentity(r) = [method |-> "oidc", sub |-> s.sub,
                                user |-> None, groups |-> None]
      BY <2>2, <2>5 DEF sessionIdentity
    <3> QED BY <1>2, <2>1, <2>2, <2>5, <3>1
  <2>6. CASE s.sub # None /\ s.claims # None
    <3>1. sessionIdentity(r) = [method |-> "oidc", sub |-> s.sub,
                                user |-> s.claims.user, groups |-> s.claims.member]
      BY <2>2, <2>6 DEF sessionIdentity
    <3> QED BY <1>2, <2>1, <2>2, <2>6, <3>1
  <2> QED BY <2>4, <2>5, <2>6
<1> QED BY <1>1, <1>2

\* A header is emitted for one field.
LEMMA FieldOfHeader ==
    ASSUME NEW e \in emitted
    PROVE  (CHOOSE f \in emitted : f[1] = e[1]) = e
<1> DEFINE c == CHOOSE f \in emitted : f[1] = e[1]
<1>1. c \in emitted /\ c[1] = e[1]
  OBVIOUS
<1> HIDE DEF c
<1>2. c = e
  BY <1>1 DEF emitted
<1> QED BY <1>2 DEF c

\* Without an identity to tell of, every managed header is gone.
LEMMA UntoldIsCleared ==
    ASSUME config.headers = env.headers, NEW r \in Incoming, Untold(r)
    PROVE  \A x \in Managed : Outgoing(r)[x] = None
<1>1. \A x \in Managed : Clear(Sent)[x] = None
  BY DEF Clear, Sent
<1>2. Outgoing(r) = Clear(Sent)
  BY DEF Untold, Outgoing, Apply, Bypassed, Gated
<1> QED BY <1>1, <1>2

\* With one, they say what it says, and so does the assertion.
LEMMA ToldIsSaid ==
    ASSUME config = Load(env), NEW r \in Incoming, Gated(r), ~Untold(r),
           NEW m, NEW sub, NEW user, NEW groups, m # None,
           Identified(r) = [method |-> m, sub |-> sub, user |-> user, groups |-> groups]
    PROVE  Say(Outgoing(r), m, sub, user, groups)
<1> DEFINE id == Identified(r)
<1>0. /\ config.headers = env.headers /\ config.secret = env.secret
      /\ config.app = env.app
  BY Loaded
<1>1. id.method = m /\ id.sub = sub /\ id.user = user /\ id.groups = groups
  OBVIOUS
<1> HIDE DEF id
<1>2. HasAuth(config) /\ config.headers
  BY <1>0 DEF Untold
<1>3. Outgoing(r) =
        [x \in Managed |->
           IF \E e \in emitted : e[1] = x
           THEN id[(CHOOSE e \in emitted : e[1] = x)[2]]
           ELSE IF x = "X-AppShield-Assertion" /\ config.secret # None
           THEN MintAssertion(config, id, now)
           ELSE Clear(Sent)[x]]
  BY <1>1, <1>2 DEF Outgoing, Apply, Sent, id
<1>4. ASSUME NEW e \in emitted PROVE Outgoing(r)[e[1]] = id[e[2]]
  <2>1. e[1] \in Managed
    BY DEF Managed
  <2> QED BY <1>3, <2>1, FieldOfHeader
<1>5. /\ Outgoing(r)["X-AppShield-Method"] = m /\ Outgoing(r)["X-AppShield-Sub"] = sub
      /\ Outgoing(r)["Remote-User"] = user /\ Outgoing(r)["Remote-Groups"] = groups
  <2>1. /\ <<"X-AppShield-Method", "method">> \in emitted
        /\ <<"X-AppShield-Sub", "sub">> \in emitted
        /\ <<"Remote-User", "user">> \in emitted
        /\ <<"Remote-Groups", "groups">> \in emitted
    BY DEF emitted
  <2>2. /\ Outgoing(r)["X-AppShield-Method"] = id["method"]
        /\ Outgoing(r)["X-AppShield-Sub"] = id["sub"]
        /\ Outgoing(r)["Remote-User"] = id["user"]
        /\ Outgoing(r)["Remote-Groups"] = id["groups"]
    BY <1>4, <2>1
  <2> QED BY <1>1, <2>2
<1>6. /\ Outgoing(r)["X-AppShield-User"] = None
      /\ Outgoing(r)["X-AppShield-Assertion"] =
           IF config.secret # None THEN MintAssertion(config, id, now) ELSE None
  <2>1. /\ "X-AppShield-User" \in Managed /\ "X-AppShield-Assertion" \in Managed
        /\ ~\E e \in emitted : e[1] = "X-AppShield-User"
        /\ ~\E e \in emitted : e[1] = "X-AppShield-Assertion"
    BY DEF Managed, alsoCleared, emitted
  <2>2. \A x \in Managed : Clear(Sent)[x] = None
    BY DEF Clear, Sent
  <2> QED BY <1>3, <2>1, <2>2
<1>7. /\ MintAssertion(config, id, now).aud = firstOf(env.app, "appshield")
      /\ MintAssertion(config, id, now).sub = firstOf(sub, firstOf(user, m))
  BY <1>0, <1>1 DEF MintAssertion
<1> QED BY <1>0, <1>5, <1>6, <1>7 DEF Say

-----------------------------------------------------------------------------
(* The theorems.                                                           *)

\* Every state is well typed; in particular no boot goes on without a key.
THEOREM ServingTypes == Spec => []TypeOK
<1>1. IInv => TypeOK
  BY DEF IInv
<1> QED BY Invariant, <1>1, PTL

\* However boots are cut short and whatever the environment becomes, a gate that
\* is up honours every access token of its resource that the operator has not
\* given up.
THEOREM TokensSurvive == Spec => []TokensOutliveRestarts
<1>1. IInv => TokensOutliveRestarts
  <2> SUFFICES ASSUME IInv, proc = "up", NEW t \in Issued \ forfeited,
                      issued[t].kind = "access",
                      issued[t].aud = config.resource, now < issued[t].exp
               PROVE  VerifyBearer(issued[t])
    BY DEF TokensOutliveRestarts
  <2>1. issued[t] \in Token
    BY DEF IInv, TypeOK, Issued
  <2>2. HasBroker(config)
    BY DEF IInv, AudienceShape, HasBroker
  <2> QED BY <2>1, <2>2 DEF IInv, KeyStands, Booted, VerifyBearer, Verify, Token
<1> QED BY Invariant, <1>1, PTL

\* For every environment, path, token and session, across restarts: what reaches
\* the backend is public, or asked for no gate, or is vouched for today; or the
\* environment's only authentication is 2.x's managed hash, which the gate ignores.
THEOREM NobodyElsePasses == Spec => []OnlyTheAdmittedPass
<1>1. IInv => OnlyTheAdmittedPass
  <2> SUFFICES ASSUME IInv, proc = "up", NEW r \in Incoming, Forwarded(r)
               PROVE  \/ Public(r.path)
                      \/ AsksForNothing \/ ManagedHashOnly
                      \/ /\ r.bearer \in Issued
                         /\ issued[r.bearer].aud = env.resource
                         /\ now < issued[r.bearer].exp
                      \/ r.cookie \in Live /\ StillGood(sessions[r.cookie])
    BY DEF OnlyTheAdmittedPass
  <2>1. r.path \in Paths /\ r.cookie \in Ids \cup {None}
    BY DEF Incoming
  <2>2. config = Load(env) /\ ~Refused(env)
    BY DEF IInv, FollowsEnvironment
  <2>3. CASE Bypassed(r)
    BY <2>1, <2>3, BypassIsPublic DEF Bypassed
  <2>4. CASE ~HasAuth(config)
    BY <2>2, <2>4, Loaded DEF HasAuth, AsksForNothing, ManagedHashOnly, NamesNone, Mode,
                              Refused, Unprotected
  <2>5. CASE bearerIdentity(r) # Nobody
    <3>1. r.bearer \in Issued /\ VerifyBearer(issued[r.bearer])
      BY <2>5 DEF bearerIdentity
    <3> QED BY <2>2, <3>1, Loaded DEF VerifyBearer
  <2>6. CASE sessionIdentity(r) # Nobody
    <3>1. r.cookie \in Ids /\ Usable(r.cookie)
      BY <2>1, <2>6 DEF sessionIdentity
    <3> QED BY <3>1, UsableIsGood DEF Usable
  <2> QED BY <2>3, <2>4, <2>5, <2>6 DEF Forwarded, Identified
<1> QED BY Invariant, <1>1, PTL

\* No environment the gate starts in sends one of its own routes to the backend.
THEOREM RoutesAreOwn == Spec => []OwnRoutesStay
<1>1. IInv => OwnRoutesStay
  <2> SUFFICES ASSUME IInv, proc = "up", NEW r \in Incoming, GatesOwn(r.path)
               PROVE  ~Forwarded(r)
    BY DEF OwnRoutesStay
  <2>1. HasBroker(config) <=> env.resource # None
    BY Loaded DEF IInv, FollowsEnvironment
  <2>2. Match(config, r.path) \in {"gate", "broker"}
    BY <2>1 DEF GatesOwn, Match, gateRoute, brokerRoute
  <2> QED BY <2>2 DEF Forwarded, Bypassed, Gated
<1> QED BY Invariant, <1>1, PTL

\* Only an access token opens the resource, and nothing the gate or the broker
\* signs opens the control API.
THEOREM DoorsStayApart == Spec => []EachTokenHasOneDoor
<1>1. IInv => EachTokenHasOneDoor
  <2> SUFFICES ASSUME IInv, proc = "up" PROVE EachTokenHasOneDoor
    BY DEF EachTokenHasOneDoor
  <2>1. ASSUME NEW t \in Issued
        PROVE  /\ HasBroker(config) /\ VerifyBearer(issued[t]) => issued[t].kind = "access"
               /\ ~VerifyControlToken(config, issued[t], now)
    <3>1. issued[t] \in Token
      BY <2>1 DEF IInv, TypeOK, Issued
    <3>2. issued[t].alg = "RS256" /\ issued[t].kind \in {"access", "id"}
      BY <3>1 DEF Token
    <3>3. issued[t].kind = "id" => issued[t].aud # config.resource
      <4>1. config.resource = env.resource /\ env \in Envs
        BY Loaded DEF IInv, FollowsEnvironment, TypeOK
      <4> QED BY <2>1, <4>1, ServingAssumption DEF IInv, AudienceShape
    <3> QED BY <3>2, <3>3 DEF VerifyBearer, VerifyControlToken
  <2>2. ASSUME NEW r \in Incoming, Outgoing(r)["X-AppShield-Assertion"] # None
        PROVE  /\ ~VerifyControlToken(config, Outgoing(r)["X-AppShield-Assertion"], now)
               /\ ~VerifyBearer(Outgoing(r)["X-AppShield-Assertion"])
    <3>1. Clear(Sent)["X-AppShield-Assertion"] = None
      BY DEF Clear, Sent, Managed, alsoCleared
    <3>2. Outgoing(r)["X-AppShield-Assertion"] = MintAssertion(config, Identified(r), now)
      BY <2>2, <3>1 DEF Outgoing, Apply, Sent, Managed, emitted, alsoCleared
    <3>3. /\ MintAssertion(config, Identified(r), now).alg = "HS256"
          /\ MintAssertion(config, Identified(r), now).iss = "appshield"
      BY DEF MintAssertion
    <3> QED BY <3>2, <3>3 DEF VerifyControlToken, VerifyBearer, Verify
  <2>3. ~VerifyBearer(ControlToken(now, now + 1))
    BY DEF VerifyBearer, Verify, ControlToken
  <2> QED BY <2>1, <2>2, <2>3 DEF EachTokenHasOneDoor
<1> QED BY Invariant, <1>1, PTL

\* For every token and session a request brings, on every route, with forwarding
\* on or off: each managed header and the assertion are those of the owner of the
\* credential it passes with, or there are none.
THEOREM HeadersAreTheOwners == Spec => []BackendSeesTheOwner
<1>1. IInv => BackendSeesTheOwner
  <2> SUFFICES ASSUME IInv, proc = "up" PROVE BackendSeesTheOwner
    BY DEF BackendSeesTheOwner
  <2>1. /\ config = Load(env) /\ config.headers = env.headers
        /\ None \notin {"oauth", "oidc", "password"}
    BY Loaded, ServingAssumption DEF IInv, FollowsEnvironment
  <2>2. ASSUME NEW r \in Incoming, Untold(r)
        PROVE  \A x \in Managed : Outgoing(r)[x] = None
    BY <2>1, <2>2, UntoldIsCleared
  <2>3. ASSUME NEW r \in Incoming, Forwarded(r), ~Untold(r)
        PROVE  Gated(r) /\ Identified(r) # Nobody
    BY <2>3 DEF Forwarded, Untold
  <2>4. ASSUME NEW r \in Incoming, Forwarded(r), ~Untold(r), PassesByToken(r)
        PROVE  Say(Outgoing(r), "oauth", issued[r.bearer].sub, None, None)
    BY <2>1, <2>3, <2>4, WhoPasses, ToldIsSaid
  <2>5. ASSUME NEW r \in Incoming, Forwarded(r), ~Untold(r), ~PassesByToken(r)
        PROVE  LET s == sessions[r.cookie] IN
                 /\ r.cookie \in Live
                 /\ \/ s.sub = None /\ Say(Outgoing(r), "password", None, env.user, None)
                    \/ /\ s.sub # None /\ s.claims = None
                       /\ Say(Outgoing(r), "oidc", s.sub, None, None)
                    \/ /\ s.sub # None /\ s.claims # None
                       /\ Say(Outgoing(r), "oidc", s.sub, s.claims.user, s.claims.member)
    BY <2>1, <2>3, <2>5, WhoPasses, ToldIsSaid
  <2> QED BY <2>2, <2>4, <2>5 DEF BackendSeesTheOwner
<1> QED BY Invariant, <1>1, PTL

=============================================================================
