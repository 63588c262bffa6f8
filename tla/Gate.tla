-------------------------------- MODULE Gate --------------------------------
(***************************************************************************)
(* internal/authn: what the gate lets a session do, and what ends one: the *)
(* checks of every request, the login form, logout, the control API.       *)
(*                                                                         *)
(* The session map is one variable and each operation on it one step, as   *)
(* Store.mu makes it; its file and its restarts are SessionStore's, so a   *)
(* restart keeps every session here and changes only the configuration.    *)
(* Time is left out: a session may expire whenever it is looked at.        *)
(* RelyingParty adds the sessions that single sign-on creates.             *)
(***************************************************************************)
EXTENDS Absent

CONSTANTS
    Ids,        \* session ids, drawn at random and never reused
    Subs,       \* subjects at the identity provider
    Names,      \* preferred_username claims; an account may be renamed
    Sids,       \* sessions at the identity provider
    Hashes,     \* password hashes
    Configs,    \* configurations the container may be started with
    Requests,   \* bodies the control API may be sent
    Legacy,     \* sessions of a 2.x file, made before claims were recorded
    LegacySub   \* the subject of each

\* What the gate looks at in a configuration; it may have more fields.  The hash
\* of USER and PASSWORD is computed in every mode.  grouped:
\* OIDC_REQUIRED_GROUPS is not empty.
Modes == {"oidc", "credentials", "none"}

\* handleRevoke's body: empty selectors are None.
Request == [sub: Subs \cup {None}, user: Names \cup {None}, all: BOOLEAN,
            except: SUBSET Ids]

ASSUME GateAssumption ==
    /\ Legacy \subseteq Ids /\ LegacySub \in [Legacy -> Subs]
    /\ \A c \in Configs :
         c.mode \in Modes /\ c.grouped \in BOOLEAN /\ c.hash \in Hashes
    /\ Requests \subseteq Request
    /\ None \notin Subs \cup Names \cup Sids \cup Hashes \cup Configs

VARIABLES
    config,
    sessions,   \* session id -> session, or None
    \* History.
    madeUnder,  \* the configuration a session was created under, or None
    revoked     \* subjects whose revocation has been answered, until they
                \* next sign in

gateVars == <<config, sessions, madeUnder, revoked>>

\* member: the groups claim has one of OIDC_REQUIRED_GROUPS.
Claims  == [user: Names, member: BOOLEAN]
Session == [sub: Subs \cup {None}, sid: Sids \cup {None},
            claims: Claims \cup {None}, hash: Hashes \cup {None}]

NoSession == [sub |-> None, sid |-> None, claims |-> None, hash |-> None]

LegacySession(i) == [NoSession EXCEPT !.sub = LegacySub[i]]

GateInit ==
    /\ config \in Configs
    /\ sessions = [i \in Ids |-> IF i \in Legacy THEN LegacySession(i) ELSE None]
    /\ madeUnder = [i \in Ids |-> None]
    /\ revoked = {}

Live == {i \in Ids : sessions[i] # None}
IsOIDC(i) == i \in Live /\ sessions[i].sub # None

\* Store.Create: the id is new.
Create(i, s) ==
    /\ i \notin Legacy /\ madeUnder[i] = None
    /\ sessions' = [sessions EXCEPT ![i] = s]
    /\ madeUnder' = [madeUnder EXCEPT ![i] = config]

\* Store.Delete, Store.Revoke.
End(S) == sessions' = [i \in Ids |-> IF i \in S THEN None ELSE sessions[i]]

-----------------------------------------------------------------------------
(* Authenticate: sessionIdentity and groupsAllowed.                        *)

groupsAllowed(claims) == config.grouped => claims # None /\ claims.member

\* It cannot be checked against a group requirement, so the user signs in again.
Ungraded(s) == s.sub # None /\ config.grouped /\ s.claims = None

\* The container was started with another password since.
StalePassword(s) == s.hash # None /\ s.hash # config.hash

Forbidden(s) ==
    s.sub # None /\ ~Ungraded(s) /\ ~groupsAllowed(s.claims)

\* The other outcomes of a request leave the session as it is.
Authenticate(i) ==
    /\ i \in Live
    /\ Ungraded(sessions[i]) \/ StalePassword(sessions[i])
    /\ End({i})
    /\ UNCHANGED <<config, madeUnder, revoked>>

-----------------------------------------------------------------------------
(* The gate's own routes.                                                  *)

handleLogin(i) ==
    /\ config.mode = "credentials"
    /\ Create(i, [NoSession EXCEPT !.hash = config.hash])
    /\ UNCHANGED <<config, revoked>>

\* handleLogout and handleLoggedOut, and Get when the session has expired.
Leave(i) ==
    /\ i \in Live
    /\ End({i})
    /\ UNCHANGED <<config, madeUnder, revoked>>

\* Fault: a session is matched by its claims alone.
SubMatchesClaims(s, sub) == s.claims # None /\ s.sub = sub

\* Claims.Sub is OIDCSub in every session that has both.
SubMatches(s, sub) == s.sub = sub

\* handleRevoke's predicate: the first selector given decides.
Selected(r, s) ==
    \/ r.all
    \/ ~r.all /\ r.sub # None /\ SubMatches(s, r.sub)
    \/ ~r.all /\ r.sub = None /\ r.user # None
       /\ s.claims # None /\ s.claims.user = r.user

\* Subjects a request ends for good: those it leaves no session to.
Barred(r) ==
    {u \in Subs : (r.all \/ r.sub = u) /\ r.except = {}}

\* InFlight: subjects with a sign-in under way.
handleRevoke(r, InFlight) ==
    /\ r.all \/ r.sub # None \/ r.user # None
    /\ End({i \in Live : i \notin r.except /\ Selected(r, sessions[i])})
    /\ revoked' = revoked \cup (Barred(r) \ InFlight)
    /\ UNCHANGED <<config, madeUnder>>

\* The container starts again; the sessions come back from SESSIONS_FILE.
Reconfigure(c) ==
    /\ config' = c
    /\ UNCHANGED <<sessions, madeUnder, revoked>>

GateStep ==
    \E i \in Ids : Authenticate(i) \/ handleLogin(i) \/ Leave(i)

=============================================================================
