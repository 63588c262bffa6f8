---------------------------- MODULE RelyingParty ----------------------------
(***************************************************************************)
(* internal/oidcrp: single sign-on.  The gate registers itself at the      *)
(* first login, sends the browser to the provider, redeems the code the    *)
(* browser brings back for a session, and ends sessions when the provider  *)
(* says so over the back channel.                                          *)
(*                                                                         *)
(* Logins and callbacks run in Workers.  They share the registration and   *)
(* its mutex regMu, which is held over two calls to the network, the set   *)
(* of origins, and the table of logins in flight.  The registrar and the   *)
(* provider are modelled by what the gate sees of them.                    *)
(***************************************************************************)
EXTENDS Gate, Naturals

CONSTANTS
    States,         \* values of the state parameter
    Origins,        \* public origins a request may arrive on
    Hosts,          \* AllowedOrigins, derived from REDIRECT_HOST_SUFFIXES
    Canonical,      \* CanonicalOrigin, or None
    RegistrarHosts, \* the lists the registrar may answer; {} before 1.2.0
    OwnerOf,        \* the subject of a session at the provider
    WithSid,        \* whether ID tokens carry a sid: {TRUE}, {FALSE} or both
    Workers,
    MaxRegs, MaxRestarts   \* bounds

ASSUME RPAssumption ==
    /\ Hosts \subseteq Origins /\ Canonical \in Origins \cup {None}
    /\ RegistrarHosts \subseteq SUBSET Origins
    /\ None \notin States \cup Origins \cup Workers \cup {"login", "callback"}
    /\ None \notin [client: Nat, origin: Origins]
    /\ OwnerOf \in [Sids -> Subs] /\ WithSid \subseteq BOOLEAN
    /\ {MaxRegs, MaxRestarts} \subseteq Nat

VARIABLES
    reg,            \* the registration: its client's number, 0 = none
    regMu,          \* the worker holding regMu, or None
    allowedOrigins, fallbackOrigin,
    flows,          \* states of the logins in flight
    job,            \* what each worker is doing
    restarts,
    \* The provider.
    live,           \* its sessions that have not ended
    clients,        \* how many clients the registrar has handed out
    \* History.
    sent,           \* the client and origin a state was sent out with, or None
    uses,           \* how many sessions a state has led to
    loggedOut       \* provider sessions whose logout token was answered 200

origins == <<allowedOrigins, fallbackOrigin>>
op      == <<live, clients>>
ghost   == <<sent, uses, loggedOut>>
vars    == <<gateVars, reg, regMu, origins, flows, job, restarts, op, ghost>>

NoJob == [pc |-> "idle", op |-> None, origin |-> None, state |-> None,
          client |-> 0, session |-> None]

TypeOK ==
    /\ config \in Configs
    /\ sessions \in [Ids -> Session \cup {None}]
    /\ madeUnder \in [Ids -> Configs \cup {None}] /\ revoked \subseteq Subs
    /\ {reg, clients, restarts} \subseteq Nat /\ reg <= clients
    /\ regMu \in {w \in Workers : job[w].pc \in {"register", "discover"}} \cup {None}
    /\ allowedOrigins \subseteq Origins
    /\ fallbackOrigin \in Origins \cup {None}
    /\ flows \subseteq States
    /\ job \in [Workers ->
         [pc: {"idle", "ensure", "register", "discover", "flow", "take",
               "exchange", "create"},
          op: {"login", "callback", None}, origin: Origins \cup {None},
          state: States \cup {None}, client: Nat, session: Session \cup {None}]]
    /\ live \subseteq Sids
    /\ sent \in [States -> [client: Nat, origin: Origins] \cup {None}]
    /\ uses \in [States -> Nat]
    /\ loggedOut \subseteq Sids

Init ==
    /\ GateInit
    /\ reg = 0 /\ regMu = None
    /\ allowedOrigins = Hosts /\ fallbackOrigin = Canonical
    /\ flows = {}
    /\ job = [w \in Workers |-> NoJob]
    /\ restarts = 0
    /\ live = Sids /\ clients = 0
    /\ sent = [st \in States |-> None]
    /\ uses = [st \in States |-> 0]
    /\ loggedOut = {}

At(w, pc)    == job[w].pc = pc
Become(w, j) == job' = [job EXCEPT ![w] = j]
Goto(w, pc)  == Become(w, [job[w] EXCEPT !.pc = pc])
Finish(w)    == Become(w, NoJob)

chosenOrigin(o) ==
    IF o \in allowedOrigins \/ fallbackOrigin = None THEN o ELSE fallbackOrigin

-----------------------------------------------------------------------------
(* ensure.                                                                 *)

StartLogin(w, o) ==
    /\ At(w, "idle") /\ config.mode = "oidc"
    /\ Become(w, [NoJob EXCEPT !.pc = "ensure", !.op = "login", !.origin = o])
    /\ UNCHANGED <<gateVars, reg, regMu, origins, flows, restarts, op, ghost>>

\* The provider sends the browser to the address it was given.  A callback may
\* be opened more than once; only one that carries a state we sent out matters.
StartCallback(w, st) ==
    /\ At(w, "idle") /\ config.mode = "oidc" /\ sent[st] # None
    /\ Become(w, [NoJob EXCEPT !.pc = "ensure", !.op = "callback",
                               !.origin = sent[st].origin, !.state = st])
    /\ UNCHANGED <<gateVars, reg, regMu, origins, flows, restarts, op, ghost>>

Ensured(w, client) ==
    [job[w] EXCEPT !.client = client,
                   !.pc = IF job[w].op = "login" THEN "flow" ELSE "take"]

\* Fault: the registration is looked at before regMu is taken.
EnsureUnlocked(w) ==
    /\ At(w, "ensure")
    /\ \/ /\ reg # 0
          /\ Become(w, Ensured(w, reg))
       \/ /\ reg = 0 /\ clients < MaxRegs
          /\ Goto(w, "register")
    /\ UNCHANGED <<gateVars, reg, regMu, origins, flows, restarts, op, ghost>>

\* Once registered, regMu is released at once.
Ensure(w) ==
    /\ At(w, "ensure") /\ regMu = None
    /\ \/ /\ reg # 0
          /\ Become(w, Ensured(w, reg))
          /\ UNCHANGED regMu
       \/ /\ reg = 0 /\ clients < MaxRegs
          /\ regMu' = w
          /\ Goto(w, "register")
    /\ UNCHANGED <<gateVars, reg, origins, flows, restarts, op, ghost>>

guessRedirectURIs(o) == IF allowedOrigins = {} THEN {o} ELSE allowedOrigins

adoptRedirectURIs(S) ==
    /\ allowedOrigins' = S
    /\ IF fallbackOrigin = None
       THEN fallbackOrigin' \in S
       ELSE UNCHANGED fallbackOrigin

\* POST /register: its list of origins is adopted before the provider's
\* metadata has been fetched.
Register(w) ==
    /\ At(w, "register")
    /\ \E answer \in RegistrarHosts :
         adoptRedirectURIs(IF answer = {} THEN guessRedirectURIs(job[w].origin)
                           ELSE answer)
    /\ clients' = clients + 1
    /\ Become(w, [job[w] EXCEPT !.pc = "discover", !.client = clients + 1])
    /\ UNCHANGED <<gateVars, reg, regMu, flows, restarts, live, ghost>>

Discover(w) ==
    /\ At(w, "discover")
    /\ reg' = job[w].client
    /\ regMu' = None
    /\ Become(w, Ensured(w, job[w].client))
    /\ UNCHANGED <<gateVars, origins, flows, restarts, op, ghost>>

\* Fault: an early return leaves regMu locked.
EnsureFailsLocked(w) ==
    /\ At(w, "register") \/ At(w, "discover")
    /\ Finish(w)
    /\ UNCHANGED <<gateVars, reg, regMu, origins, flows, restarts, op, ghost>>

\* Either call fails: the request is answered 502, the next one tries again.
EnsureFails(w) ==
    /\ At(w, "register") \/ At(w, "discover")
    /\ regMu' = None
    /\ Finish(w)
    /\ UNCHANGED <<gateVars, reg, origins, flows, restarts, op, ghost>>

-----------------------------------------------------------------------------
(* handleLogin and handleCallback, once registered.                        *)

\* A state is a fresh random value.
SendToProvider(w, st) ==
    /\ At(w, "flow") /\ sent[st] = None
    /\ flows' = flows \cup {st}
    /\ sent' = [sent EXCEPT ![st] =
         [client |-> job[w].client, origin |-> chosenOrigin(job[w].origin)]]
    /\ Finish(w)
    /\ UNCHANGED <<gateVars, reg, regMu, origins, restarts, op, uses, loggedOut>>

\* Past flowTTL a flow is as good as gone: the callback refuses it, and the next
\* login sweeps it.
FlowExpires(st) ==
    /\ st \in flows
    /\ flows' = flows \ {st}
    /\ UNCHANGED <<gateVars, reg, regMu, origins, job, restarts, op, ghost>>

\* Fault: the flow is left for the sweep.
Kept(st) == flows

\* Single use: the flow is deleted when it is read.
Taken(st) == flows \ {st}

TakeFlow(w) ==
    /\ At(w, "take")
    /\ flows' = Taken(job[w].state)
    /\ IF job[w].state \in flows THEN Goto(w, "exchange") ELSE Finish(w)
    /\ UNCHANGED <<gateVars, reg, regMu, origins, restarts, op, ghost>>

\* What the ID token says.
IDToken(sid, user, member, withSid) ==
    [sub |-> OwnerOf[sid], sid |-> IF withSid THEN sid ELSE None,
     claims |-> [user |-> user, member |-> member], hash |-> None]

\* Fault: anybody who can sign in gets a session.
AdmitsAll(claims) == TRUE

\* Refuse before minting.
Admits(claims) == groupsAllowed(claims)

\* The code is redeemed for an ID token; a provider issues none for a session
\* that has ended.
Exchange(w, sid, user, member, withSid) ==
    /\ At(w, "exchange") /\ sid \in live
    /\ LET s == IDToken(sid, user, member, withSid) IN
         /\ IF Admits(s.claims)
            THEN Become(w, [job[w] EXCEPT !.pc = "create", !.session = s])
            ELSE Finish(w)
         /\ revoked' = revoked \ {s.sub}
    /\ UNCHANGED <<config, sessions, madeUnder, reg, regMu, origins, flows,
                   restarts, op, ghost>>

\* The provider refuses the code, or sends no usable ID token.
ExchangeFails(w) ==
    /\ At(w, "exchange")
    /\ Finish(w)
    /\ UNCHANGED <<gateVars, reg, regMu, origins, flows, restarts, op, ghost>>

CreateSession(w, i) ==
    /\ At(w, "create")
    /\ Create(i, job[w].session)
    /\ uses' = [uses EXCEPT ![job[w].state] = @ + 1]
    /\ Finish(w)
    /\ UNCHANGED <<config, revoked, reg, regMu, origins, flows, restarts, op,
                   sent, loggedOut>>

-----------------------------------------------------------------------------
(* Logout.                                                                 *)

\* A provider session ends: by RP-initiated logout, from this app or another.
ProviderLogout(sid) ==
    /\ sid \in live
    /\ live' = live \ {sid}
    /\ UNCHANGED <<gateVars, reg, regMu, origins, flows, job, restarts, clients,
                   ghost>>

\* Fault: the subject decides whenever the token has one.
MatchesSubFirst(sid, sub, s) ==
    IF sub # None THEN s.sub = sub ELSE sid # None /\ s.sid = sid

\* Fault: a session that recorded its sid is left to the sub fallback.
MatchesLegacyOnly(sid, sub, s) == sub # None /\ s.sid = None /\ s.sub = sub

\* applyLogoutToken: sid against sid where both have one, else sub.
Matches(sid, sub, s) ==
    IF sid # None /\ s.sid # None
    THEN s.sid = sid
    ELSE sub # None /\ s.sub = sub

InFlight == {w \in Workers : At(w, "create")}

\* The token for the end of session sid carries its sid, its sub or both; the
\* provider may deliver it late, again, or never, and one that is addressed to
\* another client or is malformed changes nothing.  handleBackchannelLogout takes
\* regMu to read the registration and answers 503 when there is none.
BackchannelLogout(sid, hasSid, hasSub) ==
    /\ sid \notin live
    /\ hasSid \/ hasSub
    /\ regMu = None /\ reg # 0
    /\ End({i \in Live : Matches(IF hasSid THEN sid ELSE None,
                                 IF hasSub THEN OwnerOf[sid] ELSE None,
                                 sessions[i])})
    /\ loggedOut' = IF hasSid /\ (\A w \in InFlight : job[w].session.sid # sid)
                    THEN loggedOut \cup {sid} ELSE loggedOut
    /\ UNCHANGED <<config, madeUnder, revoked, reg, regMu, origins, flows, job,
                   restarts, op, sent, uses>>

-----------------------------------------------------------------------------
\* The process stops and starts again, perhaps with another configuration.
Restart(c) ==
    /\ restarts < MaxRestarts
    /\ restarts' = restarts + 1
    /\ Reconfigure(c)
    /\ reg' = 0 /\ regMu' = None
    /\ allowedOrigins' = Hosts /\ fallbackOrigin' = Canonical
    /\ flows' = {}
    /\ job' = [w \in Workers |-> NoJob]
    /\ UNCHANGED <<op, ghost>>

Gating ==
    /\ \/ GateStep
       \/ \E r \in Requests :
            handleRevoke(r, {job[w].session.sub : w \in InFlight})
    /\ UNCHANGED <<reg, regMu, origins, flows, job, restarts, op, ghost>>

Work(w) ==
    \/ Ensure(w) \/ Register(w) \/ Discover(w) \/ EnsureFails(w)
    \/ \E st \in States : SendToProvider(w, st)
    \/ TakeFlow(w) \/ ExchangeFails(w)
    \/ \E sid \in Sids, user \in Names, member \in BOOLEAN, withSid \in WithSid :
         Exchange(w, sid, user, member, withSid)
    \/ \E i \in Ids : CreateSession(w, i)

Start(w) ==
    \/ \E o \in Origins : StartLogin(w, o)
    \/ \E st \in States : StartCallback(w, st)

Next ==
    \/ Gating
    \/ \E w \in Workers : Start(w) \/ Work(w)
    \/ \E st \in States : FlowExpires(st)
    \/ \E sid \in Sids, hasSid, hasSub \in BOOLEAN :
         ProviderLogout(sid) \/ BackchannelLogout(sid, hasSid, hasSub)
    \/ \E c \in Configs : Restart(c)

Spec == Init /\ [][Next]_vars

=============================================================================
