------------------------- MODULE RelyingPartyProofs -------------------------
(***************************************************************************)
(* Theorems about single sign-on, for every value of the constants: any    *)
(* number of requests, logins, sessions, origins, registrations, restarts  *)
(* and configurations.                                                     *)
(***************************************************************************)
EXTENDS RelyingPartyProperties, TLAPS

Job == [pc: {"idle", "ensure", "register", "discover", "flow", "take",
             "exchange", "create"},
        op: {"login", "callback", None}, origin: Origins \cup {None},
        state: States \cup {None}, client: Nat, session: Session \cup {None}]

\* What an earlier step of its request has left a worker's record j with, when
\* the registrar has handed out n clients and s says what was sent out.
Ready(j, n, s) ==
    /\ j.client <= n
    /\ j.pc # "idle" => j.op # None /\ j.origin \in Origins
    /\ j.op = "callback" =>
         /\ j.state \in States /\ s[j.state] # None
         /\ j.origin = s[j.state].origin
    /\ j.pc \in {"take", "exchange", "create"} => j.op = "callback"
    /\ j.pc = "create" => j.session \in Session /\ j.session.sub \in Subs

Prepared == \A w \in Workers : Ready(job[w], clients, sent)

TypeInv == TypeOK /\ Prepared

\* Nobody registers but the holder of regMu, and only while there is no
\* registration; clients are numbered from 1.
RegisterAlone ==
    \A w \in Workers : At(w, "register") \/ At(w, "discover") =>
      regMu = w /\ reg = 0 /\ (At(w, "discover") => job[w].client # 0)

\* Past ensure, a request goes by the registration there is.
Registered ==
    \A w \in Workers : job[w].pc \in {"flow", "take", "exchange", "create"} =>
      reg # 0 /\ job[w].client = reg

UnderWay(st) ==
    st \in flows \/ \E w \in Workers : At(w, "exchange") /\ job[w].state = st

Current(st) ==
    /\ reg # 0 /\ sent[st] # None /\ sent[st].client = reg
    /\ chosenOrigin(sent[st].origin) = sent[st].origin

\* A login in flight was sent out under the registration there is, from an
\* origin that is worked out the same way again.
FlowsCurrent == \A st \in States : UnderWay(st) => Current(st)

RegInv == TypeInv /\ RegisterAlone /\ Registered /\ FlowsCurrent

Redeeming(w) == job[w].pc \in {"exchange", "create"}

\* A state is in flight, or in the hands of one worker, or used, or not sent yet.
OnePlace ==
    /\ \A st \in States : sent[st] = None \/ st \in flows => uses[st] = 0
    /\ \A st \in flows : sent[st] # None
    /\ \A w \in Workers : Redeeming(w) =>
         job[w].state \notin flows /\ uses[job[w].state] = 0
    /\ \A v, w \in Workers :
         Redeeming(v) /\ Redeeming(w) /\ job[v].state = job[w].state => v = w

UseInv == TypeInv /\ StateUsedOnce /\ OnePlace

\* Neither a session nor one about to be created is of a subject or a provider
\* session that has been ended.
EndedIsOut ==
    /\ \A w \in Workers : At(w, "create") =>
         job[w].session.sub \notin revoked /\ job[w].session.sid \notin loggedOut
    /\ loggedOut \cap live = {}

EndInv == TypeInv /\ EndedIsOut /\ LoggedOutStaysOut /\ RevokedSubjectIsOut

\* Session s is one that configuration c gives: for its password, or to a user
\* whose groups it admits.
GivenBy(c, s) ==
    \/ s.sub = None /\ s.hash = c.hash
    \/ s.sub # None /\ (c.grouped => s.claims # None /\ s.claims.member)

\* Whoever got a session was admitted by the configuration it was created under.
AdmittedWhenMade ==
    /\ \A i \in Live : madeUnder[i] # None => GivenBy(madeUnder[i], sessions[i])
    /\ \A w \in Workers : At(w, "create") => groupsAllowed(job[w].session.claims)

AdmitInv == TypeInv /\ AdmittedWhenMade

-----------------------------------------------------------------------------
(* Steps of a worker.                                                      *)

\* A worker's record is replaced by another.
LEMMA BecomeType ==
    ASSUME TypeOK, NEW w \in Workers, NEW j \in Job, Become(w, j)
    PROVE  /\ job' \in [Workers -> Job]
           /\ job'[w] = j
           /\ \A v \in Workers \ {w} : job'[v] = job[v]
BY DEF TypeOK, Job, Become

LEMMA NoJobType ==
    /\ NoJob \in Job /\ NoJob.pc = "idle" /\ NoJob.op = None /\ NoJob.client = 0
    /\ NoJob.session = None /\ NoJob.state = None /\ NoJob.origin = None
BY DEF NoJob, Job

\* Only the program counter moves.
LEMMA GotoType ==
    ASSUME TypeOK, NEW w \in Workers,
           NEW pc \in {"register", "exchange"}, Goto(w, pc)
    PROVE  /\ job' \in [Workers -> Job]
           /\ job'[w].pc = pc /\ job'[w].op = job[w].op
           /\ job'[w].origin = job[w].origin /\ job'[w].state = job[w].state
           /\ job'[w].client = job[w].client /\ job'[w].session = job[w].session
           /\ \A v \in Workers \ {w} : job'[v] = job[v]
<1> DEFINE j == [job[w] EXCEPT !.pc = pc]
<1>1. job[w] \in Job
  BY DEF TypeOK, Job
<1>2. /\ j \in Job /\ j.pc = pc /\ j.op = job[w].op /\ j.origin = job[w].origin
      /\ j.state = job[w].state /\ j.client = job[w].client
      /\ j.session = job[w].session
  BY <1>1 DEF Job
<1>3. Become(w, j)
  BY DEF Goto
<1> HIDE DEF j
<1> QED BY <1>2, <1>3, BecomeType

\* A request that is answered.
LEMMA FinishType ==
    ASSUME TypeOK, NEW w \in Workers, Finish(w)
    PROVE  /\ job' \in [Workers -> Job] /\ job'[w] = NoJob
           /\ \A v \in Workers \ {w} : job'[v] = job[v]
BY NoJobType, BecomeType DEF Finish

\* A request past ensure.
LEMMA EnsuredType ==
    ASSUME TypeOK, NEW w \in Workers, NEW c \in Nat, Become(w, Ensured(w, c))
    PROVE  /\ job' \in [Workers -> Job]
           /\ job'[w].pc = IF job[w].op = "login" THEN "flow" ELSE "take"
           /\ job'[w].op = job[w].op
           /\ job'[w].origin = job[w].origin /\ job'[w].state = job[w].state
           /\ job'[w].client = c /\ job'[w].session = job[w].session
           /\ \A v \in Workers \ {w} : job'[v] = job[v]
<1> DEFINE j == Ensured(w, c)
<1>1. job[w] \in Job
  BY DEF TypeOK, Job
<1>2. /\ j \in Job /\ j.pc = (IF job[w].op = "login" THEN "flow" ELSE "take")
      /\ j.op = job[w].op /\ j.origin = job[w].origin
      /\ j.state = job[w].state /\ j.client = c /\ j.session = job[w].session
  BY <1>1 DEF Job, Ensured
<1> HIDE DEF j
<1> QED BY <1>2, BecomeType DEF j

\* What each step of a worker leaves it with, besides what it does to the rest.
LEMMA StartLoginJob ==
    ASSUME TypeOK, NEW w \in Workers, NEW o \in Origins, StartLogin(w, o)
    PROVE  /\ job' \in [Workers -> Job]
           /\ job'[w].pc = "ensure" /\ job'[w].op = "login" /\ job'[w].origin = o
           /\ job'[w].client = 0
           /\ \A v \in Workers \ {w} : job'[v] = job[v]
<1> DEFINE j == [NoJob EXCEPT !.pc = "ensure", !.op = "login", !.origin = o]
<1>1. /\ j \in Job /\ j.pc = "ensure" /\ j.op = "login" /\ j.origin = o /\ j.client = 0
  BY DEF Job, NoJob
<1>2. Become(w, j)
  BY DEF StartLogin
<1> HIDE DEF j
<1> QED BY <1>1, <1>2, BecomeType DEF j

LEMMA StartCallbackJob ==
    ASSUME TypeOK, NEW w \in Workers, NEW st \in States, StartCallback(w, st)
    PROVE  /\ job' \in [Workers -> Job]
           /\ job'[w].pc = "ensure" /\ job'[w].op = "callback"
           /\ job'[w].state = st /\ job'[w].origin = sent[st].origin
           /\ sent[st].origin \in Origins /\ job'[w].client = 0
           /\ \A v \in Workers \ {w} : job'[v] = job[v]
<1> DEFINE j == [NoJob EXCEPT !.pc = "ensure", !.op = "callback",
                              !.origin = sent[st].origin, !.state = st]
<1>1. sent[st] \in [client: Nat, origin: Origins]
  BY DEF StartCallback, TypeOK
<1>2. /\ j \in Job /\ j.pc = "ensure" /\ j.op = "callback" /\ j.state = st
      /\ j.origin = sent[st].origin /\ j.client = 0
  BY <1>1 DEF Job, NoJob
<1>3. Become(w, j)
  BY DEF StartCallback
<1> HIDE DEF j
<1> QED BY <1>1, <1>2, <1>3, BecomeType

LEMMA RegisterJob ==
    ASSUME TypeOK, NEW w \in Workers, Register(w)
    PROVE  /\ job' \in [Workers -> Job]
           /\ job'[w].pc = "discover" /\ job'[w].op = job[w].op
           /\ job'[w].origin = job[w].origin /\ job'[w].state = job[w].state
           /\ job'[w].client = clients + 1
           /\ \A v \in Workers \ {w} : job'[v] = job[v]
<1> DEFINE j == [job[w] EXCEPT !.pc = "discover", !.client = clients + 1]
<1>1. job[w] \in Job /\ clients + 1 \in Nat
  BY DEF TypeOK, Job
<1>2. /\ j \in Job /\ j.pc = "discover" /\ j.op = job[w].op
      /\ j.origin = job[w].origin /\ j.state = job[w].state /\ j.client = clients + 1
  BY <1>1 DEF Job
<1>3. Become(w, j)
  BY DEF Register
<1> HIDE DEF j
<1> QED BY <1>2, <1>3, BecomeType

\* An exchange that admits its user leaves a session to create.
LEMMA ExchangeJob ==
    ASSUME TypeOK, NEW w \in Workers, NEW sid \in Sids, NEW user \in Names,
           NEW member \in BOOLEAN, NEW withSid \in WithSid,
           Exchange(w, sid, user, member, withSid)
    PROVE  /\ job' \in [Workers -> Job]
           /\ \/ job'[w] = NoJob
              \/ /\ job'[w].pc = "create" /\ job'[w].op = job[w].op
                 /\ job'[w].origin = job[w].origin /\ job'[w].state = job[w].state
                 /\ job'[w].client = job[w].client
                 /\ job'[w].session \in Session
                 /\ job'[w].session.sub = OwnerOf[sid]
                 /\ job'[w].session.sid \in {sid, None}
                 /\ groupsAllowed(job'[w].session.claims)
           /\ \A v \in Workers \ {w} : job'[v] = job[v]
           /\ OwnerOf[sid] \in Subs /\ revoked' = revoked \ {OwnerOf[sid]}
<1> DEFINE s == IDToken(sid, user, member, withSid)
           j == [job[w] EXCEPT !.pc = "create", !.session = s]
<1>1. OwnerOf[sid] \in Subs /\ [user |-> user, member |-> member] \in Claims
  BY RPAssumption DEF Claims
<1>2. /\ s \in Session /\ s.sub = OwnerOf[sid] /\ s.sid \in {sid, None}
  BY <1>1 DEF IDToken, Session
<1>3. revoked' = revoked \ {OwnerOf[sid]}
  BY <1>2 DEF Exchange
<1>4. (Admits(s.claims) /\ Become(w, j)) \/ Finish(w)
  BY DEF Exchange
<1> HIDE DEF s
<1>5. job[w] \in Job
  BY DEF TypeOK, Job
<1>6. /\ j \in Job /\ j.pc = "create" /\ j.op = job[w].op
      /\ j.origin = job[w].origin /\ j.state = job[w].state
      /\ j.client = job[w].client /\ j.session = s
  BY <1>2, <1>5 DEF Job
<1> HIDE DEF j
<1>7. CASE Admits(s.claims) /\ Become(w, j)
  BY <1>1, <1>2, <1>3, <1>6, <1>7, BecomeType DEF Admits
<1>8. CASE Finish(w)
  BY <1>1, <1>3, <1>8, FinishType
<1> QED BY <1>4, <1>7, <1>8

\* Sessions are typed whichever way they come and go.
LEMMA CreateType ==
    ASSUME TypeOK, NEW i \in Ids, NEW s \in Session, Create(i, s)
    PROVE  /\ sessions' \in [Ids -> Session \cup {None}]
           /\ madeUnder' \in [Ids -> Configs \cup {None}]
BY DEF TypeOK, Create

LEMMA EndType ==
    ASSUME TypeOK, NEW S, End(S)
    PROVE  /\ sessions' \in [Ids -> Session \cup {None}]
           /\ \A i \in Ids : sessions'[i] = IF i \in S THEN None ELSE sessions[i]
BY DEF TypeOK, End

LEMMA GatingType ==
    ASSUME TypeOK, Gating
    PROVE  /\ sessions' \in [Ids -> Session \cup {None}]
           /\ madeUnder' \in [Ids -> Configs \cup {None}]
           /\ revoked' \subseteq Subs /\ config' = config
           /\ UNCHANGED <<reg, regMu, origins, flows, job, restarts, op, ghost>>
<1> USE GateAssumption
<1>1. UNCHANGED <<reg, regMu, origins, flows, job, restarts, op, ghost>>
  BY DEF Gating
<1>2. CASE \E i \in Ids : Authenticate(i) \/ Leave(i)
  BY <1>1, <1>2, EndType DEF Authenticate, Leave, TypeOK
<1>3. CASE \E i \in Ids : handleLogin(i)
  <2> PICK i \in Ids : handleLogin(i)
    BY <1>3
  <2>1. [NoSession EXCEPT !.hash = config.hash] \in Session
    BY DEF TypeOK, Session, NoSession
  <2> QED BY <1>1, <2>1, CreateType DEF handleLogin, TypeOK
<1>4. CASE \E r \in Requests :
             handleRevoke(r, {job[w].session.sub : w \in InFlight})
  BY <1>1, <1>4, EndType DEF handleRevoke, Barred, TypeOK
<1> QED BY <1>2, <1>3, <1>4 DEF Gating, GateStep

-----------------------------------------------------------------------------
(* Types, and what a step relies on.                                       *)

\* A worker that is done needs nothing.
LEMMA ReadyIdle == ASSUME NEW n \in Nat, NEW s PROVE Ready(NoJob, n, s)
BY NoJobType, RPAssumption DEF Ready

LEMMA InitTypeInv == Init => TypeInv
<1> SUFFICES ASSUME Init PROVE TypeInv
  OBVIOUS
<1> USE GateAssumption, RPAssumption
<1>1. \A i \in Legacy : LegacySession(i) \in Session
  BY DEF LegacySession, NoSession, Session
<1>2. /\ sessions \in [Ids -> Session \cup {None}]
      /\ madeUnder \in [Ids -> Configs \cup {None}] /\ revoked \subseteq Subs
      /\ config \in Configs
  BY <1>1 DEF Init, GateInit
<1>3. job \in [Workers -> Job] /\ \A w \in Workers : job[w] = NoJob
  BY NoJobType DEF Init
<1>4. TypeOK
  BY <1>2, <1>3 DEF Init, TypeOK, Job
<1>5. Prepared
  BY <1>3, ReadyIdle DEF Init, Prepared
<1> QED BY <1>4, <1>5 DEF TypeInv

\* More clients and more logins do not disturb a worker.
LEMMA ReadyLater ==
    ASSUME NEW j \in Job, NEW n \in Nat, NEW m \in Nat, NEW s, NEW t,
           Ready(j, n, s), n <= m, \A st \in States : s[st] # None => t[st] = s[st]
    PROVE  Ready(j, m, t)
<1>1. j.client \in Nat
  BY DEF Job
<1>2. j.client <= m
  BY <1>1 DEF Ready
<1> QED BY <1>2 DEF Ready

\* A step of one worker keeps the others prepared.
LEMMA PreparedByOne ==
    ASSUME TypeInv, NEW w \in Workers,
           \A v \in Workers \ {w} : job'[v] = job[v],
           clients' \in Nat, clients <= clients',
           \A st \in States : sent[st] # None => sent'[st] = sent[st],
           Ready(job'[w], clients', sent')
    PROVE  Prepared'
<1> SUFFICES ASSUME NEW v \in Workers PROVE Ready(job'[v], clients', sent')
  BY DEF Prepared
<1>1. CASE v = w
  BY <1>1
<1>2. CASE v # w
  <2>1. job'[v] = job[v]
    BY <1>2
  <2>2. job[v] \in Job /\ clients \in Nat
    BY DEF TypeInv, TypeOK, Job
  <2>3. Ready(job[v], clients, sent)
    BY DEF TypeInv, Prepared
  <2>4. Ready(job[v], clients', sent')
    BY <2>2, <2>3, ReadyLater
  <2> QED BY <2>1, <2>4
<1> QED BY <1>1, <1>2

LEMMA TypeStep == TypeInv /\ [Next]_vars => TypeInv'
<1> SUFFICES ASSUME TypeInv, [Next]_vars PROVE TypeInv'
  OBVIOUS
<1> USE GateAssumption, RPAssumption DEF TypeInv
<1> DEFINE JobType == job \in [Workers -> Job]
<1>0. JobType /\ TypeOK
  BY DEF TypeOK, Job
<1> USE <1>0
<1>1. CASE Gating
  <2>1. TypeOK'
    BY <1>1, GatingType DEF TypeOK, origins, op, ghost
  <2>2. Prepared'
    BY <1>1, GatingType DEF Prepared, At, op, ghost
  <2> QED BY <2>1, <2>2
<1>2. ASSUME NEW w \in Workers, NEW o \in Origins, StartLogin(w, o) PROVE TypeInv'
  <2>1. UNCHANGED <<gateVars, reg, regMu, origins, flows, restarts, op, ghost>>
    BY <1>2 DEF StartLogin
  <2>2. JobType' /\ At(w, "idle")
    BY <1>2, StartLoginJob DEF StartLogin
  <2>3. TypeOK'
    BY <1>2, <2>1, <2>2, StartLoginJob DEF TypeOK, Job, At, gateVars, origins, op, ghost
  <2>4. clients \in Nat
    BY DEF TypeOK
  <2>5. clients' = clients /\ sent' = sent
    BY <2>1 DEF op, ghost
  <2>6. /\ job'[w].pc = "ensure" /\ job'[w].op = "login" /\ job'[w].origin = o
        /\ job'[w].client = 0 /\ \A v \in Workers \ {w} : job'[v] = job[v]
    BY <1>2, StartLoginJob
  <2>7. Ready(job'[w], clients', sent')
    BY <2>4, <2>5, <2>6 DEF Ready
  <2>8. Prepared'
    BY <2>4, <2>5, <2>6, <2>7, PreparedByOne
  <2> QED BY <2>3, <2>8
<1>3. ASSUME NEW w \in Workers, NEW st \in States, StartCallback(w, st) PROVE TypeInv'
  <2>1. UNCHANGED <<gateVars, reg, regMu, origins, flows, restarts, op, ghost>>
        /\ sent[st] # None /\ At(w, "idle")
    BY <1>3 DEF StartCallback
  <2>2. TypeOK'
    BY <1>3, <2>1, StartCallbackJob DEF TypeOK, Job, At, gateVars, origins, op, ghost
  <2>3. clients \in Nat
    BY DEF TypeOK
  <2>6. clients' = clients /\ sent' = sent
    BY <2>1 DEF op, ghost
  <2>7. /\ job'[w].pc = "ensure" /\ job'[w].op = "callback" /\ job'[w].state = st
        /\ job'[w].origin = sent[st].origin /\ sent[st].origin \in Origins
        /\ job'[w].client = 0
    BY <1>3, StartCallbackJob
  <2>4. Ready(job'[w], clients', sent')
    BY <2>1, <2>3, <2>6, <2>7 DEF Ready
  <2>5. Prepared'
    BY <1>3, <2>1, <2>3, <2>4, StartCallbackJob, PreparedByOne DEF op, ghost
  <2> QED BY <2>2, <2>5

<1>4. ASSUME NEW w \in Workers, Ensure(w) PROVE TypeInv'
  <2>1. /\ UNCHANGED <<gateVars, reg, origins, flows, restarts, op, ghost>>
        /\ At(w, "ensure") /\ regMu = None
    BY <1>4 DEF Ensure
  <2>2. CASE reg # 0 /\ Become(w, Ensured(w, reg)) /\ UNCHANGED regMu
    <3>1. reg \in Nat /\ reg <= clients /\ clients \in Nat
      BY DEF TypeOK
    <3>2. TypeOK'
      BY <2>1, <2>2, <3>1, EnsuredType DEF TypeOK, Job, At, gateVars, origins, op, ghost
    <3>3. job[w].op \in {"login", "callback"} /\ job[w].origin \in Origins
      BY <2>1 DEF Prepared, Ready, At, TypeOK
    <3>4. job'[w].pc \in {"take", "exchange", "create"} => job'[w].op = "callback"
      BY <2>2, <3>1, <3>3, EnsuredType
    <3>5. job'[w].pc # "create"
      BY <2>2, <3>1, EnsuredType
    <3>6. Ready(job[w], clients, sent)
      BY DEF Prepared
    <3>9. clients' = clients /\ sent' = sent
      BY <2>1 DEF op, ghost
    <3>10. /\ job'[w].op = job[w].op /\ job'[w].origin = job[w].origin
           /\ job'[w].state = job[w].state /\ job'[w].client = reg
      BY <2>2, <3>1, EnsuredType
    <3>7. Ready(job'[w], clients', sent')
      BY <3>1, <3>3, <3>4, <3>5, <3>6, <3>9, <3>10 DEF Ready
    <3>8. Prepared'
      BY <2>1, <2>2, <3>1, <3>7, EnsuredType, PreparedByOne DEF op, ghost
    <3> QED BY <3>2, <3>8
  <2>3. CASE regMu' = w /\ Goto(w, "register")
    <3>1. TypeOK'
      BY <2>1, <2>3, GotoType DEF TypeOK, Job, At, gateVars, origins, op, ghost
    <3>2. clients \in Nat
      BY DEF TypeOK
    <3>3. Ready(job[w], clients, sent)
      BY DEF Prepared
    <3>4. Ready(job'[w], clients', sent')
      BY <2>1, <2>3, <3>3, GotoType DEF op, ghost, Ready, At
    <3>5. Prepared'
      BY <2>1, <2>3, <3>2, <3>4, GotoType, PreparedByOne DEF op, ghost
    <3> QED BY <3>1, <3>5
  <2> QED BY <1>4, <2>2, <2>3 DEF Ensure
<1>5. ASSUME NEW w \in Workers, Register(w) PROVE TypeInv'
  <2>1. /\ UNCHANGED <<gateVars, reg, regMu, flows, restarts, live, ghost>>
        /\ At(w, "register") /\ clients' = clients + 1
    BY <1>5 DEF Register
  <2>2. clients \in Nat /\ reg \in Nat /\ reg <= clients
    BY DEF TypeOK
  <2>3. job[w].origin \in Origins /\ job[w].op # None
    BY <2>1 DEF Prepared, Ready, At
  <2>4. PICK answer \in RegistrarHosts :
          adoptRedirectURIs(IF answer = {} THEN guessRedirectURIs(job[w].origin)
                            ELSE answer)
    BY <1>5 DEF Register
  <2>5. allowedOrigins' \subseteq Origins /\ fallbackOrigin' \in Origins \cup {None}
    BY <2>3, <2>4 DEF adoptRedirectURIs, guessRedirectURIs, TypeOK
  <2>6. TypeOK'
    BY <1>5, <2>1, <2>2, <2>5, RegisterJob DEF TypeOK, Job, At, gateVars, ghost
  <2>7. Ready(job[w], clients, sent)
    BY DEF Prepared
  <2>8. Ready(job'[w], clients', sent')
    BY <1>5, <2>1, <2>2, <2>3, <2>7, RegisterJob DEF ghost, Ready
  <2>9. Prepared'
    BY <1>5, <2>1, <2>2, <2>8, RegisterJob, PreparedByOne DEF ghost
  <2> QED BY <2>6, <2>9
<1>6. ASSUME NEW w \in Workers, Discover(w) PROVE TypeInv'
  <2>1. /\ UNCHANGED <<gateVars, origins, flows, restarts, op, ghost>>
        /\ At(w, "discover") /\ reg' = job[w].client /\ regMu' = None
        /\ Become(w, Ensured(w, job[w].client))
    BY <1>6 DEF Discover
  <2>2. job[w].client \in Nat /\ job[w].client <= clients /\ clients \in Nat
    BY DEF TypeOK, Prepared, Ready
  <2>3. TypeOK'
    BY <2>1, <2>2, EnsuredType DEF TypeOK, Job, At, gateVars, origins, op, ghost
  <2>4. job[w].op \in {"login", "callback"} /\ job[w].origin \in Origins
    BY <2>1 DEF Prepared, Ready, At, TypeOK
  <2>5. /\ job'[w].pc \in {"take", "exchange", "create"} => job'[w].op = "callback"
        /\ job'[w].pc # "create"
    BY <2>1, <2>2, <2>4, EnsuredType
  <2>6. Ready(job[w], clients, sent)
    BY DEF Prepared
  <2>9. clients' = clients /\ sent' = sent
    BY <2>1 DEF op, ghost
  <2>10. /\ job'[w].op = job[w].op /\ job'[w].origin = job[w].origin
         /\ job'[w].state = job[w].state /\ job'[w].client = job[w].client
    BY <2>1, <2>2, EnsuredType
  <2>7. Ready(job'[w], clients', sent')
    BY <2>2, <2>4, <2>5, <2>6, <2>9, <2>10 DEF Ready
  <2>8. Prepared'
    BY <2>1, <2>2, <2>7, EnsuredType, PreparedByOne DEF op, ghost
  <2> QED BY <2>3, <2>8
\* A request that is answered, with nothing else its preparation depends on.
<1>7. ASSUME NEW w \in Workers, Finish(w), UNCHANGED <<clients, sent>>,
             (~At(w, "register") /\ ~At(w, "discover")) \/ regMu' = None
      PROVE  Prepared' /\ job' \in [Workers -> Job]
                       /\ (regMu' \in {None, regMu} =>
                             regMu' \in {v \in Workers : job'[v].pc \in {"register", "discover"}}
                                          \cup {None})
  <2>1. clients \in Nat
    BY DEF TypeOK
  <2>2. Ready(job'[w], clients', sent')
    BY <1>7, <2>1, FinishType, ReadyIdle
  <2>5. Prepared'
    BY <1>7, <2>1, <2>2, FinishType, PreparedByOne
  <2>3. job' \in [Workers -> Job] /\ \A v \in Workers \ {w} : job'[v] = job[v]
    BY <1>7, FinishType
  <2>4. regMu = w => At(w, "register") \/ At(w, "discover")
    BY DEF TypeOK, At
  <2> QED BY <1>7, <2>3, <2>4, <2>5 DEF TypeOK
<1>8. ASSUME NEW w \in Workers, EnsureFails(w) PROVE TypeInv'
  <2>1. UNCHANGED <<gateVars, reg, origins, flows, restarts, op, ghost>>
        /\ regMu' = None /\ Finish(w)
    BY <1>8 DEF EnsureFails
  <2>2. Prepared' /\ job' \in [Workers -> Job]
    BY <1>7, <2>1 DEF op, ghost
  <2>3. TypeOK'
    BY <2>1, <2>2 DEF TypeOK, Job, gateVars, origins, op, ghost
  <2> QED BY <2>2, <2>3
<1>9. ASSUME NEW w \in Workers, NEW st \in States, SendToProvider(w, st) PROVE TypeInv'
  <2>1. /\ UNCHANGED <<gateVars, reg, regMu, origins, restarts, op, uses, loggedOut>>
        /\ Finish(w) /\ At(w, "flow") /\ sent[st] = None
        /\ flows' = flows \cup {st}
        /\ sent' = [sent EXCEPT ![st] =
             [client |-> job[w].client, origin |-> chosenOrigin(job[w].origin)]]
    BY <1>9 DEF SendToProvider
  <2>2. job[w].client \in Nat /\ chosenOrigin(job[w].origin) \in Origins
    BY <2>1 DEF TypeOK, Prepared, Ready, At, chosenOrigin
  <2>3. /\ sent' \in [States -> [client: Nat, origin: Origins] \cup {None}]
        /\ \A x \in States : sent[x] # None => sent'[x] = sent[x]
    BY <2>1, <2>2 DEF TypeOK
  <2>4. job' \in [Workers -> Job] /\ \A v \in Workers \ {w} : job'[v] = job[v]
    BY <2>1, FinishType
  <2>5. TypeOK'
    BY <2>1, <2>3, <2>4 DEF TypeOK, Job, At, gateVars, origins, op
  <2>6. clients \in Nat
    BY DEF TypeOK
  <2>7. Ready(job'[w], clients', sent')
    BY <2>1, <2>6, FinishType, ReadyIdle DEF op
  <2>9. clients' = clients
    BY <2>1 DEF op
  <2>8. Prepared'
    BY <2>3, <2>4, <2>6, <2>7, <2>9, PreparedByOne
  <2> QED BY <2>5, <2>8
<1>10. ASSUME NEW w \in Workers, TakeFlow(w) PROVE TypeInv'
  <2>1. /\ UNCHANGED <<gateVars, reg, regMu, origins, restarts, op, ghost>>
        /\ At(w, "take") /\ flows' = Taken(job[w].state)
        /\ Goto(w, "exchange") \/ Finish(w)
    BY <1>10 DEF TakeFlow
  <2>2. flows' \subseteq States
    BY <2>1 DEF Taken, TypeOK
  <2>3. CASE Goto(w, "exchange")
    <3>1. TypeOK'
      BY <2>1, <2>2, <2>3, GotoType DEF TypeOK, Job, At, gateVars, origins, op, ghost
    <3>2. clients \in Nat
      BY DEF TypeOK
    <3>3. Ready(job[w], clients, sent)
      BY DEF Prepared
    <3>4. Ready(job'[w], clients', sent')
      BY <2>1, <2>3, <3>3, GotoType DEF op, ghost, Ready, At
    <3>5. Prepared'
      BY <2>1, <2>3, <3>2, <3>4, GotoType, PreparedByOne DEF op, ghost
    <3> QED BY <3>1, <3>5
  <2>4. CASE Finish(w)
    <3>1. Prepared' /\ job' \in [Workers -> Job]
          /\ regMu' \in {v \in Workers : job'[v].pc \in {"register", "discover"}}
                          \cup {None}
      BY <1>7, <2>1, <2>4 DEF At, op, ghost
    <3>2. TypeOK'
      BY <2>1, <2>2, <3>1 DEF TypeOK, Job, At, gateVars, origins, op, ghost
    <3> QED BY <3>1, <3>2
  <2> QED BY <2>1, <2>3, <2>4
<1>11. ASSUME NEW w \in Workers, ExchangeFails(w) PROVE TypeInv'
  <2>1. /\ UNCHANGED <<gateVars, reg, regMu, origins, flows, restarts, op, ghost>>
        /\ At(w, "exchange") /\ Finish(w)
    BY <1>11 DEF ExchangeFails
  <2>2. Prepared' /\ job' \in [Workers -> Job]
        /\ regMu' \in {v \in Workers : job'[v].pc \in {"register", "discover"}}
                        \cup {None}
    BY <1>7, <2>1 DEF At, op, ghost
  <2>3. TypeOK'
    BY <2>1, <2>2 DEF TypeOK, Job, At, gateVars, origins, op, ghost
  <2> QED BY <2>2, <2>3
<1>12. ASSUME NEW w \in Workers, NEW sid \in Sids, NEW user \in Names,
              NEW member \in BOOLEAN, NEW withSid \in WithSid,
              Exchange(w, sid, user, member, withSid)
       PROVE  TypeInv'
  <2>1. /\ UNCHANGED <<config, sessions, madeUnder, reg, regMu, origins, flows,
                       restarts, op, ghost>>
        /\ At(w, "exchange")
    BY <1>12 DEF Exchange
  <2>7. /\ job' \in [Workers -> Job] /\ \A v \in Workers \ {w} : job'[v] = job[v]
        /\ revoked' \subseteq revoked
    BY <1>12, ExchangeJob
  <2>2. TypeOK'
    BY <2>1, <2>7 DEF TypeOK, Job, At, origins, op, ghost
  <2>3. clients \in Nat
    BY DEF TypeOK
  <2>4. Ready(job[w], clients, sent)
    BY DEF Prepared
  <2>5. Ready(job'[w], clients', sent')
    BY <1>12, <2>1, <2>3, <2>4, ExchangeJob, ReadyIdle DEF op, ghost, Ready, At
  <2>6. Prepared'
    BY <1>12, <2>1, <2>3, <2>5, ExchangeJob, PreparedByOne DEF op, ghost
  <2> QED BY <2>2, <2>6
<1>13. ASSUME NEW w \in Workers, NEW i \in Ids, CreateSession(w, i) PROVE TypeInv'
  <2>1. /\ UNCHANGED <<config, revoked, reg, regMu, origins, flows, restarts, op,
                       sent, loggedOut>>
        /\ At(w, "create") /\ Finish(w) /\ Create(i, job[w].session)
        /\ uses' = [uses EXCEPT ![job[w].state] = @ + 1]
    BY <1>13 DEF CreateSession
  <2>2. job[w].session \in Session
    BY <2>1 DEF Prepared, Ready, At
  <2>3. /\ sessions' \in [Ids -> Session \cup {None}]
        /\ madeUnder' \in [Ids -> Configs \cup {None}]
    BY <2>1, <2>2, CreateType
  <2>4. Prepared' /\ job' \in [Workers -> Job]
        /\ regMu' \in {v \in Workers : job'[v].pc \in {"register", "discover"}}
                        \cup {None}
    BY <1>7, <2>1 DEF At, op
  <2>5. uses' \in [States -> Nat]
    <3>1. job[w].state \in States
      BY <2>1 DEF Prepared, Ready, At
    <3> QED BY <2>1, <3>1 DEF TypeOK
  <2>6. TypeOK'
    BY <2>1, <2>3, <2>4, <2>5 DEF TypeOK, Job, At, origins, op
  <2> QED BY <2>4, <2>6
<1>14. ASSUME NEW st \in States, FlowExpires(st) PROVE TypeInv'
  BY <1>14 DEF FlowExpires, TypeOK, Prepared, At, gateVars, origins, op, ghost
<1>15. ASSUME NEW sid \in Sids, ProviderLogout(sid) PROVE TypeInv'
  BY <1>15 DEF ProviderLogout, TypeOK, Prepared, At, gateVars, origins, ghost
<1>16. ASSUME NEW sid \in Sids, NEW hasSid \in BOOLEAN, NEW hasSub \in BOOLEAN,
              BackchannelLogout(sid, hasSid, hasSub)
       PROVE  TypeInv'
  <2>1. /\ UNCHANGED <<config, madeUnder, revoked, reg, regMu, origins, flows, job,
                       restarts, op, sent, uses>>
        /\ loggedOut' \in {loggedOut, loggedOut \cup {sid}}
    BY <1>16 DEF BackchannelLogout
  <2>2. sessions' \in [Ids -> Session \cup {None}]
    BY <1>16, EndType DEF BackchannelLogout
  <2>3. TypeOK'
    BY <2>1, <2>2 DEF TypeOK, At, origins, op
  <2>4. Prepared'
    BY <2>1 DEF Prepared, At, op
  <2> QED BY <2>3, <2>4
<1>17. ASSUME NEW c \in Configs, Restart(c) PROVE TypeInv'
  <2>1. job' \in [Workers -> Job] /\ \A w \in Workers : job'[w] = NoJob
    BY <1>17, NoJobType DEF Restart
  <2>2. TypeOK'
    BY <1>17, <2>1 DEF Restart, Reconfigure, TypeOK, Job, op, ghost
  <2>3. Prepared'
    BY <1>17, <2>1, ReadyIdle DEF Restart, Prepared, TypeOK, op
  <2> QED BY <2>2, <2>3
<1>18. CASE UNCHANGED vars
  BY <1>18 DEF vars, TypeOK, Prepared, At, gateVars, origins, op, ghost
<1> QED
  BY <1>1, <1>2, <1>3, <1>4, <1>5, <1>6, <1>8, <1>9, <1>10, <1>11, <1>12, <1>13,
     <1>14, <1>15, <1>16, <1>17, <1>18 DEF Next, Start, Work

\* The variables keep their types; regMu is held by a worker that is registering.
THEOREM SignOnTypes == Spec => []TypeOK
<1>1. TypeInv => TypeOK
  BY DEF TypeInv
<1> QED BY <1>1, InitTypeInv, TypeStep, PTL DEF Spec

-----------------------------------------------------------------------------
(* The registration.                                                       *)

\* An origin that was chosen is chosen again.
LEMMA ChosenAgain ==
    ASSUME NEW o PROVE chosenOrigin(chosenOrigin(o)) = chosenOrigin(o)
BY DEF chosenOrigin

\* Steps that leave the registration, and the logins in flight, as they are or
\* fewer, and take no request into or past ensure but from one
\* step after it to the next.
LEMMA RegKept ==
    ASSUME RegInv, TypeInv', UNCHANGED <<reg, origins, sent>>, flows' \subseteq flows,
           \A v \in Workers :
             \/ job'[v].pc = "idle" \/ job'[v].pc = "ensure"
             \/ /\ job'[v].pc = "create" /\ job[v].pc = "exchange"
                /\ job'[v].client = job[v].client
             \/ job'[v] = job[v] /\ (job[v].pc \in {"register", "discover"} =>
                                       regMu' = regMu)
    PROVE  RegInv'
<1> USE DEF RegInv, At
<1>1. RegisterAlone'
  BY DEF RegisterAlone
<1>2. Registered'
  BY DEF Registered
<1>3. FlowsCurrent'
  <2> SUFFICES ASSUME NEW st \in States, UnderWay(st)' PROVE Current(st)'
    BY DEF FlowsCurrent
  <2>1. UnderWay(st)
    BY DEF UnderWay
  <2>2. Current(st)
    BY <2>1 DEF FlowsCurrent
  <2> QED BY <2>2 DEF Current, chosenOrigin, origins
<1> QED BY <1>1, <1>2, <1>3

LEMMA RegStep == RegInv /\ [Next]_vars => RegInv'
<1> SUFFICES ASSUME RegInv, [Next]_vars PROVE RegInv'
  OBVIOUS
<1>0. TypeInv /\ TypeOK /\ TypeInv' /\ RegisterAlone /\ Registered /\ FlowsCurrent
  BY TypeStep DEF RegInv, TypeInv
<1> USE <1>0
<1>1. CASE Gating
  BY <1>1, GatingType, RegKept DEF origins, ghost
<1>2. ASSUME NEW w \in Workers, NEW o \in Origins, StartLogin(w, o) PROVE RegInv'
  <2>1. UNCHANGED <<reg, regMu, origins, flows, sent>>
    BY <1>2 DEF StartLogin, ghost, origins
  <2>2. job'[w].pc = "ensure" /\ \A v \in Workers \ {w} : job'[v] = job[v]
    BY <1>2, StartLoginJob
  <2> QED BY <2>1, <2>2, RegKept
<1>3. ASSUME NEW w \in Workers, NEW st \in States, StartCallback(w, st) PROVE RegInv'
  <2>1. UNCHANGED <<reg, regMu, origins, flows, sent>>
    BY <1>3 DEF StartCallback, ghost, origins
  <2>2. job'[w].pc = "ensure" /\ \A v \in Workers \ {w} : job'[v] = job[v]
    BY <1>3, StartCallbackJob
  <2> QED BY <2>1, <2>2, RegKept
<1>4. ASSUME NEW w \in Workers, Ensure(w), reg # 0 PROVE RegInv'
  <2>1. UNCHANGED <<reg, regMu, origins, flows, sent>> /\ Become(w, Ensured(w, reg))
    BY <1>4 DEF Ensure, ghost
  <2>2. reg \in Nat
    BY DEF TypeOK
  <2>3. /\ job'[w].pc \in {"flow", "take"} /\ job'[w].client = reg
        /\ \A v \in Workers \ {w} : job'[v] = job[v]
    BY <2>1, <2>2, EnsuredType
  <2>4. RegisterAlone'
    BY <2>1, <2>3 DEF RegisterAlone, At
  <2>5. Registered'
    BY <1>4, <2>1, <2>3 DEF Registered
  <2>6. \A st \in States : UnderWay(st)' => UnderWay(st)
    BY <2>1, <2>3 DEF UnderWay, At
  <2>7. FlowsCurrent'
    BY <2>1, <2>6 DEF FlowsCurrent, Current, chosenOrigin, origins
  <2> QED BY <2>4, <2>5, <2>7 DEF RegInv
<1>5. ASSUME NEW w \in Workers, Ensure(w), reg = 0 PROVE RegInv'
  <2>1. /\ UNCHANGED <<reg, origins, flows, sent>> /\ regMu = None /\ regMu' = w
        /\ Goto(w, "register")
    BY <1>5 DEF Ensure, ghost
  <2>2. job'[w].pc = "register" /\ \A v \in Workers \ {w} : job'[v] = job[v]
    BY <2>1, GotoType
  <2>3. RegisterAlone'
    BY <1>5, <2>1, <2>2, RPAssumption DEF RegisterAlone, At
  <2>4. Registered'
    BY <2>1, <2>2 DEF Registered
  <2>5. \A st \in States : UnderWay(st)' => UnderWay(st)
    BY <2>1, <2>2 DEF UnderWay, At
  <2>6. FlowsCurrent'
    BY <2>1, <2>5 DEF FlowsCurrent, Current, chosenOrigin, origins
  <2> QED BY <2>3, <2>4, <2>6 DEF RegInv
\* Nothing is under way while there is no registration.
<1>6. ASSUME NEW w \in Workers, Register(w) PROVE RegInv'
  <2>1. UNCHANGED <<reg, regMu, flows, sent>> /\ At(w, "register")
    BY <1>6 DEF Register, ghost
  <2>2. /\ job'[w].pc = "discover" /\ job'[w].client = clients + 1
        /\ \A v \in Workers \ {w} : job'[v] = job[v]
    BY <1>6, RegisterJob
  <2>8. clients + 1 # 0
    BY DEF TypeOK
  <2>3. RegisterAlone'
    BY <2>1, <2>2, <2>8 DEF RegisterAlone, At
  <2>4. Registered'
    BY <2>1, <2>2 DEF Registered
  <2>5. \A st \in States : UnderWay(st)' => UnderWay(st)
    BY <2>1, <2>2 DEF UnderWay, At
  <2>6. reg = 0
    BY <2>1 DEF RegisterAlone
  <2>7. FlowsCurrent'
    BY <2>5, <2>6 DEF FlowsCurrent, Current
  <2> QED BY <2>3, <2>4, <2>7 DEF RegInv
<1>7. ASSUME NEW w \in Workers, Discover(w) PROVE RegInv'
  <2>1. /\ UNCHANGED <<flows, sent>> /\ At(w, "discover") /\ regMu' = None
        /\ Become(w, Ensured(w, job[w].client)) /\ reg' = job[w].client
    BY <1>7 DEF Discover, ghost
  <2>2. regMu = w /\ reg = 0
    BY <2>1 DEF RegisterAlone
  <2>3. job[w].client \in Nat
    BY DEF TypeOK
  <2>4. /\ job'[w].pc \in {"flow", "take"} /\ job'[w].client = job[w].client
        /\ \A v \in Workers \ {w} : job'[v] = job[v]
    BY <2>1, <2>3, EnsuredType
  <2>5. RegisterAlone'
    BY <2>2, <2>4 DEF RegisterAlone, At
  <2>6. Registered'
    BY <2>1, <2>2, <2>4 DEF Registered, RegisterAlone
  <2>7. \A st \in States : UnderWay(st)' => UnderWay(st)
    BY <2>1, <2>4 DEF UnderWay, At
  <2>8. FlowsCurrent'
    BY <2>2, <2>7 DEF FlowsCurrent, Current
  <2> QED BY <2>5, <2>6, <2>8 DEF RegInv
<1>8. ASSUME NEW w \in Workers, Finish(w), UNCHANGED <<reg, origins, sent>>,
             flows' \subseteq flows, UNCHANGED regMu \/ EnsureFails(w)
      PROVE  RegInv'
  <2>1. job'[w].pc = "idle" /\ \A v \in Workers \ {w} : job'[v] = job[v]
    BY <1>8, FinishType, NoJobType
  <2>2. EnsureFails(w) => regMu = w
    BY DEF EnsureFails, RegisterAlone
  <2>3. \A v \in Workers \ {w} :
          job[v].pc \in {"register", "discover"} => regMu' = regMu
    BY <1>8, <2>2 DEF RegisterAlone, At
  <2> QED BY <1>8, <2>1, <2>3, RegKept
<1>9. ASSUME NEW w \in Workers, EnsureFails(w) PROVE RegInv'
  BY <1>8, <1>9 DEF EnsureFails, ghost
<1>10. ASSUME NEW w \in Workers, NEW st \in States, SendToProvider(w, st) PROVE RegInv'
  <2>1. /\ UNCHANGED <<reg, regMu, origins>> /\ Finish(w) /\ At(w, "flow")
        /\ sent[st] = None /\ flows' = flows \cup {st}
        /\ sent' = [sent EXCEPT ![st] =
             [client |-> job[w].client, origin |-> chosenOrigin(job[w].origin)]]
    BY <1>10 DEF SendToProvider
  <2>2. job'[w].pc = "idle" /\ \A v \in Workers \ {w} : job'[v] = job[v]
    BY <2>1, FinishType, NoJobType
  <2>3. RegisterAlone'
    BY <2>1, <2>2 DEF RegisterAlone, At
  <2>4. Registered'
    BY <2>1, <2>2 DEF Registered
  <2>5. reg # 0 /\ job[w].client = reg
    BY <2>1 DEF Registered, At
  <2>6. sent'[st] # None /\ sent'[st].client = reg
        /\ sent'[st].origin = chosenOrigin(job[w].origin)
    <3>1. sent'[st] = [client |-> job[w].client, origin |-> chosenOrigin(job[w].origin)]
      BY <2>1 DEF TypeOK
    <3>2. job[w].client \in Nat /\ chosenOrigin(job[w].origin) \in Origins
      BY <2>1 DEF TypeInv, TypeOK, Prepared, Ready, At, chosenOrigin
    <3>3. sent'[st] # None
      BY <3>1, <3>2, RPAssumption
    <3> QED BY <2>5, <3>1, <3>3
  <2>7. Current(st)'
    BY <2>1, <2>5, <2>6 DEF Current, chosenOrigin, origins
  <2>8. ASSUME NEW x \in States \ {st}, UnderWay(x)' PROVE Current(x)'
    <3>1. UnderWay(x)
      BY <2>1, <2>2, <2>8 DEF UnderWay, At
    <3>2. sent'[x] = sent[x]
      BY <2>1 DEF TypeOK
    <3> QED BY <2>1, <3>1, <3>2 DEF FlowsCurrent, Current, chosenOrigin, origins
  <2>9. FlowsCurrent'
    BY <2>7, <2>8 DEF FlowsCurrent
  <2> QED BY <2>3, <2>4, <2>9 DEF RegInv
<1>11. ASSUME NEW w \in Workers, TakeFlow(w), job[w].state \in flows PROVE RegInv'
  <2>1. /\ UNCHANGED <<reg, regMu, origins, sent>> /\ Goto(w, "exchange")
        /\ At(w, "take") /\ flows' \subseteq flows
    BY <1>11 DEF TakeFlow, Taken, ghost
  <2>2. /\ job'[w].pc = "exchange" /\ job'[w].client = job[w].client
        /\ job'[w].state = job[w].state
        /\ \A v \in Workers \ {w} : job'[v] = job[v]
    BY <2>1, GotoType
  <2>3. RegisterAlone'
    BY <2>1, <2>2 DEF RegisterAlone, At
  <2>4. Registered'
    BY <2>1, <2>2 DEF Registered, At
  <2>5. \A st \in States : UnderWay(st)' => UnderWay(st)
    BY <1>11, <2>1, <2>2 DEF UnderWay, At
  <2>6. FlowsCurrent'
    BY <2>1, <2>5 DEF FlowsCurrent, Current, chosenOrigin, origins
  <2> QED BY <2>3, <2>4, <2>6 DEF RegInv
<1>12. ASSUME NEW w \in Workers, TakeFlow(w), job[w].state \notin flows PROVE RegInv'
  BY <1>8, <1>12 DEF TakeFlow, Taken, ghost
<1>13. ASSUME NEW w \in Workers, ExchangeFails(w) PROVE RegInv'
  BY <1>8, <1>13 DEF ExchangeFails, ghost
<1>14. ASSUME NEW w \in Workers, NEW sid \in Sids, NEW user \in Names,
              NEW member \in BOOLEAN, NEW withSid \in WithSid,
              Exchange(w, sid, user, member, withSid)
       PROVE  RegInv'
  <2>1. UNCHANGED <<reg, regMu, origins, flows, sent>> /\ At(w, "exchange")
    BY <1>14 DEF Exchange, ghost
  <2>2. /\ \/ job'[w].pc = "idle"
           \/ job'[w].pc = "create" /\ job'[w].client = job[w].client
        /\ \A v \in Workers \ {w} : job'[v] = job[v]
    BY <1>14, ExchangeJob, NoJobType
  <2> QED BY <2>1, <2>2, RegKept DEF At
<1>15. ASSUME NEW w \in Workers, NEW i \in Ids, CreateSession(w, i) PROVE RegInv'
  BY <1>8, <1>15 DEF CreateSession
<1>16. ASSUME NEW st \in States, FlowExpires(st) PROVE RegInv'
  BY <1>16, RegKept DEF FlowExpires, ghost, origins
<1>17. ASSUME NEW sid \in Sids, ProviderLogout(sid) PROVE RegInv'
  BY <1>17, RegKept DEF ProviderLogout, ghost, origins
<1>18. ASSUME NEW sid \in Sids, NEW hasSid \in BOOLEAN, NEW hasSub \in BOOLEAN,
              BackchannelLogout(sid, hasSid, hasSub)
       PROVE  RegInv'
  BY <1>18, RegKept DEF BackchannelLogout, origins
<1>19. ASSUME NEW c \in Configs, Restart(c) PROVE RegInv'
  <2>1. \A w \in Workers : job'[w].pc = "idle"
    BY <1>19, NoJobType DEF Restart
  <2>2. flows' = {}
    BY <1>19 DEF Restart
  <2> QED BY <2>1, <2>2
          DEF RegInv, RegisterAlone, Registered, FlowsCurrent, UnderWay, At
<1>20. CASE UNCHANGED vars
  BY <1>20, RegKept DEF vars, ghost, origins
<1> QED
  BY <1>1, <1>2, <1>3, <1>4, <1>5, <1>6, <1>7, <1>9, <1>10, <1>11, <1>12, <1>13,
     <1>14, <1>15, <1>16, <1>17, <1>18, <1>19, <1>20 DEF Next, Start, Work

LEMMA RegInit == Init => RegInv
<1> SUFFICES ASSUME Init PROVE RegInv
  OBVIOUS
<1>1. TypeInv /\ \A w \in Workers : job[w].pc = "idle"
  BY InitTypeInv, NoJobType DEF Init
<1>2. flows = {}
  BY DEF Init
<1> QED BY <1>1, <1>2
        DEF RegInv, RegisterAlone, Registered, FlowsCurrent, UnderWay, At

\* The client a code is redeemed with, and the redirect_uri, are the ones its
\* authorization request was sent with, whatever was registered in between.
THEOREM ExchangeKeepsPromise == Spec => []ExchangeMatchesAuthorization
<1>1. RegInv => ExchangeMatchesAuthorization
  <2> SUFFICES ASSUME RegInv, NEW w \in Workers, At(w, "exchange")
               PROVE  /\ job[w].client = sent[job[w].state].client
                      /\ chosenOrigin(job[w].origin) = sent[job[w].state].origin
    BY DEF ExchangeMatchesAuthorization
  <2>1. /\ job[w].state \in States
        /\ job[w].origin = sent[job[w].state].origin
    BY DEF RegInv, TypeInv, Prepared, Ready, At
  <2>2. Current(job[w].state)
    BY <2>1 DEF RegInv, FlowsCurrent, UnderWay
  <2>3. job[w].client = reg
    BY DEF RegInv, Registered, At
  <2> QED BY <2>1, <2>2, <2>3 DEF Current
<1> QED BY <1>1, RegInit, RegStep, PTL DEF Spec

-----------------------------------------------------------------------------
(* A login leads to one session.                                           *)

\* Steps that send nothing out, use nothing, and let nobody start redeeming.
LEMMA UseKept ==
    ASSUME UseInv, TypeInv', UNCHANGED <<sent, uses>>, flows' \subseteq flows,
           \A v \in Workers : Redeeming(v)' =>
             Redeeming(v) /\ job'[v].state = job[v].state
    PROVE  UseInv'
BY DEF UseInv, StateUsedOnce, OnePlace

\* The worker moves, but is not redeeming.
LEMMA UseKeptBy ==
    ASSUME UseInv, TypeInv', UNCHANGED <<sent, uses>>, flows' \subseteq flows,
           NEW w \in Workers, \A v \in Workers \ {w} : job'[v] = job[v],
           job'[w].pc \notin {"exchange", "create"}
    PROVE  UseInv'
BY UseKept DEF Redeeming

LEMMA UseStep == UseInv /\ [Next]_vars => UseInv'
<1> SUFFICES ASSUME UseInv, [Next]_vars PROVE UseInv'
  OBVIOUS
<1>0. TypeInv /\ TypeOK /\ TypeInv' /\ StateUsedOnce /\ OnePlace
  BY TypeStep DEF UseInv, TypeInv
<1> USE <1>0
<1>1. CASE Gating
  BY <1>1, GatingType, UseKept DEF ghost, Redeeming
<1>2. ASSUME NEW w \in Workers, NEW o \in Origins, StartLogin(w, o) PROVE UseInv'
  BY <1>2, StartLoginJob, UseKeptBy DEF StartLogin, ghost
<1>3. ASSUME NEW w \in Workers, NEW st \in States, StartCallback(w, st) PROVE UseInv'
  BY <1>3, StartCallbackJob, UseKeptBy DEF StartCallback, ghost
<1>4. ASSUME NEW w \in Workers, Ensure(w) PROVE UseInv'
  <2>1. UNCHANGED <<sent, uses, flows>> /\ reg \in Nat
    BY <1>4 DEF Ensure, ghost, TypeOK
  <2>2. CASE Become(w, Ensured(w, reg))
    BY <2>1, <2>2, EnsuredType, UseKeptBy
  <2>3. CASE Goto(w, "register")
    BY <2>1, <2>3, GotoType, UseKeptBy
  <2> QED BY <1>4, <2>2, <2>3 DEF Ensure
<1>5. ASSUME NEW w \in Workers, Register(w) PROVE UseInv'
  BY <1>5, RegisterJob, UseKeptBy DEF Register, ghost
<1>6. ASSUME NEW w \in Workers, Discover(w) PROVE UseInv'
  <2>1. UNCHANGED <<sent, uses, flows>> /\ Become(w, Ensured(w, job[w].client))
        /\ job[w].client \in Nat
    BY <1>6 DEF Discover, ghost, TypeOK
  <2> QED BY <2>1, EnsuredType, UseKeptBy
<1>7. ASSUME NEW w \in Workers, Finish(w), UNCHANGED <<sent, uses>>,
             flows' \subseteq flows
      PROVE  UseInv'
  BY <1>7, FinishType, NoJobType, UseKeptBy
<1>8. ASSUME NEW w \in Workers, EnsureFails(w) \/ ExchangeFails(w) PROVE UseInv'
  BY <1>7, <1>8 DEF EnsureFails, ExchangeFails, ghost
\* The state is fresh: nobody redeems it, and it has led to nothing.
<1>9. ASSUME NEW w \in Workers, NEW st \in States, SendToProvider(w, st) PROVE UseInv'
  <2>1. /\ uses' = uses /\ Finish(w) /\ sent[st] = None
        /\ flows' = flows \cup {st}
        /\ sent' = [sent EXCEPT ![st] =
             [client |-> job[w].client, origin |-> chosenOrigin(job[w].origin)]]
        /\ At(w, "flow")
    BY <1>9 DEF SendToProvider
  <2>2. job'[w].pc = "idle" /\ \A v \in Workers \ {w} : job'[v] = job[v]
    BY <2>1, FinishType, NoJobType
  <2>3. sent'[st] # None /\ \A x \in States \ {st} : sent'[x] = sent[x]
    <3>1. job[w].client \in Nat /\ chosenOrigin(job[w].origin) \in Origins
      BY <2>1 DEF TypeInv, TypeOK, Prepared, Ready, At, chosenOrigin
    <3> QED BY <2>1, <3>1, RPAssumption DEF TypeOK
  <2>4. uses[st] = 0
    BY <2>1 DEF OnePlace
  <2>5. \A v \in Workers : Redeeming(v) => job[v].state \in States /\ job[v].state # st
    BY <2>1 DEF TypeInv, Prepared, Ready, Redeeming
  <2>6. \A v \in Workers : Redeeming(v)' =>
          v # w /\ Redeeming(v) /\ job'[v] = job[v]
    BY <2>2 DEF Redeeming
  <2>7. flows \subseteq States
    BY DEF TypeOK
  <2>8. OnePlace'
    BY <2>1, <2>3, <2>4, <2>5, <2>6, <2>7 DEF OnePlace
  <2> QED BY <2>1, <2>8 DEF UseInv, StateUsedOnce
\* The flow is deleted as it is read.
<1>10. ASSUME NEW w \in Workers, TakeFlow(w), job[w].state \in flows PROVE UseInv'
  <2>1. /\ UNCHANGED <<sent, uses>> /\ Goto(w, "exchange") /\ At(w, "take")
        /\ flows' = flows \ {job[w].state}
    BY <1>10 DEF TakeFlow, Taken, ghost
  <2>2. /\ job'[w].pc = "exchange" /\ job'[w].state = job[w].state
        /\ \A v \in Workers \ {w} : job'[v] = job[v]
    BY <2>1, GotoType
  <2>3. job[w].state \in States /\ uses[job[w].state] = 0
    BY <1>10 DEF OnePlace, TypeOK
  <2>4. \A v \in Workers \ {w} : Redeeming(v)' =>
          Redeeming(v) /\ job'[v].state = job[v].state /\ job[v].state # job[w].state
    BY <1>10, <2>2 DEF Redeeming, OnePlace
  <2>5. OnePlace'
    BY <2>1, <2>2, <2>3, <2>4 DEF OnePlace
  <2> QED BY <2>1, <2>5 DEF UseInv, StateUsedOnce
<1>11. ASSUME NEW w \in Workers, TakeFlow(w), job[w].state \notin flows PROVE UseInv'
  BY <1>7, <1>11 DEF TakeFlow, Taken, ghost
<1>12. ASSUME NEW w \in Workers, NEW sid \in Sids, NEW user \in Names,
              NEW member \in BOOLEAN, NEW withSid \in WithSid,
              Exchange(w, sid, user, member, withSid)
       PROVE  UseInv'
  <2>1. UNCHANGED <<sent, uses, flows>> /\ At(w, "exchange")
    BY <1>12 DEF Exchange, ghost
  <2>2. /\ job'[w].pc = "idle" \/ job'[w].state = job[w].state
        /\ \A v \in Workers \ {w} : job'[v] = job[v]
    BY <1>12, ExchangeJob, NoJobType
  <2> QED BY <2>1, <2>2, UseKept DEF Redeeming, At
<1>13. ASSUME NEW w \in Workers, NEW i \in Ids, CreateSession(w, i) PROVE UseInv'
  <2> DEFINE st == job[w].state
  <2>1. /\ UNCHANGED <<sent, flows>> /\ Finish(w) /\ At(w, "create")
        /\ uses' = [uses EXCEPT ![st] = @ + 1]
    BY <1>13 DEF CreateSession
  <2>2. job'[w].pc = "idle" /\ \A v \in Workers \ {w} : job'[v] = job[v]
    BY <2>1, FinishType, NoJobType
  <2>3. /\ st \in States /\ st \notin flows /\ sent[st] # None /\ uses[st] = 0
        /\ \A v \in Workers \ {w} : Redeeming(v) => job[v].state # st
    BY <2>1 DEF OnePlace, Redeeming, At, TypeInv, Prepared, Ready
  <2>4. uses'[st] = 1 /\ \A x \in States \ {st} : uses'[x] = uses[x]
    BY <2>1, <2>3 DEF TypeOK
  <2>5. \A v \in Workers : Redeeming(v)' =>
          /\ v # w /\ Redeeming(v) /\ job'[v] = job[v]
          /\ job[v].state \in States /\ job[v].state # st
    BY <2>2, <2>3 DEF Redeeming, TypeInv, Prepared, Ready
  <2>6. StateUsedOnce'
    BY <2>4 DEF StateUsedOnce
  <2> HIDE DEF st
  <2>7. OnePlace'
    BY <2>1, <2>3, <2>4, <2>5 DEF OnePlace
  <2> QED BY <2>6, <2>7 DEF UseInv
<1>14. ASSUME NEW st \in States, FlowExpires(st) PROVE UseInv'
  BY <1>14, UseKept DEF FlowExpires, ghost, Redeeming
<1>15. ASSUME NEW sid \in Sids, ProviderLogout(sid) PROVE UseInv'
  BY <1>15, UseKept DEF ProviderLogout, ghost, Redeeming
<1>16. ASSUME NEW sid \in Sids, NEW hasSid \in BOOLEAN, NEW hasSub \in BOOLEAN,
              BackchannelLogout(sid, hasSid, hasSub)
       PROVE  UseInv'
  BY <1>16, UseKept DEF BackchannelLogout, Redeeming
<1>17. ASSUME NEW c \in Configs, Restart(c) PROVE UseInv'
  BY <1>17, UseKept, NoJobType DEF Restart, ghost, Redeeming
<1>18. CASE UNCHANGED vars
  BY <1>18, UseKept DEF vars, ghost, Redeeming
<1> QED
  BY <1>1, <1>2, <1>3, <1>4, <1>5, <1>6, <1>8, <1>9, <1>10, <1>11, <1>12, <1>13,
     <1>14, <1>15, <1>16, <1>17, <1>18 DEF Next, Start, Work

\* However often and however fast its callback is opened, a login leads to one
\* session at most.
THEOREM LoginOnce == Spec => []StateUsedOnce
<1>1. Init => UseInv
  <2> SUFFICES ASSUME Init PROVE UseInv
    OBVIOUS
  <2>1. TypeInv /\ flows = {} /\ uses = [st \in States |-> 0]
        /\ \A w \in Workers : job[w].pc = "idle"
    BY InitTypeInv, NoJobType DEF Init
  <2> QED BY <2>1 DEF UseInv, StateUsedOnce, OnePlace, Redeeming
<1>2. UseInv => StateUsedOnce
  BY DEF UseInv
<1> QED BY <1>1, <1>2, UseStep, PTL DEF Spec

-----------------------------------------------------------------------------
(* Sessions come and go.                                                   *)

\* What one request to the gate's own routes makes of a session.
LEMMA GatingSessions ==
    ASSUME TypeOK, Gating, NEW i \in Ids
    PROVE  \/ sessions'[i] = None
           \/ sessions'[i] = sessions[i] /\ madeUnder'[i] = madeUnder[i]
           \/ /\ madeUnder'[i] = config
              /\ sessions'[i].sub = None /\ sessions'[i].sid = None
              /\ sessions'[i].hash = config.hash
<1>1. CASE \E x \in Ids : Authenticate(x) \/ Leave(x)
  BY <1>1, EndType DEF Authenticate, Leave
<1>2. CASE \E x \in Ids : handleLogin(x)
  BY <1>2 DEF handleLogin, Create, NoSession, TypeOK
<1>3. CASE \E r \in Requests :
             handleRevoke(r, {job[w].session.sub : w \in InFlight})
  BY <1>3, EndType DEF handleRevoke
<1> QED BY <1>1, <1>2, <1>3 DEF Gating, GateStep

\* Sessions end, and no other worker is about to create one.
LEMMA AdmitKept ==
    ASSUME AdmitInv, TypeInv', config' = config,
           \A i \in Ids : \/ sessions'[i] = None
                          \/ sessions'[i] = sessions[i] /\ madeUnder'[i] = madeUnder[i]
                          \/ /\ madeUnder'[i] = config /\ sessions'[i].sub = None
                             /\ sessions'[i].hash = config.hash,
           \A v \in Workers : At(v, "create")' => At(v, "create") /\ job'[v] = job[v]
    PROVE  AdmitInv'
<1>1. \A i \in Ids : sessions'[i] # None =>
        \/ i \in Live /\ sessions'[i] = sessions[i] /\ madeUnder'[i] = madeUnder[i]
        \/ GivenBy(madeUnder'[i], sessions'[i])
  BY DEF Live, GivenBy
<1>2. (\A i \in Live : madeUnder[i] # None => GivenBy(madeUnder[i], sessions[i]))'
  BY <1>1 DEF Live, AdmitInv, AdmittedWhenMade
<1>3. (\A w \in Workers : At(w, "create") => groupsAllowed(job[w].session.claims))'
  BY DEF AdmitInv, AdmittedWhenMade, groupsAllowed
<1> QED BY <1>2, <1>3 DEF AdmitInv, AdmittedWhenMade

\* The same, of a step that moves one worker and ends no session.
LEMMA AdmitKeptBy ==
    ASSUME AdmitInv, TypeInv', UNCHANGED gateVars,
           NEW w \in Workers, \A v \in Workers \ {w} : job'[v] = job[v],
           job'[w].pc # "create"
    PROVE  AdmitInv'
BY AdmitKept DEF gateVars, At

LEMMA AdmitStep == AdmitInv /\ [Next]_vars => AdmitInv'
<1> SUFFICES ASSUME AdmitInv, [Next]_vars PROVE AdmitInv'
  OBVIOUS
<1>0. TypeInv /\ TypeOK /\ TypeInv' /\ AdmittedWhenMade
  BY TypeStep DEF AdmitInv, TypeInv
<1> USE <1>0
<1>1. CASE Gating
  BY <1>1, GatingType, GatingSessions, AdmitKept DEF At
<1>2. ASSUME NEW w \in Workers, NEW o \in Origins, StartLogin(w, o) PROVE AdmitInv'
  BY <1>2, StartLoginJob, AdmitKeptBy DEF StartLogin
<1>3. ASSUME NEW w \in Workers, NEW st \in States, StartCallback(w, st) PROVE AdmitInv'
  BY <1>3, StartCallbackJob, AdmitKeptBy DEF StartCallback
<1>4. ASSUME NEW w \in Workers, Ensure(w) PROVE AdmitInv'
  <2>1. UNCHANGED gateVars /\ reg \in Nat
    BY <1>4 DEF Ensure, TypeOK
  <2>2. CASE Become(w, Ensured(w, reg))
    BY <2>1, <2>2, EnsuredType, AdmitKeptBy
  <2>3. CASE Goto(w, "register")
    BY <2>1, <2>3, GotoType, AdmitKeptBy
  <2> QED BY <1>4, <2>2, <2>3 DEF Ensure
<1>5. ASSUME NEW w \in Workers, Register(w) PROVE AdmitInv'
  BY <1>5, RegisterJob, AdmitKeptBy DEF Register
<1>6. ASSUME NEW w \in Workers, Discover(w) PROVE AdmitInv'
  <2>1. UNCHANGED gateVars /\ Become(w, Ensured(w, job[w].client))
        /\ job[w].client \in Nat
    BY <1>6 DEF Discover, TypeOK
  <2> QED BY <2>1, EnsuredType, AdmitKeptBy
<1>7. ASSUME NEW w \in Workers, Finish(w), UNCHANGED gateVars PROVE AdmitInv'
  BY <1>7, FinishType, NoJobType, AdmitKeptBy
<1>8. ASSUME NEW w \in Workers, EnsureFails(w) \/ ExchangeFails(w) PROVE AdmitInv'
  BY <1>7, <1>8 DEF EnsureFails, ExchangeFails
<1>9. ASSUME NEW w \in Workers, NEW st \in States, SendToProvider(w, st) PROVE AdmitInv'
  BY <1>7, <1>9 DEF SendToProvider
<1>10. ASSUME NEW w \in Workers, TakeFlow(w) PROVE AdmitInv'
  <2>1. UNCHANGED gateVars /\ (Goto(w, "exchange") \/ Finish(w))
    BY <1>10 DEF TakeFlow
  <2>2. CASE Goto(w, "exchange")
    BY <2>1, <2>2, GotoType, AdmitKeptBy
  <2> QED BY <1>7, <2>1, <2>2
\* Refuse before minting.
<1>11. ASSUME NEW w \in Workers, NEW sid \in Sids, NEW user \in Names,
              NEW member \in BOOLEAN, NEW withSid \in WithSid,
              Exchange(w, sid, user, member, withSid)
       PROVE  AdmitInv'
  <2>1. UNCHANGED <<config, sessions, madeUnder>>
    BY <1>11 DEF Exchange
  <2>2. /\ job'[w].pc = "create" => groupsAllowed(job'[w].session.claims)
        /\ \A v \in Workers \ {w} : job'[v] = job[v]
    BY <1>11, ExchangeJob, NoJobType
  <2>3. (\A v \in Workers : At(v, "create") => groupsAllowed(job[v].session.claims))'
    BY <2>1, <2>2 DEF AdmittedWhenMade, At, groupsAllowed
  <2> QED BY <2>1, <2>3 DEF AdmitInv, AdmittedWhenMade, Live
<1>12. ASSUME NEW w \in Workers, NEW i \in Ids, CreateSession(w, i) PROVE AdmitInv'
  <2>1. /\ config' = config /\ At(w, "create") /\ Finish(w)
        /\ Create(i, job[w].session)
    BY <1>12 DEF CreateSession
  <2>2. job'[w].pc = "idle" /\ \A v \in Workers \ {w} : job'[v] = job[v]
    BY <2>1, FinishType, NoJobType
  <2>3. groupsAllowed(job[w].session.claims) /\ job[w].session.sub # None
    BY <2>1, GateAssumption DEF AdmittedWhenMade, TypeInv, Prepared, Ready, At
  <2>4. /\ sessions'[i] = job[w].session /\ madeUnder'[i] = config
        /\ \A x \in Ids \ {i} : sessions'[x] = sessions[x] /\ madeUnder'[x] = madeUnder[x]
    BY <2>1 DEF Create, TypeOK
  <2>5. GivenBy(config, job[w].session)
    BY <2>3 DEF GivenBy, groupsAllowed
  <2>6. (\A x \in Live : madeUnder[x] # None => GivenBy(madeUnder[x], sessions[x]))'
    BY <2>4, <2>5 DEF AdmittedWhenMade, Live
  <2>7. (\A v \in Workers : At(v, "create") => groupsAllowed(job[v].session.claims))'
    BY <2>1, <2>2 DEF AdmittedWhenMade, At, groupsAllowed
  <2> QED BY <2>6, <2>7 DEF AdmitInv, AdmittedWhenMade
<1>13. ASSUME NEW st \in States, FlowExpires(st) PROVE AdmitInv'
  BY <1>13, AdmitKept DEF FlowExpires, gateVars, At
<1>14. ASSUME NEW sid \in Sids, ProviderLogout(sid) PROVE AdmitInv'
  BY <1>14, AdmitKept DEF ProviderLogout, gateVars, At
<1>15. ASSUME NEW sid \in Sids, NEW hasSid \in BOOLEAN, NEW hasSub \in BOOLEAN,
              BackchannelLogout(sid, hasSid, hasSub)
       PROVE  AdmitInv'
  BY <1>15, EndType, AdmitKept DEF BackchannelLogout, At
\* The new configuration finds sessions, but nobody about to create one.
<1>16. ASSUME NEW c \in Configs, Restart(c) PROVE AdmitInv'
  <2>1. UNCHANGED <<sessions, madeUnder>> /\ \A w \in Workers : job'[w].pc = "idle"
    BY <1>16, NoJobType DEF Restart, Reconfigure
  <2> QED BY <2>1 DEF AdmitInv, AdmittedWhenMade, Live, At
<1>17. CASE UNCHANGED vars
  BY <1>17, AdmitKept DEF vars, gateVars, At
<1> QED
  BY <1>1, <1>2, <1>3, <1>4, <1>5, <1>6, <1>8, <1>9, <1>10, <1>11, <1>12, <1>13,
     <1>14, <1>15, <1>16, <1>17 DEF Next, Start, Work

\* Whatever restarts and configurations come between, a session that finds the
\* configuration it was made under is good there, with its password or its groups.
THEOREM MintedSessionsWork == Spec => []UsableWhereMade
<1>1. Init => AdmitInv
  <2> SUFFICES ASSUME Init PROVE AdmitInv
    OBVIOUS
  <2>1. /\ TypeInv /\ madeUnder = [i \in Ids |-> None]
        /\ \A w \in Workers : job[w].pc = "idle"
    BY InitTypeInv, NoJobType DEF Init, GateInit
  <2> QED BY <2>1 DEF AdmitInv, AdmittedWhenMade, Live, At
<1>2. AdmitInv => UsableWhereMade
  <2>1. AdmitInv => config # None
    BY GateAssumption DEF AdmitInv, TypeInv, TypeOK
  <2> QED BY <2>1 DEF AdmitInv, AdmittedWhenMade, UsableWhereMade, GivenBy
<1> QED BY <1>1, <1>2, AdmitStep, PTL DEF Spec

-----------------------------------------------------------------------------
(* What has been ended stays ended.                                        *)

\* Nothing more is ended, and no session of the ended ones comes about.
LEMMA EndKept ==
    ASSUME EndInv, TypeInv', UNCHANGED loggedOut, revoked' \subseteq revoked,
           live' \subseteq live,
           \A i \in Ids : \/ sessions'[i] = None \/ sessions'[i] = sessions[i]
                          \/ sessions'[i].sub = None /\ sessions'[i].sid = None,
           \A v \in Workers : At(v, "create")' => At(v, "create") /\ job'[v] = job[v]
    PROVE  EndInv'
<1>0. None \notin loggedOut /\ None \notin revoked'
  BY GateAssumption DEF EndInv, TypeInv, TypeOK
<1>1. EndedIsOut'
  BY DEF EndInv, EndedIsOut
<1>2. LoggedOutStaysOut'
  BY <1>0 DEF EndInv, LoggedOutStaysOut, Live
<1>3. RevokedSubjectIsOut'
  BY <1>0 DEF EndInv, RevokedSubjectIsOut, Live
<1> QED BY <1>1, <1>2, <1>3 DEF EndInv

\* The same, of a step that moves one worker.
LEMMA EndKeptBy ==
    ASSUME EndInv, TypeInv', UNCHANGED <<gateVars, live, loggedOut>>,
           NEW w \in Workers, \A v \in Workers \ {w} : job'[v] = job[v],
           job'[w].pc # "create"
    PROVE  EndInv'
BY EndKept DEF gateVars, At

\* The revocation of a subject spares no session of it and bars nobody who is
\* about to get one.
LEMMA RevokeEnds ==
    ASSUME EndInv, TypeInv', NEW r \in Requests,
           handleRevoke(r, {job[w].session.sub : w \in InFlight}),
           UNCHANGED <<job, live, loggedOut>>
    PROVE  EndInv'
<1> DEFINE B == Barred(r) \ {job[w].session.sub : w \in InFlight}
<1>0. TypeOK /\ None \notin Subs /\ r \in Request
  BY GateAssumption DEF EndInv, TypeInv
<1>1. /\ revoked' = revoked \cup B
      /\ End({i \in Live : i \notin r.except /\ Selected(r, sessions[i])})
  BY DEF handleRevoke
<1>2. \A i \in Ids : sessions'[i] =
        IF i \in Live /\ i \notin r.except /\ Selected(r, sessions[i])
        THEN None ELSE sessions[i]
  BY <1>0, <1>1, EndType
<1>3. ASSUME NEW i \in Ids, sessions'[i] # None
      PROVE  i \in Live /\ sessions'[i] = sessions[i] /\ sessions[i].sub \notin B
  <2>1. i \in Live /\ sessions'[i] = sessions[i]
        /\ (i \in r.except \/ ~Selected(r, sessions[i]))
    BY <1>2, <1>3 DEF Live
  <2>2. sessions[i].sub \in Barred(r) => r.except = {} /\ Selected(r, sessions[i])
    BY <1>0 DEF Barred, Selected, SubMatches
  <2> QED BY <2>1, <2>2
<1>4. EndedIsOut'
  BY <1>1 DEF EndInv, EndedIsOut, InFlight, At
<1>5. LoggedOutStaysOut'
  BY <1>3 DEF EndInv, LoggedOutStaysOut, Live
<1>6. RevokedSubjectIsOut'
  BY <1>1, <1>3 DEF EndInv, RevokedSubjectIsOut, Live
<1> QED BY <1>4, <1>5, <1>6 DEF EndInv

\* A logout token that names a provider session leaves none of it.
LEMMA LogoutEnds ==
    ASSUME EndInv, TypeInv', NEW sid \in Sids, NEW hasSid \in BOOLEAN,
           NEW hasSub \in BOOLEAN, BackchannelLogout(sid, hasSid, hasSub)
    PROVE  EndInv'
<1> DEFINE S == {i \in Live : Matches(IF hasSid THEN sid ELSE None,
                                      IF hasSub THEN OwnerOf[sid] ELSE None,
                                      sessions[i])}
<1>0. TypeOK /\ sid # None
  BY GateAssumption DEF EndInv, TypeInv
<1>1. /\ UNCHANGED <<revoked, job, live>> /\ sid \notin live /\ End(S)
      /\ loggedOut' = IF hasSid /\ (\A w \in InFlight : job[w].session.sid # sid)
                      THEN loggedOut \cup {sid} ELSE loggedOut
  BY DEF BackchannelLogout, op
<1>2. \A i \in Ids : sessions'[i] = IF i \in S THEN None ELSE sessions[i]
  BY <1>0, <1>1, EndType
<1>3. ASSUME hasSid, NEW i \in Live, sessions[i].sid = sid
      PROVE  i \in S
  BY <1>0, <1>3 DEF Matches
<1> HIDE DEF S
<1>4. \A i \in Ids : sessions'[i] # None =>
        i \in Live /\ sessions'[i] = sessions[i] /\ sessions[i].sid \notin loggedOut'
  BY <1>1, <1>2, <1>3 DEF EndInv, LoggedOutStaysOut, Live
<1>5. EndedIsOut'
  BY <1>1 DEF EndInv, EndedIsOut, InFlight, At
<1>6. LoggedOutStaysOut'
  BY <1>4 DEF LoggedOutStaysOut, Live
<1>7. RevokedSubjectIsOut'
  BY <1>1, <1>4 DEF EndInv, RevokedSubjectIsOut, Live
<1> QED BY <1>5, <1>6, <1>7 DEF EndInv

LEMMA EndStep == EndInv /\ [Next]_vars => EndInv'
<1> SUFFICES ASSUME EndInv, [Next]_vars PROVE EndInv'
  OBVIOUS
<1>0. TypeInv /\ TypeOK /\ TypeInv' /\ EndedIsOut
  BY TypeStep DEF EndInv, TypeInv
<1> USE <1>0
<1>1. CASE Gating
  <2>1. UNCHANGED <<job, live, loggedOut>>
    BY <1>1, GatingType DEF op, ghost
  <2>2. CASE GateStep
    <3>1. revoked' = revoked
      BY <2>2 DEF GateStep, Authenticate, Leave, handleLogin
    <3> QED BY <1>1, <2>1, <3>1, GatingSessions, EndKept DEF At
  <2>3. CASE \E r \in Requests :
               handleRevoke(r, {job[w].session.sub : w \in InFlight})
    BY <2>1, <2>3, RevokeEnds
  <2> QED BY <1>1, <2>2, <2>3 DEF Gating
<1>2. ASSUME NEW w \in Workers, NEW o \in Origins, StartLogin(w, o) PROVE EndInv'
  BY <1>2, StartLoginJob, EndKeptBy DEF StartLogin, op, ghost
<1>3. ASSUME NEW w \in Workers, NEW st \in States, StartCallback(w, st) PROVE EndInv'
  BY <1>3, StartCallbackJob, EndKeptBy DEF StartCallback, op, ghost
<1>4. ASSUME NEW w \in Workers, Ensure(w) PROVE EndInv'
  <2>1. UNCHANGED <<gateVars, live, loggedOut>> /\ reg \in Nat
    BY <1>4 DEF Ensure, op, ghost, TypeOK
  <2>2. CASE Become(w, Ensured(w, reg))
    BY <2>1, <2>2, EnsuredType, EndKeptBy
  <2>3. CASE Goto(w, "register")
    BY <2>1, <2>3, GotoType, EndKeptBy
  <2> QED BY <1>4, <2>2, <2>3 DEF Ensure
<1>5. ASSUME NEW w \in Workers, Register(w) PROVE EndInv'
  BY <1>5, RegisterJob, EndKeptBy DEF Register, ghost
<1>6. ASSUME NEW w \in Workers, Discover(w) PROVE EndInv'
  <2>1. UNCHANGED <<gateVars, live, loggedOut>> /\ Become(w, Ensured(w, job[w].client))
        /\ job[w].client \in Nat
    BY <1>6 DEF Discover, op, ghost, TypeOK
  <2> QED BY <2>1, EnsuredType, EndKeptBy
<1>7. ASSUME NEW w \in Workers, Finish(w), UNCHANGED <<gateVars, live, loggedOut>>
      PROVE  EndInv'
  BY <1>7, FinishType, NoJobType, EndKeptBy
<1>8. ASSUME NEW w \in Workers, EnsureFails(w) \/ ExchangeFails(w) PROVE EndInv'
  BY <1>7, <1>8 DEF EnsureFails, ExchangeFails, op, ghost
<1>9. ASSUME NEW w \in Workers, NEW st \in States, SendToProvider(w, st) PROVE EndInv'
  BY <1>7, <1>9 DEF SendToProvider, op
<1>10. ASSUME NEW w \in Workers, TakeFlow(w) PROVE EndInv'
  <2>1. UNCHANGED <<gateVars, live, loggedOut>> /\ (Goto(w, "exchange") \/ Finish(w))
    BY <1>10 DEF TakeFlow, op, ghost
  <2>2. CASE Goto(w, "exchange")
    BY <2>1, <2>2, GotoType, EndKeptBy
  <2> QED BY <1>7, <2>1, <2>2
\* The ID token is for a provider session that has not ended, and its subject is
\* let in again.
<1>11. ASSUME NEW w \in Workers, NEW sid \in Sids, NEW user \in Names,
              NEW member \in BOOLEAN, NEW withSid \in WithSid,
              Exchange(w, sid, user, member, withSid)
       PROVE  EndInv'
  <2>1. UNCHANGED <<sessions, live, loggedOut>> /\ sid \in live
    BY <1>11 DEF Exchange, op, ghost
  <2>2. /\ job'[w].pc = "create" => /\ job'[w].session.sub = OwnerOf[sid]
                                    /\ job'[w].session.sid \in {sid, None}
        /\ \A v \in Workers \ {w} : job'[v] = job[v]
        /\ revoked' = revoked \ {OwnerOf[sid]}
    BY <1>11, ExchangeJob, NoJobType
  <2>3. None \notin loggedOut
    BY GateAssumption DEF TypeOK
  <2>4. EndedIsOut'
    BY <2>1, <2>2, <2>3 DEF EndedIsOut, At
  <2> QED BY <2>1, <2>2, <2>4 DEF EndInv, LoggedOutStaysOut, RevokedSubjectIsOut, Live
<1>12. ASSUME NEW w \in Workers, NEW i \in Ids, CreateSession(w, i) PROVE EndInv'
  <2>1. /\ UNCHANGED <<revoked, live, loggedOut>> /\ At(w, "create") /\ Finish(w)
        /\ Create(i, job[w].session)
    BY <1>12 DEF CreateSession, op
  <2>2. job'[w].pc = "idle" /\ \A v \in Workers \ {w} : job'[v] = job[v]
    BY <2>1, FinishType, NoJobType
  <2>3. /\ job[w].session.sub \notin revoked
        /\ job[w].session.sid \notin loggedOut
    BY <2>1 DEF EndedIsOut
  <2>4. /\ sessions'[i] = job[w].session
        /\ \A x \in Ids \ {i} : sessions'[x] = sessions[x]
    BY <2>1 DEF Create, TypeOK
  <2>5. EndedIsOut'
    BY <2>1, <2>2 DEF EndedIsOut, At
  <2>6. LoggedOutStaysOut' /\ RevokedSubjectIsOut'
    BY <2>1, <2>3, <2>4 DEF EndInv, LoggedOutStaysOut, RevokedSubjectIsOut, Live
  <2> QED BY <2>5, <2>6 DEF EndInv
<1>13. ASSUME NEW st \in States, FlowExpires(st) PROVE EndInv'
  BY <1>13, EndKept DEF FlowExpires, gateVars, op, ghost, At
<1>14. ASSUME NEW sid \in Sids, ProviderLogout(sid) PROVE EndInv'
  BY <1>14, EndKept DEF ProviderLogout, gateVars, ghost, At
<1>15. ASSUME NEW sid \in Sids, NEW hasSid \in BOOLEAN, NEW hasSub \in BOOLEAN,
              BackchannelLogout(sid, hasSid, hasSub)
       PROVE  EndInv'
  BY <1>15, LogoutEnds
<1>16. ASSUME NEW c \in Configs, Restart(c) PROVE EndInv'
  <2>1. UNCHANGED <<sessions, revoked, live, loggedOut>>
        /\ \A w \in Workers : job'[w].pc = "idle"
    BY <1>16, NoJobType DEF Restart, Reconfigure, op, ghost
  <2> QED BY <2>1, EndKept DEF At
<1>17. CASE UNCHANGED vars
  BY <1>17, EndKept DEF vars, gateVars, op, ghost, At
<1> QED
  BY <1>1, <1>2, <1>3, <1>4, <1>5, <1>6, <1>8, <1>9, <1>10, <1>11, <1>12, <1>13,
     <1>14, <1>15, <1>16, <1>17 DEF Next, Start, Work

\* What the gate starts with was not ended before.
LEMMA EndStart == Init => EndInv
<1> SUFFICES ASSUME Init PROVE EndInv
  OBVIOUS
<1>1. TypeInv /\ revoked = {} /\ loggedOut = {} /\ \A w \in Workers : job[w].pc = "idle"
  BY InitTypeInv, NoJobType DEF Init, GateInit
<1> QED BY <1>1 DEF EndInv, EndedIsOut, LoggedOutStaysOut, RevokedSubjectIsOut, At

\* Once a logout token that names a provider session has been answered, no gate
\* session of it is left and none appears.
THEOREM LoggedOutIsOut == Spec => []LoggedOutStaysOut
<1>1. EndInv => LoggedOutStaysOut
  BY DEF EndInv
<1> QED BY <1>1, EndStart, EndStep, PTL DEF Spec

\* Once the revocation of a subject has been answered, no session of it is left,
\* 2.x ones included, until it signs in again.
THEOREM RevokedIsOut == Spec => []RevokedSubjectIsOut
<1>1. EndInv => RevokedSubjectIsOut
  BY DEF EndInv
<1> QED BY <1>1, EndStart, EndStep, PTL DEF Spec

\* A logout token that names a provider session ends no session of another one
\* that is live.
THEOREM OthersAreSpared == Spec => OtherDevicesStay
<1>1. TypeInv /\ [Next]_vars =>
        [loggedOut' # loggedOut =>
           \A i \in Live : sessions[i].sid \in live => sessions'[i] # None]_vars
  <2> SUFFICES ASSUME TypeInv, [Next]_vars, loggedOut' # loggedOut,
                      NEW i \in Live, sessions[i].sid \in live
               PROVE  sessions'[i] # None
    OBVIOUS
  <2>1. TypeOK /\ i \in Ids
    BY DEF TypeInv, Live
  <2>2. PICK sid \in Sids, hasSid \in BOOLEAN, hasSub \in BOOLEAN :
               BackchannelLogout(sid, hasSid, hasSub)
    <3>1. ~Gating /\ ~UNCHANGED vars
      BY DEF Gating, vars, ghost
    <3>2. ASSUME NEW w \in Workers PROVE ~Start(w)
      BY DEF Start, StartLogin, StartCallback, ghost
    <3>3. ASSUME NEW w \in Workers
          PROVE  ~Ensure(w) /\ ~Register(w) /\ ~Discover(w) /\ ~EnsureFails(w)
                 /\ ~TakeFlow(w) /\ ~ExchangeFails(w)
      BY DEF Ensure, Register, Discover, EnsureFails, TakeFlow, ExchangeFails, ghost
    <3>4. ASSUME NEW w \in Workers PROVE ~Work(w)
      BY <3>3 DEF Work, SendToProvider, Exchange, CreateSession, ghost
    <3>5. /\ \A st \in States : ~FlowExpires(st)
          /\ \A s \in Sids : ~ProviderLogout(s)
          /\ \A c \in Configs : ~Restart(c)
      BY DEF FlowExpires, ProviderLogout, Restart, ghost
    <3> QED BY <3>1, <3>2, <3>4, <3>5 DEF Next
  <2>3. hasSid /\ sid \notin live
    BY <2>2 DEF BackchannelLogout
  <2>4. sessions[i].sid # None /\ sessions[i].sid # sid /\ sid # None
    BY <2>1, <2>3, GateAssumption DEF TypeOK
  <2>5. ~Matches(sid, IF hasSub THEN OwnerOf[sid] ELSE None, sessions[i])
    BY <2>4 DEF Matches
  <2>6. sessions'[i] = sessions[i]
    BY <2>1, <2>2, <2>3, <2>5, EndType DEF BackchannelLogout
  <2> QED BY <2>6 DEF Live
<1> QED BY <1>1, InitTypeInv, TypeStep, PTL DEF Spec, OtherDevicesStay

=============================================================================
