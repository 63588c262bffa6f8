------------------------- MODULE AuthorizationProofs ------------------------
(***************************************************************************)
(* Theorems about the way from a consent to its code, and on to the tokens,*)
(* for every value of the constants.  A step of the token endpoint is a    *)
(* step of BrokerTokens, so its invariants carry over; what is new is      *)
(* about requests, tabs and registrations.                                 *)
(***************************************************************************)
EXTENDS AuthorizationProperties, RevocationProofs

\* The fields a tab uses have been set by the steps before it.
TabsOK ==
    \A x \in Tabs :
      /\ OnPage(x, "idle") <=> tab[x].id = None
      /\ tab[x].id # None => asked[tab[x].id] # None
      /\ OnPage(x, "remove") =>
           tab[x].code \in Codes /\ answers[tab[x].code] = tab[x].id

\* Codes come from requests that were validated.
Answered ==
    /\ \A r \in Requests : request[r] # 0 => asked[r] # None
    /\ \A r \in Requests : asked[r] # None => asked[r] \in Registered
    /\ \A k \in Codes : authz[k] = None <=> answers[k] = None
    /\ \A k \in Codes : answers[k] # None => asked[answers[k]] # None

\* A request nothing has disturbed is in one tab at most; once a code has been
\* minted for it, the request is gone or that tab is about to remove it.
OneTab ==
    \A r \in Requests : r \notin disturbed =>
      /\ \A x, y \in Tabs : tab[x].id = r /\ tab[y].id = r => x = y
      /\ \A k \in Codes : answers[k] = r =>
           /\ request[r] # 0 => \E x \in Tabs : tab[x].id = r
           /\ \A x \in Tabs : tab[x].id = r => OnPage(x, "remove")

ConsentInv == TabsOK /\ Answered /\ OneTab /\ OneCodePerRequest /\ CodeFollowsRequest

AInv == IInv /\ ConsentTypeOK /\ ConsentInv

-----------------------------------------------------------------------------
(* The token endpoint leaves consents alone and at most removes a code.    *)

CodesOnlyLeave ==
    /\ authz' = authz
    /\ \A k \in Codes : file'[k] \in {file[k], None}
    /\ clients' \subseteq clients

\* So does every step of a handler: the only codes it writes are none.
LEMMA WorkKeepsCodes ==
    ASSUME IInv, NEW w \in Workers, Work(w)
    PROVE  CodesOnlyLeave
<1>0. /\ DOMAIN file = Docs
      /\ WellFormed(job[w])
      /\ \A k \in Codes : k \in Docs /\ k \notin Tokens
  BY ConstantsAssumption DEF IInv, TypeOK, JobOK, Docs
<1> USE <1>0 DEF CodesOnlyLeave, disk, ghost
<1>1. CASE ClaimRename(w)
  BY <1>1 DEF ClaimRename
<1>2. CASE ClaimRead(w) \/ CheckCode(w) \/ CheckRefresh(w) \/ IssueForRefresh(w)
           \/ GrantRead(w) \/ GrantWrite(w) \/ Respond(w) \/ RevokeLock(w)
           \/ RevokeUnlock(w) \/ Deleted(w)
  BY <1>2 DEF ClaimRead, CheckCode, CheckRefresh, IssueForRefresh, GrantRead,
              GrantWrite, Respond, RevokeLock, RevokeUnlock, Deleted
<1>3. CASE IssueForCode(w)
  BY <1>3 DEF IssueForCode
<1>4. CASE PutNext(w)
  BY <1>4 DEF PutNext
<1>5. CASE PutBack(w)
  <2>1. job[w].id \in Tokens
    BY <1>5 DEF PutBack, At, WellFormed
  <2> QED BY <1>5, <2>1 DEF PutBack
<1>6. CASE RevokeGet(w)
  BY <1>6 DEF RevokeGet, DropIfExpired
<1>7. CASE DestroyRef(w)
  BY <1>7 DEF DestroyRef
<1>8. CASE Drop(w)
  BY <1>8 DEF Drop
<1>9. CASE ListTokens(w)
  BY <1>9 DEF ListTokens
<1>10. CASE NextToken(w)
  BY <1>10 DEF NextToken, DropIfExpired
<1> QED BY <1>1, <1>2, <1>3, <1>4, <1>5, <1>6, <1>7, <1>8, <1>9, <1>10 DEF Work

\* A step of the token endpoint is a step of BrokerTokens.
LEMMA TokenStepIsNext ==
    ASSUME IInv, TokenStep
    PROVE  Next /\ CodesOnlyLeave
<1>1. CASE \E w \in Workers : Work(w) \/ DiskFault(w)
  BY <1>1, WorkKeepsCodes, FaultDisk DEF Next, CodesOnlyLeave, IInv
<1>2. CASE \E w \in Workers : Start(w)
  <2> PICK w \in Workers : Start(w)
    BY <1>2
  <2>1. UNCHANGED <<authz, file>> /\ clients' \subseteq clients
    BY DEF Start, StartCode, StartRefresh, StartRevoke, StartDelete, disk, ghost
  <2> QED BY <2>1 DEF Next, CodesOnlyLeave
<1>3. CASE \E d \in Docs : SweepExpired(d) \/ SweepClaim(d)
  <2> PICK d \in Docs : SweepExpired(d) \/ SweepClaim(d)
    BY <1>3
  <2>1. /\ UNCHANGED <<authz, clients>>
        /\ file' = file \/ file' = [file EXCEPT ![d] = None]
    BY DEF SweepExpired, SweepClaim, ghost
  <2>2. CodesOnlyLeave
    <3>1. \A k \in Codes : k \in DOMAIN file
      BY DEF IInv, TypeOK, Docs
    <3> QED BY <2>1, <3>1 DEF CodesOnlyLeave
  <2> QED BY <2>2 DEF Next, Environment
<1>4. CASE Tick
  BY <1>4 DEF Tick, CodesOnlyLeave, Next, Environment, disk, ghost
<1> QED BY <1>1, <1>2, <1>3, <1>4 DEF TokenStep

-----------------------------------------------------------------------------
(* The invariant.                                                          *)

\* What changes when one tab moves on.
LEMMA TabStep ==
    ASSUME tab \in [Tabs -> TabRecord], NEW x \in Tabs, NEW t \in TabRecord,
           tab' = [tab EXCEPT ![x] = t]
    PROVE  /\ tab' \in [Tabs -> TabRecord] /\ tab'[x] = t
           /\ \A y \in Tabs : y # x => tab'[y] = tab[y]
OBVIOUS

\* It holds at the start.
LEMMA ConsentStart == AuthInit => AInv
<1> SUFFICES ASSUME AuthInit PROVE AInv
  OBVIOUS
<1>1. IInv
  BY InvStart DEF AuthInit
<1>2. ConsentTypeOK
  BY RequestsAssumption DEF AuthInit, ConsentTypeOK, TabRecord, NoTab
<1>3. TabsOK /\ OneTab
  BY RequestsAssumption DEF AuthInit, TabsOK, OneTab, NoTab, OnPage
<1>4. Answered /\ OneCodePerRequest /\ CodeFollowsRequest
  BY DEF AuthInit, EmptyStore, Answered, OneCodePerRequest, CodeFollowsRequest, Docs
<1> QED BY <1>1, <1>2, <1>3, <1>4 DEF AInv, ConsentInv

\* A code is minted for a client, an account and a binding that exist.
LEMMA PutCodeMints ==
    ASSUME AInv, NEW x \in Tabs, PutCode(x)
    PROVE  Next /\ \E k \in Codes :
             /\ authz[k] = None /\ authz'[k] # None
             /\ \A j \in Codes : j # k => authz'[j] = authz[j] /\ file'[j] = file[j]
             /\ <<file'[k].client, file'[k].bind>> = asked[tab[x].id]
             /\ answers' = [answers EXCEPT ![k] = tab[x].id]
             /\ tab' = [tab EXCEPT ![x] = [tab[x] EXCEPT !.pc = "remove", !.code = k]]
             /\ clients' = clients
<1> DEFINE r == tab[x].id
           c == asked[r][1]
           b == asked[r][2]
<1>1. /\ r \in Requests /\ tab[x].sub \in Accounts
      /\ c \in Clients /\ b \in Bindings /\ asked[r] = <<c, b>>
  <2>1. r \in Requests /\ tab[x].sub \in Accounts /\ asked[r] # None
    BY RequestsAssumption DEF AInv, ConsentInv, ConsentTypeOK, PutCode, OnPage, TabsOK
  <2> QED BY <2>1 DEF AInv, ConsentInv, ConsentTypeOK
<1>2. PICK k \in Codes :
        /\ MintCode(k, c, tab[x].sub, b)
        /\ answers' = [answers EXCEPT ![k] = r]
        /\ tab' = [tab EXCEPT ![x] = [tab[x] EXCEPT !.pc = "remove", !.code = k]]
  BY DEF PutCode, Shows
<1> HIDE DEF r, c, b
<1>3. Next
  BY <1>1, <1>2 DEF Next, Environment
<1>4. /\ authz[k] = None /\ authz'[k] # None
      /\ \A j \in Codes : j # k => authz'[j] = authz[j]
      /\ clients' = clients
  <2>1. [client |-> c, account |-> tab[x].sub] # None
    BY <1>1, NoneAssumption
  <2> QED BY <1>2, <2>1 DEF MintCode, AInv, ConsentInv, IInv, TypeOK
<1>5. /\ \A j \in Codes : j # k => file'[j] = file[j]
      /\ file'[k].client = c /\ file'[k].bind = b
  BY <1>2 DEF MintCode, AInv, ConsentInv, IInv, TypeOK, Stamp, Docs
<1> QED BY <1>1, <1>2, <1>3, <1>4, <1>5 DEF r

\* Every step keeps the token endpoint's invariant.
LEMMA TokensKept == AInv /\ [AuthNext]_allVars => IInv'
<1> SUFFICES ASSUME AInv, [AuthNext]_allVars PROVE IInv'
  OBVIOUS
<1>1. IInv
  BY DEF AInv, ConsentInv
<1>2. CASE TokenStep
  BY <1>1, <1>2, TokenStepIsNext, InvStep
<1>3. CASE Restart
  BY <1>1, <1>3, InvStep DEF Restart, Next, Environment
<1>4. ASSUME NEW x \in Tabs, PutCode(x) PROVE IInv'
  BY <1>1, <1>4, PutCodeMints, InvStep
<1>5. ASSUME NEW c \in Clients, Register(c) PROVE IInv'
  BY <1>1, <1>5 DEF Register, IInv, TypeOK, JobOK, Fresh, Exclusive, Claims,
                    CodesOK, ghost
<1>6. CASE UNCHANGED vars
  BY <1>1, <1>6, InvStep
<1> QED BY <1>2, <1>3, <1>4, <1>5, <1>6
        DEF AuthNext, Authorize, OpenPage, HumanSubject, RemoveRequest,
            SweepRequest, allVars

\* Every step keeps the rest; the cases that matter are the opening of a page,
\* the put of a code and the removal of the request.
LEMMA ConsentKept ==
    AInv /\ [AuthNext]_allVars => ConsentTypeOK' /\ ConsentInv'
<1> SUFFICES ASSUME AInv, [AuthNext]_allVars PROVE ConsentTypeOK' /\ ConsentInv'
  OBVIOUS
<1>a. IInv /\ ConsentTypeOK /\ ConsentInv
  BY DEF AInv, ConsentInv
<1>n. None \notin Requests /\ None \notin Clients \X Bindings
  BY RequestsAssumption
<1> USE DEF ConsentInv
<1>1. ASSUME CodesOnlyLeave, UNCHANGED consent PROVE ConsentTypeOK' /\ ConsentInv'
  <2>1. ConsentTypeOK' /\ TabsOK' /\ Answered'
    BY <1>a, <1>1 DEF CodesOnlyLeave, consent, ConsentTypeOK, TabsOK, OnPage, Answered
  <2>2. OneTab' /\ OneCodePerRequest'
    BY <1>a, <1>1 DEF consent, OneTab, OnPage, OneCodePerRequest
  <2>3. CodeFollowsRequest'
    BY <1>a, <1>1 DEF CodesOnlyLeave, consent, CodeFollowsRequest
  <2> QED BY <2>1, <2>2, <2>3
<1>2. CASE TokenStep
  BY <1>a, <1>1, <1>2, TokenStepIsNext DEF TokenStep
<1>3. CASE UNCHANGED allVars
  BY <1>1, <1>3 DEF allVars, vars, disk, ghost, CodesOnlyLeave
<1>4. ASSUME NEW c \in Clients, Register(c) PROVE ConsentTypeOK' /\ ConsentInv'
  <2>1. ConsentTypeOK' /\ TabsOK' /\ Answered'
    BY <1>a, <1>4 DEF Register, ghost, ConsentTypeOK, TabsOK, OnPage, Answered
  <2>2. OneTab' /\ OneCodePerRequest' /\ CodeFollowsRequest'
    BY <1>a, <1>4 DEF Register, OneTab, OnPage, OneCodePerRequest, CodeFollowsRequest
  <2> QED BY <2>1, <2>2
<1>5. ASSUME NEW r \in Requests, NEW c \in Clients, NEW b \in Bindings,
             Authorize(r, c, b)
      PROVE  ConsentTypeOK' /\ ConsentInv'
  <2>1. /\ asked[r] = None /\ <<c, b>> \in Registered
        /\ asked' = [asked EXCEPT ![r] = <<c, b>>]
        /\ request' = [request EXCEPT ![r] = now + RequestTTL]
        /\ UNCHANGED <<authz, file, clients, tab, drawn, answers, delivered, disturbed>>
    BY <1>5 DEF Authorize, Allowed, vars, disk, ghost
  <2>2. now + RequestTTL \in Nat
    BY <1>a, RequestsAssumption DEF IInv, TypeOK
  <2>3. <<c, b>> # None
    BY <1>n
  <2>4. ConsentTypeOK'
    BY <1>a, <2>1, <2>2 DEF ConsentTypeOK
  <2>5. /\ \A s \in Requests : s # r => asked'[s] = asked[s] /\ request'[s] = request[s]
        /\ asked'[r] = <<c, b>>
    BY <1>a, <2>1 DEF ConsentTypeOK
  <2>6. TabsOK' /\ Answered'
    BY <1>a, <2>1, <2>3, <2>5 DEF TabsOK, OnPage, Answered, ConsentTypeOK
  <2>7. \A k \in Codes : answers[k] # r
    BY <1>a, <1>n, <2>1 DEF Answered
  <2>8. OneTab' /\ OneCodePerRequest'
    BY <1>a, <2>1, <2>5, <2>7 DEF OneTab, OnPage, OneCodePerRequest
  <2>9. CodeFollowsRequest'
    BY <1>a, <2>1, <2>5, <2>7 DEF CodeFollowsRequest, ConsentTypeOK
  <2> QED BY <2>4, <2>6, <2>8, <2>9
<1>6. ASSUME NEW x \in Tabs, NEW r \in Requests, OpenPage(x, r)
      PROVE  ConsentTypeOK' /\ ConsentInv'
  <2>1. /\ tab[x].pc = "idle" /\ request[r] # 0
        /\ tab' = [tab EXCEPT ![x] = [NoTab EXCEPT !.pc = "human", !.id = r]]
        /\ disturbed' = IF \E y \in Tabs : tab[y].id = r
                        THEN disturbed \cup {r} ELSE disturbed
        /\ UNCHANGED <<authz, file, clients, request, drawn, asked, answers, delivered>>
    BY <1>6 DEF OpenPage, OnPage, Pending, Shows, vars, disk, ghost
  <2>2. /\ tab'[x].pc = "human" /\ tab'[x].id = r
        /\ \A y \in Tabs : y # x => tab'[y] = tab[y]
        /\ tab' \in [Tabs -> TabRecord]
    BY <1>a, <2>1 DEF ConsentTypeOK, TabRecord, NoTab
  <2>3. ConsentTypeOK'
    BY <1>a, <2>1, <2>2 DEF ConsentTypeOK
  <2>4. TabsOK' /\ Answered'
    BY <1>a, <1>n, <2>1, <2>2 DEF TabsOK, OnPage, Answered
  <2>5. disturbed \subseteq disturbed'
    BY <2>1
  <2>6. OneTab'
    <3> SUFFICES ASSUME NEW s \in Requests, s \notin disturbed'
                 PROVE  /\ \A y, z \in Tabs : tab'[y].id = s /\ tab'[z].id = s => y = z
                        /\ \A k \in Codes : answers[k] = s =>
                             /\ request[s] # 0 => \E y \in Tabs : tab'[y].id = s
                             /\ \A y \in Tabs : tab'[y].id = s => tab'[y].pc = "remove"
      BY <2>1 DEF OneTab, OnPage
    <3>1. CASE s = r
      BY <1>a, <2>1, <2>2, <2>5, <3>1 DEF OneTab
    <3>2. CASE s # r
      <4>1. tab[x].id # s
        BY <1>a, <1>n, <2>1 DEF TabsOK, OnPage
      <4> QED BY <1>a, <2>2, <2>5, <3>2, <4>1 DEF OneTab, OnPage
    <3> QED BY <3>1, <3>2
  <2>7. OneCodePerRequest' /\ CodeFollowsRequest'
    BY <1>a, <2>1, <2>5 DEF OneCodePerRequest, CodeFollowsRequest
  <2> QED BY <2>3, <2>4, <2>6, <2>7
<1>7. ASSUME NEW x \in Tabs, HumanSubject(x) PROVE ConsentTypeOK' /\ ConsentInv'
  <2>1. /\ tab[x].pc = "human"
        /\ \/ \E a \in Accounts : tab' = [tab EXCEPT ![x] = [tab[x] EXCEPT !.pc = "put", !.sub = a]]
           \/ tab' = [tab EXCEPT ![x] = NoTab]
        /\ UNCHANGED <<authz, file, clients, request, drawn, asked, answers, delivered, disturbed>>
    BY <1>7 DEF HumanSubject, OnPage, Shows, vars, disk, ghost
  <2>2. /\ tab' \in [Tabs -> TabRecord]
        /\ \A y \in Tabs : y # x => tab'[y] = tab[y]
        /\ \/ tab'[x].pc = "put" /\ tab'[x].id = tab[x].id /\ tab'[x].sub \in Accounts
           \/ tab'[x].pc = "idle" /\ tab'[x].id = None
    <3>1. NoTab \in TabRecord /\ NoTab.pc = "idle" /\ NoTab.id = None
      BY DEF NoTab, TabRecord
    <3>2. ASSUME NEW a \in Accounts
          PROVE  LET t == [tab[x] EXCEPT !.pc = "put", !.sub = a] IN
                   /\ t \in TabRecord
                   /\ t.pc = "put" /\ t.id = tab[x].id /\ t.sub = a
      BY <1>a DEF ConsentTypeOK, TabRecord
    <3>3. tab \in [Tabs -> TabRecord]
      BY <1>a DEF ConsentTypeOK
    <3>4. CASE tab' = [tab EXCEPT ![x] = NoTab]
      BY <3>1, <3>3, <3>4, TabStep
    <3>5. ASSUME NEW a \in Accounts,
                 tab' = [tab EXCEPT ![x] = [tab[x] EXCEPT !.pc = "put", !.sub = a]]
          PROVE  /\ tab' \in [Tabs -> TabRecord]
                 /\ \A y \in Tabs : y # x => tab'[y] = tab[y]
                 /\ tab'[x].pc = "put" /\ tab'[x].id = tab[x].id /\ tab'[x].sub \in Accounts
      <4> DEFINE t == [tab[x] EXCEPT !.pc = "put", !.sub = a]
      <4>1. t \in TabRecord /\ t.pc = "put" /\ t.id = tab[x].id /\ t.sub = a
        BY <3>2
      <4>2. tab' = [tab EXCEPT ![x] = t]
        BY <3>5
      <4> HIDE DEF t
      <4> QED BY <3>3, <4>1, <4>2, TabStep
    <3> QED BY <2>1, <3>4, <3>5
  <2>3. ConsentTypeOK'
    BY <1>a, <2>1, <2>2 DEF ConsentTypeOK
  <2>4. TabsOK' /\ Answered'
    <3>1. tab[x].id # None
      BY <1>a, <2>1 DEF TabsOK, OnPage
    <3>2. tab[x].id \in Requests /\ asked[tab[x].id] # None
      BY <1>a, <2>1, <3>1 DEF TabsOK, ConsentTypeOK
    <3>3. /\ tab'[x].pc = "idle" <=> tab'[x].id = None
          /\ tab'[x].id # None => asked[tab'[x].id] # None
          /\ tab'[x].pc # "remove"
      BY <1>n, <2>2, <3>2
    <3>4. TabsOK'
      BY <1>a, <2>1, <2>2, <3>3 DEF TabsOK, OnPage
    <3> QED BY <1>a, <2>1, <3>4 DEF Answered
  <2>5. OneTab'
    <3>1. ASSUME NEW s \in Requests, s \notin disturbed, NEW k \in Codes, answers[k] = s
          PROVE  tab[x].id # s
      BY <1>a, <2>1, <3>1 DEF OneTab, OnPage
    <3>2. ASSUME NEW y \in Tabs, NEW s \in Requests, tab'[y].id = s
          PROVE  tab[y].id = s
      BY <1>n, <2>2, <3>2
    <3> SUFFICES ASSUME NEW s \in Requests, s \notin disturbed
                 PROVE  /\ \A y, z \in Tabs : tab'[y].id = s /\ tab'[z].id = s => y = z
                        /\ \A k \in Codes : answers[k] = s =>
                             /\ request[s] # 0 => \E y \in Tabs : tab'[y].id = s
                             /\ \A y \in Tabs : tab'[y].id = s => tab'[y].pc = "remove"
      BY <2>1 DEF OneTab, OnPage
    <3>3. \A y, z \in Tabs : tab'[y].id = s /\ tab'[z].id = s => y = z
      BY <1>a, <3>2 DEF OneTab
    <3>4. ASSUME NEW k \in Codes, answers[k] = s
          PROVE  /\ request[s] # 0 => \E y \in Tabs : tab'[y].id = s
                 /\ \A y \in Tabs : tab'[y].id = s => tab'[y].pc = "remove"
      <4>1. tab[x].id # s
        BY <3>1, <3>4
      <4>2. /\ request[s] # 0 => \E y \in Tabs : tab[y].id = s
            /\ \A y \in Tabs : tab[y].id = s => tab[y].pc = "remove"
        BY <1>a, <3>4 DEF OneTab, OnPage
      <4>3. \A y \in Tabs : tab'[y].id = s => y # x
        BY <3>2, <4>1
      <4> QED BY <2>2, <3>2, <4>1, <4>2, <4>3
    <3> QED BY <3>3, <3>4
  <2>6. OneCodePerRequest' /\ CodeFollowsRequest'
    BY <1>a, <2>1 DEF OneCodePerRequest, CodeFollowsRequest
  <2> QED BY <2>3, <2>4, <2>5, <2>6
<1>8. ASSUME NEW x \in Tabs, PutCode(x) PROVE ConsentTypeOK' /\ ConsentInv'
  <2>1. PICK k \in Codes :
             /\ authz[k] = None /\ authz'[k] # None
             /\ \A j \in Codes : j # k => authz'[j] = authz[j] /\ file'[j] = file[j]
             /\ <<file'[k].client, file'[k].bind>> = asked[tab[x].id]
             /\ answers' = [answers EXCEPT ![k] = tab[x].id]
             /\ tab' = [tab EXCEPT ![x] = [tab[x] EXCEPT !.pc = "remove", !.code = k]]
             /\ clients' = clients
    BY <1>8, PutCodeMints
  <2>2. /\ tab[x].pc = "put"
        /\ UNCHANGED <<request, drawn, asked, delivered, disturbed>>
    BY <1>8 DEF PutCode, OnPage
  <2> DEFINE r == tab[x].id
  <2>3. r \in Requests /\ asked[r] # None /\ asked[r] \in Registered
    BY <1>a, <1>n, <2>2 DEF ConsentTypeOK, TabsOK, Answered
  <2>4. /\ answers'[k] = r /\ answers[k] = None
        /\ \A j \in Codes : j # k => answers'[j] = answers[j]
    BY <1>a, <2>1 DEF ConsentTypeOK, Answered
  <2>5. /\ tab' \in [Tabs -> TabRecord]
        /\ tab'[x].pc = "remove" /\ tab'[x].id = r /\ tab'[x].code = k
        /\ \A y \in Tabs : y # x => tab'[y] = tab[y]
    <3> DEFINE t == [tab[x] EXCEPT !.pc = "remove", !.code = k]
    <3>1. t \in TabRecord /\ t.pc = "remove" /\ t.id = r /\ t.code = k
      BY <1>a DEF ConsentTypeOK, TabRecord
    <3>2. tab' = [tab EXCEPT ![x] = t] /\ tab \in [Tabs -> TabRecord]
      BY <1>a, <2>1 DEF ConsentTypeOK
    <3> HIDE DEF t
    <3> QED BY <3>1, <3>2, TabStep
  <2>6. ConsentTypeOK'
    <3>1. answers' \in [Codes -> Requests \cup {None}]
      BY <1>a, <2>1, <2>3 DEF ConsentTypeOK
    <3> HIDE DEF r
    <3> QED BY <1>a, <2>1, <2>2, <2>3, <2>5, <3>1 DEF ConsentTypeOK
  <2> HIDE DEF r
  <2>7. TabsOK'
    <3>1. \A y \in Tabs : tab[y].pc = "remove" => tab[y].code # k
      BY <1>a, <1>n, <2>4 DEF TabsOK, OnPage, ConsentTypeOK
    <3> QED BY <1>a, <1>n, <2>2, <2>3, <2>4, <2>5, <3>1 DEF TabsOK, OnPage
  <2>8. Answered'
    BY <1>a, <1>n, <2>1, <2>2, <2>3, <2>4 DEF Answered
  <2>9. r \notin disturbed => \A j \in Codes : answers[j] # r
    BY <1>a, <2>2, <2>3 DEF OneTab, OnPage, r
  <2>10. OneTab'
    BY <1>a, <2>2, <2>3, <2>4, <2>5 DEF OneTab, OnPage, r
  <2>11. OneCodePerRequest'
    BY <1>a, <2>2, <2>4, <2>9 DEF OneCodePerRequest
  <2>12. CodeFollowsRequest'
    BY <1>a, <1>n, <2>1, <2>2, <2>3, <2>4 DEF CodeFollowsRequest, r
  <2> QED BY <2>6, <2>7, <2>8, <2>10, <2>11, <2>12
<1>9. ASSUME NEW x \in Tabs, RemoveRequest(x) PROVE ConsentTypeOK' /\ ConsentInv'
  <2> DEFINE r == tab[x].id
  <2>1. /\ tab[x].pc = "remove"
        /\ \/ request' = [request EXCEPT ![r] = 0] /\ disturbed' = disturbed
           \/ request' = request /\ disturbed' = disturbed \cup {r}
        /\ delivered' \in {delivered \cup {tab[x].code}, delivered}
        /\ tab' = [tab EXCEPT ![x] = NoTab]
        /\ UNCHANGED <<authz, file, clients, drawn, asked, answers>>
    BY <1>9 DEF RemoveRequest, Removed, OnPage, Shows, vars, disk, ghost
  <2>2. r \in Requests /\ tab[x].code \in Codes
    BY <1>a, <2>1 DEF ConsentTypeOK, TabsOK, OnPage
  <2>3. /\ tab' \in [Tabs -> TabRecord]
        /\ tab'[x].pc = "idle" /\ tab'[x].id = None
        /\ \A y \in Tabs : y # x => tab'[y] = tab[y]
    BY <1>a, <2>1 DEF ConsentTypeOK, TabRecord, NoTab
  <2> HIDE DEF r
  <2>4. /\ request' \in [Requests -> Nat]
        /\ \A s \in Requests : s # r => request'[s] = request[s]
        /\ r \in disturbed' \/ request'[r] = 0
        /\ \A s \in Requests : request'[s] # 0 => request[s] # 0
    BY <1>a, <2>1, <2>2 DEF ConsentTypeOK
  <2>5. disturbed \subseteq disturbed' /\ disturbed' \subseteq disturbed \cup {r}
    BY <2>1
  <2>6. ConsentTypeOK'
    BY <1>a, <2>1, <2>2, <2>3, <2>4, <2>5 DEF ConsentTypeOK
  <2>7. TabsOK' /\ Answered'
    BY <1>a, <1>n, <2>1, <2>3, <2>4 DEF TabsOK, OnPage, Answered
  <2>8. OneTab'
    BY <1>a, <1>n, <2>1, <2>2, <2>3, <2>4, <2>5 DEF OneTab, OnPage, r
  <2>9. OneCodePerRequest' /\ CodeFollowsRequest'
    BY <1>a, <2>1, <2>5 DEF OneCodePerRequest, CodeFollowsRequest
  <2> QED BY <2>6, <2>7, <2>8, <2>9
<1>10. ASSUME NEW r \in Requests, SweepRequest(r) PROVE ConsentTypeOK' /\ ConsentInv'
  <2>1. /\ request' = [request EXCEPT ![r] = 0]
        /\ UNCHANGED <<authz, file, clients, tab, drawn, asked, answers, delivered, disturbed>>
    BY <1>10 DEF SweepRequest, Removed, vars, disk, ghost
  <2>2. /\ request' \in [Requests -> Nat]
        /\ \A s \in Requests : request'[s] # 0 => request[s] # 0
    BY <1>a, <2>1 DEF ConsentTypeOK
  <2>3. ConsentTypeOK' /\ TabsOK' /\ Answered'
    BY <1>a, <2>1, <2>2 DEF ConsentTypeOK, TabsOK, OnPage, Answered
  <2>4. OneTab' /\ OneCodePerRequest' /\ CodeFollowsRequest'
    BY <1>a, <2>1, <2>2 DEF OneTab, OnPage, OneCodePerRequest, CodeFollowsRequest
  <2> QED BY <2>3, <2>4
<1>11. CASE Restart
  <2>1. /\ tab' = [y \in Tabs |-> NoTab]
        /\ disturbed' = disturbed \cup {tab[y].id : y \in {z \in Tabs : tab[z].pc = "remove"}}
        /\ UNCHANGED <<authz, file, clients, request, drawn, asked, answers, delivered>>
    BY <1>11 DEF Restart, Crash, OnPage, disk, ghost
  <2>2. \A y \in Tabs : tab'[y].pc = "idle" /\ tab'[y].id = None
    BY <2>1 DEF NoTab
  <2>3. disturbed \subseteq disturbed' /\ disturbed' \subseteq Requests
    BY <1>a, <2>1 DEF ConsentTypeOK
  <2>4. tab' \in [Tabs -> TabRecord]
    BY <2>1 DEF NoTab, TabRecord
  <2>5. ConsentTypeOK'
    BY <1>a, <2>1, <2>2, <2>3, <2>4 DEF ConsentTypeOK
  <2>6. TabsOK' /\ Answered'
    BY <1>a, <1>n, <2>1, <2>2 DEF TabsOK, OnPage, Answered
  <2>7. OneTab'
    <3> SUFFICES ASSUME NEW s \in Requests, s \notin disturbed',
                        NEW k \in Codes, answers[k] = s
                 PROVE  request[s] = 0
      BY <1>n, <2>1, <2>2 DEF OneTab
    <3>1. \A y \in Tabs : tab[y].id # s
      BY <1>a, <2>1, <2>3 DEF OneTab, OnPage
    <3> QED BY <1>a, <2>3, <3>1 DEF OneTab
  <2>8. OneCodePerRequest' /\ CodeFollowsRequest'
    BY <1>a, <2>1, <2>3 DEF OneCodePerRequest, CodeFollowsRequest
  <2> QED BY <2>5, <2>6, <2>7, <2>8
<1> QED
  BY <1>2, <1>3, <1>4, <1>5, <1>6, <1>7, <1>8, <1>9, <1>10, <1>11 DEF AuthNext

-----------------------------------------------------------------------------
(* The theorems.                                                           *)

LEMMA ConsentInvariance == AuthSpec => []AInv
<1>1. AInv /\ [AuthNext]_allVars => AInv'
  BY TokensKept, ConsentKept DEF AInv, ConsentInv
<1> QED BY <1>1, ConsentStart, PTL DEF AuthSpec

\* Requests, tabs and codes are well typed, and no page gets as far as storing a
\* code without an account (humanSubject, handleInteraction).
THEOREM ConsentTypes == AuthSpec => []ConsentTypeOK
<1>1. AInv => ConsentTypeOK
  BY DEF AInv, ConsentInv
<1> QED BY <1>1, ConsentInvariance, PTL

\* However many tabs and restarts there are, a request that was not open twice
\* at once and was removed when it was answered yields one code
\* (handleInteraction).
THEOREM OneConsentOneCode == AuthSpec => []OneCodePerRequest
<1>1. AInv => OneCodePerRequest
  BY DEF AInv, ConsentInv
<1> QED BY <1>1, ConsentInvariance, PTL

\* A code names what its request was validated for (handleAuthorize).
THEOREM CodeKeepsItsRequest == AuthSpec => []CodeFollowsRequest
<1>1. AInv => CodeFollowsRequest
  BY DEF AInv, ConsentInv
<1> QED BY <1>1, ConsentInvariance, PTL

\* With registrations and consents going on, a code still yields tokens at most
\* once (claim).
THEOREM ConsentedCodeIsSingleUse == AuthSpec => []CodeRedeemedOnce
<1>1. AInv => CodeRedeemedOnce
  BY DEF AInv, ConsentInv, IInv, CodesOK, CodeRedeemedOnce
<1> QED BY <1>1, ConsentInvariance, PTL

-----------------------------------------------------------------------------
(* What the token endpoint promises, with registrations and consents going *)
(* on.  The invariants are those of RevocationProofs.                      *)

\* A step is one of the token endpoint, a registration, or nobody's there.
LEMMA StepKinds ==
    ASSUME AInv, [AuthNext]_allVars PROVE [Next]_vars \/ \E c \in Clients : Register(c)
<1>1. TokenStep => Next
  BY TokenStepIsNext DEF AInv, ConsentInv
<1>2. Restart => Next
  BY DEF Restart, Next, Environment
<1>3. \A x \in Tabs : PutCode(x) => Next
  BY PutCodeMints
<1> QED BY <1>1, <1>2, <1>3 DEF AuthNext, Authorize, OpenPage, HumanSubject, RemoveRequest,
           SweepRequest, allVars

\* A registration changes nothing a token depends on.
LEMMA RegisterKeepsTokens ==
    ASSUME NEW c \in Clients, Register(c), IInv'
    PROVE  /\ GrantInv => GrantInv'
           /\ RInv => RInv'
<1>1. /\ UNCHANGED <<now, file, claimFile, index, grantMu, job, failures, authz, grantOf, held,
                    redeemed, rotatedAt, answered>>
  BY DEF Register, ghost
<1>2. ASSUME GrantInv PROVE GrantInv'
  <2>1. PICK f \in [Codes -> Nat] : CopiesRight(f)
    BY <1>2 DEF GrantInv
  <2>2. CopiesRight(f)'
    BY <1>1, <2>1 DEF CopiesRight, Right
  <2> QED BY <1>1, <1>2, <2>2 DEF GrantInv, Drawn
<1>3. ASSUME RInv PROVE RInv'
  <2>1. MuInv'
    BY <1>1, <1>3 DEF RInv, MuInv
  <2>2. RevInv'
    BY <1>1, <1>3, NobodyRev
  <2> QED BY <1>2, <1>3, <2>1, <2>2 DEF RInv
<1> QED BY <1>2, <1>3

\* A refresh token descends from a consent: whatever is registered, asked, answered,
\* restarted, redeemed, rotated and revoked, one on disk names the client and the
\* account of the consent its grant was minted for (PutCode, issue).
THEOREM TokensFollowConsent == AuthSpec => []BoundToAuthorization
<1>1. AInv /\ GrantInv /\ [AuthNext]_allVars => AInv' /\ GrantInv'
  <2> SUFFICES ASSUME AInv, GrantInv, [AuthNext]_allVars PROVE AInv' /\ GrantInv'
    OBVIOUS
  <2>1. AInv' /\ IInv'
    BY TokensKept, ConsentKept DEF AInv, ConsentInv
  <2> QED BY <2>1, StepKinds, RegisterKeepsTokens, GrantStep
<1>2. AuthInit => AInv /\ GrantInv
  BY ConsentStart, GrantEmpty DEF AuthInit
<1>3. GrantInv => BoundToAuthorization
  BY DEF GrantInv, CopiesRight, Right, BoundToAuthorization, Docs
<1> QED BY <1>1, <1>2, <1>3, PTL DEF AuthSpec

\* An id is registered once.
IdsDrawn ==
    /\ clients \subseteq drawn
    /\ \A c \in Clients : c \in answered => c \in drawn
    /\ \A w \in Workers : job[w].op = "delete" => job[w].client \in drawn

AuthInv == AInv /\ RInv /\ DInv /\ IdsDrawn

\* Every step keeps it, on a disk without errors, while revocations and deletions
\* are alone with what they remove.
LEMMA AuthKeeps ==
    ASSUME MaxFaults = 0, AuthInv, RevokesAlone, DeletesAlone, [AuthNext]_allVars
    PROVE  AuthInv'
<1>1. AInv' /\ IInv' /\ AInv
  BY TokensKept, ConsentKept DEF AuthInv, AInv, ConsentInv
<1>2. CASE [Next]_vars /\ drawn' = drawn
  <2>1. RInv' /\ DInv'
    BY <1>2, RevStep, DelStep DEF AuthInv
  <2>2. /\ clients' \subseteq clients
        /\ \A c \in answered' : c \in answered \/ c \in Codes \/
             \E w \in Workers : job[w].op = "delete" /\ job[w].client = c
        /\ \A w \in Workers : job'[w].op = "delete" =>
             job'[w].client \in clients \/ (job[w].op = "delete" /\ job'[w].client = job[w].client)
    BY <1>2, OnlyKnownClients DEF AuthInv, DInv, IInv
  <2>3. IdsDrawn'
    BY <1>2, <2>2, ConstantsAssumption DEF AuthInv, IdsDrawn
  <2> QED BY <1>1, <2>1, <2>3 DEF AuthInv
<1>3. ASSUME NEW c \in Clients, Register(c) PROVE AuthInv'
  <2>1. /\ UNCHANGED <<now, file, job, answered>> /\ c \notin drawn
        /\ clients' = clients \cup {c} /\ drawn' = drawn \cup {c}
    BY <1>3 DEF Register, ghost
  <2>2. RInv'
    BY <1>1, <1>3, RegisterKeepsTokens DEF AuthInv
  <2>3. IdsDrawn'
    BY <2>1 DEF AuthInv, IdsDrawn
  <2>4. DInv'
    <3>1. \A w \in Workers : Own(job'[w])
      BY <2>1 DEF AuthInv, DInv, DelInv
    <3>2. Leaving' = Leaving
      BY <2>1 DEF Leaving
    <3>3. c \notin answered /\ \A w \in Workers : job[w].op = "delete" => job[w].client # c
      BY <2>1 DEF AuthInv, IdsDrawn
    <3>4. Barred'
      BY <2>1, <3>2, <3>3 DEF AuthInv, DInv, DelInv, Barred
    <3>5. Swept'
      BY <2>1 DEF AuthInv, DInv, DelInv, Swept, Live, Expired
    <3> QED BY <1>1, <3>1, <3>4, <3>5 DEF DInv, DelInv
  <2> QED BY <1>1, <2>2, <2>3, <2>4 DEF AuthInv
<1>4. drawn' = drawn \/ \E c \in Clients : Register(c)
  BY DEF AuthNext, Authorize, OpenPage, HumanSubject, PutCode, RemoveRequest,
     SweepRequest, Restart, TokenStep, consent, allVars
<1> QED BY <1>1, <1>2, <1>3, <1>4, StepKinds

\* It holds of the empty store.
LEMMA AuthStart == AuthInit => AuthInv
<1> SUFFICES ASSUME AuthInit PROVE AuthInv
  OBVIOUS
<1>1. EmptyStore /\ clients \subseteq Clients /\ clients = {}
  BY DEF AuthInit
<1>2. AInv /\ RInv /\ DInv
  BY <1>1, ConsentStart, RevEmpty, DelEmpty
<1>3. IdsDrawn
  BY <1>1, IdleOwn DEF EmptyStore, IdsDrawn
<1> QED BY <1>2, <1>3 DEF AuthInv

\* So with registrations and consents going on, too, revocation and deletion keep
\* their promises whenever they are alone with what they remove.
THEOREM AloneKeepsPromises ==
    ASSUME MaxFaults = 0
    PROVE  AuthSpec /\ [](RevokesAlone /\ DeletesAlone) =>
             [](IndexCoversHeld /\ RevokedGrantIsGone /\ DeletedClientLeavesNoToken)
<1>1. AuthInv /\ RevokesAlone /\ DeletesAlone /\ [AuthNext]_allVars => AuthInv'
  BY AuthKeeps
<1>2. AuthInv => IndexCoversHeld /\ RevokedGrantIsGone /\ DeletedClientLeavesNoToken
  BY RevMeaning DEF AuthInv, DInv, DelInv, Swept, DeletedClientLeavesNoToken
<1> QED BY <1>1, <1>2, AuthStart, PTL DEF AuthSpec

\* A server that handles one request at a time always is, however often it is
\* killed, and whatever it serves.
THEOREM OneRequestAtATime ==
    ASSUME MaxFaults = 0, \A v, w \in Workers : v = w
    PROVE  AuthSpec =>
             [](IndexCoversHeld /\ RevokedGrantIsGone /\ DeletedClientLeavesNoToken)
<1>1. AuthInv /\ [AuthNext]_allVars => AuthInv'
  BY OneWorkerRevokesAlone, OneWorkerDeletesAlone, AuthKeeps DEF AuthInv, DInv, IInv
<1>2. AuthInv => IndexCoversHeld /\ RevokedGrantIsGone /\ DeletedClientLeavesNoToken
  BY RevMeaning DEF AuthInv, DInv, DelInv, Swept, DeletedClientLeavesNoToken
<1> QED BY <1>1, <1>2, AuthStart, PTL DEF AuthSpec

=============================================================================
