---------------------------- MODULE Authorization ---------------------------
(***************************************************************************)
(* From a client's registration to the code it redeems: handleRegister,    *)
(* handleAuthorize and handleInteraction (internal/broker/client.go,       *)
(* broker.go), composed with the token endpoint of BrokerTokens, whose     *)
(* MintCode is the end of an interaction here.                             *)
(*                                                                         *)
(* An interaction page is served by a goroutine of its own, a Tab here; it *)
(* shares the directory of documents with the token endpoint.  A request's *)
(* document never changes: asked is what it says, request when it expires. *)
(***************************************************************************)
EXTENDS BrokerTokens

CONSTANTS
    Requests,     \* ids of authorization requests
    Tabs,         \* goroutines serving an interaction page
    Registered,   \* clients with the bindings their registration allows: one of
                  \* its redirect_uris, if it may use authorization_code at all
    RequestTTL

ASSUME RequestsAssumption ==
    /\ Registered \subseteq Clients \X Bindings
    /\ RequestTTL \in Nat \ {0}
    /\ None \notin Requests \cup Accounts \cup (Clients \X Bindings)

VARIABLES
    request,    \* when the document of a request expires; 0 = no document
    tab,        \* what each interaction is doing
    \* History.
    drawn,      \* client ids that have been handed out
    asked,      \* the client and binding a request was validated for
    answers,    \* the request a code was minted for
    delivered,  \* codes that have reached a browser in a redirect
    disturbed   \* requests open in two tabs at once, or not removed when answered

consent == <<request, tab, drawn, asked, answers, delivered, disturbed>>
allVars == <<vars, consent>>

NoTab == [pc |-> "idle", id |-> None, sub |-> None, code |-> None]

TabRecord == [pc: {"idle", "human", "put", "remove"}, id: Requests \cup {None},
              sub: Accounts \cup {None}, code: Codes \cup {None}]

ConsentTypeOK ==
    /\ request \in [Requests -> Nat]
    /\ tab \in [Tabs -> TabRecord]
    /\ clients \subseteq drawn /\ drawn \subseteq Clients
    /\ asked \in [Requests -> (Clients \X Bindings) \cup {None}]
    /\ answers \in [Codes -> Requests \cup {None}]
    /\ delivered \subseteq Codes
    /\ disturbed \subseteq Requests
    /\ \A x \in Tabs :
         /\ tab[x].pc # "idle" => tab[x].id \in Requests
         /\ tab[x].pc = "put" => tab[x].sub \in Accounts

AuthInit ==
    /\ EmptyStore /\ clients = {}
    /\ request = [r \in Requests |-> 0]
    /\ tab = [x \in Tabs |-> NoTab]
    /\ drawn = {}
    /\ asked = [r \in Requests |-> None]
    /\ answers = [k \in Codes |-> None]
    /\ delivered = {} /\ disturbed = {}

-----------------------------------------------------------------------------
OnPage(x, pc) == tab[x].pc = pc
Shows(x, t)   == tab' = [tab EXCEPT ![x] = t]

OpenTabs == {x \in Tabs : ~OnPage(x, "idle")}

\* Bound: a page opens only if a code is left for it.
CodesLeft ==
    Cardinality({k \in Codes : authz[k] = None}) > Cardinality(OpenTabs)

-----------------------------------------------------------------------------
(* POST /reg, or an administrator: handleRegisterWith puts the client under *)
(* a random id, and then its registration token, which only lets it be read.*)

Register(c) ==
    /\ c \notin drawn
    /\ drawn' = drawn \cup {c}
    /\ clients' = clients \cup {c}
    /\ UNCHANGED <<now, file, claimFile, index, grantMu, job, failures, ghost,
                   request, tab, asked, answers, delivered, disturbed>>

-----------------------------------------------------------------------------
(* GET /auth.                                                              *)

\* Fault: a registered client may name any redirect_uri.
AllowedAny(c, b) == \E a \in Bindings : <<c, a>> \in Registered

\* allowsRedirect and allowsGrant.
Allowed(c, b) == <<c, b>> \in Registered

\* The request is stored for a human to answer.  The client's document is read
\* before; its removal in between is the same as one afterwards.
Authorize(r, c, b) ==
    /\ c \in clients /\ Allowed(c, b)
    /\ asked[r] = None
    /\ asked' = [asked EXCEPT ![r] = <<c, b>>]
    /\ request' = [request EXCEPT ![r] = now + RequestTTL]
    /\ UNCHANGED <<vars, tab, drawn, answers, delivered, disturbed>>

-----------------------------------------------------------------------------
(* GET /interaction/{uid}.                                                 *)

Pending(r) == request[r] # 0 /\ ~(request[r] < now)

\* get() of the request.  One that has expired is removed, as SweepRequest does.
OpenPage(x, r) ==
    /\ OnPage(x, "idle") /\ Pending(r) /\ CodesLeft
    /\ Shows(x, [NoTab EXCEPT !.pc = "human", !.id = r])
    /\ disturbed' = IF \E y \in Tabs : tab[y].id = r
                    THEN disturbed \cup {r} ELSE disturbed
    /\ UNCHANGED <<vars, request, drawn, asked, answers, delivered>>

\* Fault: any session of the gate will do, with or without a subject.
AnySession(x) ==
    /\ OnPage(x, "human")
    /\ \/ \E a \in Accounts \cup {None} :
            Shows(x, [tab[x] EXCEPT !.pc = "put", !.sub = a])
       \/ Shows(x, NoTab)
    /\ UNCHANGED <<vars, request, drawn, asked, answers, delivered, disturbed>>

\* humanSubject(): the account of the browser's session.  Without one, or with a
\* password session, the browser is sent to single sign-on and may come back.
HumanSubject(x) ==
    /\ OnPage(x, "human")
    /\ \/ \E a \in Accounts : Shows(x, [tab[x] EXCEPT !.pc = "put", !.sub = a])
       \/ Shows(x, NoTab)
    /\ UNCHANGED <<vars, request, drawn, asked, answers, delivered, disturbed>>

\* The code is put for what was asked; the client is not looked up again.
PutCode(x) ==
    /\ OnPage(x, "put")
    /\ \E k \in Codes :
         /\ MintCode(k, asked[tab[x].id][1], tab[x].sub, asked[tab[x].id][2])
         /\ answers' = [answers EXCEPT ![k] = tab[x].id]
         /\ Shows(x, [tab[x] EXCEPT !.pc = "remove", !.code = k])
    /\ UNCHANGED <<request, drawn, asked, delivered, disturbed>>

\* Fault: an answered request is left in place.
RemovedNever(r) == request

\* destroy().
Removed(r) == [request EXCEPT ![r] = 0]

\* The request is removed, and an error doing so is ignored; then the browser is
\* redirected, if it is still there.
RemoveRequest(x) ==
    /\ OnPage(x, "remove")
    /\ LET r == tab[x].id IN
         \/ request' = Removed(r) /\ UNCHANGED disturbed
         \/ disturbed' = disturbed \cup {r} /\ UNCHANGED request
    /\ \/ delivered' = delivered \cup {tab[x].code}
       \/ UNCHANGED delivered
    /\ Shows(x, NoTab)
    /\ UNCHANGED <<vars, drawn, asked, answers>>

-----------------------------------------------------------------------------
SweepRequest(r) ==
    /\ request[r] # 0 /\ request[r] < now
    /\ request' = Removed(r)
    /\ UNCHANGED <<vars, tab, drawn, asked, answers, delivered, disturbed>>

\* A restart ends the pages too.
Restart ==
    /\ Crash
    /\ tab' = [x \in Tabs |-> NoTab]
    /\ disturbed' = disturbed \cup {tab[x].id : x \in {y \in Tabs : OnPage(y, "remove")}}
    /\ UNCHANGED <<request, drawn, asked, answers, delivered>>

\* The token endpoint.  A code is presented once a redirect has carried it.
TokenStep ==
    /\ \/ \E w \in Workers : Work(w) \/ DiskFault(w)
       \/ \E w \in Workers : Start(w) /\ job'[w].id \notin Codes \ delivered
       \/ \E d \in Docs : SweepExpired(d) \/ SweepClaim(d)
       \/ Tick
    /\ UNCHANGED consent

AuthNext ==
    \/ \E c \in Clients : Register(c)
    \/ \E r \in Requests, c \in Clients, b \in Bindings : Authorize(r, c, b)
    \/ \E x \in Tabs : HumanSubject(x) \/ PutCode(x) \/ RemoveRequest(x)
    \/ \E x \in Tabs, r \in Requests : OpenPage(x, r)
    \/ \E r \in Requests : SweepRequest(r)
    \/ Restart
    \/ TokenStep

AuthSpec == AuthInit /\ [][AuthNext]_allVars

=============================================================================
