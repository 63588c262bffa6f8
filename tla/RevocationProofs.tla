--------------------------- MODULE RevocationProofs ---------------------------
(***************************************************************************)
(* What grantMu protects, what a revocation reaches and what a client's    *)
(* deletion reaches, for every value of the constants: the read, the       *)
(* append and the write of a grant's index are one step to everybody else; *)
(* a revocation takes every token of the grant that a client holds, and a  *)
(* deletion every live token of the client, when they are alone with what  *)
(* they remove.  A disk error at the index is taken for an empty index and *)
(* does lose references, so the theorems are for a disk without errors.    *)
(***************************************************************************)
EXTENDS GrantProofs

USE DEF Docs

Critical == {"indexing", "destroying"}

\* Whoever is inside holds grantMu, and what addToGrant has read is still what
\* the index says.
MuInv ==
    \A w \in Workers :
      /\ job[w].pc \in Critical => grantMu = w
      /\ job[w].pc = "indexing" => job[w].refs = index[job[w].doc.grant]

Inv == TypeOK /\ JobOK /\ MuInv

-----------------------------------------------------------------------------
\* Steps that leave the mutex and the index alone, and let nobody in.
LEMMA Outside ==
    ASSUME Inv, UNCHANGED <<grantMu, index>>,
           \A v \in Workers : \/ job'[v] = job[v]
                              \/ job'[v].pc \notin Critical
                              \/ job'[v].pc = "destroying" /\ job[v].pc = "destroying"
    PROVE  MuInv'
<1>1. ASSUME NEW v \in Workers
      PROVE  /\ job'[v].pc \in Critical => grantMu' = v
             /\ job'[v].pc = "indexing" => job'[v].refs = index'[job'[v].doc.grant]
  <2>1. CASE job'[v] = job[v]
    BY <2>1 DEF Inv, MuInv
  <2>2. CASE job'[v].pc \notin Critical
    BY <2>2 DEF Critical
  <2>3. CASE job'[v].pc = "destroying" /\ job[v].pc = "destroying"
    BY <2>3 DEF Inv, MuInv, Critical
  <2> QED BY <2>1, <2>2, <2>3
<1> QED BY <1>1 DEF MuInv

\* Such a step of one worker.
LEMMA OneOutside ==
    ASSUME Inv, UNCHANGED <<grantMu, index>>, NEW w \in Workers, NEW j, Become(w, j),
           \/ j.pc \notin Critical
           \/ j.pc = "destroying" /\ job[w].pc = "destroying"
    PROVE  MuInv'
<1>1. job'[w] = j /\ \A v \in Workers \ {w} : job'[v] = job[v]
  BY DEF Become, Inv, TypeOK
<1> QED BY <1>1, Outside

\* Steps that let worker w in: the mutex was free.
LEMMA In ==
    ASSUME Inv, NEW w \in Workers, NEW j, Become(w, j), grantMu = None, grantMu' = w,
           index' = index, j.pc = "indexing" => j.refs = index[j.doc.grant]
    PROVE  MuInv'
<1>1. job'[w] = j /\ \A v \in Workers \ {w} : job'[v] = job[v]
  BY DEF Become, Inv, TypeOK
<1>2. \A v \in Workers : job[v].pc \notin Critical
  BY ConstantsAssumption DEF Inv, MuInv
<1> QED BY <1>1, <1>2 DEF MuInv, Critical

\* Steps that let worker w out: it was alone.
LEMMA Out ==
    ASSUME Inv, NEW w \in Workers, NEW j, Become(w, j), job[w].pc \in Critical,
           j.pc \notin Critical
    PROVE  MuInv'
<1>1. job'[w] = j /\ \A v \in Workers \ {w} : job'[v] = job[v]
  BY DEF Become, Inv, TypeOK
<1>2. \A v \in Workers \ {w} : job[v].pc \notin Critical
  BY DEF Inv, MuInv
<1> QED BY <1>1, <1>2 DEF MuInv, Critical

\* The handlers outside the mutex.
OutsideWork(w) ==
    \/ ClaimRename(w) \/ ClaimRead(w) \/ CheckCode(w) \/ IssueForCode(w)
    \/ CheckRefresh(w) \/ IssueForRefresh(w) \/ PutNext(w) \/ PutBack(w)
    \/ Respond(w) \/ RevokeGet(w) \/ DestroyRef(w) \/ Drop(w)
    \/ ListTokens(w) \/ NextToken(w) \/ Deleted(w)

\* They leave the invariant as it is.
LEMMA OutsideKeeps ==
    ASSUME Inv, NEW w \in Workers, OutsideWork(w)
    PROVE  MuInv' /\ UNCHANGED <<grantMu, index>>
<1>0. job[w] \in Job /\ TypeOK
  BY DEF Inv, TypeOK
<1>1. UNCHANGED <<grantMu, index>>
  BY DEF OutsideWork, ClaimRename, ClaimRead, CheckCode, IssueForCode, CheckRefresh,
         IssueForRefresh, PutNext, PutBack, Respond, RevokeGet, DestroyRef, Drop,
         ListTokens, NextToken, Deleted, disk
<1> DEFINE Stays == \E j : j.pc \notin Critical /\ Become(w, j)
<1>2. NoJob.pc \notin Critical
  BY DEF NoJob, Critical
<1>3. CASE ClaimRename(w) \/ ClaimRead(w)
  <2>1. ClaimRename(w) => Stays
    BY <1>0, <1>2 DEF ClaimRename, Goto, Finish, Critical, Job
  <2>2. ClaimRead(w) => Stays
    BY <1>0, <1>2 DEF ClaimRead, Finish, Critical, Job
  <2> QED BY <1>1, <1>3, <2>1, <2>2, OneOutside
<1>4. CASE CheckCode(w) \/ CheckRefresh(w) \/ IssueForRefresh(w)
  <2>1. CheckCode(w) => Stays
    BY <1>0, <1>2 DEF CheckCode, Goto, Finish, Critical, Job
  <2>2. CheckRefresh(w) => Stays
    BY <1>0, <1>2 DEF CheckRefresh, Goto, Finish, Critical, Job
  <2>3. IssueForRefresh(w) => Stays
    BY <1>0 DEF IssueForRefresh, Goto, Critical, Job
  <2> QED BY <1>1, <1>4, <2>1, <2>2, <2>3, OneOutside
<1>5. CASE IssueForCode(w) \/ PutNext(w) \/ PutBack(w)
  <2>1. IssueForCode(w) => Stays
    BY <1>0 DEF IssueForCode, Goto, Critical, Job
  <2>2. PutNext(w) => Stays
    BY <1>0 DEF PutNext, Critical, Job
  <2>3. PutBack(w) => Stays
    BY <1>0 DEF PutBack, Goto, Critical, Job
  <2> QED BY <1>1, <1>5, <2>1, <2>2, <2>3, OneOutside
<1>6. CASE Respond(w) \/ Deleted(w) \/ RevokeGet(w)
  <2>1. Respond(w) \/ Deleted(w) => Stays
    BY <1>2 DEF Respond, Deleted, Finish
  <2>2. RevokeGet(w) => Stays
    BY <1>0, <1>2 DEF RevokeGet, Finish, Critical, Job
  <2> QED BY <1>1, <1>6, <2>1, <2>2, OneOutside
<1>7. CASE DestroyRef(w) \/ Drop(w)
  <2>1. CASE DestroyRef(w)
    <3>1. job[w].pc = "destroying" /\ \E j : j.pc = job[w].pc /\ Become(w, j)
      BY <1>0, <2>1 DEF DestroyRef, At, Job
    <3> QED BY <1>1, <3>1, OneOutside
  <2>2. Drop(w) => Stays
    BY <1>0, <1>2 DEF Drop, Dropped, Finish, Critical, Job
  <2> QED BY <1>1, <1>7, <2>1, <2>2, OneOutside
<1>8. CASE ListTokens(w) \/ NextToken(w)
  <2>1. ListTokens(w) => Stays
    BY <1>0 DEF ListTokens, Critical, Job
  <2>2. NextToken(w) => Stays
    BY <1>0 DEF NextToken, At, Critical, Job
  <2> QED BY <1>1, <1>8, <2>1, <2>2, OneOutside
<1> QED BY <1>1, <1>3, <1>4, <1>5, <1>6, <1>7, <1>8 DEF OutsideWork

\* A request that starts is outside.
LEMMA StartOutside ==
    ASSUME Inv, NEW w \in Workers, Start(w)
    PROVE  MuInv' /\ UNCHANGED <<grantMu, index>>
<1>1. UNCHANGED <<grantMu, index>>
  BY DEF Start, StartCode, StartRefresh, StartRevoke, StartDelete, disk
<1>2. \E j : j.pc \notin Critical /\ Become(w, j)
  <2>1. ASSUME NEW c \in Clients, NEW k \in Codes, NEW b \in Bindings, StartCode(w, c, k, b)
        PROVE  \E j : j.pc \notin Critical /\ Become(w, j)
    BY <2>1 DEF StartCode, NoJob, Critical
  <2>2. ASSUME NEW c \in Clients, NEW t \in Tokens, StartRefresh(w, c, t) \/ StartRevoke(w, c, t)
        PROVE  \E j : j.pc \notin Critical /\ Become(w, j)
    BY <2>2 DEF StartRefresh, StartRevoke, NoJob, Critical
  <2>3. ASSUME NEW c \in Clients, StartDelete(w, c)
        PROVE  \E j : j.pc \notin Critical /\ Become(w, j)
    BY <2>3 DEF StartDelete, NoJob, Critical
  <2> QED BY <2>1, <2>2, <2>3 DEF Start
<1> QED BY <1>1, <1>2, OneOutside

\* Nobody is inside after a restart, and the rest moves nobody.
LEMMA RestOutside ==
    ASSUME Inv, Environment \/ UNCHANGED vars
    PROVE  MuInv' /\ index' = index
<1>1. index' = index
  BY DEF Environment, MintCode, SweepExpired, SweepClaim, Tick, Crash, vars, disk
<1>2. CASE Crash
  <2>1. \A v \in Workers : job'[v].pc \notin Critical
    BY <1>2 DEF Crash, NoJob, Critical
  <2> QED BY <1>1, <2>1 DEF MuInv, Critical
<1>3. CASE UNCHANGED <<grantMu, job>>
  BY <1>1, <1>3, Outside
<1> QED BY <1>1, <1>2, <1>3
   DEF Environment, MintCode, SweepExpired, SweepClaim, Tick, vars, disk

-----------------------------------------------------------------------------
(* The four steps at the mutex.                                            *)

\* addToGrant and revokeGrant take it.
LEMMA LockKeeps ==
    ASSUME Inv, NEW w \in Workers, GrantRead(w) \/ RevokeLock(w)
    PROVE  MuInv' /\ index' = index
<1>0. job[w] \in Job
  BY DEF Inv, TypeOK
<1>1. grantMu = None /\ grantMu' = w /\ index' = index
  BY DEF GrantRead, RevokeLock, disk
<1>2. CASE GrantRead(w)
  <2> DEFINE j == [job[w] EXCEPT !.pc = "indexing", !.refs = index[job[w].doc.grant]]
  <2>1. Become(w, j)
    BY <1>2 DEF GrantRead, grantRefs
  <2>2. j.refs = index[j.doc.grant]
    BY <1>0 DEF Job
  <2> HIDE DEF j
  <2> QED BY <1>1, <2>1, <2>2, In
<1>3. CASE RevokeLock(w)
  <2> DEFINE j == [job[w] EXCEPT !.pc = "destroying", !.refs = grantRefs(job[w].doc.grant)]
  <2>1. Become(w, j)
    BY <1>3 DEF RevokeLock
  <2>2. j.pc = "destroying"
    BY <1>0 DEF Job
  <2> HIDE DEF j
  <2> QED BY <1>1, <2>1, <2>2, In
<1> QED BY <1>1, <1>2, <1>3

\* addToGrant writes what it read and one token more ...
LEMMA AppendKeeps ==
    ASSUME Inv, NEW w \in Workers, GrantWrite(w)
    PROVE  MuInv' /\ \A k \in Codes : index[k] \subseteq index'[k]
<1>0. /\ job[w] \in Job /\ TypeOK /\ job[w].pc = "indexing"
      /\ job[w].refs = index[job[w].doc.grant]
  BY DEF GrantWrite, At, Inv, TypeOK, MuInv
<1>1. MuInv'
  <2>1. Indexed(w).pc \notin Critical
    BY <1>0 DEF Indexed, Critical, Job
  <2>2. Become(w, Indexed(w)) /\ job[w].pc \in Critical
    BY <1>0 DEF GrantWrite, Critical
  <2> QED BY <2>1, <2>2, Out
<1>2. index' = [index EXCEPT ![job[w].doc.grant] =
                  index[job[w].doc.grant] \cup {job[w].next}]
  BY <1>0 DEF GrantWrite, Appended
<1> QED BY <1>0, <1>1, <1>2 DEF TypeOK

\* ... and revokeGrant removes the index of the grant it is about.
LEMMA RemoveKeeps ==
    ASSUME Inv, NEW w \in Workers, RevokeUnlock(w)
    PROVE  /\ MuInv' /\ grantMu = w /\ At(w, "destroying")
           /\ \A k \in Codes : \/ index[k] = index'[k]
                               \/ index'[k] = {} /\ job[w].doc.grant = k
<1>0. job[w] \in Job /\ TypeOK /\ job[w].pc = "destroying" /\ grantMu = w
  BY DEF RevokeUnlock, At, Inv, TypeOK, MuInv, Critical
<1>1. \E j : Become(w, j) /\ j.pc \notin Critical
  BY <1>0 DEF RevokeUnlock, Revoked, Goto, Finish, NoJob, Critical, Job
<1>2. MuInv'
  BY <1>0, <1>1, Out DEF Critical
<1>3. index' = [index EXCEPT ![job[w].doc.grant] = {}]
  BY DEF RevokeUnlock
<1> QED BY <1>0, <1>2, <1>3 DEF At, TypeOK

-----------------------------------------------------------------------------
(* The index.                                                              *)

Remembers ==
    \A k \in Codes :
      \/ index[k] \subseteq index'[k]
      \/ index'[k] = {} /\ \E w \in Workers :
           grantMu = w /\ At(w, "destroying") /\ job[w].doc.grant = k

\* A disk without errors.
LEMMA NoFaults ==
    ASSUME MaxFaults = 0, TypeOK, NEW w \in Workers PROVE ~DiskFault(w)
<1>1. ~DiskError
  BY DEF DiskError, TypeOK
<1> QED BY <1>1 DEF DiskFault, RequestFails, PutBackFails, GrantReadFails,
           GrantWriteFails, RevokeReadFails, DestroyFails, ListFails

\* It holds of the empty store.
LEMMA MuEmpty == EmptyStore /\ clients \subseteq Clients => Inv
BY TypeInit DEF EmptyStore, Inv, MuInv, NoJob, Critical

\* So it holds when all clients have been registered at the start.
LEMMA MuInit == Init => Inv
BY MuEmpty DEF Init

\* Every step keeps it and forgets no reference.
LEMMA MuStep ==
    ASSUME MaxFaults = 0, Inv, [Next]_vars PROVE Inv' /\ Remembers
<1>0. TypeOK' /\ JobOK'
  BY TypeStep DEF Inv
<1>1. ASSUME NEW w \in Workers, Start(w) \/ OutsideWork(w) PROVE MuInv' /\ Remembers
  BY <1>1, StartOutside, OutsideKeeps DEF Remembers
<1>2. ASSUME NEW w \in Workers, GrantRead(w) \/ RevokeLock(w) PROVE MuInv' /\ Remembers
  BY <1>2, LockKeeps DEF Remembers
<1>3. ASSUME NEW w \in Workers, GrantWrite(w) PROVE MuInv' /\ Remembers
  BY <1>3, AppendKeeps DEF Remembers
<1>4. ASSUME NEW w \in Workers, RevokeUnlock(w) PROVE MuInv' /\ Remembers
  BY <1>4, RemoveKeeps DEF Remembers
<1>5. CASE Environment \/ UNCHANGED vars
  <2>1. MuInv' /\ index' = index
    BY <1>5, RestOutside
  <2>2. \A k \in Codes : index[k] \subseteq index'[k]
    BY <2>1
  <2>3. Remembers
    BY <2>2 DEF Remembers
  <2> QED BY <1>0, <2>1, <2>3 DEF Inv
<1>6. ASSUME NEW w \in Workers PROVE ~DiskFault(w)
  BY NoFaults DEF Inv
<1> QED BY <1>0, <1>1, <1>2, <1>3, <1>4, <1>5, <1>6 DEF Next, Work, OutsideWork, Inv

\* On a disk without errors, an index only grows, or is removed by the
\* revocation that holds grantMu: no two handlers, whatever they interleave with
\* and wherever the process dies, lose each other's references.
THEOREM GrantMuProtectsIndex ==
    ASSUME MaxFaults = 0 PROVE Spec => IndexNeverForgets
<1>1. Inv /\ [Next]_vars => Inv' /\ [Remembers]_vars
  BY MuStep
<1>2. Spec => [][Remembers]_vars
  BY <1>1, MuInit, PTL DEF Spec
<1> QED BY <1>2 DEF IndexNeverForgets, Remembers

-----------------------------------------------------------------------------
(* Revocation.  A handler that has a claimed document in its hands while   *)
(* revokeGrant destroys the grant puts that document back afterwards.  The *)
(* theorems name that overlap, and say that there is no other way for a    *)
(* token to survive.                                                       *)

GrantFor(d) == IF d \in Codes THEN d ELSE grantOf[d]

\* While a revocation destroys a grant, no handler holds a document of it.
RevokesAlone ==
    \A w, v \in Workers : \A d \in Docs :
      At(w, "destroying") /\ Claims(v, d) => GrantFor(d) # job[w].doc.grant

\* What a job's fields have to do with each other, for the tokens h that
\* clients hold and the grants g that tokens were drawn for.
Sane(j, h, g) ==
    /\ j.next # None =>
         /\ j.pc \in {"index", "indexing", "back", "respond"}
         /\ j.op \in {"code", "refresh"}
         /\ g[j.next] = IF j.id \in Codes THEN j.id ELSE g[j.id]
    /\ j.pc = "respond" => j.op \in {"code", "refresh"}
    /\ j.op \in {"refresh", "revoke"} => j.id \in h
    /\ j.pc \in {"lock", "destroying", "drop"} => j.doc.grant = g[j.id]

SaneJobs == \A w \in Workers : Sane(job[w], held, grantOf)

\* In a response that has been sent, or whose index entry has been written.
Told(t) ==
    t \in held \/ \E w \in Workers : job[w].next = t /\ job[w].pc \in {"back", "respond"}

\* An index lists tokens of its grant only, and all that matter.
Listed  == \A k \in Codes : \A t \in index[k] : grantOf[t] = k
Covered == \A t \in Tokens : Alive(t) /\ Told(t) => t \in index[grantOf[t]]

\* revokeGrant has removed what it no longer has to.
Destroyed ==
    \A w \in Workers : job[w].pc = "destroying" =>
      \A t \in index[job[w].doc.grant] : t \in job[w].refs \/ file[t] = None

\* The grants whose index has been removed for good.
Purged ==
    (answered \cap Codes) \cup {k \in Codes : \E w \in Workers :
                                  job[w].pc = "drop" /\ job[w].doc.grant = k}

\* Nothing of them can come back.
Gone ==
    /\ \A t \in Tokens : grantOf[t] \in Purged /\ Alive(t) => ~Coming(t)
    /\ \A k \in Purged : redeemed[k] # 0

RevInv == SaneJobs /\ Listed /\ Covered /\ Destroyed /\ Gone

RInv == GrantInv /\ MuInv /\ RevInv

\* What the invariant says of one worker.
LEMMA RFacts ==
    ASSUME RInv, NEW w \in Workers
    PROVE  /\ TypeOK /\ JobOK /\ Fresh /\ Exclusive /\ CodesOK
           /\ job[w] \in Job /\ WellFormed(job[w]) /\ Sane(job[w], held, grantOf)
           /\ Claims(w, job[w].id) <=> Claiming(job[w])
           /\ job[w].id \in Tokens => grantOf[job[w].id] # None
           /\ job[w].next \in Tokens \cup {None}
           /\ job[w].next \in Tokens => grantOf[job[w].next] # None
<1>1. TypeOK /\ JobOK /\ Fresh /\ Exclusive /\ CodesOK
  BY DEF RInv, GrantInv, IInv
<1>2. job[w] \in Job /\ WellFormed(job[w]) /\ Sane(job[w], held, grantOf)
  BY <1>1 DEF RInv, RevInv, SaneJobs, TypeOK, JobOK
<1>3. job[w].next \in Tokens \cup {None}
  BY <1>2 DEF Job
<1> QED BY <1>1, <1>2, <1>3 DEF Fresh, Claims, Claiming, ClaimPCs

\* A worker's step changes that worker's job only.
LEMMA WorkerMoves ==
    ASSUME TypeOK, NEW w \in Workers, NEW j, Become(w, j)
    PROVE  job'[w] = j /\ \A v \in Workers \ {w} : job'[v] = job[v]
BY DEF Become, TypeOK

\* Jobs stay sane while clients get more tokens and handlers draw more ids.
LEMMA SaneLater ==
    ASSUME RInv, NEW w \in Workers, NEW j, Become(w, j), Sane(j, held', grantOf'),
           held \subseteq held',
           \A t \in Tokens : grantOf[t] # None => grantOf'[t] = grantOf[t]
    PROVE  SaneJobs'
<1>1. ASSUME NEW v \in Workers, v # w PROVE Sane(job[v], held', grantOf')
  <2>1. Sane(job[v], held, grantOf) /\ job[v] \in Job /\ WellFormed(job[v])
    BY RFacts
  <2>2. job[v].id \in Tokens => grantOf'[job[v].id] = grantOf[job[v].id]
    BY RFacts
  <2>3. job[v].next # None => grantOf'[job[v].next] = grantOf[job[v].next]
    BY RFacts
  <2>4. job[v].op = "refresh" => job[v].id \in Tokens
    BY <2>1 DEF WellFormed
  <2>5. job[v].op = "code" => job[v].id \in Codes
    BY <2>1 DEF WellFormed
  <2>6. job[v].pc \in {"lock", "destroying", "drop"} => job[v].id \in Tokens
    BY <2>1 DEF WellFormed
  <2> QED BY <2>1, <2>2, <2>3, <2>4, <2>5, <2>6 DEF Sane
<1>2. job'[w] = j /\ \A v \in Workers \ {w} : job'[v] = job[v]
  BY RFacts, WorkerMoves
<1> QED BY <1>1, <1>2 DEF SaneJobs

\* Tokens stay covered while no token comes to life or into a response ...
LEMMA CoveredLater ==
    ASSUME RInv, UNCHANGED grantOf, \A k \in Codes : index[k] \subseteq index'[k],
           \A t \in Tokens : Alive(t)' /\ Told(t)' => Alive(t) /\ Told(t)
    PROVE  Covered'
<1>1. ASSUME NEW t \in Tokens, Alive(t), Told(t) PROVE grantOf[t] \in Codes
  <2>1. grantOf[t] # None
    BY <1>1 DEF Alive, Told, RInv, GrantInv, IInv, Fresh, Claims
  <2> QED BY <2>1 DEF RInv, GrantInv, IInv, TypeOK
<1> QED BY <1>1 DEF RInv, RevInv, Covered

\* ... and what is gone stays gone.
LEMMA GoneLater ==
    ASSUME RInv, UNCHANGED <<grantOf, redeemed>>, Purged' \subseteq Purged,
           \A t \in Tokens : Alive(t)' /\ Coming(t)' => Alive(t) /\ Coming(t)
    PROVE  Gone'
BY DEF RInv, RevInv, Gone

\* A step of one worker that puts and copies nothing, and sends nothing that was
\* not on its way.
LEMMA PlainStep ==
    ASSUME RInv, NEW w \in Workers, NEW j, Become(w, j),
           \A d \in Docs : file'[d] \in {file[d], None},
           UNCHANGED <<index, grantOf, redeemed>>, answered' \cap Codes \subseteq answered,
           \/ held' = held
           \/ /\ held' = held \cup Returned(w)
              /\ job[w].pc = "respond" /\ job[w].op \in {"code", "refresh"},
           j.pc \notin {"destroying", "drop"},
           Claiming(j) => Claims(w, j.id) \/ file[j.id] # None,
           j.next \in {job[w].next, None},
           j.next # None /\ j.pc \in {"back", "respond"} => job[w].pc \in {"back", "respond"},
           Sane(j, held, grantOf)
    PROVE  RevInv'
<1>1. job'[w] = j /\ \A v \in Workers \ {w} : job'[v] = job[v]
  BY RFacts, WorkerMoves
<1>2. ASSUME NEW t \in Tokens, Alive(t)' PROVE Alive(t)
  <2>1. file[t] # None \/ \E v \in Workers : Claims(v, t)'
    BY <1>2 DEF Alive
  <2>2. ASSUME NEW v \in Workers, Claims(v, t)' PROVE Alive(t)
    BY <1>1, <2>2, RFacts, ClaimsAfter DEF Alive
  <2> QED BY <2>1, <2>2 DEF Alive
<1>3. ASSUME NEW t \in Tokens, t \in held' PROVE Told(t)
  <2>1. CASE t \in held
    BY <2>1 DEF Told
  <2>2. CASE t \notin held
    <3>1. t \in Returned(w) /\ job[w].pc = "respond" /\ job[w].op \in {"code", "refresh"}
      BY <1>3, <2>2
    <3>2. job[w].op = "code" => job[w].id \notin Tokens
      BY RFacts, ConstantsAssumption DEF WellFormed
    <3>3. job[w].op = "refresh" => job[w].id \in held
      BY RFacts DEF Sane
    <3>4. job[w].next = t
      BY <2>2, <3>1, <3>2, <3>3 DEF Returned
    <3> QED BY <3>1, <3>4 DEF Told
  <2> QED BY <2>1, <2>2
<1>4. \A t \in Tokens : Told(t) => Coming(t)
  BY DEF Told, Coming
<1>5. ASSUME NEW t \in Tokens, Told(t)' PROVE Told(t)
  <2>1. t # None
    BY ConstantsAssumption
  <2>2. ASSUME NEW v \in Workers, job'[v].next = t, job'[v].pc \in {"back", "respond"}
        PROVE  Told(t)
    BY <1>1, <2>1, <2>2 DEF Told
  <2> QED BY <1>3, <1>5, <2>2 DEF Told
<1>6. ASSUME NEW t \in Tokens, Coming(t)' PROVE Coming(t)
  <2>1. t # None
    BY ConstantsAssumption
  <2>2. ASSUME NEW v \in Workers, job'[v].next = t
        PROVE  Coming(t)
    BY <1>1, <2>1, <2>2 DEF Coming
  <2> QED BY <1>3, <1>4, <1>6, <2>2 DEF Coming
<1>7. SaneJobs'
  <2>1. held \subseteq held' /\ Sane(j, held', grantOf')
    BY DEF Sane
  <2> QED BY <2>1, SaneLater
<1>8. Covered'
  BY <1>2, <1>5, CoveredLater
<1>9. Destroyed'
  <2>1. \A v \in Workers : job'[v].pc = "destroying" => job'[v] = job[v]
    BY <1>1
  <2>2. \A k \in Codes : \A t \in index[k] : t \in Docs
    BY RFacts DEF TypeOK, Docs
  <2>3. \A v \in Workers : job[v].pc = "destroying" => job[v].doc.grant \in Codes
    BY RFacts DEF WellFormed, Doc
  <2> QED BY <2>1, <2>2, <2>3 DEF RInv, RevInv, Destroyed
<1>10. Gone'
  <2>1. Purged' \subseteq Purged
    BY <1>1 DEF Purged
  <2> QED BY <1>2, <1>6, <2>1, GoneLater
<1>11. Listed'
  BY DEF RInv, RevInv, Listed
<1> QED BY <1>7, <1>8, <1>9, <1>10, <1>11 DEF RevInv

\* A document in a handler's hands, or on disk, names the grant of its id.
LEMMA GrantsNamed ==
    ASSUME RInv
    PROVE  /\ \A w \in Workers : InHand(job[w]) => job[w].doc.grant = GrantFor(job[w].id)
           /\ \A t \in Tokens : file[t] # None => file[t].grant = grantOf[t]
<1>1. PICK f \in [Codes -> Nat] : CopiesRight(f)
  BY DEF RInv, GrantInv
<1>2. ASSUME NEW w \in Workers, InHand(job[w])
      PROVE  job[w].doc.grant = GrantFor(job[w].id)
  <2>1. Right(job[w].id, job[w].doc, f)
    BY <1>1, <1>2 DEF CopiesRight
  <2>2. job[w].id \in Docs
    BY <1>2, RFacts DEF InHand, HandPCs, WellFormed
  <2> QED BY <2>1, <2>2 DEF Right, GrantFor
<1>3. \A t \in Tokens : file[t] # None => file[t].grant = grantOf[t]
  BY <1>1 DEF CopiesRight, Right
<1> QED BY <1>2, <1>3

-----------------------------------------------------------------------------
(* The plain steps.                                                        *)

\* A worker with nothing to do.
LEMMA IdleSane ==
    /\ \A h, g : Sane(NoJob, h, g)
    /\ ~Claiming(NoJob) /\ NoJob.next = None /\ NoJob.pc \notin {"destroying", "drop"}
BY NoneAssumption DEF Sane, NoJob, Claiming, ClaimPCs, Ops

\* A request presents a token that a client holds.
LEMMA StartRev ==
    ASSUME RInv, NEW w \in Workers, Start(w) PROVE RevInv'
<1>1. UNCHANGED <<file, index, grantOf, redeemed, held, answered>>
  BY DEF Start, StartCode, StartRefresh, StartRevoke, StartDelete, disk, ghost
<1>2. \A d \in Docs : file'[d] \in {file[d], None}
  BY <1>1
<1>3. ASSUME NEW c \in Clients, NEW k \in Codes, NEW b \in Bindings, StartCode(w, c, k, b)
      PROVE  RevInv'
  <2> DEFINE j == [NoJob EXCEPT !.pc = "claim", !.op = "code", !.client = c, !.id = k,
                                !.bind = b]
  <2>1. Become(w, j)
    BY <1>3 DEF StartCode
  <2>2. /\ ~Claiming(j) /\ j.next = None /\ j.pc \notin {"destroying", "drop"}
        /\ Sane(j, held, grantOf)
    BY DEF NoJob, Claiming, ClaimPCs, Sane
  <2> HIDE DEF j
  <2> QED BY <1>1, <1>2, <2>1, <2>2, PlainStep
<1>4. ASSUME NEW c \in Clients, NEW t \in Tokens, StartRefresh(w, c, t) \/ StartRevoke(w, c, t)
      PROVE  RevInv'
  <2> DEFINE i == [NoJob EXCEPT !.pc = "claim", !.op = "refresh", !.client = c, !.id = t]
             j == [NoJob EXCEPT !.pc = "get", !.op = "revoke", !.client = c, !.id = t]
  <2>1. t \in held /\ (Become(w, i) \/ Become(w, j))
    BY <1>4 DEF StartRefresh, StartRevoke
  <2>2. /\ ~Claiming(i) /\ i.next = None /\ i.pc \notin {"destroying", "drop"}
        /\ Sane(i, held, grantOf)
    BY <2>1 DEF NoJob, Claiming, ClaimPCs, Sane
  <2>3. /\ ~Claiming(j) /\ j.next = None /\ j.pc \notin {"destroying", "drop"}
        /\ Sane(j, held, grantOf)
    BY <2>1 DEF NoJob, Claiming, ClaimPCs, Sane
  <2> HIDE DEF i, j
  <2> QED BY <1>1, <1>2, <2>1, <2>2, <2>3, PlainStep
<1>5. ASSUME NEW c \in Clients, StartDelete(w, c) PROVE RevInv'
  <2> DEFINE j == [NoJob EXCEPT !.pc = "list", !.op = "delete", !.client = c]
  <2>1. Become(w, j)
    BY <1>5 DEF StartDelete
  <2>2. /\ ~Claiming(j) /\ j.next = None /\ j.pc \notin {"destroying", "drop"}
        /\ Sane(j, held, grantOf)
    BY DEF NoJob, Claiming, ClaimPCs, Sane
  <2> HIDE DEF j
  <2> QED BY <1>1, <1>2, <2>1, <2>2, PlainStep
<1> QED BY <1>3, <1>4, <1>5 DEF Start

\* A claim, the checks, the read of the index and the answer.
LEMMA HandlerRev ==
    ASSUME RInv, NEW w \in Workers,
           \/ ClaimRename(w) \/ ClaimRead(w) \/ CheckCode(w) \/ CheckRefresh(w)
           \/ IssueForRefresh(w) \/ GrantRead(w) \/ Respond(w)
    PROVE  RevInv'
<1>0. /\ TypeOK /\ job[w] \in Job /\ WellFormed(job[w]) /\ Sane(job[w], held, grantOf)
      /\ Claims(w, job[w].id) <=> Claiming(job[w])
  BY RFacts
<1>1. UNCHANGED <<index, grantOf, redeemed, answered>>
  BY DEF ClaimRename, ClaimRead, CheckCode, CheckRefresh, IssueForRefresh, GrantRead,
         Respond, disk, ghost
<1>2. \A d \in Docs : file'[d] \in {file[d], None}
  BY <1>0 DEF ClaimRename, ClaimRead, CheckCode, CheckRefresh, IssueForRefresh, GrantRead,
         Respond, disk, TypeOK
<1>3. ASSUME Become(w, NoJob), held' = held PROVE RevInv'
  BY <1>1, <1>2, <1>3, IdleSane, PlainStep
<1>4. CASE ClaimRename(w)
  <2> DEFINE j == [job[w] EXCEPT !.pc = "read"]
  <2>1. held' = held
    BY <1>4 DEF ClaimRename, ghost
  <2>2. Become(w, NoJob) \/ (file[job[w].id] # None /\ Become(w, j))
    BY <1>4 DEF ClaimRename, Finish, Goto
  <2>3. /\ j.id = job[w].id /\ j.next = job[w].next /\ j.pc = "read"
        /\ Sane(j, held, grantOf)
    BY <1>0, <1>4 DEF ClaimRename, At, Job, Sane, WellFormed
  <2> HIDE DEF j
  <2> QED BY <1>1, <1>2, <1>3, <2>1, <2>2, <2>3, PlainStep
<1>5. CASE ClaimRead(w)
  <2> DEFINE j == [job[w] EXCEPT !.pc = "check", !.doc = claimFile[job[w].id]]
  <2>1. held' = held /\ Claiming(job[w])
    BY <1>0, <1>5 DEF ClaimRead, ghost, At, WellFormed, Claiming, ClaimPCs
  <2>2. Become(w, NoJob) \/ Become(w, j)
    BY <1>5 DEF ClaimRead, Finish
  <2>3. /\ j.id = job[w].id /\ j.next = job[w].next /\ j.pc = "check"
        /\ Sane(j, held, grantOf)
    BY <1>0, <1>5 DEF ClaimRead, At, Job, Sane, WellFormed
  <2> HIDE DEF j
  <2> QED BY <1>0, <1>1, <1>2, <1>3, <2>1, <2>2, <2>3, PlainStep
<1>6. CASE CheckCode(w) \/ IssueForRefresh(w)
  <2>1. held' = held /\ Claiming(job[w])
    BY <1>0, <1>6 DEF CheckCode, IssueForRefresh, ghost, At, Claiming, ClaimPCs
  <2>2. /\ job[w].pc \in {"check", "issue"}
        /\ \/ Become(w, NoJob)
           \/ \E p \in {"issue", "put", "back"} : Become(w, [job[w] EXCEPT !.pc = p])
    BY <1>6 DEF CheckCode, IssueForRefresh, At, Finish, Goto
  <2>3. ASSUME NEW p \in {"issue", "put", "back"}, Become(w, [job[w] EXCEPT !.pc = p])
        PROVE  RevInv'
    <3> DEFINE j == [job[w] EXCEPT !.pc = p]
    <3>1. /\ j.id = job[w].id /\ j.next = None /\ j.pc = p
          /\ Sane(j, held, grantOf)
      BY <1>0, <2>2 DEF Job, Sane
    <3>2. Become(w, j)
      BY <2>3
    <3> HIDE DEF j
    <3> QED BY <1>0, <1>1, <1>2, <2>1, <3>1, <3>2, PlainStep
  <2> QED BY <1>3, <2>1, <2>2, <2>3
<1>7. CASE CheckRefresh(w)
  <2>1. /\ held' = held /\ Claiming(job[w]) /\ job[w].pc = "check"
        /\ job[w].op = "refresh" /\ job[w].id \in Tokens
    BY <1>0, <1>7 DEF CheckRefresh, ghost, At, WellFormed, Claiming, ClaimPCs
  <2>2. job[w].doc.grant = grantOf[job[w].id]
    BY <2>1, GrantsNamed, ConstantsAssumption DEF InHand, HandPCs, GrantFor
  <2>3. \/ Become(w, NoJob)
        \/ Become(w, [job[w] EXCEPT !.pc = "lock"])
        \/ \E b : Become(w, [job[w] EXCEPT !.pc = "issue", !.at = now, !.rotate = b])
    BY <1>7 DEF CheckRefresh, Goto, Finish
  <2>4. ASSUME Become(w, [job[w] EXCEPT !.pc = "lock"]) PROVE RevInv'
    <3> DEFINE j == [job[w] EXCEPT !.pc = "lock"]
    <3>1. /\ j.next = None /\ j.pc = "lock" /\ Sane(j, held, grantOf) /\ ~Claiming(j)
      BY <1>0, <2>1, <2>2 DEF Job, Sane, Claiming, ClaimPCs
    <3>2. Become(w, j)
      BY <2>4
    <3> HIDE DEF j
    <3> QED BY <1>1, <1>2, <2>1, <3>1, <3>2, PlainStep
  <2>5. ASSUME NEW b, Become(w, [job[w] EXCEPT !.pc = "issue", !.at = now, !.rotate = b])
        PROVE  RevInv'
    <3> DEFINE j == [job[w] EXCEPT !.pc = "issue", !.at = now, !.rotate = b]
    <3>1. /\ j.id = job[w].id /\ j.next = None /\ j.pc = "issue"
          /\ Sane(j, held, grantOf)
      BY <1>0, <2>1 DEF Job, Sane
    <3>2. Become(w, j)
      BY <2>5
    <3> HIDE DEF j
    <3> QED BY <1>0, <1>1, <1>2, <2>1, <3>1, <3>2, PlainStep
  <2> QED BY <1>3, <2>1, <2>3, <2>4, <2>5
<1>8. CASE GrantRead(w)
  <2> DEFINE j == [job[w] EXCEPT !.pc = "indexing", !.refs = grantRefs(job[w].doc.grant)]
  <2>1. held' = held /\ Claiming(job[w]) /\ Become(w, j)
    BY <1>0, <1>8 DEF GrantRead, ghost, At, WellFormed, Claiming, ClaimPCs
  <2>2. /\ j.id = job[w].id /\ j.next = job[w].next /\ j.pc = "indexing"
        /\ Sane(j, held, grantOf)
    BY <1>0, <1>8 DEF GrantRead, At, Job, Sane, WellFormed
  <2> HIDE DEF j
  <2> QED BY <1>0, <1>1, <1>2, <2>1, <2>2, PlainStep
<1>9. CASE Respond(w)
  <2>1. Become(w, NoJob) /\ job[w].pc = "respond"
        /\ (held' = held \cup Returned(w) \/ held' = held)
    BY <1>9 DEF Respond, Finish, At
  <2>2. job[w].op \in {"code", "refresh"}
    BY <1>0, <2>1 DEF Sane
  <2> QED BY <1>1, <1>2, <2>1, <2>2, IdleSane, PlainStep
<1> QED BY <1>4, <1>5, <1>6, <1>7, <1>8, <1>9

\* The reads of a revocation or a deletion.
LEMMA ReaderRev ==
    ASSUME RInv, NEW w \in Workers,
           RevokeGet(w) \/ ListTokens(w) \/ NextToken(w) \/ Deleted(w)
    PROVE  RevInv'
<1>0. /\ TypeOK /\ job[w] \in Job /\ WellFormed(job[w]) /\ Sane(job[w], held, grantOf)
  BY RFacts
<1>1. UNCHANGED <<index, grantOf, redeemed, held>> /\ answered' \cap Codes \subseteq answered
  BY <1>0, ConstantsAssumption
     DEF RevokeGet, ListTokens, NextToken, Deleted, At, WellFormed, disk, ghost
<1>2. \A d \in Docs : file'[d] \in {file[d], None}
  BY <1>0 DEF RevokeGet, ListTokens, NextToken, Deleted, DropIfExpired, disk, TypeOK
<1>3. ASSUME Become(w, NoJob) PROVE RevInv'
  BY <1>1, <1>2, <1>3, IdleSane, PlainStep
<1>4. CASE RevokeGet(w)
  <2> DEFINE j == [job[w] EXCEPT !.pc = "lock", !.doc = file[job[w].id]]
  <2>1. /\ job[w].op = "revoke" /\ job[w].pc = "get" /\ job[w].id \in Tokens
        /\ Become(w, NoJob) \/ (file[job[w].id] # None /\ Become(w, j))
    BY <1>0, <1>4 DEF RevokeGet, Live, Finish, At, WellFormed
  <2>2. file[job[w].id] # None => file[job[w].id].grant = grantOf[job[w].id]
    BY <2>1, GrantsNamed
  <2>3. file[job[w].id] # None => Sane(j, held, grantOf)
    BY <1>0, <2>1, <2>2 DEF Job, Sane
  <2>4. j.next = None /\ j.pc = "lock" /\ ~Claiming(j)
    BY <1>0, <2>1 DEF Job, Sane, Claiming, ClaimPCs
  <2> HIDE DEF j
  <2> QED BY <1>1, <1>2, <1>3, <2>1, <2>3, <2>4, PlainStep
<1>5. CASE ListTokens(w)
  <2> DEFINE j == [job[w] EXCEPT !.pc = "next", !.todo = {t \in Tokens : Live(t)}]
  <2>1. Become(w, j) /\ job[w].pc = "list" /\ job[w].op = "delete"
    BY <1>0, <1>5 DEF ListTokens, At, WellFormed
  <2>2. j.next = None /\ j.pc = "next" /\ ~Claiming(j) /\ Sane(j, held, grantOf)
    BY <1>0, <2>1 DEF Job, Sane, Claiming, ClaimPCs
  <2> HIDE DEF j
  <2> QED BY <1>1, <1>2, <2>1, <2>2, PlainStep
<1>6. CASE NextToken(w)
  <2>1. PICK t \in job[w].todo :
          \/ /\ file[t] # None
             /\ Become(w, [job[w] EXCEPT !.pc = "lock", !.id = t,
                             !.doc = file[t], !.todo = job[w].todo \ {t}])
          \/ Become(w, [job[w] EXCEPT !.todo = job[w].todo \ {t}])
    BY <1>0, <1>6 DEF NextToken, AfterSkip, Live, Job
  <2> DEFINE i == [job[w] EXCEPT !.pc = "lock", !.id = t,
                     !.doc = file[t], !.todo = job[w].todo \ {t}]
             j == [job[w] EXCEPT !.todo = job[w].todo \ {t}]
  <2>2. t \in Tokens /\ job[w].pc = "next" /\ job[w].op = "delete"
    BY <1>0, <1>6, <2>1 DEF Job, NextToken, At, WellFormed
  <2>3. file[t] # None => file[t].grant = grantOf[t]
    BY <2>2, GrantsNamed
  <2>4. i.next = None /\ i.pc = "lock" /\ ~Claiming(i)
    BY <1>0, <2>2 DEF Job, Sane, Claiming, ClaimPCs
  <2>5. file[t] # None => Sane(i, held, grantOf)
    BY <1>0, <2>2, <2>3 DEF Job, Sane
  <2>6. j.next = None /\ j.pc = "next" /\ ~Claiming(j) /\ Sane(j, held, grantOf)
    BY <1>0, <2>2 DEF Job, Sane, Claiming, ClaimPCs
  <2>7. Become(w, j) \/ (file[t] # None /\ Become(w, i))
    BY <2>1
  <2> HIDE DEF i, j
  <2> QED BY <1>1, <1>2, <2>4, <2>5, <2>6, <2>7, PlainStep
<1>7. CASE Deleted(w)
  BY <1>3, <1>7 DEF Deleted, Finish
<1> QED BY <1>4, <1>5, <1>6, <1>7

-----------------------------------------------------------------------------
(* The steps that put a document.                                          *)

\* A token whose id has just been drawn: nobody has been told of it, and its
\* grant has not been revoked.
LEMMA NewTokenRev ==
    ASSUME RInv, NEW w \in Workers, Claiming(job[w]),
           job[w].pc \in {"issue", "put"},
           NEW t \in Tokens, Draw(t, GrantFor(job[w].id)),
           GrantFor(job[w].id) \notin Purged,
           NEW doc \in Doc, file' = [file EXCEPT ![t] = doc],
           Become(w, [job[w] EXCEPT !.pc = "index", !.next = t]),
           UNCHANGED <<index, held, answered>>,
           \A k \in Codes : redeemed[k] # 0 => redeemed'[k] # 0
    PROVE  RevInv'
<1> DEFINE j == [job[w] EXCEPT !.pc = "index", !.next = t]
           g == GrantFor(job[w].id)
<1>0. /\ TypeOK /\ job[w] \in Job /\ WellFormed(job[w]) /\ Sane(job[w], held, grantOf)
      /\ Claims(w, job[w].id) <=> Claiming(job[w])
  BY RFacts
<1>1. /\ grantOf[t] = None /\ grantOf'[t] = g
      /\ \A u \in Tokens : u # t => grantOf'[u] = grantOf[u]
  BY <1>0 DEF Draw, TypeOK
<1>2. /\ t \notin held /\ \A v \in Workers : job[v].id # t /\ job[v].next # t
      /\ \A k \in Codes : t \notin index[k]
  <2>1. \A k \in Codes : t \notin index[k]
    BY <1>1, ConstantsAssumption DEF RInv, RevInv, Listed
  <2> QED BY <1>1, <2>1, RFacts DEF Fresh
<1>3. j.id = job[w].id /\ j.next = t /\ j.pc = "index" /\ j.op = job[w].op
  BY <1>0 DEF Job
<1>4. Sane(j, held', grantOf')
  <2>1. job[w].op = "refresh" => job[w].id \in Tokens
    BY <1>0 DEF WellFormed
  <2>2. job[w].id # t
    BY <1>2
  <2> QED BY <1>0, <1>1, <1>3, <2>1, <2>2, ConstantsAssumption
          DEF Sane, GrantFor, Claiming, WellFormed
<1> HIDE DEF j, g
<1>5. Become(w, j)
  BY DEF j
<1>6. job'[w] = j /\ \A v \in Workers \ {w} : job'[v] = job[v]
  BY <1>0, <1>5, WorkerMoves
<1>7. SaneJobs'
  BY <1>1, <1>4, <1>5, SaneLater, ConstantsAssumption
<1>8. ASSUME NEW u \in Tokens, u # t
      PROVE  /\ Alive(u)' => Alive(u)
             /\ Told(u)' => Told(u)
             /\ Coming(u)' => Coming(u)
  <2>1. file'[u] = file[u]
    BY <1>8
  <2>2. \A v \in Workers : Claims(v, u)' => Claims(v, u)
    BY <1>0, <1>3, <1>5, ClaimsAfter DEF Claims, Claiming, ClaimPCs
  <2>3. \A v \in Workers : job'[v].next = u => job[v].next = u /\ job'[v].pc = job[v].pc
    BY <1>3, <1>6, <1>8
  <2> QED BY <2>1, <2>2, <2>3 DEF Alive, Told, Coming
<1>9. ~Told(t)'
  BY <1>2, <1>3, <1>6 DEF Told
<1>10. Covered'
  BY <1>1, <1>8, <1>9 DEF RInv, RevInv, Covered
<1>11. Listed'
  BY <1>1, <1>2, <1>0 DEF RInv, RevInv, Listed, TypeOK
<1>12. Destroyed'
  <2>1. ASSUME NEW v \in Workers, job'[v].pc = "destroying"
        PROVE  job'[v] = job[v] /\ job[v].doc.grant \in Codes
    BY <1>3, <1>6, <2>1, RFacts DEF WellFormed, Doc
  <2>2. \A k \in Codes : \A u \in index[k] : file'[u] = file[u]
    BY <1>0, <1>2 DEF TypeOK
  <2> QED BY <2>1, <2>2 DEF RInv, RevInv, Destroyed
<1>13. Gone'
  <2>1. Purged' = Purged
    BY <1>0, <1>3, <1>6 DEF Purged
  <2>2. \A u \in Tokens : u # t /\ grantOf'[u] \in Purged' => ~(Alive(u)' /\ Coming(u)')
    BY <1>1, <1>8, <2>1 DEF RInv, RevInv, Gone
  <2>3. grantOf'[t] \notin Purged'
    BY <1>1, <2>1 DEF g
  <2> QED BY <2>1, <2>2, <2>3 DEF RInv, RevInv, Gone, Purged
<1> QED BY <1>7, <1>10, <1>11, <1>12, <1>13 DEF RevInv

\* The first token of a grant: its code had not been redeemed.
LEMMA IssueRev ==
    ASSUME RInv, NEW w \in Workers, IssueForCode(w) PROVE RevInv'
<1>0. /\ TypeOK /\ job[w] \in Job /\ WellFormed(job[w]) /\ Sane(job[w], held, grantOf)
      /\ Claims(w, job[w].id) <=> Claiming(job[w])
  BY RFacts
<1>1. /\ job[w].pc = "issue" /\ job[w].op = "code" /\ job[w].id \in Codes
      /\ job[w].doc \in Doc /\ job[w].client \in Clients /\ Claiming(job[w])
  BY <1>0 DEF IssueForCode, At, WellFormed, Claiming, ClaimPCs
<1>2. job[w].doc.grant = job[w].id /\ redeemed[job[w].id] = 0
  BY <1>1, RFacts DEF CodesOK
<1>3. /\ redeemed' = [redeemed EXCEPT ![job[w].id] = redeemed[job[w].id] + 1]
      /\ UNCHANGED <<index, held, answered>>
  BY <1>2 DEF IssueForCode
<1>4. \A k \in Codes : redeemed[k] # 0 => redeemed'[k] # 0
  BY <1>0, <1>2, <1>3 DEF TypeOK
<1>5. CASE job[w].client \notin Refreshing
  <2> DEFINE j == [job[w] EXCEPT !.pc = "respond"]
  <2>1. Become(w, j) /\ UNCHANGED <<file, grantOf>>
    BY <1>5 DEF IssueForCode, Goto
  <2>2. /\ j.id = job[w].id /\ j.next = None /\ j.pc = "respond" /\ ~Claiming(j)
        /\ Sane(j, held, grantOf)
    BY <1>0, <1>1 DEF Job, Sane, Claiming, ClaimPCs
  <2> HIDE DEF j
  <2>3. job'[w] = j /\ \A v \in Workers \ {w} : job'[v] = job[v]
    BY <1>0, <2>1, WorkerMoves
  <2>4. \A t \in Tokens : Alive(t)' => Alive(t)
    BY <1>0, <2>1, <2>2, ClaimsAfter DEF Alive
  <2>5. \A t \in Tokens : (Told(t)' => Told(t)) /\ (Coming(t)' => Coming(t))
    BY <1>3, <2>2, <2>3, ConstantsAssumption DEF Told, Coming
  <2>6. SaneJobs'
    BY <1>3, <2>1, <2>2, SaneLater
  <2>7. Covered'
    BY <1>3, <2>1, <2>4, <2>5, CoveredLater
  <2>8. Destroyed' /\ Listed'
    BY <1>3, <2>1, <2>2, <2>3 DEF RInv, RevInv, Destroyed, Listed
  <2>9. Purged' = Purged
    BY <1>0, <1>1, <1>3, <2>2, <2>3 DEF Purged
  <2>10. Gone'
    BY <1>4, <2>1, <2>4, <2>5, <2>9 DEF RInv, RevInv, Gone, Purged
  <2> QED BY <2>6, <2>7, <2>8, <2>10 DEF RevInv
<1>6. CASE job[w].client \in Refreshing
  <2>1. PICK t \in Tokens :
          /\ Draw(t, GrantFor(job[w].id))
          /\ file' = [file EXCEPT ![t] =
               Stamp(FirstToken(job[w].doc, job[w].client), RefreshTTL)]
          /\ Become(w, [job[w] EXCEPT !.pc = "index", !.next = t])
    BY <1>1, <1>2, <1>6 DEF IssueForCode, GrantFor
  <2>2. Stamp(FirstToken(job[w].doc, job[w].client), RefreshTTL) \in Doc
    BY <1>0, <1>1, FirstTokenType, StampType, TimesAssumption DEF TypeOK
  <2>3. GrantFor(job[w].id) \notin Purged
    BY <1>1, <1>2 DEF GrantFor, RInv, RevInv, Gone
  <2> QED BY <1>1, <1>3, <1>4, <2>1, <2>2, <2>3, NewTokenRev
<1> QED BY <1>5, <1>6

\* A successor: the token it succeeds is held, so its grant was not revoked.
LEMMA RotateRev ==
    ASSUME RInv, NEW w \in Workers, PutNext(w) PROVE RevInv'
<1>0. /\ TypeOK /\ job[w] \in Job /\ WellFormed(job[w]) /\ Sane(job[w], held, grantOf)
      /\ Claims(w, job[w].id) <=> Claiming(job[w])
  BY RFacts
<1>1. /\ job[w].pc = "put" /\ job[w].op = "refresh" /\ job[w].id \in Tokens
      /\ job[w].doc \in Doc /\ job[w].at \in Nat /\ Claiming(job[w])
  BY <1>0 DEF PutNext, At, WellFormed, Claiming, ClaimPCs, Job
<1>2. job[w].doc.grant = GrantFor(job[w].id) /\ GrantFor(job[w].id) = grantOf[job[w].id]
  BY <1>1, GrantsNamed, ConstantsAssumption DEF InHand, HandPCs, GrantFor
<1>3. GrantFor(job[w].id) \notin Purged
  <2>1. Alive(job[w].id) /\ Coming(job[w].id)
    BY <1>0, <1>1 DEF Alive, Coming, Sane
  <2> QED BY <1>1, <1>2, <2>1 DEF RInv, RevInv, Gone
<1>4. PICK t \in Tokens :
        /\ Draw(t, GrantFor(job[w].id))
        /\ file' = [file EXCEPT ![t] =
             Stamp(Successor(job[w].doc, job[w].at), RefreshTTL)]
        /\ Become(w, [job[w] EXCEPT !.pc = "index", !.next = t])
  BY <1>2 DEF PutNext
<1>5. Stamp(Successor(job[w].doc, job[w].at), RefreshTTL) \in Doc
  BY <1>0, <1>1, SuccessorType, StampType, TimesAssumption DEF TypeOK
<1>6. UNCHANGED <<index, held, answered, redeemed>>
  BY DEF PutNext
<1> QED BY <1>1, <1>3, <1>4, <1>5, <1>6, NewTokenRev

\* The put back: nothing of that grant is being destroyed.
LEMMA PutBackRev ==
    ASSUME RInv, RevokesAlone, NEW w \in Workers, PutBack(w) PROVE RevInv'
<1> DEFINE t == job[w].id
           j == [job[w] EXCEPT !.pc = "respond"]
<1>0. /\ TypeOK /\ job[w] \in Job /\ WellFormed(job[w]) /\ Sane(job[w], held, grantOf)
      /\ Claims(w, job[w].id) <=> Claiming(job[w])
  BY RFacts
<1>1. job[w].pc = "back" /\ job[w].op = "refresh" /\ t \in Tokens /\ Claims(w, t)
  BY <1>0 DEF PutBack, At, WellFormed, Claiming, ClaimPCs
<1>2. /\ file' = [file EXCEPT ![t] = Presented(w)] /\ Become(w, j)
      /\ UNCHANGED <<index, held, answered, grantOf, redeemed>>
  BY DEF PutBack, Goto
<1>3. /\ j.id = t /\ j.next = job[w].next /\ j.pc = "respond" /\ ~Claiming(j)
      /\ Sane(j, held, grantOf)
  BY <1>0, <1>1 DEF Job, Sane, Claiming, ClaimPCs
<1> HIDE DEF t, j
<1>4. job'[w] = j /\ \A v \in Workers \ {w} : job'[v] = job[v]
  BY <1>0, <1>2, WorkerMoves
<1>5. \A u \in Tokens : u # t => file'[u] = file[u]
  BY <1>2
<1>6. ASSUME NEW u \in Tokens, Alive(u)' PROVE Alive(u)
  <2>1. CASE u = t
    BY <1>1, <2>1 DEF Alive
  <2>2. CASE u # t
    <3>1. \A v \in Workers : Claims(v, u)' => Claims(v, u)
      BY <1>0, <1>2, <1>3, ClaimsAfter
    <3> QED BY <1>5, <1>6, <2>2, <3>1 DEF Alive
  <2> QED BY <2>1, <2>2
<1>7. \A u \in Tokens : (Told(u)' => Told(u)) /\ (Coming(u)' => Coming(u))
  BY <1>1, <1>2, <1>3, <1>4 DEF Told, Coming
<1>8. SaneJobs'
  BY <1>2, <1>3, SaneLater
<1>9. Covered'
  BY <1>2, <1>6, <1>7, CoveredLater
<1>10. Listed'
  BY <1>2 DEF RInv, RevInv, Listed
<1>11. Destroyed'
  <2>1. ASSUME NEW v \in Workers, job'[v].pc = "destroying"
        PROVE  job'[v] = job[v] /\ job[v].doc.grant \in Codes
    BY <1>3, <1>4, <2>1, RFacts DEF WellFormed, Doc
  <2>2. ASSUME NEW v \in Workers, job[v].pc = "destroying"
        PROVE  t \notin index[job[v].doc.grant]
    <3>1. GrantFor(t) # job[v].doc.grant /\ GrantFor(t) = grantOf[t]
      BY <1>1, <2>2, ConstantsAssumption DEF RevokesAlone, At, GrantFor
    <3>2. job[v].doc.grant \in Codes
      BY <2>2, RFacts DEF WellFormed, Doc
    <3> QED BY <3>1, <3>2 DEF RInv, RevInv, Listed
  <2>3. \A k \in Codes : \A u \in index[k] : u \in Tokens
    BY <1>0 DEF TypeOK
  <2> QED BY <1>2, <1>5, <2>1, <2>2, <2>3 DEF RInv, RevInv, Destroyed
<1>12. Gone'
  <2>1. Purged' = Purged
    BY <1>1, <1>2, <1>3, <1>4 DEF Purged
  <2> QED BY <1>2, <1>6, <1>7, <2>1, GoneLater
<1> QED BY <1>8, <1>9, <1>10, <1>11, <1>12 DEF RevInv

\* The append: from now on a response may carry the token.
LEMMA AppendRev ==
    ASSUME RInv, NEW w \in Workers, GrantWrite(w) PROVE RevInv'
<1> DEFINE g == job[w].doc.grant
           t == job[w].next
           j == Indexed(w)
<1>0. /\ TypeOK /\ job[w] \in Job /\ WellFormed(job[w]) /\ Sane(job[w], held, grantOf)
      /\ Claims(w, job[w].id) <=> Claiming(job[w])
  BY RFacts
<1>1. /\ job[w].pc = "indexing" /\ job[w].op \in {"code", "refresh"} /\ Claiming(job[w])
      /\ t \in Tokens /\ g \in Codes /\ job[w].refs = index[g]
  BY <1>0 DEF GrantWrite, At, WellFormed, Claiming, ClaimPCs, Doc, RInv, MuInv
<1>2. g = GrantFor(job[w].id) /\ grantOf[t] = g
  <2>1. g = GrantFor(job[w].id)
    BY <1>1, GrantsNamed DEF InHand, HandPCs
  <2> QED BY <1>0, <1>1, <2>1, ConstantsAssumption DEF Sane, GrantFor
<1>3. /\ index' = [index EXCEPT ![g] = index[g] \cup {t}] /\ Become(w, j)
      /\ UNCHANGED <<file, held, answered, grantOf, redeemed>>
  BY <1>1 DEF GrantWrite, Appended, ghost
<1>4. /\ j.id = job[w].id /\ j.next = t /\ j.pc \in {"back", "respond"}
      /\ j.op = job[w].op
      /\ Sane(j, held, grantOf)
  BY <1>0, <1>1 DEF Job, Sane, Indexed
<1> HIDE DEF g, t, j
<1>5. job'[w] = j /\ \A v \in Workers \ {w} : job'[v] = job[v]
  BY <1>0, <1>3, WorkerMoves
<1>6. \A u \in Tokens : Alive(u)' => Alive(u)
  BY <1>0, <1>1, <1>3, <1>4, ClaimsAfter DEF Alive
<1>7. /\ \A u \in Tokens : Told(u)' => Told(u) \/ u = t
      /\ \A u \in Tokens : Coming(u)' => Coming(u)
  <2>1. job[w].next = t
    BY DEF t
  <2> QED BY <1>3, <1>4, <1>5, <2>1 DEF Told, Coming
<1>8. SaneJobs'
  BY <1>3, <1>4, SaneLater
<1>9. Covered'
  <2>1. t \in index'[grantOf'[t]]
    BY <1>0, <1>1, <1>2, <1>3 DEF TypeOK
  <2>2. ASSUME NEW u \in Tokens, u \in index[grantOf[u]], grantOf[u] \in Codes
        PROVE  u \in index'[grantOf'[u]]
    BY <1>0, <1>1, <1>3, <2>2 DEF TypeOK
  <2>3. ASSUME NEW u \in Tokens, Told(u) PROVE grantOf[u] \in Codes
    <3>1. grantOf[u] # None
      BY <1>0, <2>3, RFacts DEF Told, RInv, GrantInv, IInv, Fresh
    <3> QED BY <1>0, <3>1 DEF TypeOK
  <2> QED BY <1>6, <1>7, <2>1, <2>2, <2>3 DEF RInv, RevInv, Covered
<1>10. Listed'
  BY <1>0, <1>1, <1>2, <1>3 DEF RInv, RevInv, Listed, TypeOK
\* Nobody is destroying: this worker has grantMu.
<1>11. Destroyed'
  <2>1. \A v \in Workers \ {w} : job[v].pc # "destroying"
    BY <1>1 DEF RInv, MuInv, Critical
  <2> QED BY <1>4, <1>5, <2>1 DEF Destroyed
<1>12. Gone'
  <2>1. Purged' = Purged
    BY <1>1, <1>3, <1>4, <1>5 DEF Purged
  <2> QED BY <1>3, <1>6, <1>7, <2>1, GoneLater
<1> QED BY <1>8, <1>9, <1>10, <1>11, <1>12 DEF RevInv

-----------------------------------------------------------------------------
(* The steps of revokeGrant.                                               *)

\* The index is read ...
LEMMA LockRev ==
    ASSUME RInv, NEW w \in Workers, RevokeLock(w) PROVE RevInv'
<1> DEFINE j == [job[w] EXCEPT !.pc = "destroying", !.refs = grantRefs(job[w].doc.grant)]
<1>0. /\ TypeOK /\ job[w] \in Job /\ WellFormed(job[w]) /\ Sane(job[w], held, grantOf)
  BY RFacts
<1>1. /\ job[w].pc = "lock" /\ Become(w, j) /\ grantMu = None
      /\ UNCHANGED <<file, index, held, answered, grantOf, redeemed>>
  BY DEF RevokeLock, At, disk, ghost
<1>2. /\ j.next = None /\ j.pc = "destroying" /\ ~Claiming(j)
      /\ j.doc = job[w].doc /\ j.refs = index[job[w].doc.grant]
      /\ Sane(j, held, grantOf)
  BY <1>0, <1>1 DEF Job, Sane, Claiming, ClaimPCs, grantRefs
<1> HIDE DEF j
<1>3. job'[w] = j /\ \A v \in Workers \ {w} : job'[v] = job[v]
  BY <1>0, <1>1, WorkerMoves
<1>4. \A u \in Tokens : Alive(u)' => Alive(u)
  BY <1>0, <1>1, <1>2, ClaimsAfter DEF Alive
<1>5. \A u \in Tokens : (Told(u)' => Told(u)) /\ (Coming(u)' => Coming(u))
  BY <1>1, <1>2, <1>3, ConstantsAssumption DEF Told, Coming
<1>6. SaneJobs'
  BY <1>1, <1>2, SaneLater
<1>7. Covered'
  BY <1>1, <1>4, <1>5, CoveredLater
<1>8. Listed' /\ Destroyed'
  BY <1>1, <1>2, <1>3 DEF RInv, RevInv, Listed, Destroyed
<1>9. Gone'
  <2>1. Purged' = Purged
    BY <1>1, <1>2, <1>3 DEF Purged
  <2> QED BY <1>1, <1>4, <1>5, <2>1, GoneLater
<1> QED BY <1>6, <1>7, <1>8, <1>9 DEF RevInv

\* ... the documents it lists are removed one by one ...
LEMMA DestroyRev ==
    ASSUME RInv, NEW w \in Workers, DestroyRef(w) PROVE RevInv'
<1>0. /\ TypeOK /\ job[w] \in Job /\ WellFormed(job[w]) /\ Sane(job[w], held, grantOf)
  BY RFacts
<1>1. PICK t \in job[w].refs :
        /\ file' = [file EXCEPT ![t] = None]
        /\ Become(w, [job[w] EXCEPT !.refs = job[w].refs \ {t}])
  BY <1>0 DEF DestroyRef, Job
<1> DEFINE j == [job[w] EXCEPT !.refs = job[w].refs \ {t}]
<1>2. job[w].pc = "destroying" /\ UNCHANGED <<index, held, answered, grantOf, redeemed>>
  BY DEF DestroyRef, At, ghost
<1>3. /\ j.next = None /\ j.pc = "destroying" /\ ~Claiming(j)
      /\ j.doc = job[w].doc /\ j.refs = job[w].refs \ {t}
      /\ Sane(j, held, grantOf)
  BY <1>0, <1>2 DEF Job, Sane, Claiming, ClaimPCs
<1>4. Become(w, j) /\ t \in Tokens
  BY <1>0, <1>1 DEF Job
<1> HIDE DEF j
<1>5. job'[w] = j /\ \A v \in Workers \ {w} : job'[v] = job[v]
  BY <1>0, <1>4, WorkerMoves
<1>6. \A u \in Tokens : file'[u] = IF u = t THEN None ELSE file[u]
  BY <1>0, <1>1, <1>4 DEF TypeOK
<1>7. \A u \in Tokens : Alive(u)' => Alive(u)
  BY <1>0, <1>3, <1>4, <1>6, ClaimsAfter DEF Alive
<1>8. \A u \in Tokens : (Told(u)' => Told(u)) /\ (Coming(u)' => Coming(u))
  BY <1>2, <1>3, <1>5, ConstantsAssumption DEF Told, Coming
<1>9. SaneJobs'
  BY <1>2, <1>3, <1>4, SaneLater
<1>10. Covered'
  BY <1>2, <1>7, <1>8, CoveredLater
<1>11. Listed'
  BY <1>2 DEF RInv, RevInv, Listed
<1>12. Destroyed'
  <2>1. ASSUME NEW v \in Workers, job'[v].pc = "destroying"
        PROVE  job[v].pc = "destroying" /\ job'[v].doc = job[v].doc
               /\ job[v].doc.grant \in Codes
               /\ \A u \in job[v].refs : u \in job'[v].refs \/ u = t
    BY <1>2, <1>3, <1>5, <2>1, RFacts DEF WellFormed, Doc
  <2>2. \A k \in Codes : \A u \in index[k] : u \in Tokens
    BY <1>0 DEF TypeOK
  <2> QED BY <1>2, <1>6, <2>1, <2>2 DEF RInv, RevInv, Destroyed
<1>13. Gone'
  <2>1. Purged' = Purged
    BY <1>2, <1>3, <1>5 DEF Purged
  <2> QED BY <1>2, <1>7, <1>8, <2>1, GoneLater
<1> QED BY <1>9, <1>10, <1>11, <1>12, <1>13 DEF RevInv

\* When the last has been, nothing of the grant that matters is left: no handler
\* has a document of it in hand.
LEMMA NothingLeft ==
    ASSUME RInv, RevokesAlone, NEW w \in Workers, job[w].pc = "destroying",
           job[w].refs = {}, NEW t \in Tokens, grantOf[t] = job[w].doc.grant, Alive(t)
    PROVE  ~Coming(t)
<1>0. job[w].doc.grant \in Codes
  BY RFacts DEF WellFormed, Doc
<1>1. \A v \in Workers, d \in Docs : Claims(v, d) => GrantFor(d) # grantOf[t]
  BY DEF RevokesAlone, At
<1>2. file[t] # None
  <2>1. GrantFor(t) = grantOf[t]
    BY ConstantsAssumption DEF GrantFor
  <2> QED BY <1>1, <2>1 DEF Alive
<1>3. ~Told(t)
  <2>1. t \notin index[grantOf[t]]
    BY <1>2 DEF RInv, RevInv, Destroyed
  <2> QED BY <2>1 DEF RInv, RevInv, Covered
<1>4. ASSUME NEW v \in Workers, job[v].next = t PROVE FALSE
  <2>1. /\ job[v].pc \in {"index", "indexing"} /\ job[v].op \in {"code", "refresh"}
        /\ grantOf[t] = GrantFor(job[v].id)
    BY <1>3, <1>4, RFacts, ConstantsAssumption DEF Told, Sane, GrantFor
  <2>2. Claims(v, job[v].id) /\ job[v].id \in Docs
    BY <2>1, RFacts DEF Claiming, ClaimPCs, WellFormed
  <2> QED BY <1>1, <2>1, <2>2
<1> QED BY <1>3, <1>4 DEF Coming, Told

\* So the index is removed for good.
LEMMA UnlockRev ==
    ASSUME RInv, RevokesAlone, NEW w \in Workers, RevokeUnlock(w) PROVE RevInv'
<1> DEFINE g == job[w].doc.grant
<1>0. /\ TypeOK /\ job[w] \in Job /\ WellFormed(job[w]) /\ Sane(job[w], held, grantOf)
  BY RFacts
<1>1. /\ job[w].pc = "destroying" /\ job[w].refs = {} /\ g \in Codes
      /\ job[w].id \in Tokens /\ g = grantOf[job[w].id]
  BY <1>0 DEF RevokeUnlock, At, WellFormed, Doc, Sane
<1>2. /\ index' = [index EXCEPT ![g] = {}]
      /\ UNCHANGED <<file, held, grantOf, redeemed>>
      /\ answered' \subseteq answered \cup {g}
  BY DEF RevokeUnlock, Revoked
<1>3. PICK j : /\ Become(w, j) /\ j.next = None /\ ~Claiming(j)
               /\ j = NoJob \/ (j.pc = "drop" /\ j.doc = job[w].doc)
               /\ Sane(j, held, grantOf)
  <2>1. Become(w, NoJob) \/ Become(w, [job[w] EXCEPT !.pc = "drop"])
    BY DEF RevokeUnlock, Revoked, Finish, Goto
  <2>2. /\ [job[w] EXCEPT !.pc = "drop"].next = None
        /\ ~Claiming([job[w] EXCEPT !.pc = "drop"])
        /\ [job[w] EXCEPT !.pc = "drop"].pc = "drop"
        /\ [job[w] EXCEPT !.pc = "drop"].doc = job[w].doc
        /\ Sane([job[w] EXCEPT !.pc = "drop"], held, grantOf)
    BY <1>0, <1>1 DEF Job, Sane, Claiming, ClaimPCs
  <2> QED BY <2>1, <2>2, IdleSane
<1> HIDE DEF g
<1>4. job'[w] = j /\ \A v \in Workers \ {w} : job'[v] = job[v]
  BY <1>0, <1>3, WorkerMoves
<1>5. \A u \in Tokens : Alive(u)' => Alive(u)
  BY <1>0, <1>2, <1>3, ClaimsAfter DEF Alive
<1>6. \A u \in Tokens : (Told(u)' => Told(u)) /\ (Coming(u)' => Coming(u))
  BY <1>2, <1>3, <1>4, ConstantsAssumption DEF Told, Coming
<1>7. \A u \in Tokens : grantOf[u] = g /\ Alive(u) => ~Coming(u)
  BY <1>1, NothingLeft DEF g
<1>8. SaneJobs'
  BY <1>2, <1>3, SaneLater
<1>9. Covered'
  <2>1. ASSUME NEW u \in Tokens, Alive(u), Told(u) PROVE grantOf[u] \in Codes /\ grantOf[u] # g
    <3>1. grantOf[u] # None
      BY <2>1, RFacts DEF Told, RInv, GrantInv, IInv, Fresh
    <3>2. Coming(u)
      BY <2>1 DEF Told, Coming
    <3> QED BY <1>0, <1>7, <2>1, <3>1, <3>2 DEF TypeOK
  <2> QED BY <1>0, <1>2, <1>5, <1>6, <2>1 DEF RInv, RevInv, Covered, TypeOK
<1>10. Listed'
  BY <1>0, <1>2 DEF RInv, RevInv, Listed, TypeOK
<1>11. Destroyed'
  <2>1. \A v \in Workers \ {w} : job[v].pc # "destroying"
    BY <1>1 DEF RInv, MuInv, Critical
  <2>2. j.pc # "destroying"
    BY <1>3, IdleSane
  <2> QED BY <1>4, <2>1, <2>2 DEF Destroyed
<1>12. Gone'
  <2>1. Purged' \subseteq Purged \cup {g}
    <3>1. j.pc = "drop" => j.doc.grant = g
      BY <1>3, IdleSane DEF g
    <3> QED BY <1>2, <1>4, <3>1 DEF Purged
  <2>2. redeemed[g] # 0
    <3>1. g # None
      BY <1>1, ConstantsAssumption
    <3> QED BY <1>1, <3>1 DEF RInv, GrantInv, Drawn
  <2> QED BY <1>2, <1>5, <1>6, <1>7, <2>1, <2>2 DEF RInv, RevInv, Gone
<1> QED BY <1>8, <1>9, <1>10, <1>11, <1>12 DEF RevInv

\* The callers of revokeGrant go on to remove the token they were given.
LEMMA DropRev ==
    ASSUME RInv, NEW w \in Workers, Drop(w) PROVE RevInv'
<1> DEFINE g == job[w].doc.grant
<1>0. /\ TypeOK /\ job[w] \in Job /\ WellFormed(job[w]) /\ Sane(job[w], held, grantOf)
  BY RFacts
<1>1. /\ job[w].pc = "drop" /\ job[w].id \in Tokens /\ g \in Codes /\ g \in Purged
      /\ job[w].op \in {"revoke", "delete", "refresh"} /\ job[w].next = None
  BY <1>0 DEF Drop, At, WellFormed, Doc, Purged, Ops, Sane
<1>2. /\ file' = [file EXCEPT ![job[w].id] = None]
      /\ UNCHANGED <<index, held, grantOf, redeemed>>
      /\ answered' \subseteq answered \cup {g}
  BY DEF Drop, Dropped
<1>3. PICK j : /\ Become(w, j) /\ j.next = None /\ ~Claiming(j)
               /\ j.pc \notin {"destroying", "drop"}
               /\ Sane(j, held, grantOf)
  <2> DEFINE i == [job[w] EXCEPT !.pc = "next", !.id = None, !.doc = None]
  <2>1. Become(w, NoJob) \/ (job[w].op = "delete" /\ Become(w, i))
    BY DEF Drop, Dropped, Finish
  <2>2. /\ i.next = None /\ i.pc = "next" /\ i.op = job[w].op
        /\ job[w].op = "delete" => ~Claiming(i) /\ Sane(i, held, grantOf)
    BY <1>0, <1>1 DEF Job, Sane, Claiming, ClaimPCs
  <2> HIDE DEF i
  <2> QED BY <2>1, <2>2, IdleSane
<1> HIDE DEF g
<1>4. job'[w] = j /\ \A v \in Workers \ {w} : job'[v] = job[v]
  BY <1>0, <1>3, WorkerMoves
<1>5. \A u \in Tokens : Alive(u)' => Alive(u)
  BY <1>0, <1>2, <1>3, ClaimsAfter DEF Alive
<1>6. \A u \in Tokens : (Told(u)' => Told(u)) /\ (Coming(u)' => Coming(u))
  BY <1>2, <1>3, <1>4, ConstantsAssumption DEF Told, Coming
<1>7. SaneJobs'
  BY <1>2, <1>3, SaneLater
<1>8. Covered'
  BY <1>2, <1>5, <1>6, CoveredLater
<1>9. Listed'
  BY <1>2 DEF RInv, RevInv, Listed
<1>10. Destroyed'
  <2>1. \A v \in Workers : job'[v].pc = "destroying" =>
          job'[v] = job[v] /\ job[v].doc.grant \in Codes
    BY <1>3, <1>4, RFacts DEF WellFormed, Doc
  <2>2. \A k \in Codes : \A u \in index[k] : file'[u] \in {file[u], None}
    BY <1>0, <1>1, <1>2 DEF TypeOK
  <2> QED BY <1>2, <2>1, <2>2 DEF RInv, RevInv, Destroyed
<1>11. Gone'
  <2>1. Purged' \subseteq Purged
    BY <1>1, <1>2, <1>3, <1>4 DEF Purged
  <2> QED BY <1>2, <1>5, <1>6, <2>1, GoneLater
<1> QED BY <1>7, <1>8, <1>9, <1>10, <1>11 DEF RevInv

-----------------------------------------------------------------------------
(* The rest.                                                               *)

\* Steps of no worker: tokens may go, and all the workers may.
LEMMA NobodyRev ==
    ASSUME RInv, UNCHANGED <<index, held, answered, grantOf, redeemed>>,
           \A t \in Tokens : file'[t] \in {file[t], None},
           job' = job \/ job' = [w \in Workers |-> NoJob]
    PROVE  RevInv'
<1>1. \A w \in Workers : job'[w] = job[w] \/ job'[w] = NoJob
  OBVIOUS
<1>2. \A t \in Tokens : Alive(t)' => Alive(t)
  BY <1>1, IdleSane DEF Alive, Claims, Claiming, ClaimPCs
<1>3. \A t \in Tokens : (Told(t)' => Told(t)) /\ (Coming(t)' => Coming(t))
  BY <1>1, IdleSane, ConstantsAssumption DEF Told, Coming
<1>4. SaneJobs'
  BY <1>1, IdleSane DEF RInv, RevInv, SaneJobs
<1>5. Covered'
  BY <1>2, <1>3, CoveredLater
<1>6. Listed'
  BY DEF RInv, RevInv, Listed
<1>7. Destroyed'
  <2>1. \A w \in Workers : job'[w].pc = "destroying" =>
          job'[w] = job[w] /\ job[w].doc.grant \in Codes
    BY <1>1, IdleSane, RFacts DEF WellFormed, Doc
  <2>2. \A k \in Codes : \A u \in index[k] : u \in Tokens
    BY DEF RInv, GrantInv, IInv, TypeOK
  <2> QED BY <2>1, <2>2 DEF RInv, RevInv, Destroyed
<1>8. Gone'
  <2>1. Purged' \subseteq Purged
    BY <1>1, IdleSane DEF Purged
  <2> QED BY <1>2, <1>3, <2>1, GoneLater
<1> QED BY <1>4, <1>5, <1>6, <1>7, <1>8 DEF RevInv

\* The environment removes documents and stores codes.
LEMMA RestRev ==
    ASSUME RInv, Environment \/ UNCHANGED vars PROVE RevInv'
<1>1. UNCHANGED <<index, held, answered, grantOf, redeemed>>
  BY DEF Environment, MintCode, SweepExpired, SweepClaim, Tick, Crash, vars, disk, ghost
<1>2. \A t \in Tokens : file'[t] \in {file[t], None}
  <2>1. \A t \in Tokens : t \notin Codes
    BY ConstantsAssumption
  <2>2. TypeOK
    BY DEF RInv, GrantInv, IInv
  <2>3. CASE UNCHANGED file
    BY <2>3
  <2>4. ASSUME NEW k \in Codes, NEW c \in Clients, NEW a \in Accounts, NEW b \in Bindings,
                MintCode(k, c, a, b)
         PROVE  \A t \in Tokens : file'[t] \in {file[t], None}
    BY <2>1, <2>2, <2>4 DEF MintCode, TypeOK
  <2>5. ASSUME NEW d \in Docs, SweepExpired(d)
         PROVE  \A t \in Tokens : file'[t] \in {file[t], None}
    BY <2>2, <2>5 DEF SweepExpired, TypeOK
  <2> QED BY <2>3, <2>4, <2>5 DEF Environment, SweepClaim, Tick, Crash, vars, disk
<1>3. job' = job \/ job' = [w \in Workers |-> NoJob]
  BY DEF Environment, MintCode, SweepExpired, SweepClaim, Tick, Crash, vars
<1> QED BY <1>1, <1>2, <1>3, NobodyRev

\* It holds of the empty store.
LEMMA RevEmpty == EmptyStore /\ clients \subseteq Clients => RInv
<1> SUFFICES ASSUME EmptyStore /\ clients \subseteq Clients PROVE RInv
  OBVIOUS
<1>1. GrantInv /\ MuInv
  BY GrantEmpty, MuEmpty DEF Inv
<1>2. SaneJobs /\ Listed
  BY IdleSane DEF EmptyStore, SaneJobs, Listed
<1>3. \A t \in Tokens : ~Alive(t)
  BY IdleSane DEF EmptyStore, Alive, Claims, Claiming, ClaimPCs
<1>4. Destroyed /\ Purged = {}
  BY IdleSane DEF EmptyStore, Destroyed, Purged
<1> QED BY <1>1, <1>2, <1>3, <1>4 DEF RInv, RevInv, Covered, Gone

\* So it holds when all clients have been registered at the start.
LEMMA RevStart == Init => RInv
BY RevEmpty DEF Init

\* Every step keeps it, on a disk without errors, while revocations are alone
\* with the documents they destroy.
LEMMA RevStep ==
    ASSUME MaxFaults = 0, RInv, RevokesAlone, [Next]_vars PROVE RInv'
<1>1. GrantInv'
  BY GrantStep DEF RInv
<1>2. MuInv'
  BY MuStep DEF RInv, GrantInv, IInv, Inv
<1>3. ASSUME NEW w \in Workers, Work(w) PROVE RevInv'
  <2>1. CASE \/ ClaimRename(w) \/ ClaimRead(w) \/ CheckCode(w) \/ CheckRefresh(w)
             \/ IssueForRefresh(w) \/ GrantRead(w) \/ Respond(w)
    BY <2>1, HandlerRev
  <2>2. CASE RevokeGet(w) \/ ListTokens(w) \/ NextToken(w) \/ Deleted(w)
    BY <2>2, ReaderRev
  <2>3. CASE IssueForCode(w) \/ PutNext(w) \/ PutBack(w) \/ GrantWrite(w)
    BY <2>3, IssueRev, RotateRev, PutBackRev, AppendRev
  <2>4. CASE RevokeLock(w) \/ DestroyRef(w) \/ RevokeUnlock(w) \/ Drop(w)
    BY <2>4, LockRev, DestroyRev, UnlockRev, DropRev
  <2> QED BY <1>3, <2>1, <2>2, <2>3, <2>4 DEF Work
<1>4. ASSUME NEW w \in Workers PROVE ~DiskFault(w)
  BY NoFaults DEF RInv, GrantInv, IInv
<1>5. RevInv'
  BY <1>3, <1>4, StartRev, RestRev DEF Next
<1> QED BY <1>1, <1>2, <1>5 DEF RInv

\* So it holds in every reachable state.
LEMMA RevInvariance ==
    ASSUME MaxFaults = 0 PROVE Spec /\ []RevokesAlone => []RInv
<1>1. RInv /\ RevokesAlone /\ [Next]_vars => RInv'
  BY RevStep
<1> QED BY <1>1, RevStart, PTL DEF Spec

\* What the invariant says when no request is in progress, and at any other time.
LEMMA RevMeaning == RInv => IndexCoversHeld /\ RevokedGrantIsGone
<1> SUFFICES ASSUME RInv, NEW t \in held, file[t] # None
             PROVE  t \in index[grantOf[t]] /\ grantOf[t] \notin answered
  BY DEF IndexCoversHeld, RevokedGrantIsGone
<1>1. t \in Tokens /\ grantOf[t] \in Codes
  BY DEF RInv, GrantInv, IInv, TypeOK, Fresh
<1>2. Alive(t) /\ Told(t) /\ Coming(t)
  BY DEF Alive, Told, Coming
<1> QED BY <1>1, <1>2 DEF RInv, RevInv, Covered, Gone, Purged

-----------------------------------------------------------------------------
(* The theorems.                                                           *)

\* If no revocation destroys a grant while another handler has a document of it
\* in hand, every token that a client holds and the disk has is listed under its
\* grant, crashes included (addToGrant follows every put of a new token).
THEOREM HeldTokensAreIndexed ==
    ASSUME MaxFaults = 0 PROVE Spec /\ []RevokesAlone => []IndexCoversHeld
<1>1. RInv => IndexCoversHeld
  BY RevMeaning
<1> QED BY <1>1, RevInvariance, PTL

\* Under the same condition, a revocation that has been answered, or a refusal
\* for reuse, has taken every token of the grant that a client holds
\* (revokeGrant, handleRevocation).  So the overlap it excludes is the only one
\* that lets a token survive its revocation.
THEOREM RevocationTakesTheGrant ==
    ASSUME MaxFaults = 0 PROVE Spec /\ []RevokesAlone => []RevokedGrantIsGone
<1>1. RInv => RevokedGrantIsGone
  BY RevMeaning
<1> QED BY <1>1, RevInvariance, PTL

\* A server that handles one request at a time meets the condition.
LEMMA OneWorkerRevokesAlone ==
    ASSUME \A v, w \in Workers : v = w PROVE RevokesAlone
BY DEF RevokesAlone, At, Claims

-----------------------------------------------------------------------------
(* Client deletion.  A request that authenticated before the deletion can  *)
(* put a token after it has listed them.  The theorem names that overlap.  *)

\* When a deletion lists the tokens, no grant of that client is being redeemed
\* or refreshed.
DeletesAlone ==
    \A w, v \in Workers :
      At(w, "list") /\ job[v].op \in {"code", "refresh"} => job[v].client # job[w].client

\* Job j has listed the tokens of its client.
Deleting(j) == j.op = "delete" /\ j.pc \in {"next", "lock", "destroying", "drop"}

\* Still to be removed by it.
ToRemove(j) == j.todo \cup (IF j.pc = "next" THEN {} ELSE {j.id})

\* A document that passed the checks is the client's own.
Own(j) ==
    j.op \in {"code", "refresh"} /\ j.pc \in {"issue", "put", "index", "indexing", "back"}
      => j.doc.client = j.client

\* The clients that can get no new token.
Leaving ==
    (answered \cap Clients) \cup
    {c \in Clients : \E w \in Workers : Deleting(job[w]) /\ job[w].client = c}

\* Their requests are over, and no new one is accepted.
Barred ==
    /\ answered \cap clients = {}
    /\ \A w \in Workers : job[w].op = "delete" => job[w].client \notin clients
    /\ \A w \in Workers : job[w].op \in {"code", "refresh"} => job[w].client \notin Leaving

\* Their tokens are gone, or still to be visited.
Swept ==
    /\ \A t \in Tokens : Live(t) => file[t].client \notin answered
    /\ \A w \in Workers, t \in Tokens :
         Deleting(job[w]) /\ Live(t) /\ file[t].client = job[w].client => t \in ToRemove(job[w])

DelInv == (\A w \in Workers : Own(job[w])) /\ Barred /\ Swept

DInv == IInv /\ DelInv

\* What the invariant says of one worker.
LEMMA DFacts ==
    ASSUME DInv, NEW w \in Workers
    PROVE  /\ TypeOK /\ JobOK /\ job[w] \in Job /\ WellFormed(job[w]) /\ Own(job[w])
           /\ Deleting(job[w]) => job[w].client \in Clients
BY DEF DInv, DelInv, IInv, TypeOK, JobOK, WellFormed, Deleting

\* A step of one worker that deletes no client, or goes on with a deletion; what
\* it puts is its own client's.
LEMMA DelPlain ==
    ASSUME DInv, IInv', NEW w \in Workers, NEW j, Become(w, j), now' = now,
           clients' \subseteq clients, answered' \subseteq answered \cup Codes,
           \A t \in Tokens : \/ file'[t] \in {file[t], None}
                             \/ /\ file'[t].client = job[w].client
                                /\ job[w].op \in {"code", "refresh"},
           Own(j),
           j.op = "delete" => j.client \notin clients',
           j.op \in {"code", "refresh"} => j.client \notin Leaving,
           Deleting(j) =>
             /\ Deleting(job[w]) /\ j.client = job[w].client
             /\ \A t \in ToRemove(job[w]) \ ToRemove(j) :
                  t \in Tokens => \/ ~Live(t)' \/ file'[t].client # j.client
    PROVE  DelInv'
<1>1. job'[w] = j /\ \A v \in Workers \ {w} : job'[v] = job[v]
  BY DFacts, WorkerMoves
<1>2. Leaving' \subseteq Leaving
  BY <1>1, ConstantsAssumption DEF Leaving
<1>3. \A v \in Workers : Own(job'[v])
  BY <1>1, DFacts
<1>4. Barred'
  <2>1. answered' \cap clients' = {}
    BY ConstantsAssumption DEF DInv, DelInv, Barred, IInv, TypeOK
  <2> QED BY <1>1, <1>2, <2>1 DEF DInv, DelInv, Barred
<1>5. ASSUME NEW t \in Tokens, Live(t)', file'[t].client \in Leaving
      PROVE  file'[t] = file[t] /\ Live(t)
  <2>1. file'[t] # None
    BY <1>5 DEF Live
  <2>2. file'[t] = file[t]
    BY <1>5, <2>1 DEF DInv, DelInv, Barred
  <2> QED BY <1>5, <2>2 DEF Live, Expired
<1>6. \A t \in Tokens : Live(t)' => file'[t].client \in Clients
  BY DEF IInv, TypeOK, Live, Doc
<1>7. ASSUME NEW t \in Tokens, Live(t)' PROVE file'[t].client \notin answered'
  <2>1. file'[t].client \in answered' => file'[t].client \in Leaving
    BY <1>6, <1>7, ConstantsAssumption DEF Leaving
  <2>2. file'[t].client \in answered' => file'[t].client \in answered
    BY <1>6, <1>7, ConstantsAssumption
  <2> QED BY <1>5, <1>7, <2>1, <2>2 DEF DInv, DelInv, Swept
<1>8. ASSUME NEW v \in Workers, NEW t \in Tokens, Deleting(job'[v]), Live(t)',
             file'[t].client = job'[v].client
      PROVE  t \in ToRemove(job'[v])
  <2>1. Deleting(job[v]) /\ job'[v].client = job[v].client
    BY <1>1, <1>8
  <2>2. file'[t].client \in Leaving
    BY <1>8, <2>1, DFacts DEF Leaving
  <2>3. t \in ToRemove(job[v])
    BY <1>5, <1>8, <2>1, <2>2 DEF DInv, DelInv, Swept
  <2> QED BY <1>1, <1>8, <2>3
<1> QED BY <1>3, <1>4, <1>7, <1>8 DEF DelInv, Swept

\* A worker with nothing to do deletes nothing.
LEMMA IdleOwn ==
    Own(NoJob) /\ ~Deleting(NoJob) /\ NoJob.op \notin {"code", "refresh", "delete"}
BY NoneAssumption DEF Own, Deleting, NoJob, Ops

\* Only registered clients start a request.
LEMMA StartDel ==
    ASSUME DInv, IInv', NEW w \in Workers, Start(w) PROVE DelInv'
<1>1. UNCHANGED <<now, file, answered>> /\ clients' \subseteq clients
  BY DEF Start, StartCode, StartRefresh, StartRevoke, StartDelete, disk, ghost
<1>2. \A c \in clients : c \in Clients /\ c \notin Leaving
  BY DFacts DEF DInv, DelInv, Barred, Leaving, Deleting, IInv, TypeOK
<1>3. ASSUME NEW c \in Clients, NEW k \in Codes, NEW b \in Bindings, StartCode(w, c, k, b)
      PROVE  DelInv'
  <2> DEFINE j == [NoJob EXCEPT !.pc = "claim", !.op = "code", !.client = c, !.id = k,
                                !.bind = b]
  <2>1. Become(w, j) /\ c \in clients
    BY <1>3 DEF StartCode
  <2>2. ~Deleting(j) /\ j.op = "code" /\ j.client = c /\ Own(j)
    BY DEF NoJob, Deleting, Own
  <2> HIDE DEF j
  <2> QED BY <1>1, <1>2, <2>1, <2>2, DelPlain
<1>4. ASSUME NEW c \in Clients, NEW t \in Tokens, StartRefresh(w, c, t) \/ StartRevoke(w, c, t)
      PROVE  DelInv'
  <2> DEFINE i == [NoJob EXCEPT !.pc = "claim", !.op = "refresh", !.client = c, !.id = t]
             j == [NoJob EXCEPT !.pc = "get", !.op = "revoke", !.client = c, !.id = t]
  <2>1. (Become(w, i) \/ Become(w, j)) /\ c \in clients
    BY <1>4 DEF StartRefresh, StartRevoke
  <2>2. ~Deleting(i) /\ i.op = "refresh" /\ i.client = c /\ Own(i)
    BY DEF NoJob, Deleting, Own
  <2>3. ~Deleting(j) /\ j.op = "revoke" /\ Own(j)
    BY DEF NoJob, Deleting, Own
  <2> HIDE DEF i, j
  <2> QED BY <1>1, <1>2, <2>1, <2>2, <2>3, DelPlain
<1>5. ASSUME NEW c \in Clients, StartDelete(w, c) PROVE DelInv'
  <2> DEFINE j == [NoJob EXCEPT !.pc = "list", !.op = "delete", !.client = c]
  <2>1. Become(w, j) /\ clients' = clients \ {c}
    BY <1>5 DEF StartDelete
  <2>2. ~Deleting(j) /\ j.op = "delete" /\ j.client = c /\ Own(j)
    BY DEF NoJob, Deleting, Own
  <2> HIDE DEF j
  <2> QED BY <1>1, <2>1, <2>2, DelPlain
<1> QED BY <1>3, <1>4, <1>5 DEF Start

\* A claim, the checks and the answer put nothing.
LEMMA HandlerDel ==
    ASSUME DInv, IInv', NEW w \in Workers,
           \/ ClaimRename(w) \/ ClaimRead(w) \/ CheckCode(w) \/ CheckRefresh(w)
           \/ IssueForRefresh(w) \/ GrantRead(w) \/ GrantWrite(w) \/ Respond(w)
    PROVE  DelInv'
<1>0. TypeOK /\ job[w] \in Job /\ WellFormed(job[w]) /\ Own(job[w])
  BY DFacts
<1>1. UNCHANGED <<now, clients, answered>>
  BY DEF ClaimRename, ClaimRead, CheckCode, CheckRefresh, IssueForRefresh, GrantRead,
         GrantWrite, Respond, disk, ghost
<1>2. \A t \in Tokens : file'[t] \in {file[t], None}
  BY <1>0 DEF ClaimRename, ClaimRead, CheckCode, CheckRefresh, IssueForRefresh, GrantRead,
         GrantWrite, Respond, disk, TypeOK
<1>3. ASSUME NEW j, Become(w, j), j.op = job[w].op, j.client = job[w].client, Own(j),
             job[w].op \in {"code", "refresh"}
      PROVE  DelInv'
  <2>1. job[w].client \notin Leaving
    BY <1>3 DEF DInv, DelInv, Barred
  <2>2. ~Deleting(j)
    BY <1>3 DEF Deleting
  <2> QED BY <1>1, <1>2, <1>3, <2>1, <2>2, DelPlain
<1>4. ASSUME Become(w, NoJob) PROVE DelInv'
  BY <1>1, <1>2, <1>4, IdleOwn, DelPlain
<1>5. CASE ClaimRename(w)
  <2> DEFINE j == [job[w] EXCEPT !.pc = "read"]
  <2>1. job[w].op \in {"code", "refresh"} /\ (Become(w, NoJob) \/ Become(w, j))
    BY <1>0, <1>5 DEF ClaimRename, Finish, Goto, At, WellFormed
  <2>2. j.op = job[w].op /\ j.client = job[w].client /\ Own(j)
    BY <1>0 DEF Job, Own
  <2> HIDE DEF j
  <2> QED BY <1>3, <1>4, <2>1, <2>2
<1>6. CASE ClaimRead(w)
  <2> DEFINE j == [job[w] EXCEPT !.pc = "check", !.doc = claimFile[job[w].id]]
  <2>1. job[w].op \in {"code", "refresh"} /\ (Become(w, NoJob) \/ Become(w, j))
    BY <1>0, <1>6 DEF ClaimRead, Finish, At, WellFormed
  <2>2. j.op = job[w].op /\ j.client = job[w].client /\ Own(j)
    BY <1>0 DEF Job, Own
  <2> HIDE DEF j
  <2> QED BY <1>3, <1>4, <2>1, <2>2
<1>7. CASE CheckCode(w)
  <2> DEFINE j == [job[w] EXCEPT !.pc = "issue"]
  <2>1. /\ job[w].op = "code"
        /\ Become(w, NoJob) \/ (job[w].doc.client = job[w].client /\ Become(w, j))
    BY <1>7 DEF CheckCode, CodeMatches, Finish, Goto
  <2>2. j.op = job[w].op /\ j.client = job[w].client /\ j.doc = job[w].doc
    BY <1>0 DEF Job
  <2> HIDE DEF j
  <2> QED BY <1>3, <1>4, <2>1, <2>2 DEF Own
<1>8. CASE CheckRefresh(w)
  <2>1. job[w].op = "refresh"
    BY <1>8 DEF CheckRefresh
  <2>2. \/ Become(w, NoJob)
        \/ Become(w, [job[w] EXCEPT !.pc = "lock"])
        \/ /\ job[w].doc.client = job[w].client
           /\ \E b : Become(w, [job[w] EXCEPT !.pc = "issue", !.at = now, !.rotate = b])
    BY <1>8 DEF CheckRefresh, Goto, Finish
  <2>3. ASSUME Become(w, [job[w] EXCEPT !.pc = "lock"]) PROVE DelInv'
    <3> DEFINE j == [job[w] EXCEPT !.pc = "lock"]
    <3>1. j.op = job[w].op /\ j.client = job[w].client /\ Own(j)
      BY <1>0 DEF Job, Own
    <3>2. Become(w, j)
      BY <2>3
    <3> HIDE DEF j
    <3> QED BY <1>3, <2>1, <3>1, <3>2
  <2>4. ASSUME NEW b, Become(w, [job[w] EXCEPT !.pc = "issue", !.at = now, !.rotate = b]),
               job[w].doc.client = job[w].client
        PROVE  DelInv'
    <3> DEFINE j == [job[w] EXCEPT !.pc = "issue", !.at = now, !.rotate = b]
    <3>1. j.op = job[w].op /\ j.client = job[w].client /\ j.doc = job[w].doc
      BY <1>0 DEF Job
    <3>2. Become(w, j)
      BY <2>4
    <3> HIDE DEF j
    <3> QED BY <1>3, <2>1, <2>4, <3>1, <3>2 DEF Own
  <2> QED BY <1>4, <2>2, <2>3, <2>4
<1>9. CASE IssueForRefresh(w)
  <2>1. /\ job[w].op = "refresh" /\ job[w].pc = "issue"
        /\ \E p \in {"put", "back"} : Become(w, [job[w] EXCEPT !.pc = p])
    BY <1>9 DEF IssueForRefresh, At, Goto
  <2>2. PICK p \in {"put", "back"} : Become(w, [job[w] EXCEPT !.pc = p])
    BY <2>1
  <2> DEFINE j == [job[w] EXCEPT !.pc = p]
  <2>3. j.op = job[w].op /\ j.client = job[w].client /\ Own(j)
    BY <1>0, <2>1 DEF Job, Own
  <2>4. Become(w, j)
    BY <2>2
  <2> HIDE DEF j
  <2> QED BY <1>3, <2>1, <2>3, <2>4
<1>10. CASE GrantRead(w)
  <2> DEFINE j == [job[w] EXCEPT !.pc = "indexing", !.refs = grantRefs(job[w].doc.grant)]
  <2>1. /\ job[w].op \in {"code", "refresh"} /\ job[w].pc = "index" /\ Become(w, j)
    BY <1>0, <1>10 DEF GrantRead, At, WellFormed
  <2>2. j.op = job[w].op /\ j.client = job[w].client /\ Own(j)
    BY <1>0, <2>1 DEF Job, Own
  <2> HIDE DEF j
  <2> QED BY <1>3, <2>1, <2>2
<1>11. CASE GrantWrite(w)
  <2>1. /\ job[w].op \in {"code", "refresh"} /\ job[w].pc = "indexing"
        /\ Become(w, Indexed(w))
    BY <1>0, <1>11 DEF GrantWrite, At, WellFormed
  <2>2. Indexed(w).op = job[w].op /\ Indexed(w).client = job[w].client /\ Own(Indexed(w))
    BY <1>0, <2>1 DEF Job, Own, Indexed
  <2> QED BY <1>3, <2>1, <2>2
<1>12. CASE Respond(w)
  BY <1>4, <1>12 DEF Respond, Finish
<1> QED BY <1>5, <1>6, <1>7, <1>8, <1>9, <1>10, <1>11, <1>12

\* What a handler puts is a token of the client that authenticated.
LEMMA PutDel ==
    ASSUME DInv, IInv', NEW w \in Workers, IssueForCode(w) \/ PutNext(w) \/ PutBack(w)
    PROVE  DelInv'
<1>0. TypeOK /\ job[w] \in Job /\ WellFormed(job[w]) /\ Own(job[w])
  BY DFacts
<1>1. /\ job[w].op \in {"code", "refresh"} /\ job[w].doc \in Doc
      /\ job[w].pc \in {"issue", "put", "back"} /\ job[w].client \in Clients
      /\ job[w].at \in Nat
  BY <1>0 DEF IssueForCode, PutNext, PutBack, At, WellFormed, Job
<1>2. job[w].doc.client = job[w].client /\ job[w].client \notin Leaving
  BY <1>0, <1>1 DEF Own, DInv, DelInv, Barred
<1>3. UNCHANGED <<now, clients, answered>>
  BY DEF IssueForCode, PutNext, PutBack
<1>4. \A t \in Tokens : file'[t] = file[t] \/ file'[t].client = job[w].client
  <2>1. Stamp(FirstToken(job[w].doc, job[w].client), RefreshTTL).client = job[w].client
    BY <1>0, <1>1, FirstTokenFields DEF TypeOK
  <2>2. Stamp(Successor(job[w].doc, job[w].at), RefreshTTL).client = job[w].client
    <3>1. Successor(job[w].doc, job[w].at) \in Doc
      BY <1>1, SuccessorType
    <3>2. Successor(job[w].doc, job[w].at).client = job[w].doc.client
      BY <1>1 DEF Successor, Doc
    <3> QED BY <1>0, <1>2, <3>1, <3>2, StampType, TimesAssumption DEF TypeOK
  <2>3. Presented(w).client = job[w].client
    BY <1>0, <1>1, <1>2, PresentedFields DEF TypeOK
  <2>4. DOMAIN file = Docs
    BY <1>0 DEF TypeOK
  <2>5. \/ file' = file
        \/ \E t \in Tokens :
             file' = [file EXCEPT ![t] =
                        Stamp(FirstToken(job[w].doc, job[w].client), RefreshTTL)]
        \/ \E t \in Tokens :
             file' = [file EXCEPT ![t] = Stamp(Successor(job[w].doc, job[w].at), RefreshTTL)]
        \/ file' = [file EXCEPT ![job[w].id] = Presented(w)]
    BY DEF IssueForCode, PutNext, PutBack
  <2> QED BY <2>1, <2>2, <2>3, <2>4, <2>5
<1>5. ASSUME NEW j, Become(w, j), j.op = job[w].op, j.client = job[w].client,
             j.doc = job[w].doc
      PROVE  DelInv'
  <2>1. Own(j) /\ ~Deleting(j) /\ j.op # "delete" /\ j.client \notin Leaving
    BY <1>1, <1>2, <1>5 DEF Own, Deleting
  <2> QED BY <1>1, <1>3, <1>4, <1>5, <2>1, DelPlain
<1>6. \/ Become(w, [job[w] EXCEPT !.pc = "respond"])
      \/ \E t \in Tokens : Become(w, [job[w] EXCEPT !.pc = "index", !.next = t])
  BY DEF IssueForCode, PutNext, PutBack, Goto
<1>7. ASSUME Become(w, [job[w] EXCEPT !.pc = "respond"]) PROVE DelInv'
  <2> DEFINE j == [job[w] EXCEPT !.pc = "respond"]
  <2>1. j.op = job[w].op /\ j.client = job[w].client /\ j.doc = job[w].doc /\ Become(w, j)
    BY <1>0, <1>7 DEF Job
  <2> HIDE DEF j
  <2> QED BY <1>5, <2>1
<1>8. ASSUME NEW t \in Tokens, Become(w, [job[w] EXCEPT !.pc = "index", !.next = t])
      PROVE  DelInv'
  <2> DEFINE j == [job[w] EXCEPT !.pc = "index", !.next = t]
  <2>1. j.op = job[w].op /\ j.client = job[w].client /\ j.doc = job[w].doc /\ Become(w, j)
    BY <1>0, <1>8 DEF Job
  <2> HIDE DEF j
  <2> QED BY <1>5, <2>1
<1> QED BY <1>6, <1>7, <1>8

\* A revocation looks a token up, or goes on with what it found; a deletion goes on
\* with the token it took.
LEMMA RevokeDel ==
    ASSUME DInv, IInv', NEW w \in Workers,
           RevokeGet(w) \/ RevokeLock(w) \/ DestroyRef(w) \/ RevokeUnlock(w)
    PROVE  DelInv'
<1>0. TypeOK /\ job[w] \in Job /\ WellFormed(job[w])
  BY DFacts
<1>1. UNCHANGED <<now, clients>> /\ answered' \subseteq answered \cup Codes
  BY <1>0 DEF RevokeGet, RevokeLock, DestroyRef, RevokeUnlock, Revoked, At, WellFormed, Doc,
         disk, ghost
<1>2. \A t \in Tokens : file'[t] \in {file[t], None}
  BY <1>0 DEF RevokeGet, RevokeLock, DestroyRef, RevokeUnlock, DropIfExpired, disk, TypeOK
<1>3. ASSUME NEW j, Become(w, j), j.op = job[w].op, j.client = job[w].client, Own(j),
             Deleting(j) => Deleting(job[w]) /\ ToRemove(j) = ToRemove(job[w])
      PROVE  DelInv'
  BY <1>1, <1>2, <1>3, DelPlain DEF DInv, DelInv, Barred
<1>4. ASSUME Become(w, NoJob) PROVE DelInv'
  BY <1>1, <1>2, <1>4, IdleOwn, DelPlain
<1>5. CASE RevokeGet(w)
  <2> DEFINE j == [job[w] EXCEPT !.pc = "lock", !.doc = file[job[w].id]]
  <2>1. job[w].op = "revoke" /\ (Become(w, NoJob) \/ Become(w, j))
    BY <1>5 DEF RevokeGet, Finish
  <2>2. j.op = job[w].op /\ j.client = job[w].client /\ j.pc = "lock"
    BY <1>0 DEF Job
  <2> HIDE DEF j
  <2> QED BY <1>3, <1>4, <2>1, <2>2 DEF Own, Deleting
<1>6. CASE RevokeLock(w)
  <2> DEFINE j == [job[w] EXCEPT !.pc = "destroying", !.refs = grantRefs(job[w].doc.grant)]
  <2>1. job[w].pc = "lock" /\ Become(w, j)
    BY <1>6 DEF RevokeLock, At
  <2>2. /\ j.op = job[w].op /\ j.client = job[w].client /\ j.pc = "destroying"
        /\ j.todo = job[w].todo /\ j.id = job[w].id
    BY <1>0 DEF Job
  <2> HIDE DEF j
  <2> QED BY <1>3, <2>1, <2>2 DEF Own, Deleting, ToRemove
<1>7. CASE DestroyRef(w)
  <2>1. PICK t \in job[w].refs : Become(w, [job[w] EXCEPT !.refs = job[w].refs \ {t}])
    BY <1>0, <1>7 DEF DestroyRef, Job
  <2> DEFINE j == [job[w] EXCEPT !.refs = job[w].refs \ {t}]
  <2>2. /\ j.op = job[w].op /\ j.client = job[w].client /\ j.pc = "destroying"
        /\ job[w].pc = "destroying" /\ j.todo = job[w].todo /\ j.id = job[w].id
    BY <1>0, <1>7 DEF Job, DestroyRef, At
  <2>3. Become(w, j)
    BY <2>1
  <2> HIDE DEF j
  <2> QED BY <1>3, <2>2, <2>3 DEF Own, Deleting, ToRemove
<1>8. CASE RevokeUnlock(w)
  <2> DEFINE j == [job[w] EXCEPT !.pc = "drop"]
  <2>1. job[w].pc = "destroying" /\ (Become(w, NoJob) \/ Become(w, j))
    BY <1>8 DEF RevokeUnlock, Revoked, Finish, Goto, At
  <2>2. /\ j.op = job[w].op /\ j.client = job[w].client /\ j.pc = "drop"
        /\ j.todo = job[w].todo /\ j.id = job[w].id
    BY <1>0 DEF Job
  <2> HIDE DEF j
  <2> QED BY <1>3, <1>4, <2>1, <2>2 DEF Own, Deleting, ToRemove
<1> QED BY <1>5, <1>6, <1>7, <1>8

\* The token taken is removed.
LEMMA DropDel ==
    ASSUME DInv, IInv', NEW w \in Workers, Drop(w) PROVE DelInv'
<1> DEFINE j == [job[w] EXCEPT !.pc = "next", !.id = None, !.doc = None]
<1>0. TypeOK /\ job[w] \in Job /\ WellFormed(job[w])
  BY DFacts
<1>1. /\ job[w].pc = "drop" /\ job[w].id \in Tokens /\ UNCHANGED <<now, clients>>
      /\ answered' \subseteq answered \cup Codes
      /\ file' = [file EXCEPT ![job[w].id] = None]
      /\ Become(w, NoJob) \/ (job[w].op = "delete" /\ Become(w, j))
  BY <1>0 DEF Drop, Dropped, Finish, At, WellFormed, Doc
<1>2. /\ file'[job[w].id] = None
      /\ \A t \in Tokens : file'[t] \in {file[t], None}
  BY <1>0, <1>1 DEF TypeOK
<1>3. CASE Become(w, NoJob)
  BY <1>1, <1>2, <1>3, IdleOwn, DelPlain
<1>4. CASE job[w].op = "delete" /\ Become(w, j)
  <2>1. /\ j.op = "delete" /\ j.client = job[w].client /\ j.pc = "next"
        /\ j.todo = job[w].todo
    BY <1>0, <1>4 DEF Job
  <2> HIDE DEF j
  <2>2. Own(j) /\ Deleting(job[w]) /\ j.op \notin {"code", "refresh"}
    BY <1>1, <1>4, <2>1 DEF Own, Deleting
  <2>3. \A t \in ToRemove(job[w]) \ ToRemove(j) : t = job[w].id
    BY <2>1 DEF ToRemove
  <2>4. \A t \in ToRemove(job[w]) \ ToRemove(j) : t \in Tokens => ~Live(t)'
    BY <1>2, <2>3 DEF Live
  <2>5. job[w].client \notin clients
    BY <1>4 DEF DInv, DelInv, Barred
  <2> QED BY <1>1, <1>2, <1>4, <2>1, <2>2, <2>4, <2>5, DelPlain
<1> QED BY <1>1, <1>3, <1>4

\* The next one is taken if it is live and the client's own, and passed over if it
\* is not.
LEMMA NextDel ==
    ASSUME DInv, IInv', NEW w \in Workers, NextToken(w) PROVE DelInv'
<1>0. TypeOK /\ job[w] \in Job /\ WellFormed(job[w])
  BY DFacts
<1>1. PICK t \in job[w].todo :
        /\ DropIfExpired(t)
        /\ \/ Become(w, [job[w] EXCEPT !.pc = "lock", !.id = t,
                           !.doc = file[t], !.todo = job[w].todo \ {t}])
           \/ /\ ~(Live(t) /\ file[t].client = job[w].client)
              /\ Become(w, [job[w] EXCEPT !.todo = job[w].todo \ {t}])
  BY <1>0 DEF NextToken, AfterSkip, Job
<1> DEFINE i == [job[w] EXCEPT !.pc = "lock", !.id = t,
                   !.doc = file[t], !.todo = job[w].todo \ {t}]
           j == [job[w] EXCEPT !.todo = job[w].todo \ {t}]
<1>2. /\ t \in Tokens /\ job[w].pc = "next" /\ job[w].op = "delete"
      /\ UNCHANGED <<now, clients, answered>>
  BY <1>0, <1>1 DEF Job, NextToken, At, WellFormed, ghost
<1>3. \A u \in Tokens : file'[u] \in {file[u], None}
  BY <1>0, <1>1 DEF DropIfExpired, TypeOK
<1>4. job[w].client \notin clients /\ Deleting(job[w])
  BY <1>2 DEF DInv, DelInv, Barred, Deleting
<1>5. CASE Become(w, i)
  <2>1. /\ i.op = "delete" /\ i.client = job[w].client /\ i.pc = "lock" /\ i.id = t
        /\ i.todo = job[w].todo \ {t}
    BY <1>0, <1>2 DEF Job
  <2> HIDE DEF i
  <2>2. Own(i) /\ i.op \notin {"code", "refresh"} /\ ToRemove(job[w]) \ ToRemove(i) = {}
    BY <1>2, <2>1 DEF Own, ToRemove
  <2> QED BY <1>2, <1>3, <1>4, <1>5, <2>1, <2>2, DelPlain
<1>6. CASE /\ ~(Live(t) /\ file[t].client = job[w].client)
           /\ Become(w, j)
  <2>1. /\ j.op = "delete" /\ j.client = job[w].client /\ j.pc = "next"
        /\ j.todo = job[w].todo \ {t}
    BY <1>0, <1>2 DEF Job
  <2> HIDE DEF j
  <2>2. Own(j) /\ j.op \notin {"code", "refresh"} /\ ToRemove(job[w]) \ ToRemove(j) \subseteq {t}
    BY <1>2, <2>1 DEF Own, ToRemove
  <2>3. ~Live(t)' \/ file'[t].client # j.client
    <3>1. file'[t] = None \/ (file'[t] = file[t] /\ now' = now)
      BY <1>2, <1>3
    <3> QED BY <1>6, <2>1, <3>1 DEF Live, Expired
  <2>4. \A u \in ToRemove(job[w]) \ ToRemove(j) : u = t
    BY <2>2
  <2>5. \A u \in ToRemove(job[w]) \ ToRemove(j) : ~Live(u)' \/ file'[u].client # j.client
    BY <2>3, <2>4
  <2> QED BY <1>2, <1>3, <1>4, <1>6, <2>1, <2>2, <2>5, DelPlain
<1> QED BY <1>1, <1>5, <1>6

\* The deletion lists the tokens that are live: as no request of the client's is
\* under way, no other will come.
LEMMA ListDel ==
    ASSUME DInv, IInv', DeletesAlone, NEW w \in Workers, ListTokens(w) PROVE DelInv'
<1> DEFINE j == [job[w] EXCEPT !.pc = "next", !.todo = {t \in Tokens : Live(t)}]
<1>0. TypeOK /\ job[w] \in Job /\ WellFormed(job[w])
  BY DFacts
<1>1. /\ job[w].pc = "list" /\ job[w].op = "delete" /\ Become(w, j)
      /\ UNCHANGED <<now, clients, answered>>
  BY <1>0 DEF ListTokens, At, WellFormed, ghost
<1>2. /\ j.op = "delete" /\ j.client = job[w].client /\ j.pc = "next"
      /\ j.todo = {t \in Tokens : Live(t)}
  BY <1>0, <1>1 DEF Job
<1> HIDE DEF j
<1>3. job'[w] = j /\ \A v \in Workers \ {w} : job'[v] = job[v]
  BY <1>0, <1>1, WorkerMoves
<1>4. \A t \in Tokens : Live(t)' => Live(t) /\ file'[t] = file[t]
  <2>1. \A t \in Tokens : file'[t] \in {file[t], None}
    BY <1>0 DEF ListTokens, TypeOK
  <2> QED BY <1>1, <2>1 DEF Live, Expired
<1>5. Leaving' \subseteq Leaving \cup {job[w].client}
  BY <1>1, <1>2, <1>3 DEF Leaving
<1>6. \A v \in Workers : Own(job'[v])
  BY <1>2, <1>3, DFacts DEF Own
<1>7. Barred'
  <2>1. \A v \in Workers :
          /\ job'[v].op = job[v].op /\ job'[v].client = job[v].client
          /\ job[v].op \in {"code", "refresh"} => job[v].client # job[w].client
    BY <1>1, <1>2, <1>3 DEF DeletesAlone, At
  <2> QED BY <1>1, <1>5, <2>1 DEF DInv, DelInv, Barred
<1>8. Swept'
  <2>1. \A t \in Tokens : Live(t)' => file'[t].client \notin answered'
    BY <1>1, <1>4 DEF DInv, DelInv, Swept
  <2>2. ASSUME NEW v \in Workers, NEW t \in Tokens, Deleting(job'[v]), Live(t)',
               file'[t].client = job'[v].client
        PROVE  t \in ToRemove(job'[v])
    BY <1>2, <1>3, <1>4, <2>2 DEF DInv, DelInv, Swept, ToRemove
  <2> QED BY <2>1, <2>2 DEF Swept
<1> QED BY <1>6, <1>7, <1>8 DEF DelInv

\* The deletion is answered when none is left.
LEMMA AnswerDel ==
    ASSUME DInv, IInv', NEW w \in Workers, Deleted(w) PROVE DelInv'
<1> DEFINE c == job[w].client
<1>0. TypeOK /\ job[w] \in Job /\ WellFormed(job[w])
  BY DFacts
<1>1. /\ job[w].pc = "next" /\ job[w].op = "delete" /\ job[w].todo = {}
      /\ UNCHANGED <<now, clients, file>> /\ answered' = answered \cup {c}
      /\ Become(w, NoJob) /\ c \in Clients
  BY <1>0 DEF Deleted, Finish, At, WellFormed, disk
<1>2. c \in Leaving /\ c \notin clients /\ Deleting(job[w])
  BY <1>1 DEF DInv, DelInv, Barred, Leaving, Deleting
<1> HIDE DEF c
<1>3. job'[w] = NoJob /\ \A v \in Workers \ {w} : job'[v] = job[v]
  BY <1>0, <1>1, WorkerMoves
<1>4. Leaving' \subseteq Leaving
  BY <1>1, <1>2, <1>3, IdleOwn DEF Leaving
<1>5. \A v \in Workers : Own(job'[v])
  BY <1>3, IdleOwn, DFacts
<1>6. Barred'
  BY <1>1, <1>2, <1>3, <1>4, IdleOwn DEF DInv, DelInv, Barred
<1>7. Swept'
  <2>1. \A t \in Tokens : Live(t)' <=> Live(t)
    BY <1>1 DEF Live, Expired
  <2>2. \A t \in Tokens : Live(t) => file[t].client # c
    <3>1. ToRemove(job[w]) = {}
      BY <1>1 DEF ToRemove
    <3> QED BY <1>2, <3>1 DEF DInv, DelInv, Swept, c
  <2>3. \A v \in Workers : Deleting(job'[v]) => job'[v] = job[v]
    BY <1>3, IdleOwn
  <2> QED BY <1>1, <2>1, <2>2, <2>3 DEF DInv, DelInv, Swept
<1> QED BY <1>5, <1>6, <1>7 DEF DelInv

\* Steps of no worker: documents may go or expire, and all the workers may go.
LEMMA NobodyDel ==
    ASSUME DInv, now' \in Nat, now' >= now, UNCHANGED <<clients, answered>>,
           \A t \in Tokens : file'[t] \in {file[t], None},
           job' = job \/ job' = [w \in Workers |-> NoJob]
    PROVE  DelInv'
<1>1. \A w \in Workers : job'[w] = job[w] \/ job'[w] = NoJob
  OBVIOUS
<1>2. \A w \in Workers : Own(job'[w])
  BY <1>1, IdleOwn, DFacts
<1>3. Leaving' \subseteq Leaving
  BY <1>1, IdleOwn DEF Leaving
<1>4. Barred'
  BY <1>1, <1>3, IdleOwn DEF DInv, DelInv, Barred
<1>5. ASSUME NEW t \in Tokens, Live(t)' PROVE Live(t) /\ file'[t] = file[t]
  <2>1. file'[t] = file[t] /\ file[t] \in Doc /\ file[t].expiresAt >= now'
    BY <1>5 DEF Live, Expired, DInv, IInv, TypeOK, Doc
  <2>2. now \in Nat /\ file[t].expiresAt \in Nat
    BY <2>1 DEF Doc, DInv, IInv, TypeOK
  <2>3. ~(file[t].expiresAt < now)
    BY <2>1, <2>2
  <2> QED BY <1>5, <2>1, <2>3 DEF Live, Expired
<1>6. Swept'
  BY <1>1, <1>5, IdleOwn DEF DInv, DelInv, Swept
<1> QED BY <1>2, <1>4, <1>6 DEF DelInv

\* The environment removes documents and stores codes.
LEMMA RestDel ==
    ASSUME DInv, Environment \/ UNCHANGED vars PROVE DelInv'
<1>0. TypeOK
  BY DEF DInv, IInv
<1>1. UNCHANGED <<clients, answered>>
  BY DEF Environment, MintCode, SweepExpired, SweepClaim, Tick, Crash, vars, disk, ghost
<1>2. \A t \in Tokens : file'[t] \in {file[t], None}
  <2>1. \A t \in Tokens : t \notin Codes
    BY ConstantsAssumption
  <2>2. CASE UNCHANGED file
    BY <2>2
  <2>3. ASSUME NEW k \in Codes, NEW c \in Clients, NEW a \in Accounts, NEW b \in Bindings,
                MintCode(k, c, a, b)
         PROVE  \A t \in Tokens : file'[t] \in {file[t], None}
    BY <2>1, <1>0, <2>3 DEF MintCode, TypeOK
  <2>4. ASSUME NEW d \in Docs, SweepExpired(d)
         PROVE  \A t \in Tokens : file'[t] \in {file[t], None}
    BY <1>0, <2>4 DEF SweepExpired, TypeOK
  <2> QED BY <2>2, <2>3, <2>4 DEF Environment, SweepClaim, Tick, Crash, vars, disk
<1>3. job' = job \/ job' = [w \in Workers |-> NoJob]
  BY DEF Environment, MintCode, SweepExpired, SweepClaim, Tick, Crash, vars
<1>4. now' \in Nat /\ now' >= now
  <2>1. now' = now \/ now' = now + 1
    BY DEF Environment, MintCode, SweepExpired, SweepClaim, Tick, Crash, vars
  <2> QED BY <1>0, <2>1 DEF TypeOK
<1> QED BY <1>1, <1>2, <1>3, <1>4, NobodyDel

\* It holds of the empty store.
LEMMA DelEmpty == EmptyStore /\ clients \subseteq Clients => DInv
<1> SUFFICES ASSUME EmptyStore /\ clients \subseteq Clients PROVE DInv
  OBVIOUS
<1>1. IInv
  BY InvStart
<1>2. /\ answered = {} /\ \A w \in Workers : job[w] = NoJob
      /\ \A t \in Tokens : ~Live(t)
  BY DEF EmptyStore, Live
<1> QED BY <1>1, <1>2, IdleOwn DEF DInv, DelInv, Barred, Swept

\* So it holds when all clients have been registered at the start.
LEMMA DelStart == Init => DInv
BY DelEmpty DEF Init

\* Every step keeps it, on a disk without errors, while deletions are alone with
\* the tokens they list.
LEMMA DelStep ==
    ASSUME MaxFaults = 0, DInv, DeletesAlone, [Next]_vars PROVE DInv'
<1>1. IInv'
  BY InvStep DEF DInv
<1>2. ASSUME NEW w \in Workers, Work(w) PROVE DelInv'
  <2>1. CASE \/ ClaimRename(w) \/ ClaimRead(w) \/ CheckCode(w) \/ CheckRefresh(w)
             \/ IssueForRefresh(w) \/ GrantRead(w) \/ GrantWrite(w) \/ Respond(w)
    BY <1>1, <2>1, HandlerDel
  <2>2. CASE IssueForCode(w) \/ PutNext(w) \/ PutBack(w)
    BY <1>1, <2>2, PutDel
  <2>3. CASE RevokeGet(w) \/ RevokeLock(w) \/ DestroyRef(w) \/ RevokeUnlock(w)
    BY <1>1, <2>3, RevokeDel
  <2>4. CASE Drop(w) \/ NextToken(w) \/ ListTokens(w) \/ Deleted(w)
    BY <1>1, <2>4, DropDel, NextDel, ListDel, AnswerDel
  <2> QED BY <1>2, <2>1, <2>2, <2>3, <2>4 DEF Work
<1>3. ASSUME NEW w \in Workers PROVE ~DiskFault(w)
  BY NoFaults DEF DInv, IInv
<1>4. DelInv'
  BY <1>1, <1>2, <1>3, StartDel, RestDel DEF Next
<1> QED BY <1>1, <1>4 DEF DInv

\* A deletion is of a client that was registered when it started, and only such a
\* client is answered for.
LEMMA OnlyKnownClients ==
    ASSUME TypeOK, JobOK, MaxFaults = 0, [Next]_vars
    PROVE  /\ clients' \subseteq clients
           /\ \A c \in answered' : c \in answered \/ c \in Codes \/
                \E w \in Workers : job[w].op = "delete" /\ job[w].client = c
           /\ \A w \in Workers : job'[w].op = "delete" =>
                job'[w].client \in clients \/ (job[w].op = "delete" /\ job'[w].client = job[w].client)
<1>1. \A w \in Workers : job[w] \in Job /\ WellFormed(job[w])
  BY DEF TypeOK, JobOK
<1>2. NoJob.op # "delete"
  BY IdleOwn
<1>3. ASSUME NEW w \in Workers, Start(w)
      PROVE  /\ clients' \subseteq clients /\ answered' = answered
             /\ \E j : Become(w, j) /\ (j.op = "delete" => j.client \in clients)
  <2>1. ASSUME NEW c \in Clients, NEW k \in Codes, NEW b \in Bindings, StartCode(w, c, k, b)
        PROVE  \E j : Become(w, j) /\ (j.op = "delete" => j.client \in clients)
    <3> DEFINE j == [NoJob EXCEPT !.pc = "claim", !.op = "code", !.client = c, !.id = k,
                                  !.bind = b]
    <3>1. Become(w, j) /\ j.op = "code"
      BY <2>1 DEF StartCode, NoJob
    <3> HIDE DEF j
    <3> QED BY <3>1
  <2>2. ASSUME NEW c \in Clients, NEW t \in Tokens, StartRefresh(w, c, t) \/ StartRevoke(w, c, t)
        PROVE  \E j : Become(w, j) /\ (j.op = "delete" => j.client \in clients)
    <3> DEFINE i == [NoJob EXCEPT !.pc = "claim", !.op = "refresh", !.client = c, !.id = t]
               j == [NoJob EXCEPT !.pc = "get", !.op = "revoke", !.client = c, !.id = t]
    <3>1. (Become(w, i) \/ Become(w, j)) /\ i.op = "refresh" /\ j.op = "revoke"
      BY <2>2 DEF StartRefresh, StartRevoke, NoJob
    <3> HIDE DEF i, j
    <3> QED BY <3>1
  <2>3. ASSUME NEW c \in Clients, StartDelete(w, c)
        PROVE  \E j : Become(w, j) /\ (j.op = "delete" => j.client \in clients)
    <3> DEFINE j == [NoJob EXCEPT !.pc = "list", !.op = "delete", !.client = c]
    <3>1. Become(w, j) /\ j.client = c /\ c \in clients
      BY <2>3 DEF StartDelete, NoJob
    <3> HIDE DEF j
    <3> QED BY <3>1
  <2>4. clients' \subseteq clients /\ answered' = answered
    BY <1>3 DEF Start, StartCode, StartRefresh, StartRevoke, StartDelete, disk, ghost
  <2> QED BY <1>3, <2>1, <2>2, <2>3, <2>4 DEF Start
<1>4. ASSUME NEW w \in Workers, Work(w)
      PROVE  clients' = clients
  BY <1>4 DEF Work, ClaimRename, ClaimRead, CheckCode, IssueForCode, CheckRefresh,
     IssueForRefresh, PutNext, PutBack, GrantRead, GrantWrite, Respond, RevokeGet, RevokeLock,
     DestroyRef, RevokeUnlock, Drop, ListTokens, NextToken, Deleted, disk
<1>5. ASSUME NEW w \in Workers, Work(w)
      PROVE  \/ answered' = answered
             \/ job[w].doc.grant \in Codes /\ answered' = answered \cup {job[w].doc.grant}
             \/ job[w].op = "delete" /\ answered' = answered \cup {job[w].client}
  BY <1>1, <1>5 DEF Work, ClaimRename, ClaimRead, CheckCode, IssueForCode, CheckRefresh,
     IssueForRefresh, PutNext, PutBack, GrantRead, GrantWrite, Respond, RevokeGet, RevokeLock,
     DestroyRef, RevokeUnlock, Revoked, Drop, Dropped, ListTokens, NextToken, Deleted, ghost,
     At, WellFormed, Doc
<1>6. ASSUME NEW w \in Workers, Work(w)
      PROVE  /\ job'[w].op = "delete" => job[w].op = "delete" /\ job'[w].client = job[w].client
             /\ \A v \in Workers \ {w} : job'[v] = job[v]
  <2> DEFINE Same(j) == j.op = "delete" => job[w].op = "delete" /\ j.client = job[w].client
             Goal == /\ job'[w].op = "delete" =>
                          job[w].op = "delete" /\ job'[w].client = job[w].client
                     /\ \A v \in Workers \ {w} : job'[v] = job[v]
  <2> SUFFICES Goal
    OBVIOUS
  <2>1. \A j : Become(w, j) /\ Same(j) => Goal
    BY DEF Become, TypeOK
  <2>2. Same(NoJob)
    BY <1>2
  <2> HIDE DEF Goal, Same
  <2>3. ASSUME NEW p, NEW x, NEW y, NEW z
        PROVE  /\ Become(w, NoJob) => Goal
               /\ Become(w, [job[w] EXCEPT !.pc = p]) => Goal
               /\ Become(w, [job[w] EXCEPT !.pc = p, !.doc = x]) => Goal
               /\ Become(w, [job[w] EXCEPT !.pc = p, !.next = x]) => Goal
               /\ Become(w, [job[w] EXCEPT !.pc = p, !.at = x, !.rotate = y]) => Goal
               /\ Become(w, [job[w] EXCEPT !.pc = p, !.refs = x]) => Goal
               /\ Become(w, [job[w] EXCEPT !.refs = x, !.pc = p]) => Goal
               /\ Become(w, [job[w] EXCEPT !.refs = x]) => Goal
               /\ Become(w, [job[w] EXCEPT !.todo = x]) => Goal
               /\ Become(w, [job[w] EXCEPT !.pc = p, !.id = x, !.doc = y]) => Goal
               /\ Become(w, [job[w] EXCEPT !.pc = p, !.todo = x]) => Goal
               /\ Become(w, [job[w] EXCEPT !.pc = p, !.id = x, !.doc = y, !.todo = z]) => Goal
    <3>1. /\ Same([job[w] EXCEPT !.pc = p]) /\ Same([job[w] EXCEPT !.pc = p, !.doc = x])
          /\ Same([job[w] EXCEPT !.pc = p, !.next = x])
          /\ Same([job[w] EXCEPT !.pc = p, !.at = x, !.rotate = y])
          /\ Same([job[w] EXCEPT !.pc = p, !.refs = x])
          /\ Same([job[w] EXCEPT !.refs = x, !.pc = p])
          /\ Same([job[w] EXCEPT !.refs = x]) /\ Same([job[w] EXCEPT !.todo = x])
          /\ Same([job[w] EXCEPT !.pc = p, !.id = x, !.doc = y])
          /\ Same([job[w] EXCEPT !.pc = p, !.todo = x])
          /\ Same([job[w] EXCEPT !.pc = p, !.id = x, !.doc = y, !.todo = z])
      BY <1>1 DEF Job, Same
    <3> QED BY <2>1, <2>2, <3>1
  <2>4. CASE ClaimRename(w) \/ ClaimRead(w) \/ CheckCode(w) \/ IssueForCode(w)
    BY <2>3, <2>4 DEF ClaimRename, ClaimRead, CheckCode, IssueForCode, Goto, Finish
  <2>5. CASE CheckRefresh(w) \/ IssueForRefresh(w) \/ PutNext(w) \/ PutBack(w)
    BY <2>3, <2>5 DEF CheckRefresh, IssueForRefresh, PutNext, PutBack, Goto, Finish
  <2>6. CASE GrantRead(w) \/ GrantWrite(w) \/ Respond(w)
    BY <2>3, <2>6 DEF GrantRead, GrantWrite, Indexed, Respond, Goto, Finish
  <2>7. CASE RevokeGet(w) \/ RevokeLock(w) \/ DestroyRef(w) \/ RevokeUnlock(w)
    BY <2>3, <2>7 DEF RevokeGet, RevokeLock, DestroyRef, RevokeUnlock, Revoked, Goto, Finish
  <2>8. CASE Drop(w) \/ ListTokens(w) \/ NextToken(w) \/ Deleted(w)
    BY <2>3, <2>8 DEF Drop, Dropped, ListTokens, NextToken, Deleted, Goto, Finish
  <2> QED BY <1>6, <2>4, <2>5, <2>6, <2>7, <2>8 DEF Work
<1>7. ASSUME NEW w \in Workers, NEW j, Become(w, j)
      PROVE  job'[w] = j /\ \A v \in Workers \ {w} : job'[v] = job[v]
  BY <1>7 DEF Become, TypeOK
<1>8. CASE Environment \/ UNCHANGED vars
  <2>1. UNCHANGED <<clients, answered>>
    BY <1>8 DEF Environment, MintCode, SweepExpired, SweepClaim, Tick, Crash, vars, disk, ghost
  <2>2. job' = job \/ job' = [w \in Workers |-> NoJob]
    BY <1>8 DEF Environment, MintCode, SweepExpired, SweepClaim, Tick, Crash, vars
  <2> QED BY <1>2, <2>1, <2>2
<1>9. \A w \in Workers : ~DiskFault(w)
  BY NoFaults
<1> QED BY <1>3, <1>4, <1>5, <1>6, <1>7, <1>8, <1>9 DEF Next

\* If no request of the client's own is under way when its deletion lists the
\* tokens, the deletion, once answered, has taken every live one, whoever else
\* redeems, refreshes or revokes in the meantime and wherever the process dies
\* (handleDeleteClient, revokeClientTokens).
THEOREM DeletionTakesTheTokens ==
    ASSUME MaxFaults = 0 PROVE Spec /\ []DeletesAlone => []DeletedClientLeavesNoToken
<1>1. DInv /\ DeletesAlone /\ [Next]_vars => DInv'
  BY DelStep
<1>2. DInv => DeletedClientLeavesNoToken
  BY DEF DInv, DelInv, Swept, DeletedClientLeavesNoToken
<1> QED BY <1>1, <1>2, DelStart, PTL DEF Spec

\* A server that handles one request at a time always deletes alone.
LEMMA OneWorkerDeletesAlone ==
    ASSUME JobOK, \A v, w \in Workers : v = w PROVE DeletesAlone
BY DEF DeletesAlone, At, JobOK, WellFormed

\* So a server that handles one request at a time keeps all three promises, however
\* often it is killed (the setting of the run ConsentToTokens).
THEOREM OneAtATime ==
    ASSUME MaxFaults = 0, \A v, w \in Workers : v = w
    PROVE  Spec => [](IndexCoversHeld /\ RevokedGrantIsGone /\ DeletedClientLeavesNoToken)
<1>1. RInv /\ [Next]_vars => RInv'
  BY OneWorkerRevokesAlone, RevStep
<1>2. DInv /\ [Next]_vars => DInv'
  BY OneWorkerDeletesAlone, DelStep DEF DInv, IInv
<1>3. DInv => DeletedClientLeavesNoToken
  BY DEF DInv, DelInv, Swept, DeletedClientLeavesNoToken
<1> QED BY <1>1, <1>2, <1>3, RevStart, DelStart, RevMeaning, PTL DEF Spec

=============================================================================
