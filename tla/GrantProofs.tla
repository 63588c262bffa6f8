----------------------------- MODULE GrantProofs -----------------------------
(***************************************************************************)
(* Theorems about what rotation carries from one refresh token to the      *)
(* next, and that redemptions lose none, for every value of the constants. *)
(***************************************************************************)
EXTENDS BrokerTokensProofs

HandPCs == {"check", "issue", "put", "index", "indexing", "back"}

\* Job j has a claimed document in memory.
InHand(j) == j.op \in {"code", "refresh"} /\ j.pc \in HandPCs

\* The document doc of id d says what was authorized and, f being the time each
\* grant's first token was issued, where its ceiling is.
Right(d, doc, f) ==
    /\ authz[doc.grant] = [client |-> doc.client, account |-> doc.account]
    /\ d \in Codes => doc.grant = d
    /\ d \in Tokens =>
         /\ doc.grant = grantOf[d]
         /\ doc.iiat = f[doc.grant]
         /\ doc.exp <= doc.iiat + AbsoluteMax + RefreshTTL
         /\ rotatedAt[d] # 0 => doc.consumed # 0

\* So does every copy of a document, wherever it is.
CopiesRight(f) ==
    /\ \A d \in Docs : file[d] # None => Right(d, file[d], f)
    /\ \A d \in Docs : claimFile[d] # None => Right(d, claimFile[d], f)
    /\ \A w \in Workers : InHand(job[w]) => Right(job[w].id, job[w].doc, f)

\* What the checks of a handler have established for its later steps.
Checked(j) ==
    /\ j.op = "code" /\ j.pc = "issue" => j.doc.client = j.client
    /\ j.op = "refresh" /\ j.pc \in HandPCs \ {"check"} => j.at # 0
    /\ j.op = "refresh" /\ ((j.pc = "issue" /\ j.rotate) \/ j.pc = "put") =>
         j.at <= j.doc.iiat + AbsoluteMax

\* A grant has tokens only once its code has been redeemed.
Drawn ==
    /\ \A t \in Tokens : grantOf[t] # None => redeemed[grantOf[t]] # 0
    /\ \A t \in Tokens : rotatedAt[t] # 0 => grantOf[t] # None

GrantInv ==
    /\ IInv /\ now # 0 /\ Drawn
    /\ \A w \in Workers : Checked(job[w])
    /\ \E f \in [Codes -> Nat] : CopiesRight(f)

-----------------------------------------------------------------------------
\* What the invariant says of one worker.
LEMMA GrantFacts ==
    ASSUME GrantInv, NEW w \in Workers
    PROVE  /\ TypeOK /\ JobOK /\ DocsInv
           /\ job[w] \in Job /\ WellFormed(job[w]) /\ Checked(job[w])
           /\ InHand(job[w]) => job[w].id \in Docs /\ job[w].doc \in Doc
<1>1. TypeOK /\ JobOK /\ DocsInv
  BY IInvDocs DEF GrantInv
<1>2. job[w] \in Job /\ WellFormed(job[w]) /\ Checked(job[w])
  BY <1>1 DEF GrantInv, TypeOK, JobOK
<1>3. InHand(job[w]) => job[w].id \in Docs /\ job[w].doc \in Doc
  BY <1>2 DEF InHand, HandPCs, WellFormed, Docs
<1> QED BY <1>1, <1>2, <1>3

\* A worker with no document in memory relies on nothing.
LEMMA EmptyHanded ==
    ASSUME NEW j, j.pc \notin HandPCs PROVE Checked(j) /\ ~InHand(j)
BY DEF Checked, InHand, HandPCs

\* Steps that copy no document, and leave every worker with the one it had or
\* none.
LEMMA NothingCopied ==
    ASSUME GrantInv, IInv', OnlyRemoves, rotatedAt' = rotatedAt, now' # 0,
           \A v \in Workers : Checked(job'[v]),
           \A v \in Workers : InHand(job'[v]) =>
             InHand(job[v]) /\ job'[v].id = job[v].id /\ job'[v].doc = job[v].doc
    PROVE  GrantInv'
<1>1. PICK f \in [Codes -> Nat] : CopiesRight(f)
  BY DEF GrantInv
<1>2. CopiesRight(f)'
  <2>1. ASSUME NEW d \in Docs, file'[d] # None PROVE Right(d, file[d], f)'
    BY <1>1, <2>1 DEF CopiesRight, Right, OnlyRemoves
  <2>2. ASSUME NEW d \in Docs, claimFile'[d] # None PROVE Right(d, claimFile[d], f)'
    BY <1>1, <2>2 DEF CopiesRight, Right, OnlyRemoves
  <2>3. ASSUME NEW v \in Workers, InHand(job'[v]) PROVE Right(job[v].id, job[v].doc, f)'
    <3>1. Right(job[v].id, job[v].doc, f)
      BY <1>1, <2>3 DEF CopiesRight
    <3>2. job'[v].id = job[v].id /\ job'[v].doc = job[v].doc
      BY <2>3
    <3> QED BY <3>1, <3>2 DEF Right, OnlyRemoves
  <2> QED BY <2>1, <2>2, <2>3 DEF CopiesRight
<1>3. Drawn'
  BY DEF GrantInv, Drawn, OnlyRemoves
<1> QED BY <1>2, <1>3 DEF GrantInv

\* Such a step of one worker, which is left with none ...
LEMMA LetGo ==
    ASSUME GrantInv, IInv', OnlyRemoves, UNCHANGED <<now, rotatedAt>>,
           NEW w \in Workers, NEW j, j.pc \notin HandPCs, Become(w, j)
    PROVE  GrantInv'
<1>1. job'[w] = j /\ \A v \in Workers \ {w} : job'[v] = job[v]
  BY GrantFacts DEF Become, TypeOK
<1>2. now' # 0 /\ \A v \in Workers : Checked(job[v])
  BY DEF GrantInv
<1>3. ASSUME NEW v \in Workers
      PROVE  Checked(job'[v]) /\ (InHand(job'[v]) => job'[v] = job[v])
  BY <1>1, <1>2, EmptyHanded
<1> QED BY <1>2, <1>3, NothingCopied

\* ... or goes on with the document it has.
LEMMA Holding ==
    ASSUME GrantInv, IInv', OnlyRemoves, UNCHANGED <<now, rotatedAt>>,
           NEW w \in Workers, NEW j, InHand(job[w]), Checked(j),
           j.id = job[w].id, j.doc = job[w].doc, Become(w, j)
    PROVE  GrantInv'
<1>1. job'[w] = j /\ \A v \in Workers \ {w} : job'[v] = job[v]
  BY GrantFacts DEF Become, TypeOK
<1>2. now' # 0 /\ \A v \in Workers : Checked(job[v])
  BY DEF GrantInv
<1>3. ASSUME NEW v \in Workers
      PROVE  /\ Checked(job'[v])
             /\ InHand(job'[v]) =>
                  InHand(job[v]) /\ job'[v].id = job[v].id /\ job'[v].doc = job[v].doc
  BY <1>1, <1>2
<1> QED BY <1>2, <1>3, NothingCopied

-----------------------------------------------------------------------------
(* What is written keeps what was read.                                    *)

\* A right copy stays right while what has been recorded stands.
LEMMA RightLater ==
    ASSUME NEW d, NEW doc \in Doc, NEW f, NEW g, Right(d, doc, f),
           \A k \in Codes : authz[k] # None => authz'[k] = authz[k],
           d \in Tokens => grantOf'[d] = grantOf[d] /\ g[doc.grant] = f[doc.grant],
           d \in Tokens /\ rotatedAt'[d] # 0 => rotatedAt[d] # 0
    PROVE  Right(d, doc, g)'
<1>1. [client |-> doc.client, account |-> doc.account] # None
  BY NoneAssumption DEF Doc
<1>2. doc.grant \in Codes
  BY DEF Doc
<1>3. authz'[doc.grant] = [client |-> doc.client, account |-> doc.account]
  <2>1. authz[doc.grant] = [client |-> doc.client, account |-> doc.account]
    BY DEF Right
  <2> QED BY <1>1, <1>2, <2>1
<1>4. ASSUME d \in Tokens
      PROVE  /\ doc.grant = grantOf'[d]
             /\ doc.iiat = g[doc.grant]
             /\ doc.exp <= doc.iiat + AbsoluteMax + RefreshTTL
             /\ rotatedAt'[d] # 0 => doc.consumed # 0
  BY <1>4 DEF Right
<1>5. d \in Codes => doc.grant = d
  BY DEF Right
<1> QED BY <1>3, <1>4, <1>5 DEF Right

\* The first refresh token, as it is stored.
LEMMA FirstTokenFields ==
    ASSUME NEW doc \in Doc, NEW c \in Clients, now \in Nat
    PROVE  LET t == Stamp(FirstToken(doc, c), RefreshTTL) IN
             /\ t.client = c /\ t.account = doc.account /\ t.grant = doc.grant
             /\ t.iiat = now /\ t.exp <= t.iiat + AbsoluteMax + RefreshTTL
<1>1. FirstToken(doc, c) \in Doc
  BY FirstTokenType
<1>2. /\ FirstToken(doc, c).client = c /\ FirstToken(doc, c).account = doc.account
      /\ FirstToken(doc, c).grant = doc.grant /\ FirstToken(doc, c).iiat = now
      /\ FirstToken(doc, c).exp = now + RefreshTTL
  BY DEF FirstToken, Doc
<1>3. now + RefreshTTL <= now + AbsoluteMax + RefreshTTL
  BY TimesAssumption
<1> HIDE DEF FirstToken
<1> QED BY <1>1, <1>2, <1>3, StampType, TimesAssumption

\* Its successors.
LEMMA SuccessorFields ==
    ASSUME NEW rt \in Doc, NEW at \in Nat, now \in Nat,
           at <= rt.iiat + AbsoluteMax
    PROVE  LET t == Stamp(Successor(rt, at), RefreshTTL) IN
             /\ t.client = rt.client /\ t.account = rt.account /\ t.grant = rt.grant
             /\ t.iiat = rt.iiat /\ t.exp <= t.iiat + AbsoluteMax + RefreshTTL
<1>1. Successor(rt, at) \in Doc
  BY SuccessorType
<1>2. /\ Successor(rt, at).client = rt.client /\ Successor(rt, at).account = rt.account
      /\ Successor(rt, at).grant = rt.grant /\ Successor(rt, at).iiat = rt.iiat
      /\ Successor(rt, at).exp = at + RefreshTTL
  BY DEF Successor, Doc
<1>3. at + RefreshTTL <= rt.iiat + AbsoluteMax + RefreshTTL
  BY TimesAssumption DEF Doc
<1> HIDE DEF Successor
<1> QED BY <1>1, <1>2, <1>3, StampType, TimesAssumption

\* The presented token, as it is put back.
LEMMA PresentedFields ==
    ASSUME NEW w \in Workers, job[w] \in Job, job[w].doc \in Doc, now \in Nat
    PROVE  /\ Presented(w).client = job[w].doc.client
           /\ Presented(w).account = job[w].doc.account
           /\ Presented(w).grant = job[w].doc.grant
           /\ Presented(w).iiat = job[w].doc.iiat
           /\ Presented(w).exp = job[w].doc.exp
           /\ Presented(w).consumed =
                IF job[w].rotate THEN job[w].at ELSE job[w].doc.consumed
           /\ Presented(w).expiresAt = now + Remaining(job[w].doc.exp, job[w].at)
<1> DEFINE n == IF job[w].rotate THEN job[w].at ELSE job[w].doc.consumed
           marked == [job[w].doc EXCEPT !.consumed = n]
           left == Remaining(job[w].doc.exp, job[w].at)
<1>1. Presented(w) = Stamp(marked, left)
  BY DEF Presented
<1>2. /\ marked.client = job[w].doc.client /\ marked.account = job[w].doc.account
      /\ marked.grant = job[w].doc.grant /\ marked.iiat = job[w].doc.iiat
      /\ marked.exp = job[w].doc.exp /\ marked.consumed = n
  BY DEF Doc
<1>3. marked \in Doc
  BY DEF Doc, Job
<1>4. Stamp(marked, left) = [marked EXCEPT !.expiresAt = now + left, !.mtime = now]
  BY DEF Stamp
<1> DEFINE e == now + left
<1> HIDE DEF n, marked, left, e
<1>5. /\ Stamp(marked, left).client = marked.client
      /\ Stamp(marked, left).account = marked.account
      /\ Stamp(marked, left).grant = marked.grant
      /\ Stamp(marked, left).iiat = marked.iiat
      /\ Stamp(marked, left).exp = marked.exp
      /\ Stamp(marked, left).consumed = marked.consumed
      /\ Stamp(marked, left).expiresAt = e
  BY <1>3, <1>4 DEF Doc, e
<1> QED BY <1>1, <1>2, <1>5 DEF n, e, left

-----------------------------------------------------------------------------
(* The steps that copy no document.                                        *)

\* A request that starts has none.
LEMMA StartKeeps ==
    ASSUME GrantInv, IInv', NEW w \in Workers, Start(w) PROVE GrantInv'
<1>1. OnlyRemoves /\ UNCHANGED <<now, rotatedAt>>
  BY DEF Start, StartCode, StartRefresh, StartRevoke, StartDelete, OnlyRemoves,
         disk, ghost
<1>2. \E j : j.pc \notin HandPCs /\ Become(w, j)
  <2>1. ASSUME NEW c \in Clients, NEW k \in Codes, NEW b \in Bindings, StartCode(w, c, k, b)
        PROVE  \E j : j.pc \notin HandPCs /\ Become(w, j)
    BY <2>1 DEF StartCode, NoJob, HandPCs
  <2>2. ASSUME NEW c \in Clients, NEW t \in Tokens, StartRefresh(w, c, t) \/ StartRevoke(w, c, t)
        PROVE  \E j : j.pc \notin HandPCs /\ Become(w, j)
    BY <2>2 DEF StartRefresh, StartRevoke, NoJob, HandPCs
  <2>3. ASSUME NEW c \in Clients, StartDelete(w, c)
        PROVE  \E j : j.pc \notin HandPCs /\ Become(w, j)
    BY <2>3 DEF StartDelete, NoJob, HandPCs
  <2> QED BY <2>1, <2>2, <2>3 DEF Start
<1> QED BY <1>1, <1>2, LetGo

\* Answers, revocation and deletion: documents are removed, none is copied into
\* a handler that will put it back.
RevokeWork(w) ==
    \/ Respond(w) \/ RevokeGet(w) \/ RevokeLock(w) \/ DestroyRef(w)
    \/ RevokeUnlock(w) \/ Drop(w) \/ ListTokens(w) \/ NextToken(w) \/ Deleted(w)

\* They keep the invariant.
LEMMA RevokeKeeps ==
    ASSUME GrantInv, IInv', NEW w \in Workers, RevokeWork(w) PROVE GrantInv'
<1>0. /\ TypeOK /\ Fresh /\ job[w] \in Job
      /\ WellFormed(job[w])
  BY GrantFacts DEF DocsInv
<1>1. OnlyRemoves
  <2>1. CASE Respond(w)
    <3>1. \A t \in Tokens : t \in {job[w].id, job[w].next} => grantOf[t] # None
      BY <1>0 DEF Fresh
    <3>2. Returned(w) \subseteq {t \in Tokens : grantOf[t] # None}
      BY <1>0, <3>1 DEF Returned, Job
    <3> QED BY <2>1, <3>2 DEF Respond, OnlyRemoves, disk
  <2>2. CASE RevokeGet(w) \/ RevokeLock(w)
    BY <1>0, <2>2 DEF RevokeGet, RevokeLock, OnlyRemoves, TypeOK, disk, ghost,
       DropIfExpired
  <2>3. CASE DestroyRef(w)
    BY <1>0, <2>3 DEF DestroyRef, OnlyRemoves, TypeOK, ghost
  <2>4. CASE RevokeUnlock(w) \/ Drop(w)
    BY <1>0, <2>4 DEF RevokeUnlock, Drop, OnlyRemoves, TypeOK
  <2>5. CASE ListTokens(w)
    BY <2>5 DEF ListTokens, OnlyRemoves, ghost
  <2>6. CASE NextToken(w) \/ Deleted(w)
    BY <1>0, <2>6 DEF NextToken, Deleted, DropIfExpired, OnlyRemoves, TypeOK, disk, ghost
  <2> QED BY <2>1, <2>2, <2>3, <2>4, <2>5, <2>6 DEF RevokeWork
<1>2. UNCHANGED <<now, rotatedAt>>
  BY DEF RevokeWork, Respond, RevokeGet, RevokeLock, DestroyRef, RevokeUnlock, Drop,
         ListTokens, NextToken, Deleted, ghost
<1>3. \E j : j.pc \notin HandPCs /\ Become(w, j)
  <2>1. NoJob.pc \notin HandPCs
    BY DEF NoJob, HandPCs
  <2>2. CASE Respond(w) \/ Deleted(w)
    BY <2>1, <2>2 DEF Respond, Deleted, Finish
  <2>3. CASE RevokeGet(w)
    BY <1>0, <2>1, <2>3 DEF RevokeGet, Finish, HandPCs, Job
  <2>4. CASE RevokeLock(w)
    BY <1>0, <2>4 DEF RevokeLock, HandPCs, Job
  <2>5. CASE DestroyRef(w)
    BY <1>0, <2>5 DEF DestroyRef, At, HandPCs, Job
  <2>6. CASE RevokeUnlock(w)
    BY <1>0, <2>1, <2>6 DEF RevokeUnlock, Revoked, Goto, Finish, HandPCs, Job
  <2>7. CASE Drop(w)
    BY <1>0, <2>1, <2>7 DEF Drop, Dropped, Finish, HandPCs, Job
  <2>8. CASE ListTokens(w)
    BY <1>0, <2>8 DEF ListTokens, HandPCs, Job
  <2>9. CASE NextToken(w)
    BY <1>0, <2>9 DEF NextToken, At, HandPCs, Job
  <2> QED BY <2>2, <2>3, <2>4, <2>5, <2>6, <2>7, <2>8, <2>9 DEF RevokeWork
<1> QED BY <1>1, <1>2, <1>3, LetGo

\* The checks, the signatures and the index.
CheckWork(w) ==
    \/ CheckCode(w) \/ CheckRefresh(w) \/ IssueForRefresh(w)
    \/ GrantRead(w) \/ GrantWrite(w)

\* They keep the document the handler has, or let go of it.
LEMMA CheckKeeps ==
    ASSUME GrantInv, IInv', NEW w \in Workers, CheckWork(w) PROVE GrantInv'
<1>0. /\ TypeOK /\ job[w] \in Job /\ WellFormed(job[w]) /\ Checked(job[w])
      /\ now \in Nat /\ now # 0
  BY GrantFacts DEF GrantInv, TypeOK
<1>1. OnlyRemoves /\ UNCHANGED <<now, rotatedAt>>
  BY DEF CheckWork, CheckCode, CheckRefresh, IssueForRefresh, GrantRead, GrantWrite,
         OnlyRemoves, disk, ghost
<1>2. ASSUME Finish(w) PROVE GrantInv'
  <2>1. NoJob.pc \notin HandPCs
    BY DEF NoJob, HandPCs
  <2> QED BY <1>1, <1>2, <2>1, LetGo DEF Finish
<1>3. CASE CheckCode(w)
  <2>1. CASE CodeMatches(w) /\ Goto(w, "issue")
    <3>1. InHand(job[w]) /\ job[w].op = "code"
      BY <1>3 DEF CheckCode, At, InHand, HandPCs
    <3> DEFINE j == [job[w] EXCEPT !.pc = "issue"]
    <3>2. /\ j.id = job[w].id /\ j.doc = job[w].doc /\ j.op = "code"
          /\ j.client = job[w].client
      BY <1>0, <3>1 DEF Job
    <3>3. Become(w, j)
      BY <2>1 DEF Goto
    <3> HIDE DEF j
    <3>4. Checked(j)
      BY <2>1, <3>2 DEF Checked, CodeMatches
    <3> QED BY <1>1, <3>1, <3>2, <3>3, <3>4, Holding
  <2> QED BY <1>2, <1>3, <2>1 DEF CheckCode
<1>4. CASE CheckRefresh(w)
  <2>0. InHand(job[w]) /\ job[w].op = "refresh"
    BY <1>4 DEF CheckRefresh, At, InHand, HandPCs
  <2>1. CASE Goto(w, "lock")
    <3>1. [job[w] EXCEPT !.pc = "lock"].pc \notin HandPCs
      BY <1>0 DEF Job, HandPCs
    <3> QED BY <1>1, <2>1, <3>1, LetGo DEF Goto
  <2> DEFINE r == ShouldRotate(job[w].client, job[w].doc, now)
             j == [job[w] EXCEPT !.pc = "issue", !.at = now, !.rotate = r]
  <2>2. CASE Become(w, j)
    <3>1. r => now <= job[w].doc.iiat + AbsoluteMax
      BY DEF ShouldRotate
    <3> HIDE DEF r
    <3>2. /\ j.id = job[w].id /\ j.doc = job[w].doc /\ j.op = "refresh"
          /\ j.pc = "issue" /\ j.at = now /\ j.rotate = r
      BY <1>0, <2>0 DEF Job
    <3> HIDE DEF j
    <3>3. Checked(j)
      BY <1>0, <3>1, <3>2 DEF Checked
    <3> QED BY <1>1, <2>0, <2>2, <3>2, <3>3, Holding
  <2> QED BY <1>2, <1>4, <2>1, <2>2 DEF CheckRefresh
<1>5. CASE IssueForRefresh(w)
  <2>0. InHand(job[w]) /\ job[w].op = "refresh" /\ job[w].pc = "issue"
    BY <1>5 DEF IssueForRefresh, At, InHand, HandPCs
  <2> DEFINE p == IF job[w].rotate THEN "put" ELSE "back"
             j == [job[w] EXCEPT !.pc = p]
  <2>1. /\ j.id = job[w].id /\ j.doc = job[w].doc /\ j.op = "refresh"
        /\ j.pc = p /\ j.at = job[w].at /\ j.rotate = job[w].rotate
    BY <1>0, <2>0 DEF Job
  <2>2. Become(w, j)
    BY <1>5 DEF IssueForRefresh, Goto
  <2> HIDE DEF j
  <2>3. Checked(j)
    BY <1>0, <2>0, <2>1 DEF Checked, HandPCs
  <2> QED BY <1>1, <2>0, <2>1, <2>2, <2>3, Holding
<1>6. CASE GrantRead(w)
  <2>0. job[w].pc = "index" /\ InHand(job[w])
    BY <1>0, <1>6 DEF GrantRead, At, WellFormed, InHand, HandPCs
  <2> DEFINE j == [job[w] EXCEPT !.pc = "indexing", !.refs = grantRefs(job[w].doc.grant)]
  <2>1. /\ j.id = job[w].id /\ j.doc = job[w].doc /\ j.op = job[w].op
        /\ j.pc = "indexing" /\ j.at = job[w].at
    BY <1>0 DEF Job
  <2>2. Become(w, j)
    BY <1>6 DEF GrantRead
  <2> HIDE DEF j
  <2>3. Checked(j)
    BY <1>0, <2>0, <2>1 DEF Checked, HandPCs
  <2> QED BY <1>1, <2>0, <2>1, <2>2, <2>3, Holding
<1>7. CASE GrantWrite(w)
  <2>0. job[w].pc = "indexing" /\ InHand(job[w])
    BY <1>0, <1>7 DEF GrantWrite, At, WellFormed, InHand, HandPCs
  <2> DEFINE p == IF job[w].op = "code" THEN "respond" ELSE "back"
             j == Indexed(w)
  <2>1. /\ j.id = job[w].id /\ j.doc = job[w].doc /\ j.op = job[w].op
        /\ j.pc = p /\ j.at = job[w].at
    BY <1>0 DEF Job, Indexed
  <2>2. Become(w, j)
    BY <1>7 DEF GrantWrite
  <2> HIDE DEF j
  <2>3. Checked(j)
    BY <1>0, <2>0, <2>1 DEF Checked, HandPCs
  <2> QED BY <1>1, <2>0, <2>1, <2>2, <2>3, Holding
<1> QED BY <1>3, <1>4, <1>5, <1>6, <1>7 DEF CheckWork

\* A disk error leaves a handler with the document it had, or none.
LEMMA FaultKeeps ==
    ASSUME GrantInv, IInv', NEW w \in Workers, DiskFault(w) PROVE GrantInv'
<1>0. /\ TypeOK /\ JobOK /\ job[w] \in Job /\ WellFormed(job[w]) /\ Checked(job[w])
  BY GrantFacts
<1>1. OnlyRemoves /\ UNCHANGED <<now, rotatedAt>>
  BY <1>0, FaultDisk DEF OnlyRemoves, TypeOK
<1>2. PICK j \in Job : FaultJob(w, j) /\ Become(w, j)
  BY <1>0, FaultJobs
<1>3. CASE j.pc \notin HandPCs
  BY <1>1, <1>2, <1>3, LetGo
<1>4. CASE j.pc \in HandPCs
  <2>1. /\ job[w].pc \in {"index", "indexing"} /\ j.pc \in {"indexing", "back"}
        /\ j.id = job[w].id /\ j.doc = job[w].doc /\ j.at = job[w].at
        /\ j.op = job[w].op
    BY <1>2, <1>4 DEF FaultJob, HandPCs, NoJob
  <2>2. InHand(job[w])
    BY <1>0, <2>1 DEF WellFormed, InHand, HandPCs
  <2>3. Checked(j)
    BY <1>0, <2>1 DEF Checked, HandPCs
  <2> QED BY <1>1, <1>2, <2>1, <2>2, <2>3, Holding
<1> QED BY <1>3, <1>4

\* Nor does the sweeper, the clock or a restart copy one.
LEMMA RestKeeps ==
    ASSUME GrantInv, IInv',
           (\E d \in Docs : SweepExpired(d) \/ SweepClaim(d)) \/ Tick \/ Crash
             \/ UNCHANGED vars
    PROVE  GrantInv'
<1>0. TypeOK /\ now \in Nat /\ now # 0 /\ \A v \in Workers : Checked(job[v])
  BY IInvDocs DEF GrantInv, TypeOK
<1>1. OnlyRemoves /\ rotatedAt' = rotatedAt
  BY <1>0 DEF SweepExpired, SweepClaim, Tick, Crash, vars, OnlyRemoves, TypeOK, disk, ghost
<1>2. now' \in {now, now + 1}
  BY DEF SweepExpired, SweepClaim, Tick, Crash, vars
<1>3. \A v \in Workers : job'[v] \in {job[v], NoJob}
  BY DEF SweepExpired, SweepClaim, Tick, Crash, vars
<1>4. NoJob.pc \notin HandPCs
  BY DEF NoJob, HandPCs
<1>5. ASSUME NEW v \in Workers
      PROVE  /\ Checked(job'[v])
             /\ InHand(job'[v]) => job'[v] = job[v]
  BY <1>0, <1>3, <1>4, EmptyHanded
<1> QED BY <1>0, <1>1, <1>2, <1>5, NothingCopied

-----------------------------------------------------------------------------
(* The steps that copy one.                                                *)

\* What GrantInv and the exclusiveness of documents say of the copies there are:
\* they are of ids that have been drawn.
LEMMA DrawnCopies ==
    ASSUME GrantInv
    PROVE  /\ \A t \in Tokens : file[t] # None \/ claimFile[t] # None => grantOf[t] # None
           /\ \A t \in Tokens, w \in Workers : job[w].id = t => grantOf[t] # None
           /\ \A k \in Codes : file[k] # None \/ claimFile[k] # None => authz[k] # None
BY GrantFacts DEF GrantInv, IInv, Fresh

\* A human authorizes.
LEMMA MintKeeps ==
    ASSUME GrantInv, IInv', NEW k \in Codes, NEW c \in Clients, NEW a \in Accounts,
           NEW b \in Bindings, MintCode(k, c, a, b)
    PROVE  GrantInv'
<1> DEFINE new == [client |-> c, account |-> a, grant |-> k, bind |-> b,
                   iat |-> 0, exp |-> 0, iiat |-> 0, consumed |-> 0,
                   expiresAt |-> 0, mtime |-> 0]
           doc == Stamp(new, CodeTTL)
<1>0. TypeOK /\ now \in Nat /\ now # 0 /\ Drawn
      /\ \A v \in Workers : Checked(job[v])
  BY IInvDocs DEF GrantInv, TypeOK
<1>1. doc.client = c /\ doc.account = a /\ doc.grant = k
  <2>1. new \in Doc /\ new.client = c /\ new.account = a /\ new.grant = k
    BY DEF Doc
  <2> HIDE DEF new
  <2> QED BY <1>0, <2>1, StampType, TimesAssumption
<1>2. /\ authz[k] = None
      /\ authz' = [authz EXCEPT ![k] = [client |-> c, account |-> a]]
      /\ file' = [file EXCEPT ![k] = doc]
      /\ UNCHANGED <<now, claimFile, job, grantOf, redeemed, rotatedAt>>
  BY DEF MintCode
<1> HIDE DEF doc
<1>3. PICK f \in [Codes -> Nat] : CopiesRight(f)
  BY DEF GrantInv
<1>4. /\ \A g \in Codes : authz[g] # None => authz'[g] = authz[g]
      /\ authz'[k] = [client |-> c, account |-> a]
  BY <1>0, <1>2 DEF TypeOK
<1>5. ASSUME NEW d, NEW e \in Doc, Right(d, e, f) PROVE Right(d, e, f)'
  BY <1>2, <1>4, <1>5, RightLater
<1>6. CopiesRight(f)'
  <2>1. ASSUME NEW d \in Docs, file'[d] # None PROVE Right(d, file[d], f)'
    <3>1. CASE d = k
      BY <1>0, <1>1, <1>2, <1>4, <3>1, ConstantsAssumption DEF Right, TypeOK
    <3>2. CASE d # k
      <4>1. file'[d] = file[d] /\ file[d] \in Doc
        BY <1>0, <1>2, <2>1, <3>2 DEF TypeOK
      <4>2. Right(d, file[d], f)
        BY <1>3, <2>1, <4>1 DEF CopiesRight
      <4> QED BY <1>2, <1>5, <4>1, <4>2 DEF Right
    <3> QED BY <3>1, <3>2
  <2>2. ASSUME NEW d \in Docs, claimFile'[d] # None PROVE Right(d, claimFile[d], f)'
    <3>1. claimFile'[d] = claimFile[d] /\ claimFile[d] \in Doc
      BY <1>0, <1>2, <2>2 DEF TypeOK
    <3>2. Right(d, claimFile[d], f)
      BY <1>3, <2>2, <3>1 DEF CopiesRight
    <3> QED BY <1>5, <3>1, <3>2 DEF Right
  <2>3. ASSUME NEW v \in Workers, InHand(job'[v]) PROVE Right(job[v].id, job[v].doc, f)'
    <3>1. job'[v] = job[v] /\ job[v].id \in Docs /\ job[v].doc \in Doc
      BY <1>2, <2>3, GrantFacts
    <3>2. PICK d \in Docs, e \in Doc : d = job[v].id /\ e = job[v].doc
      BY <3>1
    <3>3. Right(d, e, f)
      BY <1>3, <2>3, <3>1, <3>2 DEF CopiesRight
    <3>4. Right(d, e, f)'
      BY <1>5, <3>3
    <3> QED BY <3>1, <3>2, <3>4 DEF Right
  <2> QED BY <2>1, <2>2, <2>3 DEF CopiesRight
<1>7. Drawn'
  BY <1>0, <1>2 DEF Drawn
<1> QED BY <1>0, <1>2, <1>6, <1>7 DEF GrantInv

\* claim(): the document moves with the rename, then into memory.
LEMMA ClaimKeeps ==
    ASSUME GrantInv, IInv', NEW w \in Workers, ClaimRename(w) \/ ClaimRead(w)
    PROVE  GrantInv'
<1>0. /\ TypeOK /\ job[w] \in Job /\ WellFormed(job[w])
      /\ now \in Nat /\ now # 0 /\ Drawn /\ \A v \in Workers : Checked(job[v])
  BY GrantFacts DEF GrantInv, TypeOK
<1>1. PICK f \in [Codes -> Nat] : CopiesRight(f)
  BY DEF GrantInv
<1>2. UNCHANGED <<now, authz, grantOf, redeemed, rotatedAt>>
  BY DEF ClaimRename, ClaimRead, ghost
<1>3. ASSUME NEW d, NEW e, Right(d, e, f) PROVE Right(d, e, f)'
  BY <1>2, <1>3 DEF Right
<1>4. job[w].id \in Docs
  <2>1. job[w].pc \in {"claim", "read"}
    BY DEF ClaimRename, ClaimRead, At
  <2> QED BY <1>0, <2>1 DEF WellFormed, Docs
<1>5. NoJob.pc \notin HandPCs
  BY DEF NoJob, HandPCs
<1>6. CASE OnlyRemoves /\ Finish(w)
  BY <1>2, <1>5, <1>6, LetGo DEF Finish
<1>7. CASE ClaimRename(w) /\ file[job[w].id] # None
  <2>1. /\ file' = [file EXCEPT ![job[w].id] = None]
        /\ claimFile' = [claimFile EXCEPT ![job[w].id] = file[job[w].id]]
        /\ job' = [job EXCEPT ![w] = [job[w] EXCEPT !.pc = "read"]]
    BY <1>7 DEF ClaimRename, Goto, Become
  <2>2. job'[w].pc \notin HandPCs /\ \A v \in Workers \ {w} : job'[v] = job[v]
    BY <1>0, <2>1 DEF TypeOK, Job, HandPCs
  <2>3. \A v \in Workers : Checked(job'[v]) /\ (InHand(job'[v]) => job'[v] = job[v])
    BY <1>0, <2>2, EmptyHanded
  <2>4. CopiesRight(f)'
    <3>1. ASSUME NEW d \in Docs, file'[d] # None PROVE Right(d, file'[d], f)
      BY <1>0, <1>1, <2>1, <3>1 DEF CopiesRight, TypeOK
    <3>2. ASSUME NEW d \in Docs, claimFile'[d] # None PROVE Right(d, claimFile'[d], f)
      BY <1>0, <1>1, <1>4, <2>1, <3>2 DEF CopiesRight, TypeOK
    <3>3. ASSUME NEW v \in Workers, InHand(job'[v]) PROVE Right(job'[v].id, job'[v].doc, f)
      BY <1>1, <2>3, <3>3 DEF CopiesRight
    <3> QED BY <1>2, <3>1, <3>2, <3>3 DEF CopiesRight, Right
  <2> QED BY <1>0, <1>2, <2>3, <2>4 DEF GrantInv, Drawn
<1>8. CASE ClaimRead(w) /\ claimFile[job[w].id] # None /\ ~Finish(w)
  <2>1. /\ file' = file
        /\ claimFile' = [claimFile EXCEPT ![job[w].id] = None]
        /\ job' = [job EXCEPT ![w] = [job[w] EXCEPT !.pc = "check",
                                                    !.doc = claimFile[job[w].id]]]
    BY <1>8 DEF ClaimRead, Become
  <2>2. /\ job'[w].pc = "check" /\ job'[w].id = job[w].id
        /\ job'[w].doc = claimFile[job[w].id]
        /\ \A v \in Workers \ {w} : job'[v] = job[v]
    BY <1>0, <2>1 DEF TypeOK, Job
  <2>3. \A v \in Workers : Checked(job'[v])
    BY <1>0, <2>2 DEF Checked
  <2>4. CopiesRight(f)'
    <3>1. ASSUME NEW d \in Docs, file'[d] # None PROVE Right(d, file'[d], f)
      BY <1>1, <2>1, <3>1 DEF CopiesRight
    <3>2. ASSUME NEW d \in Docs, claimFile'[d] # None PROVE Right(d, claimFile'[d], f)
      BY <1>0, <1>1, <2>1, <3>2 DEF CopiesRight, TypeOK
    <3>3. ASSUME NEW v \in Workers, InHand(job'[v]) PROVE Right(job'[v].id, job'[v].doc, f)
      BY <1>1, <1>4, <1>8, <2>2, <3>3 DEF CopiesRight
    <3> QED BY <1>2, <3>1, <3>2, <3>3 DEF CopiesRight, Right
  <2> QED BY <1>0, <1>2, <2>3, <2>4 DEF GrantInv, Drawn
<1>9. CASE ClaimRename(w) /\ file[job[w].id] = None
  BY <1>6, <1>9 DEF ClaimRename, OnlyRemoves, ghost
<1>10. CASE ClaimRead(w) /\ Finish(w)
  BY <1>0, <1>6, <1>10 DEF ClaimRead, OnlyRemoves, TypeOK, ghost
<1>11. CASE ClaimRead(w) /\ claimFile[job[w].id] = None
  BY <1>10, <1>11 DEF ClaimRead
<1> QED BY <1>7, <1>8, <1>9, <1>10, <1>11

\* A new token is put for a grant that has been redeemed, or is being redeemed
\* now: whatever the times f said of that grant, g says of the others.
LEMMA NewToken ==
    ASSUME GrantInv, IInv', NEW w \in Workers, InHand(job[w]),
           NEW f \in [Codes -> Nat], NEW g \in [Codes -> Nat], CopiesRight(f),
           NEW t \in Tokens, NEW new \in Doc,
           Draw(t, job[w].doc.grant), file' = [file EXCEPT ![t] = new],
           Become(w, [job[w] EXCEPT !.pc = "index", !.next = t]),
           UNCHANGED <<now, claimFile, authz, rotatedAt>>,
           new.client = job[w].doc.client, new.account = job[w].doc.account,
           new.grant = job[w].doc.grant, new.iiat = g[new.grant],
           new.exp <= new.iiat + AbsoluteMax + RefreshTTL,
           redeemed'[new.grant] # 0,
           \A k \in Codes : redeemed[k] # 0 => redeemed'[k] # 0,
           \A u \in Tokens : grantOf[u] # None => g[grantOf[u]] = f[grantOf[u]],
           job[w].op = "refresh" => job[w].at # 0
    PROVE  GrantInv'
<1>0. /\ TypeOK /\ job[w] \in Job /\ WellFormed(job[w])
      /\ now # 0 /\ Drawn /\ \A v \in Workers : Checked(job[v])
  BY GrantFacts DEF GrantInv
<1>1. /\ grantOf[t] = None /\ grantOf'[t] = new.grant /\ new.grant \in Codes
      /\ \A u \in Tokens : u # t => grantOf'[u] = grantOf[u]
      /\ file'[t] = new
      /\ \A d \in Docs : d # t => file'[d] = file[d]
  BY <1>0 DEF Draw, TypeOK, Doc, Docs
<1>2. /\ \A v \in Workers \ {w} : job'[v] = job[v]
      /\ job'[w].pc = "index" /\ job'[w].id = job[w].id /\ job'[w].op = job[w].op
      /\ job'[w].doc = job[w].doc /\ job'[w].at = job[w].at
  BY <1>0 DEF Become, TypeOK, Job
<1>3. ASSUME NEW d \in Docs, NEW e \in Doc, Right(d, e, f),
             d \in Tokens => grantOf[d] # None
      PROVE  Right(d, e, g)'
  <2>1. d \in Tokens => grantOf'[d] = grantOf[d] /\ g[e.grant] = f[e.grant]
    BY <1>1, <1>3 DEF Right
  <2> QED BY <1>3, <2>1, RightLater
<1>4. ASSUME NEW d \in Docs, file'[d] # None PROVE Right(d, file[d], g)'
  <2>1. CASE d = t
    <3>1. Right(job[w].id, job[w].doc, f)
      BY DEF CopiesRight
    <3>2. authz'[new.grant] = [client |-> new.client, account |-> new.account]
      BY <3>1 DEF Right
    <3>3. rotatedAt'[t] = 0
      BY <1>0, <1>1 DEF Drawn
    <3>4. t \notin Codes
      BY ConstantsAssumption
    <3> QED BY <1>1, <2>1, <3>2, <3>3, <3>4 DEF Right
  <2>2. CASE d # t
    <3>1. file'[d] = file[d] /\ file[d] \in Doc
      BY <1>0, <1>1, <1>4, <2>2 DEF TypeOK
    <3>2. Right(d, file[d], f) /\ (d \in Tokens => grantOf[d] # None)
      BY <1>4, <3>1, DrawnCopies DEF CopiesRight
    <3>3. Right(d, file[d], g)'
      BY <3>1, <3>2, <1>3 DEF Right
    <3> QED BY <3>1, <3>3 DEF Right
  <2> QED BY <2>1, <2>2
<1>5. ASSUME NEW d \in Docs, claimFile'[d] # None PROVE Right(d, claimFile[d], g)'
  <2>1. claimFile'[d] = claimFile[d] /\ claimFile[d] \in Doc
    BY <1>0, <1>5 DEF TypeOK
  <2>2. Right(d, claimFile[d], f) /\ (d \in Tokens => grantOf[d] # None)
    BY <1>5, <2>1, DrawnCopies DEF CopiesRight
  <2> QED BY <1>3, <2>1, <2>2 DEF Right
<1>6. ASSUME NEW v \in Workers, InHand(job'[v]) PROVE Right(job[v].id, job[v].doc, g)'
  <2>1. InHand(job[v]) /\ job'[v].id = job[v].id /\ job'[v].doc = job[v].doc
    BY <1>2, <1>6
  <2>2. Right(job[v].id, job[v].doc, f) /\ job[v].id \in Docs /\ job[v].doc \in Doc
    BY <2>1, GrantFacts DEF CopiesRight
  <2>3. job[v].id \in Tokens => grantOf[job[v].id] # None
    BY DrawnCopies
  <2>4. Right(job[v].id, job[v].doc, g)' \/ \E d \in Docs, e \in Doc :
          d = job[v].id /\ e = job[v].doc /\ Right(d, e, g)'
    BY <1>3, <2>2, <2>3
  <2> QED BY <2>1, <2>4 DEF Right
<1>7. Drawn'
  <2>1. ASSUME NEW u \in Tokens, grantOf'[u] # None PROVE redeemed'[grantOf'[u]] # 0
    BY <1>0, <1>1, <2>1 DEF Drawn, TypeOK
  <2>2. ASSUME NEW u \in Tokens, rotatedAt'[u] # 0 PROVE grantOf'[u] # None
    BY <1>0, <1>1, <2>2 DEF Drawn
  <2> QED BY <2>1, <2>2 DEF Drawn
<1>8. \A v \in Workers : Checked(job'[v])
  BY <1>0, <1>2 DEF Checked, HandPCs
<1>9. CopiesRight(g)'
  BY <1>4, <1>5, <1>6 DEF CopiesRight
<1> QED BY <1>0, <1>7, <1>8, <1>9 DEF GrantInv

\* The redemption of a code: its grant starts now.
LEMMA IssueKeeps ==
    ASSUME GrantInv, IInv', NEW w \in Workers, IssueForCode(w) PROVE GrantInv'
<1> DEFINE k == job[w].doc.grant
           new == Stamp(FirstToken(job[w].doc, job[w].client), RefreshTTL)
<1>0. /\ TypeOK /\ DocsInv /\ job[w] \in Job /\ WellFormed(job[w]) /\ Checked(job[w])
      /\ now \in Nat /\ now # 0 /\ Drawn /\ \A v \in Workers : Checked(job[v])
  BY GrantFacts DEF GrantInv, TypeOK
<1>1. /\ job[w].pc = "issue" /\ job[w].op = "code" /\ InHand(job[w])
      /\ job[w].id \in Codes /\ job[w].doc \in Doc /\ job[w].client \in Clients
  BY <1>0 DEF IssueForCode, At, InHand, HandPCs, WellFormed
<1>2. k = job[w].id /\ k \in Codes /\ redeemed[k] = 0
  BY <1>0, <1>1 DEF DocsInv, CodesOK
<1>3. /\ redeemed' = [redeemed EXCEPT ![k] = redeemed[k] + 1]
      /\ UNCHANGED <<now, claimFile, authz, rotatedAt>>
  BY DEF IssueForCode
<1>4. redeemed'[k] # 0 /\ \A c \in Codes : redeemed[c] # 0 => redeemed'[c] # 0
  BY <1>0, <1>2, <1>3 DEF TypeOK
<1>5. PICK f \in [Codes -> Nat] : CopiesRight(f)
  BY DEF GrantInv
<1>6. CASE /\ Goto(w, "respond") /\ UNCHANGED <<file, grantOf>>
  <2>1. /\ job'[w].pc = "respond" /\ \A v \in Workers \ {w} : job'[v] = job[v]
    BY <1>0, <1>6 DEF Goto, Become, TypeOK, Job
  <2>2. \A v \in Workers : Checked(job'[v]) /\ (InHand(job'[v]) => job'[v] = job[v])
    BY <1>0, <2>1, EmptyHanded DEF HandPCs
  <2>3. CopiesRight(f)'
    BY <1>3, <1>5, <1>6, <2>2 DEF CopiesRight, Right
  <2>4. Drawn'
    BY <1>0, <1>3, <1>4, <1>6 DEF Drawn, TypeOK
  <2> QED BY <1>0, <1>3, <2>2, <2>3, <2>4 DEF GrantInv
<1>7. CASE \E t \in Tokens :
             /\ Draw(t, k)
             /\ file' = [file EXCEPT ![t] = new]
             /\ Become(w, [job[w] EXCEPT !.pc = "index", !.next = t])
  <2>1. PICK t \in Tokens :
             /\ Draw(t, k)
             /\ file' = [file EXCEPT ![t] = new]
             /\ Become(w, [job[w] EXCEPT !.pc = "index", !.next = t])
    BY <1>7
  <2> DEFINE g == [f EXCEPT ![k] = now]
  <2>2. g \in [Codes -> Nat] /\ g[k] = now
    BY <1>0, <1>2
  <2>3. \A u \in Tokens : grantOf[u] # None => g[grantOf[u]] = f[grantOf[u]]
    BY <1>0, <1>2 DEF Drawn, TypeOK
  <2> HIDE DEF g
  <2>4. /\ new \in Doc
        /\ new.client = job[w].doc.client /\ new.account = job[w].doc.account
        /\ new.grant = k /\ new.iiat = g[new.grant]
        /\ new.exp <= new.iiat + AbsoluteMax + RefreshTTL
    <3>1. new \in Doc
      BY <1>0, <1>1, FirstTokenType, StampType, TimesAssumption
    <3>2. job[w].doc.client = job[w].client
      BY <1>0, <1>1 DEF Checked
    <3>3. /\ new.client = job[w].client /\ new.account = job[w].doc.account
          /\ new.grant = k /\ new.iiat = now
          /\ new.exp <= new.iiat + AbsoluteMax + RefreshTTL
      BY <1>0, <1>1, FirstTokenFields
    <3> HIDE DEF new, k
    <3> QED BY <2>2, <3>1, <3>2, <3>3
  <2> HIDE DEF new
  <2> QED BY <1>1, <1>3, <1>4, <1>5, <2>1, <2>2, <2>3, <2>4, NewToken
<1> HIDE DEF new
<1> QED BY <1>6, <1>7 DEF IssueForCode, new

\* A rotation: the successor belongs to the same grant and the same first issue.
LEMMA RotateKeeps ==
    ASSUME GrantInv, IInv', NEW w \in Workers, PutNext(w) PROVE GrantInv'
<1> DEFINE k == job[w].doc.grant
           new == Stamp(Successor(job[w].doc, job[w].at), RefreshTTL)
<1>0. /\ TypeOK /\ job[w] \in Job /\ WellFormed(job[w]) /\ Checked(job[w])
      /\ now \in Nat /\ Drawn
  BY GrantFacts DEF GrantInv, TypeOK
<1>1. /\ job[w].pc = "put" /\ job[w].op = "refresh" /\ InHand(job[w])
      /\ job[w].id \in Tokens /\ job[w].doc \in Doc /\ job[w].at \in Nat
  BY <1>0, GrantFacts DEF PutNext, At, InHand, HandPCs, WellFormed, Job
<1>2. /\ UNCHANGED <<now, claimFile, authz, redeemed, rotatedAt>>
      /\ \E t \in Tokens :
           /\ Draw(t, k)
           /\ file' = [file EXCEPT ![t] = new]
           /\ Become(w, [job[w] EXCEPT !.pc = "index", !.next = t])
  BY DEF PutNext
<1>3. job[w].at # 0 /\ job[w].at <= job[w].doc.iiat + AbsoluteMax
  BY <1>0, <1>1 DEF Checked, HandPCs
<1>4. PICK f \in [Codes -> Nat] : CopiesRight(f)
  BY DEF GrantInv
<1>5. Right(job[w].id, job[w].doc, f)
  BY <1>1, <1>4 DEF CopiesRight
<1>6. /\ k = grantOf[job[w].id] /\ job[w].doc.iiat = f[k] /\ redeemed[k] # 0
  <2>1. grantOf[job[w].id] # None
    BY <1>1, DrawnCopies
  <2> QED BY <1>0, <1>1, <1>5, <2>1 DEF Right, Drawn
<1>7. /\ new \in Doc
      /\ new.client = job[w].doc.client /\ new.account = job[w].doc.account
      /\ new.grant = k /\ new.iiat = f[new.grant]
      /\ new.exp <= new.iiat + AbsoluteMax + RefreshTTL
  <2>1. new \in Doc
    BY <1>0, <1>1, SuccessorType, StampType, TimesAssumption
  <2>2. /\ new.client = job[w].doc.client /\ new.account = job[w].doc.account
        /\ new.grant = k /\ new.iiat = job[w].doc.iiat
        /\ new.exp <= new.iiat + AbsoluteMax + RefreshTTL
    BY <1>0, <1>1, <1>3, SuccessorFields
  <2> HIDE DEF new, k
  <2> QED BY <1>6, <2>1, <2>2
<1> HIDE DEF new
<1>8. PICK t \in Tokens :
           /\ Draw(t, k)
           /\ file' = [file EXCEPT ![t] = new]
           /\ Become(w, [job[w] EXCEPT !.pc = "index", !.next = t])
  BY <1>2
<1>9. redeemed'[new.grant] # 0 /\ \A c \in Codes : redeemed[c] # 0 => redeemed'[c] # 0
  BY <1>2, <1>6, <1>7
<1> QED BY <1>1, <1>2, <1>3, <1>4, <1>7, <1>8, <1>9, NewToken

\* The put back: a token that was rotated away is marked.
LEMMA PutBackKeeps ==
    ASSUME GrantInv, IInv', NEW w \in Workers, PutBack(w) PROVE GrantInv'
<1> DEFINE d == job[w].id
           new == Presented(w)
<1>0. /\ TypeOK /\ DocsInv /\ job[w] \in Job /\ WellFormed(job[w]) /\ Checked(job[w])
      /\ now \in Nat /\ now # 0 /\ Drawn /\ \A v \in Workers : Checked(job[v])
  BY GrantFacts DEF GrantInv, TypeOK
<1>1. /\ job[w].pc = "back" /\ job[w].op = "refresh" /\ InHand(job[w])
      /\ d \in Tokens /\ d \in Docs /\ job[w].doc \in Doc /\ job[w].at \in Nat /\ job[w].at # 0
  BY <1>0, GrantFacts DEF PutBack, At, InHand, HandPCs, WellFormed, Job, Checked, Docs
<1>2. /\ file' = [file EXCEPT ![d] = new]
      /\ rotatedAt' = IF job[w].rotate /\ rotatedAt[d] = 0
                      THEN [rotatedAt EXCEPT ![d] = job[w].at] ELSE rotatedAt
      /\ job' = [job EXCEPT ![w] = [job[w] EXCEPT !.pc = "respond"]]
      /\ UNCHANGED <<now, claimFile, authz, grantOf, redeemed>>
  BY DEF PutBack, Goto, Become
<1>3. PICK f \in [Codes -> Nat] : CopiesRight(f)
  BY DEF GrantInv
<1>4. Right(d, job[w].doc, f)
  BY <1>1, <1>3 DEF CopiesRight
<1>5. /\ claimFile[d] = None /\ \A v \in Workers \ {w} : InHand(job[v]) => job[v].id # d
  <2>1. Claims(w, d)
    BY <1>1 DEF Claims
  <2>2. \A v \in Workers : InHand(job[v]) /\ job[v].id = d => Claims(v, d)
    BY DEF Claims, InHand, HandPCs
  <2> QED BY <1>0, <1>1, <2>1, <2>2 DEF DocsInv, Exclusive
<1>6. /\ new.client = job[w].doc.client /\ new.account = job[w].doc.account
      /\ new.grant = job[w].doc.grant /\ new.iiat = job[w].doc.iiat
      /\ new.exp = job[w].doc.exp
      /\ new.consumed = IF job[w].rotate THEN job[w].at ELSE job[w].doc.consumed
  BY <1>0, <1>1, PresentedFields
<1> HIDE DEF d, new
<1>7. /\ file'[d] = new /\ \A e \in Docs : e # d => file'[e] = file[e]
      /\ \A t \in Tokens : t # d => rotatedAt'[t] = rotatedAt[t]
      /\ rotatedAt'[d] # 0 => job[w].rotate \/ rotatedAt[d] # 0
  BY <1>0, <1>1, <1>2 DEF TypeOK
<1>8. /\ job'[w].pc \notin HandPCs /\ \A v \in Workers \ {w} : job'[v] = job[v]
  BY <1>0, <1>2 DEF TypeOK, Job, HandPCs
<1>9. ASSUME NEW e \in Docs, NEW doc, e # d, Right(e, doc, f) PROVE Right(e, doc, f)'
  BY <1>2, <1>7, <1>9 DEF Right
<1>10. CopiesRight(f)'
  <2>1. ASSUME NEW e \in Docs, e = d PROVE Right(e, file[e], f)'
    <3>1. d \notin Codes
      BY <1>1, ConstantsAssumption
    <3>2. rotatedAt'[d] # 0 => new.consumed # 0
      BY <1>1, <1>4, <1>6, <1>7 DEF Right
    <3>3. /\ authz[new.grant] = [client |-> new.client, account |-> new.account]
          /\ new.grant = grantOf[d] /\ new.iiat = f[new.grant]
          /\ new.exp <= new.iiat + AbsoluteMax + RefreshTTL
      BY <1>1, <1>4, <1>6 DEF Right
    <3> QED BY <1>2, <1>7, <2>1, <3>1, <3>2, <3>3 DEF Right
  <2>2. ASSUME NEW e \in Docs, file'[e] # None PROVE Right(e, file[e], f)'
    <3>1. CASE e # d
      <4>1. file'[e] = file[e] /\ Right(e, file[e], f)
        BY <1>3, <1>7, <2>2, <3>1 DEF CopiesRight
      <4> QED BY <1>9, <3>1, <4>1 DEF Right
    <3> QED BY <2>1, <3>1
  <2>3. ASSUME NEW e \in Docs, claimFile'[e] # None PROVE Right(e, claimFile[e], f)'
    <3>1. claimFile'[e] = claimFile[e] /\ e # d /\ Right(e, claimFile[e], f)
      BY <1>2, <1>3, <1>5, <2>3 DEF CopiesRight
    <3> QED BY <1>9, <3>1 DEF Right
  <2>4. ASSUME NEW v \in Workers, InHand(job'[v]) PROVE Right(job[v].id, job[v].doc, f)'
    <3>1. v # w /\ job'[v] = job[v]
      BY <1>8, <2>4 DEF InHand
    <3>2. job[v].id # d /\ job[v].id \in Docs /\ Right(job[v].id, job[v].doc, f)
      BY <1>3, <1>5, <2>4, <3>1, GrantFacts DEF CopiesRight
    <3> QED BY <1>9, <3>1, <3>2 DEF Right
  <2> QED BY <2>2, <2>3, <2>4 DEF CopiesRight
<1>11. Drawn'
  <2>1. grantOf[d] # None
    BY <1>1, DrawnCopies DEF d
  <2> QED BY <1>0, <1>1, <1>2, <1>7, <2>1 DEF Drawn
<1>12. \A v \in Workers : Checked(job'[v])
  BY <1>0, <1>8, EmptyHanded
<1> QED BY <1>0, <1>2, <1>10, <1>11, <1>12 DEF GrantInv

-----------------------------------------------------------------------------
(* The theorems.                                                           *)

\* It holds of the empty store.
LEMMA GrantEmpty == EmptyStore /\ clients \subseteq Clients => GrantInv
<1> SUFFICES ASSUME EmptyStore /\ clients \subseteq Clients PROVE GrantInv
  OBVIOUS
<1>1. IInv /\ now # 0
  BY InvStart DEF EmptyStore
<1>2. Drawn
  BY DEF EmptyStore, Drawn
<1>3. \A w \in Workers : job[w] = NoJob /\ NoJob.pc \notin HandPCs
  BY DEF EmptyStore, NoJob, HandPCs
<1>4. \A w \in Workers : Checked(job[w]) /\ ~InHand(job[w])
  BY <1>3, EmptyHanded
<1>5. CopiesRight([k \in Codes |-> 0])
  BY <1>4 DEF EmptyStore, CopiesRight, Docs
<1>6. [k \in Codes |-> 0] \in [Codes -> Nat]
  OBVIOUS
<1> QED BY <1>1, <1>2, <1>4, <1>5, <1>6 DEF GrantInv

\* So it holds when all clients have been registered at the start.
LEMMA GrantInit == Init => GrantInv
BY GrantEmpty DEF Init

\* Every step of every handler keeps it, disk errors and restarts included.
LEMMA GrantStep == GrantInv /\ [Next]_vars => GrantInv'
<1> SUFFICES ASSUME GrantInv, [Next]_vars PROVE GrantInv'
  OBVIOUS
<1>1. IInv'
  BY InvStep DEF GrantInv
<1>2. ASSUME NEW w \in Workers, Work(w) PROVE GrantInv'
  BY <1>1, <1>2, RevokeKeeps, CheckKeeps, ClaimKeeps, IssueKeeps, RotateKeeps, PutBackKeeps
     DEF Work, RevokeWork, CheckWork
<1>3. ASSUME NEW w \in Workers, Start(w) \/ DiskFault(w) PROVE GrantInv'
  BY <1>1, <1>3, StartKeeps, FaultKeeps
<1>4. CASE Environment \/ UNCHANGED vars
  BY <1>1, <1>4, MintKeeps, RestKeeps DEF Environment
<1> QED BY <1>2, <1>3, <1>4 DEF Next

\* So it holds in every reachable state.
LEMMA GrantInvariance == Spec => []GrantInv
BY GrantInit, GrantStep, PTL DEF Spec

\* A refresh token on disk names the client, the account and the grant of the
\* authorization it descends from, however often it was rotated, whichever
\* handlers interleave and wherever the process dies.
THEOREM Inherited == Spec => []BoundToAuthorization
<1>1. GrantInv => BoundToAuthorization
  BY DEF GrantInv, CopiesRight, Right, BoundToAuthorization, Docs
<1> QED BY <1>1, GrantInvariance, PTL

\* No rotation extends a grant past its ceiling.
THEOREM Ceiling == Spec => []GrantCeiling
<1>1. GrantInv => GrantCeiling
  BY DEF GrantInv, CopiesRight, Right, GrantCeiling, Docs
<1> QED BY <1>1, GrantInvariance, PTL

\* The ceiling of all tokens of a grant is measured from one time.
THEOREM FirstIssue == Spec => []OneFirstIssue
<1>1. ASSUME GrantInv PROVE OneFirstIssue
  <2>1. PICK f \in [Codes -> Nat] : CopiesRight(f)
    BY <1>1 DEF GrantInv
  <2>2. ASSUME NEW t \in Tokens, file[t] # None PROVE file[t].iiat = f[grantOf[t]]
    <3>1. Right(t, file[t], f)
      BY <2>1, <2>2 DEF CopiesRight, Docs
    <3> QED BY <3>1 DEF Right
  <2> QED BY <2>2 DEF OneFirstIssue
<1> QED BY <1>1, GrantInvariance, PTL

\* A token that was rotated away keeps the mark of it: a replay is recognised
\* whatever retries, disk errors and restarts came before it.
THEOREM MarkKept == Spec => []RotatedStaysMarked
<1>1. GrantInv => RotatedStaysMarked
  BY DEF GrantInv, CopiesRight, Right, RotatedStaysMarked, Docs
<1> QED BY <1>1, GrantInvariance, PTL

-----------------------------------------------------------------------------
(* Nothing is lost by redemptions alone: a claim that hides a token is     *)
(* always followed by the put that brings it back.                         *)

\* On disk, or about to be put back.
Alive(t) == file[t] # None \/ \E w \in Workers : Claims(w, t)

\* In a response that has been sent, or is being prepared.
Coming(t) == t \in held \/ \E w \in Workers : job[w].next = t

\* A document that no expiry removes before the time the property is about.
Lasts(doc) == doc.exp > RefreshTTL /\ doc.expiresAt > RefreshTTL

LastingCopies ==
    \A t \in Tokens : /\ file[t] # None => Lasts(file[t])
                      /\ claimFile[t] # None => Lasts(claimFile[t])

\* Job j is a redemption.
Redeeming(j) ==
    /\ j.op \in {None, "code", "refresh"}
    /\ j.pc \notin {"get", "lock", "destroying", "drop", "list", "next"}

\* The token it presents has not ended at time n, nor will at the property's.
Timely(j, n) ==
    InHand(j) /\ j.op = "refresh" =>
      /\ j.doc.exp > RefreshTTL
      /\ j.pc # "check" => j.at <= n /\ j.at < j.doc.exp

\* It was given to the client that presents it.
Presenting ==
    \A w \in Workers : job[w].op = "refresh" =>
      /\ job[w].id \in held
      /\ job[w].client = authz[grantOf[job[w].id]].client
      /\ job[w].pc = "read" => claimFile[job[w].id] # None

KeepInv ==
    /\ LastingCopies /\ Presenting
    /\ \A w \in Workers : Redeeming(job[w]) /\ Timely(job[w], now)
    /\ now <= RefreshTTL => \A t \in Tokens : Coming(t) => Alive(t)

KInv == GrantInv /\ KeepInv

\* The sweeper takes no claim file that a request is about to read.
SweeperWaits == \A w \in Workers : At(w, "read") => ~SweepClaim(job[w].id)

\* A token is presented again only within the grace of its rotation.
RetriesInGrace ==
    \A w \in Workers : At(w, "check") /\ job[w].op = "refresh" => ~Reused(job[w].doc)

\* A worker with nothing to do.
LEMMA IdleKept ==
    /\ NoJob.op = None /\ NoJob.op \notin {"code", "refresh"} /\ NoJob.next = None
    /\ NoJob.pc = "idle"
    /\ Redeeming(NoJob) /\ ~Claiming(NoJob) /\ \A n \in Nat : Timely(NoJob, n)
BY NoneAssumption DEF NoJob, Redeeming, Claiming, ClaimPCs, Timely, InHand, HandPCs, Ops

\* What the invariant says of one worker.
LEMMA KeepFacts ==
    ASSUME KInv, NEW w \in Workers
    PROVE  /\ TypeOK /\ now \in Nat /\ now # 0 /\ job[w] \in Job /\ WellFormed(job[w])
           /\ Checked(job[w]) /\ Redeeming(job[w]) /\ Timely(job[w], now)
           /\ job[w].op = "refresh" =>
                /\ job[w].id \in held /\ job[w].id \in Tokens
                /\ job[w].client = authz[grantOf[job[w].id]].client
                /\ grantOf[job[w].id] # None
                /\ job[w].pc = "read" => claimFile[job[w].id] # None
           /\ \A n \in Tokens : job[w].next = n => grantOf[n] # None
BY GrantFacts DEF KInv, GrantInv, KeepInv, Presenting, IInv, TypeOK, Fresh

\* A step of one worker.
LEMMA KeepWorker ==
    ASSUME KInv, NEW w \in Workers, NEW j, Become(w, j), now' = now, authz' = authz,
           held \subseteq held',
           \A t \in Tokens : grantOf[t] # None => grantOf'[t] = grantOf[t],
           \A t \in Tokens : file'[t] \in {file[t], None} \/ Lasts(file'[t]),
           \A t \in Tokens : claimFile'[t] \in {claimFile[t], None} \/ Lasts(claimFile'[t]),
           \A v \in Workers \ {w} : job[v].op = "refresh" /\ job[v].pc = "read" =>
             claimFile'[job[v].id] # None,
           Redeeming(j), Timely(j, now),
           j.op = "refresh" =>
             /\ j.id \in held /\ j.id \in Tokens /\ grantOf[j.id] # None
             /\ j.client = authz[grantOf[j.id]].client
             /\ j.pc = "read" => claimFile'[j.id] # None,
           now <= RefreshTTL =>
             \A t \in Tokens :
               t \in held' \/ j.next = t \/ (\E v \in Workers \ {w} : job[v].next = t) =>
                 \/ file'[t] # None
                 \/ j.id = t /\ Claiming(j)
                 \/ \E v \in Workers \ {w} : Claims(v, t)
    PROVE  KeepInv'
<1>1. job'[w] = j /\ \A v \in Workers \ {w} : job'[v] = job[v]
  BY KeepFacts DEF Become, TypeOK
<1>2. LastingCopies'
  BY DEF KInv, KeepInv, LastingCopies, Lasts
<1>3. Presenting'
  BY <1>1, KeepFacts DEF Presenting
<1>4. ASSUME NEW v \in Workers PROVE Redeeming(job'[v]) /\ Timely(job'[v], now')
  BY <1>1, KeepFacts
<1>5. ASSUME now' <= RefreshTTL, NEW t \in Tokens, Coming(t)' PROVE Alive(t)'
  <2>1. t \in held' \/ j.next = t \/ \E v \in Workers \ {w} : job[v].next = t
    BY <1>1, <1>5 DEF Coming
  <2>2. t \in Docs
    BY DEF Docs
  <2>3. \A v \in Workers \ {w} : Claims(v, t) => Claims(v, t)'
    BY <1>1 DEF Claims
  <2>4. j.id = t /\ Claiming(j) => Claims(w, t)'
    BY <1>1 DEF Claims, Claiming, ClaimPCs
  <2> QED BY <1>5, <2>1, <2>3, <2>4 DEF Alive
<1> QED BY <1>2, <1>3, <1>4, <1>5 DEF KeepInv

\* A step of one worker that leaves the documents as they are, and does not let
\* go of a token while it could matter.
LEMMA KeepJob ==
    ASSUME KInv, NEW w \in Workers, NEW j, Become(w, j),
           UNCHANGED <<now, file, claimFile, authz, grantOf, held>>,
           Redeeming(j), Timely(j, now), j.next \in {job[w].next, None},
           j.op = "refresh" =>
             /\ j.id \in held /\ j.id \in Tokens /\ grantOf[j.id] # None
             /\ j.client = authz[grantOf[j.id]].client /\ j.pc # "read",
           now <= RefreshTTL /\ job[w].op = "refresh" /\ Claiming(job[w]) =>
             j.id = job[w].id /\ Claiming(j)
    PROVE  KeepInv'
<1>1. ASSUME now <= RefreshTTL, NEW t \in Tokens,
             t \in held' \/ j.next = t \/ \E v \in Workers \ {w} : job[v].next = t
      PROVE  \/ file'[t] # None
             \/ j.id = t /\ Claiming(j)
             \/ \E v \in Workers \ {w} : Claims(v, t)
  <2>1. Coming(t)
    BY <1>1, ConstantsAssumption DEF Coming, Docs
  <2>2. Alive(t)
    BY <1>1, <2>1 DEF KInv, KeepInv
  <2>3. Claims(w, t) => job[w].op = "refresh" /\ Claiming(job[w]) /\ job[w].id = t
    <3>1. t \notin Codes
      BY ConstantsAssumption
    <3> QED BY <3>1, KeepFacts DEF Claims, Claiming, ClaimPCs, WellFormed
  <2> QED BY <1>1, <2>2, <2>3 DEF Alive
<1>2. \A v \in Workers : job[v].op = "refresh" /\ job[v].pc = "read" => claimFile[job[v].id] # None
  BY KeepFacts
<1>3. /\ \A t \in Tokens : file'[t] \in {file[t], None} /\ claimFile'[t] \in {claimFile[t], None}
      /\ held \subseteq held' /\ grantOf' = grantOf /\ claimFile' = claimFile
  OBVIOUS
<1> QED BY <1>1, <1>2, <1>3, KeepWorker

\* A request to redeem or to refresh starts.
LEMMA StartKept ==
    ASSUME KInv, NEW w \in Workers, StartRedeem(w) PROVE KeepInv'
<1>1. At(w, "idle") /\ UNCHANGED <<now, file, claimFile, authz, grantOf, held>>
  BY DEF StartRedeem, StartCode, StartRefresh, disk, ghost
<1>2. now \in Nat /\ ~Claiming(job[w])
  BY <1>1, KeepFacts DEF Claiming, ClaimPCs, At
<1>3. ASSUME NEW c \in Clients, NEW k \in Codes, NEW b \in Bindings, StartCode(w, c, k, b)
      PROVE  KeepInv'
  <2> DEFINE j == [NoJob EXCEPT !.pc = "claim", !.op = "code", !.client = c, !.id = k,
                                !.bind = b]
  <2>1. Become(w, j)
    BY <1>3 DEF StartCode
  <2>2. j.op = "code" /\ j.pc = "claim" /\ j.next = None
    BY DEF NoJob
  <2> HIDE DEF j
  <2>3. Redeeming(j) /\ Timely(j, now)
    BY <2>2 DEF Redeeming, Timely, InHand, HandPCs
  <2> QED BY <1>1, <1>2, <2>1, <2>2, <2>3, KeepJob
<1>4. ASSUME NEW c \in Clients, NEW t \in Tokens, grantOf[t] # None,
             authz[grantOf[t]].client = c, StartRefresh(w, c, t)
      PROVE  KeepInv'
  <2> DEFINE j == [NoJob EXCEPT !.pc = "claim", !.op = "refresh", !.client = c, !.id = t]
  <2>1. Become(w, j) /\ t \in held
    BY <1>4 DEF StartRefresh
  <2>2. j.op = "refresh" /\ j.pc = "claim" /\ j.next = None /\ j.id = t /\ j.client = c
    BY DEF NoJob
  <2> HIDE DEF j
  <2>3. Redeeming(j) /\ Timely(j, now)
    BY <2>2 DEF Redeeming, Timely, InHand, HandPCs
  <2> QED BY <1>1, <1>2, <1>4, <2>1, <2>2, <2>3, KeepJob
<1> QED BY <1>3, <1>4 DEF StartRedeem

\* A document claimed by its rename is in the claim file.
LEMMA ClaimKept ==
    ASSUME KInv, NEW w \in Workers, ClaimRename(w) PROVE KeepInv'
<1> DEFINE d == job[w].id
           j == [job[w] EXCEPT !.pc = "read"]
<1>0. /\ TypeOK /\ now \in Nat /\ job[w] \in Job /\ WellFormed(job[w]) /\ job[w].pc = "claim"
      /\ d \in Docs /\ job[w].op \in {"code", "refresh"}
  BY KeepFacts DEF ClaimRename, At, WellFormed, Docs
<1>1. UNCHANGED <<now, authz, grantOf, held>>
  BY DEF ClaimRename, ghost
<1>2. CASE file[d] = None
  <2>1. Become(w, NoJob) /\ UNCHANGED <<file, claimFile>>
    BY <1>2 DEF ClaimRename, Finish
  <2>2. ~Claiming(job[w])
    BY <1>0 DEF Claiming, ClaimPCs
  <2> QED BY <1>0, <1>1, <2>1, <2>2, IdleKept, KeepJob
<1>3. CASE file[d] # None
  <2>1. /\ file' = [file EXCEPT ![d] = None]
        /\ claimFile' = [claimFile EXCEPT ![d] = file[d]]
        /\ Become(w, j)
    BY <1>3 DEF ClaimRename, Goto
  <2>2. /\ j.op = job[w].op /\ j.id = d /\ j.client = job[w].client /\ j.pc = "read"
        /\ j.next = job[w].next
    BY <1>0 DEF Job
  <2> HIDE DEF j
  <2>3. Redeeming(j) /\ Timely(j, now) /\ Claiming(j)
    BY <1>0, <2>2, KeepFacts DEF Redeeming, Timely, InHand, HandPCs, Claiming, ClaimPCs
  <2>4. /\ \A t \in Tokens : file'[t] \in {file[t], None}
        /\ \A t \in Tokens : claimFile'[t] \in {claimFile[t], None} \/ Lasts(claimFile'[t])
        /\ \A e \in Docs : claimFile'[e] = IF e = d THEN file[d] ELSE claimFile[e]
        /\ \A e \in Docs : file'[e] = IF e = d THEN None ELSE file[e]
    BY <1>0, <1>3, <2>1 DEF TypeOK, KInv, KeepInv, LastingCopies, Docs
  <2>5. \A v \in Workers \ {w} : job[v].op = "refresh" /\ job[v].pc = "read" =>
          claimFile'[job[v].id] # None
    BY <1>3, <2>4, KeepFacts DEF Docs
  <2>6. ASSUME now <= RefreshTTL, NEW t \in Tokens,
               t \in held' \/ j.next = t \/ \E v \in Workers \ {w} : job[v].next = t
        PROVE  \/ file'[t] # None
               \/ j.id = t /\ Claiming(j)
               \/ \E v \in Workers \ {w} : Claims(v, t)
    <3>1. Alive(t)
      BY <1>1, <2>2, <2>6 DEF KInv, KeepInv, Coming
    <3>2. ~Claims(w, t)
      BY <1>0 DEF Claims
    <3> QED BY <2>2, <2>3, <2>4, <3>1, <3>2 DEF Alive, Docs
  <2>7. j.op = "refresh" =>
          /\ j.id \in held /\ j.id \in Tokens /\ grantOf[j.id] # None
          /\ j.client = authz[grantOf[j.id]].client
          /\ j.pc = "read" => claimFile'[j.id] # None
    BY <1>0, <1>3, <2>2, <2>4, KeepFacts
  <2> QED BY <1>1, <2>1, <2>3, <2>4, <2>5, <2>6, <2>7, KeepWorker
<1> QED BY <1>2, <1>3

\* It is read: it has not expired, as long as that matters.
LEMMA ReadKept ==
    ASSUME KInv, NEW w \in Workers, ClaimRead(w) PROVE KeepInv'
<1> DEFINE d == job[w].id
           j == [job[w] EXCEPT !.pc = "check", !.doc = claimFile[d]]
<1>0. /\ TypeOK /\ now \in Nat /\ job[w] \in Job /\ WellFormed(job[w]) /\ job[w].pc = "read"
      /\ d \in Docs /\ job[w].op \in {"code", "refresh"} /\ Claims(w, d)
      /\ d \in Tokens => job[w].op = "refresh"
  <2>1. Tokens \cap Codes = {}
    BY ConstantsAssumption
  <2> QED BY <2>1, KeepFacts DEF ClaimRead, At, WellFormed, Docs, Claims
<1>1. /\ UNCHANGED <<now, file, authz, grantOf, held>>
      /\ claimFile' = [claimFile EXCEPT ![d] = None]
  BY DEF ClaimRead, ghost
<1>2. /\ \A t \in Tokens : claimFile'[t] \in {claimFile[t], None}
      /\ \A t \in Tokens : file'[t] \in {file[t], None}
      /\ held \subseteq held' /\ grantOf' = grantOf
  BY <1>0, <1>1 DEF TypeOK, Docs
<1>3. \A v \in Workers \ {w} : job[v].op = "refresh" /\ job[v].pc = "read" =>
        claimFile'[job[v].id] # None
  <2>1. ASSUME NEW v \in Workers \ {w}, job[v].op = "refresh", job[v].pc = "read"
        PROVE  job[v].id # d
    BY <1>0, <2>1 DEF KInv, GrantInv, IInv, Exclusive, Claims
  <2> QED BY <1>0, <1>1, <2>1, KeepFacts DEF TypeOK, Docs
<1>4. job[w].op = "refresh" => claimFile[d] \in Doc /\ Lasts(claimFile[d]) /\ d \in Tokens
  BY <1>0, KeepFacts DEF TypeOK, KInv, KeepInv, LastingCopies, Docs
<1>5. \/ Become(w, NoJob) /\ (job[w].op = "refresh" => ~(now <= RefreshTTL))
      \/ Become(w, j)
  <2>1. job[w].op = "refresh" /\ now <= RefreshTTL => ~Expired(claimFile[d])
    <3>1. RefreshTTL \in Nat
      BY TimesAssumption
    <3> QED BY <1>0, <1>4, <3>1 DEF Lasts, Expired, Doc
  <2> QED BY <1>4, <2>1, ConstantsAssumption, NoneAssumption DEF ClaimRead, Finish
<1>6. ASSUME now <= RefreshTTL, NEW t \in Tokens,
             t \in held' \/ job[w].next = t \/ \E v \in Workers \ {w} : job[v].next = t
      PROVE  file'[t] # None \/ d = t \/ \E v \in Workers \ {w} : Claims(v, t)
  <2>1. Alive(t)
    BY <1>1, <1>6 DEF KInv, KeepInv, Coming
  <2> QED BY <1>1, <2>1 DEF Alive, Claims
<1>7. CASE Become(w, NoJob) /\ (job[w].op = "refresh" => ~(now <= RefreshTTL))
  <2>1. \A t \in Tokens : NoJob.next # t
    BY IdleKept, ConstantsAssumption DEF Docs
  <2>2. now <= RefreshTTL => d \notin Tokens
    BY <1>0, <1>7
  <2>3. ASSUME now <= RefreshTTL, NEW t \in Tokens,
               t \in held' \/ NoJob.next = t \/ \E v \in Workers \ {w} : job[v].next = t
        PROVE  file'[t] # None \/ \E v \in Workers \ {w} : Claims(v, t)
    BY <1>6, <2>1, <2>2, <2>3
  <2> QED BY <1>0, <1>1, <1>2, <1>3, <1>7, <2>3, IdleKept, KeepWorker
<1>8. CASE Become(w, j)
  <2>1. /\ j.op = job[w].op /\ j.id = d /\ j.client = job[w].client /\ j.pc = "check"
        /\ j.next = job[w].next /\ j.doc = claimFile[d]
    BY <1>0 DEF Job
  <2> HIDE DEF j
  <2>2. Redeeming(j) /\ Timely(j, now) /\ Claiming(j)
    BY <1>0, <1>4, <2>1, KeepFacts
       DEF Redeeming, Timely, InHand, HandPCs, Claiming, ClaimPCs, Lasts
  <2>3. j.op = "refresh" =>
          /\ j.id \in held /\ j.id \in Tokens /\ grantOf[j.id] # None
          /\ j.client = authz[grantOf[j.id]].client
          /\ j.pc = "read" => claimFile'[j.id] # None
    BY <2>1, KeepFacts
  <2> QED BY <1>1, <1>2, <1>3, <1>6, <1>8, <2>1, <2>2, <2>3, KeepWorker
<1> QED BY <1>5, <1>7, <1>8

\* The checks refuse no token of the client's own before its end, and no retry
\* within the grace window.
LEMMA CheckKept ==
    ASSUME KInv, RetriesInGrace, NEW w \in Workers, CheckCode(w) \/ CheckRefresh(w)
    PROVE  KeepInv'
<1>0. /\ now \in Nat /\ job[w] \in Job /\ WellFormed(job[w]) /\ job[w].pc = "check"
      /\ job[w].doc \in Doc /\ Redeeming(job[w]) /\ Timely(job[w], now)
  BY KeepFacts DEF CheckCode, CheckRefresh, At, WellFormed
<1>1. UNCHANGED <<now, file, claimFile, authz, grantOf, held>>
  BY DEF CheckCode, CheckRefresh, disk, ghost
<1>2. CASE CheckCode(w)
  <2> DEFINE j == [job[w] EXCEPT !.pc = "issue"]
  <2>1. job[w].op = "code" /\ (Become(w, NoJob) \/ Become(w, j))
    BY <1>2 DEF CheckCode, Finish, Goto
  <2>2. j.op = job[w].op /\ j.pc = "issue" /\ j.next = job[w].next
    BY <1>0 DEF Job
  <2> HIDE DEF j
  <2>3. Redeeming(j) /\ Timely(j, now)
    BY <2>1, <2>2 DEF Redeeming, Timely
  <2> QED BY <1>0, <1>1, <2>1, <2>2, <2>3, IdleKept, KeepJob
<1>3. CASE CheckRefresh(w)
  <2>1. job[w].op = "refresh" /\ job[w].doc.exp > RefreshTTL
    BY <1>0, <1>3 DEF CheckRefresh, Timely, InHand, HandPCs
  <2>2. job[w].doc.client = job[w].client
    <3>1. PICK f \in [Codes -> Nat] : CopiesRight(f)
      BY DEF KInv, GrantInv
    <3>2. Right(job[w].id, job[w].doc, f)
      BY <1>0, <2>1, <3>1 DEF CopiesRight, InHand, HandPCs
    <3> QED BY <2>1, <3>2, KeepFacts DEF Right
  <2>3. ~Reused(job[w].doc)
    BY <1>0, <2>1 DEF RetriesInGrace, At
  <2>4. now <= RefreshTTL => ~(job[w].doc.exp <= now)
    <3>1. RefreshTTL \in Nat /\ job[w].doc.exp \in Nat
      BY <1>0, TimesAssumption DEF Doc
    <3> QED BY <1>0, <2>1, <3>1
  <2>5. \/ Become(w, NoJob) /\ ~(now <= RefreshTTL)
        \/ /\ job[w].doc.exp > now
           /\ \E b : Become(w, [job[w] EXCEPT !.pc = "issue", !.at = now, !.rotate = b])
    BY <1>3, <2>2, <2>3, <2>4 DEF CheckRefresh, Finish
  <2>6. CASE Become(w, NoJob) /\ ~(now <= RefreshTTL)
    BY <1>0, <1>1, <2>6, IdleKept, KeepJob
  <2>7. ASSUME NEW b, job[w].doc.exp > now,
               Become(w, [job[w] EXCEPT !.pc = "issue", !.at = now, !.rotate = b])
        PROVE  KeepInv'
    <3> DEFINE j == [job[w] EXCEPT !.pc = "issue", !.at = now, !.rotate = b]
    <3>1. /\ j.op = job[w].op /\ j.id = job[w].id /\ j.client = job[w].client
          /\ j.pc = "issue" /\ j.next = job[w].next /\ j.doc = job[w].doc /\ j.at = now
      BY <1>0 DEF Job
    <3>2. Become(w, j)
      BY <2>7
    <3> HIDE DEF j
    <3>3. Redeeming(j) /\ Claiming(j)
      BY <2>1, <3>1 DEF Redeeming, Claiming, ClaimPCs
    <3>4. Timely(j, now)
      <4>1. now <= now /\ now < job[w].doc.exp
        BY <1>0, <2>7 DEF Doc
      <4> QED BY <2>1, <3>1, <4>1 DEF Timely
    <3> QED BY <1>1, <2>1, <3>1, <3>2, <3>3, <3>4, KeepFacts, KeepJob
  <2> QED BY <2>5, <2>6, <2>7
<1> QED BY <1>2, <1>3

\* The access token is issued, the index is read and written: the document stays
\* in hand.
LEMMA HoldKept ==
    ASSUME KInv, NEW w \in Workers,
           IssueForRefresh(w) \/ GrantRead(w) \/ GrantWrite(w)
    PROVE  KeepInv'
<1>0. /\ now \in Nat /\ job[w] \in Job /\ WellFormed(job[w]) /\ Redeeming(job[w])
      /\ Timely(job[w], now)
  BY KeepFacts
<1>1. UNCHANGED <<now, file, claimFile, authz, grantOf, held>>
  BY DEF IssueForRefresh, GrantRead, GrantWrite, disk, ghost
<1>2. ASSUME NEW j, Become(w, j), j.op = job[w].op, j.id = job[w].id,
             j.client = job[w].client, j.next = job[w].next, j.doc = job[w].doc,
             j.at = job[w].at, job[w].pc \in {"issue", "index", "indexing"},
             j.op \in {"code", "refresh"},
             j.pc \in {"put", "back", "indexing"} \/ (j.pc = "respond" /\ j.op = "code")
      PROVE  KeepInv'
  <2>1. Redeeming(j) /\ (j.op = "refresh" => Claiming(j))
    BY <1>2 DEF Redeeming, Claiming, ClaimPCs
  <2>2. Timely(j, now)
    BY <1>0, <1>2 DEF Timely, InHand, HandPCs
  <2> QED BY <1>1, <1>2, <2>1, <2>2, KeepFacts, KeepJob
<1>3. CASE IssueForRefresh(w)
  <2>1. /\ job[w].op = "refresh" /\ job[w].pc = "issue"
        /\ \E p \in {"put", "back"} : Become(w, [job[w] EXCEPT !.pc = p])
    BY <1>3 DEF IssueForRefresh, At, Goto
  <2>2. PICK p \in {"put", "back"} : Become(w, [job[w] EXCEPT !.pc = p])
    BY <2>1
  <2> DEFINE j == [job[w] EXCEPT !.pc = p]
  <2>3. /\ j.op = job[w].op /\ j.id = job[w].id /\ j.client = job[w].client /\ j.pc = p
        /\ j.next = job[w].next /\ j.doc = job[w].doc /\ j.at = job[w].at
    BY <1>0 DEF Job
  <2>4. Become(w, j)
    BY <2>2
  <2> HIDE DEF j
  <2> QED BY <1>2, <2>1, <2>3, <2>4
<1>4. CASE GrantRead(w)
  <2> DEFINE j == [job[w] EXCEPT !.pc = "indexing", !.refs = grantRefs(job[w].doc.grant)]
  <2>1. /\ job[w].op \in {"code", "refresh"} /\ job[w].pc = "index" /\ Become(w, j)
    BY <1>0, <1>4 DEF GrantRead, At, WellFormed
  <2>2. /\ j.op = job[w].op /\ j.id = job[w].id /\ j.client = job[w].client
        /\ j.pc = "indexing" /\ j.next = job[w].next /\ j.doc = job[w].doc
        /\ j.at = job[w].at
    BY <1>0 DEF Job
  <2> HIDE DEF j
  <2> QED BY <1>2, <2>1, <2>2
<1>5. CASE GrantWrite(w)
  <2> DEFINE j == Indexed(w)
  <2>1. /\ job[w].op \in {"code", "refresh"} /\ job[w].pc = "indexing" /\ Become(w, j)
    BY <1>0, <1>5 DEF GrantWrite, At, WellFormed
  <2>2. /\ j.op = job[w].op /\ j.id = job[w].id /\ j.client = job[w].client
        /\ j.next = job[w].next /\ j.doc = job[w].doc /\ j.at = job[w].at
        /\ j.pc = IF job[w].op = "code" THEN "respond" ELSE "back"
    BY <1>0 DEF Job, Indexed
  <2> HIDE DEF j
  <2> QED BY <1>2, <2>1, <2>2
<1> QED BY <1>3, <1>4, <1>5

\* What the response carries is on disk, or with the handler that claimed it since.
LEMMA RespondKept ==
    ASSUME KInv, NEW w \in Workers, Respond(w) PROVE KeepInv'
<1>0. /\ now \in Nat /\ WellFormed(job[w]) /\ Redeeming(job[w]) /\ job[w].pc = "respond"
  BY KeepFacts DEF Respond, At
<1>1. /\ UNCHANGED <<now, file, claimFile, authz, grantOf>> /\ Become(w, NoJob)
      /\ held' = held \/ held' = held \cup Returned(w)
  BY DEF Respond, Finish, disk
<1>2. job[w].op \in {"code", "refresh"}
  BY <1>0, NoneAssumption DEF WellFormed, Redeeming
<1>3. \A t \in held' : Coming(t)
  <2>1. ASSUME NEW t \in Returned(w) PROVE Coming(t)
    <3>1. CASE job[w].next # None
      BY <2>1, <3>1 DEF Returned, Coming
    <3>2. CASE job[w].next = None
      <4>1. t = job[w].id /\ t \in Tokens
        BY <2>1, <3>2 DEF Returned
      <4>2. job[w].op # "code"
        BY <1>0, <4>1, ConstantsAssumption DEF WellFormed
      <4> QED BY <1>2, <4>1, <4>2, KeepFacts DEF Coming
    <3> QED BY <3>1, <3>2
  <2> QED BY <1>1, <2>1 DEF Coming
<1>4. ASSUME now <= RefreshTTL, NEW t \in Tokens,
             t \in held' \/ NoJob.next = t \/ \E v \in Workers \ {w} : job[v].next = t
      PROVE  file'[t] # None \/ \E v \in Workers \ {w} : Claims(v, t)
  <2>1. Coming(t)
    BY <1>3, <1>4, IdleKept, ConstantsAssumption DEF Coming, Docs
  <2>2. Alive(t) /\ ~Claims(w, t)
    BY <1>0, <1>4, <2>1 DEF KInv, KeepInv, Claims
  <2> QED BY <1>1, <2>2 DEF Alive
<1>5. /\ \A t \in Tokens : file'[t] \in {file[t], None} /\ claimFile'[t] \in {claimFile[t], None}
      /\ held \subseteq held' /\ grantOf' = grantOf
      /\ \A v \in Workers : job[v].op = "refresh" /\ job[v].pc = "read" =>
           claimFile'[job[v].id] # None
  BY <1>1, KeepFacts
<1> QED BY <1>0, <1>1, <1>4, <1>5, IdleKept, KeepWorker

\* What is put lasts: the first token of a grant, a successor, and the presented
\* token.
LEMMA PutsLast ==
    ASSUME KInv, NEW w \in Workers, job[w].doc \in Doc, job[w].client \in Clients
    PROVE  /\ Lasts(Stamp(FirstToken(job[w].doc, job[w].client), RefreshTTL))
           /\ job[w].op = "refresh" /\ job[w].pc \in HandPCs \ {"check"} =>
                /\ Lasts(Stamp(Successor(job[w].doc, job[w].at), RefreshTTL))
                /\ Lasts(Presented(w))
<1> DEFINE first == FirstToken(job[w].doc, job[w].client)
           succ  == Successor(job[w].doc, job[w].at)
           e     == now + RefreshTTL
           x     == job[w].at + RefreshTTL
<1>1. now \in Nat /\ now # 0 /\ RefreshTTL \in Nat /\ job[w].at \in Nat /\ job[w] \in Job
  BY KeepFacts, TimesAssumption DEF Job
<1>2. /\ e > RefreshTTL /\ e \in Nat /\ x \in Nat /\ (job[w].at # 0 => x > RefreshTTL)
  BY <1>1
<1>3. first \in Doc /\ succ \in Doc
  BY <1>1, FirstTokenType, SuccessorType
<1>4. first.exp = e /\ succ.exp = x
  <2>1. /\ first = [job[w].doc EXCEPT !.client = job[w].client, !.bind = None,
                      !.consumed = 0, !.iat = now, !.exp = e, !.iiat = now]
        /\ succ = [job[w].doc EXCEPT !.iat = job[w].at, !.exp = x, !.consumed = 0]
    BY DEF FirstToken, Successor
  <2> HIDE DEF first, succ, e, x
  <2> QED BY <2>1 DEF Doc
<1> HIDE DEF first, succ, x
<1>5. \A doc \in Doc : Stamp(doc, RefreshTTL).exp = doc.exp /\ Stamp(doc, RefreshTTL).expiresAt = e
  <2>1. \A doc \in Doc : Stamp(doc, RefreshTTL) = [doc EXCEPT !.expiresAt = e, !.mtime = now]
    BY DEF Stamp
  <2> HIDE DEF e
  <2> QED BY <2>1 DEF Doc
<1>6. Lasts(Stamp(first, RefreshTTL))
  BY <1>2, <1>3, <1>4, <1>5 DEF Lasts
<1>7. ASSUME job[w].op = "refresh", job[w].pc \in HandPCs \ {"check"}
      PROVE  Lasts(Stamp(succ, RefreshTTL)) /\ Lasts(Presented(w))
  <2>1. /\ job[w].at # 0 /\ job[w].doc.exp > RefreshTTL
        /\ job[w].at <= now /\ job[w].at < job[w].doc.exp
    BY <1>7, KeepFacts DEF Checked, Timely, InHand
  <2>2. Lasts(Stamp(succ, RefreshTTL))
    BY <1>2, <1>3, <1>4, <1>5, <2>1 DEF Lasts
  <2>3. /\ Presented(w).exp = job[w].doc.exp
        /\ Presented(w).expiresAt = now + Remaining(job[w].doc.exp, job[w].at)
    BY <1>1, PresentedFields
  <2>4. now + Remaining(job[w].doc.exp, job[w].at) > RefreshTTL
    <3>1. job[w].doc.exp \in Nat
      BY DEF Doc
    <3> QED BY <1>1, <2>1, <3>1 DEF Remaining
  <2> QED BY <2>1, <2>2, <2>3, <2>4 DEF Lasts
<1> QED BY <1>6, <1>7 DEF first, succ

\* A token is put under an id that has just been drawn.
LEMMA PutNewKept ==
    ASSUME KInv, NEW w \in Workers, NEW t \in Tokens, NEW new \in Doc, Lasts(new),
           Draw(t, job[w].doc.grant), file' = [file EXCEPT ![t] = new],
           Become(w, [job[w] EXCEPT !.pc = "index", !.next = t]),
           UNCHANGED <<now, claimFile, authz, held>>,
           job[w].op \in {"code", "refresh"}, job[w].pc \in {"issue", "put"}
    PROVE  KeepInv'
<1> DEFINE j == [job[w] EXCEPT !.pc = "index", !.next = t]
<1>0. /\ TypeOK /\ now \in Nat /\ job[w] \in Job /\ Timely(job[w], now)
  BY KeepFacts
<1>1. /\ j.op = job[w].op /\ j.id = job[w].id /\ j.client = job[w].client
      /\ j.pc = "index" /\ j.next = t /\ j.doc = job[w].doc /\ j.at = job[w].at
      /\ Become(w, j)
  BY <1>0 DEF Job
<1> HIDE DEF j
<1>2. Redeeming(j) /\ Claiming(j)
  BY <1>1 DEF Redeeming, Claiming, ClaimPCs
<1>3. Timely(j, now)
  BY <1>0, <1>1 DEF Timely, InHand, HandPCs
<1>4. \A u \in Tokens : file'[u] = IF u = t THEN new ELSE file[u]
  BY <1>0 DEF TypeOK, Docs
<1>5. new # None
  BY NoneAssumption
<1>6. \A u \in Tokens : grantOf[u] # None => grantOf'[u] = grantOf[u]
  BY <1>0 DEF Draw, TypeOK
<1>7. /\ \A u \in Tokens : file'[u] \in {file[u], None} \/ Lasts(file'[u])
      /\ \A u \in Tokens : claimFile'[u] \in {claimFile[u], None}
      /\ held \subseteq held'
      /\ \A v \in Workers : job[v].op = "refresh" /\ job[v].pc = "read" =>
           claimFile'[job[v].id] # None
  BY <1>4, KeepFacts
<1>8. ASSUME now <= RefreshTTL, NEW u \in Tokens,
             u \in held' \/ j.next = u \/ \E v \in Workers \ {w} : job[v].next = u
      PROVE  \/ file'[u] # None
             \/ j.id = u /\ Claiming(j)
             \/ \E v \in Workers \ {w} : Claims(v, u)
  <2>1. u = t \/ Alive(u)
    BY <1>1, <1>8 DEF KInv, KeepInv, Coming
  <2> QED BY <1>1, <1>2, <1>4, <1>5, <2>1 DEF Alive, Claims
<1>9. j.op = "refresh" =>
        /\ j.id \in held /\ j.id \in Tokens /\ grantOf[j.id] # None
        /\ j.client = authz[grantOf[j.id]].client /\ j.pc # "read"
  BY <1>1, KeepFacts
<1> QED BY <1>1, <1>2, <1>3, <1>6, <1>7, <1>8, <1>9, KeepWorker

\* The first token of a grant, and a successor.
LEMMA IssueKept ==
    ASSUME KInv, NEW w \in Workers, IssueForCode(w) \/ PutNext(w) PROVE KeepInv'
<1>0. /\ TypeOK /\ now \in Nat /\ job[w] \in Job /\ WellFormed(job[w])
      /\ job[w].doc \in Doc /\ job[w].client \in Clients /\ job[w].at \in Nat
      /\ job[w].pc \in {"issue", "put"}
  BY KeepFacts DEF IssueForCode, PutNext, At, WellFormed, Job
<1>1. CASE IssueForCode(w)
  <2>1. /\ job[w].op = "code" /\ job[w].pc = "issue"
        /\ UNCHANGED <<now, claimFile, authz, held>>
    BY <1>1 DEF IssueForCode, At
  <2>2. CASE /\ Become(w, [job[w] EXCEPT !.pc = "respond"])
             /\ UNCHANGED <<file, grantOf>>
    <3> DEFINE j == [job[w] EXCEPT !.pc = "respond"]
    <3>1. j.op = "code" /\ j.pc = "respond" /\ j.next = job[w].next /\ Become(w, j)
      BY <1>0, <2>1, <2>2 DEF Job
    <3> HIDE DEF j
    <3>2. Redeeming(j) /\ Timely(j, now)
      BY <3>1 DEF Redeeming, Timely
    <3> QED BY <2>1, <2>2, <3>1, <3>2, KeepJob
  <2>3. ASSUME NEW t \in Tokens, Draw(t, job[w].doc.grant),
               file' = [file EXCEPT ![t] =
                          Stamp(FirstToken(job[w].doc, job[w].client), RefreshTTL)],
               Become(w, [job[w] EXCEPT !.pc = "index", !.next = t])
        PROVE  KeepInv'
    <3>1. FirstToken(job[w].doc, job[w].client) \in Doc
      BY <1>0, FirstTokenType
    <3>2. Stamp(FirstToken(job[w].doc, job[w].client), RefreshTTL) \in Doc
      BY <1>0, <3>1, StampType, TimesAssumption
    <3> QED BY <1>0, <2>1, <2>3, <3>2, PutsLast, PutNewKept
  <2> QED BY <1>1, <2>2, <2>3 DEF IssueForCode, Goto
<1>2. CASE PutNext(w)
  <2>1. /\ job[w].op = "refresh" /\ job[w].pc = "put"
        /\ UNCHANGED <<now, claimFile, authz, held>>
    BY <1>0, <1>2 DEF PutNext, At, WellFormed
  <2>2. Stamp(Successor(job[w].doc, job[w].at), RefreshTTL) \in Doc
    <3>1. Successor(job[w].doc, job[w].at) \in Doc
      BY <1>0, SuccessorType
    <3> QED BY <1>0, <3>1, StampType, TimesAssumption
  <2>3. job[w].pc \in HandPCs \ {"check"}
    BY <2>1 DEF HandPCs
  <2>4. PICK t \in Tokens :
          /\ Draw(t, job[w].doc.grant)
          /\ file' = [file EXCEPT ![t] = Stamp(Successor(job[w].doc, job[w].at), RefreshTTL)]
          /\ Become(w, [job[w] EXCEPT !.pc = "index", !.next = t])
    BY <1>2 DEF PutNext
  <2> QED BY <1>0, <2>1, <2>2, <2>3, <2>4, PutsLast, PutNewKept
<1> QED BY <1>1, <1>2

\* The presented token comes back.
LEMMA PutBackKept ==
    ASSUME KInv, NEW w \in Workers, PutBack(w) PROVE KeepInv'
<1> DEFINE d == job[w].id
           j == [job[w] EXCEPT !.pc = "respond"]
<1>0. /\ TypeOK /\ now \in Nat /\ job[w] \in Job /\ job[w].pc = "back"
      /\ job[w].op = "refresh" /\ job[w].doc \in Doc /\ job[w].client \in Clients
      /\ d \in Tokens /\ job[w].pc \in HandPCs \ {"check"}
  BY KeepFacts DEF PutBack, At, WellFormed, HandPCs
<1>1. /\ file' = [file EXCEPT ![d] = Presented(w)] /\ Become(w, j)
      /\ UNCHANGED <<now, claimFile, authz, grantOf, held>>
  BY DEF PutBack, Goto
<1>2. /\ j.op = "refresh" /\ j.id = d /\ j.client = job[w].client
      /\ j.pc = "respond" /\ j.next = job[w].next
  BY <1>0 DEF Job
<1> HIDE DEF j
<1>3. Redeeming(j) /\ Timely(j, now)
  BY <1>2 DEF Redeeming, Timely, InHand, HandPCs
<1>4. Lasts(Presented(w)) /\ Presented(w) # None
  BY <1>0, PutsLast, PresentedType, NoneAssumption
<1>5. \A u \in Tokens : file'[u] = IF u = d THEN Presented(w) ELSE file[u]
  BY <1>0, <1>1 DEF TypeOK, Docs
<1>6. /\ \A u \in Tokens : file'[u] \in {file[u], None} \/ Lasts(file'[u])
      /\ \A u \in Tokens : claimFile'[u] \in {claimFile[u], None}
      /\ held \subseteq held' /\ grantOf' = grantOf
      /\ \A v \in Workers : job[v].op = "refresh" /\ job[v].pc = "read" =>
           claimFile'[job[v].id] # None
  BY <1>1, <1>4, <1>5, KeepFacts
<1>7. ASSUME now <= RefreshTTL, NEW u \in Tokens,
             u \in held' \/ j.next = u \/ \E v \in Workers \ {w} : job[v].next = u
      PROVE  file'[u] # None \/ \E v \in Workers \ {w} : Claims(v, u)
  <2>1. Alive(u)
    BY <1>1, <1>2, <1>7 DEF KInv, KeepInv, Coming
  <2> QED BY <1>4, <1>5, <2>1 DEF Alive, Claims
<1>8. j.op = "refresh" =>
        /\ j.id \in held /\ j.id \in Tokens /\ grantOf[j.id] # None
        /\ j.client = authz[grantOf[j.id]].client /\ j.pc # "read"
  BY <1>0, <1>2, KeepFacts
<1> QED BY <1>1, <1>3, <1>6, <1>7, <1>8, KeepWorker

\* A redemption has no other steps.
LEMMA NoOtherWork ==
    ASSUME KInv, NEW w \in Workers
    PROVE  /\ ~RevokeGet(w) /\ ~RevokeLock(w) /\ ~DestroyRef(w) /\ ~RevokeUnlock(w)
           /\ ~Drop(w) /\ ~ListTokens(w) /\ ~NextToken(w) /\ ~Deleted(w)
BY KeepFacts DEF Redeeming, RevokeGet, RevokeLock, DestroyRef, RevokeUnlock, Drop,
   ListTokens, NextToken, Deleted, At

\* Nothing expires before its end, and the sweeper leaves the claims alone.
LEMMA RestKept ==
    ASSUME KInv, MaxCrashes = 0, [SweeperWaits]_vars, Environment \/ UNCHANGED vars
    PROVE  KeepInv'
<1>0. TypeOK /\ now \in Nat /\ RefreshTTL \in Nat
  BY TimesAssumption DEF KInv, GrantInv, IInv, TypeOK
<1>1. ~Crash
  BY <1>0 DEF Crash, TypeOK
<1>2. UNCHANGED <<job, held, grantOf>>
  BY <1>1 DEF Environment, MintCode, SweepExpired, SweepClaim, Tick, vars, ghost
<1>3. now' \in Nat /\ now' >= now
  <2>1. now' = now \/ now' = now + 1
    BY <1>1 DEF Environment, MintCode, SweepExpired, SweepClaim, Tick, vars
  <2> QED BY <1>0, <2>1
<1>4. \A k \in Codes : authz[k] # None => authz'[k] = authz[k]
  BY <1>0, <1>1 DEF Environment, MintCode, SweepExpired, SweepClaim, Tick, vars, ghost, TypeOK
<1>5. ASSUME NEW t \in Tokens
      PROVE  claimFile'[t] \in {claimFile[t], None} /\ file'[t] \in {file[t], None}
  <2>1. t \notin Codes /\ t \in Docs
    BY ConstantsAssumption DEF Docs
  <2> QED BY <1>0, <1>1, <2>1 DEF Environment, MintCode, SweepExpired, SweepClaim, Tick,
             vars, disk, TypeOK
<1>6. ASSUME NEW w \in Workers, job[w].op = "refresh", job[w].pc = "read"
      PROVE  claimFile'[job[w].id] # None
  <2>1. claimFile[job[w].id] # None /\ job[w].id \in Docs
    BY <1>6, KeepFacts DEF Docs
  <2>2. ~SweepClaim(job[w].id) \/ UNCHANGED vars
    BY <1>6 DEF SweeperWaits, At
  <2> QED BY <1>0, <1>1, <2>1, <2>2 DEF Environment, MintCode, SweepExpired, SweepClaim, Tick,
             vars, disk, TypeOK
<1>7. LastingCopies'
  BY <1>5 DEF KInv, KeepInv, LastingCopies, Lasts
<1>8. Presenting'
  <2>1. ASSUME NEW w \in Workers, job[w].op = "refresh"
        PROVE  job[w].client = authz'[grantOf[job[w].id]].client
    <3>1. grantOf[job[w].id] \in Codes
      BY <1>0, <2>1, KeepFacts DEF TypeOK
    <3>2. authz[grantOf[job[w].id]] # None
      <4>1. redeemed[grantOf[job[w].id]] # 0
        BY <2>1, KeepFacts DEF KInv, GrantInv, Drawn
      <4> QED BY <3>1, <4>1 DEF KInv, GrantInv, IInv, Fresh
    <3> QED BY <1>4, <2>1, <3>1, <3>2, KeepFacts
  <2> QED BY <1>2, <1>6, <2>1, KeepFacts DEF Presenting
<1>9. ASSUME NEW w \in Workers PROVE Redeeming(job'[w]) /\ Timely(job'[w], now')
  <2>1. Redeeming(job[w]) /\ Timely(job[w], now) /\ job[w].at \in Nat
    BY KeepFacts DEF Job
  <2> QED BY <1>0, <1>2, <1>3, <2>1 DEF Timely
<1>10. ASSUME now' <= RefreshTTL, NEW t \in Tokens, Coming(t)' PROVE Alive(t)'
  <2>1. now <= RefreshTTL
    BY <1>0, <1>3, <1>10
  <2>2. Alive(t)
    BY <1>2, <1>10, <2>1 DEF KInv, KeepInv, Coming
  <2>3. \A w \in Workers : Claims(w, t)' <=> Claims(w, t)
    BY <1>2 DEF Claims
  <2>4. file[t] # None => ~Expired(file[t])
    <3>1. file[t] # None => file[t].expiresAt \in Nat /\ file[t].expiresAt > RefreshTTL
      BY <1>0 DEF KInv, KeepInv, LastingCopies, Lasts, TypeOK, Doc, Docs
    <3> QED BY <1>0, <2>1, <3>1 DEF Expired
  <2>5. file[t] # None => file'[t] # None
    <3>1. t \notin Codes /\ t \in Docs
      BY ConstantsAssumption DEF Docs
    <3> QED BY <1>0, <1>1, <2>4, <3>1 DEF Environment, MintCode, SweepExpired, SweepClaim,
               Tick, vars, disk, TypeOK
  <2> QED BY <2>2, <2>3, <2>5 DEF Alive
<1> QED BY <1>7, <1>8, <1>9, <1>10 DEF KeepInv

\* It holds of the empty store.
LEMMA KeepStart == Init => KInv
<1> SUFFICES ASSUME Init PROVE KInv
  OBVIOUS
<1>1. GrantInv
  BY GrantInit
<1>2. /\ now \in Nat /\ held = {} /\ \A w \in Workers : job[w] = NoJob
      /\ \A t \in Tokens : file[t] = None /\ claimFile[t] = None
  BY DEF Init, EmptyStore, Docs
<1>3. \A t \in Tokens : ~Coming(t)
  BY <1>2, IdleKept, ConstantsAssumption DEF Coming, Docs
<1> QED BY <1>1, <1>2, <1>3, IdleKept DEF KInv, KeepInv, LastingCopies, Presenting

\* Every step of a workload of redemptions keeps it.
LEMMA KeepStep ==
    ASSUME KInv, MaxCrashes = 0, [SweeperWaits]_vars, RetriesInGrace, [RedeemNext]_vars
    PROVE  KInv'
<1>1. [Next]_vars
  BY DEF RedeemNext, StartRedeem, Next, Start
<1>2. GrantInv'
  BY <1>1, GrantStep DEF KInv
<1>3. ASSUME NEW w \in Workers, Work(w) PROVE KeepInv'
  BY <1>3, NoOtherWork, ClaimKept, ReadKept, CheckKept, HoldKept, RespondKept, IssueKept,
     PutBackKept DEF Work
<1>4. KeepInv'
  BY <1>3, StartKept, RestKept DEF RedeemNext
<1> QED BY <1>2, <1>4 DEF KInv

\* Clients that present their own tokens, and repeat a request only within the
\* grace of its rotation, lose none while no crash and no sweep of a claim comes
\* between a handler's rename and its put back, whichever handlers interleave
\* (grantRefreshToken).
THEOREM RedemptionsLoseNothing ==
    ASSUME MaxCrashes = 0
    PROVE  RedeemSpec /\ []RetriesInGrace /\ [][SweeperWaits]_vars => []NothingLost
<1>1. KInv /\ RetriesInGrace /\ [RedeemNext]_vars /\ [SweeperWaits]_vars => KInv'
  BY KeepStep
<1>2. KInv => NothingLost
  <2> SUFFICES ASSUME KInv, Quiet, now <= RefreshTTL, NEW t \in held PROVE file[t] # None
    BY DEF NothingLost
  <2>1. t \in Tokens
    BY DEF KInv, GrantInv, IInv, TypeOK
  <2>2. Alive(t)
    BY <2>1 DEF KInv, KeepInv, Coming
  <2> QED BY <2>2 DEF Alive, Claims, Quiet, At
<1> QED BY <1>1, <1>2, KeepStart, PTL DEF RedeemSpec

=============================================================================
