------------------------- MODULE BrokerTokensProofs -------------------------
(***************************************************************************)
(* Theorems about the token lifecycle, for every value of the constants.   *)
(***************************************************************************)
EXTENDS BrokerTokensProperties, TLAPS

-----------------------------------------------------------------------------
(* The inductive invariant.                                                *)

\* The worker whose claim a document is under.
Claims(w, d) ==
    /\ job[w].id = d /\ job[w].op \in {"code", "refresh"}
    /\ job[w].pc \in {"read", "check", "issue", "put", "index", "indexing", "back"}

\* The fields a step uses have been set by the steps before it.
WellFormed(j) ==
    /\ j.pc # "idle" => j.op \in Ops /\ j.client \in Clients
    /\ j.pc \in {"claim", "read", "check", "issue"} => j.op \in {"code", "refresh"}
    /\ j.op = "code" => j.id \in Codes
    /\ j.op \in {"refresh", "revoke"} => j.id \in Tokens
    /\ j.pc \in {"put", "back"} => j.op = "refresh"
    /\ j.pc \in {"index", "indexing"} =>
         j.op \in {"code", "refresh"} /\ j.next \in Tokens
    /\ j.pc \in {"check", "issue", "put", "index", "indexing", "back",
                 "lock", "destroying", "drop"} => j.doc \in Doc
    /\ j.pc \in {"list", "next"} => j.op = "delete"
    /\ j.pc = "get" => j.op = "revoke"
    /\ j.pc \in {"lock", "destroying", "drop"} =>
         j.op # "code" /\ j.id \in Tokens

JobOK == \A w \in Workers : WellFormed(job[w])

\* An id that has not been drawn is nowhere.
Fresh ==
    /\ \A k \in Codes : authz[k] = None =>
         file[k] = None /\ claimFile[k] = None /\ redeemed[k] = 0
    /\ \A t \in Tokens : grantOf[t] = None =>
         file[t] = None /\ claimFile[t] = None /\ t \notin held
    /\ \A w \in Workers : \A k \in Codes : job[w].id = k => authz[k] # None
    /\ \A w \in Workers : \A t \in Tokens :
         t \in {job[w].id, job[w].next} => grantOf[t] # None

\* One copy of a document.
Exclusive ==
    \A d \in Docs :
      /\ file[d] # None => claimFile[d] = None
      /\ \A w \in Workers : Claims(w, d) =>
           /\ file[d] = None
           /\ job[w].pc # "read" => claimFile[d] = None
           /\ \A v \in Workers : Claims(v, d) => v = w

\* A code's document names its own grant, and is gone once it is redeemed.
CodesOK ==
    \A k \in Codes :
      /\ file[k] # None => file[k].grant = k
      /\ claimFile[k] # None => claimFile[k].grant = k
      /\ redeemed[k] <= 1
      /\ redeemed[k] # 0 => file[k] = None /\ claimFile[k] = None
      /\ \A w \in Workers :
           job[w].id = k /\ job[w].pc \in {"check", "issue"} =>
             job[w].doc.grant = k /\ redeemed[k] = 0

IInv == TypeOK /\ JobOK /\ Fresh /\ Exclusive /\ CodesOK

-----------------------------------------------------------------------------
(* Lemmas about documents and jobs.                                        *)

USE DEF Docs

\* put() stamps an envelope and leaves the payload alone.
LEMMA StampType ==
    ASSUME NEW doc \in Doc, NEW ttl \in Nat, now \in Nat
    PROVE  /\ Stamp(doc, ttl) \in Doc
           /\ Stamp(doc, ttl).client = doc.client
           /\ Stamp(doc, ttl).account = doc.account
           /\ Stamp(doc, ttl).grant = doc.grant
           /\ Stamp(doc, ttl).exp = doc.exp
           /\ Stamp(doc, ttl).iiat = doc.iiat
<1> DEFINE e == now + ttl
<1>1. e \in Nat
  OBVIOUS
<1> HIDE DEF e
<1> QED BY <1>1 DEF e, Stamp, Doc

\* The first refresh token belongs to the grant of the code.
LEMMA FirstTokenType ==
    ASSUME NEW doc \in Doc, NEW c \in Clients, now \in Nat
    PROVE  FirstToken(doc, c) \in Doc /\ FirstToken(doc, c).grant = doc.grant
<1> DEFINE e == now + RefreshTTL
<1>1. e \in Nat
  BY TimesAssumption
<1> HIDE DEF e
<1>2. 0 \in Nat
  OBVIOUS
<1> QED BY <1>1, <1>2 DEF e, FirstToken, Doc

\* Rotation keeps the grant.
LEMMA SuccessorType ==
    ASSUME NEW rt \in Doc, NEW at \in Nat
    PROVE  Successor(rt, at) \in Doc /\ Successor(rt, at).grant = rt.grant
<1> DEFINE e == at + RefreshTTL
<1>1. e \in Nat
  BY TimesAssumption
<1> HIDE DEF e
<1>2. 0 \in Nat
  OBVIOUS
<1> QED BY <1>1, <1>2 DEF e, Successor, Doc

\* remaining() is a duration.
LEMMA RemainingType ==
    ASSUME NEW exp \in Nat, NEW at \in Nat PROVE Remaining(exp, at) \in Nat
BY DEF Remaining

\* The put back restores a document of the same grant.
LEMMA PresentedType ==
    ASSUME NEW w \in Workers, job[w] \in Job, job[w].doc \in Doc, now \in Nat
    PROVE  Presented(w) \in Doc /\ Presented(w).grant = job[w].doc.grant
<1> DEFINE marked ==
      [job[w].doc EXCEPT !.consumed = IF job[w].rotate THEN job[w].at ELSE @]
<1>1. marked \in Doc /\ marked.grant = job[w].doc.grant
  BY DEF Doc, Job
<1>2. Remaining(job[w].doc.exp, job[w].at) \in Nat
  BY RemainingType DEF Doc, Job
<1>3. Presented(w) = Stamp(marked, Remaining(job[w].doc.exp, job[w].at))
  BY DEF Presented
<1> HIDE DEF marked
<1> QED BY <1>1, <1>2, <1>3, StampType

\* A worker with nothing to do.
LEMMA IdleType == NoJob \in Job /\ WellFormed(NoJob)
BY ConstantsAssumption, NoneAssumption DEF NoJob, Job, PCs, Ops, WellFormed

\* Every place of a handler that the actions below name.
LEMMA PlaceNames ==
    {"claim", "read", "check", "issue", "put", "index", "indexing", "back", "respond",
     "get", "lock", "destroying", "drop", "list", "next"} \subseteq PCs
BY DEF PCs

\* The changes of a job that set more than its place keep its type.
LEMMA JobIndexes ==
    ASSUME NEW j \in Job, NEW p \in PCs, NEW t \in Tokens
    PROVE  [j EXCEPT !.pc = p, !.next = t] \in Job
BY DEF Job

\* As above, for a document that has been read.
LEMMA JobLoads ==
    ASSUME NEW j \in Job, NEW p \in PCs, NEW doc \in Doc
    PROVE  [j EXCEPT !.pc = p, !.doc = doc] \in Job
BY DEF Job

\* As above, for a decision taken at one reading of the clock.
LEMMA JobDecides ==
    ASSUME NEW j \in Job, NEW p \in PCs, NEW n \in Nat, NEW b \in BOOLEAN
    PROVE  [j EXCEPT !.pc = p, !.at = n, !.rotate = b] \in Job
BY DEF Job

\* As above, for the index of a grant read or written back.
LEMMA JobReads ==
    ASSUME NEW j \in Job, NEW p \in PCs, NEW R \in SUBSET Tokens
    PROVE  /\ [j EXCEPT !.pc = p, !.refs = R] \in Job
           /\ [j EXCEPT !.refs = R, !.pc = p] \in Job
BY DEF Job

\* As above, for a deletion that is done with one token.
LEMMA JobClears ==
    ASSUME NEW j \in Job, NEW p \in PCs
    PROVE  [j EXCEPT !.pc = p, !.id = None, !.doc = None] \in Job
BY DEF Job

\* As above, for a deletion that has listed the tokens.
LEMMA JobLists ==
    ASSUME NEW j \in Job, NEW p \in PCs, NEW R \in SUBSET Tokens
    PROVE  [j EXCEPT !.pc = p, !.todo = R] \in Job
BY DEF Job

\* As above, for a deletion that takes the next token.
LEMMA JobTakes ==
    ASSUME NEW j \in Job, NEW p \in PCs, NEW t \in Tokens, NEW doc \in Doc,
           NEW R \in SUBSET Tokens
    PROVE  [j EXCEPT !.pc = p, !.id = t, !.doc = doc, !.todo = R] \in Job
<1>1. t \in Docs \cup {None}
  BY DEF Docs
<1> QED BY <1>1 DEF Job

\* One step of one worker changes the job of that worker only.
LEMMA JobStep ==
    ASSUME NEW w \in Workers, NEW j \in Job, WellFormed(j),
           job \in [Workers -> Job], JobOK, Become(w, j)
    PROVE  /\ job' \in [Workers -> Job]
           /\ job'[w] = j
           /\ \A v \in Workers \ {w} : job'[v] = job[v]
           /\ JobOK'
BY DEF Become, JobOK

-----------------------------------------------------------------------------
(* Disk errors: the worker ends up in a job like the one it had, or idle.  *)

\* What job j has left of the one worker w had.
FaultJob(w, j) ==
    /\ WellFormed(j)
    /\ \/ j = NoJob
       \/ /\ j.id \in {job[w].id, None} /\ j.next = job[w].next
          /\ j.op = job[w].op /\ j.client = job[w].client
          /\ \/ job[w].pc = "back" /\ j.pc = "respond"
             \/ /\ job[w].pc \in {"index", "indexing"}
                /\ j.pc \in {"indexing", "back", "respond"} /\ j.id = job[w].id
                /\ j.doc = job[w].doc /\ j.at = job[w].at
             \/ j.pc \in {"drop", "destroying", "next"}

\* Each error leaves such a job.
LEMMA FaultJobs ==
    ASSUME TypeOK, JobOK, NEW w \in Workers, DiskFault(w)
    PROVE  \E j \in Job : FaultJob(w, j) /\ Become(w, j)
<1>0. job[w] \in Job /\ WellFormed(job[w])
  BY DEF TypeOK, JobOK
<1>1. FaultJob(w, NoJob) /\ NoJob \in Job
  BY IdleType DEF FaultJob
<1>2. CASE RequestFails(w)
  BY <1>1, <1>2 DEF RequestFails, Finish
<1>3. CASE PutBackFails(w)
  <2>1. At(w, "back") /\ Become(w, [job[w] EXCEPT !.pc = "respond"])
    BY <1>3 DEF PutBackFails, Goto
  <2>2. [job[w] EXCEPT !.pc = "respond"] \in Job
    BY <1>0 DEF Job, PCs
  <2>3. FaultJob(w, [job[w] EXCEPT !.pc = "respond"])
    BY <1>0, <2>1 DEF FaultJob, WellFormed, Job, At
  <2> QED BY <2>1, <2>2, <2>3
<1>4. CASE GrantReadFails(w)
  <2>1. At(w, "index") /\ Become(w, [job[w] EXCEPT !.pc = "indexing", !.refs = {}])
    BY <1>4 DEF GrantReadFails
  <2>2. [job[w] EXCEPT !.pc = "indexing", !.refs = {}] \in Job
    BY <1>0, PlaceNames, JobReads
  <2>3. FaultJob(w, [job[w] EXCEPT !.pc = "indexing", !.refs = {}])
    BY <1>0, <2>1 DEF FaultJob, WellFormed, Job, At
  <2> QED BY <2>1, <2>2, <2>3
<1>5. CASE GrantWriteFails(w)
  <2>1. At(w, "indexing") /\ Become(w, Indexed(w))
    BY <1>5 DEF GrantWriteFails
  <2>2. Indexed(w) \in Job
    <3>1. (IF job[w].op = "code" THEN "respond" ELSE "back") \in PCs
      BY PlaceNames
    <3> QED BY <1>0, <3>1, JobReads DEF Indexed
  <2>3. FaultJob(w, Indexed(w))
    BY <1>0, <2>1 DEF FaultJob, WellFormed, Job, At, Indexed
  <2> QED BY <2>1, <2>2, <2>3
<1>6. ASSUME Revoked(w), job[w].pc \in {"lock", "destroying"}
      PROVE  \E j \in Job : FaultJob(w, j) /\ Become(w, j)
  <2>1. Become(w, NoJob) \/ Become(w, [job[w] EXCEPT !.pc = "drop"])
    BY <1>6 DEF Revoked, Finish, Goto
  <2>2. [job[w] EXCEPT !.pc = "drop"] \in Job
    BY <1>0 DEF Job, PCs
  <2>3. FaultJob(w, [job[w] EXCEPT !.pc = "drop"])
    BY <1>0, <1>6 DEF FaultJob, WellFormed, Job
  <2> QED BY <1>1, <2>1, <2>2, <2>3
<1>7. CASE RevokeReadFails(w)
  BY <1>6, <1>7 DEF RevokeReadFails, At
<1>8. CASE DestroyFails(w)
  <2>1. CASE At(w, "destroying") /\ \E t \in job[w].refs :
               Become(w, [job[w] EXCEPT !.refs = job[w].refs \ {t}])
    <3>1. PICK t \in job[w].refs : Become(w, [job[w] EXCEPT !.refs = job[w].refs \ {t}])
      BY <2>1
    <3>2. [job[w] EXCEPT !.refs = job[w].refs \ {t}] \in Job
      BY <1>0 DEF Job
    <3>3. FaultJob(w, [job[w] EXCEPT !.refs = job[w].refs \ {t}])
      BY <1>0, <2>1 DEF FaultJob, WellFormed, Job, At
    <3> QED BY <3>1, <3>2, <3>3
  <2>2. CASE At(w, "destroying") /\ Revoked(w)
    BY <1>6, <2>2 DEF At
  <2>3. CASE At(w, "drop") /\ Dropped(w)
    <3>1. \/ Become(w, NoJob)
          \/ /\ job[w].op = "delete"
             /\ Become(w, [job[w] EXCEPT !.pc = "next", !.id = None, !.doc = None])
      BY <2>3 DEF Dropped, Finish
    <3>2. [job[w] EXCEPT !.pc = "next", !.id = None, !.doc = None] \in Job
      BY <1>0, PlaceNames, JobClears
    <3>3. ASSUME job[w].op = "delete"
          PROVE  FaultJob(w, [job[w] EXCEPT !.pc = "next", !.id = None, !.doc = None])
      BY <1>0, <2>3, <3>3 DEF FaultJob, WellFormed, Job, At, Ops
    <3> QED BY <1>1, <3>1, <3>2, <3>3
  <2> QED BY <1>8, <2>1, <2>2, <2>3 DEF DestroyFails
<1>9. CASE ListFails(w)
  <2>1. CASE At(w, "list") /\ Goto(w, "next")
    <3>1. [job[w] EXCEPT !.pc = "next"] \in Job
      BY <1>0 DEF Job, PCs
    <3>2. FaultJob(w, [job[w] EXCEPT !.pc = "next"])
      BY <1>0, <2>1 DEF FaultJob, WellFormed, Job, At
    <3> QED BY <2>1, <3>1, <3>2 DEF Goto
  <2>2. CASE At(w, "next") /\ \E t \in job[w].todo :
               Become(w, [job[w] EXCEPT !.todo = job[w].todo \ {t}])
    <3>1. PICK t \in job[w].todo : Become(w, [job[w] EXCEPT !.todo = job[w].todo \ {t}])
      BY <2>2
    <3>2. [job[w] EXCEPT !.todo = job[w].todo \ {t}] \in Job
      BY <1>0 DEF Job
    <3>3. FaultJob(w, [job[w] EXCEPT !.todo = job[w].todo \ {t}])
      BY <1>0, <2>2 DEF FaultJob, WellFormed, Job, At
    <3> QED BY <3>1, <3>2, <3>3
  <2> QED BY <1>9, <2>1, <2>2 DEF ListFails
<1> QED BY <1>2, <1>3, <1>4, <1>5, <1>7, <1>8, <1>9 DEF DiskFault

\* An error changes no file but a claimed one that cannot be read.
LEMMA FaultDisk ==
    ASSUME TypeOK, NEW w \in Workers, DiskFault(w)
    PROVE  /\ UNCHANGED <<now, clients, file, index, authz, grantOf, held, redeemed,
                          rotatedAt>>
           /\ failures' = failures + 1
           /\ \/ claimFile' = claimFile
              \/ claimFile' = [claimFile EXCEPT ![job[w].id] = None]
BY DEF DiskFault, RequestFails, PutBackFails, GrantReadFails, GrantWriteFails,
       RevokeReadFails, DestroyFails, ListFails, DiskError, disk, ghost

\* All else keeps its type.
LEMMA FaultTypes ==
    ASSUME TypeOK, JobOK, NEW w \in Workers, DiskFault(w), job' \in [Workers -> Job]
    PROVE  TypeOK'
<1>1. /\ UNCHANGED <<now, clients, file, index, authz, grantOf, held, redeemed, rotatedAt>>
      /\ claimFile' \in [Docs -> Doc \cup {None}] /\ failures' \in Nat
  BY FaultDisk DEF TypeOK
<1>2. grantMu' \in Workers \cup {None}
  BY DEF DiskFault, RequestFails, PutBackFails, GrantReadFails, GrantWriteFails,
         RevokeReadFails, DestroyFails, ListFails, Unlock, TypeOK
<1>3. answered' \subseteq Codes \cup Clients
  <2>1. job[w].pc \in {"lock", "destroying", "drop"} => job[w].doc.grant \in Codes
    BY DEF TypeOK, JobOK, WellFormed, Doc
  <2>2. answered' = answered
        \/ /\ answered' = answered \cup {job[w].doc.grant}
           /\ job[w].pc \in {"lock", "destroying", "drop"}
    BY DEF DiskFault, RequestFails, PutBackFails, GrantReadFails, GrantWriteFails,
           RevokeReadFails, DestroyFails, ListFails, Revoked, Dropped, At, ghost
  <2> QED BY <2>1, <2>2 DEF TypeOK
<1> QED BY <1>1, <1>2, <1>3 DEF TypeOK

-----------------------------------------------------------------------------
(* Type correctness.                                                       *)

\* The types hold at the start.
LEMMA TypeInit == EmptyStore /\ clients \subseteq Clients => TypeOK /\ JobOK
BY IdleType DEF EmptyStore, TypeOK, JobOK

\* Every step of every handler, of the sweeper and of a restart keeps them:
\* one case per action.
LEMMA TypeStep == TypeOK /\ JobOK /\ [Next]_vars => TypeOK' /\ JobOK'
<1> SUFFICES ASSUME TypeOK, JobOK, [Next]_vars PROVE TypeOK' /\ JobOK'
  OBVIOUS
<1> DEFINE Stepped(w) == \E j \in Job : WellFormed(j) /\ Become(w, j)
<1>0. ASSUME NEW w \in Workers
      PROVE  /\ job[w] \in Job /\ WellFormed(job[w])
             /\ Stepped(w) => job' \in [Workers -> Job] /\ JobOK'
  BY JobStep DEF TypeOK, JobOK
<1>1. ASSUME NEW w \in Workers, NEW c \in Clients, NEW k \in Codes, NEW b \in Bindings, StartCode(w, c, k, b)
      PROVE  TypeOK' /\ JobOK'
  <2>1. Stepped(w)
    <3>1. c \in Clients
      BY <1>0, <1>1 DEF StartCode, At, WellFormed
    <3>2. [NoJob EXCEPT !.pc = "claim", !.op = "code", !.client = c, !.id = k, !.bind = b] \in Job
      BY <1>0, IdleType DEF Job, PCs, Ops
    <3>3. WellFormed([NoJob EXCEPT !.pc = "claim", !.op = "code", !.client = c, !.id = k, !.bind = b])
      BY <1>0, <3>1 DEF NoJob, Job, Ops, WellFormed
    <3> QED BY <1>1, <3>2, <3>3 DEF StartCode, Goto, Finish
  <2> QED BY <1>0, <1>1, <2>1 DEF StartCode, TypeOK, disk, ghost
<1>2. ASSUME NEW w \in Workers, NEW c \in Clients, NEW t \in Tokens, StartRefresh(w, c, t)
      PROVE  TypeOK' /\ JobOK'
  <2>1. Stepped(w)
    <3>1. t \in Tokens
      BY <1>0, <1>2 DEF StartRefresh, At, WellFormed
    <3>2. [NoJob EXCEPT !.pc = "claim", !.op = "refresh", !.client = c, !.id = t] \in Job
      BY <1>0, IdleType DEF Job, PCs, Ops
    <3>3. WellFormed([NoJob EXCEPT !.pc = "claim", !.op = "refresh", !.client = c, !.id = t])
      BY <1>0, <3>1 DEF NoJob, Job, Ops, WellFormed
    <3> QED BY <1>2, <3>2, <3>3 DEF StartRefresh, Goto, Finish
  <2> QED BY <1>0, <1>2, <2>1 DEF StartRefresh, TypeOK, disk, ghost
<1>3. ASSUME NEW w \in Workers, NEW c \in Clients, NEW t \in Tokens, StartRevoke(w, c, t)
      PROVE  TypeOK' /\ JobOK'
  <2>1. Stepped(w)
    <3>1. t \in Tokens
      BY <1>0, <1>3 DEF StartRevoke, At, WellFormed
    <3>2. [NoJob EXCEPT !.pc = "get", !.op = "revoke", !.client = c, !.id = t] \in Job
      BY <1>0, IdleType DEF Job, PCs, Ops
    <3>3. WellFormed([NoJob EXCEPT !.pc = "get", !.op = "revoke", !.client = c, !.id = t])
      BY <1>0, <3>1 DEF NoJob, Job, Ops, WellFormed
    <3> QED BY <1>3, <3>2, <3>3 DEF StartRevoke, Goto, Finish
  <2> QED BY <1>0, <1>3, <2>1 DEF StartRevoke, TypeOK, disk, ghost
<1>4. ASSUME NEW w \in Workers, NEW c \in Clients, StartDelete(w, c)
      PROVE  TypeOK' /\ JobOK'
  <2>1. Stepped(w)
    <3>1. c \in Clients
      BY <1>0, <1>4 DEF StartDelete, At, WellFormed
    <3>2. [NoJob EXCEPT !.pc = "list", !.op = "delete", !.client = c] \in Job
      BY <1>0, IdleType DEF Job, PCs, Ops
    <3>3. WellFormed([NoJob EXCEPT !.pc = "list", !.op = "delete", !.client = c])
      BY <1>0, <3>1 DEF NoJob, Job, Ops, WellFormed
    <3> QED BY <1>4, <3>2, <3>3 DEF StartDelete, Goto, Finish
  <2>2. clients' \subseteq Clients
    BY <1>0, <1>4 DEF StartDelete, TypeOK
  <2> QED BY <1>0, <1>4, <2>1, <2>2 DEF StartDelete, TypeOK, disk, ghost
<1>5. ASSUME NEW w \in Workers, ClaimRename(w)
      PROVE  TypeOK' /\ JobOK'
  <2>1. Stepped(w)
    <3>1. job[w].pc = "claim"
      BY <1>0, <1>5 DEF ClaimRename, At, WellFormed
    <3>2. [job[w] EXCEPT !.pc = "read"] \in Job
      BY <1>0, IdleType DEF Job, PCs, Ops
    <3>3. WellFormed([job[w] EXCEPT !.pc = "read"])
      BY <1>0, <3>1 DEF Job, Ops, WellFormed
    <3> QED BY <1>5, IdleType, <3>2, <3>3 DEF ClaimRename, Goto, Finish
  <2>2. file' \in [Docs -> Doc \cup {None}]
    BY <1>0, <1>5 DEF ClaimRename, TypeOK
  <2>3. claimFile' \in [Docs -> Doc \cup {None}]
    BY <1>0, <1>5 DEF ClaimRename, TypeOK
  <2> QED BY <1>0, <1>5, <2>1, <2>2, <2>3 DEF ClaimRename, TypeOK, disk, ghost
<1>6. ASSUME NEW w \in Workers, ClaimRead(w)
      PROVE  TypeOK' /\ JobOK'
  <2>1. Stepped(w)
    <3>1. job[w].pc = "read"
      BY <1>0, <1>6 DEF ClaimRead, At, WellFormed
    <3>0. claimFile[job[w].id] # None => claimFile[job[w].id] \in Doc
      BY <1>0, <3>1 DEF WellFormed, TypeOK
    <3>2. claimFile[job[w].id] # None => [job[w] EXCEPT !.pc = "check", !.doc = claimFile[job[w].id]] \in Job
      BY <1>0, <3>0, PlaceNames, JobLoads
    <3>3. claimFile[job[w].id] # None => WellFormed([job[w] EXCEPT !.pc = "check", !.doc = claimFile[job[w].id]])
      BY <1>0, <3>1, <3>0 DEF Job, Ops, WellFormed
    <3> QED BY <1>6, IdleType, <3>2, <3>3 DEF ClaimRead, Goto, Finish
  <2>2. claimFile' \in [Docs -> Doc \cup {None}]
    BY <1>0, <1>6 DEF ClaimRead, TypeOK
  <2> QED BY <1>0, <1>6, <2>1, <2>2 DEF ClaimRead, TypeOK, disk, ghost
<1>7. ASSUME NEW w \in Workers, CheckCode(w)
      PROVE  TypeOK' /\ JobOK'
  <2>1. Stepped(w)
    <3>1. job[w].pc = "check" /\ job[w].op = "code"
      BY <1>0, <1>7 DEF CheckCode, At, WellFormed
    <3>2. [job[w] EXCEPT !.pc = "issue"] \in Job
      BY <1>0, IdleType DEF Job, PCs, Ops
    <3>3. WellFormed([job[w] EXCEPT !.pc = "issue"])
      BY <1>0, <3>1 DEF Job, Ops, WellFormed
    <3> QED BY <1>7, IdleType, <3>2, <3>3 DEF CheckCode, Goto, Finish
  <2> QED BY <1>0, <1>7, <2>1 DEF CheckCode, TypeOK, disk, ghost
<1>8. ASSUME NEW w \in Workers, IssueForCode(w)
      PROVE  TypeOK' /\ JobOK'
  <2>1. Stepped(w)
    <3>1. CASE job[w].client \notin Refreshing
      <4>1. job[w].pc = "issue"
        BY <1>8 DEF IssueForCode, At
      <4>2. [job[w] EXCEPT !.pc = "respond"] \in Job
        BY <1>0 DEF Job, PCs
      <4>3. WellFormed([job[w] EXCEPT !.pc = "respond"])
        BY <1>0, <4>1 DEF Job, WellFormed
      <4> QED BY <3>1, <4>2, <4>3, <1>8 DEF IssueForCode, Goto
    <3>2. CASE job[w].client \in Refreshing
      <4>1. PICK t \in Tokens : Become(w, [job[w] EXCEPT !.pc = "index", !.next = t])
        BY <3>2, <1>8 DEF IssueForCode
      <4>2. job[w].pc = "issue" /\ job[w].op = "code"
        BY <1>8 DEF IssueForCode, At
      <4>3. [job[w] EXCEPT !.pc = "index", !.next = t] \in Job
        BY <1>0, PlaceNames, JobIndexes
      <4>4. WellFormed([job[w] EXCEPT !.pc = "index", !.next = t])
        BY <1>0, <4>2 DEF Job, WellFormed
      <4> QED BY <4>1, <4>3, <4>4
    <3> QED BY <3>1, <3>2
  <2>2. file' \in [Docs -> Doc \cup {None}]
    <3>1. FirstToken(job[w].doc, job[w].client) \in Doc
      BY <1>0, <1>8, FirstTokenType DEF IssueForCode, At, WellFormed, TypeOK
    <3>2. Stamp(FirstToken(job[w].doc, job[w].client), RefreshTTL) \in Doc
      BY <3>1, StampType, TimesAssumption DEF TypeOK
    <3> QED BY <1>8, <3>2 DEF IssueForCode, TypeOK
  <2>3. grantOf' \in [Tokens -> Codes \cup {None}]
    BY <1>0, <1>8 DEF IssueForCode, TypeOK, Draw, Doc, At, WellFormed
  <2>4. redeemed' \in [Codes -> Nat]
    <3>1. job[w].doc.grant \in Codes
      BY <1>0, <1>8 DEF IssueForCode, At, WellFormed, Doc
    <3>2. redeemed' = [redeemed EXCEPT ![job[w].doc.grant] = redeemed[job[w].doc.grant] + 1]
      BY <1>8 DEF IssueForCode
    <3>3. redeemed[job[w].doc.grant] + 1 \in Nat
      BY <3>1 DEF TypeOK
    <3> QED BY <3>1, <3>2, <3>3 DEF TypeOK
  <2> QED BY <1>0, <1>8, <2>1, <2>2, <2>3, <2>4 DEF IssueForCode, TypeOK, disk, ghost
<1>9. ASSUME NEW w \in Workers, CheckRefresh(w)
      PROVE  TypeOK' /\ JobOK'
  <2>1. Stepped(w)
    <3>1. Become(w, NoJob)
          \/ Become(w, [job[w] EXCEPT !.pc = "lock"])
          \/ Become(w, [job[w] EXCEPT !.pc = "issue", !.at = now,
               !.rotate = ShouldRotate(job[w].client, job[w].doc, now)])
      BY <1>9 DEF CheckRefresh, Goto, Finish
    <3>0. job[w].pc = "check" /\ job[w].op = "refresh" /\ now \in Nat
      BY <1>9 DEF CheckRefresh, At, TypeOK
    <3>2. /\ [job[w] EXCEPT !.pc = "lock"] \in Job
          /\ WellFormed([job[w] EXCEPT !.pc = "lock"])
      <4>1. [job[w] EXCEPT !.pc = "lock"] \in Job
        BY <1>0 DEF Job, PCs
      <4>2. WellFormed([job[w] EXCEPT !.pc = "lock"])
        BY <1>0, <3>0 DEF Job, WellFormed
      <4> QED BY <4>1, <4>2
    <3>3. ASSUME NEW b \in BOOLEAN
          PROVE  /\ [job[w] EXCEPT !.pc = "issue", !.at = now, !.rotate = b] \in Job
                 /\ WellFormed([job[w] EXCEPT !.pc = "issue", !.at = now, !.rotate = b])
      <4>1. [job[w] EXCEPT !.pc = "issue", !.at = now, !.rotate = b] \in Job
        BY <1>0, <3>0, PlaceNames, JobDecides
      <4>2. WellFormed([job[w] EXCEPT !.pc = "issue", !.at = now, !.rotate = b])
        BY <1>0, <3>0 DEF Job, WellFormed
      <4> QED BY <4>1, <4>2
    <3>4. ShouldRotate(job[w].client, job[w].doc, now) \in BOOLEAN
      BY DEF ShouldRotate
    <3> HIDE DEF ShouldRotate
    <3> QED BY <3>1, <3>2, <3>3, <3>4, IdleType
  <2> QED BY <1>0, <1>9, <2>1 DEF CheckRefresh, TypeOK, disk, ghost
<1>10. ASSUME NEW w \in Workers, IssueForRefresh(w)
      PROVE  TypeOK' /\ JobOK'
  <2>1. Stepped(w)
    <3>1. job[w].pc = "issue" /\ job[w].op = "refresh"
      BY <1>0, <1>10 DEF IssueForRefresh, At, WellFormed
    <3>2. [job[w] EXCEPT !.pc = "put"] \in Job
      BY <1>0, IdleType DEF Job, PCs, Ops
    <3>3. WellFormed([job[w] EXCEPT !.pc = "put"])
      BY <1>0, <3>1 DEF Job, Ops, WellFormed
    <3>4. [job[w] EXCEPT !.pc = "back"] \in Job
      BY <1>0, IdleType DEF Job, PCs, Ops
    <3>5. WellFormed([job[w] EXCEPT !.pc = "back"])
      BY <1>0, <3>1 DEF Job, Ops, WellFormed
    <3> QED BY <1>10, <3>2, <3>3, <3>4, <3>5 DEF IssueForRefresh, Goto, Finish
  <2> QED BY <1>0, <1>10, <2>1 DEF IssueForRefresh, TypeOK, disk, ghost
<1>11. ASSUME NEW w \in Workers, PutNext(w)
      PROVE  TypeOK' /\ JobOK'
  <2>1. Stepped(w)
    <3>1. PICK t \in Tokens : Become(w, [job[w] EXCEPT !.pc = "index", !.next = t])
      BY <1>11 DEF PutNext
    <3>2. job[w].pc = "put"
      BY <1>11 DEF PutNext, At
    <3>3. [job[w] EXCEPT !.pc = "index", !.next = t] \in Job
      BY <1>0, PlaceNames, JobIndexes
    <3>4. WellFormed([job[w] EXCEPT !.pc = "index", !.next = t])
      BY <1>0, <3>2 DEF Job, WellFormed
    <3> QED BY <3>1, <3>3, <3>4
  <2>2. file' \in [Docs -> Doc \cup {None}]
    <3>1. Successor(job[w].doc, job[w].at) \in Doc
      BY <1>0, <1>11, SuccessorType DEF PutNext, At, WellFormed, Job
    <3>2. Stamp(Successor(job[w].doc, job[w].at), RefreshTTL) \in Doc
      BY <3>1, StampType, TimesAssumption DEF TypeOK
    <3> QED BY <1>11, <3>2 DEF PutNext, TypeOK
  <2>3. grantOf' \in [Tokens -> Codes \cup {None}]
    BY <1>0, <1>11 DEF PutNext, TypeOK, Draw, Doc, At, WellFormed
  <2> QED BY <1>0, <1>11, <2>1, <2>2, <2>3 DEF PutNext, TypeOK, disk, ghost
<1>12. ASSUME NEW w \in Workers, PutBack(w)
      PROVE  TypeOK' /\ JobOK'
  <2>1. Stepped(w)
    <3>1. job[w].pc = "back"
      BY <1>0, <1>12 DEF PutBack, At, WellFormed
    <3>2. [job[w] EXCEPT !.pc = "respond"] \in Job
      BY <1>0, IdleType DEF Job, PCs, Ops
    <3>3. WellFormed([job[w] EXCEPT !.pc = "respond"])
      BY <1>0, <3>1 DEF Job, Ops, WellFormed
    <3> QED BY <1>12, <3>2, <3>3 DEF PutBack, Goto, Finish
  <2>2. file' \in [Docs -> Doc \cup {None}]
    <3>1. Presented(w) \in Doc
      BY <1>0, <1>12, PresentedType DEF PutBack, At, WellFormed, TypeOK
    <3> QED BY <1>12, <3>1 DEF PutBack, TypeOK
  <2>3. rotatedAt' \in [Tokens -> Nat]
    BY <1>0, <1>12 DEF PutBack, TypeOK, At, WellFormed, Job
  <2> QED BY <1>0, <1>12, <2>1, <2>2, <2>3 DEF PutBack, TypeOK, disk, ghost
<1>13. ASSUME NEW w \in Workers, GrantRead(w)
      PROVE  TypeOK' /\ JobOK'
  <2>1. Stepped(w)
    <3>1. job[w].pc = "index"
      BY <1>0, <1>13 DEF GrantRead, At, WellFormed
    <3>0. grantRefs(job[w].doc.grant) \in SUBSET Tokens
      BY <1>0, <3>1 DEF WellFormed, Doc, TypeOK, grantRefs
    <3>2. [job[w] EXCEPT !.pc = "indexing", !.refs = grantRefs(job[w].doc.grant)] \in Job
      BY <1>0, <3>0, PlaceNames, JobReads
    <3>3. WellFormed([job[w] EXCEPT !.pc = "indexing", !.refs = grantRefs(job[w].doc.grant)])
      BY <1>0, <3>1, <3>0 DEF Job, Ops, WellFormed
    <3> QED BY <1>13, <3>2, <3>3 DEF GrantRead, Goto, Finish
  <2>2. grantMu' \in Workers \cup {None}
    BY <1>0, <1>13 DEF GrantRead, TypeOK, Unlock
  <2> QED BY <1>0, <1>13, <2>1, <2>2 DEF GrantRead, TypeOK, disk, ghost
<1>14. ASSUME NEW w \in Workers, GrantWrite(w)
      PROVE  TypeOK' /\ JobOK'
  <2>1. Stepped(w)
    <3>1. job[w].pc = "indexing"
      BY <1>0, <1>14 DEF GrantWrite, At, WellFormed
    <3>0. (IF job[w].op = "code" THEN "respond" ELSE "back") \in PCs
      BY PlaceNames
    <3>2. [job[w] EXCEPT !.refs = {}, !.pc = IF job[w].op = "code" THEN "respond" ELSE "back"] \in Job
      BY <1>0, <3>0, JobReads
    <3>3. WellFormed([job[w] EXCEPT !.refs = {}, !.pc = IF job[w].op = "code" THEN "respond" ELSE "back"])
      BY <1>0, <3>1 DEF Job, Ops, WellFormed
    <3> QED BY <1>14, <3>2, <3>3 DEF GrantWrite, Indexed
  <2>2. index' \in [Codes -> SUBSET Tokens]
    BY <1>0, <1>14 DEF GrantWrite, TypeOK, Appended, Job, Doc, At, WellFormed
  <2>3. grantMu' \in Workers \cup {None}
    BY <1>0, <1>14 DEF GrantWrite, TypeOK, Unlock
  <2> QED BY <1>0, <1>14, <2>1, <2>2, <2>3 DEF GrantWrite, TypeOK, disk, ghost
<1>15. ASSUME NEW w \in Workers, Respond(w)
      PROVE  TypeOK' /\ JobOK'
  <2>1. Stepped(w)
    <3> QED BY <1>15, IdleType DEF Respond, Goto, Finish
  <2>2. held' \subseteq Tokens
    BY <1>0, <1>15 DEF Respond, TypeOK, Returned, Job
  <2> QED BY <1>0, <1>15, <2>1, <2>2 DEF Respond, TypeOK, disk, ghost
<1>16. ASSUME NEW w \in Workers, RevokeGet(w)
      PROVE  TypeOK' /\ JobOK'
  <2>1. Stepped(w)
    <3>1. job[w].pc = "get"
      BY <1>0, <1>16 DEF RevokeGet, At, WellFormed
    <3>0. file[job[w].id] # None => file[job[w].id] \in Doc
      BY <1>0, <3>1 DEF WellFormed, TypeOK
    <3>2. file[job[w].id] # None => [job[w] EXCEPT !.pc = "lock", !.doc = file[job[w].id]] \in Job
      BY <1>0, <3>0, PlaceNames, JobLoads
    <3>3. file[job[w].id] # None => WellFormed([job[w] EXCEPT !.pc = "lock", !.doc = file[job[w].id]])
      BY <1>0, <3>1, <3>0 DEF Job, Ops, WellFormed
    <3> QED BY <1>16, IdleType, <3>2, <3>3 DEF RevokeGet, Goto, Finish, Live
  <2>2. file' \in [Docs -> Doc \cup {None}]
    BY <1>0, <1>16 DEF RevokeGet, TypeOK, DropIfExpired
  <2> QED BY <1>0, <1>16, <2>1, <2>2 DEF RevokeGet, TypeOK, disk, ghost
<1>17. ASSUME NEW w \in Workers, RevokeLock(w)
      PROVE  TypeOK' /\ JobOK'
  <2>1. Stepped(w)
    <3>1. job[w].pc = "lock"
      BY <1>0, <1>17 DEF RevokeLock, At, WellFormed
    <3>0. grantRefs(job[w].doc.grant) \in SUBSET Tokens
      BY <1>0, <3>1 DEF WellFormed, Doc, TypeOK, grantRefs
    <3>2. [job[w] EXCEPT !.pc = "destroying", !.refs = grantRefs(job[w].doc.grant)] \in Job
      BY <1>0, <3>0, PlaceNames, JobReads
    <3>3. WellFormed([job[w] EXCEPT !.pc = "destroying", !.refs = grantRefs(job[w].doc.grant)])
      BY <1>0, <3>1, <3>0 DEF Job, Ops, WellFormed
    <3> QED BY <1>17, <3>2, <3>3 DEF RevokeLock, Goto, Finish
  <2>2. grantMu' \in Workers \cup {None}
    BY <1>0, <1>17 DEF RevokeLock, TypeOK, Unlock
  <2> QED BY <1>0, <1>17, <2>1, <2>2 DEF RevokeLock, TypeOK, disk, ghost
<1>18. ASSUME NEW w \in Workers, DestroyRef(w)
      PROVE  TypeOK' /\ JobOK'
  <2>1. Stepped(w)
    <3>1. PICK t \in job[w].refs :
            Become(w, [job[w] EXCEPT !.refs = job[w].refs \ {t}])
      BY <1>0, <1>18 DEF DestroyRef, Job
    <3>2. [job[w] EXCEPT !.refs = job[w].refs \ {t}] \in Job
      BY <1>0 DEF Job
    <3>3. WellFormed([job[w] EXCEPT !.refs = job[w].refs \ {t}])
      BY <1>0 DEF Job, WellFormed
    <3> QED BY <3>1, <3>2, <3>3
  <2>2. file' \in [Docs -> Doc \cup {None}]
    BY <1>0, <1>18 DEF DestroyRef, TypeOK, Job
  <2> QED BY <1>0, <1>18, <2>1, <2>2 DEF DestroyRef, TypeOK, disk, ghost
<1>19. ASSUME NEW w \in Workers, RevokeUnlock(w)
      PROVE  TypeOK' /\ JobOK'
  <2>1. Stepped(w)
    <3>1. job[w].pc = "destroying"
      BY <1>0, <1>19 DEF RevokeUnlock, At, WellFormed
    <3>2. [job[w] EXCEPT !.pc = "drop"] \in Job
      BY <1>0, IdleType DEF Job, PCs, Ops
    <3>3. WellFormed([job[w] EXCEPT !.pc = "drop"])
      BY <1>0, <3>1 DEF Job, Ops, WellFormed
    <3> QED BY <1>19, IdleType, <3>2, <3>3 DEF RevokeUnlock, Revoked, Goto, Finish
  <2>2. index' \in [Codes -> SUBSET Tokens]
    BY <1>0, <1>19 DEF RevokeUnlock, TypeOK, Appended, Job, Doc, At, WellFormed
  <2>3. grantMu' \in Workers \cup {None}
    BY <1>0, <1>19 DEF RevokeUnlock, TypeOK, Unlock
  <2>4. answered' \subseteq Codes \cup Clients
    BY <1>0, <1>19 DEF RevokeUnlock, Revoked, TypeOK, Doc, At, WellFormed, Job
  <2> QED BY <1>0, <1>19, <2>1, <2>2, <2>3, <2>4 DEF RevokeUnlock, TypeOK, disk, ghost
<1>20. ASSUME NEW w \in Workers, Drop(w)
      PROVE  TypeOK' /\ JobOK'
  <2>1. Stepped(w)
    <3>1. job[w].pc = "drop" /\ (Become(w, NoJob) \/ job[w].op = "delete")
      BY <1>0, <1>20 DEF Drop, Dropped, At, WellFormed, Finish
    <3>2. job[w].op = "delete" => [job[w] EXCEPT !.pc = "next", !.id = None, !.doc = None] \in Job
      BY <1>0, PlaceNames, JobClears
    <3>3. job[w].op = "delete" => WellFormed([job[w] EXCEPT !.pc = "next", !.id = None, !.doc = None])
      BY <1>0, <3>1 DEF Job, Ops, WellFormed
    <3> QED BY <1>20, IdleType, <3>1, <3>2, <3>3 DEF Drop, Dropped, Goto, Finish
  <2>2. file' \in [Docs -> Doc \cup {None}]
    BY <1>0, <1>20 DEF Drop, TypeOK
  <2>3. answered' \subseteq Codes \cup Clients
    BY <1>0, <1>20 DEF Drop, Dropped, TypeOK, Doc, At, WellFormed, Job
  <2> QED BY <1>0, <1>20, <2>1, <2>2, <2>3 DEF Drop, TypeOK, disk, ghost
<1>21. ASSUME NEW w \in Workers, ListTokens(w)
      PROVE  TypeOK' /\ JobOK'
  <2>1. Stepped(w)
    <3>1. job[w].pc = "list"
      BY <1>0, <1>21 DEF ListTokens, At, WellFormed
    <3>2. [job[w] EXCEPT !.pc = "next", !.todo = {t \in Tokens : Live(t)}] \in Job
      BY <1>0, PlaceNames, JobLists
    <3>3. WellFormed([job[w] EXCEPT !.pc = "next", !.todo = {t \in Tokens : Live(t)}])
      BY <1>0, <3>1 DEF Job, Ops, WellFormed
    <3> QED BY <1>21, <3>2, <3>3 DEF ListTokens, Goto, Finish
  <2>2. file' \in [Docs -> Doc \cup {None}]
    BY <1>0, <1>21 DEF ListTokens, TypeOK
  <2> QED BY <1>0, <1>21, <2>1, <2>2 DEF ListTokens, TypeOK, disk, ghost
<1>22. ASSUME NEW w \in Workers, NextToken(w)
      PROVE  TypeOK' /\ JobOK'
  <2>1. Stepped(w)
    <3>1. PICK t \in job[w].todo :
            \/ /\ file[t] # None
               /\ Become(w, [job[w] EXCEPT !.pc = "lock", !.id = t,
                               !.doc = file[t], !.todo = job[w].todo \ {t}])
            \/ Become(w, [job[w] EXCEPT !.todo = job[w].todo \ {t}])
      BY <1>0, <1>22 DEF NextToken, AfterSkip, Live, Job
    <3>2. t \in Tokens
      BY <1>0, <3>1 DEF Job
    <3>3. [job[w] EXCEPT !.todo = job[w].todo \ {t}] \in Job
      BY <1>0 DEF Job
    <3>4. WellFormed([job[w] EXCEPT !.todo = job[w].todo \ {t}])
      BY <1>0 DEF Job, WellFormed
    <3>5. ASSUME file[t] # None
          PROVE  /\ [job[w] EXCEPT !.pc = "lock", !.id = t, !.doc = file[t],
                                !.todo = job[w].todo \ {t}] \in Job
                 /\ WellFormed([job[w] EXCEPT !.pc = "lock", !.id = t,
                                !.doc = file[t], !.todo = job[w].todo \ {t}])
      <4>1. file[t] \in Doc
        BY <3>2, <3>5 DEF TypeOK
      <4>2. job[w].pc = "next"
        BY <1>22 DEF NextToken, At
      <4>3. [job[w] EXCEPT !.pc = "lock", !.id = t, !.doc = file[t],
                           !.todo = job[w].todo \ {t}] \in Job
        <5>1. job[w].todo \ {t} \in SUBSET Tokens
          BY <1>0 DEF Job
        <5> QED BY <1>0, <3>2, <4>1, <5>1, PlaceNames, JobTakes
      <4>4. WellFormed([job[w] EXCEPT !.pc = "lock", !.id = t, !.doc = file[t],
                                      !.todo = job[w].todo \ {t}])
        BY <1>0, <3>2, <4>1, <4>2 DEF Job, WellFormed
      <4> QED BY <4>3, <4>4
    <3> QED BY <3>1, <3>3, <3>4, <3>5
  <2>2. file' \in [Docs -> Doc \cup {None}]
    BY <1>0, <1>22 DEF NextToken, TypeOK, DropIfExpired
  <2> QED BY <1>0, <1>22, <2>1, <2>2 DEF NextToken, TypeOK, disk, ghost
<1>23. ASSUME NEW w \in Workers, Deleted(w)
      PROVE  TypeOK' /\ JobOK'
  <2>1. Stepped(w)
    <3> QED BY <1>23, IdleType DEF Deleted, Goto, Finish
  <2>2. answered' \subseteq Codes \cup Clients
    BY <1>0, <1>23 DEF Deleted, TypeOK, Doc, At, WellFormed, Job
  <2> QED BY <1>0, <1>23, <2>1, <2>2 DEF Deleted, TypeOK, disk, ghost
<1>24. ASSUME NEW k \in Codes, NEW c \in Clients, NEW a \in Accounts, NEW b \in Bindings,
             MintCode(k, c, a, b)
      PROVE  TypeOK' /\ JobOK'
  <2> DEFINE doc == [client |-> c, account |-> a, grant |-> k, bind |-> b,
                     iat |-> 0, exp |-> 0, iiat |-> 0, consumed |-> 0,
                     expiresAt |-> 0, mtime |-> 0]
  <2>1. Stamp(doc, CodeTTL) \in Doc
    <3>1. doc \in Doc
      BY DEF Doc
    <3> HIDE DEF doc
    <3> QED BY <3>1, StampType, TimesAssumption DEF TypeOK
  <2>2. file' = [file EXCEPT ![k] = Stamp(doc, CodeTTL)]
    BY <1>24 DEF MintCode
  <2> HIDE DEF doc
  <2>3. file' \in [Docs -> Doc \cup {None}]
    BY <2>1, <2>2 DEF TypeOK
  <2>4. authz' \in [Codes -> [client: Clients, account: Accounts] \cup {None}]
    BY <1>24 DEF MintCode, TypeOK
  <2> QED BY <1>24, <2>3, <2>4 DEF MintCode, TypeOK, JobOK
<1>25. ASSUME NEW d \in Docs, SweepExpired(d) \/ SweepClaim(d)
      PROVE  TypeOK' /\ JobOK'
  BY <1>25 DEF SweepExpired, SweepClaim, TypeOK, JobOK, ghost
<1>26. Tick => TypeOK' /\ JobOK'
  BY DEF Tick, TypeOK, JobOK, disk, ghost
<1>27. Crash => TypeOK' /\ JobOK'
  BY IdleType DEF Crash, TypeOK, JobOK, disk, ghost
<1>28. UNCHANGED vars => TypeOK' /\ JobOK'
  BY DEF vars, TypeOK, JobOK, disk, ghost
<1>29. ASSUME NEW w \in Workers, DiskFault(w)
      PROVE  TypeOK' /\ JobOK'
  <2>1. PICK j \in Job : FaultJob(w, j) /\ Become(w, j)
    BY <1>29, FaultJobs
  <2>2. Stepped(w)
    BY <2>1 DEF FaultJob
  <2> QED BY <1>0, <1>29, <2>2, FaultTypes DEF JobOK
<1> QED
  BY <1>1, <1>2, <1>3, <1>4, <1>5, <1>6, <1>7, <1>8, <1>9, <1>10, <1>11, <1>12, <1>13, <1>14, <1>15, <1>16, <1>17, <1>18, <1>19, <1>20, <1>21, <1>22, <1>23, <1>24, <1>25, <1>26, <1>27, <1>28, <1>29
     DEF Next, Environment, Start, Work

-----------------------------------------------------------------------------
(* Documents.  Most steps take nothing and store nothing: they forget a    *)
(* claim, drop documents, or are not about documents at all.               *)

ClaimPCs == {"read", "check", "issue", "put", "index", "indexing", "back"}

\* A job that stands for a claim.
Claiming(j) == j.pc \in ClaimPCs /\ j.op \in {"code", "refresh"}

\* Where a handler is and what it was asked for, after a step that sets its
\* place and one field more.
LEMMA JobPlace ==
    ASSUME NEW j \in Job, NEW p, NEW x
    PROVE  /\ [j EXCEPT !.pc = p, !.refs = x].pc = p /\ [j EXCEPT !.pc = p, !.refs = x].id = j.id
           /\ [j EXCEPT !.refs = x, !.pc = p].pc = p /\ [j EXCEPT !.refs = x, !.pc = p].id = j.id
           /\ [j EXCEPT !.pc = p, !.doc = x].pc = p /\ [j EXCEPT !.pc = p, !.doc = x].id = j.id
           /\ [j EXCEPT !.pc = p, !.todo = x].pc = p
           /\ [j EXCEPT !.pc = p, !.id = x, !.doc = x].pc = p
BY DEF Job

\* The claims after a step are those of the other workers, and j's.
LEMMA ClaimsAfter ==
    ASSUME TypeOK, NEW w \in Workers, NEW j, Become(w, j)
    PROVE  \A v \in Workers, d \in Docs :
             Claims(v, d)' <=> IF v = w THEN j.id = d /\ Claiming(j) ELSE Claims(v, d)
<1>1. job'[w] = j /\ \A v \in Workers : v # w => job'[v] = job[v]
  BY DEF Become, TypeOK
<1> QED BY <1>1 DEF Claims, Claiming, ClaimPCs

Known(d) ==
    /\ d \in Codes => authz[d] # None
    /\ d \in Tokens => grantOf[d] # None

\* The claim that job j stands for is one that worker w already has.
NoNewClaim(w, j) ==
    /\ Known(j.id) /\ Known(j.next)
    /\ j.pc \in ClaimPCs /\ j.op \in {"code", "refresh"} =>
         /\ job[w].id = j.id /\ job[w].op = j.op
         /\ job[w].pc \in ClaimPCs
         /\ job[w].pc = "read" => j.pc = "read"
    /\ j.pc \in {"check", "issue"} =>
         job[w].pc \in {"check", "issue"} /\ job[w].id = j.id /\ job[w].doc = j.doc

\* A step of worker w that becomes j, and a step that changes no job.
Forgets(w, j) == j \in Job /\ NoNewClaim(w, j) /\ Become(w, j)

\* Documents are only removed; no id is drawn and no code is redeemed.
OnlyRemoves ==
    /\ \A d \in Docs : file'[d] \in {file[d], None}
    /\ \A d \in Docs : claimFile'[d] \in {claimFile[d], None}
    /\ held' \subseteq held \cup {t \in Tokens : grantOf[t] # None}
    /\ UNCHANGED <<authz, grantOf, redeemed>>

DocsInv == Fresh /\ Exclusive /\ CodesOK

\* The invariant in two halves, types and documents.
LEMMA IInvDocs == IInv <=> TypeOK /\ JobOK /\ DocsInv
BY DEF IInv, DocsInv

\* An id somebody has seen has been drawn.
LEMMA KnownId ==
    ASSUME TypeOK, Fresh, NEW w \in Workers
    PROVE  Known(job[w].id) /\ Known(job[w].next) /\ Known(None)
<1>1. job[w].next \notin Codes /\ None \notin Codes /\ None \notin Tokens
  BY ConstantsAssumption DEF TypeOK, Job
<1> QED BY <1>1 DEF Fresh, Known

\* A step that only removes documents keeps the second half.
LEMMA RemovalStep ==
    ASSUME TypeOK, DocsInv, OnlyRemoves, job' = job
    PROVE  DocsInv'
<1>1. Fresh'
  BY DEF DocsInv, Fresh, OnlyRemoves
<1>2. Exclusive'
  BY DEF DocsInv, Exclusive, OnlyRemoves, Claims
<1>3. CodesOK'
  BY DEF DocsInv, CodesOK, OnlyRemoves
<1> QED BY <1>1, <1>2, <1>3 DEF DocsInv

\* So does a step in which workers only lose hold of documents.
LEMMA ForgetStep ==
    ASSUME TypeOK, DocsInv, OnlyRemoves,
           NEW w \in Workers, NEW j, Forgets(w, j)
    PROVE  DocsInv'
<1>1. /\ job'[w] = j
      /\ \A v \in Workers : v # w => job'[v] = job[v]
  BY DEF Forgets, Become, TypeOK
<1>2. Fresh'
  <2>1. \A v \in Workers : Known(job'[v].id) /\ Known(job'[v].next)
    BY <1>1, KnownId DEF DocsInv, Forgets, NoNewClaim
  <2> QED BY <2>1 DEF DocsInv, Fresh, OnlyRemoves, Known
<1>3. ASSUME NEW v \in Workers, NEW d \in Docs, Claims(v, d)'
      PROVE  Claims(v, d) /\ (job[v].pc = "read" => job'[v].pc = "read")
  BY <1>1, <1>3 DEF Claims, Forgets, NoNewClaim, ClaimPCs
<1>4. Exclusive'
  BY <1>3 DEF DocsInv, Exclusive, OnlyRemoves
<1>5. CodesOK'
  <2>1. ASSUME NEW v \in Workers, NEW k \in Codes, job'[v].id = k,
               job'[v].pc \in {"check", "issue"}
        PROVE  job'[v].doc.grant = k /\ redeemed[k] = 0
    BY <1>1, <2>1 DEF DocsInv, CodesOK, Forgets, NoNewClaim
  <2> QED BY <2>1 DEF DocsInv, CodesOK, OnlyRemoves
<1> QED BY <1>2, <1>4, <1>5 DEF DocsInv

\* Nothing is on disk at the start.
LEMMA DocsInit == EmptyStore => DocsInv
BY ConstantsAssumption DEF EmptyStore, DocsInv, Fresh, Exclusive, CodesOK, Claims, NoJob


\* Every step keeps the second half; the cases that matter are the renames,
\* the reads of a claimed file and the puts.
LEMMA DocsStep ==
    TypeOK /\ JobOK /\ DocsInv /\ [Next]_vars => DocsInv'
<1> SUFFICES ASSUME TypeOK, JobOK, DocsInv, [Next]_vars PROVE DocsInv'
  OBVIOUS
<1>a. ASSUME NEW w \in Workers
      PROVE  job[w] \in Job /\ WellFormed(job[w]) /\ Known(job[w].id) /\ Known(job[w].next)
  BY KnownId DEF TypeOK, JobOK, DocsInv
<1>b. NoJob \in Job /\ \A w \in Workers : NoNewClaim(w, NoJob)
  BY IdleType, ConstantsAssumption DEF NoJob, NoNewClaim, Known, ClaimPCs
<1>c. \A t \in Tokens : file[t] # None \/ t \in held => grantOf[t] # None
  BY DEF DocsInv, Fresh
<1>d. None \notin Codes /\ None \notin Tokens /\ Codes \cap Tokens = {}
  BY ConstantsAssumption
<1>1. ASSUME NEW w \in Workers, NEW c \in Clients, NEW k \in Codes, NEW b \in Bindings, StartCode(w, c, k, b)
      PROVE  DocsInv'
  <2>1. OnlyRemoves
    BY <1>1 DEF StartCode, OnlyRemoves, disk, ghost
  <2>2. \E j : Forgets(w, j)
    <3>1. authz[k] # None
      BY <1>a, <1>c, <1>1 DEF StartCode, At, WellFormed
    <3>2. [NoJob EXCEPT !.pc = "claim", !.op = "code", !.client = c, !.id = k, !.bind = b] \in Job
      BY <1>a, <1>b, <3>1 DEF Job, PCs, Ops
    <3>3. NoNewClaim(w, [NoJob EXCEPT !.pc = "claim", !.op = "code", !.client = c, !.id = k, !.bind = b])
      BY <1>a, <1>d, <3>1 DEF Job, NoNewClaim, Known, ClaimPCs, NoJob
    <3> QED BY <1>b, <1>1, <3>1, <3>2, <3>3 DEF StartCode, Forgets, Goto, Finish
  <2> QED BY <2>1, <2>2, ForgetStep
<1>2. ASSUME NEW w \in Workers, NEW c \in Clients, NEW t \in Tokens, StartRefresh(w, c, t)
      PROVE  DocsInv'
  <2>1. OnlyRemoves
    BY <1>2 DEF StartRefresh, OnlyRemoves, disk, ghost
  <2>2. \E j : Forgets(w, j)
    <3>1. grantOf[t] # None
      BY <1>a, <1>c, <1>2 DEF StartRefresh, At, WellFormed
    <3>2. [NoJob EXCEPT !.pc = "claim", !.op = "refresh", !.client = c, !.id = t] \in Job
      BY <1>a, <1>b, <3>1 DEF Job, PCs, Ops
    <3>3. NoNewClaim(w, [NoJob EXCEPT !.pc = "claim", !.op = "refresh", !.client = c, !.id = t])
      BY <1>a, <1>d, <3>1 DEF Job, NoNewClaim, Known, ClaimPCs, NoJob
    <3> QED BY <1>b, <1>2, <3>1, <3>2, <3>3 DEF StartRefresh, Forgets, Goto, Finish
  <2> QED BY <2>1, <2>2, ForgetStep
<1>3. ASSUME NEW w \in Workers, NEW c \in Clients, NEW t \in Tokens, StartRevoke(w, c, t)
      PROVE  DocsInv'
  <2>1. OnlyRemoves
    BY <1>3 DEF StartRevoke, OnlyRemoves, disk, ghost
  <2>2. \E j : Forgets(w, j)
    <3>1. grantOf[t] # None
      BY <1>a, <1>c, <1>3 DEF StartRevoke, At, WellFormed
    <3>2. [NoJob EXCEPT !.pc = "get", !.op = "revoke", !.client = c, !.id = t] \in Job
      BY <1>a, <1>b, <3>1 DEF Job, PCs, Ops
    <3>3. NoNewClaim(w, [NoJob EXCEPT !.pc = "get", !.op = "revoke", !.client = c, !.id = t])
      BY <1>a, <1>d, <3>1 DEF Job, NoNewClaim, Known, ClaimPCs, NoJob
    <3> QED BY <1>b, <1>3, <3>1, <3>2, <3>3 DEF StartRevoke, Forgets, Goto, Finish
  <2> QED BY <2>1, <2>2, ForgetStep
<1>4. ASSUME NEW w \in Workers, NEW c \in Clients, StartDelete(w, c)
      PROVE  DocsInv'
  <2>1. OnlyRemoves
    BY <1>4 DEF StartDelete, OnlyRemoves, disk, ghost
  <2>2. \E j : Forgets(w, j)
    <3>2. [NoJob EXCEPT !.pc = "list", !.op = "delete", !.client = c] \in Job
      BY <1>a, <1>b DEF Job, PCs, Ops
    <3>3. NoNewClaim(w, [NoJob EXCEPT !.pc = "list", !.op = "delete", !.client = c])
      BY <1>a, <1>d DEF Job, NoNewClaim, Known, ClaimPCs, NoJob
    <3> QED BY <1>b, <1>4, <3>2, <3>3 DEF StartDelete, Forgets, Goto, Finish
  <2> QED BY <2>1, <2>2, ForgetStep
<1>5. ASSUME NEW w \in Workers, CheckCode(w)
      PROVE  DocsInv'
  <2>1. OnlyRemoves
    BY <1>5 DEF CheckCode, OnlyRemoves, disk, ghost
  <2>2. \E j : Forgets(w, j)
    <3>1. job[w].pc = "check"
      BY <1>a, <1>c, <1>5 DEF CheckCode, At, WellFormed
    <3>2. [job[w] EXCEPT !.pc = "issue"] \in Job
      BY <1>a, <1>b, <3>1 DEF Job, PCs, Ops
    <3>3. NoNewClaim(w, [job[w] EXCEPT !.pc = "issue"])
      BY <1>a, <1>d, <3>1 DEF Job, NoNewClaim, Known, ClaimPCs
    <3> QED BY <1>b, <1>5, <3>1, <3>2, <3>3 DEF CheckCode, Forgets, Goto, Finish
  <2> QED BY <2>1, <2>2, ForgetStep
<1>6. ASSUME NEW w \in Workers, CheckRefresh(w)
      PROVE  DocsInv'
  <2>1. OnlyRemoves
    BY <1>6 DEF CheckRefresh, OnlyRemoves, disk, ghost
  <2>2. \E j : Forgets(w, j)
    <3>1. job[w].pc = "check" /\ now \in Nat
      BY <1>6 DEF CheckRefresh, At, TypeOK
    <3>2. Become(w, NoJob)
          \/ Become(w, [job[w] EXCEPT !.pc = "lock"])
          \/ \E b \in BOOLEAN :
               Become(w, [job[w] EXCEPT !.pc = "issue", !.at = now, !.rotate = b])
      <4>1. ShouldRotate(job[w].client, job[w].doc, now) \in BOOLEAN
        BY DEF ShouldRotate
      <4> HIDE DEF ShouldRotate
      <4> QED BY <1>6, <4>1 DEF CheckRefresh, Goto, Finish
    <3>3. [job[w] EXCEPT !.pc = "lock"] \in Job
      BY <1>a DEF Job, PCs
    <3>4. NoNewClaim(w, [job[w] EXCEPT !.pc = "lock"])
      BY <1>a, <1>d DEF Job, NoNewClaim, Known, ClaimPCs
    <3>5. ASSUME NEW b \in BOOLEAN
          PROVE  [job[w] EXCEPT !.pc = "issue", !.at = now, !.rotate = b] \in Job
      BY <1>a, <3>1, PlaceNames, JobDecides
    <3>6. ASSUME NEW b \in BOOLEAN
          PROVE  NoNewClaim(w, [job[w] EXCEPT !.pc = "issue", !.at = now, !.rotate = b])
      BY <1>a, <1>d, <3>1 DEF Job, NoNewClaim, Known, ClaimPCs
    <3> QED BY <1>b, <3>2, <3>3, <3>4, <3>5, <3>6 DEF Forgets
  <2> QED BY <2>1, <2>2, ForgetStep
<1>7. ASSUME NEW w \in Workers, IssueForRefresh(w)
      PROVE  DocsInv'
  <2>1. OnlyRemoves
    BY <1>7 DEF IssueForRefresh, OnlyRemoves, disk, ghost
  <2>2. \E j : Forgets(w, j)
    <3>1. job[w].pc = "issue"
      BY <1>a, <1>c, <1>7 DEF IssueForRefresh, At, WellFormed
    <3>2. [job[w] EXCEPT !.pc = "put"] \in Job
      BY <1>a, <1>b, <3>1 DEF Job, PCs, Ops
    <3>3. NoNewClaim(w, [job[w] EXCEPT !.pc = "put"])
      BY <1>a, <1>d, <3>1 DEF Job, NoNewClaim, Known, ClaimPCs
    <3>4. [job[w] EXCEPT !.pc = "back"] \in Job
      BY <1>a, <1>b, <3>1 DEF Job, PCs, Ops
    <3>5. NoNewClaim(w, [job[w] EXCEPT !.pc = "back"])
      BY <1>a, <1>d, <3>1 DEF Job, NoNewClaim, Known, ClaimPCs
    <3> QED BY <1>b, <1>7, <3>1, <3>2, <3>3, <3>4, <3>5 DEF IssueForRefresh, Forgets, Goto, Finish
  <2> QED BY <2>1, <2>2, ForgetStep
<1>8. ASSUME NEW w \in Workers, GrantRead(w)
      PROVE  DocsInv'
  <2>1. OnlyRemoves
    BY <1>8 DEF GrantRead, OnlyRemoves, disk, ghost
  <2>2. \E j : Forgets(w, j)
    <3>1. job[w].pc = "index" /\ grantRefs(job[w].doc.grant) \in SUBSET Tokens
      BY <1>a, <1>c, <1>8 DEF GrantRead, At, WellFormed, TypeOK, Doc, grantRefs
    <3>2. [job[w] EXCEPT !.pc = "indexing", !.refs = grantRefs(job[w].doc.grant)] \in Job
      BY <1>a, <1>b, <3>1, PlaceNames, JobReads
    <3>3. NoNewClaim(w, [job[w] EXCEPT !.pc = "indexing", !.refs = grantRefs(job[w].doc.grant)])
      BY <1>a, <1>d, <3>1 DEF Job, NoNewClaim, Known, ClaimPCs
    <3> QED BY <1>b, <1>8, <3>1, <3>2, <3>3 DEF GrantRead, Forgets, Goto, Finish
  <2> QED BY <2>1, <2>2, ForgetStep
<1>9. ASSUME NEW w \in Workers, GrantWrite(w)
      PROVE  DocsInv'
  <2>1. OnlyRemoves
    BY <1>9 DEF GrantWrite, OnlyRemoves, disk, ghost
  <2>2. \E j : Forgets(w, j)
    <3>1. job[w].pc = "indexing"
      BY <1>a, <1>c, <1>9 DEF GrantWrite, At, WellFormed
    <3>0. (IF job[w].op = "code" THEN "respond" ELSE "back") \in PCs
      BY PlaceNames
    <3>2. [job[w] EXCEPT !.refs = {}, !.pc = IF job[w].op = "code" THEN "respond" ELSE "back"] \in Job
      BY <1>a, <3>0, JobReads
    <3>3. NoNewClaim(w, [job[w] EXCEPT !.refs = {}, !.pc = IF job[w].op = "code" THEN "respond" ELSE "back"])
      BY <1>a, <1>d, <3>1 DEF Job, NoNewClaim, Known, ClaimPCs
    <3> QED BY <1>9, <3>2, <3>3 DEF GrantWrite, Indexed, Forgets
  <2> QED BY <2>1, <2>2, ForgetStep
<1>10. ASSUME NEW w \in Workers, Respond(w)
      PROVE  DocsInv'
  <2>1. OnlyRemoves
    BY <1>10, <1>a, <1>c DEF Respond, OnlyRemoves, disk, ghost, Returned, Known, Job
  <2>2. \E j : Forgets(w, j)
    <3> QED BY <1>b, <1>10 DEF Respond, Forgets, Goto, Finish
  <2> QED BY <2>1, <2>2, ForgetStep
<1>11. ASSUME NEW w \in Workers, RevokeGet(w)
      PROVE  DocsInv'
  <2>1. OnlyRemoves
    BY <1>11 DEF RevokeGet, OnlyRemoves, disk, ghost, DropIfExpired
  <2>2. \E j : Forgets(w, j)
    <3>1. job[w].pc = "get" /\ (file[job[w].id] # None => file[job[w].id] \in Doc)
      BY <1>a, <1>c, <1>11 DEF RevokeGet, At, WellFormed, TypeOK
    <3>2. file[job[w].id] # None => [job[w] EXCEPT !.pc = "lock", !.doc = file[job[w].id]] \in Job
      BY <1>a, <1>b, <3>1 DEF Job, PCs, Ops
    <3>3. file[job[w].id] # None => NoNewClaim(w, [job[w] EXCEPT !.pc = "lock", !.doc = file[job[w].id]])
      BY <1>a, <1>d, <3>1 DEF Job, NoNewClaim, Known, ClaimPCs
    <3> QED BY <1>b, <1>11, <3>1, <3>2, <3>3 DEF RevokeGet, Forgets, Goto, Finish, Live
  <2> QED BY <2>1, <2>2, ForgetStep
<1>12. ASSUME NEW w \in Workers, RevokeLock(w)
      PROVE  DocsInv'
  <2>1. OnlyRemoves
    BY <1>12 DEF RevokeLock, OnlyRemoves, disk, ghost
  <2>2. \E j : Forgets(w, j)
    <3>1. job[w].pc = "lock" /\ grantRefs(job[w].doc.grant) \in SUBSET Tokens
      BY <1>a, <1>c, <1>12 DEF RevokeLock, At, WellFormed, TypeOK, Doc, grantRefs
    <3>2. [job[w] EXCEPT !.pc = "destroying", !.refs = grantRefs(job[w].doc.grant)] \in Job
      BY <1>a, <1>b, <3>1, PlaceNames, JobReads
    <3>3. NoNewClaim(w, [job[w] EXCEPT !.pc = "destroying", !.refs = grantRefs(job[w].doc.grant)])
      BY <1>a, <1>d, <3>1 DEF Job, NoNewClaim, Known, ClaimPCs
    <3> QED BY <1>b, <1>12, <3>1, <3>2, <3>3 DEF RevokeLock, Forgets, Goto, Finish
  <2> QED BY <2>1, <2>2, ForgetStep
<1>13. ASSUME NEW w \in Workers, DestroyRef(w)
      PROVE  DocsInv'
  <2>1. PICK t \in job[w].refs :
          /\ file' = [file EXCEPT ![t] = None]
          /\ Become(w, [job[w] EXCEPT !.refs = job[w].refs \ {t}])
    BY <1>a, <1>13 DEF DestroyRef, Job
  <2>2. OnlyRemoves
    BY <1>13, <2>1 DEF DestroyRef, OnlyRemoves, TypeOK, ghost
  <2>3. [job[w] EXCEPT !.refs = job[w].refs \ {t}] \in Job
    BY <1>a DEF Job
  <2>4. NoNewClaim(w, [job[w] EXCEPT !.refs = job[w].refs \ {t}])
    BY <1>a DEF Job, NoNewClaim
  <2> QED BY <2>1, <2>2, <2>3, <2>4, ForgetStep DEF Forgets
<1>14. ASSUME NEW w \in Workers, RevokeUnlock(w)
      PROVE  DocsInv'
  <2>1. OnlyRemoves
    BY <1>14 DEF RevokeUnlock, OnlyRemoves, disk, ghost
  <2>2. \E j : Forgets(w, j)
    <3>1. job[w].pc = "destroying"
      BY <1>a, <1>c, <1>14 DEF RevokeUnlock, At, WellFormed
    <3>2. [job[w] EXCEPT !.pc = "drop"] \in Job
      BY <1>a, <1>b, <3>1 DEF Job, PCs, Ops
    <3>3. NoNewClaim(w, [job[w] EXCEPT !.pc = "drop"])
      BY <1>a, <1>d, <3>1 DEF Job, NoNewClaim, Known, ClaimPCs
    <3> QED BY <1>b, <1>14, <3>1, <3>2, <3>3 DEF RevokeUnlock, Revoked, Forgets, Goto, Finish
  <2> QED BY <2>1, <2>2, ForgetStep
<1>15. ASSUME NEW w \in Workers, Drop(w)
      PROVE  DocsInv'
  <2>1. OnlyRemoves
    BY <1>15, <1>a, <1>c DEF Drop, OnlyRemoves, disk, ghost, TypeOK
  <2>2. \E j : Forgets(w, j)
    <3>1. job[w].pc = "drop"
      BY <1>a, <1>c, <1>15 DEF Drop, At, WellFormed
    <3>2. [job[w] EXCEPT !.pc = "next", !.id = None, !.doc = None] \in Job
      BY <1>a, <1>b, <3>1, PlaceNames, JobClears
    <3>3. NoNewClaim(w, [job[w] EXCEPT !.pc = "next", !.id = None, !.doc = None])
      BY <1>a, <1>d, <3>1 DEF Job, NoNewClaim, Known, ClaimPCs
    <3> QED BY <1>b, <1>15, <3>1, <3>2, <3>3 DEF Drop, Dropped, Forgets, Goto, Finish
  <2> QED BY <2>1, <2>2, ForgetStep
<1>16. ASSUME NEW w \in Workers, ListTokens(w)
      PROVE  DocsInv'
  <2>1. OnlyRemoves
    BY <1>16 DEF ListTokens, OnlyRemoves, disk, ghost
  <2>2. \E j : Forgets(w, j)
    <3>1. job[w].pc = "list" /\ job[w].op = "delete"
      BY <1>a, <1>c, <1>16 DEF ListTokens, At, WellFormed
    <3>2. [job[w] EXCEPT !.pc = "next", !.todo = {t \in Tokens : Live(t)}] \in Job
      BY <1>a, <1>b, <3>1, PlaceNames, JobLists
    <3>3. NoNewClaim(w, [job[w] EXCEPT !.pc = "next", !.todo = {t \in Tokens : Live(t)}])
      BY <1>a, <1>d, <3>1 DEF Job, NoNewClaim, Known, ClaimPCs
    <3> QED BY <1>b, <1>16, <3>1, <3>2, <3>3 DEF ListTokens, Forgets, Goto, Finish
  <2> QED BY <2>1, <2>2, ForgetStep
<1>17. ASSUME NEW w \in Workers, NextToken(w)
      PROVE  DocsInv'
  <2>1. PICK t \in job[w].todo :
          /\ DropIfExpired(t)
          /\ \/ /\ file[t] # None
                /\ Become(w, [job[w] EXCEPT !.pc = "lock", !.id = t,
                                !.doc = file[t], !.todo = job[w].todo \ {t}])
             \/ Become(w, [job[w] EXCEPT !.todo = job[w].todo \ {t}])
    BY <1>a, <1>17 DEF NextToken, AfterSkip, Live, Job
  <2>2. t \in Tokens /\ job[w].pc = "next"
    BY <1>a, <1>17, <2>1 DEF Job, NextToken, At
  <2>3. OnlyRemoves
    BY <1>17, <2>1 DEF NextToken, OnlyRemoves, DropIfExpired, TypeOK, ghost
  <2>4. [job[w] EXCEPT !.todo = job[w].todo \ {t}] \in Job
    BY <1>a DEF Job
  <2>5. NoNewClaim(w, [job[w] EXCEPT !.todo = job[w].todo \ {t}])
    BY <1>a DEF Job, NoNewClaim
  <2>6. ASSUME file[t] # None
        PROVE  Forgets(w, [job[w] EXCEPT !.pc = "lock", !.id = t,
                 !.doc = file[t], !.todo = job[w].todo \ {t}])
               \/ ~Become(w, [job[w] EXCEPT !.pc = "lock", !.id = t,
                 !.doc = file[t], !.todo = job[w].todo \ {t}])
    <3>1. file[t] \in Doc /\ grantOf[t] # None
      BY <1>c, <2>2, <2>6 DEF TypeOK
    <3>2. [job[w] EXCEPT !.pc = "lock", !.id = t, !.doc = file[t],
                         !.todo = job[w].todo \ {t}] \in Job
      <4>1. job[w].todo \ {t} \in SUBSET Tokens
        BY <1>a DEF Job
      <4> QED BY <1>a, <2>2, <3>1, <4>1, PlaceNames, JobTakes
    <3>3. NoNewClaim(w, [job[w] EXCEPT !.pc = "lock", !.id = t, !.doc = file[t],
                                       !.todo = job[w].todo \ {t}])
      BY <1>a, <1>d, <2>2, <3>1 DEF Job, NoNewClaim, Known, ClaimPCs
    <3> QED BY <3>2, <3>3 DEF Forgets
  <2> QED BY <2>1, <2>3, <2>4, <2>5, <2>6, ForgetStep DEF Forgets
<1>18. ASSUME NEW w \in Workers, Deleted(w)
      PROVE  DocsInv'
  <2>1. OnlyRemoves
    BY <1>18 DEF Deleted, OnlyRemoves, disk, ghost
  <2>2. \E j : Forgets(w, j)
    <3> QED BY <1>b, <1>18 DEF Deleted, Forgets, Goto, Finish
  <2> QED BY <2>1, <2>2, ForgetStep
<1>19. ASSUME NEW w \in Workers, ClaimRename(w)
      PROVE  DocsInv'
  <2> DEFINE d == job[w].id
  <2>1. d \in Docs /\ job[w].pc = "claim" /\ job[w].op \in {"code", "refresh"}
    BY <1>a, <1>19 DEF ClaimRename, At, WellFormed
  <2>2. CASE file[d] = None
    <3>1. Become(w, NoJob) /\ UNCHANGED <<file, claimFile>>
      BY <1>19, <2>2 DEF ClaimRename, Finish
    <3>2. OnlyRemoves
      BY <1>19, <3>1 DEF ClaimRename, OnlyRemoves, ghost
    <3> QED BY <1>b, <3>1, <3>2, ForgetStep DEF Forgets
  <2>3. CASE file[d] # None
    <3>1. /\ file' = [file EXCEPT ![d] = None]
          /\ claimFile' = [claimFile EXCEPT ![d] = file[d]]
          /\ Become(w, [job[w] EXCEPT !.pc = "read"])
          /\ UNCHANGED <<authz, grantOf, held, redeemed>>
      BY <1>19, <2>3 DEF ClaimRename, Goto, ghost
    <3>2. /\ \A v \in Workers : v # w => job'[v] = job[v]
          /\ job'[w].pc = "read" /\ job'[w].id = d /\ job'[w].next = job[w].next
      BY <1>a, <3>1 DEF Become, TypeOK, Job
    <3> HIDE DEF d
    <3>3. Fresh'
      BY <2>1, <2>3, <3>1, <3>2, <1>a, <1>d DEF DocsInv, Fresh, TypeOK, Known, d
    <3>4. \A v \in Workers, e \in Docs :
            Claims(v, e)' => \/ v = w /\ e = d
                             \/ v # w /\ e # d /\ Claims(v, e)
      <4>1. \A v \in Workers : ~Claims(v, d)
        BY <2>1, <2>3 DEF DocsInv, Exclusive
      <4> QED BY <3>2, <4>1 DEF Claims
    <3>5. Exclusive'
      BY <2>1, <3>1, <3>2, <3>4 DEF DocsInv, Exclusive, TypeOK
    <3>6. CodesOK'
      BY <2>1, <2>3, <3>1, <3>2 DEF DocsInv, CodesOK, TypeOK
    <3> QED BY <3>3, <3>5, <3>6 DEF DocsInv
  <2> QED BY <2>2, <2>3
<1>20. ASSUME NEW w \in Workers, ClaimRead(w)
      PROVE  DocsInv'
  <2> DEFINE d == job[w].id
  <2>1. d \in Docs /\ job[w].pc = "read" /\ job[w].op \in {"code", "refresh"}
    BY <1>a, <1>20 DEF ClaimRead, At, WellFormed
  <2>2. OnlyRemoves
    BY <1>20 DEF ClaimRead, OnlyRemoves, TypeOK, ghost
  <2>3. CASE Become(w, NoJob)
    BY <1>b, <2>2, <2>3, ForgetStep DEF Forgets
  <2>4. CASE claimFile[d] # None
             /\ Become(w, [job[w] EXCEPT !.pc = "check", !.doc = claimFile[d]])
    <3>1. /\ claimFile' = [claimFile EXCEPT ![d] = None]
          /\ UNCHANGED <<file, authz, grantOf, held, redeemed>>
      BY <1>20 DEF ClaimRead, ghost
    <3>2. /\ \A v \in Workers : v # w => job'[v] = job[v]
          /\ job'[w].pc = "check" /\ job'[w].id = d /\ job'[w].op = job[w].op
          /\ job'[w].next = job[w].next /\ job'[w].doc = claimFile[d]
      BY <1>a, <2>4 DEF Become, TypeOK, Job
    <3> HIDE DEF d
    <3>3. Fresh'
      <4>1. \A v \in Workers : job'[v].id = job[v].id /\ job'[v].next = job[v].next
        BY <3>2 DEF d
      <4>2. \A e \in Docs : claimFile'[e] \in {claimFile[e], None}
        BY <2>1, <3>1 DEF TypeOK
      <4> QED BY <3>1, <4>1, <4>2 DEF DocsInv, Fresh
    <3>4. \A v \in Workers, e \in Docs : Claims(v, e)' => Claims(v, e)
      BY <2>1, <3>2 DEF Claims, d
    <3>5. Claims(w, d)
      BY <2>1 DEF Claims, d
    <3>6. Exclusive'
      <4>1. \A v \in Workers, e \in Docs : Claims(v, e) /\ v # w => e # d
        BY <2>1, <3>5 DEF DocsInv, Exclusive
      <4>2. \A e \in Docs : claimFile'[e] \in {claimFile[e], None} /\ claimFile'[d] = None
        BY <2>1, <3>1 DEF TypeOK
      <4>3. ASSUME NEW v \in Workers, NEW e \in Docs, Claims(v, e)'
            PROVE  /\ file'[e] = None
                   /\ job'[v].pc # "read" => claimFile'[e] = None
                   /\ \A u \in Workers : Claims(u, e)' => u = v
        BY <3>1, <3>2, <3>4, <4>1, <4>2, <4>3 DEF DocsInv, Exclusive, Claims
      <4>4. \A e \in Docs : file'[e] # None => claimFile'[e] = None
        BY <3>1, <4>2 DEF DocsInv, Exclusive
      <4> QED BY <4>3, <4>4 DEF Exclusive
    <3>7. CodesOK'
      BY <2>1, <2>4, <3>1, <3>2 DEF DocsInv, CodesOK, TypeOK, d
    <3> QED BY <3>3, <3>6, <3>7 DEF DocsInv
  <2>5. \/ Become(w, NoJob)
        \/ /\ claimFile[d] # None
           /\ Become(w, [job[w] EXCEPT !.pc = "check", !.doc = claimFile[d]])
    BY <1>20 DEF ClaimRead, Finish
  <2> QED BY <2>3, <2>4, <2>5
<1>21. ASSUME NEW w \in Workers, IssueForCode(w)
      PROVE  DocsInv'
  <2> DEFINE k == job[w].id
             g == job[w].doc.grant
  <2>1. k \in Codes /\ job[w].pc = "issue" /\ job[w].op = "code"
    BY <1>a, <1>21 DEF IssueForCode, At, WellFormed
  <2>2. /\ g = k /\ redeemed[k] = 0 /\ authz[k] # None
        /\ Claims(w, k) /\ file[k] = None /\ claimFile[k] = None
    <3>1. g = k /\ redeemed[k] = 0
      BY <2>1 DEF DocsInv, CodesOK
    <3>2. authz[k] # None
      BY <2>1 DEF DocsInv, Fresh
    <3>3. Claims(w, k)
      BY <2>1 DEF Claims
    <3> QED BY <2>1, <3>1, <3>2, <3>3 DEF DocsInv, Exclusive
  <2> HIDE DEF k, g
  <2>3. redeemed' = [redeemed EXCEPT ![k] = 1] /\ UNCHANGED <<claimFile, authz, held>>
    <3>1. redeemed' = [redeemed EXCEPT ![k] = redeemed[k] + 1]
      BY <1>21, <2>2 DEF IssueForCode, g
    <3>2. UNCHANGED <<claimFile, authz, held>>
      BY <1>21 DEF IssueForCode
    <3> QED BY <2>2, <3>1, <3>2
  \* No other worker is at this code.
  <2>4. \A v \in Workers : v # w => ~Claims(v, k)
    BY <2>1, <2>2 DEF DocsInv, Exclusive
  <2>5. \A v \in Workers : v # w /\ job[v].id = k => job[v].pc \notin {"check", "issue"}
    BY <1>a, <2>1, <2>4, <1>d DEF Claims, WellFormed
  <2>6. CASE job[w].client \notin Refreshing
    <3>1. /\ Become(w, [job[w] EXCEPT !.pc = "respond"])
          /\ UNCHANGED <<file, grantOf>>
      BY <1>21, <2>6 DEF IssueForCode, Goto
    <3>2. /\ \A v \in Workers : v # w => job'[v] = job[v]
          /\ job'[w].pc = "respond" /\ job'[w].id = k /\ job'[w].next = job[w].next
      BY <1>a, <3>1 DEF Become, TypeOK, Job, k
    <3>3. Fresh'
      <4>1. \A v \in Workers : job'[v].id = job[v].id /\ job'[v].next = job[v].next
        BY <3>2 DEF k
      <4>2. \A c \in Codes : authz[c] = None => redeemed'[c] = 0
        BY <2>2, <2>3 DEF DocsInv, Fresh, TypeOK
      <4> QED BY <2>3, <3>1, <4>1, <4>2 DEF DocsInv, Fresh
    <3>4. Exclusive'
      <4>1. \A v \in Workers, e \in Docs : Claims(v, e)' => Claims(v, e) /\ job'[v] = job[v]
        BY <3>2 DEF Claims
      <4> QED BY <2>3, <3>1, <4>1 DEF DocsInv, Exclusive
    <3>5. CodesOK'
      BY <2>1, <2>2, <2>3, <2>5, <3>1, <3>2 DEF DocsInv, CodesOK, TypeOK
    <3> QED BY <3>3, <3>4, <3>5 DEF DocsInv
  <2>7. CASE job[w].client \in Refreshing
    <3>1. PICK t \in Tokens :
            /\ grantOf[t] = None /\ grantOf' = [grantOf EXCEPT ![t] = g]
            /\ file' = [file EXCEPT ![t] =
                 Stamp(FirstToken(job[w].doc, job[w].client), RefreshTTL)]
            /\ Become(w, [job[w] EXCEPT !.pc = "index", !.next = t])
      BY <1>21, <2>7 DEF IssueForCode, Draw, g
    <3> DEFINE f == Stamp(FirstToken(job[w].doc, job[w].client), RefreshTTL)
    <3> HIDE DEF f
    <3>2. /\ \A v \in Workers : v # w => job'[v] = job[v]
          /\ job'[w].pc = "index" /\ job'[w].id = k /\ job'[w].next = t
          /\ job'[w].op = "code"
      BY <1>a, <2>1, <3>1 DEF Become, TypeOK, Job, k
    <3>3. /\ \A e \in Docs : e # t => file'[e] = file[e]
          /\ grantOf'[t] # None
          /\ \A u \in Tokens : u # t => grantOf'[u] = grantOf[u]
          /\ claimFile[t] = None /\ t \notin held
      BY <1>d, <2>1, <2>2, <3>1 DEF DocsInv, Fresh, TypeOK
    <3>4. \A v \in Workers : ~Claims(v, t)
      BY <3>1 DEF DocsInv, Fresh, Claims
    <3>5. Fresh'
      <4>1. \A v \in Workers : job'[v].id = job[v].id /\ job'[v].next \in {job[v].next, t}
        BY <3>2 DEF k
      <4>2. \A c \in Codes : authz[c] = None => redeemed'[c] = 0
        BY <2>2, <2>3 DEF DocsInv, Fresh, TypeOK
      <4>3. \A c \in Codes : file'[c] = file[c]
        BY <3>3, <1>d
      <4> QED BY <2>3, <3>3, <4>1, <4>2, <4>3 DEF DocsInv, Fresh
    <3>6. Exclusive'
      <4>1. \A v \in Workers, e \in Docs :
              Claims(v, e)' => /\ Claims(v, e) /\ e # t
                               /\ (job[v].pc = "read") = (job'[v].pc = "read")
        BY <2>1, <3>1, <3>2, <3>4, <1>d DEF Claims, k
      <4> QED BY <2>3, <3>3, <4>1 DEF DocsInv, Exclusive
    <3>7. CodesOK'
      <4>1. \A c \in Codes : file'[c] = file[c]
        BY <3>3, <1>d
      <4> QED BY <2>1, <2>2, <2>3, <2>5, <3>2, <4>1 DEF DocsInv, CodesOK, TypeOK
    <3> QED BY <3>5, <3>6, <3>7 DEF DocsInv
  <2> QED BY <2>6, <2>7
<1>22. ASSUME NEW w \in Workers, PutNext(w)
      PROVE  DocsInv'
  <2>1. job[w].pc = "put" /\ job[w].op = "refresh" /\ job[w].id \in Tokens
        /\ job[w].doc.grant \in Codes
    BY <1>a, <1>22 DEF PutNext, At, WellFormed, Doc
  <2>2. PICK t \in Tokens :
          /\ grantOf[t] = None
          /\ grantOf' = [grantOf EXCEPT ![t] = job[w].doc.grant]
          /\ file' = [file EXCEPT ![t] =
               Stamp(Successor(job[w].doc, job[w].at), RefreshTTL)]
          /\ Become(w, [job[w] EXCEPT !.pc = "index", !.next = t])
          /\ UNCHANGED <<claimFile, authz, held, redeemed>>
    BY <1>22 DEF PutNext, Draw
  <2>3. /\ \A v \in Workers : v # w => job'[v] = job[v]
        /\ job'[w].pc = "index" /\ job'[w].id = job[w].id /\ job'[w].next = t
        /\ job'[w].op = job[w].op
    BY <1>a, <2>2 DEF Become, TypeOK, Job
  <2>4. /\ \A e \in Docs : e # t => file'[e] = file[e]
        /\ grantOf'[t] # None
        /\ \A u \in Tokens : u # t => grantOf'[u] = grantOf[u]
        /\ claimFile[t] = None /\ t \notin held
    BY <1>d, <2>1, <2>2 DEF DocsInv, Fresh, TypeOK
  <2>5. \A v \in Workers : ~Claims(v, t)
    BY <2>2 DEF DocsInv, Fresh, Claims
  <2>6. \A c \in Codes : file'[c] = file[c]
    BY <2>4, <1>d
  <2>7. Fresh'
    <3>1. \A v \in Workers : job'[v].id = job[v].id /\ job'[v].next \in {job[v].next, t}
      BY <2>3
    <3> QED BY <2>2, <2>4, <2>6, <3>1 DEF DocsInv, Fresh
  <2>8. Exclusive'
    <3>1. \A v \in Workers, e \in Docs :
            Claims(v, e)' => /\ Claims(v, e) /\ e # t
                             /\ (job[v].pc = "read") = (job'[v].pc = "read")
      BY <2>1, <2>2, <2>3, <2>5 DEF Claims
    <3> QED BY <2>2, <2>4, <3>1 DEF DocsInv, Exclusive
  <2>9. CodesOK'
    BY <1>d, <2>1, <2>2, <2>3, <2>6 DEF DocsInv, CodesOK
  <2> QED BY <2>7, <2>8, <2>9 DEF DocsInv
<1>23. ASSUME NEW w \in Workers, PutBack(w)
      PROVE  DocsInv'
  <2> DEFINE t == job[w].id
  <2>1. job[w].pc = "back" /\ job[w].op = "refresh" /\ t \in Tokens
    BY <1>a, <1>23 DEF PutBack, At, WellFormed
  <2>2. /\ file' = [file EXCEPT ![t] = Presented(w)]
        /\ Become(w, [job[w] EXCEPT !.pc = "respond"])
        /\ UNCHANGED <<claimFile, authz, grantOf, held, redeemed>>
    BY <1>23 DEF PutBack, Goto
  <2>3. /\ \A v \in Workers : v # w => job'[v] = job[v]
        /\ job'[w].pc = "respond" /\ job'[w].id = t /\ job'[w].next = job[w].next
    BY <1>a, <2>2 DEF Become, TypeOK, Job
  <2>4. Claims(w, t) /\ claimFile[t] = None /\ grantOf[t] # None
        /\ \A v \in Workers : v # w => ~Claims(v, t)
    <3>1. Claims(w, t)
      BY <2>1 DEF Claims
    <3> QED BY <2>1, <3>1 DEF DocsInv, Exclusive, Fresh
  <2> HIDE DEF t
  <2>5. \A e \in Docs : e # t => file'[e] = file[e]
    BY <2>1, <2>2 DEF TypeOK
  <2>6. \A c \in Codes : file'[c] = file[c]
    BY <2>1, <2>5, <1>d
  <2>7. Fresh'
    <3>1. \A v \in Workers : job'[v].id = job[v].id /\ job'[v].next = job[v].next
      BY <2>3 DEF t
    <3> QED BY <2>2, <2>4, <2>5, <2>6, <3>1 DEF DocsInv, Fresh
  <2>8. Exclusive'
    <3>1. \A v \in Workers, e \in Docs :
            Claims(v, e)' => Claims(v, e) /\ v # w /\ e # t /\ job'[v] = job[v]
      BY <2>3, <2>4 DEF Claims
    <3> QED BY <2>2, <2>4, <2>5, <3>1 DEF DocsInv, Exclusive
  <2>9. CodesOK'
    BY <2>2, <2>3, <2>6 DEF DocsInv, CodesOK
  <2> QED BY <2>7, <2>8, <2>9 DEF DocsInv
<1>24. ASSUME NEW k \in Codes, NEW c \in Clients, NEW a \in Accounts, NEW b \in Bindings,
             MintCode(k, c, a, b)
      PROVE  DocsInv'
  <2> DEFINE doc == [client |-> c, account |-> a, grant |-> k, bind |-> b,
                     iat |-> 0, exp |-> 0, iiat |-> 0, consumed |-> 0,
                     expiresAt |-> 0, mtime |-> 0]
  <2>1. Stamp(doc, CodeTTL).grant = k
    <3>1. doc \in Doc /\ doc.grant = k
      BY DEF Doc
    <3> HIDE DEF doc
    <3> QED BY <3>1, StampType, TimesAssumption DEF TypeOK
  <2>2. /\ file' = [file EXCEPT ![k] = Stamp(doc, CodeTTL)]
        /\ authz[k] = None
        /\ authz' = [authz EXCEPT ![k] = [client |-> c, account |-> a]]
        /\ UNCHANGED <<claimFile, job, grantOf, held, redeemed>>
    BY <1>24 DEF MintCode
  <2> HIDE DEF doc
  <2>3. authz'[k] # None /\ \A e \in Codes : e # k => authz'[e] = authz[e]
    <3>1. [client |-> c, account |-> a] # None
      BY NoneAssumption
    <3> QED BY <2>2, <3>1 DEF TypeOK
  <2>4. /\ file'[k].grant = k
        /\ \A e \in Docs : e # k => file'[e] = file[e]
    BY <2>1, <2>2 DEF TypeOK
  <2>5. /\ claimFile[k] = None /\ redeemed[k] = 0
        /\ \A w \in Workers : job[w].id # k
    BY <2>2 DEF DocsInv, Fresh
  <2>6. Fresh'
    BY <1>d, <2>2, <2>3, <2>4 DEF DocsInv, Fresh
  <2>7. Exclusive'
    BY <2>2, <2>4, <2>5 DEF DocsInv, Exclusive, Claims
  <2>8. CodesOK'
    BY <2>2, <2>4, <2>5 DEF DocsInv, CodesOK
  <2> QED BY <2>6, <2>7, <2>8 DEF DocsInv
<1>25. ASSUME NEW d \in Docs, SweepExpired(d) \/ SweepClaim(d)
      PROVE  DocsInv'
  <2>1. OnlyRemoves /\ job' = job
    BY <1>25 DEF SweepExpired, SweepClaim, OnlyRemoves, TypeOK, ghost
  <2> QED BY <2>1, RemovalStep
<1>26. ASSUME Tick \/ UNCHANGED vars PROVE DocsInv'
  <2>1. OnlyRemoves /\ job' = job
    BY <1>26 DEF Tick, OnlyRemoves, vars, disk, ghost
  <2> QED BY <2>1, RemovalStep
<1>27. ASSUME Crash PROVE DocsInv'
  <2>1. /\ job' = [w \in Workers |-> NoJob]
        /\ UNCHANGED <<file, claimFile, authz, grantOf, held, redeemed>>
    BY <1>27 DEF Crash, disk, ghost
  <2>2. \A w \in Workers : /\ job'[w].id = None /\ job'[w].next = None
                           /\ job'[w].pc = "idle"
    BY <2>1 DEF NoJob
  <2>3. Fresh'
    BY <1>d, <2>1, <2>2 DEF DocsInv, Fresh
  <2>4. \A v \in Workers, e \in Docs : ~Claims(v, e)'
    BY <2>2 DEF Claims
  <2>5. Exclusive'
    BY <2>1, <2>4 DEF DocsInv, Exclusive
  <2>6. CodesOK'
    BY <1>d, <2>1, <2>2 DEF DocsInv, CodesOK
  <2> QED BY <2>3, <2>5, <2>6 DEF DocsInv
<1>28. ASSUME NEW w \in Workers, DiskFault(w)
      PROVE  DocsInv'
  <2>1. OnlyRemoves
    BY <1>28, FaultDisk DEF OnlyRemoves, TypeOK
  <2>2. PICK j \in Job : FaultJob(w, j) /\ Become(w, j)
    BY <1>28, FaultJobs
  <2>3. NoNewClaim(w, j)
    BY <1>a, <1>b, <1>d, <2>2 DEF FaultJob, NoNewClaim, Known, ClaimPCs
  <2> QED BY <2>1, <2>2, <2>3, ForgetStep DEF Forgets
<1> QED
  BY <1>1, <1>2, <1>3, <1>4, <1>5, <1>6, <1>7, <1>8, <1>9, <1>10, <1>11, <1>12, <1>13, <1>14, <1>15, <1>16, <1>17, <1>18, <1>19, <1>20, <1>21, <1>22, <1>23, <1>24, <1>25, <1>26, <1>27, <1>28 DEF Next, Environment, Start, Work

-----------------------------------------------------------------------------
(* The theorems.                                                           *)

\* It holds of an empty store, whichever clients are registered.
LEMMA InvStart == EmptyStore /\ clients \subseteq Clients => IInv
BY TypeInit, DocsInit, IInvDocs

\* Every step of the token endpoint keeps it.
LEMMA InvStep == IInv /\ [Next]_vars => IInv'
<1> SUFFICES ASSUME IInv, [Next]_vars PROVE IInv'
  OBVIOUS
<1>1. TypeOK /\ JobOK /\ DocsInv
  BY IInvDocs
<1>2. (TypeOK /\ JobOK /\ DocsInv)'
  BY <1>1, TypeStep, DocsStep
<1> QED BY <1>2 DEF IInv, DocsInv

\* So it holds in every reachable state.
LEMMA Invariance == Spec => []IInv
<1>1. Init => IInv
  BY InvStart DEF Init
<1> QED BY <1>1, InvStep, PTL DEF Spec

\* Every variable keeps its type; in particular a worker that is at a step has
\* the document, the id and the client that step uses (no handler reads a field
\* an earlier step did not set).
THEOREM TypeCorrect == Spec => []TypeOK
<1>1. IInv => TypeOK
  BY DEF IInv
<1> QED BY <1>1, Invariance, PTL

\* However many requests, crashes and sweeps there are, an authorization code
\* yields tokens at most once (claim, grantAuthorizationCode).
THEOREM CodeIsSingleUse == Spec => []CodeRedeemedOnce
<1>1. IInv => CodeRedeemedOnce
  BY DEF IInv, CodesOK, CodeRedeemedOnce
<1> QED BY <1>1, Invariance, PTL

\* A document is at its path, in a claim file or in one handler's hands, never
\* in two of these places (claim, and the put back in grantRefreshToken).
THEOREM OneCopy == Spec => []ClaimIsExclusive
<1>1. IInv => ClaimIsExclusive
  <2>1. \A w \in Workers, d \in Docs : Holds(w, d) => Claims(w, d) /\ job[w].pc # "read"
    BY DEF Holds, Claims
  <2> QED BY <2>1 DEF IInv, Exclusive, ClaimIsExclusive
<1> QED BY <1>1, Invariance, PTL

=============================================================================
