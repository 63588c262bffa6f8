-------------------------- MODULE OneTimeDocsProofs --------------------------
(***************************************************************************)
(* The handlers implement OneTimeDocs, for every value of the constants:   *)
(* each step of BrokerTokens is one step of the abstract store, or none.   *)
(***************************************************************************)
EXTENDS BrokerTokensProofs

USE DEF Docs

\* What the refinement mapping shows of a state.
Storage == {d \in Docs : file[d] # None}
Created == {k \in Codes : authz[k] # None} \cup {t \in Tokens : grantOf[t] # None}

\* The abstract holder of a document is the worker whose claim it is under.
HolderClaims ==
    \A d \in Docs :
      /\ \A w \in Workers : Claims(w, d) => holderMap[d] = w
      /\ (\A w \in Workers : ~Claims(w, d)) => holderMap[d] = None

\* There is at most one such worker.
LEMMA OneHolder == IInv => HolderClaims
<1> SUFFICES ASSUME IInv, NEW d \in Docs
             PROVE  /\ \A w \in Workers : Claims(w, d) => holderMap[d] = w
                    /\ (\A w \in Workers : ~Claims(w, d)) => holderMap[d] = None
  BY DEF HolderClaims
<1>1. HoldersOf(d) = {w \in Workers : Claims(w, d)}
  BY DEF HoldersOf, Holds, Claims, At, IInv, JobOK, WellFormed
<1>2. holderMap[d] = IF HoldersOf(d) = {} THEN None
                     ELSE CHOOSE w \in Workers : w \in HoldersOf(d)
  BY DEF holderMap
<1>3. ASSUME NEW w \in Workers, Claims(w, d) PROVE holderMap[d] = w
  <2>1. HoldersOf(d) = {w}
    BY <1>1, <1>3 DEF IInv, Exclusive
  <2>2. (CHOOSE v \in Workers : v \in HoldersOf(d)) = w
    BY <2>1
  <2> QED BY <1>2, <2>1, <2>2
<1> QED BY <1>1, <1>2, <1>3

\* Before a step and after it.
LEMMA OneHolderNext == IInv' => HolderClaims'
BY OneHolder, PTL

\* The map of holders is a function on the documents, before a step and after it.
LEMMA HolderFunction ==
    /\ holderMap = [d \in Docs |-> holderMap[d]]
    /\ holderMap' = [d \in Docs |-> holderMap'[d]]
BY DEF holderMap

-----------------------------------------------------------------------------
(* How a step of a handler looks in the abstract store.                    *)

\* Claims are given up, or nothing that shows happens.
LEMMA AsGiveUp ==
    ASSUME IInv, IInv', UNCHANGED <<Storage, Created>>,
           \A v \in Workers, d \in Docs : Claims(v, d)' => Claims(v, d)
    PROVE  Abstract!Next
<1>1. PICK S \in SUBSET Docs : S = {d \in Docs : \A v \in Workers : ~Claims(v, d)'}
  OBVIOUS
<1>2. \A d \in Docs : holderMap'[d] = IF d \in S THEN None ELSE holderMap[d]
  BY <1>1, OneHolder, OneHolderNext DEF HolderClaims
<1>3. holderMap' = [d \in Docs |-> IF d \in S THEN None ELSE holderMap[d]]
  BY <1>2, HolderFunction
<1>4. Abstract!GiveUp(S)
  BY <1>3 DEF Abstract!GiveUp, Storage, Created
<1> QED BY <1>4 DEF Abstract!Next

\* The holders stay the same.
LEMMA SameHolders ==
    ASSUME IInv, IInv', \A v \in Workers, d \in Docs : Claims(v, d)' <=> Claims(v, d)
    PROVE  holderMap' = holderMap
<1>1. \A d \in Docs : holderMap'[d] = holderMap[d]
  BY OneHolder, OneHolderNext DEF HolderClaims
<1> QED BY <1>1 DEF holderMap

\* Documents are removed.
LEMMA AsRemove ==
    ASSUME IInv, IInv', \A d \in Docs : file'[d] = None \/ file'[d] = file[d],
           Created' = Created,
           \A v \in Workers, d \in Docs : Claims(v, d)' <=> Claims(v, d)
    PROVE  Abstract!Next
<1>1. PICK S \in SUBSET Docs : S = Storage \ Storage'
  BY DEF Storage
<1>2. Storage' = Storage \ S
  BY <1>1 DEF Storage
<1>3. Abstract!Remove(S)
  BY <1>2, SameHolders DEF Abstract!Remove, Storage, Created
<1> QED BY <1>3 DEF Abstract!Next

\* A document is put that was never there.
LEMMA AsCreate ==
    ASSUME IInv, IInv', NEW d \in Docs, d \notin Created, Created' = Created \cup {d},
           NEW doc \in Doc, file' = [file EXCEPT ![d] = doc],
           \A v \in Workers, e \in Docs : Claims(v, e)' <=> Claims(v, e)
    PROVE  Abstract!Next
<1>1. Storage' = Storage \cup {d}
  BY NoneAssumption DEF Storage, IInv, TypeOK
<1>2. Abstract!Create(d)
  BY <1>1, SameHolders DEF Abstract!Create, Storage, Created
<1> QED BY <1>2 DEF Abstract!Next

\* The rename of a document.
LEMMA AsTake ==
    ASSUME IInv, IInv', NEW w \in Workers, NEW d \in Docs, file[d] # None,
           file' = [file EXCEPT ![d] = None], Created' = Created,
           \A v \in Workers, e \in Docs :
             Claims(v, e)' <=> Claims(v, e) \/ (v = w /\ e = d)
    PROVE  Abstract!Next
<1>1. Storage' = Storage \ {d} /\ d \in Storage
  BY DEF Storage, IInv, TypeOK
<1>2. \A v \in Workers : ~Claims(v, d)
  BY DEF IInv, Exclusive
<1>3. holderMap[d] = None
  BY <1>2, OneHolder DEF HolderClaims
<1>4. holderMap'[d] = w
  BY OneHolderNext DEF HolderClaims
<1>5. ASSUME NEW e \in Docs, e # d PROVE holderMap'[e] = holderMap[e]
  <2>1. \A v \in Workers : Claims(v, e)' <=> Claims(v, e)
    BY <1>5
  <2> QED BY <2>1, OneHolder, OneHolderNext DEF HolderClaims
<1>6. holderMap' = [holderMap EXCEPT ![d] = w]
  BY <1>4, <1>5, HolderFunction
<1>7. Abstract!Take(w, d)
  BY <1>1, <1>3, <1>6 DEF Abstract!Take, Storage, Created
<1> QED BY <1>7 DEF Abstract!Next

\* The put back of a refresh token.
LEMMA AsReturn ==
    ASSUME IInv, IInv', NEW w \in Workers, NEW d \in Tokens, Claims(w, d),
           NEW doc \in Doc, file' = [file EXCEPT ![d] = doc], Created' = Created,
           \A v \in Workers, e \in Docs : Claims(v, e)' <=> Claims(v, e) /\ v # w
    PROVE  Abstract!Next
<1>0. d \in Docs /\ d \notin Codes
  BY ConstantsAssumption
<1>1. Storage' = Storage \cup {d}
  BY <1>0, NoneAssumption DEF Storage, IInv, TypeOK
<1>2. holderMap[d] = w
  BY <1>0, OneHolder DEF HolderClaims
<1>3. \A v \in Workers, e \in Docs : Claims(v, e) /\ v = w => e = d
  BY DEF Claims
<1>4. ASSUME NEW e \in Docs PROVE holderMap'[e] = IF e = d THEN None ELSE holderMap[e]
  <2>1. CASE e = d
    <3>1. \A v \in Workers : ~Claims(v, e)'
      BY <1>0, <2>1 DEF IInv, Exclusive
    <3> QED BY <2>1, <3>1, OneHolderNext DEF HolderClaims
  <2>2. CASE e # d
    <3>1. \A v \in Workers : Claims(v, e)' <=> Claims(v, e)
      BY <1>3, <2>2
    <3> QED BY <2>2, <3>1, OneHolder, OneHolderNext DEF HolderClaims
  <2> QED BY <2>1, <2>2
<1>5. holderMap' = [holderMap EXCEPT ![d] = None]
  BY <1>0, <1>4, HolderFunction
<1>6. Abstract!Return(w, d)
  BY <1>0, <1>1, <1>2, <1>5 DEF Abstract!Return, Storage, Created
<1> QED BY <1>0, <1>6 DEF Abstract!Next

-----------------------------------------------------------------------------
(* How a step of one worker, which leaves it with job j, looks there.      *)

\* The worker keeps its claim or gives it up.
LEMMA WorkerForgets ==
    ASSUME IInv, IInv', NEW w \in Workers, NEW j, Become(w, j),
           Claiming(j) => Claiming(job[w]) /\ j.id = job[w].id,
           UNCHANGED <<file, authz, grantOf>>
    PROVE  Abstract!Next
<1>1. UNCHANGED <<Storage, Created>>
  BY DEF Storage, Created
<1>2. \A v \in Workers, d \in Docs : Claims(v, d)' => Claims(v, d)
  BY ClaimsAfter DEF IInv, Claims, Claiming, ClaimPCs
<1> QED BY <1>1, <1>2, AsGiveUp

\* A worker with no claim removes documents.
LEMMA WorkerRemoves ==
    ASSUME IInv, IInv', NEW w \in Workers, NEW j, Become(w, j),
           ~Claiming(job[w]), ~Claiming(j),
           \A d \in Docs : file'[d] = None \/ file'[d] = file[d],
           UNCHANGED <<authz, grantOf>>
    PROVE  Abstract!Next
<1>1. Created' = Created
  BY DEF Created
<1>2. \A v \in Workers, d \in Docs : Claims(v, d)' <=> Claims(v, d)
  BY ClaimsAfter DEF IInv, Claims, Claiming, ClaimPCs
<1> QED BY <1>1, <1>2, AsRemove

\* A worker with a claim keeps it, and puts a token whose id it has drawn.
LEMMA WorkerPuts ==
    ASSUME IInv, IInv', NEW w \in Workers, NEW j, Become(w, j),
           Claiming(job[w]), Claiming(j), j.id = job[w].id,
           NEW t \in Tokens, NEW g \in Codes, Draw(t, g),
           NEW doc \in Doc, file' = [file EXCEPT ![t] = doc], authz' = authz
    PROVE  Abstract!Next
<1>1. t \in Docs /\ t \notin Codes /\ g # None
  BY ConstantsAssumption
<1>2. t \notin Created
  BY <1>1 DEF Created, Draw
<1>3. Created' = Created \cup {t}
  BY <1>1 DEF Created, Draw, IInv, TypeOK
<1>4. \A v \in Workers, d \in Docs : Claims(v, d)' <=> Claims(v, d)
  BY ClaimsAfter DEF IInv, Claims, Claiming, ClaimPCs
<1> QED BY <1>1, <1>2, <1>3, <1>4, AsCreate

-----------------------------------------------------------------------------
(* The step.                                                               *)

\* Each step of a handler, of the disk, the sweeper or the process is a step of
\* the abstract store: the rename takes, the put of an id that was just drawn
\* creates, the put of the presented token returns.
LEMMA RefineStep ==
    IInv /\ IInv' /\ [Next]_vars => [Abstract!Next]_Abstract!vars
<1> SUFFICES ASSUME IInv, IInv', [Next]_vars PROVE Abstract!Next
  OBVIOUS
<1>a. ASSUME NEW w \in Workers
      PROVE  job[w] \in Job /\ WellFormed(job[w])
  BY DEF IInv, TypeOK, JobOK
<1>b. ~Claiming(NoJob)
  BY DEF Claiming, ClaimPCs, NoJob
<1>1. ASSUME NEW w \in Workers, NEW c \in Clients, NEW k \in Codes, NEW b \in Bindings,
             StartCode(w, c, k, b)
      PROVE  Abstract!Next
  <2> DEFINE j == [NoJob EXCEPT !.pc = "claim", !.op = "code", !.client = c,
                                !.id = k, !.bind = b]
  <2>1. ~Claiming(j)
    BY DEF Claiming, ClaimPCs, NoJob
  <2>2. Become(w, j) /\ UNCHANGED <<file, authz, grantOf>>
    BY <1>1 DEF StartCode, disk, ghost
  <2> HIDE DEF j
  <2> QED BY <2>1, <2>2, WorkerForgets
<1>2. ASSUME NEW w \in Workers, NEW c \in Clients, NEW t \in Tokens,
             StartRefresh(w, c, t) \/ StartRevoke(w, c, t)
      PROVE  Abstract!Next
  <2> DEFINE j1 == [NoJob EXCEPT !.pc = "claim", !.op = "refresh", !.client = c, !.id = t]
             j2 == [NoJob EXCEPT !.pc = "get", !.op = "revoke", !.client = c, !.id = t]
  <2>1. Become(w, j1) \/ Become(w, j2)
    BY <1>2 DEF StartRefresh, StartRevoke
  <2>3. ~Claiming(j1) /\ ~Claiming(j2)
    BY DEF Claiming, ClaimPCs, NoJob
  <2>2. UNCHANGED <<file, authz, grantOf>>
    BY <1>2 DEF StartRefresh, StartRevoke, disk, ghost
  <2> HIDE DEF j1, j2
  <2> QED BY <2>1, <2>2, <2>3, WorkerForgets
<1>3. ASSUME NEW w \in Workers, NEW c \in Clients, StartDelete(w, c)
      PROVE  Abstract!Next
  <2> DEFINE j == [NoJob EXCEPT !.pc = "list", !.op = "delete", !.client = c]
  <2>1. Become(w, j) /\ ~Claiming(j)
    BY <1>3 DEF StartDelete, Claiming, ClaimPCs, NoJob
  <2>2. UNCHANGED <<file, authz, grantOf>>
    BY <1>3 DEF StartDelete, ghost
  <2> HIDE DEF j
  <2> QED BY <2>1, <2>2, WorkerForgets
<1>4. ASSUME NEW w \in Workers, ClaimRename(w) PROVE Abstract!Next
  <2> DEFINE d == job[w].id
  <2>1. d \in Docs /\ job[w].pc = "claim" /\ job[w].op \in {"code", "refresh"}
    BY <1>a, <1>4 DEF ClaimRename, At, WellFormed
  <2>2. UNCHANGED <<authz, grantOf>>
    BY <1>4 DEF ClaimRename, ghost
  <2>3. CASE file[d] = None
    BY <1>b, <1>4, <2>2, <2>3, WorkerForgets DEF ClaimRename, Finish
  <2>4. CASE file[d] # None
    <3>1. /\ file' = [file EXCEPT ![d] = None]
          /\ Become(w, [job[w] EXCEPT !.pc = "read"])
      BY <1>4, <2>4 DEF ClaimRename, Goto
    <3>2. /\ Claiming([job[w] EXCEPT !.pc = "read"])
          /\ [job[w] EXCEPT !.pc = "read"].id = d
          /\ ~Claiming(job[w])
      BY <1>a, <2>1 DEF Claiming, ClaimPCs, Job
    <3>3. \A v \in Workers, e \in Docs :
            Claims(v, e)' <=> Claims(v, e) \/ (v = w /\ e = d)
      <4>1. \A e \in Docs : ~Claims(w, e)
        BY <3>2 DEF Claims, Claiming, ClaimPCs
      <4>2. PICK j : j = [job[w] EXCEPT !.pc = "read"]
        OBVIOUS
      <4>3. Claiming(j) /\ j.id = d /\ Become(w, j) /\ TypeOK
        BY <3>1, <3>2, <4>2 DEF IInv
      <4>4. \A v \in Workers, e \in Docs :
              Claims(v, e)' <=> IF v = w THEN j.id = e /\ Claiming(j) ELSE Claims(v, e)
        BY <4>3, ClaimsAfter
      <4> QED BY <4>1, <4>3, <4>4
    <3>4. Created' = Created
      BY <2>2 DEF Created
    <3> QED BY <2>1, <2>4, <3>1, <3>3, <3>4, AsTake
  <2> QED BY <2>3, <2>4
<1>5. ASSUME NEW w \in Workers, ClaimRead(w) PROVE Abstract!Next
  <2>1. UNCHANGED <<file, authz, grantOf>>
    BY <1>5 DEF ClaimRead, ghost
  <2>2. Claiming(job[w])
    BY <1>a, <1>5 DEF ClaimRead, At, WellFormed, Claiming, ClaimPCs
  <2>3. PICK j : Become(w, j) /\ (Claiming(j) => j.id = job[w].id)
    <3>1. \/ Become(w, NoJob)
          \/ Become(w, [job[w] EXCEPT !.pc = "check", !.doc = claimFile[job[w].id]])
      BY <1>5 DEF ClaimRead, Finish
    <3>2. [job[w] EXCEPT !.pc = "check", !.doc = claimFile[job[w].id]].id = job[w].id
      BY <1>a, JobPlace
    <3> QED BY <1>b, <3>1, <3>2
  <2> QED BY <2>1, <2>2, <2>3, WorkerForgets
<1>6. ASSUME NEW w \in Workers,
             CheckCode(w) \/ IssueForRefresh(w)
      PROVE  Abstract!Next
  <2>1. UNCHANGED <<file, authz, grantOf>>
    BY <1>6 DEF CheckCode, IssueForRefresh, disk, ghost
  <2>2. Claiming(job[w])
    BY <1>a, <1>6 DEF CheckCode, IssueForRefresh, At, Claiming, ClaimPCs
  <2>3. PICK j : Become(w, j) /\ (Claiming(j) => j.id = job[w].id)
    BY <1>a, <1>b, <1>6 DEF CheckCode, IssueForRefresh, Goto, Finish, Job
  <2> QED BY <2>1, <2>2, <2>3, WorkerForgets
<1>7. ASSUME NEW w \in Workers, CheckRefresh(w) PROVE Abstract!Next
  <2>1. UNCHANGED <<file, authz, grantOf>>
    BY <1>7 DEF CheckRefresh, disk, ghost
  <2>2. Claiming(job[w])
    BY <1>a, <1>7 DEF CheckRefresh, At, Claiming, ClaimPCs
  <2>3. PICK j : Become(w, j) /\ (Claiming(j) => j.id = job[w].id)
    <3>1. ASSUME NEW b
          PROVE  [job[w] EXCEPT !.pc = "issue", !.at = now, !.rotate = b].id = job[w].id
      BY <1>a DEF Job
    <3>2. [job[w] EXCEPT !.pc = "lock"].id = job[w].id
      BY <1>a DEF Job
    <3>3. \/ Become(w, NoJob)
          \/ Become(w, [job[w] EXCEPT !.pc = "lock"])
          \/ \E b : Become(w, [job[w] EXCEPT !.pc = "issue", !.at = now, !.rotate = b])
      BY <1>7 DEF CheckRefresh, Goto, Finish
    <3> QED BY <1>b, <3>1, <3>2, <3>3
  <2> QED BY <2>1, <2>2, <2>3, WorkerForgets
<1>8. ASSUME NEW w \in Workers, IssueForCode(w) PROVE Abstract!Next
  <2>1. /\ job[w].pc = "issue" /\ job[w].op = "code" /\ Claiming(job[w])
        /\ job[w].doc \in Doc /\ job[w].doc.grant \in Codes /\ job[w].client \in Clients
    BY <1>a, <1>8 DEF IssueForCode, At, WellFormed, Claiming, ClaimPCs, Doc
  <2>2. authz' = authz
    BY <1>8 DEF IssueForCode
  <2>3. CASE job[w].client \notin Refreshing
    <3>1. Become(w, [job[w] EXCEPT !.pc = "respond"]) /\ UNCHANGED <<file, grantOf>>
      BY <1>8, <2>3 DEF IssueForCode, Goto
    <3>2. ~Claiming([job[w] EXCEPT !.pc = "respond"])
      BY <1>a DEF Claiming, ClaimPCs, Job
    <3> QED BY <2>2, <3>1, <3>2, WorkerForgets
  <2>4. CASE job[w].client \in Refreshing
    <3>1. PICK t \in Tokens :
            /\ Draw(t, job[w].doc.grant)
            /\ file' = [file EXCEPT ![t] =
                 Stamp(FirstToken(job[w].doc, job[w].client), RefreshTTL)]
            /\ Become(w, [job[w] EXCEPT !.pc = "index", !.next = t])
      BY <1>8, <2>4 DEF IssueForCode
    <3>2. /\ Claiming([job[w] EXCEPT !.pc = "index", !.next = t])
          /\ [job[w] EXCEPT !.pc = "index", !.next = t].id = job[w].id
      BY <1>a, <2>1 DEF Claiming, ClaimPCs, Job
    <3>3. Stamp(FirstToken(job[w].doc, job[w].client), RefreshTTL) \in Doc
      BY <2>1, FirstTokenType, StampType, TimesAssumption DEF IInv, TypeOK
    <3> QED BY <2>1, <2>2, <3>1, <3>2, <3>3, WorkerPuts
  <2> QED BY <2>3, <2>4
<1>9. ASSUME NEW w \in Workers, PutNext(w) PROVE Abstract!Next
  <2>1. /\ job[w].pc = "put" /\ job[w].op = "refresh" /\ Claiming(job[w])
        /\ job[w].doc \in Doc /\ job[w].doc.grant \in Codes /\ job[w].at \in Nat
    BY <1>a, <1>9 DEF PutNext, At, WellFormed, Claiming, ClaimPCs, Doc, Job
  <2>2. authz' = authz
    BY <1>9 DEF PutNext
  <2>3. PICK t \in Tokens :
          /\ Draw(t, job[w].doc.grant)
          /\ file' = [file EXCEPT ![t] =
               Stamp(Successor(job[w].doc, job[w].at), RefreshTTL)]
          /\ Become(w, [job[w] EXCEPT !.pc = "index", !.next = t])
    BY <1>9 DEF PutNext
  <2>4. /\ Claiming([job[w] EXCEPT !.pc = "index", !.next = t])
        /\ [job[w] EXCEPT !.pc = "index", !.next = t].id = job[w].id
    BY <1>a, <2>1 DEF Claiming, ClaimPCs, Job
  <2>5. Stamp(Successor(job[w].doc, job[w].at), RefreshTTL) \in Doc
    BY <2>1, SuccessorType, StampType, TimesAssumption DEF IInv, TypeOK
  <2> QED BY <2>1, <2>2, <2>3, <2>4, <2>5, WorkerPuts
<1>10. ASSUME NEW w \in Workers, PutBack(w) PROVE Abstract!Next
  <2> DEFINE t == job[w].id
  <2>1. t \in Tokens /\ Claims(w, t) /\ job[w].doc \in Doc
    BY <1>a, <1>10 DEF PutBack, At, WellFormed, Claims
  <2>2. /\ file' = [file EXCEPT ![t] = Presented(w)]
        /\ Become(w, [job[w] EXCEPT !.pc = "respond"])
        /\ UNCHANGED <<authz, grantOf>>
    BY <1>10 DEF PutBack, Goto
  <2>3. Presented(w) \in Doc
    BY <1>a, <2>1, PresentedType DEF IInv, TypeOK
  <2>4. ~Claiming([job[w] EXCEPT !.pc = "respond"])
    BY <1>a DEF Claiming, ClaimPCs, Job
  <2>5. \A v \in Workers, e \in Docs : Claims(v, e)' <=> Claims(v, e) /\ v # w
    BY <2>2, <2>4, ClaimsAfter DEF IInv
  <2>6. Created' = Created
    BY <2>2 DEF Created
  <2> QED BY <2>1, <2>2, <2>3, <2>5, <2>6, AsReturn
<1>11. ASSUME NEW w \in Workers, GrantRead(w) PROVE Abstract!Next
  <2>1. UNCHANGED <<file, authz, grantOf>>
    BY <1>11 DEF GrantRead, disk, ghost
  <2>2. Claiming(job[w])
    BY <1>a, <1>11 DEF GrantRead, At, WellFormed, Claiming, ClaimPCs
  <2>3. PICK j : Become(w, j) /\ j.id = job[w].id
    <3>1. Become(w, [job[w] EXCEPT !.pc = "indexing", !.refs = grantRefs(job[w].doc.grant)])
      BY <1>11 DEF GrantRead
    <3>2. [job[w] EXCEPT !.pc = "indexing", !.refs = grantRefs(job[w].doc.grant)].id = job[w].id
      BY <1>a, JobPlace
    <3> QED BY <3>1, <3>2
  <2> QED BY <2>1, <2>2, <2>3, WorkerForgets
<1>12. ASSUME NEW w \in Workers, GrantWrite(w) PROVE Abstract!Next
  <2>1. UNCHANGED <<file, authz, grantOf>>
    BY <1>12 DEF GrantWrite, ghost
  <2>2. Claiming(job[w])
    BY <1>a, <1>12 DEF GrantWrite, At, WellFormed, Claiming, ClaimPCs
  <2>3. PICK j : Become(w, j) /\ j.id = job[w].id
    <3>1. Become(w, Indexed(w)) /\ Indexed(w).id = job[w].id
      BY <1>a, <1>12, JobPlace DEF GrantWrite, Indexed
    <3> QED BY <3>1
  <2> QED BY <2>1, <2>2, <2>3, WorkerForgets
<1>13. ASSUME NEW w \in Workers, Respond(w) \/ Deleted(w) PROVE Abstract!Next
  <2>1. UNCHANGED <<file, authz, grantOf>> /\ Become(w, NoJob)
    BY <1>13 DEF Respond, Deleted, disk, Finish
  <2> QED BY <1>b, <2>1, WorkerForgets
<1>14. ASSUME NEW w \in Workers, RevokeLock(w) PROVE Abstract!Next
  <2>1. UNCHANGED <<file, authz, grantOf>>
    BY <1>14 DEF RevokeLock, disk, ghost
  <2>2. PICK j : Become(w, j) /\ ~Claiming(j)
    <3>1. Become(w, [job[w] EXCEPT !.pc = "destroying", !.refs = grantRefs(job[w].doc.grant)])
      BY <1>14 DEF RevokeLock
    <3>2. ~Claiming([job[w] EXCEPT !.pc = "destroying", !.refs = grantRefs(job[w].doc.grant)])
      BY <1>a, JobPlace DEF Claiming, ClaimPCs
    <3> QED BY <3>1, <3>2
  <2> QED BY <2>1, <2>2, WorkerForgets
<1>15. ASSUME NEW w \in Workers, RevokeUnlock(w) PROVE Abstract!Next
  <2>1. UNCHANGED <<file, authz, grantOf>>
    BY <1>15 DEF RevokeUnlock
  <2>2. PICK j : Become(w, j) /\ ~Claiming(j)
    BY <1>a, <1>b, <1>15 DEF RevokeUnlock, Revoked, Goto, Finish, Claiming, ClaimPCs, Job
  <2> QED BY <2>1, <2>2, WorkerForgets
<1>16. ASSUME NEW w \in Workers, RevokeGet(w) PROVE Abstract!Next
  <2>1. UNCHANGED <<authz, grantOf>> /\ ~Claiming(job[w])
    BY <1>16 DEF RevokeGet, ghost, At, Claiming, ClaimPCs
  <2>2. \A d \in Docs : file'[d] = None \/ file'[d] = file[d]
    BY <1>16 DEF RevokeGet, DropIfExpired, IInv, TypeOK
  <2>3. PICK j : Become(w, j) /\ ~Claiming(j)
    <3>1. \/ Become(w, NoJob)
          \/ Become(w, [job[w] EXCEPT !.pc = "lock", !.doc = file[job[w].id]])
      BY <1>16 DEF RevokeGet, Finish
    <3>2. ~Claiming([job[w] EXCEPT !.pc = "lock", !.doc = file[job[w].id]])
      BY <1>a, JobPlace DEF Claiming, ClaimPCs
    <3> QED BY <1>b, <3>1, <3>2
  <2> QED BY <2>1, <2>2, <2>3, WorkerRemoves
<1>17. ASSUME NEW w \in Workers, DestroyRef(w) PROVE Abstract!Next
  <2>1. PICK t \in job[w].refs :
          /\ file' = [file EXCEPT ![t] = None]
          /\ Become(w, [job[w] EXCEPT !.refs = job[w].refs \ {t}])
    BY <1>a, <1>17 DEF DestroyRef, Job
  <2>2. UNCHANGED <<authz, grantOf>> /\ ~Claiming(job[w])
    BY <1>17 DEF DestroyRef, ghost, At, Claiming, ClaimPCs
  <2>3. \A d \in Docs : file'[d] = None \/ file'[d] = file[d]
    BY <2>1 DEF IInv, TypeOK
  <2>4. ~Claiming([job[w] EXCEPT !.refs = job[w].refs \ {t}])
    BY <1>a, <2>2 DEF Claiming, Job
  <2> QED BY <2>1, <2>2, <2>3, <2>4, WorkerRemoves
<1>18. ASSUME NEW w \in Workers, Drop(w) PROVE Abstract!Next
  <2>1. UNCHANGED <<authz, grantOf>> /\ ~Claiming(job[w])
    BY <1>18 DEF Drop, At, Claiming, ClaimPCs
  <2>2. \A d \in Docs : file'[d] = None \/ file'[d] = file[d]
    BY <1>18 DEF Drop, IInv, TypeOK
  <2>3. PICK j : Become(w, j) /\ ~Claiming(j)
    <3>1. \/ Become(w, NoJob)
          \/ Become(w, [job[w] EXCEPT !.pc = "next", !.id = None, !.doc = None])
      BY <1>18 DEF Drop, Dropped, Finish
    <3>2. ~Claiming([job[w] EXCEPT !.pc = "next", !.id = None, !.doc = None])
      BY <1>a, JobPlace DEF Claiming, ClaimPCs
    <3> QED BY <1>b, <3>1, <3>2
  <2> QED BY <2>1, <2>2, <2>3, WorkerRemoves
<1>19. ASSUME NEW w \in Workers, ListTokens(w) PROVE Abstract!Next
  <2>1. UNCHANGED <<authz, grantOf>> /\ ~Claiming(job[w])
    BY <1>19 DEF ListTokens, ghost, At, Claiming, ClaimPCs
  <2>2. \A d \in Docs : file'[d] = None \/ file'[d] = file[d]
    BY <1>19 DEF ListTokens
  <2>3. PICK j : Become(w, j) /\ ~Claiming(j)
    <3>1. Become(w, [job[w] EXCEPT !.pc = "next", !.todo = {t \in Tokens : Live(t)}])
      BY <1>19 DEF ListTokens
    <3>2. ~Claiming([job[w] EXCEPT !.pc = "next", !.todo = {t \in Tokens : Live(t)}])
      BY <1>a, JobPlace DEF Claiming, ClaimPCs
    <3> QED BY <3>1, <3>2
  <2> QED BY <2>1, <2>2, <2>3, WorkerRemoves
<1>20. ASSUME NEW w \in Workers, NextToken(w) PROVE Abstract!Next
  <2>1. UNCHANGED <<authz, grantOf>> /\ job[w].pc = "next" /\ ~Claiming(job[w])
    BY <1>20 DEF NextToken, ghost, At, Claiming, ClaimPCs
  <2>2. PICK t \in job[w].todo :
          /\ DropIfExpired(t)
          /\ \/ Become(w, [job[w] EXCEPT !.pc = "lock", !.id = t,
                                !.doc = file[t], !.todo = job[w].todo \ {t}])
             \/ Become(w, [job[w] EXCEPT !.todo = job[w].todo \ {t}])
    BY <1>a, <1>20 DEF NextToken, AfterSkip, Job
  <2>3. \A d \in Docs : file'[d] = None \/ file'[d] = file[d]
    BY <2>2 DEF DropIfExpired, IInv, TypeOK
  <2>4. /\ ~Claiming([job[w] EXCEPT !.pc = "lock", !.id = t, !.doc = file[t],
                                    !.todo = job[w].todo \ {t}])
        /\ ~Claiming([job[w] EXCEPT !.todo = job[w].todo \ {t}])
    BY <1>a, <2>1 DEF Claiming, ClaimPCs, Job
  <2> QED BY <2>1, <2>2, <2>3, <2>4, WorkerRemoves
<1>21. ASSUME NEW w \in Workers, DiskFault(w) PROVE Abstract!Next
  <2>1. UNCHANGED <<file, authz, grantOf>>
    BY <1>21, FaultDisk DEF IInv
  <2>2. PICK j \in Job : FaultJob(w, j) /\ Become(w, j)
    BY <1>21, FaultJobs DEF IInv
  <2>3. Claiming(j) => Claiming(job[w]) /\ j.id = job[w].id
    BY <1>a, <1>b, <2>2 DEF FaultJob, Claiming, ClaimPCs
  <2> QED BY <2>1, <2>2, <2>3, WorkerForgets
<1>22. ASSUME NEW k \in Codes, NEW c \in Clients, NEW a \in Accounts, NEW b \in Bindings,
             MintCode(k, c, a, b)
      PROVE  Abstract!Next
  <2> DEFINE doc == [client |-> c, account |-> a, grant |-> k, bind |-> b,
                     iat |-> 0, exp |-> 0, iiat |-> 0, consumed |-> 0,
                     expiresAt |-> 0, mtime |-> 0]
  <2>1. Stamp(doc, CodeTTL) \in Doc
    <3>1. doc \in Doc
      BY DEF Doc
    <3> HIDE DEF doc
    <3> QED BY <3>1, StampType, TimesAssumption DEF IInv, TypeOK
  <2>2. /\ authz[k] = None /\ authz' = [authz EXCEPT ![k] = [client |-> c, account |-> a]]
        /\ file' = [file EXCEPT ![k] = Stamp(doc, CodeTTL)]
        /\ UNCHANGED <<job, grantOf>>
    BY <1>22 DEF MintCode
  <2> HIDE DEF doc
  <2>3. k \in Docs /\ k \notin Tokens
    BY ConstantsAssumption
  <2>4. k \notin Created
    BY <2>2, <2>3 DEF Created
  <2>5. Created' = Created \cup {k}
    <3>1. [client |-> c, account |-> a] # None
      BY NoneAssumption
    <3> QED BY <2>2, <3>1 DEF Created, IInv, TypeOK
  <2>6. \A v \in Workers, d \in Docs : Claims(v, d)' <=> Claims(v, d)
    BY <2>2 DEF Claims
  <2> QED BY <2>1, <2>2, <2>3, <2>4, <2>5, <2>6, AsCreate
<1>23. ASSUME NEW d \in Docs, SweepExpired(d) PROVE Abstract!Next
  <2>1. UNCHANGED <<job, authz, grantOf>> /\ file' = [file EXCEPT ![d] = None]
    BY <1>23 DEF SweepExpired, ghost
  <2>2. \A e \in Docs : file'[e] = None \/ file'[e] = file[e]
    BY <2>1 DEF IInv, TypeOK
  <2>3. Created' = Created
    BY <2>1 DEF Created
  <2>4. \A v \in Workers, e \in Docs : Claims(v, e)' <=> Claims(v, e)
    BY <2>1 DEF Claims
  <2> QED BY <2>2, <2>3, <2>4, AsRemove
<1>24. ASSUME (\E d \in Docs : SweepClaim(d)) \/ Tick \/ Crash \/ UNCHANGED vars
      PROVE  Abstract!Next
  <2>1. /\ UNCHANGED <<file, authz, grantOf>>
        /\ job' = job \/ job' = [w \in Workers |-> NoJob]
    BY <1>24 DEF SweepClaim, Tick, Crash, vars, disk, ghost
  <2>2. UNCHANGED <<Storage, Created>>
    BY <2>1 DEF Storage, Created
  <2>3. \A v \in Workers, d \in Docs : Claims(v, d)' => Claims(v, d)
    BY <2>1 DEF Claims, NoJob
  <2> QED BY <2>2, <2>3, AsGiveUp
<1> QED
  BY <1>1, <1>2, <1>3, <1>4, <1>5, <1>6, <1>7, <1>8, <1>9, <1>10, <1>11, <1>12, <1>13, <1>14, <1>15, <1>16, <1>17, <1>18, <1>19, <1>20, <1>21, <1>22, <1>23, <1>24
     DEF Next, Environment, Start, Work

-----------------------------------------------------------------------------
(* The theorem.                                                            *)

\* The empty store is the abstract one.
LEMMA RefineInit == Init => Abstract!Init
<1> SUFFICES ASSUME Init PROVE Abstract!Init
  OBVIOUS
<1>1. IInv
  BY InvStart DEF Init
<1>2. Storage = {} /\ Created = {}
  BY DEF Init, EmptyStore, Storage, Created
<1>3. \A w \in Workers, d \in Docs : ~Claims(w, d)
  BY DEF Init, EmptyStore, Claims, NoJob
<1>4. holderMap = [d \in Docs |-> None]
  BY <1>1, <1>3, OneHolder, HolderFunction DEF HolderClaims
<1> QED BY <1>2, <1>4 DEF Abstract!Init, Storage, Created

\* Whatever the requests, crashes, disk errors and sweeps, the files behave like
\* the abstract store: an id is stored as new once, a code that was claimed never
\* comes back, and a refresh token comes back only from the one handler whose
\* rename took it (claim, put, destroy, sweep).
THEOREM HandlersImplementStore == Spec => ImplementsOneTimeDocs
<1>1. IInv /\ IInv' /\ [Next]_vars => [Abstract!Next]_Abstract!vars
  BY RefineStep
<1> QED BY <1>1, RefineInit, Invariance, PTL DEF Spec, ImplementsOneTimeDocs, Abstract!Spec

=============================================================================
