---------------------------- MODULE BrokerTokens ----------------------------
(***************************************************************************)
(* The broker's token lifecycle: internal/broker/token.go (code and        *)
(* refresh grants, revocation), the file store they share (store.go) and   *)
(* the admin's client deletion (admin.go).                                 *)
(*                                                                         *)
(* Each HTTP request runs in a goroutine of its own, a Worker here; the    *)
(* only thing workers share is the directory of documents and grantMu.     *)
(* A step is one access to that directory (an open, a rename, a remove) or *)
(* one read of the clock, so every interleaving of two handlers that the   *)
(* file system can tell apart is a behaviour.                              *)
(*                                                                         *)
(* A code's grant id is minted with the code and is never shared, so a     *)
(* grant is named by its code.  Codes and refresh tokens are documents of  *)
(* one record type; a field the other kind lacks is 0 or None.             *)
(***************************************************************************)
EXTENDS Naturals, FiniteSets

CONSTANTS
    Clients,      \* OAuth clients, all registered at the start
    Public,       \* those with token_endpoint_auth_method "none"
    Refreshing,   \* those wantsRefreshToken says yes to
    Accounts,     \* subjects a human can authorize with
    Bindings,     \* a redirect_uri and PKCE challenge, taken as one value
    Codes,        \* authorization codes, and so grants
    Tokens,       \* refresh token ids
    Workers,      \* request goroutines
    None,         \* absence: no file, no owner, field not set
    CodeTTL, RefreshTTL, AbsoluteMax, Grace,
    ClaimAge,     \* the sweeper's age for an abandoned claim file (1h)
    MaxTime,      \* bound on the clock
    MaxCrashes,   \* a restart happens only after fewer failures
    MaxFaults     \* a disk error happens only after fewer failures

Docs == Codes \cup Tokens

ASSUME ConstantsAssumption ==
    /\ Public \subseteq Clients /\ Refreshing \subseteq Clients
    /\ Codes \cap Tokens = {} /\ Codes \cap Clients = {}
    /\ None \notin Clients \cup Docs \cup Workers
    /\ IsFiniteSet(Tokens) /\ IsFiniteSet(Workers)

ASSUME TimesAssumption ==
    /\ {CodeTTL, RefreshTTL, AbsoluteMax} \subseteq Nat \ {0}
    /\ {Grace, ClaimAge, MaxTime, MaxCrashes, MaxFaults} \subseteq Nat

VARIABLES
    now,        \* the server's clock
    clients,    \* clients with a document on disk
    file,       \* document at its own path, or None
    claimFile,  \* document at its .claimed path, or None
    index,      \* _grant/<id>.json: the tokens listed under a grant
    grantMu,    \* the worker holding grantMu, or None
    job,        \* what each worker is doing
    failures,   \* how often the process has died or the disk has failed
    \* History.
    authz,      \* what the human authorized when the code was minted
    grantOf,    \* the grant a token id was drawn for; None = not drawn yet
    held,       \* tokens that have reached a client in a response
    redeemed,   \* how many times a code was exchanged for tokens
    rotatedAt,  \* when a token was first rotated away; 0 = not yet
    answered    \* grants and clients whose revocation has been answered

disk  == <<clients, file, claimFile, index>>
ghost == <<authz, grantOf, held, redeemed, rotatedAt, answered>>
vars  == <<now, disk, grantMu, job, failures, ghost>>

Doc == [client: Clients, account: Accounts, grant: Codes,
        bind: Bindings \cup {None}, iat: Nat, exp: Nat, iiat: Nat,
        consumed: Nat, expiresAt: Nat, mtime: Nat]

Ops == {"code", "refresh", "revoke", "delete"}
PCs == {"idle", "claim", "read", "check", "issue", "put", "index", "indexing",
        "back", "respond", "get", "lock", "destroying", "drop", "list", "next"}

Job == [pc: PCs, op: Ops \cup {None}, client: Clients \cup {None},
        id: Docs \cup {None}, bind: Bindings \cup {None},
        doc: Doc \cup {None}, at: Nat, rotate: BOOLEAN,
        next: Tokens \cup {None}, refs: SUBSET Tokens, todo: SUBSET Tokens]

ASSUME NoneAssumption ==
    None \notin Ops /\ None \notin Doc /\
    None \notin [client: Clients, account: Accounts]

NoJob == [pc |-> "idle", op |-> None, client |-> None, id |-> None,
          bind |-> None, doc |-> None, at |-> 0, rotate |-> FALSE,
          next |-> None, refs |-> {}, todo |-> {}]

TypeOK ==
    /\ now \in Nat
    /\ clients \subseteq Clients
    /\ file \in [Docs -> Doc \cup {None}]
    /\ claimFile \in [Docs -> Doc \cup {None}]
    /\ index \in [Codes -> SUBSET Tokens]
    /\ grantMu \in Workers \cup {None}
    /\ job \in [Workers -> Job]
    /\ failures \in Nat
    /\ authz \in [Codes -> [client: Clients, account: Accounts] \cup {None}]
    /\ grantOf \in [Tokens -> Codes \cup {None}]
    /\ held \subseteq Tokens
    /\ redeemed \in [Codes -> Nat]
    /\ rotatedAt \in [Tokens -> Nat]
    /\ answered \subseteq Codes \cup Clients

EmptyStore ==
    /\ now = 1
    /\ file = [d \in Docs |-> None]
    /\ claimFile = [d \in Docs |-> None]
    /\ index = [k \in Codes |-> {}]
    /\ grantMu = None
    /\ job = [w \in Workers |-> NoJob]
    /\ failures = 0
    /\ authz = [k \in Codes |-> None]
    /\ grantOf = [t \in Tokens |-> None]
    /\ held = {}
    /\ redeemed = [k \in Codes |-> 0]
    /\ rotatedAt = [t \in Tokens |-> 0]
    /\ answered = {}

\* Registration is the subject of Authorization: here all clients have theirs.
Init == clients = Clients /\ EmptyStore

-----------------------------------------------------------------------------
(* Helpers.                                                                *)

At(w, pc)   == job[w].pc = pc
Become(w, j) == job' = [job EXCEPT ![w] = j]
Goto(w, pc) == Become(w, [job[w] EXCEPT !.pc = pc])
Finish(w)   == Become(w, NoJob)

\* get and claim: an envelope is expired strictly after expiresAt.
Expired(doc) == doc.expiresAt < now

\* remaining(): what is left of a token at the time the handler read.
Remaining(exp, at) == IF exp > at THEN exp - at ELSE 1

\* Fault: rotation goes on past the ceiling.
ShouldRotateAlways(c, rt, at) ==
    c \in Public \/ 10 * (at - rt.iat) > 7 * (rt.exp - rt.iat)

\* shouldRotate().  Tokens 3.0 writes have iat, exp and iiat set.
ShouldRotate(c, rt, at) ==
    /\ at <= rt.iiat + AbsoluteMax
    /\ \/ c \in Public
       \/ /\ rt.exp > rt.iat
          /\ 10 * (at - rt.iat) > 7 * (rt.exp - rt.iat)

\* put(): the envelope's expiry and the file's mtime are stamped at the write.
Stamp(doc, ttl) == [doc EXCEPT !.expiresAt = now + ttl, !.mtime = now]

Unborn == {t \in Tokens : grantOf[t] = None}
Busy   == {w \in Workers : ~At(w, "idle")}

\* Bound: a request that may draw a token id starts only if one is left for
\* it, so that no handler runs out of the finite pool.
IdsLeft == Cardinality(Unborn) > Cardinality(Busy)

-----------------------------------------------------------------------------
(* A human authorizes: the end of handleInteraction.  The client was       *)
(* loaded by handleAuthorize and is not loaded again, so it may be gone.   *)

MintCode(k, c, a, b) ==
    /\ authz[k] = None
    /\ authz' = [authz EXCEPT ![k] = [client |-> c, account |-> a]]
    /\ file' = [file EXCEPT ![k] =
         Stamp([client |-> c, account |-> a, grant |-> k, bind |-> b,
                iat |-> 0, exp |-> 0, iiat |-> 0, consumed |-> 0,
                expiresAt |-> 0, mtime |-> 0], CodeTTL)]
    /\ UNCHANGED <<now, clients, claimFile, index, grantMu, job, failures,
                   grantOf, held, redeemed, rotatedAt, answered>>

-----------------------------------------------------------------------------
(* POST /token: authenticateClient, then claim.                            *)

\* A request arrives and its client document is read.  One naming an unknown
\* client is refused and changes nothing.  Ids are 256-bit random values, so
\* only those a response has carried are ever presented.
StartCode(w, c, k, b) ==
    /\ At(w, "idle") /\ c \in clients /\ authz[k] # None /\ IdsLeft
    /\ Become(w, [NoJob EXCEPT !.pc = "claim", !.op = "code", !.client = c,
                               !.id = k, !.bind = b])
    /\ UNCHANGED <<now, disk, grantMu, failures, ghost>>

StartRefresh(w, c, t) ==
    /\ At(w, "idle") /\ c \in clients /\ t \in held /\ IdsLeft
    /\ Become(w, [NoJob EXCEPT !.pc = "claim", !.op = "refresh",
                               !.client = c, !.id = t])
    /\ UNCHANGED <<now, disk, grantMu, failures, ghost>>

\* Fault: the document is copied, not renamed.
ClaimByReading(w) ==
    /\ At(w, "claim")
    /\ LET d == job[w].id IN
         IF file[d] = None
         THEN Finish(w) /\ UNCHANGED <<file, claimFile>>
         ELSE /\ claimFile' = [claimFile EXCEPT ![d] = file[d]]
              /\ Goto(w, "read")
              /\ UNCHANGED file
    /\ UNCHANGED <<now, clients, index, grantMu, failures, ghost>>

\* claim(): the rename.  The loser of a race sees ENOENT and is refused.  A
\* rename keeps the file's mtime.
ClaimRename(w) ==
    /\ At(w, "claim")
    /\ LET d == job[w].id IN
         \/ /\ file[d] = None
            /\ Finish(w)
            /\ UNCHANGED <<file, claimFile>>
         \/ /\ file[d] # None
            /\ file' = [file EXCEPT ![d] = None]
            /\ claimFile' = [claimFile EXCEPT ![d] = file[d]]
            /\ Goto(w, "read")
    /\ UNCHANGED <<now, clients, index, grantMu, failures, ghost>>

\* claim(): read the claimed file, and remove it on return.
ClaimRead(w) ==
    /\ At(w, "read")
    /\ LET d == job[w].id
           doc == claimFile[d]
       IN  /\ IF doc # None => Expired(doc)
              THEN Finish(w)
              ELSE Become(w, [job[w] EXCEPT !.pc = "check", !.doc = doc])
           /\ claimFile' = [claimFile EXCEPT ![d] = None]
    /\ UNCHANGED <<now, clients, file, index, grantMu, failures, ghost>>

-----------------------------------------------------------------------------
(* grantAuthorizationCode.                                                 *)

\* Fault: any client may redeem the code.
CodeMatchesAnyClient(w) == job[w].doc.bind = job[w].bind

CodeMatches(w) ==
    job[w].doc.client = job[w].client /\ job[w].doc.bind = job[w].bind

\* The code is already claimed: a refusal here has used it up.
CheckCode(w) ==
    /\ At(w, "check") /\ job[w].op = "code"
    /\ IF CodeMatches(w) THEN Goto(w, "issue") ELSE Finish(w)
    /\ UNCHANGED <<now, disk, grantMu, failures, ghost>>

\* Fault: the id drawn may be one already in use.
DrawAny(t, g) == grantOf' = [grantOf EXCEPT ![t] = g]

\* randomID().
Draw(t, g) == grantOf[t] = None /\ grantOf' = [grantOf EXCEPT ![t] = g]

\* The first refresh token of a grant names the client that authenticated.
FirstToken(doc, c) ==
    [doc EXCEPT !.client = c, !.bind = None, !.consumed = 0,
                !.iat = now, !.exp = now + RefreshTTL, !.iiat = now]

\* issue(withRefresh = true): sign the access token, of which nothing is stored,
\* and put the first refresh token.
IssueForCode(w) ==
    /\ At(w, "issue") /\ job[w].op = "code"
    /\ LET doc == job[w].doc
           c == job[w].client
       IN  /\ redeemed' = [redeemed EXCEPT ![doc.grant] = @ + 1]
           /\ \/ /\ c \notin Refreshing
                 /\ Goto(w, "respond")
                 /\ UNCHANGED <<file, grantOf>>
              \/ /\ c \in Refreshing
                 /\ \E t \in Tokens :
                      /\ Draw(t, doc.grant)
                      /\ file' = [file EXCEPT ![t] =
                                     Stamp(FirstToken(doc, c), RefreshTTL)]
                      /\ Become(w, [job[w] EXCEPT !.pc = "index", !.next = t])
    /\ UNCHANGED <<now, clients, claimFile, index, grantMu, failures,
                   authz, held, rotatedAt, answered>>

-----------------------------------------------------------------------------
(* grantRefreshToken.                                                      *)

\* Replayed beyond the grace window: the token was rotated away, and leaked.
Reused(rt) == rt.consumed # 0 /\ now - rt.consumed > Grace

\* A token of another client, or past its exp, is refused; the claim has
\* removed its document and nothing puts it back.  `at` is the handler's now.
CheckRefresh(w) ==
    /\ At(w, "check") /\ job[w].op = "refresh"
    /\ LET rt == job[w].doc IN
         \/ /\ rt.client # job[w].client \/ rt.exp <= now
            /\ Finish(w)
         \/ /\ rt.client = job[w].client /\ rt.exp > now
            /\ IF Reused(rt)
               THEN Goto(w, "lock")
               ELSE Become(w, [job[w] EXCEPT !.pc = "issue", !.at = now,
                      !.rotate = ShouldRotate(job[w].client, rt, now)])
    /\ UNCHANGED <<now, disk, grantMu, failures, ghost>>

\* issue(withRefresh = false): an access token only.
IssueForRefresh(w) ==
    /\ At(w, "issue") /\ job[w].op = "refresh"
    /\ Goto(w, IF job[w].rotate THEN "put" ELSE "back")
    /\ UNCHANGED <<now, disk, grantMu, failures, ghost>>

\* Fault: the successor counts as a first issue.
SuccessorAfresh(rt, at) ==
    [rt EXCEPT !.iat = at, !.exp = at + RefreshTTL, !.consumed = 0, !.iiat = at]

\* A fresh life, the same grant and the same first issue.
Successor(rt, at) ==
    [rt EXCEPT !.iat = at, !.exp = at + RefreshTTL, !.consumed = 0]

\* put the successor.
PutNext(w) ==
    /\ At(w, "put")
    /\ \E t \in Tokens :
         /\ Draw(t, job[w].doc.grant)
         /\ file' = [file EXCEPT ![t] =
              Stamp(Successor(job[w].doc, job[w].at), RefreshTTL)]
         /\ Become(w, [job[w] EXCEPT !.pc = "index", !.next = t])
    /\ UNCHANGED <<now, clients, claimFile, index, grantMu, failures,
                   authz, held, redeemed, rotatedAt, answered>>

\* Fault: a token that was not rotated is not put back.
PresentedRotatedOnly(w) ==
    IF job[w].rotate
    THEN Stamp([job[w].doc EXCEPT !.consumed = job[w].at],
               Remaining(job[w].doc.exp, job[w].at))
    ELSE None

\* Fault: a retry inside the grace window puts the token back unmarked.
PresentedUnmarked(w) ==
    Stamp([job[w].doc EXCEPT !.consumed = IF job[w].rotate THEN job[w].at ELSE 0],
          Remaining(job[w].doc.exp, job[w].at))

\* Marked consumed when it was rotated, exactly as it was otherwise.
Presented(w) ==
    Stamp([job[w].doc EXCEPT !.consumed = IF job[w].rotate THEN job[w].at ELSE @],
          Remaining(job[w].doc.exp, job[w].at))

\* put the presented token back.
PutBack(w) ==
    /\ At(w, "back")
    /\ file' = [file EXCEPT ![job[w].id] = Presented(w)]
    /\ rotatedAt' = IF job[w].rotate /\ rotatedAt[job[w].id] = 0
                    THEN [rotatedAt EXCEPT ![job[w].id] = job[w].at]
                    ELSE rotatedAt
    /\ Goto(w, "respond")
    /\ UNCHANGED <<now, clients, claimFile, index, grantMu, failures,
                   authz, grantOf, held, redeemed, answered>>

-----------------------------------------------------------------------------
(* addToGrant: read, append, write, under grantMu.                         *)

\* Fault: an index that is there reads as an empty one.
grantRefsEmpty(g) == {}

\* grantRefs(): a missing index reads as no references.
grantRefs(g) == index[g]

\* Fault: an early return keeps the mutex.
UnlockForgotten == UNCHANGED grantMu

Unlock == grantMu' = None

\* Fault: the new reference replaces the list.
AppendedAlone(w) == {job[w].next}

Appended(w) == job[w].refs \cup {job[w].next}

\* Fault: the index is read without taking grantMu.
GrantReadUnlocked(w) ==
    /\ At(w, "index")
    /\ Become(w, [job[w] EXCEPT !.pc = "indexing",
                                !.refs = grantRefs(job[w].doc.grant)])
    /\ UNCHANGED <<now, disk, grantMu, failures, ghost>>

GrantRead(w) ==
    /\ At(w, "index") /\ grantMu = None
    /\ grantMu' = w
    /\ Become(w, [job[w] EXCEPT !.pc = "indexing",
                                !.refs = grantRefs(job[w].doc.grant)])
    /\ UNCHANGED <<now, disk, failures, ghost>>

\* A redemption answers next, a refresh puts the presented token back.
Indexed(w) ==
    [job[w] EXCEPT !.refs = {}, !.pc = IF job[w].op = "code" THEN "respond" ELSE "back"]

GrantWrite(w) ==
    /\ At(w, "indexing")
    /\ index' = [index EXCEPT ![job[w].doc.grant] = Appended(w)]
    /\ Unlock
    /\ Become(w, Indexed(w))
    /\ UNCHANGED <<now, clients, file, claimFile, failures, ghost>>

\* Fault: the presented credential is taken for a token.
ReturnedAsIs(w) == {IF job[w].next # None THEN job[w].next ELSE job[w].id}

\* The response: the successor if there is one, else the token presented.  A
\* response that is lost leaves the client with what it had.
Returned(w) ==
    IF job[w].next # None THEN {job[w].next} ELSE {job[w].id} \cap Tokens

Respond(w) ==
    /\ At(w, "respond")
    /\ \/ held' = held \cup Returned(w)
       \/ held' = held
    /\ Finish(w)
    /\ UNCHANGED <<now, disk, grantMu, failures,
                   authz, grantOf, redeemed, rotatedAt, answered>>

-----------------------------------------------------------------------------
(* POST /revoke, and revokeGrant, which reuse detection and the admin's    *)
(* deletion share.                                                         *)

StartRevoke(w, c, t) ==
    /\ At(w, "idle") /\ c \in clients /\ t \in held
    /\ Become(w, [NoJob EXCEPT !.pc = "get", !.op = "revoke",
                               !.client = c, !.id = t])
    /\ UNCHANGED <<now, disk, grantMu, failures, ghost>>

\* get(): an expired document is destroyed and reported missing.
Live(t) == file[t] # None /\ ~Expired(file[t])

DropIfExpired(t) ==
    file' = IF Live(t) THEN file ELSE [file EXCEPT ![t] = None]

\* An unknown token, or another client's, is answered like a revoked one.
RevokeGet(w) ==
    /\ At(w, "get") /\ job[w].op = "revoke"
    /\ LET t == job[w].id IN
         /\ DropIfExpired(t)
         /\ IF Live(t) /\ file[t].client = job[w].client
            THEN Become(w, [job[w] EXCEPT !.pc = "lock", !.doc = file[t]])
            ELSE Finish(w)
    /\ UNCHANGED <<now, clients, claimFile, index, grantMu, failures, ghost>>

\* revokeGrant(): take grantMu and read the index ...
RevokeLock(w) ==
    /\ At(w, "lock") /\ grantMu = None
    /\ grantMu' = w
    /\ Become(w, [job[w] EXCEPT !.pc = "destroying",
                                !.refs = grantRefs(job[w].doc.grant)])
    /\ UNCHANGED <<now, disk, failures, ghost>>

\* ... remove the documents it lists one by one ...
DestroyRef(w) ==
    /\ At(w, "destroying")
    /\ \E t \in job[w].refs :
         /\ file' = [file EXCEPT ![t] = None]
         /\ Become(w, [job[w] EXCEPT !.refs = @ \ {t}])
    /\ UNCHANGED <<now, clients, claimFile, index, grantMu, failures, ghost>>

\* Back from revokeGrant.  Reuse detection ends with a refusal here; the other
\* two callers go on to destroy the token they hold.
Revoked(w) ==
    \/ /\ job[w].op = "refresh"
       /\ Finish(w)
       /\ answered' = answered \cup {job[w].doc.grant}
    \/ /\ job[w].op # "refresh"
       /\ Goto(w, "drop")
       /\ UNCHANGED answered

\* ... then the index itself, and release grantMu.
RevokeUnlock(w) ==
    /\ At(w, "destroying") /\ job[w].refs = {}
    /\ index' = [index EXCEPT ![job[w].doc.grant] = {}]
    /\ Unlock
    /\ Revoked(w)
    /\ UNCHANGED <<now, clients, file, claimFile, failures,
                   authz, grantOf, held, redeemed, rotatedAt>>

\* A revocation is answered; a deletion takes the next token.
Dropped(w) ==
    \/ /\ job[w].op = "revoke"
       /\ Finish(w)
       /\ answered' = answered \cup {job[w].doc.grant}
    \/ /\ job[w].op = "delete"
       /\ Become(w, [job[w] EXCEPT !.pc = "next", !.id = None, !.doc = None])
       /\ UNCHANGED answered

Drop(w) ==
    /\ At(w, "drop")
    /\ file' = [file EXCEPT ![job[w].id] = None]
    /\ Dropped(w)
    /\ UNCHANGED <<now, clients, claimFile, index, grantMu, failures,
                   authz, grantOf, held, redeemed, rotatedAt>>

-----------------------------------------------------------------------------
(* DELETE /admin/clients/{id}: handleDeleteClient, revokeClientTokens.     *)

StartDelete(w, c) ==
    /\ At(w, "idle") /\ c \in clients
    /\ clients' = clients \ {c}
    /\ Become(w, [NoJob EXCEPT !.pc = "list", !.op = "delete", !.client = c])
    /\ UNCHANGED <<now, file, claimFile, index, grantMu, failures, ghost>>

\* list(): the tokens live now; expired ones are destroyed on the way.
ListTokens(w) ==
    /\ At(w, "list")
    /\ file' = [d \in Docs |-> IF d \in Tokens /\ ~Live(d) THEN None ELSE file[d]]
    /\ Become(w, [job[w] EXCEPT !.pc = "next", !.todo = {t \in Tokens : Live(t)}])
    /\ UNCHANGED <<now, clients, claimFile, index, grantMu, failures, ghost>>

\* Fault: a token that is gone ends the loop.
AfterSkipNone(w, t) == {}

AfterSkip(w, t) == job[w].todo \ {t}

\* get() each listed token again; skip it if it is gone or another client's.
NextToken(w) ==
    /\ At(w, "next")
    /\ \E t \in job[w].todo :
         /\ DropIfExpired(t)
         /\ IF Live(t) /\ file[t].client = job[w].client
            THEN Become(w, [job[w] EXCEPT !.pc = "lock", !.id = t,
                                          !.doc = file[t], !.todo = @ \ {t}])
            ELSE Become(w, [job[w] EXCEPT !.todo = AfterSkip(w, t)])
    /\ UNCHANGED <<now, clients, claimFile, index, grantMu, failures, ghost>>

Deleted(w) ==
    /\ At(w, "next") /\ job[w].todo = {}
    /\ answered' = answered \cup {job[w].client}
    /\ Finish(w)
    /\ UNCHANGED <<now, disk, grantMu, failures,
                   authz, grantOf, held, redeemed, rotatedAt>>

-----------------------------------------------------------------------------
(* Disk errors.  A file is written whole or not at all (writeFile), and an  *)
(* error is a step of its own, at the access that meets it.  A claim file   *)
(* that cannot be removed is left out: nobody opens it under its nonce.     *)

DiskError == failures < MaxFaults /\ failures' = failures + 1

\* Where an error ends the request: claim's rename or read, the put of a new
\* token, and the get of a token to revoke, which reads as no such token.
Failing(w) ==
    \/ job[w].pc \in {"claim", "read", "put", "get"}
    \/ At(w, "issue") /\ job[w].op = "code" /\ job[w].client \in Refreshing

RequestFails(w) ==
    /\ DiskError /\ Failing(w)
    /\ Finish(w)
    /\ claimFile' = IF At(w, "read")
                    THEN [claimFile EXCEPT ![job[w].id] = None] ELSE claimFile
    /\ UNCHANGED <<now, clients, file, index, grantMu, ghost>>

\* Ignored: the presented token is gone, and the response goes out.
PutBackFails(w) ==
    /\ DiskError /\ At(w, "back")
    /\ Goto(w, "respond")
    /\ UNCHANGED <<now, disk, grantMu, ghost>>

\* addToGrant takes an index it cannot read for an empty one.
GrantReadFails(w) ==
    /\ DiskError /\ At(w, "index") /\ grantMu = None
    /\ grantMu' = w
    /\ Become(w, [job[w] EXCEPT !.pc = "indexing", !.refs = {}])
    /\ UNCHANGED <<now, disk, ghost>>

\* Ignored by both callers of addToGrant.
GrantWriteFails(w) ==
    /\ DiskError /\ At(w, "indexing")
    /\ Unlock
    /\ Become(w, Indexed(w))
    /\ UNCHANGED <<now, disk, ghost>>

\* revokeGrant returns at an index it cannot read, and its callers go on.
RevokeReadFails(w) ==
    /\ DiskError /\ At(w, "lock") /\ grantMu = None
    /\ Revoked(w)
    /\ UNCHANGED <<now, disk, grantMu,
                   authz, grantOf, held, redeemed, rotatedAt>>

\* A document, or the index, that cannot be removed is passed over.
DestroyFails(w) ==
    /\ DiskError
    /\ \/ /\ At(w, "destroying")
          /\ \E t \in job[w].refs : Become(w, [job[w] EXCEPT !.refs = @ \ {t}])
          /\ UNCHANGED <<grantMu, answered>>
       \/ /\ At(w, "destroying") /\ job[w].refs = {}
          /\ Unlock
          /\ Revoked(w)
       \/ /\ At(w, "drop")
          /\ Dropped(w)
          /\ UNCHANGED grantMu
    /\ UNCHANGED <<now, disk,
                   authz, grantOf, held, redeemed, rotatedAt>>

\* A deletion that cannot list the tokens, or read one, goes on without.
ListFails(w) ==
    /\ DiskError
    /\ \/ At(w, "list") /\ Goto(w, "next")
       \/ /\ At(w, "next")
          /\ \E t \in job[w].todo : Become(w, [job[w] EXCEPT !.todo = @ \ {t}])
    /\ UNCHANGED <<now, disk, grantMu, ghost>>

-----------------------------------------------------------------------------
(* The sweeper, the clock, and a restart of the process.                   *)

\* sweep(): get() destroys what has expired.  A document that is expired when
\* it is read can only be removed afterwards, never replaced, so the read and
\* the remove are one step.
SweepExpired(d) ==
    /\ file[d] # None /\ Expired(file[d])
    /\ file' = [file EXCEPT ![d] = None]
    /\ UNCHANGED <<now, clients, claimFile, index, grantMu, job, failures, ghost>>

\* sweep(): a claim file whose mtime is older than ClaimAge.
SweepClaim(d) ==
    /\ claimFile[d] # None /\ now - claimFile[d].mtime > ClaimAge
    /\ claimFile' = [claimFile EXCEPT ![d] = None]
    /\ UNCHANGED <<now, clients, file, index, grantMu, job, failures, ghost>>

Tick ==
    /\ now < MaxTime
    /\ now' = now + 1
    /\ UNCHANGED <<disk, grantMu, job, failures, ghost>>

\* The process dies and restarts: what was in memory is gone, what was renamed
\* into place is on disk.
Crash ==
    /\ failures < MaxCrashes
    /\ failures' = failures + 1
    /\ job' = [w \in Workers |-> NoJob]
    /\ grantMu' = None
    /\ UNCHANGED <<now, disk, ghost>>

-----------------------------------------------------------------------------
Start(w) ==
    \/ \E c \in Clients, k \in Codes, b \in Bindings : StartCode(w, c, k, b)
    \/ \E c \in Clients, t \in Tokens : StartRefresh(w, c, t) \/ StartRevoke(w, c, t)
    \/ \E c \in Clients : StartDelete(w, c)

Work(w) ==
    \/ ClaimRename(w) \/ ClaimRead(w) \/ CheckCode(w) \/ IssueForCode(w)
    \/ CheckRefresh(w) \/ IssueForRefresh(w) \/ PutNext(w) \/ PutBack(w)
    \/ GrantRead(w) \/ GrantWrite(w) \/ Respond(w)
    \/ RevokeGet(w) \/ RevokeLock(w) \/ DestroyRef(w) \/ RevokeUnlock(w)
    \/ Drop(w) \/ ListTokens(w) \/ NextToken(w) \/ Deleted(w)

DiskFault(w) ==
    \/ RequestFails(w) \/ PutBackFails(w) \/ GrantReadFails(w) \/ GrantWriteFails(w)
    \/ RevokeReadFails(w) \/ DestroyFails(w) \/ ListFails(w)

Environment ==
    \/ \E k \in Codes, c \in Clients, a \in Accounts, b \in Bindings :
         MintCode(k, c, a, b)
    \/ \E d \in Docs : SweepExpired(d) \/ SweepClaim(d)
    \/ Tick
    \/ Crash

Next == Environment \/ \E w \in Workers : Start(w) \/ Work(w) \/ DiskFault(w)

Spec == Init /\ [][Next]_vars

=============================================================================
