----------------------- MODULE BrokerTokensProperties -----------------------
(***************************************************************************)
(* What the token endpoint, revocation and client deletion promise.        *)
(* Every property is stated over the state of BrokerTokens; the ones that  *)
(* only hold when handlers do not overlap are checked with one worker, and *)
(* the runs with two show how an overlap breaks them.                      *)
(***************************************************************************)
EXTENDS BrokerTokens

\* A worker between the read of a claimed document and its put back: the only
\* copy of the document is the one in its memory.
Holds(w, d) ==
    /\ job[w].id = d /\ job[w].op \in {"code", "refresh"}
    /\ job[w].pc \in {"check", "issue", "put", "index", "indexing", "back"}

Quiet == \A w \in Workers : At(w, "idle")

\* An authorization code is exchanged for tokens at most once, however many
\* requests present it at the same time and wherever the process is killed
\* (claim and its comment in grantAuthorizationCode).
CodeRedeemedOnce == \A k \in Codes : redeemed[k] <= 1

\* A document is in one place: at its path, in a claim file, or in the hands
\* of one handler.  This is what makes claim a lock on the document, and the
\* put back of a refresh token safe: it can overwrite nobody's document.
ClaimIsExclusive ==
    \A d \in Docs :
      /\ ~(file[d] # None /\ claimFile[d] # None)
      /\ \A w \in Workers : Holds(w, d) =>
           /\ file[d] = None /\ claimFile[d] = None
           /\ \A v \in Workers : Holds(v, d) => v = w

\* A refresh token on disk names the client, the account and the grant of the
\* authorization it descends from, through every rotation (issue and the
\* successor's put in grantRefreshToken).
BoundToAuthorization ==
    \A t \in Tokens : file[t] # None =>
      LET doc == file[t] IN
        /\ doc.grant = grantOf[t]
        /\ authz[doc.grant] = [client |-> doc.client, account |-> doc.account]

\* Rotation cannot extend a grant for ever: no token outlives the grant's first
\* issue by more than the absolute maximum and one refresh life
\* (refreshAbsoluteMax, shouldRotate).
GrantCeiling ==
    \A t \in Tokens : file[t] # None =>
      file[t].exp <= file[t].iiat + AbsoluteMax + RefreshTTL

\* Every token of a grant carries the same first-issue time, so no rotation
\* restarts the clock the ceiling is measured on.
OneFirstIssue ==
    \A s, t \in Tokens :
      file[s] # None /\ file[t] # None /\ grantOf[s] = grantOf[t]
        => file[s].iiat = file[t].iiat

\* A token that was rotated away carries the mark of it for as long as it is on
\* disk, however often it is presented again, so that a replay is recognised
\* (grantRefreshToken: "the record has to still be here for reuse detection to
\* fire").
RotatedStaysMarked ==
    \A t \in Tokens : file[t] # None /\ rotatedAt[t] # 0 => file[t].consumed # 0

\* addToGrant never loses a reference another handler added: an index only
\* grows, or is removed by the revocation that holds grantMu (grantMu's
\* comment in store).  For a disk that can be read: an error at the index is
\* taken for an empty one.
IndexNeverForgets ==
    [][\A k \in Codes :
         \/ index[k] \subseteq index'[k]
         \/ index'[k] = {} /\ \E w \in Workers :
              grantMu = w /\ At(w, "destroying") /\ job[w].doc.grant = k]_vars

\* Between requests, every refresh token a client holds and the disk still has
\* is listed under its grant, crashes included, so revokeGrant reaches it
\* (addToGrant follows every put of a new token).
IndexCoversHeld ==
    Quiet => \A t \in held : file[t] # None => t \in index[grantOf[t]]

\* Once a revocation, or a refusal for reuse, has been answered, no token of
\* the grant that a client holds is left on disk (handleRevocation: "Revoking a
\* refresh token takes the whole grant with it"; store.go:278 "revokeGrant
\* destroys everything issued under a grant").
RevokedGrantIsGone ==
    Quiet => \A t \in held : file[t] # None => grantOf[t] \notin answered

\* Once the deletion of a client has been answered, no live refresh token of
\* that client is on disk (revokeClientTokens).
DeletedClientLeavesNoToken ==
    Quiet => \A t \in Tokens : Live(t) => file[t].client \notin answered

\* Between requests every token a client holds is on disk: a claim that hides
\* it is always followed by the put that brings it back (grantRefreshToken).
\* For a workload of redemptions only, without crashes, at times when no token
\* can have reached the end of its life; no replay is later than the grace, and
\* the sweeper takes no claim file before the claim is read (ClaimAge).
NothingLost ==
    Quiet /\ now <= RefreshTTL => \A t \in held : file[t] # None

\* Every request is answered, whatever the disk does: no handler waits for ever
\* for grantMu.
RequestAnswered == \A w \in Workers : []<>At(w, "idle")

-----------------------------------------------------------------------------
(* The workload NothingLost is about.                                      *)

\* A workload of redemptions only, by clients that refresh their own tokens:
\* no revocation and no deletion.  A code may be presented by any client.
StartRedeem(w) ==
    \/ \E c \in Clients, k \in Codes, b \in Bindings : StartCode(w, c, k, b)
    \/ \E c \in Clients, t \in Tokens :
         /\ grantOf[t] # None /\ authz[grantOf[t]].client = c
         /\ StartRefresh(w, c, t)

RedeemNext == Environment \/ \E w \in Workers : StartRedeem(w) \/ Work(w)
RedeemSpec == Init /\ [][RedeemNext]_vars

-----------------------------------------------------------------------------
(* The abstract store the handlers implement.  A worker holds a document   *)
(* from its rename until it puts it back, forgets it or dies.              *)

HoldersOf(d) ==
    {w \in Workers : Holds(w, d) \/ (At(w, "read") /\ job[w].id = d)}

holderMap ==
    [d \in Docs |-> IF HoldersOf(d) = {} THEN None
                    ELSE CHOOSE w \in Workers : w \in HoldersOf(d)]

Abstract == INSTANCE OneTimeDocs WITH
    OneTime <- Codes,
    Holders <- Workers,
    stored  <- {d \in Docs : file[d] # None},
    holder  <- holderMap,
    created <- {k \in Codes : authz[k] # None} \cup
               {t \in Tokens : grantOf[t] # None}

\* The renames, reads and puts of the handlers, with crashes and the sweeper in
\* between, implement the abstract store: no id is stored twice as new, no code
\* comes back once it has been claimed, and a refresh token comes back only from
\* the handler that claimed it.
ImplementsOneTimeDocs == Abstract!Spec

-----------------------------------------------------------------------------
(* What a comment says, and time breaks.                                  *)

\* token.go:143: "A token presented after it was rotated away. Inside the grace
\* window this is a client retrying; beyond it, the token leaked": a token is not
\* honoured once the grace after its rotation has passed.
LateReplayRefused ==
    \A w \in Workers : At(w, "issue") /\ job[w].op = "refresh" =>
      \/ rotatedAt[job[w].id] = 0
      \/ job[w].at - rotatedAt[job[w].id] <= Grace

=============================================================================
