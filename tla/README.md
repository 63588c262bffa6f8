# A TLA+ model of Nginx-hash-lock (AppShield)

The gate is one Go process in front of one backend application. It decides who
may pass, remembers who has, and is an OAuth 2.1 authorization server for
machine clients. This directory holds TLA+ modules of its stateful parts, the
TLC configurations that check them, and TLAPS proofs. Paths below are relative
to the repository root; `src/` is left out of Go file names.

## 1. Inventory

| Component | State | Operations | Hard behaviours |
|---|---|---|---|
| Broker tokens: `internal/broker/token.go`, `store.go`, part of `admin.go` | a directory of JSON documents (codes, refresh tokens, one index per grant), claim files, `grantMu` | redeem a code, refresh (rotation, grace window, reuse detection), revoke, delete a client, sweep | the directory is shared by all request goroutines and changed a file at a time; the process can die between any two files |
| Broker authorization: `broker.go`, `client.go`, `admin.go` | clients, pending authorization requests | register, read and edit a client, `/auth`, the interaction page, bearer verification | one interaction in two tabs; a client deleted while a human consents |
| Broker boot: `broker.go` (`New`, `checkIssuerStable`) | signing key, issuer marker | first boot, boot after a configuration change | two files written one after the other |
| Session store: `internal/session/session.go` | the session map under `mu`, a timer under `saveMu`, `SESSIONS_FILE` | create, get, delete, revoke, sweep; debounced write, close, load | a debounce racing mutations; flushes that overlap; stop, crash, restart |
| Gate: `internal/authn/authn.go`, `control.go` | none of its own: sessions and configuration | check a request, log in by password, log out, control API | sessions outlive the configuration they were made under |
| Relying party: `internal/oidcrp/oidcrp.go` | registration under `regMu`, set of origins, logins in flight | login, callback, back-channel logout | a mutex held over the network; callbacks repeated; logout racing login; restart |
| Router: `internal/router/router.go` | none | match a path, dispatch | precedence of rules; two prefix tests |
| Identity: `internal/identity/identity.go` | none | clear and set headers, sign an assertion, verify a control token | which headers can come from outside |
| Configuration: `internal/config/config.go` | none after the start | derive mode, origins, issuer, bypass rules | combinations that must refuse to boot |
| Proxy, JOSE, discovery, static pages | none | | |
| Process wiring: `cmd/appshield/main.go` | | order of construction and of shutdown | requests that outlast `Shutdown` |
| 2.x gate: `src/auth-service`, `nginx.conf`, `entrypoint.sh` | | | kept for rollback, not part of the image that is built |

How they interact: the router hands a request to the gate, the relying party or
the broker. Gate and relying party read and write sessions only through the
session store. The broker asks the gate's sessions who the human is, and keeps
everything else in its own directory; the gate asks the broker whether a bearer
token is good. The session store and the broker's store are the only things
that survive a restart. Nothing calls back except the debounce timer and the
two sweepers.

What makes each correct:

- tokens: a code is redeemed once; a document has one owner at a time; what is
  revoked or deleted is gone once that has been answered; rotation loses no
  token, keeps who was authorized and does not extend a grant without end;
  every request is answered;
- session store: no mutation is lost by the debounce; across an orderly stop
  nobody is logged out and no ended session returns; the end of a session
  reaches the disk;
- relying party and gate: a login yields one session; the code is redeemed with
  the client and address it was requested with; a session that was ended from
  outside stays ended and spares the others; a session is usable under the
  configuration it was made under;
- authorization: one consent yields one code; a code names an account, and a
  client and redirect_uri that belong together; a client deleted while a human
  consents gets no token;
- boot: a crash in the first boot does not lock the issuer out, and neither key
  nor issuer changes under tokens already signed;
- configuration, router, identity: the gate does not start without the
  authentication it was asked for (2.x's managed hash is the exception, a finding); its own routes always win; no bypass rule opens
  the protected resource; no managed header from outside reaches the backend; each
  kind of signed token opens one door.

`PROJECT.json` lists the hazards behind these, each at its line.

## 2. Modules

| Module | Models |
|---|---|
| `BrokerTokens` | token endpoint, revocation, client deletion, document store, sweeper, crashes, disk errors |
| `BrokerTokensProperties` | its properties, the refinement to `OneTimeDocs`, and the workload of redemptions alone (`RedeemSpec`) |
| `OneTimeDocs` | abstract specification: a store of documents that are taken by one holder at a time |
| `BrokerTokensProofs`, `GrantProofs`, `RevocationProofs`, `OneTimeDocsProofs` | theorems |
| `Authorization` (EXTENDS `BrokerTokens`) | registration, `/auth`, the interaction page in several tabs, composed with the token endpoint |
| `AuthorizationProperties`, `AuthorizationProofs` | its properties; theorems |
| `SessionStore`, `SessionStoreProperties`, `SessionStoreProofs` | session map, debounce, flush, close, load; properties; theorems |
| `Gate` | what a request, a login form, a logout and the control API do to sessions |
| `RelyingParty` (EXTENDS `Gate`) | registration, login, callback, back-channel logout, restarts, composed with the gate on one session map |
| `RelyingPartyProperties`, `RelyingPartyProofs` | properties of the composition; theorems |
| `Configuration` | what the environment makes of the gate, and which environments refuse the boot |
| `Router` (EXTENDS `Configuration`) | which handler serves a path |
| `Identity` | managed headers, assertions, control tokens, what a verifier accepts |
| `Serving` (EXTENDS `Gate`, `Router`, `Identity`) | the container: boot, restarts, edits of the environment, the broker's two files, requests to the backend |
| `ServingProperties`, `ServingProofs` | its properties; theorems |
| `Absent` | the constant that stands for what is empty or missing |
| `MC*` | instances for TLC |

**BrokerTokens.** `file`, `claimFile` and `index` are the three kinds of file;
`job[w]` is the local state of the goroutine serving a request. Each action is
one access to the directory or one read of the clock. A code redemption is
`StartCode`, `ClaimRename`, `ClaimRead`, `CheckCode`, `IssueForCode`,
`GrantRead`, `GrantWrite`, `Respond`; a refresh is `StartRefresh`,
`ClaimRename`, `ClaimRead`, `CheckRefresh`, `IssueForRefresh`, then `PutNext`,
`GrantRead`, `GrantWrite` when it rotates, `PutBack`, `Respond`; reuse and
revocation are `RevokeLock`, `DestroyRef` per token, `RevokeUnlock`, and `Drop`
after a revocation; deletion is `StartDelete`, `ListTokens`, `NextToken` per
token, `Deleted`. Signing an access token stores nothing, so it and the put that
follows it are one step. `list()` is one step: what it misses or sees twice
while files move is within what `NextToken` meets anyway. A human's consent is
`MintCode`, which may happen at any time here and is the end of an interaction in
`Authorization`. The nonce in a claim
file's name is left out, because a document has at most one claim file
(`OneCopy` proves it). A disk error can strike any access of a handler
(`DiskFault`): it ends the request with a 500 where the code returns it, and is
passed over where the code ignores it, at the put back of a presented token, in
`addToGrant`, in `destroyGrant`'s removals and in the deletion of a client. A write happens whole or
not at all (`store.writeFile` renames a synced temporary file). The removal of a
claim file does not fail: the next claim draws another nonce, so that a leftover
is never opened and only the sweeper sees it.

**Authorization.** `AuthNext` replaces `MintCode` by the way to it: `Register`
(a client is its id and the redirect_uris it registered, `Registered`),
`Authorize`, and per tab `OpenPage`, `HumanSubject`, `PutCode`, `RemoveRequest`. All
other steps are those of `BrokerTokens` (`TokenStep`), except that a code can be
presented only after a redirect has carried it, and that a restart ends the pages
too. A request refused by `/auth` or `/reg` changes nothing. The two documents a
registration writes are one step: the second only lets the client read itself.
`HumanSubject` may yield any account or none, since the gate's sessions change
under it at will. An error in removing the request is modelled because the code
ignores it; other disk errors on this way end the request before it changed anything.

**SessionStore.** The map and the file are sets of ids, since a session never
changes once created. Handlers mutate in one step and call `saveSoon` in
another; a timer's function is `Fire`, `ClearTimer`, `Marshal`, `Rename` or
`WriteFails`, and `Close` sends the main goroutine through the last three. The
temporary file is not modelled beyond its rename: a leftover `.sessions-*.tmp`
is never read. Nothing serialises flushes, in the code or here: the timer's overlap with each
other and with `Close`'s, and last as they like. The history variables `older` and
`behind` say whose copy is older than whose, and `stale` that an older one has been renamed
over a newer. A store without a file is not modelled: it saves nothing.

**Gate and RelyingParty.** Each operation on the session map is one step, as its
mutex makes it; what the file and the debounce do is SessionStore's subject, so
a restart here keeps every session. `ensure` is `Ensure`, `Register`,
`Discover`, with `EnsureFails` for either call; then `SendToProvider` for a
login and `TakeFlow`, `Exchange`, `CreateSession` for a callback. The provider is
its set of live sessions; the registrar hands out a new client at each
`/register`. Time is left out: a session may expire whenever it is looked at and
a login in flight whenever it exists. `Claims.Sub` is always `OIDCSub`
(`handleCallback` sets both from the same value). The back-channel handler is
one step from the read of the registration to the removal of the sessions;
`EndSessionURL`'s wait for `regMu` is left out. oidcrp's routes exist only in
OIDC mode, so `config.mode` chooses between them and the login form.
2.x sessions (`Legacy`) have a subject and neither claims nor sid.

**Configuration, Router, Identity.** Pure operators: these packages keep no state. An
environment is a record of what is set, and `Load` makes of it what the rest of
the gate reads; `Refused` gathers what ends a boot. Of 2.x's settings `retired` is `AUTH_HASH` or
`CREDENTIAL_VALIDATE_URL`, the two the code counts, and `managed` is `AUTH_HASH_MODE=managed`,
with which 2.x drew the hash itself and `AUTH_HASH` stayed empty. A path is the sequence of
its segments, so that a prefix that stops inside a segment (`/mcpx` under
`/mcp`) is a pair in the constant `Extends`, and a suffix a pair in `HasSuffix`. An
identity has its method, subject, user and one list of groups; e-mail and display
name travel as the user does. One header stands for each of these fields and for
each way a header is managed (`emitted`, `alsoCleared`).

**Serving.** The boot is one step per access to the data directory: `Start`
(`config.FromEnv`), `LoadKey`, `PersistKey`, `CheckIssuer`, `WriteMarker`, `Listen`; the
process can end after any of them (`Stop`), which also stands for a step that
returns an error. A file is written whole or not at all (`store.writeFile` renames a
synced temporary file). `Edit` is a container created again with another environment,
`Tamper` what the error messages of broker.go tell an operator to do, or a damaged file.
A request is any path with any cookie and any bearer token, and comes with a foreign
value in every managed header; `Forwarded` and `Outgoing` say whether it goes on and
with which headers, and `ServeHTTP` is what it changes: a session that can never be used
is deleted. `SignIn` is what `RelyingParty` ends with; `Issue` is what `BrokerTokens`' `issue`
signs and does not store. The sessions survive every restart here, for
`SESSIONS_FILE` is SessionStore's subject. Time is in ticks from 1.

## 3. Runs

| Run | Question | Result |
|---|---|---|
| `ConsentToTokens` | a registration, a request in two tabs and so two grants, one token request at a time, reuse detection, deletion of the client at any point, a crash between any two file operations | `ConsentTypeOK`, `OneCodePerRequest`, `CodeFollowsRequest`, `IndexCoversHeld`, `RevokedGrantIsGone`, `DeletedClientLeavesNoToken` hold |
| `TokensRedeem` | redemptions only, a public client, a confidential one and one without refresh tokens, two at a time, beyond a token's life | `TypeOK`, `NothingLost`, `GrantCeiling`, `OneFirstIssue`, `BoundToAuthorization`, `RotatedStaysMarked`, `IndexNeverForgets` hold |
| `TokensLive` | two handlers on one grant, every interleaving, one failure (a crash or a disk error), expiry, sweeper, fairness | `CodeRedeemedOnce`, `ClaimIsExclusive`, `RequestAnswered` and the refinement `ImplementsOneTimeDocs` hold |
| `TokensRevokeRace` | two handlers | `RevokedGrantIsGone` fails: a refresh in flight writes its documents after the revocation removed what it found |
| `TokensGrace` | replays inside the grace window | `LateReplayRefused` fails: each replay restarts the window |
| `Sessions` | three starts, flushes that overlap as they do in the code, a crash, a disk fault, fairness | `TypeOK`, `NoMutationSwallowed`, `RevokedStaysRevoked`, `NobodyLoggedOut`, `RevocationReachesDisk` hold, the last three unless an older copy of the map has been renamed over a newer one |
| `SessionsOverlap` | two starts, two sessions, no faults, and without that exception | `DeletionsPersist` fails: `Close`'s copy is overwritten by the timer's older one and the restart loads it |
| `SignOn` | two requests at a time, two hosts, a 2.x session, two devices, one restart into any configuration | `TypeOK`, `StateUsedOnce`, `ExchangeMatchesAuthorization`, `LoggedOutStaysOut`, `OtherDevicesStay`, `UsableWhereMade`, `RevokedSubjectIsOut` hold |
| `SignOnRestart` | a login, then a restart | `UnregisteredMeansNoLogin` fails: sessions outlive the registration, and back-channel logout is answered 503 meanwhile |
| `Serving` | a container over two kills, one edit of the environment among ten, one file deleted or damaged, and every request in every state | `TypeOK`, `TokensOutliveRestarts`, `OnlyTheAdmittedPass`, `OwnRoutesStay`, `BackendSeesTheOwner`, `EachTokenHasOneDoor`, `ComesUp` hold |
| `ServingManaged` | an edit of the environment, no kills | `RemovedSettingRefusesBoot` fails: a gate whose only authentication was 2.x's managed hash starts and forwards everything |
| `SignOnRevokeBoth` | a revocation by `sub` and `user` | `CombinedRevokesEither` fails: only `sub` is looked at |

`RevokedGrantIsGone` fails with two handlers and holds with one (`ConsentToTokens`). Of the
session store's promises, `Sessions` checks what overlapping flushes leave of them: the exception
is a rename of an older copy over a newer one and nothing else (`Orderly`, `stale`).
A failed write ends them too (`Undisturbed`), for it is logged and not tried again.
`LoggedOutStaysOut` and `RevokedSubjectIsOut` are stated for
logouts and revocations that do not fall between the ID token and the session of
a callback of the same session or subject: a session can be created there after
the logout was answered (README.md:334 and following promise more).

Bounds:

- `Tokens`, `Codes`, `Ids`, `States` are pools of ids. `IdsLeft` and `CodesLeft` start
  a request only when an id is left for it, so the pool ends a behaviour and never blocks
  a handler half way. Four refresh tokens in `TokensRedeem` make a first issue and
  rotations whose additions to one index meet; two in `TokensLive` are one rotation
  with everything else that can happen around it.
- `MaxTime` bounds the clock. Lives are a few ticks, chosen so that a code, a
  token, the grace window and the age of a claim file all pass inside it; in
  `TokensRedeem` the absolute ceiling is reached before a token's own end, and a
  token's end before the clock's.
- `MaxCrashes`, `MaxFaults`, `MaxStarts`, `MaxRestarts` bound how often things
  go wrong. One crash between any two steps is what the code's recovery is about;
  a second one meets the same states. In `BrokerTokens` the two bounds share one
  count, `failures`: `TokensLive` has a crash or a disk error, at any step.
  `IndexNeverForgets`, `IndexCoversHeld` and `RevokedGrantIsGone` are for a disk
  without errors: `addToGrant` takes an index it cannot read for an empty one, which
  is listed under `hazards`.
- `Grace = 0` in `ConsentToTokens` and `TokensLive` lets a replay be a reuse one tick
  after the rotation; `TokensGrace` is about the window itself.
- In `Serving` the environments are single sign-on and the login form with a resource
  on a path and on the whole host, required groups, another password, another app
  name, machine access alone, two that the gate must refuse (2.x's `AUTH_HASH` alone, an
  entry that shadows a route) and two that it serves open (nothing set, and 2.x's managed
  hash). An edit goes to any of them, from any but the new password and the new name, which
  only an edit brings (`StartInit`). There are two subjects, and the user of the
  login form and the one the provider names differ, so that a mix-up of owners shows. The
  revocation spares one session, as a sign-out of the other devices does. Two kills cut
  the first boot and a second one.
  Two keys are enough for the one generated after the other was deleted. The paths
  are one for each stage of `Match` and for each pair of rules that compete for one.
- `MaxRegs = 2` lets one registration fail, or a restart register again.
- One request in `ConsentToTokens`: requests do not meet each other, and the theorems
  are about any number, and with `OneRequestAtATime` about this setting for any
  number of clients, requests, grants and crashes. Its two tabs make the two grants, the second at any time
  after the first.
- Two workers: every race here is between two requests. Three starts of the
  session store make two files written by one process and read by the next.
- `Sessions` has one session and two timer goroutines beside `main`: which of two copies is
  renamed last shows with one session in the older and not in the newer.
- `StartSpec` starts `SignOn` without required groups, so that the restart is
  what brings them.

Symmetry is used in the runs without liveness properties, over ids and workers
that no property names.

Fairness. `WF(Work(w))`: Go's scheduler runs every goroutine that can run.
`SF` on the two steps that take `grantMu`: a `sync.Mutex` in starvation mode
hands itself to the longest waiter. In the session store: the runtime fires
timers, goroutines run, `main` returns, and the supervisor (a container restart
policy) starts the gate again. In `Serving`, `WF(Boot)` is that policy and the progress of
one goroutine. Nothing is assumed of clients, clock, sweeper or
faults.

## 4. Proofs

For every value of the constants that satisfies the modules' assumptions
(`ConstantsAssumption`, `TimesAssumption`, `NoneAssumption`, `RequestsAssumption`,
`SessionAssumption`, `GateAssumption`, `RPAssumption`, `ServingAssumption`: what the
identifiers are drawn from does not overlap, durations are positive, a client id is
not a resource), so for any
number of clients, codes, tokens, workers, environments, paths, crashes and ticks:

- `BrokerTokensProofs`: `TypeCorrect`, `CodeIsSingleUse`, `OneCopy`. The inductive
  invariant adds to `TypeOK` that a step reads only what an earlier step set
  (`WellFormed`), that an id not drawn yet is nowhere (`Fresh`), that a document
  has one copy, the copy under a claim being in the claim file until it is read
  and in the handler after (`Exclusive`), and that a redeemed code has no file and
  no handler about to redeem it (`CodesOK`). Without `Fresh` a new document could
  meet an old claim; without `Exclusive` two handlers could both reach `issue`.
- `GrantProofs`: `Inherited` (`BoundToAuthorization`), `Ceiling`, `FirstIssue`,
  `MarkKept`. The invariant is about copies: a document is `Right` when it names who
  was authorized, has its grant's time of first issue and the ceiling that follows,
  and carries the mark of its rotation; every copy is, in a file, in a claim file or in a
  handler's memory (`CopiesRight`). The time of first issue is not a variable of
  the model but a function `f` the invariant says exists; `Drawn`, that a grant has
  tokens only once its code has been redeemed, lets the redemption choose `f` for it.
  `Checked` keeps what a handler found out until the step that relies on it:
  without it a rotation past the ceiling could be between `CheckRefresh` and `PutNext`.
  `RedemptionsLoseNothing` (`NothingLost`) adds, for redemptions without crashes, that every
  token a client holds, or a response is about to bring (`Coming`), is on disk or under the
  claim of a handler that will put it back (`Alive`, `Presenting`), and that no copy
  expires before the time the property is about (`LastingCopies`, and `Timely` for the
  one in a handler's hands). Its two
  conditions are what the code relies on without checking: no sweep takes a claim
  file that a request is about to read (`SweeperWaits`), and a token is presented
  again only within the grace (`RetriesInGrace`; a later replay revokes the grant).
- `RevocationProofs`: `GrantMuProtectsIndex`, when `MaxFaults = 0`. Whoever is between
  the lock and the unlock holds `grantMu`, and what `addToGrant` has read is still
  what the index says (`MuInv`), so that its write adds and forgets nothing.
  `HeldTokensAreIndexed` and `RevocationTakesTheGrant` (`IndexCoversHeld`,
  `RevokedGrantIsGone`) hold as long as no handler has a document of a grant in hand while a
  revocation destroys that grant (`RevokesAlone`). The invariant `RevInv` says that an
  index lists only tokens of its grant (`Listed`), that every held token on disk is
  listed (`Covered`), that whatever of the index `destroyGrant` no longer has to visit is off
  the disk (`Destroyed`), and that no token of a revoked grant is with a client or in a
  response to come while it is on disk or under a claim (`Gone`). `TokensRevokeRace` shows that the condition is needed.
  `DeletionTakesTheTokens` (`DeletedClientLeavesNoToken`) holds if no redemption or
  refresh by the client is under way when its deletion lists the tokens (`DeletesAlone`).
  `DelInv` says that each live token of a client being deleted is still in the
  listing to be visited (`Leaving`, `ToRemove`), and that nobody who has passed the
  authentication can put another (`Barred`). One request at a time meets both
  conditions (`OneAtATime`).
- `OneTimeDocsProofs`: `HandlersImplementStore`, that every step of `Spec` is a step of the
  abstract store under `BrokerTokensProperties`' mapping, or changes nothing there,
  action by action. It rests on `Exclusive`: the holder the abstract store names is
  the one handler that claims the document (`OneHolder`).
- `AuthorizationProofs`: `ConsentTypes`, `OneConsentOneCode`, `CodeKeepsItsRequest`,
  `ConsentedCodeIsSingleUse`. Every step of the composition is a step of
  `BrokerTokens`, a registration, or leaves the token endpoint alone, so its
  invariant carries over (`TokensKept`). For consents the invariant adds `OneTab`:
  a request that nothing disturbed is in one tab at most, and once a code exists
  for it, it is gone or that tab is about to remove it; without the second part
  a page opened between the put and the removal could not be told from the first
  one. `Answered` ties codes to requests that were validated.
  The grant and revocation invariants carry over too, because a registration draws an
  id that was never registered (`IdsDrawn`), so that a deleted client does not
  return: `TokensFollowConsent` (`BoundToAuthorization`), `AloneKeepsPromises` and
  `OneRequestAtATime` (`IndexCoversHeld`, `RevokedGrantIsGone` and
  `DeletedClientLeavesNoToken` in the composition, under the conditions above).
- `SessionStoreProofs`: `SessionTypes`, `DebounceKeepsUp`. The invariant says that
  whatever the map has gained or lost since the latest copy is under a handler
  about to call `saveSoon`, an armed timer, or a flush that has not copied yet
  (`Covered`), and that the main goroutine flushes only once the store is closed
  (`MainWaits`), for it could otherwise take the last place of such a flush.
  `EndedSessionsStayEnded` and `RestartsLogNobodyOut` (`RevokedStaysRevoked`,
  `NobodyLoggedOut`) hold for flushes that overlap in any way, unless a start has loaded a file in
  which an older copy was renamed over a newer one; `SessionsOverlap` shows that case. Their
  invariant (`RestInv`) follows what browsers were told, `Sound`, from the map to
  `Close`'s copy, to the file of an orderly stop and to the map of the next start. Its part
  `Faithful` says that any other copy still in a flush's hands by then is as sound
  as `Close`'s or behind it, so that only a stale rename can spoil the file.
- `RelyingPartyProofs`: `SignOnTypes`, `LoginOnce`, `ExchangeKeepsPromise`, `MintedSessionsWork`,
  `LoggedOutIsOut`, `RevokedIsOut`, `OthersAreSpared`. Four invariants over the
  types: that only the holder of `regMu` is registering, that a request past `ensure`
  carries the registration of the process (`Registered`) and that every login in flight was
  begun with it (`FlowsCurrent`), so that the client and address of an exchange are
  those of its authorization request; that a state is in one place, in flight or in one callback
  (`OnePlace`); that a session has the password or the groups that the configuration it was made
  under asks for, whichever is running (`AdmittedWhenMade`), so that it works when that one is
  back (`UsableWhereMade`); and that what has been logged out or revoked is in no
  session and in no callback that did not overlap with it (`EndedIsOut`).
- `ServingProofs`: `ServingTypes`, `TokensSurvive`, `NobodyElsePasses`, `RoutesAreOwn`,
  `DoorsStayApart`, `HeadersAreTheOwners`. The invariant says that a process runs
  under the environment of the container, which it accepted (`FollowsEnvironment`),
  that the key in memory is the one on disk if there is one (`KeyOnDisk`), and that a
  token nobody gave up still has its key and issuer on disk, so that no boot can be
  about to write either (`KeyStands`): without the last part a boot could be between
  `LoadKey` and `PersistKey` with a new key. What goes through is then a matter of
  operators, for every path and environment (`BelowIsUnder`, `BypassIsPublic`,
  `UsableIsGood`): `NobodyElsePasses` has as its one exception an environment that names 2.x's
  managed hash and nothing else (`ManagedHashOnly`). For the headers, `WhoPasses` finds the one
  credential a request passes with, and `UntoldIsCleared` and `ToldIsSaid` say what each
  managed header and the assertion make of it.

The conditions in these theorems are about behaviours (`[]RevokesAlone`,
`[]DeletesAlone`, `[][SweeperWaits]_vars`, `[]RetriesInGrace`) and not
about constants. Each names one overlap that the code does not exclude, and the theorem says
that no other does harm. `MaxFaults = 0` is a disk without errors, and
`MaxCrashes = 0` in `RedemptionsLoseNothing` is a process that is not killed: a token under
a claim does not survive a kill.

Only model-checked: liveness (`RequestAnswered`, `RevocationReachesDisk`, `ComesUp`),
which needs ENABLED and is out of reach of these provers. Every safety property that a
passing run checks is stated by a theorem. The runs go on checking them because they show
that the hypotheses are met and the interesting cases occur.

## 5. Where code and words differ

Those a run shows are in `PROJECT.json` under `findings`. Met while reading,
without a run:

- admin.go:182 tells the operator that a deleted client's "tokens stop working
  immediately"; access tokens are verified by signature and expiry (broker.go:443)
  and work until they expire.
- broker.go:61 says the grace window lets a client that retried succeed; while the
  first request is in flight the token is in a claim file and the retry is refused.
- store.go:321 calls what the sweeper removes abandoned; it goes by an mtime the
  rename keeps, so a token last written over an hour ago can be swept while its
  claim is being read. `RedemptionsLoseNothing` has this as its condition `SweeperWaits`.
- A session made by the login form is admitted under single sign-on as long as
  `USER` and `PASSWORD` are still set.
- `ensure` says a failure is not cached; the registrar's origins are adopted
  before a discovery that may fail, and stay.
- The router's comment at router.go:172 excludes `/mcpx` from `/mcp`;
  `ServeHTTP` (router.go:213) uses a plain prefix, which changes only the kind of
  challenge.
- router.go:105-108 says a protected resource must not be reachable through
  `ALLOWED_PATHS`; when the resource is the whole host (`OAuthProtectedPath` is `/`) that
  stage is skipped and the bypass rules open their paths. `OnlyTheAdmittedPass` is
  stated accordingly.
- main.go:92 has the gate accept the broker's tokens "on the protected path";
  `Authenticate` (authn.go:59) accepts them on every gated path.
- config.go:263 warns that required groups "will not be enforced" without OIDC;
  they still end sessions that an earlier single sign-on left (authn.go:124).
- The root README (line 601) gives `ALLOWED_PATHS: "login,..."` as an example, which
  `bypassPaths` (config.go:411) refuses at boot.
- config.go:255 offers `OAUTH_RESOURCE` as the only authentication; the interaction
  page (broker.go:361) then redirects to `/nhl-auth/oidc/login`, a route that
  exists only in OIDC mode, so that no consent can be given.
- The discovery document names an `end_session_endpoint` (discovery.go:22) that no
  handler serves.
- `requireHuman` (admin.go:26) and `humanSubject` look up the session without the
  checks of `Authenticate` and admit sessions that it would refuse.
- Introspection (token.go:359) reports any unexpired token of the issuer active,
  ID tokens and tokens for another resource included.
- Without `APP_NAME` the issuer follows the host name (config.go:157), which a container
  created again does not keep; the broker then refuses to boot.

## 6. Plan

1. (done) `BrokerTokens` with `OneTimeDocs`; `SessionStore`; `Gate` and
   `RelyingParty` composed; the first theorems.
2. (done) `Authorization`, composed with `BrokerTokens` in place of `MintCode`, and
   its theorems; disk errors in `BrokerTokens`. Left: introspection, and the
   gate's sessions behind `HumanSubject`.
3. (done) `Configuration`, `Router`, `Identity` and the boot, composed in `Serving`,
   and its theorems.
4. (done) Theorems about `RelyingParty` and about grants.
5. (done) The refinement `ImplementsOneTimeDocs`, and theorems about revocation, deletion,
   lost tokens and orderly stops, in the token endpoint and in the composition.
6. Left: what crashes can lose, as a theorem that bounds it (at most the documents that were
   under a claim); `RedemptionsLoseNothing` in the composition with consents; the same
   kind of composition for `Serving` and `RelyingParty`.

### Not modelled

- Reverse proxy: the rewriting of headers and of `Location` is a function of one message
  and keeps nothing; what it carries for the gate, the identity headers, is in `Identity`.
- Discovery documents: constants of the configuration.
- JOSE: encodings and signature arithmetic. A signature is taken as valid exactly
  when the key made it; which header, issuer, audience and expiry a verifier asks for is in
  `Identity`.
- Configuration: the parsing of numbers, durations and URLs, and warnings.
- Process wiring: timeouts of the servers and the log.
- Static pages and assets: no state. 2.x gate: not in the image that is built.
