----------------------- MODULE RelyingPartyProperties -----------------------
(* What single sign-on and the control API promise.                        *)
EXTENDS RelyingParty

\* A login leads to one session at most, however often and however fast its
\* callback is opened (handleCallback: "single use").
StateUsedOnce == \A st \in States : uses[st] <= 1

\* A code is redeemed with the client and the redirect_uri its authorization
\* request was sent with, although both are worked out again at the callback
\* from a registration other requests may have made (ensure, chosenOrigin).
ExchangeMatchesAuthorization ==
    \A w \in Workers : At(w, "exchange") =>
      LET out == sent[job[w].state] IN
        /\ job[w].client = out.client
        /\ chosenOrigin(job[w].origin) = out.origin

\* Once a logout token naming a provider session has been answered 200, no gate
\* session of it is left and none appears, unless a login of that session was
\* between its ID token and its session at that instant (applyLogoutToken).
LoggedOutStaysOut ==
    \A i \in Live : sessions[i].sid \notin loggedOut

\* A logout token that names a provider session spares the same user's other
\* ones: no session with a sid goes away over the back channel while its own
\* provider session is live, unless the token had no sid (README.md: "a user
\* signed in on a phone and a laptop only loses the one they signed out of").
OtherDevicesStay ==
    [][loggedOut' # loggedOut =>
         \A i \in Live : sessions[i].sid \in live => sessions'[i] # None]_vars

\* While the configuration is the one a session was made under, restarts in
\* between included, the session is good for as long as it lives: its password
\* is the one set, its groups are those asked for (handleLogin; handleCallback:
\* "Refuse before minting: leaving an unusable cookie behind would make every
\* later request a 403 the user cannot clear").  A session made under another
\* configuration may be left at 403 until its user follows the sign-out link.
UsableWhereMade ==
    \A i \in Live : madeUnder[i] = config =>
      \/ sessions[i].sub = None /\ sessions[i].hash = config.hash
      \/ /\ sessions[i].sub # None
         /\ config.grouped => sessions[i].claims # None /\ sessions[i].claims.member

\* Once the revocation of a subject has been answered, no session of that
\* subject is left, 2.x ones included, until it signs in again, unless a login
\* of that subject was between its ID token and its session at that instant
\* (handleRevoke).
RevokedSubjectIsOut ==
    \A i \in Live : sessions[i].sub \notin revoked

-----------------------------------------------------------------------------
(* What the comments and the README say, and the code does not do.         *)

\* oidcrp.go:485-486, of a back-channel logout without a registration: "Nobody has
\* logged in here yet, so we have no keys to verify with".
UnregisteredMeansNoLogin == reg = 0 => \A i \in Ids : ~IsOIDC(i)

\* README.md:265: "sub and user can be combined (a session matching either is
\* revoked)".
CombinedRevokesEither ==
    [][revoked' # revoked /\ job' = job =>
         \E r \in Requests : \A i \in Live \ r.except :
           \/ sessions[i].sub = r.sub
           \/ sessions[i].claims # None /\ sessions[i].claims.user = r.user
           => sessions'[i] = None]_vars

=============================================================================
