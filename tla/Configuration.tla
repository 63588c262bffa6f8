---------------------------- MODULE Configuration ----------------------------
(***************************************************************************)
(* internal/config: what the container's environment makes of the gate.    *)
(*                                                                         *)
(* An environment is a record of what is set.  A path is the sequence of   *)
(* its segments: "/" is <<"">>, "/mcp" is <<"mcp">>, "/mcp/" is            *)
(* <<"mcp", "">>.  An ALLOWED_PATHS entry has lost its outer slashes, so   *)
(* "/" has become <<>>.                                                    *)
(*                                                                         *)
(* parses: the numbers, durations, sizes and the URL do.  login: USER and  *)
(* PASSWORD are both set; hash is made of them, whatever they are.         *)
(* grouped: OIDC_REQUIRED_GROUPS is not empty.  app: APP_NAME, or the      *)
(* hostname.  What is left of 2.x: retired, AUTH_HASH or                   *)
(* CREDENTIAL_VALIDATE_URL is set; managed, AUTH_HASH_MODE is managed, so  *)
(* that 2.x drew the hash itself and AUTH_HASH may be empty.               *)
(***************************************************************************)
EXTENDS Absent, Sequences

CONSTANTS
    OriginOf,   \* "https://<app>-<first suffix>", by app name
    OriginIn,   \* scheme and host of an OAUTH_RESOURCE
    PathIn      \* its path, or None

\* Compared without regard to case.
reservedPaths == {"health", "login", "nhl-auth", "AppShield"}

Shadows(entry) == entry # <<>> /\ entry[1] \in reservedPaths

\* Mode derivation: single sign-on wins outright.
Mode(e) ==
    IF e.registrar THEN "oidc"
    ELSE IF e.login THEN "credentials"
    ELSE "none"

\* The only authentication asked for has been removed from the program; e.managed
\* is warned of and does not count.
Unprotected(e) == e.retired /\ Mode(e) = "none" /\ e.resource = None

Refused(e) ==
    ~e.parses \/ (\E p \in e.allowed : Shadows(p)) \/ Unprotected(e)

\* CanonicalOrigin, which is also the OAuth issuer.
Issuer(e) ==
    IF e.app # None /\ e.suffixed THEN OriginOf[e.app]
    ELSE IF e.resource # None THEN OriginIn[e.resource]
    ELSE None

OAuthProtectedPath(e) ==
    IF e.resource = None \/ PathIn[e.resource] = None
    THEN <<"">> ELSE PathIn[e.resource]

\* OAuthEnabled is resource # None.
Load(e) ==
    [mode |-> Mode(e), user |-> e.user, hash |-> e.hash, grouped |-> e.grouped,
     app |-> e.app, origin |-> Issuer(e), headers |-> e.headers, secret |-> e.secret,
     resource |-> e.resource, protected |-> OAuthProtectedPath(e),
     allowed |-> e.allowed \ {<<>>}, extensions |-> e.extensions,
     hashContent |-> e.hashContent]

=============================================================================
