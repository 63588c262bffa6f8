------------------------------ MODULE Identity ------------------------------
(***************************************************************************)
(* internal/identity and internal/jose: the headers that tell the backend  *)
(* who the gate let in, and who accepts which signed token.                *)
(*                                                                         *)
(* One header stands for each field of an identity and each way a header   *)
(* can be managed.  A token is what is signed, with the algorithm its      *)
(* header names and the key that made the signature.                       *)
(***************************************************************************)
EXTENDS Absent, Naturals

CONSTANTS
    AssertionTTL,       \* IDENTITY_ASSERTION_TTL_SECONDS
    ControlMaxLifetime, \* 300 seconds
    Skew                \* 30 seconds

Nobody == [method |-> None, sub |-> None, user |-> None, groups |-> None]

emitted ==
    {<<"Remote-User", "user">>, <<"Remote-Groups", "groups">>,
     <<"X-AppShield-Method", "method">>, <<"X-AppShield-Sub", "sub">>}

alsoCleared == {"X-AppShield-User", "X-AppShield-Assertion"}

Managed == {e[1] : e \in emitted} \cup alsoCleared

Clear(h) == [x \in DOMAIN h |-> IF x \in Managed THEN None ELSE h[x]]

firstOf(a, b) == IF a # None THEN a ELSE b

MintAssertion(c, id, now) ==
    [alg |-> "HS256", key |-> c.secret, iss |-> "appshield",
     aud |-> firstOf(c.app, "appshield"),
     sub |-> firstOf(id.sub, firstOf(id.user, id.method)),
     iat |-> now, exp |-> now + AssertionTTL]

Apply(c, id, h, now) ==
    IF ~c.headers \/ id.method = None THEN Clear(h)
    ELSE [x \in DOMAIN h |->
            IF \E e \in emitted : e[1] = x
            THEN id[(CHOOSE e \in emitted : e[1] = x)[2]]
            ELSE IF x = "X-AppShield-Assertion" /\ c.secret # None
            THEN MintAssertion(c, id, now)
            ELSE Clear(h)[x]]

\* jose.Verify: the algorithm is pinned.
Verify(tok, key) == tok.alg = "RS256" /\ tok.key = key

\* Fault: only the audience tells a control token from an assertion.
VerifyControlTokenByAudience(c, tok, now) ==
    /\ c.secret # None
    /\ tok.alg = "HS256" /\ tok.key = c.secret
    /\ tok.aud = "appshield-control"
    /\ tok.iat # 0 /\ tok.exp # 0
    /\ tok.exp - tok.iat <= ControlMaxLifetime
    /\ now < tok.exp /\ now + Skew >= tok.iat

VerifyControlToken(c, tok, now) ==
    /\ c.secret # None
    /\ tok.alg = "HS256" /\ tok.key = c.secret
    /\ tok.iss = "appshield-backend" /\ tok.aud = "appshield-control"
    /\ tok.iat # 0 /\ tok.exp # 0
    /\ tok.exp - tok.iat <= ControlMaxLifetime
    /\ now < tok.exp /\ now + Skew >= tok.iat

=============================================================================
