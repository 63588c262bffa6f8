----------------------------- MODULE MCServing -----------------------------
(* An instance of Serving for TLC: one deployment and the ways its         *)
(* environment is edited.                                                  *)
EXTENDS ServingProperties, TLC

CONSTANTS h0, h1, h2, u1, n1, n2, o1, o2, r1, r2, l1, secret

Base == [parses |-> TRUE, registrar |-> FALSE, login |-> FALSE, user |-> None,
         hash |-> h0, grouped |-> FALSE, retired |-> FALSE, managed |-> FALSE,
         app |-> "app", suffixed |-> TRUE, resource |-> None, allowed |-> {},
         extensions |-> {}, hashContent |-> FALSE, headers |-> TRUE, secret |-> secret]

\* Single sign-on and a resource on /mcp, which a bypass rule would open.
SSO == [Base EXCEPT !.registrar = TRUE, !.login = TRUE, !.user = n1,
                    !.hash = h1, !.resource = r1,
                    !.allowed = {<<"mcp">>, <<"about">>}, !.extensions = {"css"}]
\* The same with required groups, without identity headers.
Grouped == [SSO EXCEPT !.grouped = TRUE, !.headers = FALSE]
\* The login form, and its next password; the resource is the whole host.
Form == [Base EXCEPT !.login = TRUE, !.user = n1, !.hash = h1, !.resource = r2,
                     !.hashContent = TRUE]
NewPassword == [Form EXCEPT !.hash = h2, !.allowed = {<<>>}]
\* Another app name: another issuer, and the audience of control tokens.
Renamed == [SSO EXCEPT !.app = "appshield-control"]
\* Machine access only; the issuer is the resource's origin.
Machine == [Base EXCEPT !.resource = r2, !.suffixed = FALSE]
\* A 2.x gate with a hash only, given or drawn by itself, an entry that shadows
\* a route, and no gate.
Retired == [Base EXCEPT !.retired = TRUE]
OwnHash == [Base EXCEPT !.managed = TRUE]
Shadowing == [Base EXCEPT !.login = TRUE, !.allowed = {<<"login", "x">>}]
Open == Base

MCEnvs == {SSO, Grouped, Form, NewPassword, Renamed, Machine, Retired, OwnHash,
           Shadowing, Open}
MCConfigs == {Load(e) : e \in {e \in MCEnvs : ~Refused(e)}}

MCOriginOf == [a \in {"app", "appshield-control"} |-> IF a = "app" THEN o1 ELSE o2]
MCOriginIn == [r \in {r1, r2} |-> o1]
MCPathIn == [r \in {r1, r2} |-> IF r = r1 THEN <<"mcp">> ELSE None]

MCPaths == {<<"">>, <<"mcp">>, <<"mcp", "app.css">>, <<"mcpx">>, <<"about", "us">>,
            <<"login", "app.css">>, <<"AppShield", "app.css">>, <<"abcd", "v">>}
MCExtends == {<<"mcp", "mcpx">>}
MCHasSuffix == {<<"app.css", "css">>}

\* A user is signed out of every device but one.
BySub == {[sub |-> u1, user |-> None, all |-> FALSE, except |-> {l1}]}
LegacyU1 == [i \in Legacy |-> u1]

\* Another password and another name are what an edit brings.
StartInit == Init /\ env \notin {NewPassword, Renamed}

\* The container's restart policy starts the gate again, and a goroutine that
\* can run does.
FairSpec == StartInit /\ [][Next]_vars /\ WF_vars(Boot)

=============================================================================
