----------------------- MODULE AuthorizationProperties ----------------------
(***************************************************************************)
(* What the interaction page promises, over requests answered in several   *)
(* tabs, restarts, and clients that are deleted meanwhile.                 *)
(***************************************************************************)
EXTENDS Authorization, BrokerTokensProperties

\* One consent, one code: a request yields a second code only if it was open in
\* two tabs at once, or could not be removed after its first (handleInteraction
\* removes the request once the code is stored).
OneCodePerRequest ==
    \A j, k \in Codes :
      answers[j] # None /\ answers[j] = answers[k] /\ answers[j] \notin disturbed
        => j = k

\* A code waiting at the token endpoint names the client and the binding its
\* request was validated for, and those belong to one registration, whatever
\* happened to the client since (allowsRedirect's comment: "a loose comparison
\* here is how authorization codes get stolen").
CodeFollowsRequest ==
    \A k \in Codes : file[k] # None =>
      /\ answers[k] # None
      /\ asked[answers[k]] = <<file[k].client, file[k].bind>>
      /\ asked[answers[k]] \in Registered

=============================================================================
