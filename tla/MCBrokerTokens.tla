--------------------------- MODULE MCBrokerTokens ---------------------------
(* Instances of BrokerTokens for TLC.                                      *)
EXTENDS BrokerTokensProperties, TLC

\* Workers and token ids are interchangeable; used where no liveness property
\* is checked.
TokenSymmetry == Permutations(Tokens)
Symmetry == Permutations(Workers) \cup TokenSymmetry

\* Go's scheduler runs every goroutine that can run, and a sync.Mutex in
\* starvation mode hands itself to the longest waiter, so a handler waiting for
\* grantMu is served even when others keep taking it.
FairSpec ==
    /\ Spec
    /\ \A w \in Workers :
         /\ WF_vars(Work(w))
         /\ SF_vars(GrantRead(w) \/ RevokeLock(w))

=============================================================================
