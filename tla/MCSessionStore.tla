--------------------------- MODULE MCSessionStore ---------------------------
(* Instances of SessionStore for TLC.                                      *)
EXTENDS SessionStoreProperties, TLC

\* Handlers, timer goroutines and created sessions are interchangeable; used
\* where no liveness property is checked.
Symmetry ==
    Permutations(Workers) \cup Permutations(Flushers) \cup
    Permutations(Ids \ Orphans)

=============================================================================
