---------------------------- MODULE OneTimeDocs ----------------------------
(***************************************************************************)
(* What the file store promises about single-use documents, with no files: *)
(* a document is created once, is taken by at most one holder at a time,   *)
(* and comes back only from the holder that took it, and only if it is of  *)
(* a kind that may be used again.                                          *)
(***************************************************************************)
CONSTANTS
    Docs,
    OneTime,  \* the documents that can be taken once only
    Holders,
    None      \* no holder

VARIABLES
    stored,   \* documents that can be taken
    holder,   \* who has taken a document, or None
    created   \* documents that have ever been stored

vars == <<stored, holder, created>>

Init ==
    /\ stored = {} /\ created = {}
    /\ holder = [d \in Docs |-> None]

Create(d) ==
    /\ d \notin created
    /\ created' = created \cup {d}
    /\ stored' = stored \cup {d}
    /\ UNCHANGED holder

Take(h, d) ==
    /\ d \in stored /\ holder[d] = None
    /\ stored' = stored \ {d}
    /\ holder' = [holder EXCEPT ![d] = h]
    /\ UNCHANGED created

Return(h, d) ==
    /\ holder[d] = h /\ d \notin OneTime
    /\ stored' = stored \cup {d}
    /\ holder' = [holder EXCEPT ![d] = None]
    /\ UNCHANGED created

\* Holders give up what they took, one of them or, in a crash, all.
GiveUp(S) ==
    /\ holder' = [d \in Docs |-> IF d \in S THEN None ELSE holder[d]]
    /\ UNCHANGED <<stored, created>>

\* Revocation or expiry.
Remove(S) ==
    /\ stored' = stored \ S
    /\ UNCHANGED <<holder, created>>

Next ==
    \/ \E d \in Docs : Create(d) \/ \E h \in Holders : Take(h, d) \/ Return(h, d)
    \/ \E S \in SUBSET Docs : GiveUp(S) \/ Remove(S)

Spec == Init /\ [][Next]_vars

=============================================================================
