----------------------- MODULE SessionStoreProperties -----------------------
(* What the session store promises its callers and the operator.           *)
EXTENDS SessionStore

\* No mutation is swallowed by the debounce: while the store is open, if the
\* map is not the one the latest flush copied, a flush that has not copied it
\* yet is on its way (saveSoon: "a mutation that lands during the write
\* schedules another pass rather than being swallowed").
NoMutationSwallowed ==
    phase = "up" /\ (\A w \in Workers : job[w].pc = "idle") =>
      \/ sessions = copied
      \/ saveTimer
      \/ \E f \in Flushers : flush[f].pc \in {"fired", "marshal"}

\* Every stop so far has gone through Close, and every file access has worked.
Undisturbed == crashes = 0 /\ faults = 0

\* And no start has loaded a file in which an older copy of the map had been
\* renamed over a newer one.  Nothing in Flush prevents that.
Orderly == Undisturbed /\ stale # "map"

\* A session whose end was answered never comes back, restarts included, however
\* many flushes overlap, unless one of them overwrote a newer file before the
\* restart (Flush, Close, load).
RevokedStaysRevoked == Orderly => revoked \cap sessions = {}

\* A restart logs nobody out: a session handed to a browser is there until it
\* expires or is ended, with the same exception (Close: "performs a final
\* synchronous write").
NobodyLoggedOut ==
    Orderly /\ phase = "up" =>
      \A i \in opened \ ended : i \in sessions \/ Expired(i)

\* The end of a session reaches the disk without waiting for a restart, through
\* flushes that overlap and last as they like, unless an older copy overwrites a
\* newer one, or the disk or the process fails (saveSoon, Flush).
RevocationReachesDisk ==
    \A i \in Ids : i \in revoked ~> i \notin file \/ stale # "no" \/ ~Undisturbed

-----------------------------------------------------------------------------
(* What the README says, and the code does not do.                         *)

\* README.md:267: "Deletions persist to SESSIONS_FILE, so a revocation is not
\* undone by a gate restart".
DeletionsPersist == Undisturbed => revoked \cap sessions = {}

=============================================================================
