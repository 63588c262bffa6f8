---------------------------- MODULE SessionStore ----------------------------
(***************************************************************************)
(* internal/session: who is logged in, in a map guarded by mu, written to  *)
(* SESSIONS_FILE behind a debounce guarded by saveMu, and read back when   *)
(* the gate starts.  cmd/appshield closes the store when it is told to     *)
(* stop.                                                                   *)
(*                                                                         *)
(* A session never changes once created, so the map and the file are sets  *)
(* of ids and an id's expiry is kept on the side.  Handlers mutate the map *)
(* under mu and arm the debounce under saveMu, in two steps; a flush takes *)
(* its copy under mu and renames it into place later, in two more.  Several*)
(* flushes can be under way at once.                                       *)
(***************************************************************************)
EXTENDS Naturals

CONSTANTS
    Ids,         \* session ids
    Orphans,     \* those a 2.x file holds whose only credential was AUTH_HASH
    Workers,     \* request goroutines, and the hourly sweeper
    Flushers,    \* timer goroutines running the debounced write
    Main,        \* the main goroutine, which runs Close
    Life,        \* SessionDuration
    MaxTime, MaxStarts, MaxCrashes, MaxFaults   \* bounds

ASSUME SessionAssumption ==
    /\ Orphans \subseteq Ids /\ Main \notin Flushers
    /\ Life \in Nat \ {0}
    /\ {MaxTime, MaxStarts, MaxCrashes, MaxFaults} \subseteq Nat

VARIABLES
    now,
    phase,       \* "up", "closing" after Close has set closed, "down"
    sessions,    \* the map
    file,        \* the ids in SESSIONS_FILE; empty when it is missing
    expires,     \* an id's expiry; 0 = not created yet
    saveTimer,   \* saveTimer # nil
    flush,       \* the flushes under way and the copy each has taken
    job,         \* handlers between their mutation and saveSoon
    starts, crashes, faults,
    \* History.
    opened,      \* ids handed to a browser before the store was closed
    ended,       \* ids removed from the map
    revoked,     \* ids whose removal was answered before the store was closed
    copied,      \* the map at the latest flush, or at the start
    older,       \* for a flush under way, those that copied before it
    behind,      \* flushes with an older copy than one renamed already
    stale        \* "file" while a rename has put an older copy over a newer
                 \* one, "map" once a start has loaded it

bounds == <<starts, crashes, faults>>
order  == <<older, behind, stale>>
ghost  == <<opened, ended, revoked, copied, order>>
vars   == <<now, phase, sessions, file, expires, saveTimer, flush, job,
            bounds, ghost>>

Routines == Flushers \cup {Main}
NoFlush == [pc |-> "idle", copy |-> {}]
NoJob   == [pc |-> "idle", opens |-> {}, ends |-> {}]

TypeOK ==
    /\ now \in Nat /\ {starts, crashes, faults} \subseteq Nat
    /\ phase \in {"up", "closing", "down"}
    /\ sessions \subseteq Ids \ Orphans /\ file \subseteq Ids
    /\ expires \in [Ids -> Nat]
    /\ saveTimer \in BOOLEAN
    /\ flush \in [Routines -> [pc: {"idle", "fired", "marshal", "write", "done"},
                               copy: SUBSET Ids]]
    /\ job \in [Workers -> [pc: {"idle", "save"},
                            opens: SUBSET Ids, ends: SUBSET Ids]]
    /\ {opened, ended, revoked, copied} \subseteq SUBSET Ids
    /\ older \in [Routines -> SUBSET Routines] /\ behind \subseteq Routines
    /\ stale \in {"no", "file", "map"}

Init ==
    /\ now = 1 /\ phase = "down"
    /\ sessions = {} /\ file = Orphans
    /\ expires = [i \in Ids |-> IF i \in Orphans THEN Life ELSE 0]
    /\ saveTimer = FALSE
    /\ flush = [f \in Routines |-> NoFlush]
    /\ job = [w \in Workers |-> NoJob]
    /\ starts = 0 /\ crashes = 0 /\ faults = 0
    /\ opened = {} /\ ended = {} /\ revoked = {} /\ copied = {}
    /\ older = [f \in Routines |-> {}] /\ behind = {} /\ stale = "no"

Expired(i) == expires[i] < now

\* Fault: the session expiring at this instant is dropped.
LoadedEarly(S) == {i \in S : i \notin Orphans /\ expires[i] > now}

\* Fault: a session is loaded whatever its credential.
LoadedAnyCredential(S) == {i \in S : ~Expired(i)}

\* load(): expired sessions and those without a usable credential are dropped.
Loaded(S) == {i \in S : i \notin Orphans /\ ~Expired(i)}

-----------------------------------------------------------------------------
(* Handlers.  Once the process is told to stop no request is accepted, but *)
(* one that outlasts Shutdown's ten seconds still runs.                    *)

Idle(w) == phase # "down" /\ job[w].pc = "idle"

Create(w, i) ==
    /\ Idle(w) /\ expires[i] = 0 /\ i \notin Orphans
    /\ expires' = [expires EXCEPT ![i] = now + Life]
    /\ sessions' = sessions \cup {i}
    /\ job' = [job EXCEPT ![w] = [pc |-> "save", opens |-> {i}, ends |-> {}]]
    /\ UNCHANGED <<now, phase, file, saveTimer, flush, bounds, ghost>>

\* Fault: a removal is left for the next login to save.
SavesNone(gone) == FALSE

Saves(gone) == gone # {}

\* What Delete and Revoke share: nothing to save if nothing went.
Remove(w, S) ==
    /\ Idle(w)
    /\ LET gone == S \cap sessions IN
         /\ sessions' = sessions \ S
         /\ ended' = ended \cup gone
         /\ \/ /\ Saves(gone)
               /\ job' = [job EXCEPT ![w] =
                            [pc |-> "save", opens |-> {}, ends |-> gone]]
               /\ UNCHANGED revoked
            \/ /\ ~Saves(gone)
               /\ revoked' = IF phase = "up" THEN revoked \cup gone ELSE revoked
               /\ UNCHANGED job
    /\ UNCHANGED <<now, phase, file, expires, saveTimer, flush, bounds,
                   opened, copied, order>>

Delete(w, i) == Remove(w, {i})

\* The predicate is evaluated under mu: any set of sessions may match it.
Revoke(w, S) == Remove(w, S)

\* Get: an expired session is deleted and reported missing.
Get(w, i) == i \in sessions /\ Expired(i) /\ Delete(w, i)

Sweep(w) == Remove(w, {i \in sessions : Expired(i)})

\* Fault: a write under way is taken to cover this mutation.
ArmedUnlessWriting ==
    phase = "up" /\ (saveTimer \/ \A f \in Routines : flush[f].pc = "idle")

\* What saveSoon leaves in saveTimer.
Armed == saveTimer \/ phase = "up"

saveSoon(w) ==
    /\ job[w].pc = "save"
    /\ saveTimer' = Armed
    /\ opened' = IF phase = "up" THEN opened \cup job[w].opens ELSE opened
    /\ revoked' = IF phase = "up" THEN revoked \cup job[w].ends ELSE revoked
    /\ job' = [job EXCEPT ![w] = NoJob]
    /\ UNCHANGED <<now, phase, sessions, file, expires, flush, bounds,
                   ended, copied, order>>

-----------------------------------------------------------------------------
(* The debounced write.                                                    *)

\* The timer goes off and its function waits for saveMu.
Fire(f) ==
    /\ saveTimer /\ flush[f].pc = "idle"
    /\ \A g \in Flushers : flush[g].pc # "fired"
    /\ flush' = [flush EXCEPT ![f].pc = "fired"]
    /\ UNCHANGED <<now, phase, sessions, file, expires, saveTimer, job,
                   bounds, ghost>>

\* "The timer is cleared before the write runs".
ClearTimer(f) ==
    /\ flush[f].pc = "fired"
    /\ saveTimer' = FALSE
    /\ flush' = [flush EXCEPT ![f].pc = "marshal"]
    /\ UNCHANGED <<now, phase, sessions, file, expires, job, bounds, ghost>>

Writing == {f \in Routines : flush[f].pc = "write"}

\* Flush: copy the map under mu ...
Marshal(f) ==
    /\ flush[f].pc = "marshal"
    /\ flush' = [flush EXCEPT ![f] = [pc |-> "write", copy |-> sessions]]
    /\ copied' = sessions
    /\ older' = [older EXCEPT ![f] = Writing]
    /\ UNCHANGED <<now, phase, sessions, file, expires, saveTimer, job, bounds,
                   opened, ended, revoked, behind, stale>>

Written(f) ==
    /\ flush' = [flush EXCEPT ![f] = [NoFlush EXCEPT
                   !.pc = IF f = Main THEN "done" ELSE "idle"]]
    /\ older' = [g \in Routines |-> IF g = f THEN {} ELSE older[g] \ {f}]
    /\ UNCHANGED <<opened, ended, revoked, copied>>

\* ... write it to a temporary file, sync, rename.
Rename(f) ==
    /\ flush[f].pc = "write"
    /\ file' = flush[f].copy
    /\ behind' = (behind \cup older[f]) \ {f}
    /\ stale' = IF stale = "map" THEN "map" ELSE IF f \in behind THEN "file" ELSE "no"
    /\ Written(f)
    /\ UNCHANGED <<now, phase, sessions, expires, saveTimer, job, bounds>>

\* A failed write is logged, by the timer's function or by main, and dropped.
WriteFails(f) ==
    /\ flush[f].pc = "write" /\ faults < MaxFaults
    /\ faults' = faults + 1
    /\ behind' = behind \ {f}
    /\ Written(f)
    /\ UNCHANGED <<now, phase, sessions, file, expires, saveTimer, job,
                   starts, crashes, stale>>

\* Fault: the pending write is cancelled and nothing takes its place.
CloseWithoutFlush ==
    /\ phase = "up"
    /\ phase' = "closing"
    /\ saveTimer' = FALSE
    /\ flush' = [flush EXCEPT ![Main].pc = "done"]
    /\ UNCHANGED <<now, sessions, file, expires, job, bounds, ghost>>

\* Close: a timer that has not gone off is stopped; a function that has
\* started is not, and flushes as well.
Close ==
    /\ phase = "up"
    /\ phase' = "closing"
    /\ saveTimer' = FALSE
    /\ flush' = [flush EXCEPT ![Main].pc = "marshal"]
    /\ UNCHANGED <<now, sessions, file, expires, job, bounds, ghost>>

-----------------------------------------------------------------------------
(* The process stops and starts.                                           *)

Halt ==
    /\ phase' = "down"
    /\ sessions' = {} /\ saveTimer' = FALSE
    /\ flush' = [f \in Routines |-> NoFlush]
    /\ job' = [w \in Workers |-> NoJob]
    /\ older' = [f \in Routines |-> {}] /\ behind' = {}
    /\ UNCHANGED <<now, file, expires, starts, faults, opened, ended, revoked,
                   copied, stale>>

\* Close has returned: main returns.
Exit == flush[Main].pc = "done" /\ Halt /\ UNCHANGED crashes

Crash ==
    /\ phase # "down" /\ crashes < MaxCrashes
    /\ crashes' = crashes + 1
    /\ Halt

OpenWith(S) ==
    /\ phase = "down" /\ starts < MaxStarts
    /\ starts' = starts + 1
    /\ phase' = "up"
    /\ sessions' = S
    /\ copied' = S
    /\ stale' = IF stale = "file" THEN "map" ELSE stale
    /\ UNCHANGED <<now, file, expires, saveTimer, flush, job, crashes,
                   opened, ended, revoked, older, behind>>

Open == OpenWith(Loaded(file)) /\ UNCHANGED faults

\* A file that cannot be read or parsed: the gate starts empty.
OpenUnreadable ==
    /\ faults < MaxFaults
    /\ faults' = faults + 1
    /\ OpenWith({})

Tick ==
    /\ now < MaxTime
    /\ now' = now + 1
    /\ UNCHANGED <<phase, sessions, file, expires, saveTimer, flush, job,
                   bounds, ghost>>

Handler(w) ==
    \/ \E i \in Ids : Create(w, i) \/ Delete(w, i) \/ Get(w, i)
    \/ \E S \in SUBSET Ids : Revoke(w, S)
    \/ Sweep(w)

Write(f) == ClearTimer(f) \/ Marshal(f) \/ Rename(f)

Next ==
    \/ \E w \in Workers : Handler(w) \/ saveSoon(w)
    \/ \E f \in Flushers : Fire(f)
    \/ \E f \in Routines : Write(f) \/ WriteFails(f)
    \/ Close \/ Exit \/ Crash \/ Open \/ OpenUnreadable \/ Tick

Spec == Init /\ [][Next]_vars

\* The runtime fires timers and runs every goroutine that can run, and the
\* supervisor starts the gate again.
FairSpec ==
    /\ Spec
    /\ \A w \in Workers : WF_vars(saveSoon(w))
    /\ \A f \in Routines : WF_vars(Write(f))
    /\ WF_vars(\E f \in Flushers : Fire(f))
    /\ WF_vars(Exit) /\ WF_vars(Open)

=============================================================================
