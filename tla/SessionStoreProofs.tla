------------------------- MODULE SessionStoreProofs -------------------------
(***************************************************************************)
(* Theorems about the session store, for every value of the constants:     *)
(* any number of sessions, handlers and overlapping flushes, with crashes, *)
(* failed writes and unreadable files.                                     *)
(***************************************************************************)
EXTENDS SessionStoreProperties, TLAPS

\* A mutation that no flush has copied is in the hands of the handler that made
\* it, which will call saveSoon, or of a flush that has yet to copy the map.
Covered ==
    phase = "up" =>
      \/ sessions = copied
      \/ saveTimer
      \/ \E w \in Workers : job[w].pc = "save"
      \/ \E f \in Flushers : flush[f].pc \in {"fired", "marshal"}

\* The main goroutine flushes only once it has closed the store.
MainWaits ==
    /\ phase # "closing" => flush[Main].pc = "idle"
    /\ flush[Main].pc # "fired"

IInv == TypeOK /\ MainWaits /\ Covered

-----------------------------------------------------------------------------

\* The store starts down, with nothing in memory.
LEMMA InitIInv == Init => IInv
<1> SUFFICES ASSUME Init PROVE IInv
  OBVIOUS
<1>1. Life \in Nat /\ Orphans \subseteq Ids
  BY SessionAssumption
<1>2. TypeOK
  <2>1. expires \in [Ids -> Nat]
    BY <1>1 DEF Init
  <2>2. flush \in [Routines -> [pc: {"idle", "fired", "marshal", "write", "done"},
                                copy: SUBSET Ids]]
    BY DEF Init, NoFlush
  <2>3. job \in [Workers -> [pc: {"idle", "save"}, opens: SUBSET Ids, ends: SUBSET Ids]]
    BY DEF Init, NoJob
  <2>4. /\ sessions \subseteq Ids \ Orphans /\ file \subseteq Ids
        /\ {opened, ended, revoked, copied} \subseteq SUBSET Ids
    BY <1>1 DEF Init
  <2>5. now \in Nat /\ {starts, crashes, faults} \subseteq Nat
    BY DEF Init
  <2>6. phase \in {"up", "closing", "down"}
    BY DEF Init
  <2>7. saveTimer \in BOOLEAN
    BY DEF Init
  <2>8. /\ older \in [Routines -> SUBSET Routines] /\ behind \subseteq Routines
        /\ stale \in {"no", "file", "map"}
    BY DEF Init
  <2> QED BY <2>1, <2>2, <2>3, <2>4, <2>5, <2>6, <2>7, <2>8 DEF TypeOK
<1>3. MainWaits /\ Covered
  BY DEF Init, MainWaits, Covered, NoFlush, Routines
<1> QED BY <1>2, <1>3 DEF IInv

\* One case per action; a step that takes away one cover of a mutation puts
\* another in its place.
LEMMA NextIInv == IInv /\ [Next]_vars => IInv'
<1> SUFFICES ASSUME IInv, [Next]_vars PROVE IInv'
  OBVIOUS
<1> USE SessionAssumption DEF IInv, bounds, ghost, order
<1>1. ASSUME NEW w \in Workers, NEW i \in Ids, Create(w, i) PROVE IInv'
  <2>1. TypeOK'
    <3>1. now + Life \in Nat
      BY DEF TypeOK
    <3>2. expires' \in [Ids -> Nat]
      BY <1>1, <3>1 DEF Create, TypeOK
    <3>3. job' \in [Workers -> [pc: {"idle", "save"}, opens: SUBSET Ids, ends: SUBSET Ids]]
      BY <1>1 DEF Create, TypeOK
    <3> QED BY <1>1, <3>2, <3>3 DEF Create, TypeOK
  <2>2. job'[w].pc = "save"
    BY <1>1 DEF Create, TypeOK
  <2> QED BY <1>1, <2>1, <2>2 DEF Create, MainWaits, Covered
<1>2. ASSUME NEW w \in Workers, NEW S \in SUBSET Ids, Remove(w, S) PROVE IInv'
  <2>1. CASE S \cap sessions = {}
    <3>1. TypeOK' /\ sessions' = sessions /\ job' = job
      BY <1>2, <2>1 DEF Remove, Saves, TypeOK
    <3> QED BY <1>2, <3>1 DEF Remove, MainWaits, Covered
  <2>2. CASE S \cap sessions # {}
    <3>1. job' = [job EXCEPT ![w] =
                    [pc |-> "save", opens |-> {}, ends |-> S \cap sessions]]
      BY <1>2, <2>2 DEF Remove, Saves
    <3>2. job' \in [Workers -> [pc: {"idle", "save"}, opens: SUBSET Ids, ends: SUBSET Ids]]
      BY <3>1 DEF TypeOK
    <3>3. TypeOK'
      BY <1>2, <3>2 DEF Remove, TypeOK
    <3>4. job'[w].pc = "save"
      BY <3>1 DEF TypeOK
    <3> QED BY <1>2, <3>3, <3>4 DEF Remove, MainWaits, Covered
  <2> QED BY <2>1, <2>2
<1>3. ASSUME NEW w \in Workers, Handler(w) PROVE IInv'
  BY <1>1, <1>2, <1>3 DEF Handler, Delete, Revoke, Get, Sweep, TypeOK
<1>4. ASSUME NEW w \in Workers, saveSoon(w) PROVE IInv'
  <2>1. job' \in [Workers -> [pc: {"idle", "save"}, opens: SUBSET Ids, ends: SUBSET Ids]]
    BY <1>4 DEF saveSoon, TypeOK, NoJob
  <2>2. TypeOK'
    BY <1>4, <2>1 DEF saveSoon, TypeOK, Armed
  <2> QED BY <1>4, <2>2 DEF saveSoon, Armed, MainWaits, Covered
<1>5. ASSUME NEW f \in Flushers, Fire(f) PROVE IInv'
  <2>1. TypeOK' /\ f # Main
    BY <1>5 DEF Fire, TypeOK, Routines
  <2> QED BY <1>5, <2>1 DEF Fire, MainWaits, Covered, TypeOK, Routines
<1>6. ASSUME NEW f \in Routines, ClearTimer(f) PROVE IInv'
  <2>1. f \in Flushers /\ f # Main
    BY <1>6 DEF ClearTimer, MainWaits, Routines
  <2>2. /\ flush' \in [Routines -> [pc: {"idle", "fired", "marshal", "write", "done"},
                                    copy: SUBSET Ids]]
        /\ flush'[f].pc = "marshal" /\ flush'[Main] = flush[Main]
    BY <1>6, <2>1 DEF ClearTimer, TypeOK, Routines
  <2>3. TypeOK'
    BY <1>6, <2>2 DEF ClearTimer, TypeOK
  <2> QED BY <1>6, <2>1, <2>2, <2>3 DEF ClearTimer, MainWaits, Covered
<1>7. ASSUME NEW f \in Routines, Marshal(f) PROVE IInv'
  <2>1. older' \in [Routines -> SUBSET Routines]
    BY <1>7 DEF Marshal, Writing, TypeOK
  <2>2. TypeOK' /\ sessions' = copied'
    BY <1>7, <2>1 DEF Marshal, TypeOK
  <2> QED BY <1>7, <2>2 DEF Marshal, MainWaits, Covered, TypeOK, Routines
<1>8. ASSUME NEW f \in Routines, flush[f].pc = "write", Written(f),
             UNCHANGED <<phase, sessions, saveTimer, job>>
      PROVE  /\ flush' \in [Routines -> [pc: {"idle", "fired", "marshal", "write", "done"},
                                         copy: SUBSET Ids]]
             /\ older' \in [Routines -> SUBSET Routines]
             /\ MainWaits' /\ Covered'
  <2>0. older' \in [Routines -> SUBSET Routines]
    BY <1>8 DEF Written, TypeOK
  <2>1. flush' \in [Routines -> [pc: {"idle", "fired", "marshal", "write", "done"},
                                 copy: SUBSET Ids]]
    BY <1>8 DEF Written, NoFlush, TypeOK
  <2>2. \A g \in Routines : g # f => flush'[g] = flush[g]
    BY <1>8 DEF Written, TypeOK
  <2>3. flush'[f].pc \in {"idle", "done"}
    BY <1>8 DEF Written, NoFlush, TypeOK
  <2>4. MainWaits'
    BY <1>8, <2>2, <2>3 DEF MainWaits, Routines
  <2>5. Covered'
    BY <1>8, <2>2 DEF Covered, Routines, Written
  <2> QED BY <2>0, <2>1, <2>4, <2>5
<1>9. ASSUME NEW f \in Routines, Rename(f) PROVE IInv'
  <2>1. /\ flush[f].copy \in SUBSET Ids
        /\ flush' \in [Routines -> [pc: {"idle", "fired", "marshal", "write", "done"},
                                    copy: SUBSET Ids]]
        /\ older' \in [Routines -> SUBSET Routines]
        /\ MainWaits' /\ Covered'
    BY <1>8, <1>9 DEF Rename, TypeOK
  <2>2. behind' \subseteq Routines /\ stale' \in {"no", "file", "map"}
    BY <1>9 DEF Rename, TypeOK
  <2> QED BY <1>9, <2>1, <2>2 DEF Rename, Written, TypeOK
<1>10. ASSUME NEW f \in Routines, WriteFails(f) PROVE IInv'
  <2>1. /\ flush' \in [Routines -> [pc: {"idle", "fired", "marshal", "write", "done"},
                                    copy: SUBSET Ids]]
        /\ older' \in [Routines -> SUBSET Routines]
        /\ MainWaits' /\ Covered'
    BY <1>8, <1>10 DEF WriteFails
  <2> QED BY <1>10, <2>1 DEF WriteFails, Written, TypeOK
<1>11. ASSUME Close PROVE IInv'
  <2>1. flush' \in [Routines -> [pc: {"idle", "fired", "marshal", "write", "done"},
                                 copy: SUBSET Ids]]
    BY <1>11 DEF Close, TypeOK, Routines
  <2>2. TypeOK'
    BY <1>11, <2>1 DEF Close, TypeOK
  <2>3. flush'[Main].pc = "marshal"
    BY <1>11 DEF Close, TypeOK, Routines
  <2>4. MainWaits' /\ Covered'
    BY <1>11, <2>3 DEF Close, MainWaits, Covered
  <2> QED BY <2>2, <2>4
<1>12. ASSUME Halt, crashes' \in Nat PROVE IInv'
  <2>1. TypeOK'
    BY <1>12 DEF Halt, TypeOK, NoFlush, NoJob
  <2> QED BY <1>12, <2>1 DEF Halt, MainWaits, Covered, NoFlush, Routines
<1>13. ASSUME NEW S \in SUBSET (Ids \ Orphans), OpenWith(S), faults' \in Nat PROVE IInv'
  <2>1. TypeOK'
    BY <1>13 DEF OpenWith, TypeOK
  <2>2. MainWaits' /\ Covered'
    BY <1>13 DEF OpenWith, MainWaits, Covered
  <2> QED BY <2>1, <2>2
<1>14. ASSUME Tick PROVE IInv'
  BY <1>14 DEF Tick, TypeOK, MainWaits, Covered
<1>15. CASE UNCHANGED vars
  BY <1>15 DEF vars, TypeOK, MainWaits, Covered
<1>16. Exit => IInv'
  BY <1>12 DEF Exit, TypeOK
<1>17. Crash => IInv'
  BY <1>12 DEF Crash, TypeOK
<1>18. Open => IInv'
  BY <1>13 DEF Open, Loaded, TypeOK
<1>19. OpenUnreadable => IInv'
  BY <1>13 DEF OpenUnreadable, TypeOK
<1> QED BY <1>3, <1>4, <1>5, <1>6, <1>7, <1>9, <1>10, <1>11, <1>14, <1>15,
           <1>16, <1>17, <1>18, <1>19 DEF Next, Write

\* The invariant holds in every reachable state.
LEMMA Invariance == Spec => []IInv
BY InitIInv, NextIInv, PTL DEF Spec

\* The store is well typed: what is in the map has a usable credential, what is
\* in a flush's hands is a set of sessions (load, Flush).
THEOREM SessionTypes == Spec => []TypeOK
<1>1. IInv => TypeOK
  BY DEF IInv
<1> QED BY <1>1, Invariance, PTL

\* The debounce swallows no mutation, however many flushes overlap, fail or are
\* cut short (saveSoon, Flush).
THEOREM DebounceKeepsUp == Spec => []NoMutationSwallowed
<1>1. IInv => NoMutationSwallowed
  BY DEF IInv, Covered, NoMutationSwallowed, TypeOK
<1> QED BY <1>1, Invariance, PTL

-----------------------------------------------------------------------------
(* Stops and starts.  Flushes overlap as they like: what is lost by it is  *)
(* lost by one of them overwriting a newer file, and by nothing else.      *)

\* The set S, in the map, in a flush's hands or in the file, has what browsers
\* were told: nothing of what was ended, all of what was opened and still lives.
Sound(S) ==
    /\ revoked \cap S = {}
    /\ \A i \in opened \ ended : i \in S \/ Expired(i)

\* An id not created yet is nowhere.
Unused ==
    \A i \in Ids : expires[i] = 0 =>
      /\ i \notin sessions \cup file \cup opened \cup ended \cup revoked
      /\ \A f \in Routines : i \notin flush[f].copy
      /\ \A w \in Workers : i \notin job[w].opens \cup job[w].ends

\* What a handler is about to answer is what the map says.
Answers ==
    \A w \in Workers :
      /\ job[w].ends \cap sessions = {}
      /\ job[w].opens \cap Orphans = {}
      /\ \A i \in job[w].opens \ ended : i \in sessions \/ Expired(i)

\* A copy is not older than itself.
OwnOrder == Main \notin older[Main]

\* A process that is down does nothing.
Stopped ==
    phase = "down" =>
      /\ sessions = {} /\ ~saveTimer
      /\ \A w \in Workers : job[w] = NoJob
      /\ \A f \in Routines : flush[f].pc = "idle"

\* Once Close has copied the map, every copy in a flush's hands is as sound as
\* the map, or is older than Close's and behind it; so is the file, unless such a
\* copy has overwritten it.
Faithful ==
    /\ phase # "down" => Sound(sessions)
    /\ phase = "down" \/ flush[Main].pc = "done" => stale = "file" \/ Sound(file)
    /\ \A f \in Routines : flush[f].pc = "write" =>
         /\ flush[Main].pc = "write" => f \in older[Main] \/ Sound(flush[f].copy)
         /\ flush[Main].pc = "done"  => f \in behind \/ Sound(flush[f].copy)

Rest ==
    /\ now # 0 /\ opened \cap Orphans = {}
    /\ Unused /\ Answers /\ Stopped /\ OwnOrder

RestInv == IInv /\ Rest /\ (Orderly => Faithful)

\* A process that has never run has told nobody anything.
LEMMA RestInit == Init => RestInv
<1> SUFFICES ASSUME Init PROVE RestInv
  OBVIOUS
<1>1. IInv
  BY InitIInv
<1>2. now # 0 /\ opened \cap Orphans = {} /\ Unused /\ Answers /\ Stopped /\ OwnOrder
  BY SessionAssumption DEF Init, Routines, Unused, Answers, Stopped, OwnOrder, NoFlush, NoJob
<1>3. Faithful
  BY DEF Init, Faithful, Sound, NoFlush, Routines
<1> QED BY <1>1, <1>2, <1>3 DEF RestInv, Rest

\* Nothing that was answered while the store was open is lost on the way from
\* the map through Close's copy and the file to the next map.
LEMMA RestStep == RestInv /\ [Next]_vars => RestInv'
<1> SUFFICES ASSUME RestInv, [Next]_vars PROVE RestInv'
  OBVIOUS
<1>0. IInv /\ IInv' /\ TypeOK /\ MainWaits
  BY NextIInv DEF RestInv, IInv
<1> USE <1>0, SessionAssumption DEF bounds, ghost, order, Undisturbed
<1> SUFFICES Rest' /\ (Orderly => Faithful)'
  BY DEF RestInv
<1>a. Rest /\ (Orderly => Faithful)
  BY DEF RestInv
<1>b. OwnOrder'
  <2>1. CASE older' = older
    BY <1>a, <2>1 DEF OwnOrder, Rest
  <2>2. ASSUME NEW f \in Routines, Marshal(f) PROVE OwnOrder'
    BY <1>a, <2>2 DEF Marshal, Writing, OwnOrder, Rest, TypeOK, Routines
  <2>3. ASSUME NEW f \in Routines, Written(f) PROVE OwnOrder'
    BY <1>a, <2>3 DEF Written, OwnOrder, Rest, Routines
  <2>4. ASSUME Halt PROVE OwnOrder'
    BY <2>4 DEF Halt, OwnOrder, Routines
  <2>5. ASSUME NEW w \in Workers, Handler(w) \/ saveSoon(w) PROVE older' = older
    BY <2>5 DEF Handler, Create, Delete, Revoke, Get, Sweep, Remove, saveSoon
  <2>6. Open \/ OpenUnreadable \/ Close \/ Tick \/ UNCHANGED vars => older' = older
    BY DEF Open, OpenUnreadable, OpenWith, Close, Tick, vars
  <2>7. ASSUME NEW f \in Routines, Fire(f) \/ ClearTimer(f) PROVE older' = older
    BY <2>7 DEF Fire, ClearTimer
  <2> QED BY <2>1, <2>2, <2>3, <2>4, <2>5, <2>6, <2>7
             DEF Next, Write, Rename, WriteFails, Exit, Crash, Routines
<1> USE <1>a, <1>b
<1>1. ASSUME NEW w \in Workers, NEW i \in Ids, Create(w, i)
      PROVE  Rest' /\ (Orderly => Faithful)'
  <2>1. Unused'
    BY <1>1 DEF Create, Unused, Rest, TypeOK
  <2>2. Answers'
    BY <1>1 DEF Create, Answers, Unused, Rest, TypeOK, Expired
  <2>3. Stopped' /\ (opened \cap Orphans = {} /\ now # 0)'
    BY <1>1 DEF Create, Idle, Stopped, Rest
  <2>4. (Orderly => Faithful)'
    BY <1>1 DEF Create, Idle, Orderly, Faithful, Sound, Unused, Expired, TypeOK, Rest
  <2> QED BY <2>1, <2>2, <2>3, <2>4 DEF Rest
<1>2. ASSUME NEW w \in Workers, NEW S \in SUBSET Ids, Remove(w, S)
      PROVE  Rest' /\ (Orderly => Faithful)'
  <2>1. Unused'
    BY <1>2 DEF Remove, Saves, Unused, Rest, TypeOK
  <2>2. Answers'
    BY <1>2 DEF Remove, Saves, Answers, Rest, TypeOK, Expired
  <2>3. Stopped' /\ (opened \cap Orphans = {} /\ now # 0)'
    BY <1>2 DEF Remove, Idle, Stopped, Rest
  <2>4. (Orderly => Faithful)'
    BY <1>2 DEF Remove, Saves, Idle, Orderly, Faithful, Sound, Expired, TypeOK, Rest
  <2> QED BY <2>1, <2>2, <2>3, <2>4 DEF Rest
<1>3. ASSUME NEW w \in Workers, Handler(w) PROVE Rest' /\ (Orderly => Faithful)'
  BY <1>1, <1>2, <1>3 DEF Handler, Delete, Revoke, Get, Sweep, TypeOK
<1>4. ASSUME NEW w \in Workers, saveSoon(w) PROVE Rest' /\ (Orderly => Faithful)'
  <2>1. Unused'
    BY <1>4 DEF saveSoon, NoJob, Unused, Rest, TypeOK
  <2>2. Answers'
    BY <1>4 DEF saveSoon, NoJob, Answers, Rest, TypeOK, Expired
  <2>3. Stopped' /\ (opened \cap Orphans = {} /\ now # 0)'
    BY <1>4 DEF saveSoon, NoJob, Stopped, Answers, Rest, TypeOK
  <2>4. (Orderly => Faithful)'
    <3>1. CASE phase = "up"
      BY <1>4, <3>1 DEF saveSoon, Orderly, Faithful, Sound, Expired, TypeOK, Rest, Answers, MainWaits
    <3>2. CASE phase # "up"
      BY <1>4, <3>2 DEF saveSoon, Orderly, Faithful, Sound, Expired, TypeOK, Rest
    <3> QED BY <3>1, <3>2
  <2> QED BY <2>1, <2>2, <2>3, <2>4 DEF Rest
<1>5. ASSUME NEW f \in Flushers, Fire(f) PROVE Rest' /\ (Orderly => Faithful)'
  <2>1. f \in Routines /\ f # Main /\ phase # "down"
    BY <1>5 DEF Fire, Stopped, Rest, Routines
  <2>2. Unused' /\ Answers' /\ (opened \cap Orphans = {} /\ now # 0)'
    BY <1>5 DEF Fire, Unused, Answers, Expired, Rest, TypeOK
  <2>3. Stopped'
    BY <1>5, <2>1 DEF Fire, Stopped, Rest, TypeOK
  <2>4. (Orderly => Faithful)'
    BY <1>5, <2>1 DEF Fire, Orderly, Faithful, Sound, Expired, TypeOK
  <2> QED BY <2>2, <2>3, <2>4 DEF Rest
<1>6. ASSUME NEW f \in Routines, ClearTimer(f) PROVE Rest' /\ (Orderly => Faithful)'
  <2>1. Unused' /\ Answers' /\ (opened \cap Orphans = {} /\ now # 0)'
    BY <1>6 DEF ClearTimer, Unused, Answers, Expired, Rest, TypeOK
  <2>2. Stopped'
    BY <1>6 DEF ClearTimer, Stopped, Rest, TypeOK
  <2>3. (Orderly => Faithful)'
    BY <1>6 DEF ClearTimer, Orderly, Faithful, Sound, Expired, Rest, TypeOK, MainWaits
  <2> QED BY <2>1, <2>2, <2>3 DEF Rest
<1>7. ASSUME NEW f \in Routines, Marshal(f) PROVE Rest' /\ (Orderly => Faithful)'
  <2>1. Unused' /\ Answers' /\ (opened \cap Orphans = {} /\ now # 0)'
    BY <1>7 DEF Marshal, Unused, Answers, Expired, Rest, TypeOK
  <2>2. Stopped'
    BY <1>7 DEF Marshal, Stopped, Rest, TypeOK
  <2>3. (Orderly => Faithful)'
    <3> SUFFICES ASSUME Orderly' PROVE Faithful'
      OBVIOUS
    <3>1. Faithful
      BY <1>7 DEF Marshal, Orderly
    <3>2. phase # "down" /\ phase' = phase
      BY <1>7 DEF Marshal, Stopped, Rest
    <3>3. \A S : Sound(S) => Sound(S)'
      BY <1>7 DEF Marshal, Sound, Expired
    <3>4. /\ sessions' = sessions /\ file' = file /\ stale' = stale /\ behind' = behind
          /\ flush' = [flush EXCEPT ![f] = [pc |-> "write", copy |-> sessions]]
          /\ older' = [older EXCEPT ![f] = Writing]
      BY <1>7 DEF Marshal
    <3>5. flush'[Main].pc = "done" => flush[Main].pc = "done"
      BY <3>4 DEF TypeOK, Routines
    <3>6. ASSUME NEW g \in Routines, flush'[g].pc = "write"
          PROVE  /\ flush'[Main].pc = "write" => g \in older'[Main] \/ Sound(flush'[g].copy)
                 /\ flush'[Main].pc = "done"  => g \in behind \/ Sound(flush'[g].copy)
      <4>1. CASE g = f
        BY <4>1, <3>1, <3>2, <3>4 DEF Faithful, TypeOK
      <4>2. CASE g # f /\ f = Main
        <5>1. flush'[g] = flush[g] /\ g \in older'[Main] /\ flush'[Main].pc = "write"
          BY <4>2, <3>4, <3>6 DEF Writing, TypeOK
        <5> QED BY <5>1
      <4>3. CASE g # f /\ f # Main
        <5>1. /\ flush'[g] = flush[g] /\ flush'[Main] = flush[Main]
              /\ older'[Main] = older[Main]
          BY <4>3, <3>4 DEF TypeOK, Routines
        <5> QED BY <5>1, <3>1, <3>6 DEF Faithful
      <4> QED BY <4>1, <4>2, <4>3
    <3>7. \A g \in Routines : flush'[g].pc = "write" =>
            /\ flush'[Main].pc = "write" => g \in older'[Main] \/ Sound(flush[g].copy)'
            /\ flush'[Main].pc = "done"  => g \in behind' \/ Sound(flush[g].copy)'
      BY <3>3, <3>4, <3>6
    <3>8. /\ (phase # "down" => Sound(sessions))'
          /\ (phase = "down" \/ flush[Main].pc = "done" => stale = "file" \/ Sound(file))'
      BY <3>1, <3>2, <3>3, <3>4, <3>5 DEF Faithful
    <3> QED BY <3>7, <3>8 DEF Faithful
  <2> QED BY <2>1, <2>2, <2>3 DEF Rest
<1>8. ASSUME NEW f \in Routines, Rename(f) PROVE Rest' /\ (Orderly => Faithful)'
  <2>1. Unused' /\ Answers' /\ (opened \cap Orphans = {} /\ now # 0)'
    BY <1>8 DEF Rename, Written, NoFlush, Unused, Answers, Expired, Rest, TypeOK
  <2>2. Stopped'
    BY <1>8 DEF Rename, Written, NoFlush, Stopped, Rest, TypeOK
  <2>3. (Orderly => Faithful)'
    <3> SUFFICES ASSUME Orderly' PROVE Faithful'
      OBVIOUS
    <3>1. Faithful
      BY <1>8 DEF Rename, Orderly
    <3>2. phase # "down" /\ phase' = phase /\ sessions' = sessions
      BY <1>8 DEF Rename, Stopped, Rest
    <3>3. \A S : Sound(S) => Sound(S)'
      BY <1>8 DEF Rename, Written, Sound, Expired
    <3>4. /\ file' = flush[f].copy
          /\ stale' = IF f \in behind THEN "file" ELSE "no"
          /\ behind' = (behind \cup older[f]) \ {f}
          /\ older' = [g \in Routines |-> IF g = f THEN {} ELSE older[g] \ {f}]
      BY <1>8 DEF Rename, Written, Orderly
    <3>5. /\ flush[f].pc = "write" /\ flush'[f].pc # "write"
          /\ flush'[f].pc = IF f = Main THEN "done" ELSE "idle"
          /\ \A g \in Routines : g # f => flush'[g] = flush[g]
      BY <1>8 DEF Rename, Written, NoFlush, TypeOK
    <3>6. flush'[Main].pc = "done" => stale' = "file" \/ Sound(file)'
      <4>1. CASE f \in behind
        BY <4>1, <3>4
      <4>2. CASE f \notin behind /\ flush'[Main].pc = "done"
        <5>1. f = Main \/ flush[Main].pc = "done"
          BY <4>2, <3>5 DEF Routines
        <5>2. Main \notin older[Main]
          BY DEF OwnOrder, Rest
        <5>3. Sound(flush[f].copy)
          BY <5>1, <5>2, <4>2, <3>1, <3>5 DEF Faithful
        <5> QED BY <5>3, <3>3, <3>4
      <4> QED BY <4>1, <4>2
    <3>7. ASSUME NEW g \in Routines, flush'[g].pc = "write"
          PROVE  /\ flush'[Main].pc = "write" => g \in older'[Main] \/ Sound(flush'[g].copy)
                 /\ flush'[Main].pc = "done"  => g \in behind' \/ Sound(flush'[g].copy)
      <4>1. g # f /\ flush'[g] = flush[g] /\ Main \in Routines
        BY <3>5, <3>7 DEF Routines
      <4>2. CASE f = Main
        BY <4>1, <4>2, <3>1, <3>4, <3>5, <3>7 DEF Faithful
      <4>3. CASE f # Main
        BY <4>1, <4>3, <3>1, <3>4, <3>5, <3>7 DEF Faithful
      <4> QED BY <4>2, <4>3
    <3>8. \A g \in Routines : flush'[g].pc = "write" =>
            /\ flush'[Main].pc = "write" => g \in older'[Main] \/ Sound(flush[g].copy)'
            /\ flush'[Main].pc = "done"  => g \in behind' \/ Sound(flush[g].copy)'
      BY <3>3, <3>7
    <3>9. (phase # "down" => Sound(sessions))'
      BY <3>1, <3>2, <3>3 DEF Faithful
    <3> QED BY <3>2, <3>6, <3>8, <3>9 DEF Faithful
  <2> QED BY <2>1, <2>2, <2>3 DEF Rest
<1>9. ASSUME NEW f \in Routines, WriteFails(f) PROVE Rest' /\ (Orderly => Faithful)'
  <2>1. Unused' /\ Answers' /\ (opened \cap Orphans = {} /\ now # 0)'
    BY <1>9 DEF WriteFails, Written, NoFlush, Unused, Answers, Expired, Rest, TypeOK
  <2>2. Stopped'
    BY <1>9 DEF WriteFails, Written, NoFlush, Stopped, Rest, TypeOK
  <2>3. ~Orderly'
    BY <1>9 DEF WriteFails, Orderly, TypeOK
  <2> QED BY <2>1, <2>2, <2>3 DEF Rest
<1>10. ASSUME Close PROVE Rest' /\ (Orderly => Faithful)'
  <2>1. Unused' /\ Answers' /\ (opened \cap Orphans = {} /\ now # 0)'
    BY <1>10 DEF Close, Unused, Answers, Expired, Rest, TypeOK
  <2>2. Stopped'
    BY <1>10 DEF Close, Stopped, Rest, TypeOK, Routines
  <2>3. (Orderly => Faithful)'
    BY <1>10 DEF Close, Orderly, Faithful, Sound, Expired, Rest, TypeOK, Routines
  <2> QED BY <2>1, <2>2, <2>3 DEF Rest
<1>11. ASSUME Halt PROVE Rest'
  BY <1>11 DEF Halt, NoFlush, NoJob, Unused, Answers, Stopped, Expired, Rest, TypeOK
<1>12. ASSUME Exit PROVE Rest' /\ (Orderly => Faithful)'
  <2>1. (Orderly => Faithful)'
    BY <1>12 DEF Exit, Halt, NoFlush, Orderly, Faithful, Sound, Expired, TypeOK, Routines
  <2> QED BY <1>11, <1>12, <2>1 DEF Exit
<1>13. ASSUME Crash PROVE Rest' /\ (Orderly => Faithful)'
  <2>1. ~Orderly'
    BY <1>13 DEF Crash, Halt, Orderly, TypeOK
  <2> QED BY <1>11, <1>13, <2>1 DEF Crash
<1>14. ASSUME NEW S \in SUBSET (file \ Orphans), OpenWith(S) PROVE Rest'
  <2>1. \A w \in Workers : job[w] = NoJob
    BY <1>14 DEF OpenWith, Stopped, Rest
  <2>2. Unused' /\ Stopped' /\ (opened \cap Orphans = {} /\ now # 0)'
    BY <1>14 DEF OpenWith, Unused, Stopped, Rest, TypeOK
  <2>3. Answers'
    BY <1>14, <2>1 DEF OpenWith, Answers, NoJob
  <2> QED BY <2>2, <2>3 DEF Rest
<1>15. ASSUME Open PROVE Rest' /\ (Orderly => Faithful)'
  <2>1. Loaded(file) \in SUBSET (file \ Orphans)
    BY DEF Loaded
  <2>2. (Orderly => Faithful)'
    BY <1>15 DEF Open, OpenWith, Loaded, Orderly, Faithful, Sound, Expired, MainWaits, Rest, TypeOK
  <2> QED BY <1>14, <1>15, <2>1, <2>2 DEF Open
<1>16. ASSUME OpenUnreadable PROVE Rest' /\ (Orderly => Faithful)'
  <2>1. ~Orderly'
    BY <1>16 DEF OpenUnreadable, OpenWith, Orderly, TypeOK
  <2>2. {} \in SUBSET (file \ Orphans)
    OBVIOUS
  <2> QED BY <1>14, <1>16, <2>1, <2>2 DEF OpenUnreadable
<1>17. ASSUME Tick PROVE Rest' /\ (Orderly => Faithful)'
  <2>1. now' = now + 1 /\ now \in Nat /\ expires \in [Ids -> Nat]
    BY <1>17 DEF Tick, TypeOK
  <2>2. \A i \in Ids : Expired(i) => Expired(i)'
    BY <1>17, <2>1 DEF Tick, Expired
  <2>3. Unused' /\ Stopped' /\ (opened \cap Orphans = {} /\ now # 0)'
    BY <1>17, <2>1 DEF Tick, Unused, Stopped, Rest
  <2>4. Answers'
    BY <1>17, <2>2 DEF Tick, Answers, Rest, TypeOK
  <2>5. \A S \in SUBSET Ids : Sound(S) => Sound(S)'
    BY <1>17, <2>2 DEF Tick, Sound, TypeOK
  <2>6. (Orderly => Faithful)'
    BY <1>17, <2>5 DEF Tick, Orderly, Faithful, TypeOK, Routines
  <2> QED BY <2>3, <2>4, <2>6 DEF Rest
<1>18. CASE UNCHANGED vars
  BY <1>18 DEF vars, Unused, Answers, Stopped, Orderly, Faithful, Sound, Expired, Rest
<1> QED BY <1>3, <1>4, <1>5, <1>6, <1>7, <1>8, <1>9, <1>10, <1>12, <1>13,
           <1>15, <1>16, <1>17, <1>18 DEF Next, Write

\* Across orderly stops no ended session comes back, whenever it was ended while
\* the store was open and however flushes overlap, unless a start loads a file in
\* which an older copy has overwritten a newer one (Close, load).
THEOREM EndedSessionsStayEnded == Spec => []RevokedStaysRevoked
<1>1. RestInv => RevokedStaysRevoked
  <2> SUFFICES ASSUME RestInv, Orderly PROVE revoked \cap sessions = {}
    BY DEF RevokedStaysRevoked
  <2>1. phase = "down" => sessions = {}
    BY DEF RestInv, Rest, Stopped
  <2> QED BY <2>1 DEF RestInv, Faithful, Sound
<1> QED BY <1>1, RestInit, RestStep, PTL DEF Spec

\* With the same exception a browser stays logged in across orderly stops until
\* its session expires or is ended (Close's final write, load).
THEOREM RestartsLogNobodyOut == Spec => []NobodyLoggedOut
<1>1. RestInv => NobodyLoggedOut
  BY DEF RestInv, NobodyLoggedOut, Faithful, Sound
<1> QED BY <1>1, RestInit, RestStep, PTL DEF Spec

=============================================================================
