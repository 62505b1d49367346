--------------------------- MODULE AgentTurnProofs ---------------------------
(***************************************************************************)
(* Proofs about AgentTurn, for every set of projects, sessions and turns   *)
(* and every bound.                                                        *)
(***************************************************************************)
EXTENDS AgentTurn, FiniteSetTheorems, TLAPS

\* A turn that exists belongs to a session; a goroutine past GetSession knows
\* the project whose lock it takes; a batch has MaxCalls approvals at most,
\* and none is open outside it.
FramesOK ==
  \A t \in Turns :
    /\ pc[t] # "unborn" => owner[t] \in Sessions
    /\ pc[t] \in {"rooting", "acquiring"} \cup InRun => key[t] \in Projects
    /\ left[t] + asking[t] <= MaxCalls
    /\ pc[t] # "tools" => left[t] = 0 /\ asking[t] = 0

TypeInv == TypeOK /\ FramesOK

\* Every variable has its type when the program starts.
LEMMA TypeInit == Init => TypeInv
  BY BoundAssumption DEF Init, TypeInv, TypeOK, FramesOK, RowStatus, ShownStatus, PC, InFlight,
     Live, InRun, ActiveStatus, Lifecycle, MishapKinds

\* Forgetting the frames of any set of goroutines keeps their locals typed.
LEMMA DropTyped ==
  ASSUME TypeOK, NEW ts \in SUBSET Turns, DropFrames(ts)
  PROVE  /\ key' \in [Turns -> Projects \cup {NoProject}]
         /\ root' \in [Turns -> Projects \cup {NoProject}]
         /\ round' \in [Turns -> 0..MaxRounds]
         /\ left' \in [Turns -> 0..MaxCalls]
         /\ asking' \in [Turns -> 0..MaxCalls]
  BY BoundAssumption DEF TypeOK, DropFrames

\* No step writes a value out of its type: statuses, lock keys, rounds and the
\* counts of a batch stay in their sets.
LEMMA TypeNext == TypeInv /\ [Next]_vars => TypeOK'
<1> SUFFICES ASSUME TypeInv, [Next]_vars PROVE TypeOK'
  OBVIOUS
<1> USE BoundAssumption, IdAssumption DEF TypeInv, TypeOK, RowStatus, ShownStatus, PC,
      InFlight, Handler, Loading, InRun, Ending, Live, ActiveStatus, TerminalStatus, Lifecycle,
      MishapKinds, db, catalog, batch, origin, place, deletion, GoTo, Publish, Return, Mishap
<1>1. ASSUME NEW s \in Sessions, NEW t \in Turns, SendMessage(s, t) PROVE TypeOK'
  BY <1>1 DEF SendMessage
<1>2. ASSUME NEW t \in Turns, Register(t) PROVE TypeOK'
  BY <1>2 DEF Register
<1>3. ASSUME NEW t \in Turns, RegisterBusy(t) PROVE TypeOK'
  BY <1>3 DEF RegisterBusy
<1>4. ASSUME NEW t \in Turns, Refuse(t) PROVE TypeOK'
  BY <1>4 DEF Refuse, Saved, Unsaved, SessionStatusForTurn
<1>5. ASSUME NEW t \in Turns, LoadSession(t) PROVE TypeOK'
  BY <1>5 DEF LoadSession, FramesOK
<1>6. ASSUME NEW t \in Turns, LoadRoot(t) PROVE TypeOK'
  BY <1>6 DEF LoadRoot, FramesOK
<1>7. ASSUME NEW t \in Turns, LoadFails(t) PROVE TypeOK'
  BY <1>7 DEF LoadFails
<1>8. ASSUME NEW t \in Turns, Acquire(t) PROVE TypeOK'
  BY <1>8 DEF Acquire
<1>9. ASSUME NEW t \in Turns, AcquireStopped(t) PROVE TypeOK'
  BY <1>9 DEF AcquireStopped
<1>10. ASSUME NEW t \in Turns, Start(t) PROVE TypeOK'
  BY <1>10 DEF Start, Saved, Unsaved, SessionStatusForTurn
<1>11. ASSUME NEW t \in Turns, Announce(t) PROVE TypeOK'
  BY <1>11 DEF Announce
<1>12. ASSUME NEW t \in Turns, StreamFinal(t) PROVE TypeOK'
  BY <1>12 DEF StreamFinal
<1>13. ASSUME NEW t \in Turns, StreamCalls(t) PROVE TypeOK'
  BY <1>13 DEF StreamCalls
<1>14. ASSUME NEW t \in Turns, StreamFails(t) PROVE TypeOK'
  BY <1>14 DEF StreamFails
<1>15. ASSUME NEW t \in Turns, StreamStopped(t) PROVE TypeOK'
  BY <1>15 DEF StreamStopped
<1>16. ASSUME NEW t \in Turns, Ask(t) PROVE TypeOK'
  <2>1. /\ left[t] \in 0..MaxCalls /\ asking[t] \in 0..MaxCalls
        /\ left[t] - 1 \in 0..MaxCalls
        /\ asking[t] + 1 \in 0..MaxCalls
        /\ left[t] - 1 + (asking[t] + 1) <= MaxCalls
        /\ left[t] - 1 + asking[t] <= MaxCalls
    BY <1>16 DEF Ask, FramesOK
  <2>2. CASE Saved(t, "waiting_approval", stopped[t])
             /\ asking' = [asking EXCEPT ![t] = @ + 1]
    BY <1>16, <2>1, <2>2 DEF Ask, Saved, SessionStatusForTurn
  <2>3. CASE Unsaved(t, "waiting_approval", stopped[t]) /\ UNCHANGED asking
    BY <1>16, <2>1, <2>3 DEF Ask, Unsaved
  <2> QED
    BY <1>16, <2>2, <2>3 DEF Ask
<1>17. ASSUME NEW t \in Turns, Answer(t) PROVE TypeOK'
  BY <1>17 DEF Answer, Saved, Unsaved, SessionStatusForTurn
<1>18. ASSUME NEW t \in Turns, AskStopped(t) PROVE TypeOK'
  BY <1>18 DEF AskStopped
<1>19. ASSUME NEW t \in Turns, ToolsDone(t) PROVE TypeOK'
  BY <1>19 DEF ToolsDone
<1>20. ASSUME NEW t \in Turns, ToolsUnstored(t) PROVE TypeOK'
  BY <1>20 DEF ToolsUnstored
<1>21. ASSUME NEW t \in Turns, Complete(t) PROVE TypeOK'
  BY <1>21 DEF Complete, Saved, Unsaved, SessionStatusForTurn
<1>22. ASSUME NEW t \in Turns, Finish(t) PROVE TypeOK'
  BY <1>22 DEF Finish
<1>23. ASSUME NEW t \in Turns, Cancelling(t) PROVE TypeOK'
  BY <1>23 DEF Cancelling, Saved, Unsaved, SessionStatusForTurn
<1>24. ASSUME NEW t \in Turns, Withdraw(t) PROVE TypeOK'
  BY <1>24 DEF Withdraw
<1>25. ASSUME NEW t \in Turns, Failing(t) PROVE TypeOK'
  BY <1>25 DEF Failing, Saved, Unsaved, SessionStatusForTurn
<1>26. ASSUME NEW t \in Turns, Blame(t) PROVE TypeOK'
  BY <1>26 DEF Blame
<1>27. ASSUME NEW t \in Turns, Report(t) PROVE TypeOK'
  BY <1>27 DEF Report, Saved, Unsaved, SessionStatusForTurn
<1>28. ASSUME NEW t \in Turns, ReportError(t) PROVE TypeOK'
  BY <1>28 DEF ReportError
<1>29. ASSUME NEW t \in Turns, Leave(t) PROVE TypeOK'
  BY <1>29, DropTyped DEF Leave
<1>30. ASSUME NEW s \in Sessions, CancelAgent(s) PROVE TypeOK'
  BY <1>30 DEF CancelAgent
<1>31. ASSUME NEW s \in Sessions, NEW p \in Projects, MoveSession(s, p) PROVE TypeOK'
  BY <1>31 DEF MoveSession
<1>32. ASSUME NEW p \in Projects, DeleteBegin(p) PROVE TypeOK'
  BY <1>32 DEF DeleteBegin
<1>33. ASSUME NEW s \in Sessions, DeleteCancel(s) PROVE TypeOK'
  BY <1>33 DEF DeleteCancel
<1>34. ASSUME DeleteCommit PROVE TypeOK'
  BY <1>34 DEF DeleteCommit
<1>35. ASSUME Restart PROVE TypeOK'
  BY <1>35, DropTyped DEF Restart
<1>36. ASSUME UNCHANGED vars PROVE TypeOK'
  BY <1>36 DEF vars
<1> QED
  BY <1>1, <1>2, <1>3, <1>4, <1>5, <1>6, <1>7, <1>8, <1>9, <1>10, <1>11, <1>12, <1>13,
     <1>14, <1>15, <1>16, <1>17, <1>18, <1>19, <1>20, <1>21, <1>22, <1>23, <1>24,
     <1>25, <1>26, <1>27, <1>28, <1>29, <1>30, <1>31, <1>32, <1>33, <1>34, <1>35, <1>36
  DEF Next, HandlerStep, GoroutineStep, UserStep

\* No step leaves a value in a frame that its goroutine no longer has.
LEMMA FramesNext == TypeInv /\ [Next]_vars => FramesOK'
<1> SUFFICES ASSUME TypeInv, [Next]_vars PROVE FramesOK'
  OBVIOUS
<1> USE BoundAssumption, IdAssumption DEF TypeInv, TypeOK, FramesOK, PC,
      InFlight, Handler, Loading, InRun, Ending, Live,
      db, catalog, batch, origin, place, deletion, GoTo, Return
<1>1. ASSUME NEW s \in Sessions, NEW t \in Turns, SendMessage(s, t) PROVE FramesOK'
  BY <1>1 DEF SendMessage
<1>2. ASSUME NEW t \in Turns, Register(t) PROVE FramesOK'
  BY <1>2 DEF Register
<1>3. ASSUME NEW t \in Turns, RegisterBusy(t) PROVE FramesOK'
  BY <1>3 DEF RegisterBusy
<1>4. ASSUME NEW t \in Turns, Refuse(t) PROVE FramesOK'
  BY <1>4 DEF Refuse, Saved, Unsaved, SessionStatusForTurn
<1>5. ASSUME NEW t \in Turns, LoadSession(t) PROVE FramesOK'
  BY <1>5 DEF LoadSession
<1>6. ASSUME NEW t \in Turns, LoadRoot(t) PROVE FramesOK'
  BY <1>6 DEF LoadRoot
<1>7. ASSUME NEW t \in Turns, LoadFails(t) PROVE FramesOK'
  BY <1>7 DEF LoadFails
<1>8. ASSUME NEW t \in Turns, Acquire(t) PROVE FramesOK'
  BY <1>8 DEF Acquire
<1>9. ASSUME NEW t \in Turns, AcquireStopped(t) PROVE FramesOK'
  BY <1>9 DEF AcquireStopped
<1>10. ASSUME NEW t \in Turns, Start(t) PROVE FramesOK'
  BY <1>10 DEF Start, Saved, Unsaved, SessionStatusForTurn
<1>11. ASSUME NEW t \in Turns, Announce(t) PROVE FramesOK'
  BY <1>11 DEF Announce
<1>12. ASSUME NEW t \in Turns, StreamFinal(t) PROVE FramesOK'
  BY <1>12 DEF StreamFinal
<1>13. ASSUME NEW t \in Turns, StreamCalls(t) PROVE FramesOK'
  <2>1. PICK n \in 0..MaxCalls : left' = [left EXCEPT ![t] = n]
    BY <1>13 DEF StreamCalls
  <2>2. asking[t] = 0 /\ n + 0 <= MaxCalls /\ round[t] + 1 \in 0..MaxRounds
    BY <1>13 DEF StreamCalls
  <2> QED
    BY <1>13, <2>1, <2>2 DEF StreamCalls
<1>14. ASSUME NEW t \in Turns, StreamFails(t) PROVE FramesOK'
  BY <1>14 DEF StreamFails
<1>15. ASSUME NEW t \in Turns, StreamStopped(t) PROVE FramesOK'
  BY <1>15 DEF StreamStopped
<1>16. ASSUME NEW t \in Turns, Ask(t) PROVE FramesOK'
  <2>1. /\ left[t] \in 0..MaxCalls /\ asking[t] \in 0..MaxCalls
        /\ left[t] - 1 \in 0..MaxCalls
        /\ asking[t] + 1 \in 0..MaxCalls
        /\ left[t] - 1 + (asking[t] + 1) <= MaxCalls
        /\ left[t] - 1 + asking[t] <= MaxCalls
    BY <1>16 DEF Ask
  <2>2. CASE Saved(t, "waiting_approval", stopped[t])
             /\ asking' = [asking EXCEPT ![t] = @ + 1]
    BY <1>16, <2>1, <2>2 DEF Ask, Saved, SessionStatusForTurn
  <2>3. CASE Unsaved(t, "waiting_approval", stopped[t]) /\ UNCHANGED asking
    BY <1>16, <2>1, <2>3 DEF Ask, Unsaved
  <2> QED
    BY <1>16, <2>2, <2>3 DEF Ask
<1>17. ASSUME NEW t \in Turns, Answer(t) PROVE FramesOK'
  BY <1>17 DEF Answer, Saved, Unsaved, SessionStatusForTurn
<1>18. ASSUME NEW t \in Turns, AskStopped(t) PROVE FramesOK'
  BY <1>18 DEF AskStopped
<1>19. ASSUME NEW t \in Turns, ToolsDone(t) PROVE FramesOK'
  BY <1>19 DEF ToolsDone
<1>20. ASSUME NEW t \in Turns, ToolsUnstored(t) PROVE FramesOK'
  BY <1>20 DEF ToolsUnstored
<1>21. ASSUME NEW t \in Turns, Complete(t) PROVE FramesOK'
  BY <1>21 DEF Complete, Saved, Unsaved, SessionStatusForTurn
<1>22. ASSUME NEW t \in Turns, Finish(t) PROVE FramesOK'
  BY <1>22 DEF Finish
<1>23. ASSUME NEW t \in Turns, Cancelling(t) PROVE FramesOK'
  BY <1>23 DEF Cancelling, Saved, Unsaved, SessionStatusForTurn
<1>24. ASSUME NEW t \in Turns, Withdraw(t) PROVE FramesOK'
  BY <1>24 DEF Withdraw
<1>25. ASSUME NEW t \in Turns, Failing(t) PROVE FramesOK'
  BY <1>25 DEF Failing, Saved, Unsaved, SessionStatusForTurn
<1>26. ASSUME NEW t \in Turns, Blame(t) PROVE FramesOK'
  BY <1>26 DEF Blame
<1>27. ASSUME NEW t \in Turns, Report(t) PROVE FramesOK'
  BY <1>27 DEF Report, Saved, Unsaved, SessionStatusForTurn
<1>28. ASSUME NEW t \in Turns, ReportError(t) PROVE FramesOK'
  BY <1>28 DEF ReportError
<1>29. ASSUME NEW t \in Turns, Leave(t) PROVE FramesOK'
  BY <1>29 DEF Leave, DropFrames
<1>30. ASSUME NEW s \in Sessions, CancelAgent(s) PROVE FramesOK'
  BY <1>30 DEF CancelAgent
<1>31. ASSUME NEW s \in Sessions, NEW p \in Projects, MoveSession(s, p) PROVE FramesOK'
  BY <1>31 DEF MoveSession
<1>32. ASSUME NEW p \in Projects, DeleteBegin(p) PROVE FramesOK'
  BY <1>32 DEF DeleteBegin
<1>33. ASSUME NEW s \in Sessions, DeleteCancel(s) PROVE FramesOK'
  BY <1>33 DEF DeleteCancel
<1>34. ASSUME DeleteCommit PROVE FramesOK'
  BY <1>34 DEF DeleteCommit
<1>35. ASSUME Restart PROVE FramesOK'
  BY <1>35 DEF Restart, DropFrames
<1>36. ASSUME UNCHANGED vars PROVE FramesOK'
  BY <1>36 DEF vars
<1> QED
  BY <1>1, <1>2, <1>3, <1>4, <1>5, <1>6, <1>7, <1>8, <1>9, <1>10, <1>11, <1>12, <1>13,
     <1>14, <1>15, <1>16, <1>17, <1>18, <1>19, <1>20, <1>21, <1>22, <1>23, <1>24,
     <1>25, <1>26, <1>27, <1>28, <1>29, <1>30, <1>31, <1>32, <1>33, <1>34, <1>35, <1>36
  DEF Next, HandlerStep, GoroutineStep, UserStep

\* Type correctness, for any number of projects, sessions and turns.
THEOREM TypeCorrect == Spec => []TypeOK
<1>1. TypeInv /\ [Next]_vars => TypeInv'
  BY TypeNext, FramesNext DEF TypeInv
<1>2. TypeInv => TypeOK
  BY DEF TypeInv
<1> QED
  BY <1>1, <1>2, TypeInit, PTL DEF Spec

\* Typing and the frames together are invariant; later proofs start from them.
LEMMA TypeAlways == Spec => []TypeInv
<1>1. TypeInv /\ [Next]_vars => TypeInv'
  BY TypeNext, FramesNext DEF TypeInv
<1> QED
  BY <1>1, TypeInit, PTL DEF Spec

-----------------------------------------------------------------------------
(* The table of running agents and the mutation lock.                      *)

\* Every step keeps the table of running agents and the goroutines in step:
\* RegisterActive, Done, Cancel, deletion and restart.
LEMMA StopNext == TypeInv /\ StopReachesAgent /\ [Next]_vars => StopReachesAgent'
<1> SUFFICES ASSUME TypeInv, StopReachesAgent, [Next]_vars PROVE StopReachesAgent'
  OBVIOUS
<1> USE IdAssumption DEF TypeInv, TypeOK, FramesOK, StopReachesAgent, PC, InFlight, Handler, Loading, InRun, Ending, Live,
      db, catalog, batch, origin, place, deletion, GoTo, Return
<1>1. ASSUME NEW s \in Sessions, NEW t \in Turns, SendMessage(s, t) PROVE StopReachesAgent'
  BY <1>1 DEF SendMessage
<1>2. ASSUME NEW t \in Turns, Register(t) PROVE StopReachesAgent'
  BY <1>2 DEF Register
<1>3. ASSUME NEW t \in Turns, RegisterBusy(t) PROVE StopReachesAgent'
  <2>1. pc[t] \notin Live /\ pc'[t] \notin Live /\ UNCHANGED <<active, owner>>
    BY <1>3 DEF RegisterBusy
  <2>2. \A u \in Turns : u # t => pc'[u] = pc[u]
    BY <1>3 DEF RegisterBusy
  <2>3. \A s \in Sessions : active[s] # t
    BY <2>1
  <2>4. \A u \in Turns : pc'[u] \in Live => pc[u] \in Live
    BY <2>1, <2>2
  <2>5. \A s \in Sessions : active[s] # NoTurn => pc'[active[s]] = pc[active[s]]
    BY <2>2, <2>3
  <2> QED
    BY <2>1, <2>4, <2>5
<1>4. ASSUME NEW t \in Turns, Refuse(t) PROVE StopReachesAgent'
  BY <1>4 DEF Refuse
<1>5. ASSUME NEW t \in Turns, LoadSession(t) PROVE StopReachesAgent'
  BY <1>5 DEF LoadSession
<1>6. ASSUME NEW t \in Turns, LoadRoot(t) PROVE StopReachesAgent'
  BY <1>6 DEF LoadRoot
<1>7. ASSUME NEW t \in Turns, LoadFails(t) PROVE StopReachesAgent'
  BY <1>7 DEF LoadFails
<1>8. ASSUME NEW t \in Turns, Acquire(t) PROVE StopReachesAgent'
  BY <1>8 DEF Acquire
<1>9. ASSUME NEW t \in Turns, AcquireStopped(t) PROVE StopReachesAgent'
  BY <1>9 DEF AcquireStopped
<1>10. ASSUME NEW t \in Turns, Start(t) PROVE StopReachesAgent'
  BY <1>10 DEF Start
<1>11. ASSUME NEW t \in Turns, Announce(t) PROVE StopReachesAgent'
  BY <1>11 DEF Announce
<1>12. ASSUME NEW t \in Turns, StreamFinal(t) PROVE StopReachesAgent'
  BY <1>12 DEF StreamFinal
<1>13. ASSUME NEW t \in Turns, StreamCalls(t) PROVE StopReachesAgent'
  BY <1>13 DEF StreamCalls
<1>14. ASSUME NEW t \in Turns, StreamFails(t) PROVE StopReachesAgent'
  BY <1>14 DEF StreamFails
<1>15. ASSUME NEW t \in Turns, StreamStopped(t) PROVE StopReachesAgent'
  BY <1>15 DEF StreamStopped
<1>16. ASSUME NEW t \in Turns, Ask(t) PROVE StopReachesAgent'
  BY <1>16 DEF Ask
<1>17. ASSUME NEW t \in Turns, Answer(t) PROVE StopReachesAgent'
  BY <1>17 DEF Answer
<1>18. ASSUME NEW t \in Turns, AskStopped(t) PROVE StopReachesAgent'
  BY <1>18 DEF AskStopped
<1>19. ASSUME NEW t \in Turns, ToolsDone(t) PROVE StopReachesAgent'
  BY <1>19 DEF ToolsDone
<1>20. ASSUME NEW t \in Turns, ToolsUnstored(t) PROVE StopReachesAgent'
  BY <1>20 DEF ToolsUnstored
<1>21. ASSUME NEW t \in Turns, Complete(t) PROVE StopReachesAgent'
  BY <1>21 DEF Complete
<1>22. ASSUME NEW t \in Turns, Finish(t) PROVE StopReachesAgent'
  BY <1>22 DEF Finish
<1>23. ASSUME NEW t \in Turns, Cancelling(t) PROVE StopReachesAgent'
  BY <1>23 DEF Cancelling
<1>24. ASSUME NEW t \in Turns, Withdraw(t) PROVE StopReachesAgent'
  BY <1>24 DEF Withdraw
<1>25. ASSUME NEW t \in Turns, Failing(t) PROVE StopReachesAgent'
  BY <1>25 DEF Failing
<1>26. ASSUME NEW t \in Turns, Blame(t) PROVE StopReachesAgent'
  BY <1>26 DEF Blame
<1>27. ASSUME NEW t \in Turns, Report(t) PROVE StopReachesAgent'
  BY <1>27 DEF Report
<1>28. ASSUME NEW t \in Turns, ReportError(t) PROVE StopReachesAgent'
  BY <1>28 DEF ReportError
<1>29. ASSUME NEW t \in Turns, Leave(t) PROVE StopReachesAgent'
  BY <1>29 DEF Leave, DropFrames
<1>30. ASSUME NEW s \in Sessions, CancelAgent(s) PROVE StopReachesAgent'
  BY <1>30 DEF CancelAgent
<1>31. ASSUME NEW s \in Sessions, NEW p \in Projects, MoveSession(s, p) PROVE StopReachesAgent'
  BY <1>31 DEF MoveSession
<1>32. ASSUME NEW p \in Projects, DeleteBegin(p) PROVE StopReachesAgent'
  BY <1>32 DEF DeleteBegin
<1>33. ASSUME NEW s \in Sessions, DeleteCancel(s) PROVE StopReachesAgent'
  BY <1>33 DEF DeleteCancel
<1>34. ASSUME DeleteCommit PROVE StopReachesAgent'
  BY <1>34 DEF DeleteCommit
<1>35. ASSUME Restart PROVE StopReachesAgent'
  BY <1>35 DEF Restart, DropFrames
<1>36. ASSUME UNCHANGED vars PROVE StopReachesAgent'
  BY <1>36 DEF vars
<1> QED
  BY <1>1, <1>2, <1>3, <1>4, <1>5, <1>6, <1>7, <1>8, <1>9, <1>10, <1>11, <1>12, <1>13,
     <1>14, <1>15, <1>16, <1>17, <1>18, <1>19, <1>20, <1>21, <1>22, <1>23, <1>24,
     <1>25, <1>26, <1>27, <1>28, <1>29, <1>30, <1>31, <1>32, <1>33, <1>34, <1>35, <1>36
  DEF Next, HandlerStep, GoroutineStep, UserStep

\* Every step keeps the lock table and the goroutines between Acquire and its
\* release in step.
LEMMA LockNext == TypeInv /\ LockHeldByRunner /\ [Next]_vars => LockHeldByRunner'
<1> SUFFICES ASSUME TypeInv, LockHeldByRunner, [Next]_vars PROVE LockHeldByRunner'
  OBVIOUS
<1> USE IdAssumption DEF TypeInv, TypeOK, FramesOK, LockHeldByRunner, PC, InFlight, Handler, Loading, InRun, Ending, Live,
      db, catalog, batch, origin, place, deletion, GoTo, Return
<1>1. ASSUME NEW s \in Sessions, NEW t \in Turns, SendMessage(s, t) PROVE LockHeldByRunner'
  BY <1>1 DEF SendMessage
<1>2. ASSUME NEW t \in Turns, Register(t) PROVE LockHeldByRunner'
  BY <1>2 DEF Register
<1>3. ASSUME NEW t \in Turns, RegisterBusy(t) PROVE LockHeldByRunner'
  BY <1>3 DEF RegisterBusy
<1>4. ASSUME NEW t \in Turns, Refuse(t) PROVE LockHeldByRunner'
  BY <1>4 DEF Refuse
<1>5. ASSUME NEW t \in Turns, LoadSession(t) PROVE LockHeldByRunner'
  BY <1>5 DEF LoadSession
<1>6. ASSUME NEW t \in Turns, LoadRoot(t) PROVE LockHeldByRunner'
  BY <1>6 DEF LoadRoot
<1>7. ASSUME NEW t \in Turns, LoadFails(t) PROVE LockHeldByRunner'
  BY <1>7 DEF LoadFails
<1>8. ASSUME NEW t \in Turns, Acquire(t) PROVE LockHeldByRunner'
  BY <1>8 DEF Acquire
<1>9. ASSUME NEW t \in Turns, AcquireStopped(t) PROVE LockHeldByRunner'
  BY <1>9 DEF AcquireStopped
<1>10. ASSUME NEW t \in Turns, Start(t) PROVE LockHeldByRunner'
  <2>1. CASE GoTo(t, "announcing") /\ UNCHANGED lock
    BY <1>10, <2>1 DEF Start
  <2>2. CASE Return(t, "broken")
    BY <1>10, <2>2 DEF Start
  <2> QED
    BY <1>10, <2>1, <2>2 DEF Start
<1>11. ASSUME NEW t \in Turns, Announce(t) PROVE LockHeldByRunner'
  BY <1>11 DEF Announce
<1>12. ASSUME NEW t \in Turns, StreamFinal(t) PROVE LockHeldByRunner'
  BY <1>12 DEF StreamFinal
<1>13. ASSUME NEW t \in Turns, StreamCalls(t) PROVE LockHeldByRunner'
  BY <1>13 DEF StreamCalls
<1>14. ASSUME NEW t \in Turns, StreamFails(t) PROVE LockHeldByRunner'
  BY <1>14 DEF StreamFails
<1>15. ASSUME NEW t \in Turns, StreamStopped(t) PROVE LockHeldByRunner'
  BY <1>15 DEF StreamStopped
<1>16. ASSUME NEW t \in Turns, Ask(t) PROVE LockHeldByRunner'
  BY <1>16 DEF Ask
<1>17. ASSUME NEW t \in Turns, Answer(t) PROVE LockHeldByRunner'
  BY <1>17 DEF Answer
<1>18. ASSUME NEW t \in Turns, AskStopped(t) PROVE LockHeldByRunner'
  BY <1>18 DEF AskStopped
<1>19. ASSUME NEW t \in Turns, ToolsDone(t) PROVE LockHeldByRunner'
  BY <1>19 DEF ToolsDone
<1>20. ASSUME NEW t \in Turns, ToolsUnstored(t) PROVE LockHeldByRunner'
  BY <1>20 DEF ToolsUnstored
<1>21. ASSUME NEW t \in Turns, Complete(t) PROVE LockHeldByRunner'
  <2>1. CASE GoTo(t, "finishing") /\ UNCHANGED lock
    BY <1>21, <2>1 DEF Complete
  <2>2. CASE Return(t, "broken")
    BY <1>21, <2>2 DEF Complete
  <2> QED
    BY <1>21, <2>1, <2>2 DEF Complete
<1>22. ASSUME NEW t \in Turns, Finish(t) PROVE LockHeldByRunner'
  BY <1>22 DEF Finish
<1>23. ASSUME NEW t \in Turns, Cancelling(t) PROVE LockHeldByRunner'
  BY <1>23 DEF Cancelling
<1>24. ASSUME NEW t \in Turns, Withdraw(t) PROVE LockHeldByRunner'
  BY <1>24 DEF Withdraw
<1>25. ASSUME NEW t \in Turns, Failing(t) PROVE LockHeldByRunner'
  BY <1>25 DEF Failing
<1>26. ASSUME NEW t \in Turns, Blame(t) PROVE LockHeldByRunner'
  BY <1>26 DEF Blame
<1>27. ASSUME NEW t \in Turns, Report(t) PROVE LockHeldByRunner'
  BY <1>27 DEF Report
<1>28. ASSUME NEW t \in Turns, ReportError(t) PROVE LockHeldByRunner'
  BY <1>28 DEF ReportError
<1>29. ASSUME NEW t \in Turns, Leave(t) PROVE LockHeldByRunner'
  BY <1>29 DEF Leave, DropFrames
<1>30. ASSUME NEW s \in Sessions, CancelAgent(s) PROVE LockHeldByRunner'
  BY <1>30 DEF CancelAgent
<1>31. ASSUME NEW s \in Sessions, NEW p \in Projects, MoveSession(s, p) PROVE LockHeldByRunner'
  BY <1>31 DEF MoveSession
<1>32. ASSUME NEW p \in Projects, DeleteBegin(p) PROVE LockHeldByRunner'
  BY <1>32 DEF DeleteBegin
<1>33. ASSUME NEW s \in Sessions, DeleteCancel(s) PROVE LockHeldByRunner'
  BY <1>33 DEF DeleteCancel
<1>34. ASSUME DeleteCommit PROVE LockHeldByRunner'
  BY <1>34 DEF DeleteCommit
<1>35. ASSUME Restart PROVE LockHeldByRunner'
  BY <1>35 DEF Restart, DropFrames
<1>36. ASSUME UNCHANGED vars PROVE LockHeldByRunner'
  BY <1>36 DEF vars
<1> QED
  BY <1>1, <1>2, <1>3, <1>4, <1>5, <1>6, <1>7, <1>8, <1>9, <1>10, <1>11, <1>12, <1>13,
     <1>14, <1>15, <1>16, <1>17, <1>18, <1>19, <1>20, <1>21, <1>22, <1>23, <1>24,
     <1>25, <1>26, <1>27, <1>28, <1>29, <1>30, <1>31, <1>32, <1>33, <1>34, <1>35, <1>36
  DEF Next, HandlerStep, GoroutineStep, UserStep

\* The stop button reaches every agent that runs, for every number of turns: no
\* interleaving of refusals, exits, deletions and restarts leaves an agent out of
\* the table or an entry behind (session.Manager).
THEOREM StopCorrect == Spec => []StopReachesAgent
<1>1. Init => StopReachesAgent
  BY DEF Init, StopReachesAgent, Live, Loading, InRun, Ending
<1> QED
  BY <1>1, StopNext, TypeAlways, PTL DEF Spec

\* A project's lock is held by exactly the turn that runs under it.
THEOREM LockCorrect == Spec => []LockHeldByRunner
<1>1. Init => LockHeldByRunner
  BY DEF Init, LockHeldByRunner, InRun
<1> QED
  BY <1>1, LockNext, TypeAlways, PTL DEF Spec

\* Two agents that each read lock key and root from one project never run in
\* the same directory.
THEOREM ExclusionCorrect == Spec => []SameProjectExcluded
<1>1. LockHeldByRunner => SameProjectExcluded
  BY DEF LockHeldByRunner, SameProjectExcluded
<1> QED
  BY <1>1, LockCorrect, PTL

-----------------------------------------------------------------------------
(* The status of a turn's row at each point of its goroutine.              *)

Working == Handler \cup Loading \cup (InRun \ {"finishing", "blaming"})

\* Nobody else writes a turn's row while its goroutine is alive, except the
\* deletion of the project: what the row says follows from where the goroutine is.
RowPhase ==
  \A t \in Turns :
    /\ pc[t] = "unborn" => row[t] = "absent"
    /\ pc[t] \in Working => row[t] \in ActiveStatus \cup {"absent"}
    /\ pc[t] = "finishing" => row[t] \in {"completed", "absent"}
    /\ pc[t] \in {"blaming", "broken"} => row[t] \in ActiveStatus \cup {"failed", "absent"}

\* cancel runs only under a cancelled context, and only a started agent is stopped.
StopPhase ==
  \A t \in Turns :
    /\ pc[t] \in {"cancelling", "withdrawing"} => stopped[t]
    /\ pc[t] = "unborn" => ~stopped[t]

\* Every step keeps StopPhase: past the stop no goroutine goes on towards success.
LEMMA StopPhaseNext ==
  TypeInv /\ StopReachesAgent /\ StopPhase /\ [Next]_vars => StopPhase'
<1> SUFFICES ASSUME TypeInv, StopReachesAgent, StopPhase, [Next]_vars PROVE StopPhase'
  OBVIOUS
<1> USE IdAssumption DEF TypeInv, TypeOK, StopPhase, PC, InFlight, Handler, Loading, InRun, Ending, Live,
      db, catalog, batch, origin, place, deletion, GoTo, Return
<1>1. ASSUME NEW s \in Sessions, NEW t \in Turns, SendMessage(s, t) PROVE StopPhase'
  BY <1>1 DEF SendMessage
<1>2. ASSUME NEW t \in Turns, Register(t) PROVE StopPhase'
  BY <1>2 DEF Register
<1>3. ASSUME NEW t \in Turns, RegisterBusy(t) PROVE StopPhase'
  BY <1>3 DEF RegisterBusy
<1>4. ASSUME NEW t \in Turns, Refuse(t) PROVE StopPhase'
  BY <1>4 DEF Refuse
<1>5. ASSUME NEW t \in Turns, LoadSession(t) PROVE StopPhase'
  BY <1>5 DEF LoadSession
<1>6. ASSUME NEW t \in Turns, LoadRoot(t) PROVE StopPhase'
  BY <1>6 DEF LoadRoot
<1>7. ASSUME NEW t \in Turns, LoadFails(t) PROVE StopPhase'
  BY <1>7 DEF LoadFails
<1>8. ASSUME NEW t \in Turns, Acquire(t) PROVE StopPhase'
  BY <1>8 DEF Acquire
<1>9. ASSUME NEW t \in Turns, AcquireStopped(t) PROVE StopPhase'
  BY <1>9 DEF AcquireStopped
<1>10. ASSUME NEW t \in Turns, Start(t) PROVE StopPhase'
  BY <1>10 DEF Start
<1>11. ASSUME NEW t \in Turns, Announce(t) PROVE StopPhase'
  BY <1>11 DEF Announce
<1>12. ASSUME NEW t \in Turns, StreamFinal(t) PROVE StopPhase'
  BY <1>12 DEF StreamFinal
<1>13. ASSUME NEW t \in Turns, StreamCalls(t) PROVE StopPhase'
  BY <1>13 DEF StreamCalls
<1>14. ASSUME NEW t \in Turns, StreamFails(t) PROVE StopPhase'
  BY <1>14 DEF StreamFails
<1>15. ASSUME NEW t \in Turns, StreamStopped(t) PROVE StopPhase'
  BY <1>15 DEF StreamStopped
<1>16. ASSUME NEW t \in Turns, Ask(t) PROVE StopPhase'
  BY <1>16 DEF Ask
<1>17. ASSUME NEW t \in Turns, Answer(t) PROVE StopPhase'
  BY <1>17 DEF Answer
<1>18. ASSUME NEW t \in Turns, AskStopped(t) PROVE StopPhase'
  BY <1>18 DEF AskStopped
<1>19. ASSUME NEW t \in Turns, ToolsDone(t) PROVE StopPhase'
  BY <1>19 DEF ToolsDone
<1>20. ASSUME NEW t \in Turns, ToolsUnstored(t) PROVE StopPhase'
  BY <1>20 DEF ToolsUnstored
<1>21. ASSUME NEW t \in Turns, Complete(t) PROVE StopPhase'
  BY <1>21 DEF Complete
<1>22. ASSUME NEW t \in Turns, Finish(t) PROVE StopPhase'
  BY <1>22 DEF Finish
<1>23. ASSUME NEW t \in Turns, Cancelling(t) PROVE StopPhase'
  BY <1>23 DEF Cancelling
<1>24. ASSUME NEW t \in Turns, Withdraw(t) PROVE StopPhase'
  BY <1>24 DEF Withdraw
<1>25. ASSUME NEW t \in Turns, Failing(t) PROVE StopPhase'
  BY <1>25 DEF Failing
<1>26. ASSUME NEW t \in Turns, Blame(t) PROVE StopPhase'
  BY <1>26 DEF Blame
<1>27. ASSUME NEW t \in Turns, Report(t) PROVE StopPhase'
  BY <1>27 DEF Report
<1>28. ASSUME NEW t \in Turns, ReportError(t) PROVE StopPhase'
  BY <1>28 DEF ReportError
<1>29. ASSUME NEW t \in Turns, Leave(t) PROVE StopPhase'
  BY <1>29 DEF Leave, DropFrames
<1>30. ASSUME NEW s \in Sessions, CancelAgent(s) PROVE StopPhase'
  <2>1. pc[active[s]] \in Live
    BY <1>30 DEF CancelAgent, StopReachesAgent
  <2> QED
    BY <1>30, <2>1 DEF CancelAgent
<1>31. ASSUME NEW s \in Sessions, NEW p \in Projects, MoveSession(s, p) PROVE StopPhase'
  BY <1>31 DEF MoveSession
<1>32. ASSUME NEW p \in Projects, DeleteBegin(p) PROVE StopPhase'
  BY <1>32 DEF DeleteBegin
<1>33. ASSUME NEW s \in Sessions, DeleteCancel(s) PROVE StopPhase'
  <2>1. active[s] # NoTurn => pc[active[s]] \in Live
    BY <1>33 DEF DeleteCancel, StopReachesAgent
  <2> QED
    BY <1>33, <2>1 DEF DeleteCancel
<1>34. ASSUME DeleteCommit PROVE StopPhase'
  BY <1>34 DEF DeleteCommit
<1>35. ASSUME Restart PROVE StopPhase'
  BY <1>35 DEF Restart, DropFrames
<1>36. ASSUME UNCHANGED vars PROVE StopPhase'
  BY <1>36 DEF vars
<1> QED
  BY <1>1, <1>2, <1>3, <1>4, <1>5, <1>6, <1>7, <1>8, <1>9, <1>10, <1>11, <1>12, <1>13,
     <1>14, <1>15, <1>16, <1>17, <1>18, <1>19, <1>20, <1>21, <1>22, <1>23, <1>24,
     <1>25, <1>26, <1>27, <1>28, <1>29, <1>30, <1>31, <1>32, <1>33, <1>34, <1>35, <1>36
  DEF Next, HandlerStep, GoroutineStep, UserStep

\* Every step keeps RowPhase: the stored status follows the place of the turn's
\* goroutine.
LEMMA RowPhaseNext == TypeInv /\ RowPhase /\ StopPhase /\ [Next]_vars => RowPhase'
<1> SUFFICES ASSUME TypeInv, RowPhase, StopPhase, [Next]_vars PROVE RowPhase'
  OBVIOUS
<1> USE IdAssumption DEF TypeInv, TypeOK, RowPhase, Working, ActiveStatus, PC, InFlight, Handler, Loading, InRun, Ending, Live,
      db, catalog, batch, origin, place, deletion, GoTo, Return
<1>1. ASSUME NEW s \in Sessions, NEW t \in Turns, SendMessage(s, t) PROVE RowPhase'
  BY <1>1 DEF SendMessage
<1>2. ASSUME NEW t \in Turns, Register(t) PROVE RowPhase'
  BY <1>2 DEF Register
<1>3. ASSUME NEW t \in Turns, RegisterBusy(t) PROVE RowPhase'
  BY <1>3 DEF RegisterBusy
<1>4. ASSUME NEW t \in Turns, Refuse(t) PROVE RowPhase'
  BY <1>4 DEF Refuse, Saved, Unsaved, SessionStatusForTurn
<1>5. ASSUME NEW t \in Turns, LoadSession(t) PROVE RowPhase'
  BY <1>5 DEF LoadSession
<1>6. ASSUME NEW t \in Turns, LoadRoot(t) PROVE RowPhase'
  BY <1>6 DEF LoadRoot
<1>7. ASSUME NEW t \in Turns, LoadFails(t) PROVE RowPhase'
  BY <1>7 DEF LoadFails
<1>8. ASSUME NEW t \in Turns, Acquire(t) PROVE RowPhase'
  BY <1>8 DEF Acquire
<1>9. ASSUME NEW t \in Turns, AcquireStopped(t) PROVE RowPhase'
  BY <1>9 DEF AcquireStopped
<1>10. ASSUME NEW t \in Turns, Start(t) PROVE RowPhase'
  BY <1>10 DEF Start, Saved, Unsaved, SessionStatusForTurn
<1>11. ASSUME NEW t \in Turns, Announce(t) PROVE RowPhase'
  BY <1>11 DEF Announce
<1>12. ASSUME NEW t \in Turns, StreamFinal(t) PROVE RowPhase'
  BY <1>12 DEF StreamFinal
<1>13. ASSUME NEW t \in Turns, StreamCalls(t) PROVE RowPhase'
  BY <1>13 DEF StreamCalls
<1>14. ASSUME NEW t \in Turns, StreamFails(t) PROVE RowPhase'
  BY <1>14 DEF StreamFails
<1>15. ASSUME NEW t \in Turns, StreamStopped(t) PROVE RowPhase'
  BY <1>15 DEF StreamStopped
<1>16. ASSUME NEW t \in Turns, Ask(t) PROVE RowPhase'
  BY <1>16 DEF Ask, Saved, Unsaved, SessionStatusForTurn
<1>17. ASSUME NEW t \in Turns, Answer(t) PROVE RowPhase'
  BY <1>17 DEF Answer, Saved, Unsaved, SessionStatusForTurn
<1>18. ASSUME NEW t \in Turns, AskStopped(t) PROVE RowPhase'
  BY <1>18 DEF AskStopped
<1>19. ASSUME NEW t \in Turns, ToolsDone(t) PROVE RowPhase'
  BY <1>19 DEF ToolsDone
<1>20. ASSUME NEW t \in Turns, ToolsUnstored(t) PROVE RowPhase'
  BY <1>20 DEF ToolsUnstored
<1>21. ASSUME NEW t \in Turns, Complete(t) PROVE RowPhase'
  BY <1>21 DEF Complete, Saved, Unsaved, SessionStatusForTurn
<1>22. ASSUME NEW t \in Turns, Finish(t) PROVE RowPhase'
  BY <1>22 DEF Finish
<1>23. ASSUME NEW t \in Turns, Cancelling(t) PROVE RowPhase'
  BY <1>23 DEF Cancelling, Saved, Unsaved, StopPhase
<1>24. ASSUME NEW t \in Turns, Withdraw(t) PROVE RowPhase'
  BY <1>24 DEF Withdraw
<1>25. ASSUME NEW t \in Turns, Failing(t) PROVE RowPhase'
  BY <1>25 DEF Failing, Saved, Unsaved, SessionStatusForTurn
<1>26. ASSUME NEW t \in Turns, Blame(t) PROVE RowPhase'
  BY <1>26 DEF Blame
<1>27. ASSUME NEW t \in Turns, Report(t) PROVE RowPhase'
  BY <1>27 DEF Report, Saved, Unsaved, SessionStatusForTurn
<1>28. ASSUME NEW t \in Turns, ReportError(t) PROVE RowPhase'
  BY <1>28 DEF ReportError
<1>29. ASSUME NEW t \in Turns, Leave(t) PROVE RowPhase'
  BY <1>29 DEF Leave, DropFrames
<1>30. ASSUME NEW s \in Sessions, CancelAgent(s) PROVE RowPhase'
  BY <1>30 DEF CancelAgent
<1>31. ASSUME NEW s \in Sessions, NEW p \in Projects, MoveSession(s, p) PROVE RowPhase'
  BY <1>31 DEF MoveSession
<1>32. ASSUME NEW p \in Projects, DeleteBegin(p) PROVE RowPhase'
  BY <1>32 DEF DeleteBegin
<1>33. ASSUME NEW s \in Sessions, DeleteCancel(s) PROVE RowPhase'
  BY <1>33 DEF DeleteCancel
<1>34. ASSUME DeleteCommit PROVE RowPhase'
  BY <1>34 DEF DeleteCommit
<1>35. ASSUME Restart PROVE RowPhase'
  BY <1>35 DEF Restart, DropFrames
<1>36. ASSUME UNCHANGED vars PROVE RowPhase'
  BY <1>36 DEF vars
<1> QED
  BY <1>1, <1>2, <1>3, <1>4, <1>5, <1>6, <1>7, <1>8, <1>9, <1>10, <1>11, <1>12, <1>13,
     <1>14, <1>15, <1>16, <1>17, <1>18, <1>19, <1>20, <1>21, <1>22, <1>23, <1>24,
     <1>25, <1>26, <1>27, <1>28, <1>29, <1>30, <1>31, <1>32, <1>33, <1>34, <1>35, <1>36
  DEF Next, HandlerStep, GoroutineStep, UserStep

\* Every phase invariant together, and the invariants they rest on.
PhaseInv == TypeInv /\ StopReachesAgent /\ StopPhase /\ RowPhase

\* The phases hold in every reachable state.
LEMMA PhaseAlways == Spec => []PhaseInv
<1>1. Init => StopPhase /\ RowPhase
  BY DEF Init, StopPhase, RowPhase, Working, Handler, Loading, InRun
<1>2. PhaseInv /\ [Next]_vars => PhaseInv'
  BY TypeNext, FramesNext, StopNext, StopPhaseNext, RowPhaseNext DEF PhaseInv, TypeInv
<1>3. Init => PhaseInv
  <2>1. Init => StopReachesAgent
    BY DEF Init, StopReachesAgent, Live, Loading, InRun, Ending
  <2> QED
    BY <1>1, <2>1, TypeInit DEF PhaseInv
<1> QED
  BY <1>2, <1>3, PTL DEF Spec

-----------------------------------------------------------------------------
(* The events of a turn.                                                   *)

\* agent.error is published on the way out, agent.finished as the last thing
\* Run does, and then the row stays completed.
SaidPhase ==
  \A t \in Turns :
    /\ "error" \in said[t] => pc[t] \in {"broken", "reporting", "leaving", "gone"}
    /\ "finished" \in said[t] => pc[t] \in {"leaving", "gone"}
    /\ pc[t] = "unborn" => said[t] = {}

\* Every step keeps SaidPhase: agent.finished is published only by a goroutine on
\* its last steps.
LEMMA SaidPhaseNext == TypeInv /\ SaidPhase /\ [Next]_vars => SaidPhase'
<1> SUFFICES ASSUME TypeInv, SaidPhase, [Next]_vars PROVE SaidPhase'
  OBVIOUS
<1> USE DEF TypeInv, TypeOK, SaidPhase, Publish, PC, InFlight, Handler, Loading, InRun, Ending, Live,
      db, catalog, batch, origin, place, deletion, GoTo, Return
<1>1. ASSUME NEW s \in Sessions, NEW t \in Turns, SendMessage(s, t) PROVE SaidPhase'
  BY <1>1 DEF SendMessage
<1>2. ASSUME NEW t \in Turns, Register(t) PROVE SaidPhase'
  BY <1>2 DEF Register
<1>3. ASSUME NEW t \in Turns, RegisterBusy(t) PROVE SaidPhase'
  BY <1>3 DEF RegisterBusy
<1>4. ASSUME NEW t \in Turns, Refuse(t) PROVE SaidPhase'
  BY <1>4 DEF Refuse
<1>5. ASSUME NEW t \in Turns, LoadSession(t) PROVE SaidPhase'
  BY <1>5 DEF LoadSession
<1>6. ASSUME NEW t \in Turns, LoadRoot(t) PROVE SaidPhase'
  BY <1>6 DEF LoadRoot
<1>7. ASSUME NEW t \in Turns, LoadFails(t) PROVE SaidPhase'
  BY <1>7 DEF LoadFails
<1>8. ASSUME NEW t \in Turns, Acquire(t) PROVE SaidPhase'
  BY <1>8 DEF Acquire
<1>9. ASSUME NEW t \in Turns, AcquireStopped(t) PROVE SaidPhase'
  BY <1>9 DEF AcquireStopped
<1>10. ASSUME NEW t \in Turns, Start(t) PROVE SaidPhase'
  BY <1>10 DEF Start
<1>11. ASSUME NEW t \in Turns, Announce(t) PROVE SaidPhase'
  BY <1>11 DEF Announce
<1>12. ASSUME NEW t \in Turns, StreamFinal(t) PROVE SaidPhase'
  BY <1>12 DEF StreamFinal
<1>13. ASSUME NEW t \in Turns, StreamCalls(t) PROVE SaidPhase'
  BY <1>13 DEF StreamCalls
<1>14. ASSUME NEW t \in Turns, StreamFails(t) PROVE SaidPhase'
  BY <1>14 DEF StreamFails
<1>15. ASSUME NEW t \in Turns, StreamStopped(t) PROVE SaidPhase'
  BY <1>15 DEF StreamStopped
<1>16. ASSUME NEW t \in Turns, Ask(t) PROVE SaidPhase'
  BY <1>16 DEF Ask
<1>17. ASSUME NEW t \in Turns, Answer(t) PROVE SaidPhase'
  BY <1>17 DEF Answer
<1>18. ASSUME NEW t \in Turns, AskStopped(t) PROVE SaidPhase'
  BY <1>18 DEF AskStopped
<1>19. ASSUME NEW t \in Turns, ToolsDone(t) PROVE SaidPhase'
  BY <1>19 DEF ToolsDone
<1>20. ASSUME NEW t \in Turns, ToolsUnstored(t) PROVE SaidPhase'
  BY <1>20 DEF ToolsUnstored
<1>21. ASSUME NEW t \in Turns, Complete(t) PROVE SaidPhase'
  BY <1>21 DEF Complete
<1>22. ASSUME NEW t \in Turns, Finish(t) PROVE SaidPhase'
  BY <1>22 DEF Finish
<1>23. ASSUME NEW t \in Turns, Cancelling(t) PROVE SaidPhase'
  BY <1>23 DEF Cancelling
<1>24. ASSUME NEW t \in Turns, Withdraw(t) PROVE SaidPhase'
  BY <1>24 DEF Withdraw
<1>25. ASSUME NEW t \in Turns, Failing(t) PROVE SaidPhase'
  BY <1>25 DEF Failing
<1>26. ASSUME NEW t \in Turns, Blame(t) PROVE SaidPhase'
  BY <1>26 DEF Blame
<1>27. ASSUME NEW t \in Turns, Report(t) PROVE SaidPhase'
  BY <1>27 DEF Report
<1>28. ASSUME NEW t \in Turns, ReportError(t) PROVE SaidPhase'
  BY <1>28 DEF ReportError
<1>29. ASSUME NEW t \in Turns, Leave(t) PROVE SaidPhase'
  BY <1>29 DEF Leave, DropFrames
<1>30. ASSUME NEW s \in Sessions, CancelAgent(s) PROVE SaidPhase'
  BY <1>30 DEF CancelAgent
<1>31. ASSUME NEW s \in Sessions, NEW p \in Projects, MoveSession(s, p) PROVE SaidPhase'
  BY <1>31 DEF MoveSession
<1>32. ASSUME NEW p \in Projects, DeleteBegin(p) PROVE SaidPhase'
  BY <1>32 DEF DeleteBegin
<1>33. ASSUME NEW s \in Sessions, DeleteCancel(s) PROVE SaidPhase'
  BY <1>33 DEF DeleteCancel
<1>34. ASSUME DeleteCommit PROVE SaidPhase'
  BY <1>34 DEF DeleteCommit
<1>35. ASSUME Restart PROVE SaidPhase'
  BY <1>35 DEF Restart, DropFrames
<1>36. ASSUME UNCHANGED vars PROVE SaidPhase'
  BY <1>36 DEF vars
<1> QED
  BY <1>1, <1>2, <1>3, <1>4, <1>5, <1>6, <1>7, <1>8, <1>9, <1>10, <1>11, <1>12, <1>13,
     <1>14, <1>15, <1>16, <1>17, <1>18, <1>19, <1>20, <1>21, <1>22, <1>23, <1>24,
     <1>25, <1>26, <1>27, <1>28, <1>29, <1>30, <1>31, <1>32, <1>33, <1>34, <1>35, <1>36
  DEF Next, HandlerStep, GoroutineStep, UserStep

\* Every step keeps FinishedIsCompleted: what was published as finished stays
\* stored as completed.
LEMMA FinishedNext ==
  PhaseInv /\ SaidPhase /\ FinishedIsCompleted /\ [Next]_vars => FinishedIsCompleted'
<1> SUFFICES ASSUME PhaseInv, SaidPhase, FinishedIsCompleted, [Next]_vars
             PROVE FinishedIsCompleted'
  OBVIOUS
<1> USE DEF PhaseInv, TypeInv, TypeOK, SaidPhase, FinishedIsCompleted, ActiveStatus, Publish,
      PC, InFlight, Handler, Loading, InRun, Ending, Live,
      db, catalog, batch, origin, place, deletion, GoTo, Return
<1>1. ASSUME NEW s \in Sessions, NEW t \in Turns, SendMessage(s, t) PROVE FinishedIsCompleted'
  BY <1>1 DEF SendMessage
<1>2. ASSUME NEW t \in Turns, Register(t) PROVE FinishedIsCompleted'
  BY <1>2 DEF Register
<1>3. ASSUME NEW t \in Turns, RegisterBusy(t) PROVE FinishedIsCompleted'
  BY <1>3 DEF RegisterBusy
<1>4. ASSUME NEW t \in Turns, Refuse(t) PROVE FinishedIsCompleted'
  BY <1>4 DEF Refuse, Saved, Unsaved, SessionStatusForTurn
<1>5. ASSUME NEW t \in Turns, LoadSession(t) PROVE FinishedIsCompleted'
  BY <1>5 DEF LoadSession
<1>6. ASSUME NEW t \in Turns, LoadRoot(t) PROVE FinishedIsCompleted'
  BY <1>6 DEF LoadRoot
<1>7. ASSUME NEW t \in Turns, LoadFails(t) PROVE FinishedIsCompleted'
  BY <1>7 DEF LoadFails
<1>8. ASSUME NEW t \in Turns, Acquire(t) PROVE FinishedIsCompleted'
  BY <1>8 DEF Acquire
<1>9. ASSUME NEW t \in Turns, AcquireStopped(t) PROVE FinishedIsCompleted'
  BY <1>9 DEF AcquireStopped
<1>10. ASSUME NEW t \in Turns, Start(t) PROVE FinishedIsCompleted'
  BY <1>10 DEF Start, Saved, Unsaved, SessionStatusForTurn
<1>11. ASSUME NEW t \in Turns, Announce(t) PROVE FinishedIsCompleted'
  BY <1>11 DEF Announce
<1>12. ASSUME NEW t \in Turns, StreamFinal(t) PROVE FinishedIsCompleted'
  BY <1>12 DEF StreamFinal
<1>13. ASSUME NEW t \in Turns, StreamCalls(t) PROVE FinishedIsCompleted'
  BY <1>13 DEF StreamCalls
<1>14. ASSUME NEW t \in Turns, StreamFails(t) PROVE FinishedIsCompleted'
  BY <1>14 DEF StreamFails
<1>15. ASSUME NEW t \in Turns, StreamStopped(t) PROVE FinishedIsCompleted'
  BY <1>15 DEF StreamStopped
<1>16. ASSUME NEW t \in Turns, Ask(t) PROVE FinishedIsCompleted'
  BY <1>16 DEF Ask, Saved, Unsaved, SessionStatusForTurn
<1>17. ASSUME NEW t \in Turns, Answer(t) PROVE FinishedIsCompleted'
  BY <1>17 DEF Answer, Saved, Unsaved, SessionStatusForTurn
<1>18. ASSUME NEW t \in Turns, AskStopped(t) PROVE FinishedIsCompleted'
  BY <1>18 DEF AskStopped
<1>19. ASSUME NEW t \in Turns, ToolsDone(t) PROVE FinishedIsCompleted'
  BY <1>19 DEF ToolsDone
<1>20. ASSUME NEW t \in Turns, ToolsUnstored(t) PROVE FinishedIsCompleted'
  BY <1>20 DEF ToolsUnstored
<1>21. ASSUME NEW t \in Turns, Complete(t) PROVE FinishedIsCompleted'
  BY <1>21 DEF Complete, Saved, Unsaved, SessionStatusForTurn
<1>22. ASSUME NEW t \in Turns, Finish(t) PROVE FinishedIsCompleted'
  BY <1>22 DEF Finish, RowPhase
<1>23. ASSUME NEW t \in Turns, Cancelling(t) PROVE FinishedIsCompleted'
  BY <1>23 DEF Cancelling, Saved, Unsaved, SessionStatusForTurn
<1>24. ASSUME NEW t \in Turns, Withdraw(t) PROVE FinishedIsCompleted'
  BY <1>24 DEF Withdraw
<1>25. ASSUME NEW t \in Turns, Failing(t) PROVE FinishedIsCompleted'
  BY <1>25 DEF Failing, Saved, Unsaved, SessionStatusForTurn
<1>26. ASSUME NEW t \in Turns, Blame(t) PROVE FinishedIsCompleted'
  BY <1>26 DEF Blame
<1>27. ASSUME NEW t \in Turns, Report(t) PROVE FinishedIsCompleted'
  BY <1>27 DEF Report, Saved, Unsaved, SessionStatusForTurn
<1>28. ASSUME NEW t \in Turns, ReportError(t) PROVE FinishedIsCompleted'
  BY <1>28 DEF ReportError
<1>29. ASSUME NEW t \in Turns, Leave(t) PROVE FinishedIsCompleted'
  BY <1>29 DEF Leave, DropFrames
<1>30. ASSUME NEW s \in Sessions, CancelAgent(s) PROVE FinishedIsCompleted'
  BY <1>30 DEF CancelAgent
<1>31. ASSUME NEW s \in Sessions, NEW p \in Projects, MoveSession(s, p) PROVE FinishedIsCompleted'
  BY <1>31 DEF MoveSession
<1>32. ASSUME NEW p \in Projects, DeleteBegin(p) PROVE FinishedIsCompleted'
  BY <1>32 DEF DeleteBegin
<1>33. ASSUME NEW s \in Sessions, DeleteCancel(s) PROVE FinishedIsCompleted'
  BY <1>33 DEF DeleteCancel
<1>34. ASSUME DeleteCommit PROVE FinishedIsCompleted'
  BY <1>34 DEF DeleteCommit
<1>35. ASSUME Restart PROVE FinishedIsCompleted'
  BY <1>35 DEF Restart, DropFrames
<1>36. ASSUME UNCHANGED vars PROVE FinishedIsCompleted'
  BY <1>36 DEF vars
<1> QED
  BY <1>1, <1>2, <1>3, <1>4, <1>5, <1>6, <1>7, <1>8, <1>9, <1>10, <1>11, <1>12, <1>13,
     <1>14, <1>15, <1>16, <1>17, <1>18, <1>19, <1>20, <1>21, <1>22, <1>23, <1>24,
     <1>25, <1>26, <1>27, <1>28, <1>29, <1>30, <1>31, <1>32, <1>33, <1>34, <1>35, <1>36
  DEF Next, HandlerStep, GoroutineStep, UserStep

\* agent.finished is never contradicted, by a later write or a later error.
THEOREM FinishedCorrect == Spec => []FinishedIsCompleted
<1>1. Init => SaidPhase /\ FinishedIsCompleted
  BY DEF Init, SaidPhase, FinishedIsCompleted
<1> QED
  BY <1>1, PhaseAlways, SaidPhaseNext, FinishedNext, PTL DEF Spec, PhaseInv

-----------------------------------------------------------------------------
(* No turn is left behind.                                                 *)

\* Unless a status write failed, a goroutine that reports or leaves has closed
\* its row.
DonePhase ==
  NoFaultYet => \A t \in Turns :
    pc[t] \in {"reporting", "leaving", "gone"} => row[t] \notin ActiveStatus

\* Every step keeps DonePhase: past Report the turn is closed, if no write failed.
LEMMA DonePhaseNext == PhaseInv /\ DonePhase /\ [Next]_vars => DonePhase'
<1> SUFFICES ASSUME PhaseInv, DonePhase, [Next]_vars PROVE DonePhase'
  OBVIOUS
<1> USE DEF PhaseInv, TypeInv, TypeOK, DonePhase, ActiveStatus, NoFaultYet, Mishap, MishapKinds,
      PC, InFlight, Handler, Loading, InRun, Ending, Live,
      db, catalog, batch, origin, place, deletion, GoTo, Return
<1>1. ASSUME NEW s \in Sessions, NEW t \in Turns, SendMessage(s, t) PROVE DonePhase'
  BY <1>1 DEF SendMessage
<1>2. ASSUME NEW t \in Turns, Register(t) PROVE DonePhase'
  BY <1>2 DEF Register
<1>3. ASSUME NEW t \in Turns, RegisterBusy(t) PROVE DonePhase'
  BY <1>3 DEF RegisterBusy
<1>4. ASSUME NEW t \in Turns, Refuse(t) PROVE DonePhase'
  <2>1. CASE Saved(t, "failed", FALSE)
    BY <1>4, <2>1 DEF Refuse, Saved
  <2>2. CASE Unsaved(t, "failed", FALSE)
    BY <1>4, <2>2 DEF Refuse, Unsaved, Admits
  <2> QED
    BY <1>4, <2>1, <2>2 DEF Refuse
<1>5. ASSUME NEW t \in Turns, LoadSession(t) PROVE DonePhase'
  BY <1>5 DEF LoadSession
<1>6. ASSUME NEW t \in Turns, LoadRoot(t) PROVE DonePhase'
  BY <1>6 DEF LoadRoot
<1>7. ASSUME NEW t \in Turns, LoadFails(t) PROVE DonePhase'
  BY <1>7 DEF LoadFails
<1>8. ASSUME NEW t \in Turns, Acquire(t) PROVE DonePhase'
  BY <1>8 DEF Acquire
<1>9. ASSUME NEW t \in Turns, AcquireStopped(t) PROVE DonePhase'
  BY <1>9 DEF AcquireStopped
<1>10. ASSUME NEW t \in Turns, Start(t) PROVE DonePhase'
  BY <1>10 DEF Start, Saved, Unsaved, SessionStatusForTurn
<1>11. ASSUME NEW t \in Turns, Announce(t) PROVE DonePhase'
  BY <1>11 DEF Announce
<1>12. ASSUME NEW t \in Turns, StreamFinal(t) PROVE DonePhase'
  BY <1>12 DEF StreamFinal
<1>13. ASSUME NEW t \in Turns, StreamCalls(t) PROVE DonePhase'
  BY <1>13 DEF StreamCalls
<1>14. ASSUME NEW t \in Turns, StreamFails(t) PROVE DonePhase'
  BY <1>14 DEF StreamFails
<1>15. ASSUME NEW t \in Turns, StreamStopped(t) PROVE DonePhase'
  BY <1>15 DEF StreamStopped
<1>16. ASSUME NEW t \in Turns, Ask(t) PROVE DonePhase'
  BY <1>16 DEF Ask, Saved, Unsaved, SessionStatusForTurn
<1>17. ASSUME NEW t \in Turns, Answer(t) PROVE DonePhase'
  BY <1>17 DEF Answer, Saved, Unsaved, SessionStatusForTurn
<1>18. ASSUME NEW t \in Turns, AskStopped(t) PROVE DonePhase'
  BY <1>18 DEF AskStopped
<1>19. ASSUME NEW t \in Turns, ToolsDone(t) PROVE DonePhase'
  BY <1>19 DEF ToolsDone
<1>20. ASSUME NEW t \in Turns, ToolsUnstored(t) PROVE DonePhase'
  BY <1>20 DEF ToolsUnstored
<1>21. ASSUME NEW t \in Turns, Complete(t) PROVE DonePhase'
  BY <1>21 DEF Complete, Saved, Unsaved, SessionStatusForTurn
<1>22. ASSUME NEW t \in Turns, Finish(t) PROVE DonePhase'
  BY <1>22 DEF Finish, RowPhase
<1>23. ASSUME NEW t \in Turns, Cancelling(t) PROVE DonePhase'
  BY <1>23 DEF Cancelling, Saved, Unsaved, SessionStatusForTurn
<1>24. ASSUME NEW t \in Turns, Withdraw(t) PROVE DonePhase'
  BY <1>24 DEF Withdraw
<1>25. ASSUME NEW t \in Turns, Failing(t) PROVE DonePhase'
  BY <1>25 DEF Failing, Saved, Unsaved, SessionStatusForTurn
<1>26. ASSUME NEW t \in Turns, Blame(t) PROVE DonePhase'
  BY <1>26 DEF Blame
<1>27. ASSUME NEW t \in Turns, Report(t) PROVE DonePhase'
  <2>1. CASE Saved(t, "failed", FALSE)
    BY <1>27, <2>1 DEF Report, Saved
  <2>2. CASE Unsaved(t, "failed", FALSE)
    BY <1>27, <2>2 DEF Report, Unsaved, Admits
  <2> QED
    BY <1>27, <2>1, <2>2 DEF Report
<1>28. ASSUME NEW t \in Turns, ReportError(t) PROVE DonePhase'
  BY <1>28 DEF ReportError
<1>29. ASSUME NEW t \in Turns, Leave(t) PROVE DonePhase'
  BY <1>29 DEF Leave, DropFrames
<1>30. ASSUME NEW s \in Sessions, CancelAgent(s) PROVE DonePhase'
  BY <1>30 DEF CancelAgent
<1>31. ASSUME NEW s \in Sessions, NEW p \in Projects, MoveSession(s, p) PROVE DonePhase'
  BY <1>31 DEF MoveSession
<1>32. ASSUME NEW p \in Projects, DeleteBegin(p) PROVE DonePhase'
  BY <1>32 DEF DeleteBegin
<1>33. ASSUME NEW s \in Sessions, DeleteCancel(s) PROVE DonePhase'
  BY <1>33 DEF DeleteCancel
<1>34. ASSUME DeleteCommit PROVE DonePhase'
  BY <1>34 DEF DeleteCommit
<1>35. ASSUME Restart PROVE DonePhase'
  BY <1>35 DEF Restart, DropFrames
<1>36. ASSUME UNCHANGED vars PROVE DonePhase'
  BY <1>36 DEF vars
<1> QED
  BY <1>1, <1>2, <1>3, <1>4, <1>5, <1>6, <1>7, <1>8, <1>9, <1>10, <1>11, <1>12, <1>13,
     <1>14, <1>15, <1>16, <1>17, <1>18, <1>19, <1>20, <1>21, <1>22, <1>23, <1>24,
     <1>25, <1>26, <1>27, <1>28, <1>29, <1>30, <1>31, <1>32, <1>33, <1>34, <1>35, <1>36
  DEF Next, HandlerStep, GoroutineStep, UserStep

\* Unless a status write failed, whatever the database calls running or waiting
\* has its handler or its goroutine.
THEOREM StrandedCorrect == Spec => []NoStrandedTurn
<1>1. Init => DonePhase
  BY DEF Init, DonePhase
<1>2. PhaseInv /\ DonePhase => NoStrandedTurn
  BY DEF PhaseInv, TypeInv, TypeOK, RowPhase, DonePhase, NoStrandedTurn, PC, InFlight, Handler,
     Live, Loading, InRun, Ending, ActiveStatus
<1> QED
  BY <1>1, <1>2, PhaseAlways, DonePhaseNext, PTL DEF Spec

-----------------------------------------------------------------------------
(* One open turn per session.                                              *)

Unique ==
  \A t, u \in Turns :
    owner[t] = owner[u] /\ row[t] \in ActiveStatus /\ row[u] \in ActiveStatus => t = u

\* Every step keeps Unique: the partial index admits one active turn per session.
LEMMA UniqueNext == PhaseInv /\ Unique /\ [Next]_vars => Unique'
<1> SUFFICES ASSUME PhaseInv, Unique, [Next]_vars PROVE Unique'
  OBVIOUS
<1> USE DEF PhaseInv, TypeInv, TypeOK, Unique, ActiveStatus, Admits, ActiveIn,
      db, catalog, batch, origin, place, deletion
<1>1. ASSUME NEW s \in Sessions, NEW t \in Turns, SendMessage(s, t) PROVE Unique'
  BY <1>1 DEF SendMessage
<1>2. ASSUME NEW t \in Turns, Register(t) PROVE Unique'
  BY <1>2 DEF Register
<1>3. ASSUME NEW t \in Turns, RegisterBusy(t) PROVE Unique'
  BY <1>3 DEF RegisterBusy
<1>4. ASSUME NEW t \in Turns, Refuse(t) PROVE Unique'
  BY <1>4 DEF Refuse, Saved, Unsaved, SessionStatusForTurn
<1>5. ASSUME NEW t \in Turns, LoadSession(t) PROVE Unique'
  BY <1>5 DEF LoadSession
<1>6. ASSUME NEW t \in Turns, LoadRoot(t) PROVE Unique'
  BY <1>6 DEF LoadRoot
<1>7. ASSUME NEW t \in Turns, LoadFails(t) PROVE Unique'
  BY <1>7 DEF LoadFails
<1>8. ASSUME NEW t \in Turns, Acquire(t) PROVE Unique'
  BY <1>8 DEF Acquire
<1>9. ASSUME NEW t \in Turns, AcquireStopped(t) PROVE Unique'
  BY <1>9 DEF AcquireStopped
<1>10. ASSUME NEW t \in Turns, Start(t) PROVE Unique'
  BY <1>10 DEF Start, Saved, Unsaved, SessionStatusForTurn
<1>11. ASSUME NEW t \in Turns, Announce(t) PROVE Unique'
  BY <1>11 DEF Announce
<1>12. ASSUME NEW t \in Turns, StreamFinal(t) PROVE Unique'
  BY <1>12 DEF StreamFinal
<1>13. ASSUME NEW t \in Turns, StreamCalls(t) PROVE Unique'
  BY <1>13 DEF StreamCalls
<1>14. ASSUME NEW t \in Turns, StreamFails(t) PROVE Unique'
  BY <1>14 DEF StreamFails
<1>15. ASSUME NEW t \in Turns, StreamStopped(t) PROVE Unique'
  BY <1>15 DEF StreamStopped
<1>16. ASSUME NEW t \in Turns, Ask(t) PROVE Unique'
  BY <1>16 DEF Ask, Saved, Unsaved, SessionStatusForTurn
<1>17. ASSUME NEW t \in Turns, Answer(t) PROVE Unique'
  BY <1>17 DEF Answer, Saved, Unsaved, SessionStatusForTurn
<1>18. ASSUME NEW t \in Turns, AskStopped(t) PROVE Unique'
  BY <1>18 DEF AskStopped
<1>19. ASSUME NEW t \in Turns, ToolsDone(t) PROVE Unique'
  BY <1>19 DEF ToolsDone
<1>20. ASSUME NEW t \in Turns, ToolsUnstored(t) PROVE Unique'
  BY <1>20 DEF ToolsUnstored
<1>21. ASSUME NEW t \in Turns, Complete(t) PROVE Unique'
  BY <1>21 DEF Complete, Saved, Unsaved, SessionStatusForTurn
<1>22. ASSUME NEW t \in Turns, Finish(t) PROVE Unique'
  BY <1>22 DEF Finish
<1>23. ASSUME NEW t \in Turns, Cancelling(t) PROVE Unique'
  BY <1>23 DEF Cancelling, Saved, Unsaved, SessionStatusForTurn
<1>24. ASSUME NEW t \in Turns, Withdraw(t) PROVE Unique'
  BY <1>24 DEF Withdraw
<1>25. ASSUME NEW t \in Turns, Failing(t) PROVE Unique'
  BY <1>25 DEF Failing, Saved, Unsaved, SessionStatusForTurn
<1>26. ASSUME NEW t \in Turns, Blame(t) PROVE Unique'
  BY <1>26 DEF Blame
<1>27. ASSUME NEW t \in Turns, Report(t) PROVE Unique'
  BY <1>27 DEF Report, Saved, Unsaved, SessionStatusForTurn
<1>28. ASSUME NEW t \in Turns, ReportError(t) PROVE Unique'
  BY <1>28 DEF ReportError
<1>29. ASSUME NEW t \in Turns, Leave(t) PROVE Unique'
  BY <1>29 DEF Leave, DropFrames
<1>30. ASSUME NEW s \in Sessions, CancelAgent(s) PROVE Unique'
  BY <1>30 DEF CancelAgent
<1>31. ASSUME NEW s \in Sessions, NEW p \in Projects, MoveSession(s, p) PROVE Unique'
  BY <1>31 DEF MoveSession
<1>32. ASSUME NEW p \in Projects, DeleteBegin(p) PROVE Unique'
  BY <1>32 DEF DeleteBegin
<1>33. ASSUME NEW s \in Sessions, DeleteCancel(s) PROVE Unique'
  BY <1>33 DEF DeleteCancel
<1>34. ASSUME DeleteCommit PROVE Unique'
  BY <1>34 DEF DeleteCommit
<1>35. ASSUME Restart PROVE Unique'
  BY <1>35 DEF Restart, DropFrames
<1>36. ASSUME UNCHANGED vars PROVE Unique'
  BY <1>36 DEF vars
<1> QED
  BY <1>1, <1>2, <1>3, <1>4, <1>5, <1>6, <1>7, <1>8, <1>9, <1>10, <1>11, <1>12, <1>13,
     <1>14, <1>15, <1>16, <1>17, <1>18, <1>19, <1>20, <1>21, <1>22, <1>23, <1>24,
     <1>25, <1>26, <1>27, <1>28, <1>29, <1>30, <1>31, <1>32, <1>33, <1>34, <1>35, <1>36
  DEF Next, HandlerStep, GoroutineStep, UserStep

\* A session has one running or waiting turn at most.
THEOREM OneActiveCorrect == Spec => []OneActiveTurn
<1>1. Init => Unique
  BY DEF Init, Unique, ActiveStatus
<1>2. Unique => OneActiveTurn
  <2> SUFFICES ASSUME Unique, NEW s \in Sessions PROVE Cardinality(ActiveIn(s)) <= 1
    BY DEF OneActiveTurn
  <2>1. CASE ActiveIn(s) = {}
    BY <2>1, FS_EmptySet
  <2>2. ASSUME NEW t \in ActiveIn(s) PROVE Cardinality(ActiveIn(s)) <= 1
    <3>1. ActiveIn(s) = {t}
      BY <2>2 DEF ActiveIn, Unique
    <3>2. Cardinality({t}) = 1
      BY FS_Singleton
    <3> QED
      BY <3>1, <3>2
  <2> QED
    BY <2>1, <2>2
<1> QED
  BY <1>1, <1>2, PhaseAlways, UniqueNext, PTL DEF Spec

-----------------------------------------------------------------------------
(* What a stop may still write.                                            *)

StoppedStep ==
  \A t \in Turns : stopped[t] /\ row'[t] # row[t] => row'[t] \in {"failed", "interrupted", "absent"}

\* Every step keeps the promise made to the user who stopped the turn.
LEMMA StoppedNext == PhaseInv /\ [Next]_vars => StoppedStep
<1> SUFFICES ASSUME PhaseInv, [Next]_vars PROVE StoppedStep
  OBVIOUS
<1> USE DEF PhaseInv, TypeInv, TypeOK, StopPhase, StoppedStep,
      db, catalog, batch, origin, place, deletion
<1>1. ASSUME NEW s \in Sessions, NEW t \in Turns, SendMessage(s, t) PROVE StoppedStep
  BY <1>1 DEF SendMessage
<1>2. ASSUME NEW t \in Turns, Register(t) PROVE StoppedStep
  BY <1>2 DEF Register
<1>3. ASSUME NEW t \in Turns, RegisterBusy(t) PROVE StoppedStep
  BY <1>3 DEF RegisterBusy
<1>4. ASSUME NEW t \in Turns, Refuse(t) PROVE StoppedStep
  BY <1>4 DEF Refuse, Saved, Unsaved, SessionStatusForTurn
<1>5. ASSUME NEW t \in Turns, LoadSession(t) PROVE StoppedStep
  BY <1>5 DEF LoadSession
<1>6. ASSUME NEW t \in Turns, LoadRoot(t) PROVE StoppedStep
  BY <1>6 DEF LoadRoot
<1>7. ASSUME NEW t \in Turns, LoadFails(t) PROVE StoppedStep
  BY <1>7 DEF LoadFails
<1>8. ASSUME NEW t \in Turns, Acquire(t) PROVE StoppedStep
  BY <1>8 DEF Acquire
<1>9. ASSUME NEW t \in Turns, AcquireStopped(t) PROVE StoppedStep
  BY <1>9 DEF AcquireStopped
<1>10. ASSUME NEW t \in Turns, Start(t) PROVE StoppedStep
  BY <1>10 DEF Start, Saved, Unsaved, SessionStatusForTurn
<1>11. ASSUME NEW t \in Turns, Announce(t) PROVE StoppedStep
  BY <1>11 DEF Announce
<1>12. ASSUME NEW t \in Turns, StreamFinal(t) PROVE StoppedStep
  BY <1>12 DEF StreamFinal
<1>13. ASSUME NEW t \in Turns, StreamCalls(t) PROVE StoppedStep
  BY <1>13 DEF StreamCalls
<1>14. ASSUME NEW t \in Turns, StreamFails(t) PROVE StoppedStep
  BY <1>14 DEF StreamFails
<1>15. ASSUME NEW t \in Turns, StreamStopped(t) PROVE StoppedStep
  BY <1>15 DEF StreamStopped
<1>16. ASSUME NEW t \in Turns, Ask(t) PROVE StoppedStep
  BY <1>16 DEF Ask, Saved, Unsaved, SessionStatusForTurn
<1>17. ASSUME NEW t \in Turns, Answer(t) PROVE StoppedStep
  BY <1>17 DEF Answer, Saved, Unsaved, SessionStatusForTurn
<1>18. ASSUME NEW t \in Turns, AskStopped(t) PROVE StoppedStep
  BY <1>18 DEF AskStopped
<1>19. ASSUME NEW t \in Turns, ToolsDone(t) PROVE StoppedStep
  BY <1>19 DEF ToolsDone
<1>20. ASSUME NEW t \in Turns, ToolsUnstored(t) PROVE StoppedStep
  BY <1>20 DEF ToolsUnstored
<1>21. ASSUME NEW t \in Turns, Complete(t) PROVE StoppedStep
  BY <1>21 DEF Complete, Saved, Unsaved, SessionStatusForTurn
<1>22. ASSUME NEW t \in Turns, Finish(t) PROVE StoppedStep
  BY <1>22 DEF Finish
<1>23. ASSUME NEW t \in Turns, Cancelling(t) PROVE StoppedStep
  BY <1>23 DEF Cancelling, Saved, Unsaved, SessionStatusForTurn
<1>24. ASSUME NEW t \in Turns, Withdraw(t) PROVE StoppedStep
  BY <1>24 DEF Withdraw
<1>25. ASSUME NEW t \in Turns, Failing(t) PROVE StoppedStep
  BY <1>25 DEF Failing, Saved, Unsaved, SessionStatusForTurn
<1>26. ASSUME NEW t \in Turns, Blame(t) PROVE StoppedStep
  BY <1>26 DEF Blame
<1>27. ASSUME NEW t \in Turns, Report(t) PROVE StoppedStep
  BY <1>27 DEF Report, Saved, Unsaved, SessionStatusForTurn
<1>28. ASSUME NEW t \in Turns, ReportError(t) PROVE StoppedStep
  BY <1>28 DEF ReportError
<1>29. ASSUME NEW t \in Turns, Leave(t) PROVE StoppedStep
  BY <1>29 DEF Leave, DropFrames
<1>30. ASSUME NEW s \in Sessions, CancelAgent(s) PROVE StoppedStep
  BY <1>30 DEF CancelAgent
<1>31. ASSUME NEW s \in Sessions, NEW p \in Projects, MoveSession(s, p) PROVE StoppedStep
  BY <1>31 DEF MoveSession
<1>32. ASSUME NEW p \in Projects, DeleteBegin(p) PROVE StoppedStep
  BY <1>32 DEF DeleteBegin
<1>33. ASSUME NEW s \in Sessions, DeleteCancel(s) PROVE StoppedStep
  BY <1>33 DEF DeleteCancel
<1>34. ASSUME DeleteCommit PROVE StoppedStep
  BY <1>34 DEF DeleteCommit
<1>35. ASSUME Restart PROVE StoppedStep
  BY <1>35 DEF Restart, DropFrames
<1>36. ASSUME UNCHANGED vars PROVE StoppedStep
  BY <1>36 DEF vars
<1> QED
  BY <1>1, <1>2, <1>3, <1>4, <1>5, <1>6, <1>7, <1>8, <1>9, <1>10, <1>11, <1>12, <1>13,
     <1>14, <1>15, <1>16, <1>17, <1>18, <1>19, <1>20, <1>21, <1>22, <1>23, <1>24,
     <1>25, <1>26, <1>27, <1>28, <1>29, <1>30, <1>31, <1>32, <1>33, <1>34, <1>35, <1>36
  DEF Next, HandlerStep, GoroutineStep, UserStep

\* After a stop only a failure, recovery or the deletion changes the row.
THEOREM StoppedCorrect == Spec => StoppedNeverSucceeds
<1>1. PhaseInv /\ [Next]_vars =>
        [\A t \in Turns : stopped[t] /\ row'[t] # row[t] =>
           row'[t] \in {"failed", "interrupted", "absent"}]_vars
  BY StoppedNext DEF StoppedStep
<1> QED
  BY <1>1, PhaseAlways, PTL DEF Spec, StoppedNeverSucceeds

-----------------------------------------------------------------------------
(* The database's record of turns implements TurnRecord.                   *)

RecordStep == Record!Next \/ UNCHANGED <<row, owner>>

\* A turn that was not sent belongs to no session.
UnbornUnowned == \A t \in Turns : pc[t] = "unborn" => owner[t] = NoSession

\* Every step keeps UnbornUnowned: a turn gets its session when it is created.
LEMMA UnbornNext == TypeInv /\ UnbornUnowned /\ [Next]_vars => UnbornUnowned'
<1> SUFFICES ASSUME TypeInv, UnbornUnowned, [Next]_vars PROVE UnbornUnowned'
  OBVIOUS
<1> USE DEF TypeInv, TypeOK, UnbornUnowned, InFlight, Handler, Live, Loading, InRun, Ending,
      db, catalog, batch, origin, place, deletion, GoTo, Return
<1>1. ASSUME NEW s \in Sessions, NEW t \in Turns, SendMessage(s, t) PROVE UnbornUnowned'
  BY <1>1 DEF SendMessage
<1>2. ASSUME NEW t \in Turns, Register(t) PROVE UnbornUnowned'
  BY <1>2 DEF Register
<1>3. ASSUME NEW t \in Turns, RegisterBusy(t) PROVE UnbornUnowned'
  BY <1>3 DEF RegisterBusy
<1>4. ASSUME NEW t \in Turns, Refuse(t) PROVE UnbornUnowned'
  BY <1>4 DEF Refuse
<1>5. ASSUME NEW t \in Turns, LoadSession(t) PROVE UnbornUnowned'
  BY <1>5 DEF LoadSession
<1>6. ASSUME NEW t \in Turns, LoadRoot(t) PROVE UnbornUnowned'
  BY <1>6 DEF LoadRoot
<1>7. ASSUME NEW t \in Turns, LoadFails(t) PROVE UnbornUnowned'
  BY <1>7 DEF LoadFails
<1>8. ASSUME NEW t \in Turns, Acquire(t) PROVE UnbornUnowned'
  BY <1>8 DEF Acquire
<1>9. ASSUME NEW t \in Turns, AcquireStopped(t) PROVE UnbornUnowned'
  BY <1>9 DEF AcquireStopped
<1>10. ASSUME NEW t \in Turns, Start(t) PROVE UnbornUnowned'
  BY <1>10 DEF Start
<1>11. ASSUME NEW t \in Turns, Announce(t) PROVE UnbornUnowned'
  BY <1>11 DEF Announce
<1>12. ASSUME NEW t \in Turns, StreamFinal(t) PROVE UnbornUnowned'
  BY <1>12 DEF StreamFinal
<1>13. ASSUME NEW t \in Turns, StreamCalls(t) PROVE UnbornUnowned'
  BY <1>13 DEF StreamCalls
<1>14. ASSUME NEW t \in Turns, StreamFails(t) PROVE UnbornUnowned'
  BY <1>14 DEF StreamFails
<1>15. ASSUME NEW t \in Turns, StreamStopped(t) PROVE UnbornUnowned'
  BY <1>15 DEF StreamStopped
<1>16. ASSUME NEW t \in Turns, Ask(t) PROVE UnbornUnowned'
  BY <1>16 DEF Ask
<1>17. ASSUME NEW t \in Turns, Answer(t) PROVE UnbornUnowned'
  BY <1>17 DEF Answer
<1>18. ASSUME NEW t \in Turns, AskStopped(t) PROVE UnbornUnowned'
  BY <1>18 DEF AskStopped
<1>19. ASSUME NEW t \in Turns, ToolsDone(t) PROVE UnbornUnowned'
  BY <1>19 DEF ToolsDone
<1>20. ASSUME NEW t \in Turns, ToolsUnstored(t) PROVE UnbornUnowned'
  BY <1>20 DEF ToolsUnstored
<1>21. ASSUME NEW t \in Turns, Complete(t) PROVE UnbornUnowned'
  BY <1>21 DEF Complete
<1>22. ASSUME NEW t \in Turns, Finish(t) PROVE UnbornUnowned'
  BY <1>22 DEF Finish
<1>23. ASSUME NEW t \in Turns, Cancelling(t) PROVE UnbornUnowned'
  BY <1>23 DEF Cancelling
<1>24. ASSUME NEW t \in Turns, Withdraw(t) PROVE UnbornUnowned'
  BY <1>24 DEF Withdraw
<1>25. ASSUME NEW t \in Turns, Failing(t) PROVE UnbornUnowned'
  BY <1>25 DEF Failing
<1>26. ASSUME NEW t \in Turns, Blame(t) PROVE UnbornUnowned'
  BY <1>26 DEF Blame
<1>27. ASSUME NEW t \in Turns, Report(t) PROVE UnbornUnowned'
  BY <1>27 DEF Report
<1>28. ASSUME NEW t \in Turns, ReportError(t) PROVE UnbornUnowned'
  BY <1>28 DEF ReportError
<1>29. ASSUME NEW t \in Turns, Leave(t) PROVE UnbornUnowned'
  BY <1>29 DEF Leave, DropFrames
<1>30. ASSUME NEW s \in Sessions, CancelAgent(s) PROVE UnbornUnowned'
  BY <1>30 DEF CancelAgent
<1>31. ASSUME NEW s \in Sessions, NEW p \in Projects, MoveSession(s, p) PROVE UnbornUnowned'
  BY <1>31 DEF MoveSession
<1>32. ASSUME NEW p \in Projects, DeleteBegin(p) PROVE UnbornUnowned'
  BY <1>32 DEF DeleteBegin
<1>33. ASSUME NEW s \in Sessions, DeleteCancel(s) PROVE UnbornUnowned'
  BY <1>33 DEF DeleteCancel
<1>34. ASSUME DeleteCommit PROVE UnbornUnowned'
  BY <1>34 DEF DeleteCommit
<1>35. ASSUME Restart PROVE UnbornUnowned'
  BY <1>35 DEF Restart, DropFrames
<1>36. ASSUME UNCHANGED vars PROVE UnbornUnowned'
  BY <1>36 DEF vars
<1> QED
  BY <1>1, <1>2, <1>3, <1>4, <1>5, <1>6, <1>7, <1>8, <1>9, <1>10, <1>11, <1>12, <1>13,
     <1>14, <1>15, <1>16, <1>17, <1>18, <1>19, <1>20, <1>21, <1>22, <1>23, <1>24,
     <1>25, <1>26, <1>27, <1>28, <1>29, <1>30, <1>31, <1>32, <1>33, <1>34, <1>35, <1>36
  DEF Next, HandlerStep, GoroutineStep, UserStep

\* A terminal status is written over an open one, or over itself.
LEMMA WriteRefines ==
  ASSUME NEW t \in Turns, NEW to \in TerminalStatus, NEW dead \in BOOLEAN,
         row \in [Turns -> RowStatus],
         row[t] \in ActiveStatus \cup {"absent", to},
         Saved(t, to, dead) \/ Unsaved(t, to, dead),
         UNCHANGED owner
  PROVE  RecordStep
<1>1. CASE Saved(t, to, dead) /\ row[t] \in ActiveStatus
  BY <1>1 DEF Saved, RecordStep, Record!Next, Record!Close, Record!Open, Record!Closed,
     ActiveStatus, TerminalStatus
<1>2. CASE Saved(t, to, dead) /\ row[t] = to
  BY <1>2 DEF Saved, RecordStep
<1>3. CASE Saved(t, to, dead) /\ row[t] = "absent"
  BY <1>3 DEF Saved, Admits
<1>4. CASE Unsaved(t, to, dead)
  BY <1>4 DEF Unsaved, RecordStep, db
<1> QED
  BY <1>1, <1>2, <1>3, <1>4

\* running and waiting_approval are written over each other.
LEMMA SwitchRefines ==
  ASSUME NEW t \in Turns, NEW to \in ActiveStatus, NEW dead \in BOOLEAN,
         row[t] \in ActiveStatus \cup {"absent"},
         Saved(t, to, dead) \/ Unsaved(t, to, dead),
         UNCHANGED owner
  PROVE  RecordStep
<1>1. CASE Saved(t, to, dead) /\ row[t] \in ActiveStatus
  BY <1>1 DEF Saved, RecordStep, Record!Next, Record!Switch, Record!Open, ActiveStatus
<1>2. CASE Saved(t, to, dead) /\ row[t] = "absent"
  BY <1>2 DEF Saved, Admits
<1>3. CASE Unsaved(t, to, dead)
  BY <1>3 DEF Unsaved, RecordStep, db
<1> QED
  BY <1>1, <1>2, <1>3

\* Every step of the program is a step of the abstract record or leaves it alone.
LEMMA RecordNext == PhaseInv /\ UnbornUnowned /\ [Next]_vars => RecordStep
<1> SUFFICES ASSUME PhaseInv, UnbornUnowned, [Next]_vars PROVE RecordStep
  OBVIOUS
<1>a. /\ row \in [Turns -> RowStatus]
      /\ stopped \in [Turns -> BOOLEAN]
  BY DEF PhaseInv, TypeInv, TypeOK
<1> USE <1>a DEF RecordStep, db, origin
<1>1. ASSUME NEW s \in Sessions, NEW t \in Turns, SendMessage(s, t) PROVE RecordStep
  <2>1. owner[t] = NoSession
    BY <1>1 DEF SendMessage, PhaseInv, TypeInv, FramesOK, UnbornUnowned
  <2>2. Record!OpenTurn(s, t)
    BY <1>1, <2>1 DEF SendMessage, ActiveIn, ActiveStatus, Record!OpenTurn, Record!Open
  <2> QED
    BY <2>2 DEF RecordStep, Record!Next
<1>2. ASSUME NEW t \in Turns, Register(t) PROVE RecordStep
  BY <1>2 DEF Register
<1>3. ASSUME NEW t \in Turns, RegisterBusy(t) PROVE RecordStep
  BY <1>3 DEF RegisterBusy
<1>4. ASSUME NEW t \in Turns, Refuse(t) PROVE RecordStep
  <2>1. row[t] \in ActiveStatus \cup {"absent", "failed"}
    BY <1>4 DEF Refuse, PhaseInv, RowPhase, Working, Handler, Loading, InRun, ActiveStatus
  <2> QED
    BY <1>4, <2>1, WriteRefines DEF Refuse, TerminalStatus, origin
<1>5. ASSUME NEW t \in Turns, LoadSession(t) PROVE RecordStep
  BY <1>5 DEF LoadSession
<1>6. ASSUME NEW t \in Turns, LoadRoot(t) PROVE RecordStep
  BY <1>6 DEF LoadRoot
<1>7. ASSUME NEW t \in Turns, LoadFails(t) PROVE RecordStep
  BY <1>7 DEF LoadFails
<1>8. ASSUME NEW t \in Turns, Acquire(t) PROVE RecordStep
  BY <1>8 DEF Acquire
<1>9. ASSUME NEW t \in Turns, AcquireStopped(t) PROVE RecordStep
  BY <1>9 DEF AcquireStopped
<1>10. ASSUME NEW t \in Turns, Start(t) PROVE RecordStep
  <2>1. row[t] \in ActiveStatus \cup {"absent"}
    BY <1>10 DEF Start, PhaseInv, RowPhase, Working, Handler, Loading, InRun, ActiveStatus
  <2> QED
    BY <1>10, <2>1, SwitchRefines DEF Start, ActiveStatus, origin
<1>11. ASSUME NEW t \in Turns, Announce(t) PROVE RecordStep
  BY <1>11 DEF Announce
<1>12. ASSUME NEW t \in Turns, StreamFinal(t) PROVE RecordStep
  BY <1>12 DEF StreamFinal
<1>13. ASSUME NEW t \in Turns, StreamCalls(t) PROVE RecordStep
  BY <1>13 DEF StreamCalls
<1>14. ASSUME NEW t \in Turns, StreamFails(t) PROVE RecordStep
  BY <1>14 DEF StreamFails
<1>15. ASSUME NEW t \in Turns, StreamStopped(t) PROVE RecordStep
  BY <1>15 DEF StreamStopped
<1>16. ASSUME NEW t \in Turns, Ask(t) PROVE RecordStep
  <2>1. row[t] \in ActiveStatus \cup {"absent"}
    BY <1>16 DEF Ask, PhaseInv, RowPhase, Working, Handler, Loading, InRun, ActiveStatus
  <2> QED
    BY <1>16, <2>1, SwitchRefines DEF Ask, ActiveStatus, origin
<1>17. ASSUME NEW t \in Turns, Answer(t) PROVE RecordStep
  <2>1. row[t] \in ActiveStatus \cup {"absent"}
    BY <1>17 DEF Answer, PhaseInv, RowPhase, Working, Handler, Loading, InRun, ActiveStatus
  <2> QED
    BY <1>17, <2>1, SwitchRefines DEF Answer, ActiveStatus, origin
<1>18. ASSUME NEW t \in Turns, AskStopped(t) PROVE RecordStep
  BY <1>18 DEF AskStopped
<1>19. ASSUME NEW t \in Turns, ToolsDone(t) PROVE RecordStep
  BY <1>19 DEF ToolsDone
<1>20. ASSUME NEW t \in Turns, ToolsUnstored(t) PROVE RecordStep
  BY <1>20 DEF ToolsUnstored
<1>21. ASSUME NEW t \in Turns, Complete(t) PROVE RecordStep
  <2>1. row[t] \in ActiveStatus \cup {"absent", "completed"}
    BY <1>21 DEF Complete, PhaseInv, RowPhase, Working, Handler, Loading, InRun, ActiveStatus
  <2> QED
    BY <1>21, <2>1, WriteRefines DEF Complete, TerminalStatus, origin
<1>22. ASSUME NEW t \in Turns, Finish(t) PROVE RecordStep
  BY <1>22 DEF Finish
<1>23. ASSUME NEW t \in Turns, Cancelling(t) PROVE RecordStep
  <2>1. row[t] \in ActiveStatus \cup {"absent", "cancelled"}
    BY <1>23 DEF Cancelling, PhaseInv, RowPhase, Working, Handler, Loading, InRun, ActiveStatus
  <2> QED
    BY <1>23, <2>1, WriteRefines DEF Cancelling, TerminalStatus, origin
<1>24. ASSUME NEW t \in Turns, Withdraw(t) PROVE RecordStep
  BY <1>24 DEF Withdraw
<1>25. ASSUME NEW t \in Turns, Failing(t) PROVE RecordStep
  <2>1. row[t] \in ActiveStatus \cup {"absent", "failed"}
    BY <1>25 DEF Failing, PhaseInv, RowPhase, Working, Handler, Loading, InRun, ActiveStatus
  <2> QED
    BY <1>25, <2>1, WriteRefines DEF Failing, TerminalStatus, origin
<1>26. ASSUME NEW t \in Turns, Blame(t) PROVE RecordStep
  BY <1>26 DEF Blame
<1>27. ASSUME NEW t \in Turns, Report(t) PROVE RecordStep
  <2>1. row[t] \in ActiveStatus \cup {"absent", "failed"}
    BY <1>27 DEF Report, PhaseInv, RowPhase, Working, Handler, Loading, InRun, ActiveStatus
  <2> QED
    BY <1>27, <2>1, WriteRefines DEF Report, TerminalStatus, origin
<1>28. ASSUME NEW t \in Turns, ReportError(t) PROVE RecordStep
  BY <1>28 DEF ReportError
<1>29. ASSUME NEW t \in Turns, Leave(t) PROVE RecordStep
  BY <1>29 DEF Leave, DropFrames
<1>30. ASSUME NEW s \in Sessions, CancelAgent(s) PROVE RecordStep
  BY <1>30 DEF CancelAgent
<1>31. ASSUME NEW s \in Sessions, NEW p \in Projects, MoveSession(s, p) PROVE RecordStep
  BY <1>31 DEF MoveSession
<1>32. ASSUME NEW p \in Projects, DeleteBegin(p) PROVE RecordStep
  BY <1>32 DEF DeleteBegin
<1>33. ASSUME NEW s \in Sessions, DeleteCancel(s) PROVE RecordStep
  BY <1>33 DEF DeleteCancel
<1>34. ASSUME DeleteCommit PROVE RecordStep
  <2>1. Record!Forget({s \in Sessions : home[s] = deleting})
    BY <1>34 DEF DeleteCommit, Record!Forget, origin
  <2> QED
    BY <2>1 DEF RecordStep, Record!Next
<1>35. ASSUME Restart PROVE RecordStep
  <2>1. Record!InterruptAll
    BY <1>35 DEF Restart, Record!InterruptAll, Record!Open, ActiveStatus, origin
  <2> QED
    BY <2>1 DEF RecordStep, Record!Next
<1>36. ASSUME UNCHANGED vars PROVE RecordStep
  BY <1>36 DEF vars
<1> QED
  BY <1>1, <1>2, <1>3, <1>4, <1>5, <1>6, <1>7, <1>8, <1>9, <1>10, <1>11, <1>12, <1>13,
     <1>14, <1>15, <1>16, <1>17, <1>18, <1>19, <1>20, <1>21, <1>22, <1>23, <1>24,
     <1>25, <1>26, <1>27, <1>28, <1>29, <1>30, <1>31, <1>32, <1>33, <1>34, <1>35, <1>36
  DEF Next, HandlerStep, GoroutineStep, UserStep

\* The database's record of turns implements the abstract one: whatever the
\* goroutines, the user and restarts do, a closed turn keeps its status and a
\* session has one open turn.
THEOREM RecordCorrect == Spec => ImplementsTurnRecord
<1>1. Init => Record!Init /\ UnbornUnowned
  BY DEF Init, Record!Init, UnbornUnowned
<1>2. PhaseInv /\ UnbornUnowned /\ [Next]_vars => [Record!Next]_<<row, owner>>
  BY RecordNext DEF RecordStep
<1>3. PhaseInv => TypeInv
  BY DEF PhaseInv
<1> QED
  BY <1>1, <1>2, <1>3, PhaseAlways, UnbornNext, PTL DEF Spec, ImplementsTurnRecord, Record!Spec

-----------------------------------------------------------------------------
(* The session's status.                                                   *)

\* A session's latest turn is its own, and rows last as long as their session.
Kept ==
  /\ \A s \in Sessions : latest[s] # NoTurn => owner[latest[s]] = s
  /\ \A t \in Turns : pc[t] # "unborn" =>
       /\ latest[owner[t]] # NoTurn
       /\ home[owner[t]] # NoProject => row[t] # "absent"

\* Every step keeps Kept: the rows of a session go only with the session.
LEMMA KeptNext == TypeInv /\ UnbornUnowned /\ Kept /\ [Next]_vars => Kept'
<1> SUFFICES ASSUME TypeInv, UnbornUnowned, Kept, [Next]_vars PROVE Kept'
  OBVIOUS
<1>a. pc \in [Turns -> PC] /\ row \in [Turns -> RowStatus]
  BY DEF TypeInv, TypeOK
<1> USE IdAssumption DEF TypeInv, TypeOK, FramesOK, UnbornUnowned, Kept, GoTo, Return,
      db, catalog, batch, origin, place, deletion
<1>1. ASSUME NEW s \in Sessions, NEW t \in Turns, SendMessage(s, t) PROVE Kept'
  BY <1>1 DEF SendMessage
<1>2. ASSUME NEW t \in Turns, Register(t) PROVE Kept'
  BY <1>2 DEF Register
<1>3. ASSUME NEW t \in Turns, RegisterBusy(t) PROVE Kept'
  BY <1>3 DEF RegisterBusy
<1>4. ASSUME NEW t \in Turns, Refuse(t) PROVE Kept'
  BY <1>4 DEF Refuse, Saved, Unsaved, SessionStatusForTurn
<1>5. ASSUME NEW t \in Turns, LoadSession(t) PROVE Kept'
  BY <1>5 DEF LoadSession
<1>6. ASSUME NEW t \in Turns, LoadRoot(t) PROVE Kept'
  BY <1>6 DEF LoadRoot
<1>7. ASSUME NEW t \in Turns, LoadFails(t) PROVE Kept'
  BY <1>7 DEF LoadFails
<1>8. ASSUME NEW t \in Turns, Acquire(t) PROVE Kept'
  BY <1>8 DEF Acquire
<1>9. ASSUME NEW t \in Turns, AcquireStopped(t) PROVE Kept'
  BY <1>9 DEF AcquireStopped
<1>10. ASSUME NEW t \in Turns, Start(t) PROVE Kept'
  BY <1>10 DEF Start, Saved, Unsaved, SessionStatusForTurn
<1>11. ASSUME NEW t \in Turns, Announce(t) PROVE Kept'
  BY <1>11 DEF Announce
<1>12. ASSUME NEW t \in Turns, StreamFinal(t) PROVE Kept'
  BY <1>12 DEF StreamFinal
<1>13. ASSUME NEW t \in Turns, StreamCalls(t) PROVE Kept'
  BY <1>13 DEF StreamCalls
<1>14. ASSUME NEW t \in Turns, StreamFails(t) PROVE Kept'
  BY <1>14 DEF StreamFails
<1>15. ASSUME NEW t \in Turns, StreamStopped(t) PROVE Kept'
  BY <1>15 DEF StreamStopped
<1>16. ASSUME NEW t \in Turns, Ask(t) PROVE Kept'
  BY <1>16 DEF Ask, Saved, Unsaved, SessionStatusForTurn
<1>17. ASSUME NEW t \in Turns, Answer(t) PROVE Kept'
  BY <1>17 DEF Answer, Saved, Unsaved, SessionStatusForTurn
<1>18. ASSUME NEW t \in Turns, AskStopped(t) PROVE Kept'
  BY <1>18 DEF AskStopped
<1>19. ASSUME NEW t \in Turns, ToolsDone(t) PROVE Kept'
  BY <1>19 DEF ToolsDone
<1>20. ASSUME NEW t \in Turns, ToolsUnstored(t) PROVE Kept'
  BY <1>20 DEF ToolsUnstored
<1>21. ASSUME NEW t \in Turns, Complete(t) PROVE Kept'
  BY <1>21 DEF Complete, Saved, Unsaved, SessionStatusForTurn
<1>22. ASSUME NEW t \in Turns, Finish(t) PROVE Kept'
  BY <1>22 DEF Finish
<1>23. ASSUME NEW t \in Turns, Cancelling(t) PROVE Kept'
  BY <1>23 DEF Cancelling, Saved, Unsaved, SessionStatusForTurn
<1>24. ASSUME NEW t \in Turns, Withdraw(t) PROVE Kept'
  BY <1>24 DEF Withdraw
<1>25. ASSUME NEW t \in Turns, Failing(t) PROVE Kept'
  BY <1>25 DEF Failing, Saved, Unsaved, SessionStatusForTurn
<1>26. ASSUME NEW t \in Turns, Blame(t) PROVE Kept'
  BY <1>26 DEF Blame
<1>27. ASSUME NEW t \in Turns, Report(t) PROVE Kept'
  BY <1>27 DEF Report, Saved, Unsaved, SessionStatusForTurn
<1>28. ASSUME NEW t \in Turns, ReportError(t) PROVE Kept'
  BY <1>28 DEF ReportError
<1>29. ASSUME NEW t \in Turns, Leave(t) PROVE Kept'
  BY <1>29 DEF Leave, DropFrames
<1>30. ASSUME NEW s \in Sessions, CancelAgent(s) PROVE Kept'
  BY <1>30 DEF CancelAgent
<1>31. ASSUME NEW s \in Sessions, NEW p \in Projects, MoveSession(s, p) PROVE Kept'
  BY <1>31 DEF MoveSession
<1>32. ASSUME NEW p \in Projects, DeleteBegin(p) PROVE Kept'
  BY <1>32 DEF DeleteBegin
<1>33. ASSUME NEW s \in Sessions, DeleteCancel(s) PROVE Kept'
  BY <1>33 DEF DeleteCancel
<1>34. ASSUME DeleteCommit PROVE Kept'
  BY <1>34 DEF DeleteCommit
<1>35. ASSUME Restart PROVE Kept'
  BY <1>35, <1>a DEF Restart, InFlight, Handler, Live, Loading, InRun, Ending
<1>36. ASSUME UNCHANGED vars PROVE Kept'
  BY <1>36 DEF vars
<1> QED
  BY <1>1, <1>2, <1>3, <1>4, <1>5, <1>6, <1>7, <1>8, <1>9, <1>10, <1>11, <1>12, <1>13,
     <1>14, <1>15, <1>16, <1>17, <1>18, <1>19, <1>20, <1>21, <1>22, <1>23, <1>24,
     <1>25, <1>26, <1>27, <1>28, <1>29, <1>30, <1>31, <1>32, <1>33, <1>34, <1>35, <1>36
  DEF Next, HandlerStep, GoroutineStep, UserStep

\* A turn that is not the latest of its session is closed and winding up, and
\* while its goroutine has not left the latest one is not registered.
Winding == {"finishing", "blaming", "broken", "reporting", "leaving", "gone"}

OlderClosed ==
  \A t \in Turns : pc[t] # "unborn" /\ t # latest[owner[t]] =>
    /\ row[t] \notin ActiveStatus
    /\ pc[t] \in Winding
    /\ pc[t] \in Live =>
         /\ pc[latest[owner[t]]] \in {"inserted", "refused", "gone"}
         /\ row[latest[owner[t]]] \in ActiveStatus \cup {"failed", "absent"}

SessionInv == PhaseInv /\ UnbornUnowned /\ Kept

\* Two goroutines of one session are never alive together.
LEMMA OneLive ==
  ASSUME SessionInv, NEW t \in Turns, NEW u \in Turns,
         pc[t] \in Live, pc[u] \in Live, owner[t] = owner[u]
  PROVE  t = u
  BY DEF SessionInv, PhaseInv, StopReachesAgent

\* A step of a goroutine that opens no closed row and moves to "to".
LEMMA OlderStep ==
  ASSUME SessionInv, OlderClosed, NEW t \in Turns, NEW to \in PC,
         UNCHANGED <<owner, latest>>,
         pc[t] \in Live,
         pc[t] \in Winding => to \in Winding,
         to # "unborn",
         pc' = [pc EXCEPT ![t] = to],
         \A u \in Turns : u # t => row'[u] = row[u],
         row'[t] \in ActiveStatus => row[t] \in ActiveStatus
  PROVE  OlderClosed'
<1>1. /\ pc \in [Turns -> PC]
      /\ latest \in [Sessions -> Turns \cup {NoTurn}]
      /\ pc[t] # "unborn"
      /\ \A u \in Turns : pc[u] # "unborn" => owner[u] \in Sessions /\ latest[owner[u]] \in Turns
  BY IdAssumption DEF SessionInv, PhaseInv, TypeInv, TypeOK, FramesOK, Kept, Live, Loading,
     InRun, Ending
<1> SUFFICES ASSUME NEW u \in Turns, pc'[u] # "unborn", u # latest[owner[u]]
             PROVE  /\ row'[u] \notin ActiveStatus
                    /\ pc'[u] \in Winding
                    /\ pc'[u] \in Live =>
                         /\ pc'[latest[owner[u]]] \in {"inserted", "refused", "gone"}
                         /\ row'[latest[owner[u]]] \in ActiveStatus \cup {"failed", "absent"}
  BY DEF OlderClosed
<1>2. CASE u = t
  BY <1>1, <1>2 DEF OlderClosed
<1>3. CASE u # t /\ latest[owner[u]] # t
  BY <1>1, <1>3 DEF OlderClosed
<1>4. CASE u # t /\ latest[owner[u]] = t
  <2>1. owner[t] = owner[u]
    BY <1>1, <1>4 DEF SessionInv, Kept
  <2>2. pc[u] \notin Live
    BY <1>4, <2>1, OneLive
  <2> QED
    BY <1>1, <1>4, <2>2 DEF OlderClosed
<1> QED
  BY <1>2, <1>3, <1>4

\* Every step keeps OlderClosed: a session opens a turn only when the ones before
\* it are closed, and nothing reopens those.
LEMMA OlderNext == SessionInv /\ OlderClosed /\ [Next]_vars => OlderClosed'
<1> SUFFICES ASSUME SessionInv, OlderClosed, [Next]_vars PROVE OlderClosed'
  OBVIOUS
<1> USE DEF PC, InFlight, Handler, Loading, InRun, Ending, Live, Winding, GoTo, Return,
      db, catalog, batch, origin, place, deletion
<1>a. pc \in [Turns -> PC] /\ row \in [Turns -> RowStatus] /\ RowPhase
  BY DEF SessionInv, PhaseInv, TypeInv, TypeOK
<1>b. SessionInv /\ OlderClosed
  OBVIOUS
<1>1. ASSUME NEW s \in Sessions, NEW t \in Turns, SendMessage(s, t) PROVE OlderClosed'
  BY <1>1, IdAssumption DEF SendMessage, SessionInv, PhaseInv, TypeInv, TypeOK, FramesOK, OlderClosed, Kept, UnbornUnowned, RowPhase, Working, ActiveIn, ActiveStatus
<1>2. ASSUME NEW t \in Turns, Register(t) PROVE OlderClosed'
  <2>1. /\ owner[t] \in Sessions
        /\ t = latest[owner[t]]
        /\ UNCHANGED <<owner, latest, row>>
        /\ pc' = [pc EXCEPT ![t] = "loading"]
    BY <1>2, <1>a DEF Register, SessionInv, PhaseInv, TypeInv, FramesOK, OlderClosed
  <2>2. \A u \in Turns : pc[u] \in Live => owner[u] # owner[t]
    BY <1>2, IdAssumption DEF Register, SessionInv, PhaseInv, StopReachesAgent
  <2>3. \A u \in Turns : pc'[u] # "unborn" /\ u # latest[owner[u]] =>
          u # t /\ (pc[u] \in Live => latest[owner[u]] # t)
    BY <1>a, <2>1, <2>2 DEF SessionInv, Kept, PhaseInv, TypeInv, FramesOK
  <2> QED
    BY <1>a, <2>1, <2>3 DEF OlderClosed
<1>3. ASSUME NEW t \in Turns, RegisterBusy(t) PROVE OlderClosed'
  BY <1>3 DEF RegisterBusy, SessionInv, PhaseInv, TypeInv, TypeOK, FramesOK, OlderClosed, Kept
<1>4. ASSUME NEW t \in Turns, Refuse(t) PROVE OlderClosed'
  BY <1>4 DEF Refuse, SessionInv, PhaseInv, TypeInv, TypeOK, FramesOK, OlderClosed, Kept, Saved, Unsaved, RowPhase, Working, ActiveStatus
<1>5. ASSUME NEW t \in Turns, LoadSession(t) PROVE OlderClosed'
  <2>1. /\ pc[t] \in Live
        /\ UNCHANGED <<owner, latest, row>>
        /\ pc' = [pc EXCEPT ![t] = "rooting"]
        /\ pc[t] \in Winding => "rooting" \in Winding
    BY <1>a, <1>5 DEF LoadSession
  <2> QED
    BY <2>1, OlderStep
<1>6. ASSUME NEW t \in Turns, LoadRoot(t) PROVE OlderClosed'
  <2>1. /\ pc[t] \in Live
        /\ UNCHANGED <<owner, latest, row>>
        /\ pc' = [pc EXCEPT ![t] = "acquiring"]
        /\ pc[t] \in Winding => "acquiring" \in Winding
    BY <1>a, <1>6 DEF LoadRoot
  <2> QED
    BY <2>1, OlderStep
<1>7. ASSUME NEW t \in Turns, LoadFails(t) PROVE OlderClosed'
  <2>1. /\ pc[t] \in Live
        /\ UNCHANGED <<owner, latest, row>>
        /\ pc' = [pc EXCEPT ![t] = "broken"]
        /\ pc[t] \in Winding => "broken" \in Winding
    BY <1>a, <1>7 DEF LoadFails
  <2> QED
    BY <2>1, OlderStep
<1>8. ASSUME NEW t \in Turns, Acquire(t) PROVE OlderClosed'
  <2>1. /\ pc[t] \in Live
        /\ UNCHANGED <<owner, latest, row>>
        /\ pc' = [pc EXCEPT ![t] = "starting"]
        /\ pc[t] \in Winding => "starting" \in Winding
    BY <1>a, <1>8 DEF Acquire
  <2> QED
    BY <2>1, OlderStep
<1>9. ASSUME NEW t \in Turns, AcquireStopped(t) PROVE OlderClosed'
  <2>1. /\ pc[t] \in Live
        /\ UNCHANGED <<owner, latest, row>>
        /\ pc' = [pc EXCEPT ![t] = "broken"]
        /\ pc[t] \in Winding => "broken" \in Winding
    BY <1>a, <1>9 DEF AcquireStopped
  <2> QED
    BY <2>1, OlderStep
<1>10. ASSUME NEW t \in Turns, Start(t) PROVE OlderClosed'
  <2>1. /\ pc[t] \in Live
        /\ UNCHANGED <<owner, latest>>
        /\ \A u \in Turns : u # t => row'[u] = row[u]
        /\ row'[t] \in ActiveStatus => row[t] \in ActiveStatus
    BY <1>a, <1>10 DEF Start, Saved, Unsaved, Admits, RowPhase, Working, ActiveStatus
  <2>2. CASE pc' = [pc EXCEPT ![t] = "announcing"]
    BY <1>a, <1>10, <2>1, <2>2, OlderStep DEF Start
  <2>3. CASE pc' = [pc EXCEPT ![t] = "broken"]
    BY <1>a, <1>10, <2>1, <2>3, OlderStep DEF Start
  <2> QED
    BY <1>a, <1>10, <2>2, <2>3 DEF Start
<1>11. ASSUME NEW t \in Turns, Announce(t) PROVE OlderClosed'
  <2>1. /\ pc[t] \in Live
        /\ UNCHANGED <<owner, latest, row>>
        /\ pc' = [pc EXCEPT ![t] = "streaming"]
        /\ pc[t] \in Winding => "streaming" \in Winding
    BY <1>a, <1>11 DEF Announce
  <2> QED
    BY <2>1, OlderStep
<1>12. ASSUME NEW t \in Turns, StreamFinal(t) PROVE OlderClosed'
  <2>1. /\ pc[t] \in Live
        /\ UNCHANGED <<owner, latest, row>>
        /\ pc' = [pc EXCEPT ![t] = "completing"]
        /\ pc[t] \in Winding => "completing" \in Winding
    BY <1>a, <1>12 DEF StreamFinal
  <2> QED
    BY <2>1, OlderStep
<1>13. ASSUME NEW t \in Turns, StreamCalls(t) PROVE OlderClosed'
  <2>1. /\ pc[t] \in Live
        /\ UNCHANGED <<owner, latest, row>>
        /\ pc' = [pc EXCEPT ![t] = "tools"]
        /\ pc[t] \in Winding => "tools" \in Winding
    BY <1>a, <1>13 DEF StreamCalls
  <2> QED
    BY <2>1, OlderStep
<1>14. ASSUME NEW t \in Turns, StreamFails(t) PROVE OlderClosed'
  <2>1. /\ pc[t] \in Live
        /\ UNCHANGED <<owner, latest, row>>
        /\ pc' = [pc EXCEPT ![t] = "failing"]
        /\ pc[t] \in Winding => "failing" \in Winding
    BY <1>a, <1>14 DEF StreamFails
  <2> QED
    BY <2>1, OlderStep
<1>15. ASSUME NEW t \in Turns, StreamStopped(t) PROVE OlderClosed'
  <2>1. /\ pc[t] \in Live
        /\ UNCHANGED <<owner, latest, row>>
        /\ pc' = [pc EXCEPT ![t] = "cancelling"]
        /\ pc[t] \in Winding => "cancelling" \in Winding
    BY <1>a, <1>15 DEF StreamStopped
  <2> QED
    BY <2>1, OlderStep
<1>16. ASSUME NEW t \in Turns, Ask(t) PROVE OlderClosed'
  <2>1. /\ pc[t] \in Live
        /\ UNCHANGED <<owner, latest>>
        /\ \A u \in Turns : u # t => row'[u] = row[u]
        /\ row'[t] \in ActiveStatus => row[t] \in ActiveStatus
    BY <1>a, <1>16 DEF Ask, Saved, Unsaved, Admits, RowPhase, Working, ActiveStatus
  <2>2. CASE pc' = [pc EXCEPT ![t] = "tools"]
    BY <1>a, <1>16, <2>1, <2>2, OlderStep DEF Ask
  <2> QED
    BY <1>a, <1>16, <2>2 DEF Ask
<1>17. ASSUME NEW t \in Turns, Answer(t) PROVE OlderClosed'
  <2>1. /\ pc[t] \in Live
        /\ UNCHANGED <<owner, latest>>
        /\ \A u \in Turns : u # t => row'[u] = row[u]
        /\ row'[t] \in ActiveStatus => row[t] \in ActiveStatus
    BY <1>a, <1>17 DEF Answer, Saved, Unsaved, Admits, RowPhase, Working, ActiveStatus
  <2>2. CASE pc' = [pc EXCEPT ![t] = "tools"]
    BY <1>a, <1>17, <2>1, <2>2, OlderStep DEF Answer
  <2> QED
    BY <1>a, <1>17, <2>2 DEF Answer
<1>18. ASSUME NEW t \in Turns, AskStopped(t) PROVE OlderClosed'
  <2>1. /\ pc[t] \in Live
        /\ UNCHANGED <<owner, latest, row>>
        /\ pc' = [pc EXCEPT ![t] = "tools"]
        /\ pc[t] \in Winding => "tools" \in Winding
    BY <1>a, <1>18 DEF AskStopped
  <2> QED
    BY <2>1, OlderStep
<1>19. ASSUME NEW t \in Turns, ToolsDone(t) PROVE OlderClosed'
  <2>1. /\ pc[t] \in Live
        /\ UNCHANGED <<owner, latest>>
        /\ \A u \in Turns : u # t => row'[u] = row[u]
        /\ row'[t] \in ActiveStatus => row[t] \in ActiveStatus
    BY <1>a, <1>19 DEF ToolsDone, Saved, Unsaved, Admits, RowPhase, Working, ActiveStatus
  <2>2. CASE pc' = [pc EXCEPT ![t] = "streaming"]
    BY <1>a, <1>19, <2>1, <2>2, OlderStep DEF ToolsDone
  <2>3. CASE pc' = [pc EXCEPT ![t] = "failing"]
    BY <1>a, <1>19, <2>1, <2>3, OlderStep DEF ToolsDone
  <2> QED
    BY <1>a, <1>19, <2>2, <2>3 DEF ToolsDone
<1>20. ASSUME NEW t \in Turns, ToolsUnstored(t) PROVE OlderClosed'
  <2>1. /\ pc[t] \in Live
        /\ UNCHANGED <<owner, latest, row>>
        /\ pc' = [pc EXCEPT ![t] = "failing"]
        /\ pc[t] \in Winding => "failing" \in Winding
    BY <1>a, <1>20 DEF ToolsUnstored
  <2> QED
    BY <2>1, OlderStep
<1>21. ASSUME NEW t \in Turns, Complete(t) PROVE OlderClosed'
  <2>1. /\ pc[t] \in Live
        /\ UNCHANGED <<owner, latest>>
        /\ \A u \in Turns : u # t => row'[u] = row[u]
        /\ row'[t] \in ActiveStatus => row[t] \in ActiveStatus
    BY <1>a, <1>21 DEF Complete, Saved, Unsaved, Admits, RowPhase, Working, ActiveStatus
  <2>2. CASE pc' = [pc EXCEPT ![t] = "finishing"]
    BY <1>a, <1>21, <2>1, <2>2, OlderStep DEF Complete
  <2>3. CASE pc' = [pc EXCEPT ![t] = "broken"]
    BY <1>a, <1>21, <2>1, <2>3, OlderStep DEF Complete
  <2> QED
    BY <1>a, <1>21, <2>2, <2>3 DEF Complete
<1>22. ASSUME NEW t \in Turns, Finish(t) PROVE OlderClosed'
  <2>1. /\ pc[t] \in Live
        /\ UNCHANGED <<owner, latest, row>>
        /\ pc' = [pc EXCEPT ![t] = "leaving"]
        /\ pc[t] \in Winding => "leaving" \in Winding
    BY <1>a, <1>22 DEF Finish
  <2> QED
    BY <2>1, OlderStep
<1>23. ASSUME NEW t \in Turns, Cancelling(t) PROVE OlderClosed'
  <2>1. /\ pc[t] \in Live
        /\ UNCHANGED <<owner, latest>>
        /\ \A u \in Turns : u # t => row'[u] = row[u]
        /\ row'[t] \in ActiveStatus => row[t] \in ActiveStatus
    BY <1>a, <1>23 DEF Cancelling, Saved, Unsaved, Admits, RowPhase, Working, ActiveStatus
  <2>2. CASE pc' = [pc EXCEPT ![t] = "withdrawing"]
    BY <1>a, <1>23, <2>1, <2>2, OlderStep DEF Cancelling
  <2> QED
    BY <1>a, <1>23, <2>2 DEF Cancelling
<1>24. ASSUME NEW t \in Turns, Withdraw(t) PROVE OlderClosed'
  <2>1. /\ pc[t] \in Live
        /\ UNCHANGED <<owner, latest, row>>
        /\ pc' = [pc EXCEPT ![t] = "broken"]
        /\ pc[t] \in Winding => "broken" \in Winding
    BY <1>a, <1>24 DEF Withdraw
  <2> QED
    BY <2>1, OlderStep
<1>25. ASSUME NEW t \in Turns, Failing(t) PROVE OlderClosed'
  <2>1. /\ pc[t] \in Live
        /\ UNCHANGED <<owner, latest>>
        /\ \A u \in Turns : u # t => row'[u] = row[u]
        /\ row'[t] \in ActiveStatus => row[t] \in ActiveStatus
    BY <1>a, <1>25 DEF Failing, Saved, Unsaved, Admits, RowPhase, Working, ActiveStatus
  <2>2. CASE pc' = [pc EXCEPT ![t] = "blaming"]
    BY <1>a, <1>25, <2>1, <2>2, OlderStep DEF Failing
  <2> QED
    BY <1>a, <1>25, <2>2 DEF Failing
<1>26. ASSUME NEW t \in Turns, Blame(t) PROVE OlderClosed'
  <2>1. /\ pc[t] \in Live
        /\ UNCHANGED <<owner, latest, row>>
        /\ pc' = [pc EXCEPT ![t] = "broken"]
        /\ pc[t] \in Winding => "broken" \in Winding
    BY <1>a, <1>26 DEF Blame
  <2> QED
    BY <2>1, OlderStep
<1>27. ASSUME NEW t \in Turns, Report(t) PROVE OlderClosed'
  <2>1. /\ pc[t] \in Live
        /\ UNCHANGED <<owner, latest>>
        /\ \A u \in Turns : u # t => row'[u] = row[u]
        /\ row'[t] \in ActiveStatus => row[t] \in ActiveStatus
    BY <1>a, <1>27 DEF Report, Saved, Unsaved, Admits, RowPhase, Working, ActiveStatus
  <2>2. CASE pc' = [pc EXCEPT ![t] = "reporting"]
    BY <1>a, <1>27, <2>1, <2>2, OlderStep DEF Report
  <2> QED
    BY <1>a, <1>27, <2>2 DEF Report
<1>28. ASSUME NEW t \in Turns, ReportError(t) PROVE OlderClosed'
  <2>1. /\ pc[t] \in Live
        /\ UNCHANGED <<owner, latest, row>>
        /\ pc' = [pc EXCEPT ![t] = "leaving"]
        /\ pc[t] \in Winding => "leaving" \in Winding
    BY <1>a, <1>28 DEF ReportError
  <2> QED
    BY <2>1, OlderStep
<1>29. ASSUME NEW t \in Turns, Leave(t) PROVE OlderClosed'
  <2>1. /\ pc[t] \in Live
        /\ UNCHANGED <<owner, latest, row>>
        /\ pc' = [pc EXCEPT ![t] = "gone"]
        /\ pc[t] \in Winding => "gone" \in Winding
    BY <1>a, <1>29 DEF Leave
  <2> QED
    BY <2>1, OlderStep
<1>30. ASSUME NEW s \in Sessions, CancelAgent(s) PROVE OlderClosed'
  BY <1>30 DEF CancelAgent, SessionInv, PhaseInv, TypeInv, TypeOK, FramesOK, OlderClosed
<1>31. ASSUME NEW s \in Sessions, NEW p \in Projects, MoveSession(s, p) PROVE OlderClosed'
  BY <1>31 DEF MoveSession, SessionInv, PhaseInv, TypeInv, TypeOK, FramesOK, OlderClosed
<1>32. ASSUME NEW p \in Projects, DeleteBegin(p) PROVE OlderClosed'
  BY <1>32 DEF DeleteBegin, SessionInv, PhaseInv, TypeInv, TypeOK, FramesOK, OlderClosed
<1>33. ASSUME NEW s \in Sessions, DeleteCancel(s) PROVE OlderClosed'
  BY <1>33 DEF DeleteCancel, SessionInv, PhaseInv, TypeInv, TypeOK, FramesOK, OlderClosed
<1>34. ASSUME DeleteCommit PROVE OlderClosed'
  BY <1>34 DEF DeleteCommit, SessionInv, PhaseInv, TypeInv, TypeOK, FramesOK, OlderClosed, Kept, ActiveStatus
<1>35. ASSUME Restart PROVE OlderClosed'
  BY <1>35 DEF Restart, SessionInv, PhaseInv, TypeInv, TypeOK, FramesOK, OlderClosed, Kept, ActiveStatus
<1>36. ASSUME UNCHANGED vars PROVE OlderClosed'
  BY <1>36 DEF vars, OlderClosed
<1> QED
  BY <1>1, <1>2, <1>3, <1>4, <1>5, <1>6, <1>7, <1>8, <1>9, <1>10, <1>11, <1>12, <1>13,
     <1>14, <1>15, <1>16, <1>17, <1>18, <1>19, <1>20, <1>21, <1>22, <1>23, <1>24,
     <1>25, <1>26, <1>27, <1>28, <1>29, <1>30, <1>31, <1>32, <1>33, <1>34, <1>35, <1>36
  DEF Next, HandlerStep, GoroutineStep, UserStep

\* The session's status is that of its latest turn, except that the last report
\* of the turn before may overwrite the first status of a new one.
ShownPhase ==
  \A s \in Sessions : home[s] # NoProject /\ latest[s] # NoTurn =>
    \/ shown[s] = SessionStatusForTurn(row[latest[s]])
    \/ row[latest[s]] \in ActiveStatus /\ shown[s] = "failed"

\* A status write: by the latest turn of its session, or by an older one that
\* is leaving, which only writes failed.
LEMMA ShownWrite ==
  ASSUME SessionInv, OlderClosed, ShownPhase,
         NEW t \in Turns, NEW to \in ActiveStatus \cup TerminalStatus, NEW dead \in BOOLEAN,
         UNCHANGED <<origin, catalog>>,
         pc[t] # "unborn",
         t # latest[owner[t]] => pc[t] \in Live /\ to = "failed",
         Saved(t, to, dead) \/ Unsaved(t, to, dead)
  PROVE  ShownPhase'
<1> USE DEF origin, catalog, db
<1>1. /\ owner[t] \in Sessions
      /\ latest \in [Sessions -> Turns \cup {NoTurn}]
      /\ shown \in [Sessions -> ShownStatus]
      /\ row \in [Turns -> RowStatus]
      /\ \A s \in Sessions : latest[s] # NoTurn => owner[latest[s]] = s
  BY DEF SessionInv, PhaseInv, TypeInv, TypeOK, FramesOK, Kept
<1>2. CASE Unsaved(t, to, dead)
  BY <1>2 DEF Unsaved, ShownPhase
<1>3. CASE Saved(t, to, dead) /\ t = latest[owner[t]]
  BY <1>1, <1>3 DEF Saved, ShownPhase
<1>4. CASE Saved(t, to, dead) /\ t # latest[owner[t]]
  <2>1. row[latest[owner[t]]] \in ActiveStatus \cup {"failed", "absent"}
    BY <1>4 DEF OlderClosed
  <2>2. home[owner[t]] # NoProject => row[latest[owner[t]]] # "absent"
    <3>1. latest[owner[t]] \in Turns /\ owner[latest[owner[t]]] = owner[t]
      BY <1>1 DEF SessionInv, Kept
    <3>2. pc[latest[owner[t]]] # "unborn"
      BY <1>1, <3>1, IdAssumption DEF SessionInv, UnbornUnowned
    <3> QED
      BY <3>1, <3>2 DEF SessionInv, Kept
  <2>3. shown' = [shown EXCEPT ![owner[t]] = "failed"] /\ row' = [row EXCEPT ![t] = "failed"]
    BY <1>4 DEF Saved, SessionStatusForTurn, ActiveStatus
  <2>4. SessionStatusForTurn("failed") = "failed"
    BY DEF SessionStatusForTurn, ActiveStatus
  <2> QED
    BY <1>1, <1>4, <2>1, <2>2, <2>3, <2>4 DEF ShownPhase
<1> QED
  BY <1>2, <1>3, <1>4

\* Every step keeps ShownPhase: each write of a turn's status carries its
\* session's along.
LEMMA ShownNext == SessionInv /\ OlderClosed /\ ShownPhase /\ [Next]_vars => ShownPhase'
<1> SUFFICES ASSUME SessionInv, OlderClosed, ShownPhase, [Next]_vars PROVE ShownPhase'
  OBVIOUS
<1>a. /\ latest \in [Sessions -> Turns \cup {NoTurn}]
      /\ shown \in [Sessions -> ShownStatus]
      /\ row \in [Turns -> RowStatus]
      /\ home \in [Sessions -> Projects \cup {NoProject}]
      /\ stopped \in [Turns -> BOOLEAN]
      /\ \A t \in Turns : pc[t] # "unborn" => owner[t] \in Sessions
      /\ UnbornUnowned /\ Kept
  BY DEF SessionInv, PhaseInv, TypeInv, TypeOK, FramesOK
<1> USE <1>a DEF db, origin, catalog, ShownPhase
<1>1. ASSUME NEW s \in Sessions, NEW t \in Turns, SendMessage(s, t) PROVE ShownPhase'
  <2>1. \A z \in Sessions : latest[z] # t \/ latest[z] = NoTurn
    BY <1>1, IdAssumption DEF SendMessage, Kept, UnbornUnowned
  <2>2. /\ row'[t] = "running" /\ shown'[s] = "running" /\ latest'[s] = t
        /\ \A z \in Sessions : z # s => shown'[z] = shown[z] /\ latest'[z] = latest[z]
        /\ \A u \in Turns : u # t => row'[u] = row[u]
        /\ home' = home
    BY <1>1 DEF SendMessage
  <2>3. SessionStatusForTurn("running") = "running"
    BY DEF SessionStatusForTurn, ActiveStatus
  <2> QED
    BY <2>1, <2>2, <2>3
<1>2. ASSUME NEW t \in Turns, Register(t) PROVE ShownPhase'
  BY <1>2 DEF Register
<1>3. ASSUME NEW t \in Turns, RegisterBusy(t) PROVE ShownPhase'
  BY <1>3 DEF RegisterBusy
<1>4. ASSUME NEW t \in Turns, Refuse(t) PROVE ShownPhase'
  <2>1. /\ pc[t] # "unborn"
        /\ t # latest[owner[t]] => pc[t] \in Live
        /\ UNCHANGED <<origin, catalog>>
    BY <1>4 DEF Refuse, Live, InRun, Ending, OlderClosed, Winding, catalog
  <2> QED
    BY <1>4, <2>1, ShownWrite DEF Refuse, ActiveStatus, TerminalStatus
<1>5. ASSUME NEW t \in Turns, LoadSession(t) PROVE ShownPhase'
  BY <1>5 DEF LoadSession
<1>6. ASSUME NEW t \in Turns, LoadRoot(t) PROVE ShownPhase'
  BY <1>6 DEF LoadRoot
<1>7. ASSUME NEW t \in Turns, LoadFails(t) PROVE ShownPhase'
  BY <1>7 DEF LoadFails
<1>8. ASSUME NEW t \in Turns, Acquire(t) PROVE ShownPhase'
  BY <1>8 DEF Acquire
<1>9. ASSUME NEW t \in Turns, AcquireStopped(t) PROVE ShownPhase'
  BY <1>9 DEF AcquireStopped
<1>10. ASSUME NEW t \in Turns, Start(t) PROVE ShownPhase'
  <2>1. /\ pc[t] # "unborn" /\ pc[t] \notin Winding
        /\ UNCHANGED <<origin, catalog>>
    BY <1>10 DEF Start, Winding, catalog
  <2>2. t = latest[owner[t]]
    BY <2>1 DEF OlderClosed
  <2> QED
    BY <1>10, <2>1, <2>2, ShownWrite DEF Start, ActiveStatus, TerminalStatus
<1>11. ASSUME NEW t \in Turns, Announce(t) PROVE ShownPhase'
  BY <1>11 DEF Announce
<1>12. ASSUME NEW t \in Turns, StreamFinal(t) PROVE ShownPhase'
  BY <1>12 DEF StreamFinal
<1>13. ASSUME NEW t \in Turns, StreamCalls(t) PROVE ShownPhase'
  BY <1>13 DEF StreamCalls
<1>14. ASSUME NEW t \in Turns, StreamFails(t) PROVE ShownPhase'
  BY <1>14 DEF StreamFails
<1>15. ASSUME NEW t \in Turns, StreamStopped(t) PROVE ShownPhase'
  BY <1>15 DEF StreamStopped
<1>16. ASSUME NEW t \in Turns, Ask(t) PROVE ShownPhase'
  <2>1. /\ pc[t] # "unborn" /\ pc[t] \notin Winding
        /\ UNCHANGED <<origin, catalog>>
    BY <1>16 DEF Ask, Winding, catalog
  <2>2. t = latest[owner[t]]
    BY <2>1 DEF OlderClosed
  <2> QED
    BY <1>16, <2>1, <2>2, ShownWrite DEF Ask, ActiveStatus, TerminalStatus
<1>17. ASSUME NEW t \in Turns, Answer(t) PROVE ShownPhase'
  <2>1. /\ pc[t] # "unborn" /\ pc[t] \notin Winding
        /\ UNCHANGED <<origin, catalog>>
    BY <1>17 DEF Answer, Winding, catalog
  <2>2. t = latest[owner[t]]
    BY <2>1 DEF OlderClosed
  <2> QED
    BY <1>17, <2>1, <2>2, ShownWrite DEF Answer, ActiveStatus, TerminalStatus
<1>18. ASSUME NEW t \in Turns, AskStopped(t) PROVE ShownPhase'
  BY <1>18 DEF AskStopped
<1>19. ASSUME NEW t \in Turns, ToolsDone(t) PROVE ShownPhase'
  BY <1>19 DEF ToolsDone
<1>20. ASSUME NEW t \in Turns, ToolsUnstored(t) PROVE ShownPhase'
  BY <1>20 DEF ToolsUnstored
<1>21. ASSUME NEW t \in Turns, Complete(t) PROVE ShownPhase'
  <2>1. /\ pc[t] # "unborn" /\ pc[t] \notin Winding
        /\ UNCHANGED <<origin, catalog>>
    BY <1>21 DEF Complete, Winding, catalog
  <2>2. t = latest[owner[t]]
    BY <2>1 DEF OlderClosed
  <2> QED
    BY <1>21, <2>1, <2>2, ShownWrite DEF Complete, ActiveStatus, TerminalStatus
<1>22. ASSUME NEW t \in Turns, Finish(t) PROVE ShownPhase'
  BY <1>22 DEF Finish
<1>23. ASSUME NEW t \in Turns, Cancelling(t) PROVE ShownPhase'
  <2>1. /\ pc[t] # "unborn" /\ pc[t] \notin Winding
        /\ UNCHANGED <<origin, catalog>>
    BY <1>23 DEF Cancelling, Winding, catalog
  <2>2. t = latest[owner[t]]
    BY <2>1 DEF OlderClosed
  <2> QED
    BY <1>23, <2>1, <2>2, ShownWrite DEF Cancelling, ActiveStatus, TerminalStatus
<1>24. ASSUME NEW t \in Turns, Withdraw(t) PROVE ShownPhase'
  BY <1>24 DEF Withdraw
<1>25. ASSUME NEW t \in Turns, Failing(t) PROVE ShownPhase'
  <2>1. /\ pc[t] # "unborn"
        /\ t # latest[owner[t]] => pc[t] \in Live
        /\ UNCHANGED <<origin, catalog>>
    BY <1>25 DEF Failing, Live, InRun, Ending, OlderClosed, Winding, catalog
  <2> QED
    BY <1>25, <2>1, ShownWrite DEF Failing, ActiveStatus, TerminalStatus
<1>26. ASSUME NEW t \in Turns, Blame(t) PROVE ShownPhase'
  BY <1>26 DEF Blame
<1>27. ASSUME NEW t \in Turns, Report(t) PROVE ShownPhase'
  <2>1. /\ pc[t] # "unborn"
        /\ t # latest[owner[t]] => pc[t] \in Live
        /\ UNCHANGED <<origin, catalog>>
    BY <1>27 DEF Report, Live, InRun, Ending, OlderClosed, Winding, catalog
  <2> QED
    BY <1>27, <2>1, ShownWrite DEF Report, ActiveStatus, TerminalStatus
<1>28. ASSUME NEW t \in Turns, ReportError(t) PROVE ShownPhase'
  BY <1>28 DEF ReportError
<1>29. ASSUME NEW t \in Turns, Leave(t) PROVE ShownPhase'
  BY <1>29 DEF Leave, DropFrames
<1>30. ASSUME NEW s \in Sessions, CancelAgent(s) PROVE ShownPhase'
  BY <1>30 DEF CancelAgent
<1>31. ASSUME NEW s \in Sessions, NEW p \in Projects, MoveSession(s, p) PROVE ShownPhase'
  BY <1>31 DEF MoveSession
<1>32. ASSUME NEW p \in Projects, DeleteBegin(p) PROVE ShownPhase'
  BY <1>32 DEF DeleteBegin
<1>33. ASSUME NEW s \in Sessions, DeleteCancel(s) PROVE ShownPhase'
  BY <1>33 DEF DeleteCancel
<1>34. ASSUME DeleteCommit PROVE ShownPhase'
  BY <1>34, <1>a DEF DeleteCommit, ShownPhase, Kept, SessionStatusForTurn
<1>35. ASSUME Restart PROVE ShownPhase'
  <2>1. SUFFICES ASSUME NEW s \in Sessions, home[s] # NoProject, latest[s] # NoTurn
                 PROVE  shown'[s] = SessionStatusForTurn(row'[latest[s]])
    BY <1>35 DEF Restart
  <2>2. latest[s] \in Turns
    BY <2>1
  <2>3. CASE row[latest[s]] \in ActiveStatus
    BY <1>35, <2>1, <2>2, <2>3 DEF Restart, SessionStatusForTurn, ActiveStatus
  <2>4. CASE row[latest[s]] \notin ActiveStatus
    <3>1. row'[latest[s]] = row[latest[s]]
      BY <1>35, <2>2, <2>4 DEF Restart
    <3>2. shown[s] = SessionStatusForTurn(row[latest[s]]) /\ shown[s] # "running"
      BY <2>1, <2>2, <2>4 DEF SessionStatusForTurn, RowStatus, ActiveStatus, TerminalStatus
    <3> QED
      BY <1>35, <3>1, <3>2 DEF Restart
  <2> QED
    BY <2>3, <2>4
<1>36. ASSUME UNCHANGED vars PROVE ShownPhase'
  BY <1>36 DEF vars
<1> QED
  BY <1>1, <1>2, <1>3, <1>4, <1>5, <1>6, <1>7, <1>8, <1>9, <1>10, <1>11, <1>12, <1>13,
     <1>14, <1>15, <1>16, <1>17, <1>18, <1>19, <1>20, <1>21, <1>22, <1>23, <1>24,
     <1>25, <1>26, <1>27, <1>28, <1>29, <1>30, <1>31, <1>32, <1>33, <1>34, <1>35, <1>36
  DEF Next, HandlerStep, GoroutineStep, UserStep

\* What the session shows and what its turns store agree in every reachable state.
LEMMA SessionAlways == Spec => [](SessionInv /\ OlderClosed /\ ShownPhase)
<1>1. Init => UnbornUnowned /\ Kept /\ OlderClosed /\ ShownPhase
  BY DEF Init, UnbornUnowned, Kept, OlderClosed, ShownPhase
<1>2. SessionInv /\ [Next]_vars => UnbornUnowned' /\ Kept'
  BY UnbornNext, KeptNext DEF SessionInv, PhaseInv
<1>3. UnbornUnowned /\ Kept /\ PhaseInv => SessionInv
  BY DEF SessionInv
<1>4. SessionInv => UnbornUnowned /\ Kept
  BY DEF SessionInv
<1> QED
  BY <1>1, <1>2, <1>3, <1>4, PhaseAlways, OlderNext, ShownNext, PTL DEF Spec

\* When nothing of a session is in flight and no status write failed, its status
\* is that of its latest turn.
THEOREM SettledCorrect == Spec => []SettledSessionShowsLatest
<1>1. SessionInv /\ ShownPhase /\ NoStrandedTurn => SettledSessionShowsLatest
  <2> SUFFICES ASSUME SessionInv, ShownPhase, NoStrandedTurn, NoFaultYet,
                      NEW s \in Sessions, home[s] # NoProject, latest[s] # NoTurn,
                      \A t \in Turns : owner[t] = s => pc[t] \notin InFlight
               PROVE  shown[s] = SessionStatusForTurn(row[latest[s]])
    BY DEF SettledSessionShowsLatest
  <2>1. latest[s] \in Turns /\ owner[latest[s]] = s
    BY DEF SessionInv, PhaseInv, TypeInv, TypeOK, Kept
  <2>2. row[latest[s]] \notin ActiveStatus
    BY <2>1 DEF NoStrandedTurn
  <2> QED
    BY <2>2 DEF ShownPhase
<1> QED
  BY <1>1, SessionAlways, StrandedCorrect, PTL

=============================================================================
