-------------------------- MODULE LifecycleProofs ---------------------------
(***************************************************************************)
(* Theorems about Lifecycle, for every set of sessions, every set of       *)
(* threads that call stop, every number of starts and every number of      *)
(* signals.                                                                *)
(***************************************************************************)
EXTENDS Lifecycle, FiniteSetTheorems, TLAPS

\* The steps of the signal handler and of Stop.
Step == {"idle", "info", "check", "clear", "loop", "timer", "close", "reset",
         "sessions", "listener"}

\* The steps of a Stop that is going to close the timer.
Closing == {"clear", "loop", "timer", "close", "reset"}

\* At most one timer is open, and timer_fd_ says so; it may say so for longer, up
\* to the reset by the Stop that closed it.  Someone is bound to close it: the
\* server is live, and either running_ is set, so that a Stop will go through, or
\* a Stop is on its way to the timer.
TimerInv ==
  /\ timers \in {0, 1}
  /\ timers = 1 => timer_fd_
  /\ timer_fd_ /\ timers = 0 => \E t \in Caller : stop[t] = "reset"
  /\ \A t \in Caller : stop[t] = "reset" => timers = 0
  /\ timer_fd_ => /\ handle = "live"
                  /\ running_ \/ \E t \in Caller : stop[t] \in Closing

\* The steps of a Stop that has cleared the map, or has not passed its check.
AfterMap == {"listener", "idle", "info", "check"}

\* A Stop has cleared the map, no other is still to do so, and the loop has seen,
\* or will see, its flag.
Cleared == ~looping /\ ~running_ /\ \A t \in Caller : stop[t] \in AfterMap

\* Then the map is empty, with at most one client on its way into it; or that
\* client is there, and no other can come.
AtMostOne ==
  \/ sessions_ = {}
  \/ /\ \E s \in Session : sessions_ = {s}
     /\ main \notin {"wait", "insert"} /\ "listener" \notin batch

LeftInv ==
  /\ main = "insert" => /\ \E s \in Session : current = {s}
                        /\ "listener" \notin batch
  /\ Cleared => AtMostOne

IInv == TypeOK /\ TimerInv /\ LeftInv

\* What an outcome of Start is; only one that is well has a timer.
LEMMA StartOutcomes ==
  ASSUME NEW end \in StartOutcome
  PROVE  /\ end.timer \in BOOLEAN /\ end.epoll \in BOOLEAN /\ end.ok \in BOOLEAN
         /\ end.listener \in {"closed", "idle", "open"}
         /\ end.timer => end.ok
<1>1. CASE end \in {[listener |-> l, epoll |-> FALSE, timer |-> FALSE,
                     ok |-> FALSE] : l \in {"closed", "idle", "open"}}
  <2>1. PICK l \in {"closed", "idle", "open"} :
          end = [listener |-> l, epoll |-> FALSE, timer |-> FALSE, ok |-> FALSE]
    BY <1>1
  <2> QED
    BY <2>1, Zenon
<1>2. CASE end = [listener |-> "open", epoll |-> TRUE, timer |-> FALSE, ok |-> FALSE]
  BY <1>2, Zenon
<1>3. CASE end = [listener |-> "open", epoll |-> TRUE, timer |-> TRUE, ok |-> TRUE]
  BY <1>3, Zenon
<1> QED
  BY <1>1, <1>2, <1>3 DEF StartOutcome

\* Every step keeps the types.
LEMMA TypeStep ==
  ASSUME TypeOK, TimerInv, [Next]_vars
  PROVE  TypeOK'
<1> USE DEF TypeOK, TimerInv, Step, serverVars, timerVars, sessionVars,
            mainVars, streamVars, stopVars
<1>1. CASE Create
  BY <1>1 DEF Create
<1>2. CASE Start
  <2>1. PICK end \in StartOutcome : StartEnds(end)
    BY <1>2 DEF Start
  <2>2. end.timer \in BOOLEAN /\ end.epoll \in BOOLEAN /\ end.ok \in BOOLEAN
        /\ end.listener \in {"closed", "idle", "open"}
    BY StartOutcomes
  <2>3. timers' \in Nat /\ starts' \in 0..MaxStarts
    BY <1>2, <2>1, <2>2, LifecycleAssumption DEF Start, StartEnds
  <2>4. running_' \in BOOLEAN /\ epoll' \in BOOLEAN /\ looping' \in BOOLEAN
        /\ timer_fd_' \in BOOLEAN /\ listener' \in {"closed", "idle", "open"}
    BY <2>1, <2>2 DEF StartEnds
  <2> QED
    BY <1>2, <2>3, <2>4 DEF Start
<1>3. CASE EnterRun
  BY <1>3 DEF EnterRun
<1>4. CASE EnterLoop
  BY <1>4 DEF EnterLoop
<1>5. CASE TestLoop
  BY <1>5 DEF TestLoop
<1>6. CASE Wait
  BY <1>6 DEF Wait
<1>7. CASE MainLocks
  BY <1>7 DEF MainLocks
<1>8. CASE Accept
  BY <1>8 DEF Accept, Returned
<1>9. CASE Insert
  BY <1>9 DEF Insert, Returned
<1>10. CASE Timer
  BY <1>10 DEF Timer, Returned
<1>11. CASE CloseConnection
  BY <1>11 DEF CloseConnection, Returned
<1>12. ASSUME NEW s \in Session, LookUp(s) PROVE TypeOK'
  BY <1>12 DEF LookUp, Returned
<1>13. CASE Serve
  BY <1>13 DEF Serve, Served, Returned
<1>14. CASE Wake
  BY <1>14 DEF Wake, Served, Returned
<1>15. ASSUME NEW t \in Stopper, CallStop(t) PROVE TypeOK'
  <2>1. stop' \in [Caller -> Step]
    BY <1>15 DEF CallStop, Go, Caller, Step
  <2> QED
    BY <1>15, <2>1 DEF CallStop
<1>16. ASSUME NEW t \in {"main", "stream"}, HandlerBegins(t) PROVE TypeOK'
  <2>1. stop' \in [Caller -> Step]
    BY <1>16 DEF HandlerBegins, Go, Caller, Step
  <2> QED
    BY <1>16, <2>1, LifecycleAssumption DEF HandlerBegins
<1>17. ASSUME NEW t \in Caller, HandlerInfo(t) PROVE TypeOK'
  <2>1. stop' \in [Caller -> Step]
    BY <1>17 DEF HandlerInfo, Go, Caller, Step
  <2> QED
    BY <1>17, <2>1 DEF HandlerInfo
<1>18. ASSUME NEW t \in Caller, StopCheck(t) PROVE TypeOK'
  <2>1. stop' \in [Caller -> Step]
    BY <1>18 DEF StopCheck, Go, Caller, Step
  <2> QED
    BY <1>18, <2>1 DEF StopCheck
<1>19. ASSUME NEW t \in Caller, StopClear(t) PROVE TypeOK'
  <2>1. stop' \in [Caller -> Step]
    BY <1>19 DEF StopClear, Go, Caller, Step
  <2>2. running_' \in BOOLEAN
    BY <1>19, Zenon DEF StopClear
  <2> QED
    BY <1>19, <2>1, <2>2 DEF StopClear
<1>20. ASSUME NEW t \in Caller, StopLoop(t) PROVE TypeOK'
  <2>1. stop' \in [Caller -> Step]
    BY <1>20 DEF StopLoop, Go, Caller, Step
  <2>2. looping' \in BOOLEAN
    BY <1>20, Zenon DEF StopLoop
  <2> QED
    BY <1>20, <2>1, <2>2 DEF StopLoop
<1>21. ASSUME NEW t \in Caller, StopTimer(t) PROVE TypeOK'
  <2>1. stop' \in [Caller -> Step]
    BY <1>21 DEF StopTimer, Go, Caller, Step
  <2> QED
    BY <1>21, <2>1 DEF StopTimer
<1>22. ASSUME NEW t \in Caller, StopCloses(t) PROVE TypeOK'
  <2>1. stop' \in [Caller -> Step]
    BY <1>22 DEF StopCloses, Go, Caller, Step
  <2>2. stray' \in BOOLEAN
    BY <1>22, Zenon DEF StopCloses
  <2>3. timers' \in Nat
    BY <1>22 DEF StopCloses
  <2> QED
    BY <1>22, <2>1, <2>2, <2>3 DEF StopCloses
<1>23. ASSUME NEW t \in Caller, StopResets(t) PROVE TypeOK'
  <2>1. stop' \in [Caller -> Step]
    BY <1>23 DEF StopResets, Go, Caller, Step
  <2>2. timer_fd_' \in BOOLEAN
    BY <1>23, Zenon DEF StopResets
  <2> QED
    BY <1>23, <2>1, <2>2 DEF StopResets
<1>24. ASSUME NEW t \in Caller, StopSessions(t) PROVE TypeOK'
  <2>1. stop' \in [Caller -> Step]
    BY <1>24 DEF StopSessions, Go, Caller, Step
  <2> QED
    BY <1>24, <2>1 DEF StopSessions
<1>25. ASSUME NEW t \in Caller, StopListener(t) PROVE TypeOK'
  <2>1. stop' \in [Caller -> Step]
    BY <1>25 DEF StopListener, Go, Caller, Step
  <2> QED
    BY <1>25, <2>1 DEF StopListener
<1>26. CASE Destroy
  <2>1. running_' \in BOOLEAN /\ looping' \in BOOLEAN /\ epoll' \in BOOLEAN
    BY <1>26, Zenon DEF Destroy
  <2>2. timer_fd_' \in BOOLEAN
    BY <1>26, Zenon DEF Destroy
  <2>3. timers' \in Nat
    BY <1>26 DEF Destroy, NoStop
  <2> QED
    BY <1>26, <2>1, <2>2, <2>3 DEF Destroy
<1>27. CASE SendRtp
  BY <1>27 DEF SendRtp
<1>28. CASE StreamLocks
  BY <1>28 DEF StreamLocks
<1>29. CASE Snapshot
  BY <1>29 DEF Snapshot
<1>30. CASE Forwarded
  BY <1>30 DEF Forwarded
<1>31. CASE UNCHANGED vars
  BY <1>31 DEF vars
<1> QED
  BY <1>1, <1>2, <1>3, <1>4, <1>5, <1>6, <1>7, <1>8, <1>9, <1>10, <1>11, <1>12,
     <1>13, <1>14, <1>15, <1>16, <1>17, <1>18, <1>19, <1>20, <1>21, <1>22,
     <1>23, <1>24, <1>25, <1>26, <1>27, <1>28, <1>29, <1>30, <1>31
  DEF Next, RunStep, StopStep, Caller

\* Every step keeps the account of the timer.
LEMMA TimerStep ==
  ASSUME TypeOK, TimerInv, [Next]_vars
  PROVE  TimerInv'
<1> USE DEF TypeOK, TimerInv, Closing, Step, serverVars, timerVars, sessionVars,
            mainVars, streamVars, stopVars
<1>1. CASE Create
  BY <1>1 DEF Create
<1>2. CASE Start
  <2>1. ~timer_fd_ /\ timers = 0
    BY <1>2 DEF Start, NoStop
  <2> QED
    <3>0. PICK end \in StartOutcome : StartEnds(end)
      BY <1>2 DEF Start
    <3>1. timers' \in {0, 1} /\ (timers' = 1 <=> timer_fd_')
      BY <2>1, <3>0 DEF StartEnds
    <3>2. timer_fd_' => running_'
      BY <3>0, StartOutcomes DEF StartEnds
    <3>3. handle' = "live" /\ \A t \in Caller : stop'[t] # "reset"
      BY <1>2 DEF Start, NoStop
    <3> QED
      BY <3>1, <3>2, <3>3
<1>3. CASE EnterRun
  BY <1>3 DEF EnterRun
<1>4. CASE EnterLoop
  BY <1>4 DEF EnterLoop
<1>5. CASE TestLoop
  BY <1>5 DEF TestLoop
<1>6. CASE Wait
  BY <1>6 DEF Wait
<1>7. CASE MainLocks
  BY <1>7 DEF MainLocks
<1>8. CASE Accept
  BY <1>8 DEF Accept, Returned
<1>9. CASE Insert
  BY <1>9 DEF Insert, Returned
<1>10. CASE Timer
  BY <1>10 DEF Timer, Returned
<1>11. CASE CloseConnection
  BY <1>11 DEF CloseConnection, Returned
<1>12. ASSUME NEW s \in Session, LookUp(s) PROVE TimerInv'
  BY <1>12 DEF LookUp, Returned
<1>13. CASE Serve
  BY <1>13 DEF Serve, Served, Returned
<1>14. CASE Wake
  BY <1>14 DEF Wake, Served, Returned
<1>15. ASSUME NEW t \in Stopper, CallStop(t) PROVE TimerInv'
  <2>1. stop'[t] = "check" /\ \A u \in Caller \ {t} : stop'[u] = stop[u]
    BY <1>15 DEF CallStop, Go, Caller
  <2> QED
    BY <1>15, <2>1 DEF CallStop, Caller
<1>16. ASSUME NEW t \in {"main", "stream"}, HandlerBegins(t) PROVE TimerInv'
  <2>1. stop'[t] = "info" /\ \A u \in Caller \ {t} : stop'[u] = stop[u]
    BY <1>16 DEF HandlerBegins, Go, Caller
  <2> QED
    BY <1>16, <2>1 DEF HandlerBegins, Caller
<1>17. ASSUME NEW t \in Caller, HandlerInfo(t) PROVE TimerInv'
  <2>1. stop'[t] = "check" /\ \A u \in Caller \ {t} : stop'[u] = stop[u]
    BY <1>17 DEF HandlerInfo, Go, Caller
  <2> QED
    BY <1>17, <2>1 DEF HandlerInfo, Caller
<1>18. ASSUME NEW t \in Caller, StopCheck(t) PROVE TimerInv'
  <2>1. stop'[t] = (IF running_ THEN "clear" ELSE "idle") /\ \A u \in Caller \ {t} : stop'[u] = stop[u]
    BY <1>18 DEF StopCheck, Go, Caller
  <2> QED
    BY <1>18, <2>1 DEF StopCheck, Caller
<1>19. ASSUME NEW t \in Caller, StopClear(t) PROVE TimerInv'
  <2>1. stop'[t] = "loop" /\ \A u \in Caller \ {t} : stop'[u] = stop[u]
    BY <1>19 DEF StopClear, Go, Caller
  <2> QED
    BY <1>19, <2>1 DEF StopClear, Caller
<1>20. ASSUME NEW t \in Caller, StopLoop(t) PROVE TimerInv'
  <2>1. stop'[t] = "timer" /\ \A u \in Caller \ {t} : stop'[u] = stop[u]
    BY <1>20 DEF StopLoop, Go, Caller
  <2> QED
    BY <1>20, <2>1 DEF StopLoop, Caller
<1>21. ASSUME NEW t \in Caller, StopTimer(t) PROVE TimerInv'
  <2>1. stop'[t] = (IF timer_fd_ THEN "close" ELSE "sessions") /\ \A u \in Caller \ {t} : stop'[u] = stop[u]
    BY <1>21 DEF StopTimer, Go, Caller
  <2> QED
    BY <1>21, <2>1 DEF StopTimer, Caller
<1>22. ASSUME NEW t \in Caller, StopCloses(t) PROVE TimerInv'
  <2>1. stop'[t] = "reset" /\ \A u \in Caller \ {t} : stop'[u] = stop[u]
    BY <1>22 DEF StopCloses, Go, Caller
  <2> QED
    BY <1>22, <2>1 DEF StopCloses, Caller
<1>23. ASSUME NEW t \in Caller, StopResets(t) PROVE TimerInv'
  <2>1. stop'[t] = "sessions" /\ \A u \in Caller \ {t} : stop'[u] = stop[u]
    BY <1>23 DEF StopResets, Go, Caller
  <2>2. ~timer_fd_' /\ timers = 0 /\ timers' = timers
    BY <1>23 DEF StopResets
  <2> QED
    BY <2>1, <2>2
<1>24. ASSUME NEW t \in Caller, StopSessions(t) PROVE TimerInv'
  <2>1. stop'[t] = "listener" /\ \A u \in Caller \ {t} : stop'[u] = stop[u]
    BY <1>24 DEF StopSessions, Go, Caller
  <2> QED
    BY <1>24, <2>1 DEF StopSessions, Caller
<1>25. ASSUME NEW t \in Caller, StopListener(t) PROVE TimerInv'
  <2>1. stop'[t] = "idle" /\ \A u \in Caller \ {t} : stop'[u] = stop[u]
    BY <1>25 DEF StopListener, Go, Caller
  <2> QED
    BY <1>25, <2>1 DEF StopListener, Caller
<1>26. CASE Destroy
  <2>1. timer_fd_ => running_ /\ timers = 1
    BY <1>26 DEF Destroy, NoStop
  <2>2. ~timer_fd_'
    BY <1>26, <2>1 DEF Destroy
  <2>3. timers' = 0
    BY <1>26, <2>1 DEF Destroy
  <2> QED
    BY <2>2, <2>3
<1>27. CASE SendRtp
  BY <1>27 DEF SendRtp
<1>28. CASE StreamLocks
  BY <1>28 DEF StreamLocks
<1>29. CASE Snapshot
  BY <1>29 DEF Snapshot
<1>30. CASE Forwarded
  BY <1>30 DEF Forwarded
<1>31. CASE UNCHANGED vars
  BY <1>31 DEF vars
<1> QED
  BY <1>1, <1>2, <1>3, <1>4, <1>5, <1>6, <1>7, <1>8, <1>9, <1>10, <1>11, <1>12,
     <1>13, <1>14, <1>15, <1>16, <1>17, <1>18, <1>19, <1>20, <1>21, <1>22,
     <1>23, <1>24, <1>25, <1>26, <1>27, <1>28, <1>29, <1>30, <1>31
  DEF Next, RunStep, StopStep, Caller

\* Every step keeps the account of the sessions a Stop leaves.
LEMMA LeftStep ==
  ASSUME TypeOK, LeftInv, [Next]_vars
  PROVE  LeftInv'
<1> USE DEF TypeOK, LeftInv, Cleared, AtMostOne, AfterMap, Step, serverVars,
            timerVars, sessionVars, mainVars, streamVars, stopVars
<1>1. CASE Create
  BY <1>1 DEF Create
<1>2. CASE Start
  BY <1>2 DEF Start, StartEnds, StartOutcome, NoStop
<1>3. CASE EnterRun
  BY <1>3 DEF EnterRun
<1>4. CASE EnterLoop
  BY <1>4 DEF EnterLoop
<1>5. CASE TestLoop
  BY <1>5 DEF TestLoop
<1>6. CASE Wait
  BY <1>6 DEF Wait
<1>7. CASE MainLocks
  BY <1>7 DEF MainLocks
<1>8. CASE Accept
  BY <1>8 DEF Accept, Returned
<1>9. CASE Insert
  BY <1>9 DEF Insert, Returned
<1>10. CASE Timer
  BY <1>10 DEF Timer, Returned
<1>11. CASE CloseConnection
  BY <1>11 DEF CloseConnection, Returned
<1>12. ASSUME NEW s \in Session, LookUp(s) PROVE LeftInv'
  BY <1>12 DEF LookUp, Returned
<1>13. CASE Serve
  BY <1>13 DEF Serve, Served, Returned
<1>14. CASE Wake
  BY <1>14 DEF Wake, Served, Returned
<1>15. ASSUME NEW t \in Stopper, CallStop(t) PROVE LeftInv'
  <2>1. stop'[t] = "check" /\ \A u \in Caller \ {t} : stop'[u] = stop[u]
    BY <1>15 DEF CallStop, Go, Caller
  <2> QED
    BY <1>15, <2>1 DEF CallStop, Caller
<1>16. ASSUME NEW t \in {"main", "stream"}, HandlerBegins(t) PROVE LeftInv'
  <2>1. stop'[t] = "info" /\ \A u \in Caller \ {t} : stop'[u] = stop[u]
    BY <1>16 DEF HandlerBegins, Go, Caller
  <2> QED
    BY <1>16, <2>1 DEF HandlerBegins, Caller
<1>17. ASSUME NEW t \in Caller, HandlerInfo(t) PROVE LeftInv'
  <2>1. stop'[t] = "check" /\ \A u \in Caller \ {t} : stop'[u] = stop[u]
    BY <1>17 DEF HandlerInfo, Go, Caller
  <2> QED
    BY <1>17, <2>1 DEF HandlerInfo, Caller
<1>18. ASSUME NEW t \in Caller, StopCheck(t) PROVE LeftInv'
  <2>1. stop'[t] = (IF running_ THEN "clear" ELSE "idle") /\ \A u \in Caller \ {t} : stop'[u] = stop[u]
    BY <1>18 DEF StopCheck, Go, Caller
  <2> QED
    BY <1>18, <2>1 DEF StopCheck, Caller
<1>19. ASSUME NEW t \in Caller, StopClear(t) PROVE LeftInv'
  <2>1. stop'[t] = "loop" /\ \A u \in Caller \ {t} : stop'[u] = stop[u]
    BY <1>19 DEF StopClear, Go, Caller
  <2> QED
    BY <1>19, <2>1 DEF StopClear, Caller
<1>20. ASSUME NEW t \in Caller, StopLoop(t) PROVE LeftInv'
  <2>1. stop'[t] = "timer" /\ \A u \in Caller \ {t} : stop'[u] = stop[u]
    BY <1>20 DEF StopLoop, Go, Caller
  <2> QED
    BY <1>20, <2>1 DEF StopLoop, Caller
<1>21. ASSUME NEW t \in Caller, StopTimer(t) PROVE LeftInv'
  <2>1. stop'[t] = (IF timer_fd_ THEN "close" ELSE "sessions") /\ \A u \in Caller \ {t} : stop'[u] = stop[u]
    BY <1>21 DEF StopTimer, Go, Caller
  <2> QED
    BY <1>21, <2>1 DEF StopTimer, Caller
<1>22. ASSUME NEW t \in Caller, StopCloses(t) PROVE LeftInv'
  <2>1. stop'[t] = "reset" /\ \A u \in Caller \ {t} : stop'[u] = stop[u]
    BY <1>22 DEF StopCloses, Go, Caller
  <2> QED
    BY <1>22, <2>1 DEF StopCloses, Caller
<1>23. ASSUME NEW t \in Caller, StopResets(t) PROVE LeftInv'
  <2>1. stop'[t] = "sessions" /\ \A u \in Caller \ {t} : stop'[u] = stop[u]
    BY <1>23 DEF StopResets, Go, Caller
  <2> QED
    BY <1>23, <2>1 DEF StopResets, Caller
<1>24. ASSUME NEW t \in Caller, StopSessions(t) PROVE LeftInv'
  <2>1. stop'[t] = "listener" /\ \A u \in Caller \ {t} : stop'[u] = stop[u]
    BY <1>24 DEF StopSessions, Go, Caller
  <2> QED
    BY <1>24, <2>1 DEF StopSessions, Caller
<1>25. ASSUME NEW t \in Caller, StopListener(t) PROVE LeftInv'
  <2>1. stop'[t] = "idle" /\ \A u \in Caller \ {t} : stop'[u] = stop[u]
    BY <1>25 DEF StopListener, Go, Caller
  <2> QED
    BY <1>25, <2>1 DEF StopListener, Caller
<1>26. CASE Destroy
  BY <1>26 DEF Destroy, NoStop
<1>27. CASE SendRtp
  BY <1>27 DEF SendRtp
<1>28. CASE StreamLocks
  BY <1>28 DEF StreamLocks
<1>29. CASE Snapshot
  BY <1>29 DEF Snapshot
<1>30. CASE Forwarded
  BY <1>30 DEF Forwarded
<1>31. CASE UNCHANGED vars
  BY <1>31 DEF vars
<1> QED
  BY <1>1, <1>2, <1>3, <1>4, <1>5, <1>6, <1>7, <1>8, <1>9, <1>10, <1>11, <1>12,
     <1>13, <1>14, <1>15, <1>16, <1>17, <1>18, <1>19, <1>20, <1>21, <1>22,
     <1>23, <1>24, <1>25, <1>26, <1>27, <1>28, <1>29, <1>30, <1>31
  DEF Next, RunStep, StopStep, Caller

-----------------------------------------------------------------------------
\* The invariant behind the three theorems.
THEOREM LifecycleInvariant == Spec => []IInv
<1>1. Init => IInv
  <2> SUFFICES ASSUME Init PROVE IInv
    OBVIOUS
  <2>1. running_ \in BOOLEAN /\ epoll \in BOOLEAN /\ looping \in BOOLEAN
        /\ timer_fd_ \in BOOLEAN /\ stray \in BOOLEAN
    BY Zenon DEF Init
  <2>2. TypeOK
    BY <2>1, LifecycleAssumption DEF Init, TypeOK, Caller
  <2>3. TimerInv
    BY DEF Init, TimerInv
  <2>4. LeftInv
    BY DEF Init, LeftInv, AtMostOne
  <2> QED
    BY <2>2, <2>3, <2>4 DEF IInv
<1>2. IInv /\ [Next]_vars => IInv'
  BY TypeStep, TimerStep, LeftStep DEF IInv
<1> QED
  BY <1>1, <1>2, PTL DEF Spec

\* Every variable keeps its type, whatever calls of Stop overlap
\* (rtsp_server.cc:44-161).
THEOREM LifecycleTypeCorrect == Spec => []TypeOK
<1>1. IInv => TypeOK
  BY DEF IInv
<1> QED
  BY <1>1, LifecycleInvariant, PTL

\* A destroyed server has left no timer open, whatever starts, stops and signals
\* came before, overlapping stops too (rtsp_server.cc:38-42, 93-117, 139-145).
THEOREM LifecycleTimerNotLeaked == Spec => []TimerNotLeaked
<1>1. IInv => TimerNotLeaked
  BY DEF IInv, TimerInv, TimerNotLeaked
<1> QED
  BY <1>1, LifecycleInvariant, PTL

\* However many sessions are open, a Stop that the loop takes notice of leaves at
\* most one in the map, however many called it (rtsp_server.cc:147-155, 303-310).
THEOREM LifecycleStopLeavesAtMostOne == Spec => []StopLeavesAtMostOne
<1>1. IInv => StopLeavesAtMostOne
  <2> SUFFICES ASSUME IInv, NoStop, ~running_, ~looping
               PROVE  Cardinality(sessions_) <= 1
    BY DEF StopLeavesAtMostOne
  <2>1. AtMostOne
    BY DEF IInv, LeftInv, Cleared, NoStop, AfterMap
  <2>2. CASE sessions_ = {}
    BY <2>2, FS_EmptySet
  <2>3. CASE \E s \in Session : sessions_ = {s}
    <3>1. PICK s \in Session : sessions_ = {s}
      BY <2>3
    <3>2. Cardinality({s}) = 1
      BY FS_Singleton
    <3> QED
      BY <3>1, <3>2
  <2> QED
    BY <2>1, <2>2, <2>3 DEF AtMostOne
<1> QED
  BY <1>1, LifecycleInvariant, PTL

=============================================================================
