----------------------------- MODULE Lifecycle ------------------------------
(***************************************************************************)
(* The life of a server handle (src/api/rtsp_forward.cc, Start, Run, Stop  *)
(* and ~RtspServer of src/core/rtsp_server.cc, Run and Stop of             *)
(* src/net/epoll_loop.cc).  The owner's thread "main" creates, starts, runs*)
(* and destroys the server; the stream thread sends packets; Stop is called*)
(* at any time, by other threads, several at once, or by the signal handler*)
(* of demo/main.cc, which interrupts main or the stream thread between any *)
(* two of its steps and takes its place until it returns.  Stop takes no   *)
(* lock but sessions_mutex_ for a moment, so the other threads come in     *)
(* between any two of its statements.                                      *)
(*                                                                         *)
(* The owner is assumed to start a server again, or to destroy it, only    *)
(* when no rtsp_forward_stop is in progress, and to destroy it only when   *)
(* no rtsp_forward_send_rtp is.                                            *)
(***************************************************************************)
EXTENDS Integers, FiniteSets

CONSTANTS Session,     \* the sessions that may be open at a time
          Stopper,     \* the threads that may call rtsp_forward_stop
          MaxStarts,   \* bound: number of calls of rtsp_forward_start
          MaxSignals   \* bound: number of SIGINTs

ASSUME LifecycleAssumption ==
  IsFiniteSet(Session) /\ MaxStarts \in Nat /\ MaxSignals \in Nat

\* Who may be in rtsp_forward_stop: a thread of its own, or the signal handler
\* in the place of main or of the stream thread.
Caller == {"main", "stream"} \cup Stopper

VARIABLES
  handle,              \* the caller's handle: "none", "live", "freed"
  running_,            \* RtspServer::running_
  epoll,               \* epoll_fd_ is valid
  looping,             \* EpollLoop::running_
  listener,            \* its socket: "closed", "idle" (not listening), "open"
  timer_fd_,           \* timer_fd_ >= 0
  timers,              \* number of timerfds of the server that are open (kernel)
  stray,               \* history: a Stop has closed an fd number that was the
                       \* timer's and is so no longer
  sessions_,
  playing,             \* the sessions whose state is kPlaying
  main,                \* where the owner's thread is
  current,             \* the client accepted or served, or those to be closed
  batch,               \* events of one epoll_wait still to be dispatched
  stop,                \* each caller's next step in the handler and in Stop, or
                       \* "idle"
  signals,
  mutex,               \* who holds sessions_mutex_: "free", "main", "stream"
  stream,              \* where the stream thread is
  held,                \* the sessions in the snapshot of BroadcastRtp
  starts

timerVars == <<timer_fd_, timers, stray>>
serverVars == <<handle, running_, epoll, listener, starts>>
sessionVars == <<sessions_, playing, current>>
mainVars == <<main, batch>>
streamVars == <<stream, held>>
stopVars == <<stop, signals>>
vars == <<serverVars, timerVars, looping, sessionVars, mainVars, stopVars,
          streamVars, mutex>>

Init ==
  /\ handle = "none" /\ running_ = FALSE /\ epoll = FALSE /\ looping = FALSE
  /\ listener = "closed" /\ timer_fd_ = FALSE /\ timers = 0 /\ stray = FALSE
  /\ sessions_ = {} /\ playing = {} /\ current = {}
  /\ main = "out" /\ batch = {}
  /\ stop = [t \in Caller |-> "idle"] /\ signals = 0
  /\ stream = "idle" /\ held = {}
  /\ mutex = "free"
  /\ starts = 0

-----------------------------------------------------------------------------
\* A thread goes on unless the signal handler has interrupted it.
Runs(thread) == stop[thread] = "idle"

NoStop == \A t \in Caller : stop[t] = "idle"

\* The owner.  Calls that only return an error are left out: they change
\* nothing.

\* rtsp_forward_create with arguments it accepts.
Create ==
  /\ handle = "none"
  /\ handle' = "live"
  /\ UNCHANGED <<running_, epoll, listener, starts, timerVars, looping,
                 sessionVars, mainVars, stopVars, streamVars, mutex>>

\* What Start has done where it returns.  Listen fails before or after it has
\* made a new socket; then EpollLoop::Init fails; then an AddFd or the timer,
\* which is closed again; or all is well.
StartOutcome ==
  {[listener |-> l, epoll |-> FALSE, timer |-> FALSE, ok |-> FALSE] :
      l \in {"closed", "idle", "open"}}
  \cup {[listener |-> "open", epoll |-> TRUE, timer |-> FALSE, ok |-> FALSE],
        [listener |-> "open", epoll |-> TRUE, timer |-> TRUE, ok |-> TRUE]}

\* Mutant: a Start that fails at its last AddFd keeps the timer.
StartLeaks ==
  /\ main = "out" /\ handle = "live" /\ NoStop /\ ~running_
  /\ starts < MaxStarts
  /\ timers' = timers + 1
  /\ listener' = "open" /\ epoll' = TRUE
  /\ running_' \in BOOLEAN
  /\ timer_fd_' = running_'
  /\ looping' = (looping \/ ~epoll)
  /\ starts' = starts + 1
  /\ UNCHANGED <<handle, stray, sessionVars, mainVars, stopVars, streamVars, mutex>>

\* Init makes the epoll fd once, and raises the loop's flag when it does.
StartEnds(end) ==
  /\ listener' = end.listener
  /\ epoll' = (epoll \/ end.epoll)
  /\ looping' = (looping \/ (end.epoll /\ ~epoll))
  /\ timer_fd_' = end.timer
  /\ timers' = IF end.timer THEN timers + 1 ELSE timers
  /\ running_' = end.ok

Start ==
  /\ main = "out" /\ handle = "live" /\ NoStop /\ ~running_
  /\ starts < MaxStarts
  /\ \E end \in StartOutcome : StartEnds(end)
  /\ starts' = starts + 1
  /\ UNCHANGED <<handle, stray, sessionVars, mainVars, stopVars, streamVars, mutex>>

\* rtsp_forward_run and RtspServer::Run find running_ set ...
EnterRun ==
  /\ Runs("main") /\ main = "out" /\ handle = "live" /\ running_
  /\ main' = "enter"
  /\ UNCHANGED <<serverVars, timerVars, looping, sessionVars, batch, stopVars,
                 streamVars, mutex>>

\* ... and EpollLoop::Run raises its own flag.
EnterLoop ==
  /\ Runs("main") /\ main = "enter"
  /\ looping' = TRUE
  /\ main' = "loop"
  /\ UNCHANGED <<serverVars, timerVars, sessionVars, batch, stopVars, streamVars, mutex>>

\* The while condition.
TestLoop ==
  /\ Runs("main") /\ main = "loop"
  /\ main' = IF looping THEN "wait" ELSE "out"
  /\ UNCHANGED <<serverVars, timerVars, looping, sessionVars, batch, stopVars,
                 streamVars, mutex>>

\* epoll_wait gives some of the events of the fds that are open, or none when
\* its timeout is over.  A session that Stop has erased is in the epoll set as
\* long as the stream thread keeps its socket open.
Wait ==
  /\ Runs("main") /\ main = "wait"
  /\ \E ready \in SUBSET ((IF listener = "open" THEN {"listener"} ELSE {})
                          \cup (IF timers > 0 THEN {"timer"} ELSE {})
                          \cup sessions_ \cup held) :
       /\ batch' = ready
       /\ main' = IF ready = {} THEN "loop" ELSE "dispatch"
  /\ UNCHANGED <<serverVars, timerVars, looping, sessionVars, stopVars,
                 streamVars, mutex>>

\* A handler has returned, the events rest being left of the batch; the flag is
\* looked at only when the batch is done.
Returned(rest) == main' = IF rest = {} THEN "loop" ELSE "dispatch"

\* The lock_guard of OnNewConnection's second section, of CheckTimeouts, of the
\* look-up of a client and of CloseConnection.
MainLocks ==
  /\ Runs("main") /\ mutex = "free"
  /\ \/ main \in {"insert", "close"}
     \/ main = "dispatch" /\ batch # {"listener"}
  /\ mutex' = "main"
  /\ UNCHANGED <<serverVars, timerVars, looping, sessionVars, mainVars, stopVars,
                 streamVars>>

\* OnNewConnection up to the AddFd of the client; accept fails once the listener
\* is closed, and a client is turned away when there are too many or AddFd
\* fails.  Its first section of sessions_mutex_ is part of the step.
Accept ==
  /\ Runs("main") /\ main = "dispatch" /\ "listener" \in batch
  /\ mutex # "main" /\ (listener = "open" => mutex = "free")
  /\ batch' = batch \ {"listener"}
  /\ \/ /\ listener = "open"
        /\ \E s \in Session \ (sessions_ \cup held) : current' = {s}
        /\ main' = "insert"
     \/ Returned(batch') /\ UNCHANGED current
  /\ UNCHANGED <<serverVars, timerVars, looping, sessions_, playing, stopVars,
                 streamVars, mutex>>

\* ... and its insertion, under sessions_mutex_, of a session that does not play.
Insert ==
  /\ Runs("main") /\ main = "insert" /\ mutex = "main"
  /\ mutex' = "free"
  /\ sessions_' = sessions_ \cup current
  /\ playing' = playing \ current
  /\ current' = {}
  /\ Returned(batch)
  /\ UNCHANGED <<serverVars, timerVars, looping, batch, stopVars, streamVars>>

\* Mutant: CheckTimeouts calls CloseConnection inside its own section, and waits
\* for itself.
TimerClosesLocked ==
  /\ Runs("main") /\ main = "dispatch" /\ "timer" \in batch /\ mutex = "main"
  /\ batch' = batch \ {"timer"}
  /\ \/ sessions_ # {} /\ main' = "wait for itself" /\ UNCHANGED mutex
     \/ Returned(batch') /\ mutex' = "free"
  /\ UNCHANGED <<serverVars, timerVars, looping, sessionVars, stopVars, streamVars>>

\* The timer callback collects idle sessions under sessions_mutex_, none when
\* Stop was first or both timeouts are off, and closes them after it.
Timer ==
  /\ Runs("main") /\ main = "dispatch" /\ "timer" \in batch /\ mutex = "main"
  /\ mutex' = "free"
  /\ batch' = batch \ {"timer"}
  /\ \E idle \in SUBSET sessions_ :
       /\ current' = idle
       /\ IF idle = {} THEN Returned(batch') ELSE main' = "close"
  /\ UNCHANGED <<serverVars, timerVars, looping, sessions_, playing, stopVars,
                 streamVars>>

\* CloseConnection of one of them, which may be in the map no longer.
CloseConnection ==
  /\ Runs("main") /\ main = "close" /\ mutex = "main"
  /\ mutex' = "free"
  /\ \E s \in current :
       /\ sessions_' = sessions_ \ {s}
       /\ playing' = playing \ {s}
       /\ current' = current \ {s}
  /\ IF current' = {} THEN Returned(batch) ELSE UNCHANGED main
  /\ UNCHANGED <<serverVars, timerVars, looping, batch, stopVars, streamVars>>

\* A client's event, its one to three handlers taken together: the look-up of
\* the session, which is not found when it is no longer in the map ...
LookUp(s) ==
  /\ Runs("main") /\ main = "dispatch" /\ s \in batch /\ mutex = "main"
  /\ mutex' = "free"
  /\ batch' = batch \ {s}
  /\ \/ s \in sessions_ /\ main' = "serve" /\ current' = {s}
     \/ s \notin sessions_ /\ Returned(batch') /\ UNCHANGED current
  /\ UNCHANGED <<serverVars, timerVars, looping, sessions_, playing, stopVars,
                 streamVars>>

\* ... after which it starts or ends playing, or does not, and is closed or not.
Served ==
  /\ playing' \in {playing \cup current, playing \ current}
  /\ \/ main' = "close" /\ UNCHANGED current
     \/ Returned(batch) /\ current' = {}

\* Outside the mutex the handler calls recv, send and writev on a blocking fd.
Serve ==
  /\ Runs("main") /\ main = "serve"
  /\ \/ Served
     \/ /\ playing' \in {playing \cup current, playing \ current}
        /\ main' = "asleep" /\ UNCHANGED current
  /\ UNCHANGED <<serverVars, timerVars, looping, sessions_, batch, stopVars,
                 streamVars, mutex>>

\* Such a call ends when the client sends, reads or goes away, if it ever does.
Wake ==
  /\ Runs("main") /\ main = "asleep"
  /\ Served
  /\ UNCHANGED <<serverVars, timerVars, looping, sessions_, batch, stopVars,
                 streamVars, mutex>>

-----------------------------------------------------------------------------
\* rtsp_forward_stop and RtspServer::Stop: one step per statement.
Go(t, step) == stop' = [stop EXCEPT ![t] = step]

CallStop(t) ==
  /\ stop[t] = "idle" /\ handle = "live"
  /\ Go(t, "check")
  /\ UNCHANGED <<serverVars, timerVars, looping, sessionVars, mainVars,
                 streamVars, signals, mutex>>

\* sigint_handler interrupts a thread ...
HandlerBegins(thread) ==
  /\ stop[thread] = "idle" /\ handle = "live" /\ signals < MaxSignals
  /\ Go(thread, "info") /\ signals' = signals + 1
  /\ UNCHANGED <<serverVars, timerVars, looping, sessionVars, mainVars,
                 streamVars, mutex>>

\* ... and calls rtsp_forward_get_info, a reader under sessions_mutex_, and then
\* rtsp_forward_stop.
HandlerInfo(t) ==
  /\ stop[t] = "info" /\ mutex = "free"
  /\ Go(t, "check")
  /\ UNCHANGED <<serverVars, timerVars, looping, sessionVars, mainVars,
                 streamVars, signals, mutex>>

\* Both functions return if running_ is not set ...
StopCheck(t) ==
  /\ stop[t] = "check"
  /\ Go(t, IF running_ THEN "clear" ELSE "idle")
  /\ UNCHANGED <<serverVars, timerVars, looping, sessionVars, mainVars,
                 streamVars, signals, mutex>>

\* ... and it is cleared, which another caller may have done meanwhile.
StopClear(t) ==
  /\ stop[t] = "clear"
  /\ running_' = FALSE
  /\ Go(t, "loop")
  /\ UNCHANGED <<handle, epoll, listener, starts, timerVars, looping, sessionVars,
                 mainVars, streamVars, signals, mutex>>

\* Mutant: the loop is not told.
StopLoopForgotten(t) ==
  /\ stop[t] = "loop"
  /\ Go(t, "timer")
  /\ UNCHANGED <<serverVars, timerVars, looping, sessionVars, mainVars,
                 streamVars, signals, mutex>>

StopLoop(t) ==
  /\ stop[t] = "loop"
  /\ looping' = FALSE
  /\ Go(t, "timer")
  /\ UNCHANGED <<serverVars, timerVars, sessionVars, mainVars, streamVars,
                 signals, mutex>>

\* timer_fd_ is tested, its number removed and closed, and then reset; another
\* caller may come in between.  close(-1) does nothing; to close a number that
\* was closed before takes whatever is open under it now.
StopTimer(t) ==
  /\ stop[t] = "timer"
  /\ Go(t, IF timer_fd_ THEN "close" ELSE "sessions")
  /\ UNCHANGED <<serverVars, timerVars, looping, sessionVars, mainVars,
                 streamVars, signals, mutex>>

StopCloses(t) ==
  /\ stop[t] = "close"
  /\ timers' = IF timer_fd_ /\ timers > 0 THEN timers - 1 ELSE timers
  /\ stray' = (stray \/ (timer_fd_ /\ timers = 0))
  /\ Go(t, "reset")
  /\ UNCHANGED <<serverVars, timer_fd_, looping, sessionVars, mainVars,
                 streamVars, signals, mutex>>

StopResets(t) ==
  /\ stop[t] = "reset"
  /\ timer_fd_' = FALSE
  /\ Go(t, "sessions")
  /\ UNCHANGED <<serverVars, timers, stray, looping, sessionVars, mainVars,
                 streamVars, signals, mutex>>

\* Under sessions_mutex_: Close of every session, and clear.  Close ends playing
\* and closes UDP sockets; it wakes nobody who sleeps in the TCP socket.
StopSessions(t) ==
  /\ stop[t] = "sessions" /\ mutex = "free"
  /\ sessions_' = {}
  /\ playing' = playing \ sessions_
  /\ Go(t, "listener")
  /\ UNCHANGED <<serverVars, timerVars, looping, current, mainVars, streamVars,
                 signals, mutex>>

StopListener(t) ==
  /\ stop[t] = "listener"
  /\ listener' = "closed"
  /\ Go(t, "idle")
  /\ UNCHANGED <<handle, running_, epoll, starts, timerVars, looping, sessionVars,
                 mainVars, streamVars, signals, mutex>>

StopStep(t) ==
  \/ HandlerInfo(t) \/ StopCheck(t) \/ StopClear(t) \/ StopLoop(t) \/ StopTimer(t)
  \/ StopCloses(t) \/ StopResets(t) \/ StopSessions(t) \/ StopListener(t)

\* Mutant: the timer is closed whether or not Stop has done so.
DestroyClosesTimer ==
  /\ main = "out" /\ handle = "live" /\ NoStop /\ stream = "idle"
  /\ handle' = "freed"
  /\ running_' = FALSE /\ looping' = FALSE /\ epoll' = FALSE
  /\ timer_fd_' = FALSE /\ timers' = timers - 1
  /\ listener' = "closed" /\ sessions_' = {} /\ playing' = {}
  /\ UNCHANGED <<stray, current, mainVars, stopVars, streamVars, mutex, starts>>

\* rtsp_forward_destroy: ~RtspServer calls Stop, which does nothing unless
\* running_ is set; then the members go, listener and sessions with them.  The
\* timer is a plain int that only Stop closes.
Destroy ==
  /\ main = "out" /\ handle = "live" /\ NoStop /\ stream = "idle"
  /\ handle' = "freed"
  /\ running_' = FALSE /\ looping' = FALSE /\ epoll' = FALSE
  /\ timer_fd_' = (timer_fd_ /\ ~running_)
  /\ timers' = IF timer_fd_ /\ running_ THEN timers - 1 ELSE timers
  /\ listener' = "closed" /\ sessions_' = {} /\ playing' = {}
  /\ UNCHANGED <<stray, current, mainVars, stopVars, streamVars, mutex, starts>>

-----------------------------------------------------------------------------
\* The stream thread: rtsp_forward_send_rtp.

\* It and BroadcastRtp find running_ set ...
SendRtp ==
  /\ Runs("stream") /\ stream = "idle" /\ handle = "live" /\ running_
  /\ stream' = "checked"
  /\ UNCHANGED <<serverVars, timerVars, looping, sessionVars, mainVars, stopVars,
                 held, mutex>>

\* ... the snapshot is taken under sessions_mutex_ ...
StreamLocks ==
  /\ Runs("stream") /\ stream = "checked" /\ mutex = "free"
  /\ mutex' = "stream"
  /\ UNCHANGED <<serverVars, timerVars, looping, sessionVars, mainVars, stopVars,
                 streamVars>>

Snapshot ==
  /\ Runs("stream") /\ mutex = "stream"
  /\ mutex' = "free"
  /\ held' = playing \cap sessions_
  /\ stream' = "forward"
  /\ UNCHANGED <<serverVars, timerVars, looping, sessionVars, mainVars, stopVars>>

\* ... forwarded to, and dropped.
Forwarded ==
  /\ Runs("stream") /\ stream = "forward"
  /\ held' = {}
  /\ stream' = "idle"
  /\ UNCHANGED <<serverVars, timerVars, looping, sessionVars, mainVars, stopVars, mutex>>

RunStep ==
  \/ EnterLoop \/ TestLoop \/ Wait \/ MainLocks \/ Accept \/ Insert \/ Timer
  \/ CloseConnection \/ (\E s \in Session : LookUp(s)) \/ Serve

Next ==
  \/ Create \/ Start \/ EnterRun \/ RunStep \/ Wake \/ Destroy
  \/ \E t \in Stopper : CallStop(t)
  \/ \E thread \in {"main", "stream"} : HandlerBegins(thread)
  \/ \E t \in Caller : StopStep(t)
  \/ SendRtp \/ StreamLocks \/ Snapshot \/ Forwarded

\* rtsp_forward_run and rtsp_forward_stop go on once they are called: epoll_wait
\* has a timeout (kEpollWaitTimeoutMs).  A thread leaves the section of
\* sessions_mutex_ it is in, and a Stop that waits for the mutex gets it if it is
\* free again and again.  Nothing is assumed of when calls are made, nor that a
\* handler asleep in a blocking call wakes.
Fairness ==
  WF_vars(RunStep) /\ WF_vars(Snapshot) /\ \A t \in Caller : SF_vars(StopStep(t))

Spec == Init /\ [][Next]_vars /\ Fairness

-----------------------------------------------------------------------------
TypeOK ==
  /\ handle \in {"none", "live", "freed"}
  /\ running_ \in BOOLEAN /\ epoll \in BOOLEAN /\ looping \in BOOLEAN
  /\ timer_fd_ \in BOOLEAN /\ stray \in BOOLEAN
  /\ listener \in {"closed", "idle", "open"}
  /\ timers \in Nat /\ starts \in 0..MaxStarts
  /\ sessions_ \subseteq Session /\ playing \subseteq Session
  /\ held \subseteq Session /\ current \subseteq Session
  /\ main \in {"out", "enter", "loop", "wait", "dispatch", "insert", "serve",
               "asleep", "close"}
  /\ batch \subseteq Session \cup {"listener", "timer"}
  /\ stop \in [Caller -> {"idle", "info", "check", "clear", "loop", "timer",
                          "close", "reset", "sessions", "listener"}]
  /\ signals \in 0..MaxSignals
  /\ stream \in {"idle", "checked", "forward"}
  /\ mutex \in {"free", "main", "stream"}

\* No timer is lost: a destroyed server has left none open, whether its starts
\* failed or not, was never stopped, or was stopped before, by several threads
\* at once too (timer_fd_ has no guard: rtsp_server.cc:93-117, 139-145, 38-42).
TimerNotLeaked == handle = "freed" => timers = 0

\* After a Stop that the loop has taken notice of, at most the one session that
\* OnNewConnection was about to insert is left in the map, however many were
\* there, whatever the batch held and however many called Stop
\* (rtsp_server.cc:147-155, 304-310).  It is the bound on what breaks
\* StopClosesAll.
StopLeavesAtMostOne ==
  (NoStop /\ ~running_ /\ ~looping) => Cardinality(sessions_) <= 1

\* A handler waits for a mutex that the thread it has interrupted holds.
SelfLocked ==
  \E t \in {"main", "stream"} : stop[t] \in {"info", "sessions"} /\ mutex = t

\* A Stop is about to stop a loop that has passed its first statement.
StopMeetsLoop ==
  (\E t \in Caller : stop[t] = "loop") /\ main \notin {"out", "enter"}

\* A Stop ends an event loop that has passed its first statement, whatever
\* events are left in the batch, provided that handlers asleep in a blocking
\* call wake (EventLoopReturns of Connection is about those that do not), and unless it was called by a signal handler that has interrupted
\* a section of sessions_mutex_ (rtsp_server.cc:134-137, epoll_loop.cc:184-206,
\* 211-215).
StopEndsRun ==
  []<>(main # "asleep") => (StopMeetsLoop ~> (main = "out" \/ SelfLocked))

\* A Stop, and the signal handler that calls it, returns, whatever the other
\* callers, the threads and the interrupted handlers do with sessions_mutex_, and
\* even while the epoll thread sleeps in a blocking call; the one deadlock is that
\* of a handler that has interrupted a section of the mutex, and waits for itself
\* (demo/main.cc:26, 37, rtsp_server.cc:148, 479-503, 516).
StopReturns ==
  \A t \in Caller : (stop[t] # "idle") ~> (stop[t] = "idle" \/ SelfLocked)

-----------------------------------------------------------------------------
\* What the repository says of rtsp_forward_stop, where the code does something
\* else.

\* rtsp_forward_run blocks until rtsp_forward_stop is called
\* (include/rtsp_forward.h:148).
RunReturnsAfterStop == (main # "out" /\ ~running_) ~> (main = "out")

\* rtsp_forward_stop closes all sessions (include/rtsp_forward.h:138): when the
\* calls of it have returned none is left, at least not for good.
StopClosesAll == <>[]((NoStop /\ ~running_) => sessions_ = {})

\* rtsp_forward_stop may be called from any thread (README_EN.md:214): several
\* calls at once close the timer fd once (rtsp_server.cc:127-145).
TimerClosedOnce == []~stray

\* The least that follows from these three lines of the repository: in every
\* execution in which no handler sleeps for ever in a blocking call, at least one
\* of them is true.  One execution in which none is refutes each of them
\* (epoll_loop.cc:181, rtsp_server.cc:127-145, 304).
StopKeepsSomePromise ==
  []<>(main # "asleep") =>
    RunReturnsAfterStop \/ StopClosesAll \/ TimerClosedOnce

=============================================================================
