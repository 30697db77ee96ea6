\* One run of the loop, with one client; a thread and a signal handler may be in
\* Stop at once.
CONSTANTS
  Session = {s1}
  Stopper = {t1}
  MaxStarts = 1
  MaxSignals = 1
SPECIFICATION Spec
INVARIANTS
  TypeOK
  TimerNotLeaked
PROPERTIES
  StopEndsRun
  StopReturns
\* A destroyed server does nothing more.
CHECK_DEADLOCK FALSE
