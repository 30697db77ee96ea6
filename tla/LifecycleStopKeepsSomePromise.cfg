\* Two threads that call stop, one client, and no signals.
CONSTANTS
  Session = {s1}
  Stopper = {t1, t2}
  MaxStarts = 1
  MaxSignals = 0
SPECIFICATION Spec
PROPERTY
  StopKeepsSomePromise
\* A destroyed server does nothing more.
CHECK_DEADLOCK FALSE
