\* handleSignals races with the end of App.Run; one of three functions may
\* hang, all may fail.
SPECIFICATION FairSpec
CONSTANTS
  f1 = f1
  f2 = f2
  f3 = f3
  signals = signals
  appRun = appRun
  Funcs = {f1, f2, f3}
  Hangs = {f3}
  Handlers = {signals}
  Plain = {appRun}
  Nobody = Nobody
  Nil = Nil
  CtxError = CtxError
INVARIANTS
  TypeOK
  WaitMeansClosed
  NilMeansDone
  FirstErrorIsReturned
PROPERTIES
  NobodyStaysBlocked
  ShutdownEnds
  ImplementsShutdown
CHECK_DEADLOCK FALSE
