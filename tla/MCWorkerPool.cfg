CONSTANTS
  Worker = {w1, w2, w3}
  Mailbox = {t1, t2, t3, t4}
  Idle = Idle
SPECIFICATION FairSpec
INVARIANT TypeOK
INVARIANT BusyIsHolding
INVARIANT EachTaskInOnePlace
INVARIANT QuietMeansCollected
PROPERTY ImplementsTaskPool
PROPERTY EveryTaskComesBack
\* The system stops when a worker has ended the process.
CHECK_DEADLOCK FALSE
