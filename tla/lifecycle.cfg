SPECIFICATION FairSpec
CONSTANTS
  Monitors = {t1, t2}
  Medias = {u1, u2}
  Fds <- SixFds
  NoFd = NoFd
  MaxFailures = 2
  MaxLosses = 2
INVARIANTS Attended HoldsTtys DescriptorBound
PROPERTIES Reconnected StoppedLeave
