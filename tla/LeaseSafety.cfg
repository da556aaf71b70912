\* Two processes of one host and a third elsewhere, which restarts under its old
\* owner string (a container whose application always has the same pid).
SPECIFICATION FairSpec
CONSTANTS
  p1 = p1
  p2 = p2
  p3 = p3
  h1 = h1
  h2 = h2
  NoOwner = NoOwner
  Procs = {p1, p2, p3}
  HostOf <- TwoHosts
  Ttl = 2
  MaxLag = 3
  Checkpoints = 1
  Reusable = {p3}
INVARIANTS
  FreshConfirmationOwnsLease
PROPERTIES
  LiveLeaseOnlyLostBySilence
  ImplementsExclusiveWriter
  OrphanedLeaseIsTakenOver
