SPECIFICATION FairSpec
CONSTANTS
  Procs = {p1, p2}
  NoProc = NoProc
  Hosts <- MixedHosts
INVARIANTS ResultUsable NoRedundantFetch IInv
PROPERTIES ImplementsCache EnsureReturns
