SPECIFICATION FairSpec
CONSTANTS
  c1 = c1
  c2 = c2
  c3 = c3
  d1 = d1
  d2 = d2
  Callers = {c1, c2, c3}
  NoCaller = NoCaller
  Handler = Handler
  Data = {d1, d2}
  DataOf <- TwoData
INVARIANTS NoUnownedDaemon IInv
PROPERTIES StartedOnce Implements CallReturns SignalExits
