SPECIFICATION Spec
CONSTANTS
  c1 = c1
  c2 = c2
  c3 = c3
  d1 = d1
  d2 = d2
  Callers = {c1, c2, c3}
  NoCaller = NoCaller
  Handler = Handler
  Data = {d1}
  DataOf <- OneData
INVARIANTS NoOrphanOnReturn
