SPECIFICATION Spec
CONSTANTS
  Conns = {c1, c2}
  Workers = {w1, w2}
  Devs = {d1}
  NoConn = NoConn
  NoWorker = NoWorker
  NoDev = NoDev
INVARIANTS
  NoPairedTimer
