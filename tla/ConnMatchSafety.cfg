SPECIFICATION Spec
CONSTANTS
  Conns = {c1, c2, c3}
  Workers = {w1, w2}
  Devs = {d1}
  NoConn = NoConn
  NoWorker = NoWorker
  NoDev = NoDev
SYMMETRY Symmetry
INVARIANTS
  TypeOK
  PairingMutual
  InOnePipe
  WaitingClientTimed
  LoneServerCloses
PROPERTIES
  ServesOneClient
  ImplementsRendezvous
