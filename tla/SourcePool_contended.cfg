\* More threads than pool slots.  No symmetry: BorrowEnds is a liveness property.
CONSTANTS
  Threads = {t1, t2, t3}
  Conns = {c1, c2, c3, c4}
  MAX_POOLED <- MCMaxPooled
  NoConn = NoConn
SPECIFICATION Spec
INVARIANTS TypeOK OneOwner NoLeakedSocket ConnectionsBounded
PROPERTIES BorrowedAlive BorrowEnds
