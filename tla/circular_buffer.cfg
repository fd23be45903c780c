CONSTANTS
  Size = 2
  Thread = {t1, t2}
  Data = {c1, c2}
  NoThread = NoThread
  Unwritten = Unwritten
SPECIFICATION FairSpec
INVARIANT TypeOK
INVARIANT RingInvariant
PROPERTY Linearizable
PROPERTY LockReleased
