SPECIFICATION Spec
CONSTANTS
  p1 = p1 p2 = p2 p3 = p3
  f1 = f1 f2 = f2 f3 = f3
  v1 = v1 v2 = v2
  Empty = Empty Garbled = Garbled NoFile = NoFile Nobody = Nobody
  Setter = {p1, p2}
  Deleter = {p2}
  Getter = {p3}
  Inode <- Files
  Val <- Values
  Persist = TRUE
SYMMETRY Symmetry
VIEW Observable
INVARIANTS StoredIsAllowed GetIsAllowed
PROPERTY WritesUnderLock
