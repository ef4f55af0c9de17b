SPECIFICATION Spec
CONSTANTS
  Snapshot = {s0, s1, s2, s3}
  DefaultState = s0
  Nil = Nil
  Absent = Absent
  Torn = Torn
  AnyStrike = FALSE
INVARIANTS TypeOK Recoverable FilesFollowSaves
PROPERTY KeepsContract
