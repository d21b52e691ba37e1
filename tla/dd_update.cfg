SPECIFICATION FairSpec
CONSTANTS
  a = a
  b = b
  v1 = v1
  v2 = v2
  v3 = v3
  A = A
  B = B
  C = C
  X = X
  NoFile = NoFile
  NoVersion = NoVersion
  Zero = Zero
  Junk = Junk
  Files = {a, b}
  Chunks = {A, B, C, X}
  Hashed = {a, b}
  Versions = {v1, v2, v3}
  Manifest <- Update
  Gid <- UpdateGids
  Moves <- Fork
  Patient = TRUE
  Troubles = {"failures", "changes"}
  LateChanges = FALSE
  MaxRuns = 5
INVARIANT BelievedIsTrue
PROPERTIES Faithful 
CHECK_DEADLOCK FALSE
