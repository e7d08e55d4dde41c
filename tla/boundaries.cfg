SPECIFICATION Spec
CONSTANTS
  Char <- MCChar
  Bodies <- MCBodies
  Tags <- MCTags
  Strs <- MCStrs
  Limits = {0, 1, 5, 6, 7}
  ByteOf <- MCByteOf
  Requests <- MCRequests
  Keys <- MCKeys
  Trees <- MCTrees
  HeadBytes = 4
  MaxBytes = 9
  Deadline = 5
  ReadTimeout = 2
  Buffer = 3
  Word = 32
  Lengths = {0, 3, 20, 30}
CHECK_DEADLOCK FALSE
INVARIANTS
    TextReadsBack
    TruncatedWell
    AnalysisExact
    RequestReadWell
