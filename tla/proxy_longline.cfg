SPECIFICATION Spec
CONSTANTS
  Queries <- StreamQueries
  Answers <- Streams
  Lines <- StreamLines
  Usages <- SomeUsages
  MaxLines = 2
INVARIANT WholeStream
CHECK_DEADLOCK FALSE
