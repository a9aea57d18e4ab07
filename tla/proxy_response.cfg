SPECIFICATION FairSpec
CONSTANTS
  Queries <- AllQueries
  Answers <- AllAnswers
  Lines <- StreamLines
  Usages <- SomeUsages
  MaxLines = 3
INVARIANTS TypeOK PassesThrough BilledOnce HeaderMatchesBill
PROPERTY StreamEnds
CHECK_DEADLOCK FALSE
