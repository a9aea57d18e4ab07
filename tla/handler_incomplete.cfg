CONSTANTS
  Usages = {0, 3}
  Requests <- RequestsDef
  Replies <- RepliesDef
  MaxHops = 3
  Completions <- CompletionsDef
  MaxChunks = 1
SPECIFICATION Spec
INVARIANT AllHopsCounted
