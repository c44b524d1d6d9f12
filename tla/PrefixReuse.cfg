SPECIFICATION MCSpec
CONSTANTS
  Token = {0, 1}
  WarmToken = 0
  Context = 5
  Ubatch = 3
  ChunkSize = 2
  SplitSize = 3
  Sinks = 1
  Ring = FALSE
  Recurrent = FALSE
  MinPrompt = 0
  Faulty = FALSE
  MaxTokens = 0
  RecurrentMinPrompt = 1
INVARIANTS ReuseIsValid RecurrentReuseIsValid
PROPERTIES GeneratesFresh TokenComes
