SPECIFICATION Spec
CONSTANTS
  Token = {0, 1}
  WarmToken = 0
  Context = 4
  Ubatch = 2
  ChunkSize = 2
  SplitSize = 3
  Sinks = 1
  Ring = TRUE
  Recurrent = FALSE
  MinPrompt = 0
  Faulty = TRUE
  MaxTokens = 7
PROPERTIES WindowKept
