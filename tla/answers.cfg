CONSTANTS
  d1 = d1
  d2 = d2
  Documents <- TwoDocuments
  Corpora <- SomeCorpora
  Questions <- SomeQuestions
  ChunkSize = 7
  ChunkOverlap = 3
  TopK = 2
  MaxContext = 22
  RetryChars = 12
  RetryTokens = 4
  HardMax = 6
  Label = 2
  Preamble = 2
  Instructions = 3
  Marker = 1
  MaxPieces = 2
SPECIFICATION FairSpec
INVARIANTS
  ChunksCoverThePages
  ChunksAreBounded
  StreamIsWellFormed
  BestSourcesAreShown
  AnswersAreGrounded
PROPERTIES
  EveryStreamEnds
