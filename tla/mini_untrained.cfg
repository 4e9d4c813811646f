SPECIFICATION Spec
CONSTANTS
  FloatSize = 4
  MaxTokens = 1
  MaxNew = 1
  MaxLayers = 2
  MaxDim = 4
  MaxHeads = 2
  MaxSeq = 3
  MaxTokenLen = 2
  MaxVocab = 6
INVARIANT OnlyLoadedSpeaks
CHECK_DEADLOCK FALSE
