SPECIFICATION Spec
CONSTANTS
  a = a
  b = b
  Term <- MCTerm
  Texts <- MCTexts
  Ids = {0, 1, 2, 3}
  Limits = {1, 2}
  MaxScore = 2
  TokenLimit = 3
  InitialTerms = 1
  InitialDocuments = 1
  InitialPostings = 1
INVARIANT
  NoHalfIndexed
