SPECIFICATION LiveSpec
CONSTANTS
  MaxVariables = 2
  MaxConstraints = 1
  MaxDomain = 3
  Domains <- MCDomains
  Kinds = {0, 2}
  Limits = {1, 2}
PROPERTIES KeepsFirstSolution
