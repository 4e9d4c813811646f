SPECIFICATION LiveSpec
CONSTANTS
  MaxVariables = 3
  MaxConstraints = 2
  MaxDomain = 3
  Domains <- MCDomains
  Kinds = {0, 1, 2, 5}
  Limits = {2}
INVARIANTS TypeOK FindsExactly ReturnsAll
PROPERTIES Terminates
