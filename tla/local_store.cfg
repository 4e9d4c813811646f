SPECIFICATION Spec
CONSTANTS
  Key = {"k1", "k2"}
  NULL = NULL
INVARIANT DocumentsStorable
