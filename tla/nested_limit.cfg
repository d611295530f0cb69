\* A parse that runs inside another, and an expression over the limit.
SPECIFICATION Spec
CONSTANTS
  NodeLimit = 2
  MaxDepth = 2
  MaxNodes = 4
INVARIANTS
  OversizeNotForgotten
