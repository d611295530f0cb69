SPECIFICATION Spec
CONSTANTS
  Val = "v"
  Prefix <- None
  Infix <- MCLadder
  Suffix <- None
  Ternary <- MCTernary
  Paren <- None
  PrevalActive = {}
  PrevalRequired = {}
  Separators = {}
  MinPower <- Lowest
  MaxPower = 1000
  NodeLimit = 127
  RuleLimit = 40
  MaxTokens = 9
INVARIANT SameResult
