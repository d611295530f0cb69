SPECIFICATION Spec
CONSTANTS
  Val = "v"
  Prefix <- None
  Infix <- None
  Suffix <- None
  Ternary <- MCTernary
  Paren <- None
  PrevalActive = {}
  PrevalRequired = {}
  Separators = {}
  MinPower <- Lowest
  MaxPower = 1000
  NodeLimit = 127
  RuleLimit = 40
  MaxTokens = 5
INVARIANT NoCircle
