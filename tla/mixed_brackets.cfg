SPECIFICATION Spec
CONSTANTS
  Val = "v"
  Prefix <- MCPrefix
  Infix <- None
  Suffix <- MCSuffix
  Ternary <- None
  Paren <- MCParens
  PrevalActive = {}
  PrevalRequired = {}
  Separators = {}
  MinPower <- Lowest
  MaxPower = 1000
  NodeLimit = 3
  RuleLimit = 40
  MaxTokens = 8
INVARIANT OversizeFlagged
