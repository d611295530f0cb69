SPECIFICATION ListSpec
CONSTANTS
  Val = "v"
  Prefix <- None
  Infix <- None
  Suffix <- None
  Ternary <- MCTernary
  Paren <- None
  PrevalActive = {}
  PrevalRequired = {}
  Separators = {","}
  Evaluators = {"values"}
  MinPower <- Lowest
  MaxPower = 1000
  NodeLimit = 127
  RuleLimit = 40
  MaxTokens = 7
INVARIANT EveryReduced
