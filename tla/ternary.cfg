SPECIFICATION Spec
CONSTANTS
  Val = "v"
  Prefix <- MCPrefix
  Infix <- MCMinus
  Suffix <- None
  Ternary <- MCTernary
  Paren <- MCPlain
  PrevalActive = {}
  PrevalRequired = {}
  Separators = {}
  MinPower <- Lowest
  MaxPower = 1000
  NodeLimit = 4
  RuleLimit = 40
  MaxTokens = 9
INVARIANT SourceComplete
INVARIANT TernaryLoosest
INVARIANT TernaryChainsRight
INVARIANT SizeCoversTree
PROPERTY OperandsWhole
