SPECIFICATION ListSpec
CONSTANTS
  Val = "v"
  Prefix <- MCPrefix
  Infix <- MCLadder
  Suffix <- None
  Ternary <- None
  Paren <- MCPlain
  PrevalActive = {}
  PrevalRequired = {}
  Separators = {","}
  Evaluators = {"none", "values"}
  MinPower <- Lowest
  MaxPower = 1000
  NodeLimit = 127
  RuleLimit = 40
  MaxTokens = 7
PROPERTY CollectorsKeep
INVARIANT ListSourceComplete
INVARIANT SeparatorsSeparate
INVARIANT ListsLoosest
INVARIANT ReducedWhole
INVARIANT ListReducedOnce
INVARIANT ListPrecedenceKept
