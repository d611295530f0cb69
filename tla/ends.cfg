SPECIFICATION FairListSpec
CONSTANTS
  Val = "v"
  Prefix <- MCPrefix
  Infix <- MCLadder
  Suffix <- MCSuffix
  Ternary <- MCTernary
  Paren <- MCPlain
  PrevalActive = {}
  PrevalRequired = {}
  Separators = {","}
  Evaluators = {"none"}
  MinPower <- Lowest
  MaxPower = 1000
  NodeLimit = 3
  RuleLimit = 3
  MaxTokens = 4
PROPERTY Ends
