SPECIFICATION FixtureSpec
CONSTANTS
  Val = "v"
  Prefix <- FxPrefix
  Infix <- FxInfix
  Suffix <- FxSuffix
  Ternary <- FxTernary
  Paren <- FxParen
  PrevalActive = {"call", "index", "angle"}
  PrevalRequired = {"index"}
  Separators = {","}
  Evaluators = {"none", "values"}
  MinPower <- Lowest
  MaxPower = 1000
  NodeLimit = 127
  RuleLimit = 1024
  MaxTokens = 30
INVARIANTS
  FixturesMatch
