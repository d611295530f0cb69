SPECIFICATION Spec
CONSTANTS
  Val = "v"
  Prefix <- MCPrefix
  Infix <- MCInfix
  Suffix <- MCSuffix
  Ternary <- None
  Paren <- MCPlain
  PrevalActive = {"plain"}
  PrevalRequired = {}
  Separators = {}
  MinPower <- Lowest
  MaxPower = 1000
  NodeLimit = 3
  RuleLimit = 40
  MaxTokens = 7
INVARIANT TypeOK
INVARIANT TermsFit
INVARIANT SourceComplete
INVARIANT NoCircle
INVARIANT SameResult
INVARIANT PrecedenceKept
INVARIANT DanglesOnlyAtEnd
INVARIANT ParensKept
INVARIANT SizeCoversTree
INVARIANT OversizeFlagged
INVARIANT LimitFlagged
INVARIANT OwnNodesCounted
PROPERTY RootsStand
PROPERTY GrowsDownward
