\* Parses on one thread, three deep, with and without a guard, on an arena of
\* four nodes: an expression passes the limit with its third.
SPECIFICATION Spec
CONSTANTS
  NodeLimit = 2
  MaxDepth = 3
  MaxNodes = 4
INVARIANTS
  TypeOK
  ActiveCounts
  FreshUsable
  NeverCaptured
  NothingLeaks
  OwnLimitAlone
PROPERTIES
  ScopesHeld
