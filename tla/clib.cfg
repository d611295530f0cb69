\* Three threads: two race to load, two to parse, and one frees what the others
\* use; two parsers loaded at most, so some handles are never issued.
SPECIFICATION FairSpec
CONSTANTS
  Loaders = {c1, c2}
  Freers = {c1}
  Parsers = {c2, c3}
  Nobody = Nobody
  MaxHandles = 2
INVARIANTS
  TypeOK
  NoDataRace
  OneParsePerEngine
PROPERTIES
  Linearizable
  Returns
