SPECIFICATION FrontSpec
CONSTANTS
  Utf8Len = 4
  NulLen = 4
  LineLen = 7
  MaxFragments = 4
  LiteralLen = 4
  FailLen = 3
  Item <- Descend
  Name <- Names
  Entry <- Main
  Failures = {TRUE, FALSE}
  LoadFailures = {TRUE, FALSE}
  IntBits <- ScaledBits
  Puncts <- PunctTable
  Keywords <- KeywordTable
  EndsExpr <- TableEnds
  MinusIndex = 17
  LexFailures = {"record", "span", "ident", "bytes", "tokens"}
INVARIANTS SourceExact LiteralsExact TokensExact ParseExact SizeofResolved FaultsBlamed GraphSound VerdictExact
PROPERTIES Advances
CHECK_DEADLOCK FALSE
