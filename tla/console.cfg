SPECIFICATION FairSpec
CONSTANTS
  Tabs = {t1, t2}
  Names = {n1, n2}
  Variants = {v1, v2}
  Aliases = {a1}
  PostCodes = {1}
  MaxEvents = 3
  NoAlias = NoAlias
INVARIANTS
  TypeOK
  TableTrue
  NamesUnlessOverlap
  AliasUnlessOverlap
PROPERTY
  FormsSettle
CHECK_DEADLOCK FALSE
