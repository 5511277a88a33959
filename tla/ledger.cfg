SPECIFICATION FairSpec
CONSTANTS
  o1 = o1
  o2 = o2
  Orders = {o1}
  Lots <- MCLots
  LookupsFail = FALSE
  ForeignLots <- MCForeignLots
  MaxMishaps = 1
INVARIANTS
    LedgerTrue
PROPERTIES
    PositionConverges
    OrdersSettle
