SPECIFICATION FairSpec
CONSTANTS
  Procs = {p1, p2}
  Tokens = {t1, t2}
  NoProc = NoProc
  None = None
  MaxGen = 3
INVARIANTS
  TypeOK
  ClientUsesLiveHeaders
  OffSticks
  NewestCommandStarts
PROPERTIES
  HeadersChangeWhileStopped
  StartsOnlyWhenEnabled
  FailedPromotionStops
  PromiseSpec
  CommandsReturn
