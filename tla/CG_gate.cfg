\* Two rows on the runtime, two claim requests in flight, one startup
\* failure closes the breaker.
SPECIFICATION FairSpec
CONSTANTS
  None = None
  t1 = t1
  Row = {t1, t2}
  Claim = {c1, c2}
  Threshold = 1
INVARIANTS TypeOK VerdictSound CacheInv BurnInv
PROPERTIES Served
