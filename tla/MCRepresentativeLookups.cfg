SPECIFICATION LookupSpec
CONSTANTS
  s1 = s1
  s2 = s2
  s3 = s3
  c1 = c1
  c2 = c2
  NoSlug = NoSlug
  Slug <- MCSlug
  Client <- MCClient
  Requests = 5
  MaxRequests = 2
  LookupBuckets = 1
  LookupWindow = 2
  MaxEntries = 2
  Ttl = 3
  LastTick = 3
SYMMETRY MCSymmetry
INVARIANTS LookupTypeOK LookupsAreShared VolumeIsLimited
PROPERTIES AnswersAreFresh LeastRecentlyUsedGoes
CHECK_DEADLOCK FALSE
