SPECIFICATION Spec
CONSTANTS
  r1 = r1  r2 = r2  switch = switch  create = create
  Requests = {r1, r2}
  Keys = {switch, create}
  NoKey = NoKey
  WithBody = {create}
  Created = {create}
  CacheTTL = 2
  Limit = 1
  Window = 3
  MaxSkew = 1
  MaxRuns = 2
  MaxTime = 3
INVARIANTS TypeOK CachedIsCommitted RetryIsReplayed WindowBounded
CHECK_DEADLOCK FALSE
