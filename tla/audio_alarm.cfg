SPECIFICATION FairSpec
CONSTANTS
  Decoders = {d1, d2}
  Files = {"song"}
  Podcasts = {"episode"}
  Requests <- AlarmOnly
PROPERTY SessionPromise
PROPERTY SessionsEnd
INVARIANT AlarmUnderControl
