SPECIFICATION Spec
CONSTANTS
  Decoders = {d1, d2}
  Files = {"song"}
  Podcasts = {"episode"}
  Requests <- AlarmAndTouch
INVARIANT AlarmUnderControl
