SPECIFICATION Spec
CONSTANTS
  Decoders = {d1, d2}
  Files = {"song"}
  Podcasts = {"episode"}
  Requests <- ThreeThreads
SYMMETRY DecoderSymmetry
INVARIANT TypeOK
INVARIANT FlagsBelongToSession
INVARIANT NeverWedged
INVARIANT NoGhostPlayback
INVARIANT OneSession
