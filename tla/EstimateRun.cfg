SPECIFICATION Spec
CONSTANTS
  r1 = r1
  r2 = r2
  t1 = t1
  t2 = t2
  cabinetry = cabinetry
  tile = tile
  Requests = {r1, r2}
  Texts = {t1, t2}
  Scopes = {cabinetry, tile}
  Bands <- MCBands
  FallbackOf <- MCFallback
  Answers <- MCAnswers
SYMMETRY MCSymmetry
INVARIANTS
  TypeOK
  TrailIsCausal
  SavedDraftHasTrail
  OpenDraftIsBacked
  ParserNeverSlips
