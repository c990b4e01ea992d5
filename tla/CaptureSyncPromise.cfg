\* One capture, two overlapping chains of awaits, and one job it can go to.
SPECIFICATION FairSpec
CONSTANTS
  Tasks = {t1, t2}
  Items = {i1}
  Dests = {job}
  Jobs = {job}
  None = None
PROPERTIES
  SavedCapturesSync
