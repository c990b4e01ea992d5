SPECIFICATION Spec
CONSTANTS
  f1 = f1
  f2 = f2
  s1 = s1
  s2 = s2
  p1 = p1
  p2 = p2
  e1 = e1
  q1 = q1
  q2 = q2
  MaxRequests = 2
  MaxTears = 2
  MaxClock = 2
  FieldReqs = {f1, f2}
  SaleReqs = {s1, s2}
  Projects = {p1, p2}
  FixtureProjects = {p2}
  Entries = {e1}
  SignalSets <- MCSignals
  Proposals = {q1, q2}
  PassingProposals = {q1}
  ProposalProject <- MCProject
SYMMETRY MCSymmetry
CHECK_DEADLOCK FALSE
INVARIANTS
  TypeOK
  TearsAreContained
  EntryHasProject
  NoWarningUnseen
  ReviewedWasSurfaced
  ProjectionIsPast
  SentIsGated
