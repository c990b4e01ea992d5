SPECIFICATION Spec
CONSTANTS
    Requests = {r1, r2, r3}
    Ledgers = {l1, l2}
    Milestones = {m1, m2}
    Amounts = {1}
    None = None
SYMMETRY CallerSymmetry
INVARIANTS
    TypeOK
    OneLiveInvoicePerMilestone
    LiveRowsAgree
PROPERTIES
    ConflictsAreEarned
    KeepsThePromise
