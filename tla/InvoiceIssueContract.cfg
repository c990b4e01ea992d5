SPECIFICATION IssueSpec
CONSTANTS
    Requests = {r1, r2}
    Estimates = {e1}
    Totals = {5, 30}
    Amounts <- MCAmounts
    DownCap = 2
    Ledgers <- MCLedgers
    Milestones <- MCLedgers
    None = None
SYMMETRY CallerSymmetry
PROPERTY
    NoBillingPastTheContract
