CONSTANTS
    r1 = r1
    r2 = r2
    line1 = line1
    row1 = row1
    None = None
    Requests = {r1, r2}
    LineIds = {line1}
    RowIds = {row1}
    Cents = {1}
    Assemblies <- MCAssemblies
    MaxLines = 2
SPECIFICATION Spec
SYMMETRY CallerSymmetry
INVARIANT TypeOK
INVARIANT OpenGateMeansApproved
INVARIANT ClientSeesOnlyCompanyData
INVARIANT PolicyBlockSticks
INVARIANT OnlyUseHereGraduates
