CONSTANTS
    Requests = {r1, r2}
    Estimates = {e1, e2}
    Projects = {p1, p2}
    None = None
    Absent = Absent
    Lead = Lead
    Design = Design
    Cold = Cold
SPECIFICATION Spec
SYMMETRY CallerSymmetry
INVARIANT OneProjectPerLead
