SPECIFICATION Spec
CONSTANTS
  Procs = {p, q}
  Ids = {pkg1, pkg2}
  NoId = NoId
  Absent = Absent
  Idle = Idle
  Surfaces <- MCSurfaces
  MaxDay = 1
  MaxApprovals = 2
SYMMETRY MCSymmetry
INVARIANT TypeOK
INVARIANT AllowedWasApproved
PROPERTY ApprovalSettles
