SPECIFICATION Spec
CONSTANTS
  People = {ana, beto, caro}
  Founder = ana
  Founding = m0
  Invitations = {i1, i2}
  Requests = {q1, q2}
  UserLimit = 2
  MaxRequests = 9
SYMMETRY Symmetry
INVARIANTS
  OneWayIn
PROPERTIES
  OwnershipPassesFromOwner
  SpentInvitationAdmitsNobody
CHECK_DEADLOCK FALSE
