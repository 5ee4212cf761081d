CONSTANTS
  None = None
  Users = {guest, admin}
  Guest = guest
  SiteAdmins = {admin}
  Requests = {r1, r2}
  Settings = {"lock", "accessOnLock", "notRequired", "changeJoinPassword", "resetMembership", "invite"}
  Tokens = {t1, t2}
  First = first
SYMMETRY Symmetry
SPECIFICATION Spec
INVARIANTS
  TypeOK
  ResetEmpties
PROPERTIES
  RevokedStaysRevoked
  
  
