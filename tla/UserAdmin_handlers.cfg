\* One request at a time, every handler; and two at a time that save whole instances.
CONSTANTS
  root = root
  ann = ann
  bob = bob
  Users = {root, ann, bob}
  Root = root
  Role = {USER, SUPER_ADMIN}
  SUPER_ADMIN = SUPER_ADMIN
  Threads = {t1, t2}
  Browsers = {b1, b2}
  Emails = {e1, e2, e3}
  Settings <- MCSettings
  MaxPwd = 2
  Faults = FALSE
  Absent = Absent
  NoEmail = NoEmail
  NoSession = NoSession
  NoUser = NoUser
  NoRole = NoRole
  NoBrowser = NoBrowser
SPECIFICATION Spec
SYMMETRY Symmetry
CHECK_DEADLOCK FALSE
INVARIANTS TypeOK SuperAdminRemains TrailShowsRole RoleWasGranted
PROPERTIES DeletedIsFinal GrantedByAnotherAdmin KeepsTheBook
