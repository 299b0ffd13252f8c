\* Two requests at a time, or a form and the requests around it.
CONSTANTS
  Depts = {d1, d2}
  Accounts = {u1}
  Names = {"Seo", "SEO"}
  Folded <- MCFolded
  Codes = {"SE", "se", "AD"}
  Upper <- MCUpper
  Threads = {t1, t2}
  Settings <- MCSettings
  Blank = ""
  FormNames = {"", "Seo"}
  FormCodes = {"se"}
  NoRow = NoRow
  Removed = Removed
  NoDept = NoDept
  Absent = Absent
  NoForm = NoForm
  NoThread = NoThread
SPECIFICATION FormSpec
CHECK_DEADLOCK FALSE
SYMMETRY Symmetry
INVARIANTS TypeOK MembersExist NoTwins VerdictsSettle
PROPERTY DeletionHolds
