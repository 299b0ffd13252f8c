\* One browser, nobody else.
CONSTANTS
  Depts = {d1}
  Accounts = {u1}
  Names = {"Seo", "SEO"}
  Folded <- MCFolded
  Codes = {"SE", "se", "AD"}
  Upper <- MCUpper
  Threads = {t1}
  Settings <- MCAlone
  Blank = ""
  FormNames = {"", "Seo"}
  FormCodes = {"se"}
  NoRow = NoRow
  Removed = Removed
  NoDept = NoDept
  Absent = Absent
  NoForm = NoForm
  NoThread = NoThread
SPECIFICATION FormSpec
CHECK_DEADLOCK FALSE
INVARIANT RefusalShown
