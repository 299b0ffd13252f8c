CONSTANTS
  MaxRows = 9
  DEFAULT_PAGE_SIZE = 2
  MAX_PAGE_SIZE = 4
  PAGE_SIZE_CHOICES = {1, 2, 4}
  TieBroken = TRUE
  Malformed = Malformed
  Gap = Gap
  NoPage = NoPage
  NoWalk = NoWalk
  Key <- MCKey
  RawNumbers <- MCRawNumbers
  RawSizes <- MCRawSizes
SPECIFICATION Spec
INVARIANTS LinksLead WalkSeesAll
PROPERTY IndexesTell
