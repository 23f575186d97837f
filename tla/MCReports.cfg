CONSTANTS
  Users = {"admin", "ann", "bob"}
  Tokens = {t1, t2}
  Handlers = {h1, h2}
  AdminName = "ann"
  Outcomes <- MCOutcomes
  Uploads <- MCUploads
  Ids = {i, j}
  MaxRuns = 2
  None = None
SPECIFICATION Spec
INVARIANTS AdminRemains ReportIsComplete OthersSeeThePublished
SYMMETRY MCSymmetry
CONSTRAINTS UsersFirst NoBuiltIn
