CONSTANTS
  r1 = r1
  r2 = r2
  t = t
  u = u
  Requests = {r1, r2}
  Texts = {"v", "w"}
  NoText = NoText
  Engines = {"sqlite", "postgres"}
  MaxActions = 2
  MaxOutside = 1
  Runs = {"x"}
  Callers = {"c1", "c2", "c3"}
  World = {"w0", "w1"}
  MaxResults = 2
  Clerks = {r1, r2}
  MaxRevisions = 1
  MaxEvents = 6
  Contributors = {t, u}
  Roles = {"writing"}
  Editors = {r1, r2}
  MaxOrders = 2
  MaxReviews = 3
  Packages = {t, u}
  Wordings = {"w"}
  Staff = {r1, r2}
  MaxChanges = 2
  Reviewers = {r1, r2}
  Purposes = {t, u}
  MaxReport = 1
  MaxTurns = 3
  Subjects = {t, u}
  Emails = {"e"}
  Clients = {r1, r2}
  MaxAccounts = 2
  MaxSessions = 2
  Coordinators = {r1, r2}
  PerArm = 1
  Gradings = 1
  Good = {t, u}
  Bad = {"b"}
  Sources = {r1, r2, "s"}
  Dois = {t, u}
  Provided = {"p"}
  MaxEdges = 2
  NodeLimits = {2, 3}
  Exporters = {r1, r2}
  Importers = {r1, r2}
  Works = {t, u}
  Files = {"a", "b"}
  BareFiles = {"b"}
  MaxTouches = 1
  Papers = {"p", "q"}
  Marked = {"q"}
  MaxIssues = 1
  MaxCorrections = 1
  People = {"p", "q"}
  Creator = "p"
  ApiCallers = {r1, r2}
  MaxKeys = 1
  Grantable = {1, 4}
  Formats = {"docx", "pdf"}
  Stamped = {"docx"}
  Optional = {"pdf"}
  Renders = {"x", "y"}
  Downloads = {r1, r2}
SPECIFICATION Spec
SYMMETRY Sym
INVARIANTS TypeOK SqliteEditsAsReviewed UndoRestores ComputeAsApproved
INVARIANTS HistoryExplainsStatus PresentedAuthorsConfirmed HandedOut ReviewsKept PromotedAsApproved OneAccountEach ShutOut
INVARIANTS SpawnedOnce ReceiptsAgree FollowedUp GraphSound RestoredWhole
PROPERTY Gated
CHECK_DEADLOCK FALSE
