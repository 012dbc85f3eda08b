SPECIFICATION MCSpec
CONSTANTS
  f = f
  g = g
  by = by
  Fields = {f, g, by}
  Provenance = {by}
  Answers = {a, b}
  Me = Me
  Office = Office
  Absent = Absent
  NoDoc = NoDoc
  None = None
  MaxEdits = 2
  MaxOffice = 1
  MaxLost = 1
  d1 = d1
  d2 = d2
  q1 = q1
  q2 = q2
  NoticeDoc = {d1, d2}
  NoticeField = {q1, q2}
  Rows <- NoticeRows
  Blank = Blank
  KindsOf <- NoticeKinds
  MAX_GROUPS = 1
  COLLAPSE_MAX_ROWS_PER_GROUP = 1
  MaxClashes = 3
  u1 = u1
  u2 = u2
  c1 = c1
  x1 = x1
  x2 = x2
  Crew = {u1, u2}
  Checklist = {c1}
  FieldSet <- FieldSets
  SyncRow <- ServerRows
  Draft = Draft
  MaxVisits = 2
  MaxReloads = 1
  MaxFails = 1
  MaxWrites = 2
  t1 = t1
  Templates = {t1}
  ca = ca
  cb = cb
  Picks = {ca, cb}
  Unanswered = Unanswered
  MaxPresses = 2
  MaxBreaks = 1
  CodeRows = {1, 2}
  PolicyRows = {3}
  ExpiresAt <- CodesExpire
  CODES_WINDOW = 1
  Skews <- ClocksAhead
  BatchSize = 1
  MaxTime = 1
  MaxTransactions = 2
  MaxMishaps = 1
  ga = ga
  gb = gb
  va = va
  vb = vb
  Goods = {ga, gb}
  Vendors = {va, vb}
  VendorOf <- Sold
  Nothing = Nothing
  LastWeek = 3
  MaxSaves = 1
  MaxUnlocks = 1
  MaxAtOnce = 2
  r1 = r1
  r2 = r2
  RowId = {r1, r2}
  NoRow = NoRow
  Deleted = Deleted
  Nobody = Nobody
INVARIANTS
  TypesOK
  EditAccounted
  RestoringHasWriter
  RegistryAgrees
  ScopePulledWhole
  QueuedAnswerKept
  LaterQueuedPressWins
  KeysetSkipsNothing
  LatestIsDraft
  ActiveTogetherOverlapped
  DoneListIsClosed
PROPERTIES
  UncontestedSurvives
  MergeConverges
  RetryReopens
  OpenedIsRead
  PullEnds
  PolicyRecovers
  DiscardStands
  OperatorsWorkKept
CHECK_DEADLOCK FALSE
