SPECIFICATION Spec
CONSTANTS
  Builders = {b1, b2}
  Plans = {q1, q2}
  c1 = c1
  c2 = c2
  Requests <- TwoRequests
  Answers <- TwoAnswers
  NoPlan = NoPlan
  NoChunk = NoChunk
  NoFile = NoFile
  Nobody = Nobody
  Torn = Torn
  Garbage = Garbage
SYMMETRY Renamings
CHECK_DEADLOCK FALSE
INVARIANTS
  TypeOK
  CommittedIsComplete
  NoConflictIsPublished
PROPERTY ImplementsPublication
