SPECIFICATION FairSpec
CONSTANTS
  r1 = r1  r2 = r2
  c1 = c1  c2 = c2  u1 = u1  u2 = u2  m1 = m1  m2 = m2
  None = None
  Requests = {r1, r2}
  Conversations = {c1, c2}
  Users = {u1, u2}
  Models = {m1, m2}
  Owner <- MCOwner
  Asks <- MCAsks
  Configured = {0, 2}
INVARIANTS WorkHoldsSlot AnswerFollowsQuestion AnswerFromItsModel DeletedStaysEmpty
PROPERTIES StopIsFinal SlotReturned
CHECK_DEADLOCK FALSE
