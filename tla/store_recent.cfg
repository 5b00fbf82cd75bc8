SPECIFICATION FairSpec
CONSTANTS
  Ids = {b1, b2, b3, b4}
  Capacity = 2
  Payloads = {p1, p2}
  NoPayload = NoPayload
  MaxRestarts = 1
INVARIANTS
  TypeOK
  IndexMatchesRecords
PROPERTIES
  KeepsTheMostRecent
  RunsEnd
CHECK_DEADLOCK FALSE
