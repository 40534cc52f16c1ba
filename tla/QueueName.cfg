CONSTANTS
  Pools = {p1, p2, p3, p4}
  Queues = {q1, q2, q3, q4, q5}
  Nothing = Nothing
  Dies = TRUE
SPECIFICATION NameSpec
INVARIANTS SharingIsNoticed NameHasReason
CHECK_DEADLOCK FALSE
