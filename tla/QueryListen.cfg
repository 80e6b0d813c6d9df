CONSTANTS
  wall = wall
  closed = closed
  g1 = g1
  g2 = g2
  g3 = g3
  page = page
  Query = {wall, closed}
  Denied = {closed}
  Listener = {g1, g2, g3, page}
  Gets = {g1, g2, g3}
  QueryOf <- MCQueryOf
  Visits <- MCVisits
  kMaxWatchStreamFailures = 1
  MaxVersion = 2
  MaxTrouble = 1
SPECIFICATION Spec
CHECK_DEADLOCK FALSE
INVARIANTS ClientInStep CountsExact WaitingHasReason QuietMeansInSync AnswersAreFresh
PROPERTIES GetCalledOnce EveryGetAnswered ListenersCatchUp
