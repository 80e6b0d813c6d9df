CONSTANTS
  wall = wall
  closed = closed
  g1 = g1
  g2 = g2
  g3 = g3
  page = page
  Query = {wall, closed}
  Denied = {closed}
  Listener = {g1, g2, g3, page}
  Gets = {g1, g2, g3}
  QueryOf <- MCQueryOf
  Visits <- MCVisits
  kMaxWatchStreamFailures = 1
  MaxVersion = 1
  MaxTrouble = 0
SPECIFICATION SilentSpec
CHECK_DEADLOCK FALSE
PROPERTY
  UnknownIsLeft
