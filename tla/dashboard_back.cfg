SPECIFICATION Spec
CONSTANTS
  h1 = h1
  h2 = h2
  hour = hour
  pin = pin
  Roster <- MCRoster
  Relative = {hour}
  Pinned = {pin}
  Group = {g1}
  Slot = {s1, s2}
  Linked <- MCLinked
  MaxEvents = 2
  CanFail = TRUE
  None = None
INVARIANT UrlIsView
