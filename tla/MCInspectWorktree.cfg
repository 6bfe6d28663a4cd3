CONSTANTS
  r1 = r1
  r2 = r2
  main1 = main1
  link1 = link1
  main2 = main2
  b1 = b1
  c1 = c1
  c2 = c2
  Admins = {main1, link1, main2}
  Repos = {r1, r2}
  Owner <- MCOwner
  Main <- MCMain
  Branches = {b1}
  Commits = {c1, c2}
  Detached = Detached
  Listings <- MCListings
  MaxChanges = 2
  None = None
SPECIFICATION Spec
INVARIANTS KnownIsOfRegistered HashesVouch IndexStaysUnread
CHECK_DEADLOCK FALSE
