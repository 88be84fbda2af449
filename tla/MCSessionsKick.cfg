SPECIFICATION Spec
CONSTANTS
  s1 = s1
  s2 = s2
  ann = ann
  bob = bob
  SessionIds <- MCSessionIds
  Users <- MCUsers
  NoName = NoName
  None = None
INVARIANTS
  KickSparesTheNew
CHECK_DEADLOCK FALSE
