SPECIFICATION AccountsSpec
CONSTANTS
  reader_plus = reader_plus
  reviewer = reviewer
  viewer = viewer
  tab = tab
  invitation = invitation
  address = address
  call1 = call1
  call2 = call2
  conn1 = conn1
  conn2 = conn2
  NoValue = NoValue
  CustomRoles <- OneRole
  BaseRoles <- Bases
  Dialogs <- OneDialog
  Invitations <- OneInvitation
  Addresses <- OneAddress
  Calls <- TwoCalls
  Connections <- TwoConnections
  MaxRevision = 2
SYMMETRY AccountSymmetry
INVARIANTS AcceptedCanSignIn
CHECK_DEADLOCK FALSE
