SPECIFICATION AdministrationSpec
CONSTANTS
  a1 = a1
  a2 = a2
  b1 = b1
  b2 = b2
  c1 = c1
  c2 = c2
  one = one
  other = other
  NoValue = NoValue
  NoCategory = NoCategory
  NoName = NoName
  NoElement = NoElement
  NoCard = NoCard
  NoNotice = NoNotice
  CustomRoles <- One
  BaseRoles <- Cs
  Dialogs <- One
  Invitations <- One
  Addresses <- One
  Calls <- As
  Connections <- Bs
  MaxRevision = 2
  Categories <- AsBs
  Uploads <- One
  TopFloor = 2
  Names <- AsBs
  Elements <- Both
  Links <- Pair
  Values <- As
  Admins <- Bs
  Proposals <- Cs
  Nodes <- Both
  Edges <- Pair
  Facts <- As
  PassLimit = 1
  Notices <- As
  People <- One
  Mailers <- Bs
  MaxAttempts = 2
  MaxLost = 1
SYMMETRY Symmetry
INVARIANTS AdministrationTypeOK RolesAreWhole WholeWhenAlone TreeStaysWhole MergesAreOneLevel CardsAreCurrent MailsAreAccountedFor
PROPERTIES DocumentsKeepTheirReaders HistoryExplainsModel
CHECK_DEADLOCK FALSE
