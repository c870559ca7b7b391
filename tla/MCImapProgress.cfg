SPECIFICATION FairSpec
CONSTANTS
  s1 = s1
  s2 = s2
  mta = mta
  none = none
  inbox = inbox
  trash = trash
  Sessions <- TwoSessions
  Mta <- mta
  Folders <- OneFolder
  None <- none
  Commands <- Roles
  Mute <- Deaf
  MaxMessages = 1
CHECK_DEADLOCK FALSE
PROPERTY PublicationEnds
