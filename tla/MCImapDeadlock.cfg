SPECIFICATION FairSpec
CONSTANTS
  s1 = s1
  s2 = s2
  mta = mta
  none = none
  inbox = inbox
  trash = trash
  Sessions <- OneSession
  Mta <- mta
  Folders <- OneFolder
  None <- none
  Commands <- Reads
  Mute <- Hearing
  MaxMessages = 1
CHECK_DEADLOCK FALSE
PROPERTY FetchCompletes
