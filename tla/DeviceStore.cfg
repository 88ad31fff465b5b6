SPECIFICATION StorySpec
CONSTANTS
  me = me
  peer = peer
  none = none
  soup = soup
  dal = dal
  naan = naan
  Me = me
  None = none
  Inputs <- AllInputs
  Copies <- AllCopies
  Pages <- AllPages
  Numbers = {0, 1}
  Drops <- AllDrops
  MaxFaults = 2
  MaxCrashes = 1
INVARIANTS
  LogIsSound
  AuditChainUnbroken
  FoldsFollowLog
  DroppedStayGone
PROPERTIES
  RetriesAreRecognised
  CommittedStays
  LandedIsCommitted
