SPECIFICATION StorySpec
CONSTANTS
  till = till
  hub = hub
  late = late
  None = None
  Devices = {till, hub, late}
  Relays = {hub}
  Envelopes <- AllEnvelopes
  Registered = {till, hub}
  Revocable = {till}
  MaxSlot = 1
  MaxBatch = 2
INVARIANTS
  LogIntegrity
  AckedSlotsHeld
  SettledSlotsHeld
  HubSlotsAreItsOwn
  MergedNotRejected
  RefundsCapped
PROPERTIES
  ImplementsMergedLog
CHECK_DEADLOCK FALSE
