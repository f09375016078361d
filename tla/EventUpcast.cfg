SPECIFICATION EventsSpec
CONSTANTS
  EventFields = {channel}
  EventValues = {zero, one}
  UpcastValues = {zero, one}
  Zero = zero
  Missing = Missing
  NoDefault = NoDefault
  FailsToDecode = FailsToDecode
  MaxReleases = 3
  MaxWritten = 1
INVARIANT OldEventsAreUpcast
CHECK_DEADLOCK FALSE
