SPECIFICATION Spec
CONSTANTS
  None = None
  Local = Local
  MaxSent = 3
  Asked <- AskedZones
  ServerZones <- KnownToServer
  RZones <- KnownToR
  ServerZone = "UTC"
INVARIANT ConnectIsWhole
PROPERTY RefinesMailbox
PROPERTY Heard
CHECK_DEADLOCK FALSE
