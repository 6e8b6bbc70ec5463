SPECIFICATION Spec
CONSTANTS
  Key <- DeviceKeys
  Name <- DeviceNames
  Value <- DeviceValues
  Levels <- DeviceLevels
  Opaque = {}
  None = None
  Gone = Gone
  Devices <- MCDevices
  Selections <- MCSelections
INVARIANTS
  OwnValuesGone
