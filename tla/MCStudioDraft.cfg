SPECIFICATION DraftSpec
CONSTANTS
  Texts = {a, b, z}
  Broken = {z}
  NoText = NoText
  MaxLate = 1
CHECK_DEADLOCK FALSE
INVARIANTS StudioSound
PROPERTIES NoSilentOverwrite AutosaveTries
