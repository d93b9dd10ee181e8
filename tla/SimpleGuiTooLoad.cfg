CONSTANTS
  MaxPages = 4
  Momentary = {3}
  Labels <- MCLabels
SPECIFICATION GuiTooSpec
PROPERTY SavedIsLoaded
