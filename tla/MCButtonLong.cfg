SPECIFICATION Spec
CONSTANTS
  Debounce = 2
  ClickWindow = 4
  ClickCount = 3
  LongPress = 5
  Wrap = 64
  MaxTime = 10
PROPERTIES
  LongPressIsHeld
