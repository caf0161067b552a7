SPECIFICATION Safety
CONSTANTS
  MaxVersion = 2
  MaxForeign = 0
PROPERTIES
  PushedBeforeAcknowledged
