SPECIFICATION Spec
CONSTANTS
  MaxVersion = 1
  MaxForeign = 0
PROPERTIES
  IngestionSettles
