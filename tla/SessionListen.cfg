SPECIFICATION LiveSpec
CONSTANTS
  Mishaps = {}
  MaxSends = 2
PROPERTIES
  ListensAgain
CHECK_DEADLOCK FALSE
