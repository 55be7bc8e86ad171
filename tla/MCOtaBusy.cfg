CONSTANTS
  Images <- MCImages
  Valid <- MCValid
  MaxSize = 2
SPECIFICATION Spec
PROPERTIES BusyIsTrue
