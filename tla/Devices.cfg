SPECIFICATION Spec
CONSTANT NULL = NULL
INVARIANTS
  
  ControllerRight
  
  
PROPERTIES
  
  StartupEnds
CHECK_DEADLOCK FALSE
