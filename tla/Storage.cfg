SPECIFICATION Spec
INVARIANTS
  ReferencesCounted
  NamesLeadThere
  DataIsRight
  DiskIsSound
PROPERTIES
  ImplementsDirectory
  
