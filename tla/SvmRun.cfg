\* The machine alone, on images nobody compiled.
SPECIFICATION RunSpec
CONSTANTS
  Natives <- MCNatives
  Images <- MCImages
INVARIANTS
  SvmTypeOK
  FetchesInFooter
PROPERTIES
  Forward
  RunTerminates
