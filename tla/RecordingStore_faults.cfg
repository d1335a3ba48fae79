SPECIFICATION Spec
CONSTANTS
  Names = {1, 2}
  MaxEntries = 3
  MaxSize = 1
  Crashes = TRUE
INVARIANTS TypeOK CurrentIsLast LiveFilesExist NoLostRecording NoDanglingEntry DiskMatchesMemory
PROPERTY ForgetsOnlyDoomed
