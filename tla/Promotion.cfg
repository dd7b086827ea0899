SPECIFICATION Spec
CONSTANT Kinds <- AllKinds
INVARIANTS IInv NothingLost RestoreOffered ActiveFileThere OneChanger OneImport DeleteIsSafe CompletedReplaces
PROPERTIES ForeignFilesKept StopTriesToMoveBack ImplementsReplacement Settles
CHECK_DEADLOCK FALSE
