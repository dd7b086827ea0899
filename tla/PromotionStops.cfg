SPECIFICATION Spec
CONSTANT Kinds <- AllKinds
PROPERTY EveryStopTriesToMoveBack
CHECK_DEADLOCK FALSE
