SPECIFICATION Spec
CONSTANT Programs = {"exits"}
CONSTANT MaxTrace = 6
INVARIANT EveryPathReturns
CHECK_DEADLOCK FALSE
CONSTANT Builder <- StmtBody
