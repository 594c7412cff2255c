SPECIFICATION Spec
INVARIANT ResultExact
INVARIANT TrapBlamed
INVARIANT ConventionKept
INVARIANT TestReadsCond
CHECK_DEADLOCK FALSE
CONSTANT Programs = "sound"
CONSTANT CodeGenerator <- Compile
CONSTANT Interpreter <- IrRun
