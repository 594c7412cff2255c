SPECIFICATION Spec
CONSTANT Programs = "stores"
INVARIANT ElementsKept
CHECK_DEADLOCK FALSE
CONSTANT CodeGenerator <- Compile
CONSTANT Interpreter <- IrRun
