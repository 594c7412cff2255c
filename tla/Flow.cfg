SPECIFICATION Spec
CONSTANT Programs = {"functions", "graphs"}
CONSTANT MaxTrace = 5
INVARIANT MeaningKept
INVARIANT BuilderAgrees
INVARIANT ReachTrue
INVARIANT VerifiedRuns
 
CHECK_DEADLOCK FALSE
CONSTANT Builder <- StmtBody
