------------------------------ MODULE MCRtProc ------------------------------
(***************************************************************************)
(* A Stage-0 process on small inputs: its command line is split into       *)
(* arguments (RtProcSplit), and a program that was given none then reports *)
(* traps (RtTrap).                                                         *)
(***************************************************************************)
EXTENDS RtProcSplit, RtTrap

CONSTANT MaxUnits   \* bound: the units of a line

Words(alphabet, n) == UNION {[1 .. k -> alphabet] : k \in 0 .. n}

AllLines == Words(Unit, MaxUnits) \cup QuotedLines

\* Lists of one or two arguments over every byte the quoting treats apart.
SmallArguments ==
  LET args == Words({"letter", "blank", "quote", "backslash"}, 3)
  IN {<<a>> : a \in args} \cup {<<a, b>> : a \in args, b \in Words({"blank", "quote", "backslash"}, 2)}

\* All messages of up to five bytes.
SmallMessages == Words(Text, 5)

MCInit == Init /\ TrapInit

\* Which buffers the empty line was split into makes no difference to a report.
Reports == /\ phase = "done" /\ cmdline = <<>>
           /\ \A c \in SliceCaps : slices_cap <= c
           /\ \A c \in DataCaps : data_cap <= c
           /\ \A c \in UnitCaps : max_units <= c

MCNext == \/ Next /\ UNCHANGED trapVars
          \/ Reports /\ TrapNext /\ UNCHANGED vars

MCSpec == MCInit /\ [][MCNext]_<<vars, trapVars>> /\ WF_vars(Next)
=============================================================================
