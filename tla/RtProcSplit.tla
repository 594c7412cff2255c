----------------------------- MODULE RtProcSplit -----------------------------
(***************************************************************************)
(* What the command-line parser computes: the split of a line as its       *)
(* documentation (rt_proc.h, "Command-line parsing notes") puts it, and    *)
(* the quoting whose inverse it is.                                        *)
(***************************************************************************)
EXTENDS RtProc, SequencesExt

CONSTANT Arguments     \* the argument lists to be quoted

\* What an argument that is to be quoted is made of.
Plain == {"letter", "blank", "quote", "backslash"}

ASSUME RtProcSplitAssumption == Arguments \subseteq Seq(Seq(Plain))

\* How many backslashes s has from k on.
LeadingRun(s, k) ==
  CHOOSE n \in 0 .. Len(s) :
    /\ \A j \in k .. k + n - 1 : j \in DOMAIN s /\ s[j] = "backslash"
    /\ k + n \in DOMAIN s => s[k + n] # "backslash"

-----------------------------------------------------------------------------
(* The split.  Where a blank separates no arguments a line goes on with a  *)
(* piece: units that stand for bytes, and after which a region is quoted   *)
(* or not.                                                                 *)

Piece(bytes, units, quoted) == [bytes |-> bytes, units |-> units, quoted |-> quoted]

TwoAt(line, k, first, second) ==
  k + 1 \in DOMAIN line /\ line[k] = first /\ line[k + 1] = second

\* Backslashes are literal unless a quote follows them.
RunPiece(n, beforeQuote, quoted) ==
  IF ~ beforeQuote THEN Piece(Backslashes(n), n, quoted)
  ELSE IF n % 2 = 0 THEN Piece(Backslashes(n \div 2), n + 1, ~ quoted)
  ELSE Piece(Backslashes(n \div 2) \o <<"quote">>, n + 1, quoted)

PieceAt(line, k, quoted) ==
  LET n == LeadingRun(line, k)
  IN IF n > 0 THEN RunPiece(n, k + n \in DOMAIN line /\ line[k + n] = "quote", quoted)
     ELSE IF quoted /\ TwoAt(line, k, "quote", "quote") THEN Piece(<<"quote">>, 2, quoted)
     ELSE IF line[k] = "quote" THEN Piece(<<>>, 1, ~ quoted)
     ELSE IF TwoAt(line, k, "high", "low") THEN Piece(Pair, 2, quoted)
     ELSE Piece(IF line[k] \in {"high", "low"} THEN Replacement ELSE <<line[k]>>, 1, quoted)

\* Bytes before the first of some arguments.
Before(bytes, args) == <<bytes \o Head(args)>> \o Tail(args)

\* Between arguments, in one, or in a quoted region of one.
Places == {"gap", "plain", "quoted"}
Ended(place) == IF place = "gap" THEN <<>> ELSE << <<>> >>

\* The arguments of the line from k on, in terms of those further on; unless k is
\* in a gap, the first of them is what is left of the one at k.
ArgsAt(line, further, k) ==
  [place \in Places |->
     IF k = Len(line) + 1 THEN Ended(place)
     ELSE IF line[k] = "blank" /\ place # "quoted"
       THEN Ended(place) \o further[k + 1]["gap"]
       ELSE LET p == PieceAt(line, k, place = "quoted")
            IN Before(p.bytes, further[k + p.units][IF p.quoted THEN "quoted" ELSE "plain"])]

From(line) == LET F[k \in 1 .. Len(line) + 1] == ArgsAt(line, F, k) IN F

Split(line) == From(line)[1]["gap"]

\* What the parser has produced so far.
Result == [k \in DOMAIN slices |->
             SubSeq(data, slices[k].off + 1, slices[k].off + slices[k].len)]

\* A parse that reaches the end of the line with a slot for every argument
\* answers the split the documentation describes; one that stops at a bound
\* answers the first arguments of it, complete ones only.  rt_proc.h derives
\* RT_PROC_MAX_ARGS = floor((units + 1) / 2) and RT_PROC_DATA_CAPACITY =
\* 3 * units: with these no line within the unit bound is cut short.
SplitAsDocumented ==
  phase # "parsing" =>
    LET split == Split(cmdline)
    IN /\ IsPrefix(Result, split)
       /\ \/ phase = "done" /\ Len(split) <= slices_cap
          \/ /\ Len(cmdline) <= max_units
             /\ slices_cap >= (max_units + 1) \div 2
             /\ data_cap >= 3 * max_units
          => phase = "done" /\ Result = split

-----------------------------------------------------------------------------
(* Quoting: the inverse of the split                                       *)

\* A byte sequence without surrogates as units: a run of backslashes is
\* doubled before a quote and at the end, a quote gets a backslash.
EscapedAt(arg, further, k) ==
  LET n == LeadingRun(arg, k)
  IN IF k + n = Len(arg) + 1 THEN Backslashes(2 * n)
     ELSE (IF arg[k + n] = "quote" THEN Backslashes(2 * n + 1) ELSE Backslashes(n))
            \o <<arg[k + n]>> \o further[k + n + 1]

Escaped(arg) == LET E[k \in 1 .. Len(arg) + 1] == EscapedAt(arg, E, k) IN E

Quoted(arg) == <<"quote">> \o Escaped(arg)[1] \o <<"quote">>

\* The arguments from the k-th on, with a blank between two of them.
JoinedAt(args, further, k) ==
  IF k = Len(args) + 1 THEN <<>>
  ELSE Quoted(args[k]) \o (IF k = Len(args) THEN <<>> ELSE <<"blank">> \o further[k + 1])

Joined(args) == LET J[k \in 1 .. Len(args) + 1] == JoinedAt(args, J, k) IN J

JoinQuoted(args) == Joined(args)[1]

QuotedLines == {JoinQuoted(args) : args \in Arguments}

\* Every argument list survives quoting and splitting, empty arguments, blanks,
\* quotes and trailing backslashes included: the arguments a quoted line is
\* split into are those that were quoted.
RoundTrip ==
  phase = "done" /\ cmdline \in QuotedLines => JoinQuoted(Result) = cmdline

\* The split is the one that is documented, and the inverse of the quoting.
SplitExact == SplitAsDocumented /\ RoundTrip
=============================================================================
