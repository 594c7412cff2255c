------------------------------- MODULE RtProc -------------------------------
(***************************************************************************)
(* rt.proc.args of the Stage-0 runtime (bootstrap/runtime/rt_proc): the    *)
(* split of the UTF-16 command line into UTF-8 arguments, one iteration of *)
(* rt_proc_parse_cmdline's loop per action.                                *)
(*                                                                         *)
(* A code unit is a letter, a blank, a quote, a backslash or half of a     *)
(* surrogate pair; the bytes of the argument data are named rather than    *)
(* numbered.  The caller's buffers, and the unit bound, are part of the    *)
(* input, since the tests call the parser with smaller ones.               *)
(***************************************************************************)
EXTENDS Integers, Sequences

CONSTANTS Lines,      \* the command lines considered
          SliceCaps, DataCaps, UnitCaps  \* the bounds the parser is given

Unit == {"letter", "blank", "quote", "backslash", "high", "low"}

ASSUME RtProcAssumption ==
  /\ Lines \subseteq Seq(Unit)
  /\ SliceCaps \subseteq Nat /\ DataCaps \subseteq Nat /\ UnitCaps \subseteq Nat

VARIABLES cmdline, slices_cap, data_cap,
          max_units,    \* RT_PROC_MAX_COMMAND_UNITS
          i,            \* the next unit, from 1
          unit_count,
          slices,       \* the arguments so far: where they start and their length
          data,         \* the bytes written
          cur_off, cur_len, in_quotes, arg_open,
          phase         \* parsing; done: end of the line; stopped: at a bound

inputs == <<cmdline, slices_cap, data_cap, max_units>>
current == <<cur_off, cur_len, in_quotes, arg_open>>
vars == <<inputs, i, unit_count, slices, data, current, phase>>

NUL  == "NUL"
At(k) == IF k \in DOMAIN cmdline THEN cmdline[k] ELSE NUL

Replacement == <<"EF", "BF", "BD">>          \* U+FFFD
Pair        == <<"F0", "90", "80", "80">>    \* a code point beyond the BMP
Byte == {"letter", "blank", "quote", "backslash", "EF", "BF", "BD", "F0", "90", "80"}

\* rt_proc_append_arg_unit: the bytes for the unit at k, and the units used up.
Encoded(k) ==
  IF At(k) = "high" /\ At(k + 1) = "low" THEN [bytes |-> Pair, units |-> 2]
  ELSE IF At(k) \in {"high", "low"} THEN [bytes |-> Replacement, units |-> 1]
  ELSE [bytes |-> <<At(k)>>, units |-> 1]

\* The length of the run of backslashes at k.
Run(k) == CHOOSE n \in 1 .. Len(cmdline) :
            /\ \A j \in k .. k + n - 1 : At(j) = "backslash"
            /\ At(k + n) # "backslash"

Backslashes(n) == [j \in 1 .. n |-> "backslash"]

-----------------------------------------------------------------------------
\* One more iteration: a unit is left and the unit bound is not reached.
Iterates == /\ phase = "parsing" /\ At(i) # NUL
            /\ unit_count < max_units
            /\ unit_count' = unit_count + 1

Gap == ~ in_quotes /\ At(i) = "blank"

\* The unit at i belongs to an argument; a new one needs a slot and a byte.
InArgument == /\ Iterates /\ ~ Gap
              /\ arg_open \/ (Len(slices) < slices_cap /\ Len(data) < data_cap)

\* The argument, opened if none was, gets bytes; units units are used up.
Take(bytes, units, quotes) ==
  /\ data' = data \o bytes
  /\ i' = i + units
  /\ cur_off' = IF arg_open THEN cur_off ELSE Len(data)
  /\ cur_len' = (IF arg_open THEN cur_len ELSE 0) + Len(bytes)
  /\ in_quotes' = quotes /\ arg_open' = TRUE
  /\ UNCHANGED <<inputs, slices, phase>>

Bug_StopContinues == UNCHANGED <<inputs, i, slices, data, current, phase>>

\* The loop is left at a bound: the argument being accumulated is dropped (its
\* locals are dead, the call returns arg_index).
Stop == /\ phase' = "stopped"
        /\ UNCHANGED <<inputs, i, slices, data, current>>

Fits(bytes) == Len(data) + Len(bytes) <= data_cap

-----------------------------------------------------------------------------
(* The branches of the loop, in the order of the code                      *)

UnitBound == /\ phase = "parsing" /\ At(i) # NUL
             /\ unit_count >= max_units
             /\ Stop
             /\ UNCHANGED unit_count

SkipBlank == /\ Iterates /\ Gap /\ ~ arg_open
             /\ i' = i + 1
             /\ UNCHANGED <<inputs, slices, data, current, phase>>

EndArgument ==
  /\ Iterates /\ Gap /\ arg_open
  /\ IF Len(slices) >= slices_cap THEN Stop
     ELSE /\ slices' = Append(slices, [off |-> cur_off, len |-> cur_len])
          /\ arg_open' = FALSE
          /\ i' = i + 1
          /\ UNCHANGED <<inputs, data, cur_off, cur_len, in_quotes, phase>>

NoRoomToOpen ==
  /\ Iterates /\ ~ Gap /\ ~ arg_open
  /\ Len(slices) >= slices_cap \/ Len(data) >= data_cap
  /\ Stop

\* A doubled quote inside a quoted region.
DoubledQuote == /\ InArgument /\ in_quotes
                /\ At(i) = "quote" /\ At(i + 1) = "quote"
                /\ IF Fits(<<"quote">>) THEN Take(<<"quote">>, 2, TRUE) ELSE Stop

Bug_AnyQuoteCloses == /\ InArgument /\ in_quotes
                      /\ At(i) = "quote"
                      /\ Take(<<>>, 1, FALSE)

CloseQuote == /\ InArgument /\ in_quotes
              /\ At(i) = "quote" /\ At(i + 1) # "quote"
              /\ Take(<<>>, 1, FALSE)

OpenQuote == /\ InArgument /\ ~ in_quotes
             /\ At(i) = "quote"
             /\ Take(<<>>, 1, TRUE)

Bug_EvenNoCheck ==
  /\ InArgument /\ At(i) = "backslash" /\ At(i + Run(i)) = "quote"
  /\ Run(i) % 2 = 0
  /\ Take(Backslashes(Run(i) \div 2), Run(i) + 1, ~ in_quotes)

\* 2n backslashes and a quote: n backslashes, and the region toggles.
EvenRunQuote ==
  /\ InArgument /\ At(i) = "backslash" /\ At(i + Run(i)) = "quote"
  /\ Run(i) % 2 = 0
  /\ LET bytes == Backslashes(Run(i) \div 2)
     IN IF Fits(bytes) THEN Take(bytes, Run(i) + 1, ~ in_quotes) ELSE Stop

\* 2n + 1 backslashes and a quote: n backslashes and a literal quote.
OddRunQuote ==
  /\ InArgument /\ At(i) = "backslash" /\ At(i + Run(i)) = "quote"
  /\ Run(i) % 2 = 1
  /\ LET half == Backslashes(Run(i) \div 2)
         bytes == half \o <<"quote">>
     IN IF Fits(bytes) THEN Take(bytes, Run(i) + 1, in_quotes)
        ELSE \* the backslashes may have been written before the quote failed
             /\ data' = IF Fits(half) THEN data \o half ELSE data
             /\ phase' = "stopped"
             /\ UNCHANGED <<inputs, i, slices, current>>

\* Backslashes that no quote follows are literal.
LiteralRun == /\ InArgument /\ At(i) = "backslash" /\ At(i + Run(i)) # "quote"
              /\ LET bytes == Backslashes(Run(i))
                 IN IF Fits(bytes) THEN Take(bytes, Run(i), in_quotes) ELSE Stop

Ordinary == /\ InArgument /\ At(i) \notin {"quote", "backslash"}
            /\ LET e == Encoded(i)
               IN IF Fits(e.bytes) THEN Take(e.bytes, e.units, in_quotes) ELSE Stop

\* The end of the line closes an open argument, an unterminated region with it.
EndOfLine ==
  /\ phase = "parsing" /\ At(i) = NUL
  /\ slices' = IF arg_open /\ Len(slices) < slices_cap
                 THEN Append(slices, [off |-> cur_off, len |-> cur_len])
                 ELSE slices
  /\ phase' = "done"
  /\ UNCHANGED <<inputs, i, unit_count, data, current>>

-----------------------------------------------------------------------------
Init ==
  /\ cmdline \in Lines
  /\ slices_cap \in SliceCaps /\ data_cap \in DataCaps /\ max_units \in UnitCaps
  /\ i = 1 /\ unit_count = 0
  /\ slices = <<>> /\ data = <<>>
  /\ cur_off = 0 /\ cur_len = 0 /\ in_quotes = FALSE /\ arg_open = FALSE
  /\ phase = "parsing"

Next == \/ UnitBound \/ SkipBlank \/ EndArgument \/ NoRoomToOpen
        \/ DoubledQuote \/ CloseQuote \/ OpenQuote
        \/ EvenRunQuote \/ OddRunQuote \/ LiteralRun \/ Ordinary
        \/ EndOfLine

\* The loop of a running call goes on.
Spec == Init /\ [][Next]_vars /\ WF_vars(Next)

-----------------------------------------------------------------------------
(* Properties                                                              *)

Slice == [off : Nat, len : Nat]

\* The slices handed to the program lie one behind the other in the bytes that
\* were written, and the open argument behind them ends where the next byte
\* goes: its length is counted in three different ways in the loop.
SlicesApart ==
  /\ \A k \in DOMAIN slices : slices[k].off + slices[k].len <= Len(data)
  /\ \A k \in 1 .. Len(slices) - 1 :
        slices[k].off + slices[k].len <= slices[k + 1].off
  /\ arg_open /\ phase # "stopped" =>
        /\ cur_off + cur_len = Len(data)
        /\ phase = "parsing" => \A k \in DOMAIN slices :
              slices[k].off + slices[k].len <= cur_off

\* The caller's buffers never overrun, whatever their sizes, and hold the slices
\* one behind the other.
BuffersHold ==
  /\ i \in 1 .. Len(cmdline) + 1
  /\ unit_count \in 0 .. max_units
  /\ slices \in Seq(Slice) /\ Len(slices) <= slices_cap
  /\ data \in Seq(Byte) /\ Len(data) <= data_cap
  /\ cur_off \in Nat /\ cur_len \in Nat
  /\ in_quotes \in BOOLEAN /\ arg_open \in BOOLEAN
  /\ phase \in {"parsing", "done", "stopped"}
  /\ SlicesApart

\* The loop ends for every line and every bounds.
Terminates == <>(phase # "parsing")
=============================================================================
