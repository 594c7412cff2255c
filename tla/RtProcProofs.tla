---------------------------- MODULE RtProcProofs ----------------------------
(***************************************************************************)
(* The argument parser of rt_proc.c stays inside the buffers it is given,  *)
(* and what it computes is the split its documentation describes, for      *)
(* every command line and every three bounds; the split of a quoted list   *)
(* of arguments is that list.                                              *)
(***************************************************************************)
EXTENDS RtProcSplit, SequenceTheorems, WellFoundedInduction, TLAPS

\* What the call was given.
Given == /\ cmdline \in Seq(Unit)
         /\ slices_cap \in Nat /\ data_cap \in Nat /\ max_units \in Nat

\* The inductive invariant.
IInv == Given /\ BuffersHold

-----------------------------------------------------------------------------
(* The command line                                                        *)

\* Behind the line and at its end At gives the NUL.
LEMMA Units ==
  ASSUME cmdline \in Seq(Unit), NEW k \in Nat \ {0}, At(k) # NUL
  PROVE  k \in 1 .. Len(cmdline) /\ At(k) \in Unit
<1>1. DOMAIN cmdline = 1 .. Len(cmdline)
  OBVIOUS
<1> QED
  BY <1>1 DEF At

\* A run of backslashes ends inside the line, or where it does.
LEMMA RunEnds ==
  ASSUME cmdline \in Seq(Unit), NEW k \in Nat \ {0}, At(k) = "backslash"
  PROVE  /\ Run(k) \in 1 .. Len(cmdline)
         /\ \A j \in k .. k + Run(k) - 1 : At(j) = "backslash"
         /\ At(k + Run(k)) # "backslash"
         /\ k + Run(k) <= Len(cmdline) + 1
<1> DEFINE Ends == {n \in Nat \ {0} : At(k + n) # "backslash"}
           last == Len(cmdline) + 1 - k
<1>1. k \in 1 .. Len(cmdline) /\ Len(cmdline) \in Nat
  BY Units DEF NUL
<1>2. Ends \in SUBSET Nat /\ last \in Ends
  <2>1. last \in Nat \ {0} /\ k + last = Len(cmdline) + 1
    BY <1>1
  <2>2. At(k + last) = NUL
    BY <1>1, <2>1 DEF At
  <2> QED
    BY <2>1, <2>2 DEF NUL
<1>3. PICK n \in Ends : \A m \in Ends : ~ (<<m, n>> \in OpToRel(<, Nat))
  <2> HIDE DEF Ends, last
  <2> QED
    BY <1>2, WFMin, NatLessThanWellFounded
<1>4. \A m \in Ends : ~ (m < n)
  BY <1>2, <1>3 DEF OpToRel
<1>5. n \in Nat \ {0} /\ n <= last /\ At(k + n) # "backslash"
  <2>1. last \in Nat /\ ~ (last < n)
    BY <1>1, <1>2, <1>4
  <2>2. n \in Nat \ {0} /\ At(k + n) # "backslash"
    BY <1>3
  <2> HIDE DEF last
  <2> QED
    BY <2>1, <2>2
<1>6. ASSUME NEW j \in k .. k + n - 1
      PROVE  At(j) = "backslash"
  <2>1. CASE j = k
    BY <2>1
  <2>2. CASE j # k
    <3>1. j - k \in Nat \ {0} /\ j - k < n /\ k + (j - k) = j
      BY <1>1, <1>5, <2>2
    <3>2. j - k \notin Ends
      BY <1>4, <3>1
    <3> QED
      BY <3>1, <3>2
  <2> QED
    BY <2>1, <2>2
<1> DEFINE Is(m) == /\ \A j \in k .. k + m - 1 : At(j) = "backslash"
                    /\ At(k + m) # "backslash"
<1>7. n \in 1 .. Len(cmdline) /\ Is(n)
  BY <1>1, <1>5, <1>6
<1>8. Run(k) = CHOOSE m \in 1 .. Len(cmdline) : Is(m)
  BY DEF Run
<1>9. Run(k) \in 1 .. Len(cmdline) /\ Is(Run(k))
  <2> HIDE DEF Is
  <2> QED
    BY <1>7, <1>8
<1>10. ~ (n < Run(k))
  <2> SUFFICES ASSUME n < Run(k) PROVE FALSE
    OBVIOUS
  <2>1. k + n \in k .. k + Run(k) - 1
    BY <1>1, <1>5, <1>9
  <2> QED
    BY <1>5, <1>9, <2>1
<1> QED
  BY <1>1, <1>5, <1>9, <1>10

\* Backslashes(n) is n bytes.
LEMMA BackslashBytes ==
  ASSUME NEW n \in Nat
  PROVE  Backslashes(n) \in Seq(Byte) /\ Len(Backslashes(n)) = n
<1>1. Backslashes(n) \in [1 .. n -> Byte]
  BY DEF Backslashes, Byte
<1> QED
  BY <1>1

\* The bytes of one unit, and that the units used up are there.
LEMMA EncodedBytes ==
  ASSUME cmdline \in Seq(Unit), NEW k \in Nat \ {0}, At(k) # NUL
  PROVE  /\ Encoded(k).bytes \in Seq(Byte)
         /\ Encoded(k).units \in {1, 2} /\ k + Encoded(k).units <= Len(cmdline) + 1
<1>1. k \in 1 .. Len(cmdline) /\ At(k) \in Unit
  BY Units
<1>2. CASE At(k) = "high" /\ At(k + 1) = "low"
  <2>1. k + 1 \in 1 .. Len(cmdline)
    BY <1>2, Units, k + 1 \in Nat \ {0} DEF NUL
  <2>2. Pair \in Seq(Byte)
    BY DEF Pair, Byte
  <2> QED
    BY <1>1, <1>2, <2>1, <2>2 DEF Encoded
<1>3. CASE ~ (At(k) = "high" /\ At(k + 1) = "low")
  <2>1. Replacement \in Seq(Byte)
    BY DEF Replacement, Byte
  <2>2. At(k) \notin {"high", "low"} => <<At(k)>> \in Seq(Byte)
    BY <1>1 DEF Unit, Byte
  <2> QED
    BY <1>1, <1>3, <2>1, <2>2 DEF Encoded
<1> QED
  BY <1>2, <1>3

-----------------------------------------------------------------------------
(* The steps                                                               *)

\* Bytes that fit are taken: they go behind the open argument, or open one where
\* the next byte goes.
LEMMA TakeHolds ==
  ASSUME IInv, InArgument, NEW bytes \in Seq(Byte), Fits(bytes),
         NEW units \in Nat, i + units <= Len(cmdline) + 1,
         NEW quotes \in BOOLEAN, Take(bytes, units, quotes)
  PROVE  IInv'
<1> USE DEF IInv, Given
<1>1. /\ phase = "parsing" /\ unit_count \in Nat /\ unit_count < max_units
      /\ unit_count' = unit_count + 1
  BY DEF InArgument, Iterates, BuffersHold
<1>2. /\ data' = data \o bytes /\ i' = i + units
      /\ cur_off' = (IF arg_open THEN cur_off ELSE Len(data))
      /\ cur_len' = (IF arg_open THEN cur_len ELSE 0) + Len(bytes)
      /\ in_quotes' = quotes /\ arg_open' = TRUE
      /\ cmdline' = cmdline /\ slices_cap' = slices_cap /\ data_cap' = data_cap
      /\ max_units' = max_units /\ slices' = slices /\ phase' = phase
  BY DEF Take, inputs
<1>3. /\ data \in Seq(Byte) /\ slices \in Seq(Slice) /\ Len(slices) \in Nat
      /\ DOMAIN slices = 1 .. Len(slices) /\ Len(cmdline) \in Nat
      /\ Len(data) \in Nat /\ Len(bytes) \in Nat
  BY DEF BuffersHold
<1>4. data' \in Seq(Byte) /\ Len(data') = Len(data) + Len(bytes) /\ Len(data') <= data_cap
  BY <1>2, <1>3 DEF Fits
<1>5. \A k \in DOMAIN slices : slices[k] \in Slice /\ slices[k].off + slices[k].len <= Len(data)
  BY <1>3 DEF BuffersHold, SlicesApart
<1>6. /\ cur_off' \in Nat /\ cur_len' \in Nat /\ cur_off' + cur_len' = Len(data')
      /\ \A k \in DOMAIN slices : slices[k].off + slices[k].len <= cur_off'
  <2>1. CASE arg_open
    <3>1. /\ cur_off \in Nat /\ cur_len \in Nat /\ cur_off + cur_len = Len(data)
          /\ \A k \in DOMAIN slices : slices[k].off + slices[k].len <= cur_off
      BY <1>1, <2>1 DEF BuffersHold, SlicesApart
    <3>2. cur_off' = cur_off /\ cur_len' = cur_len + Len(bytes)
      BY <1>2, <2>1
    <3>3. \A k \in DOMAIN slices : slices[k].off + slices[k].len <= cur_off'
      BY <3>1, <3>2
    <3> DEFINE a == cur_off
               b == cur_len
               l == Len(bytes)
               d == Len(data)
    <3>4. a \in Nat /\ b \in Nat /\ l \in Nat /\ d \in Nat /\ a + b = d
      BY <1>3, <3>1
    <3>5. cur_off' = a /\ cur_len' = b + l /\ Len(data') = d + l
      BY <1>4, <3>2
    <3> HIDE DEF a, b, l, d
    <3>6. cur_off' \in Nat /\ cur_len' \in Nat /\ cur_off' + cur_len' = Len(data')
      BY <3>4, <3>5
    <3> QED
      BY <3>3, <3>6
  <2>2. CASE ~ arg_open
    BY <1>2, <1>3, <1>4, <1>5, <2>2
  <2> QED
    BY <2>1, <2>2
<1>7. SlicesApart'
  <2>1. \A k \in DOMAIN slices' : slices'[k].off + slices'[k].len <= Len(data')
    BY <1>2, <1>3, <1>4, <1>5 DEF Slice
  <2>2. \A k \in 1 .. Len(slices') - 1 :
          slices'[k].off + slices'[k].len <= slices'[k + 1].off
    BY <1>2 DEF BuffersHold, SlicesApart
  <2> QED
    BY <1>2, <1>6, <2>1, <2>2 DEF SlicesApart
<1>8. i' \in 1 .. Len(cmdline') + 1 /\ unit_count' \in 0 .. max_units'
  BY <1>1, <1>2, <1>3 DEF BuffersHold
<1> QED
  BY <1>1, <1>2, <1>3, <1>4, <1>6, <1>7, <1>8 DEF BuffersHold

\* The loop is left at a bound; bytes of an argument that is dropped may stay.
LEMMA StopHolds ==
  ASSUME IInv, unit_count' \in 0 .. max_units, phase' = "stopped",
         NEW bytes \in Seq(Byte), data' = data \o bytes, Fits(bytes),
         UNCHANGED <<inputs, i, slices, current>>
  PROVE  IInv'
<1> USE DEF IInv, Given
<1>1. /\ data \in Seq(Byte) /\ slices \in Seq(Slice) /\ DOMAIN slices = 1 .. Len(slices)
      /\ cmdline' = cmdline /\ slices_cap' = slices_cap /\ data_cap' = data_cap
      /\ max_units' = max_units /\ slices' = slices /\ i' = i
      /\ cur_off' = cur_off /\ cur_len' = cur_len
      /\ in_quotes' = in_quotes /\ arg_open' = arg_open
  BY DEF BuffersHold, inputs, current
<1>2. data' \in Seq(Byte) /\ Len(data') = Len(data) + Len(bytes) /\ Len(data') <= data_cap
      /\ Len(data) \in Nat /\ Len(bytes) \in Nat
  BY <1>1 DEF Fits
<1>3. SlicesApart'
  <2>1. ASSUME NEW k \in DOMAIN slices
        PROVE  slices[k].off + slices[k].len <= Len(data')
    <3>1. slices[k] \in Slice /\ slices[k].off + slices[k].len <= Len(data)
      BY <1>1 DEF BuffersHold, SlicesApart
    <3> QED
      BY <1>2, <3>1 DEF Slice
  <2> QED
    BY <1>1, <2>1 DEF SlicesApart, BuffersHold
<1> QED
  BY <1>1, <1>2, <1>3 DEF BuffersHold

\* An argument ends: its slice is the last, if there is a slot for it.
LEMMA SliceAdded ==
  ASSUME IInv, phase = "parsing", arg_open, Len(slices) < slices_cap
  PROVE  LET s == Append(slices, [off |-> cur_off, len |-> cur_len])
         IN /\ s \in Seq(Slice) /\ Len(s) <= slices_cap
            /\ \A k \in DOMAIN s : s[k].off + s[k].len <= Len(data)
            /\ \A k \in 1 .. Len(s) - 1 : s[k].off + s[k].len <= s[k + 1].off
<1> USE DEF IInv, Given
<1> DEFINE new == [off |-> cur_off, len |-> cur_len]
           s   == Append(slices, new)
           n   == Len(slices)
<1>1. /\ slices \in Seq(Slice) /\ new \in Slice /\ n \in Nat /\ DOMAIN slices = 1 .. n
      /\ new.off + new.len = Len(data) /\ Len(data) \in Nat
  BY DEF BuffersHold, SlicesApart, Slice
<1>2. \A k \in 1 .. n : /\ slices[k].off + slices[k].len <= Len(data)
                        /\ slices[k].off + slices[k].len <= new.off
  BY <1>1 DEF BuffersHold, SlicesApart
<1>3. \A k \in 1 .. n - 1 : slices[k].off + slices[k].len <= slices[k + 1].off
  BY DEF BuffersHold, SlicesApart
<1> HIDE DEF new
<1>4. /\ s \in Seq(Slice) /\ Len(s) = n + 1 /\ DOMAIN s = 1 .. n + 1
      /\ s[n + 1] = new /\ \A k \in 1 .. n : s[k] = slices[k]
  BY <1>1
<1>5. \A k \in DOMAIN s : s[k].off + s[k].len <= Len(data)
  <2> SUFFICES ASSUME NEW k \in DOMAIN s PROVE s[k].off + s[k].len <= Len(data)
    OBVIOUS
  <2>1. CASE k = n + 1
    BY <1>1, <1>4, <2>1
  <2>2. CASE k \in 1 .. n
    BY <1>2, <1>4, <2>2
  <2>3. k = n + 1 \/ k \in 1 .. n
    <3>1. k \in 1 .. n + 1 /\ n \in Nat
      BY <1>1, <1>4
    <3> HIDE DEF n, s
    <3> QED
      BY <3>1
  <2> QED
    BY <2>1, <2>2, <2>3
<1>6. \A k \in 1 .. Len(s) - 1 : s[k].off + s[k].len <= s[k + 1].off
  <2> SUFFICES ASSUME NEW k \in 1 .. n PROVE s[k].off + s[k].len <= s[k + 1].off
    BY <1>1, <1>4
  <2>1. CASE k = n
    BY <1>1, <1>2, <1>4, <2>1
  <2>2. CASE k < n
    <3>1. k + 1 \in 1 .. n /\ k \in 1 .. n - 1
      BY <1>1, <2>2
    <3> QED
      BY <1>3, <1>4, <3>1
  <2>3. k = n \/ k < n
    <3>1. k \in 1 .. n /\ n \in Nat
      BY <1>1
    <3> HIDE DEF n, s
    <3> QED
      BY <3>1
  <2> QED
    BY <2>1, <2>2, <2>3
<1>7. Len(s) <= slices_cap
  BY <1>1, <1>4
<1> QED
  BY <1>4, <1>5, <1>6, <1>7 DEF new

-----------------------------------------------------------------------------
(* The branches of the loop                                                *)

\* An iteration counts a unit, which the bound allowed.
LEMMA Counted ==
  ASSUME IInv, Iterates
  PROVE  /\ unit_count' \in 0 .. max_units /\ phase = "parsing"
         /\ i \in Nat \ {0} /\ i \in 1 .. Len(cmdline) /\ At(i) \in Unit
         /\ Len(cmdline) \in Nat
<1> USE DEF IInv, Given
<1>1. i \in Nat \ {0} /\ At(i) # NUL /\ Len(cmdline) \in Nat
  BY DEF Iterates, BuffersHold
<1>2. i \in 1 .. Len(cmdline) /\ At(i) \in Unit
  BY <1>1, Units
<1> QED
  BY <1>1, <1>2 DEF Iterates, BuffersHold

\* The loop is left with nothing written.
LEMMA StopNow ==
  ASSUME IInv, unit_count' \in 0 .. max_units, Stop
  PROVE  IInv'
<1>1. data \in Seq(Byte) /\ data' = data /\ Len(data) <= data_cap
  BY DEF Stop, IInv, BuffersHold
<1>2. <<>> \in Seq(Byte) /\ data' = data \o <<>> /\ Fits(<<>>)
  BY <1>1 DEF Fits
<1> QED
  BY <1>2, StopHolds DEF Stop

\* Blanks between arguments, and a blank that ends one.
LEMMA BlankHolds ==
  ASSUME IInv, SkipBlank \/ EndArgument
  PROVE  IInv'
<1> USE DEF IInv, Given
<1>1. Iterates
  BY DEF SkipBlank, EndArgument
<1>2. /\ unit_count' \in 0 .. max_units /\ phase = "parsing" /\ i \in 1 .. Len(cmdline)
      /\ Len(cmdline) \in Nat
  BY <1>1, Counted
<1>3. CASE SkipBlank
  <2>1. /\ i' = i + 1 /\ UNCHANGED <<inputs, slices, data, current, phase>>
    BY <1>3 DEF SkipBlank
  <2>2. i' \in 1 .. Len(cmdline) + 1
    BY <1>2, <2>1
  <2> QED
    BY <1>2, <2>1, <2>2 DEF BuffersHold, SlicesApart, inputs, current
<1>4. CASE EndArgument /\ Len(slices) >= slices_cap
  BY <1>2, <1>4, StopNow DEF EndArgument
<1>5. CASE EndArgument /\ ~ (Len(slices) >= slices_cap)
  <2>1. /\ arg_open /\ slices' = Append(slices, [off |-> cur_off, len |-> cur_len])
        /\ arg_open' = FALSE /\ i' = i + 1
        /\ UNCHANGED <<inputs, data, cur_off, cur_len, in_quotes, phase>>
    BY <1>5 DEF EndArgument
  <2>2. i' \in 1 .. Len(cmdline) + 1
    BY <1>2, <2>1
  <2>3. Len(slices) < slices_cap
    BY <1>5 DEF BuffersHold
  <2>4. /\ slices' \in Seq(Slice) /\ Len(slices') <= slices_cap
        /\ \A k \in DOMAIN slices' : slices'[k].off + slices'[k].len <= Len(data)
        /\ \A k \in 1 .. Len(slices') - 1 :
             slices'[k].off + slices'[k].len <= slices'[k + 1].off
    BY <1>2, <2>1, <2>3, SliceAdded
  <2> QED
    BY <1>2, <2>1, <2>2, <2>4 DEF BuffersHold, SlicesApart, inputs
<1> QED
  BY <1>3, <1>4, <1>5

\* Quotes.
LEMMA QuoteHolds ==
  ASSUME IInv, DoubledQuote \/ CloseQuote \/ OpenQuote
  PROVE  IInv'
<1>1. InArgument /\ Iterates /\ At(i) = "quote"
  BY DEF DoubledQuote, CloseQuote, OpenQuote, InArgument
<1>2. /\ unit_count' \in 0 .. max_units /\ i \in Nat \ {0} /\ i \in 1 .. Len(cmdline)
      /\ Len(cmdline) \in Nat
  BY <1>1, Counted
<1>3. <<"quote">> \in Seq(Byte) /\ <<>> \in Seq(Byte) /\ Fits(<<>>)
  BY DEF Byte, Fits, IInv, BuffersHold
<1>4. CASE DoubledQuote /\ Fits(<<"quote">>)
  <2>1. At(i + 1) # NUL /\ i + 1 \in Nat \ {0} /\ cmdline \in Seq(Unit)
    BY <1>2, <1>4 DEF DoubledQuote, NUL, IInv, Given
  <2>2. i + 2 <= Len(cmdline) + 1
    BY <1>2, <2>1, Units
  <2>3. Take(<<"quote">>, 2, TRUE)
    BY <1>4 DEF DoubledQuote
  <2> QED
    BY <1>1, <1>3, <1>4, <2>2, <2>3, TakeHolds
<1>5. CASE DoubledQuote /\ ~ Fits(<<"quote">>)
  BY <1>2, <1>5, StopNow DEF DoubledQuote
<1>6. CASE CloseQuote
  <2>1. Take(<<>>, 1, FALSE)
    BY <1>6 DEF CloseQuote
  <2>2. i + 1 <= Len(cmdline) + 1
    BY <1>2
  <2> QED
    BY <1>1, <1>3, <2>1, <2>2, TakeHolds
<1>7. CASE OpenQuote
  <2>1. Take(<<>>, 1, TRUE)
    BY <1>7 DEF OpenQuote
  <2>2. i + 1 <= Len(cmdline) + 1
    BY <1>2
  <2> QED
    BY <1>1, <1>3, <2>1, <2>2, TakeHolds
<1> QED
  BY <1>4, <1>5, <1>6, <1>7

\* Runs of backslashes, with and without a quote behind them.
LEMMA RunHolds ==
  ASSUME IInv, EvenRunQuote \/ OddRunQuote \/ LiteralRun
  PROVE  IInv'
<1> DEFINE n == Run(i)
           half == Backslashes(n \div 2)
<1>1. InArgument /\ Iterates /\ At(i) = "backslash" /\ cmdline \in Seq(Unit)
  BY DEF EvenRunQuote, OddRunQuote, LiteralRun, InArgument, IInv, Given
<1>2. /\ unit_count' \in 0 .. max_units /\ i \in Nat \ {0} /\ i \in 1 .. Len(cmdline)
      /\ Len(cmdline) \in Nat /\ in_quotes \in BOOLEAN /\ (~ in_quotes) \in BOOLEAN
  BY <1>1, Counted DEF IInv, BuffersHold
<1>3. n \in Nat /\ n <= Len(cmdline) /\ i + n <= Len(cmdline) + 1
  BY <1>1, <1>2, RunEnds
<1>4. At(i + n) = "quote" => i + (n + 1) <= Len(cmdline) + 1
  <2> SUFFICES ASSUME At(i + n) = "quote" PROVE i + (n + 1) <= Len(cmdline) + 1
    OBVIOUS
  <2>1. i + n \in Nat \ {0} /\ At(i + n) # NUL
    BY <1>2, <1>3 DEF NUL
  <2>2. i + n \in 1 .. Len(cmdline)
    BY <1>1, <2>1, Units
  <2> QED
    BY <1>2, <1>3, <2>2
<1>5. n \div 2 \in Nat
  BY <1>3
<1>6. half \in Seq(Byte) /\ Backslashes(n) \in Seq(Byte)
  BY <1>3, <1>5, BackslashBytes
<1>7. half \o <<"quote">> \in Seq(Byte)
  <2>1. <<"quote">> \in Seq(Byte)
    BY DEF Byte
  <2> HIDE DEF half
  <2> QED
    BY <1>6, <2>1
<1>8. ASSUME EvenRunQuote PROVE IInv'
  <2>1. At(i + n) = "quote" /\ (IF Fits(half) THEN Take(half, n + 1, ~ in_quotes) ELSE Stop)
    BY <1>8 DEF EvenRunQuote
  <2> HIDE DEF half, n
  <2>2. n + 1 \in Nat
    BY <1>3
  <2>3. CASE Fits(half)
    BY <1>1, <1>2, <1>4, <1>6, <2>1, <2>2, <2>3, TakeHolds
  <2>4. CASE ~ Fits(half)
    BY <1>2, <2>1, <2>4, StopNow
  <2> QED
    BY <2>3, <2>4
<1>9. ASSUME OddRunQuote PROVE IInv'
  <2> DEFINE bytes == half \o <<"quote">>
  <2>1. At(i + n) = "quote" /\ (IF Fits(bytes) THEN Take(bytes, n + 1, in_quotes)
                               ELSE /\ data' = IF Fits(half) THEN data \o half ELSE data
                                    /\ phase' = "stopped"
                                    /\ UNCHANGED <<inputs, i, slices, current>>)
    BY <1>9 DEF OddRunQuote
  <2>2. bytes \in Seq(Byte)
    BY <1>7
  <2> HIDE DEF half, n, bytes
  <2>3. n + 1 \in Nat
    BY <1>3
  <2>4. CASE Fits(bytes)
    BY <1>1, <1>2, <1>4, <2>1, <2>2, <2>3, <2>4, TakeHolds
  <2>5. CASE ~ Fits(bytes) /\ Fits(half)
    BY <1>2, <1>6, <2>1, <2>5, StopHolds
  <2>6. CASE ~ Fits(bytes) /\ ~ Fits(half)
    BY <1>2, <2>1, <2>6, StopNow DEF Stop
  <2> QED
    BY <2>4, <2>5, <2>6
<1>10. ASSUME LiteralRun PROVE IInv'
  <2> DEFINE bytes == Backslashes(n)
  <2>1. IF Fits(bytes) THEN Take(bytes, n, in_quotes) ELSE Stop
    BY <1>10 DEF LiteralRun
  <2>2. bytes \in Seq(Byte)
    BY <1>6
  <2> HIDE DEF n, bytes
  <2>3. CASE Fits(bytes)
    BY <1>1, <1>2, <1>3, <2>1, <2>2, <2>3, TakeHolds
  <2>4. CASE ~ Fits(bytes)
    BY <1>2, <2>1, <2>4, StopNow
  <2> QED
    BY <2>3, <2>4
<1> QED
  BY <1>8, <1>9, <1>10

\* A unit that is copied, if its bytes fit.
LEMMA OrdinaryHolds ==
  ASSUME IInv, Ordinary
  PROVE  IInv'
<1> DEFINE e == Encoded(i)
<1>1. /\ InArgument /\ Iterates /\ cmdline \in Seq(Unit) /\ At(i) # NUL
      /\ IF Fits(e.bytes) THEN Take(e.bytes, e.units, in_quotes) ELSE Stop
  BY DEF Ordinary, InArgument, Iterates, IInv, Given
<1>2. /\ unit_count' \in 0 .. max_units /\ i \in Nat \ {0} /\ in_quotes \in BOOLEAN
  BY <1>1, Counted DEF IInv, BuffersHold
<1>3. e.bytes \in Seq(Byte) /\ e.units \in Nat /\ i + e.units <= Len(cmdline) + 1
  BY <1>1, <1>2, EncodedBytes
<1> HIDE DEF e
<1>4. CASE Fits(e.bytes)
  BY <1>1, <1>2, <1>3, <1>4, TakeHolds
<1>5. CASE ~ Fits(e.bytes)
  BY <1>1, <1>2, <1>5, StopNow
<1> QED
  BY <1>4, <1>5

\* The bound on units, no room for another argument, the end of the line.
LEMMA EndHolds ==
  ASSUME IInv, UnitBound \/ NoRoomToOpen \/ EndOfLine
  PROVE  IInv'
<1> USE DEF IInv, Given
<1>1. CASE UnitBound
  <2>1. unit_count' \in 0 .. max_units
    BY <1>1 DEF UnitBound, BuffersHold
  <2> QED
    BY <1>1, <2>1, StopNow DEF UnitBound
<1>2. CASE NoRoomToOpen
  BY <1>2, Counted, StopNow DEF NoRoomToOpen
<1>3. CASE EndOfLine
  <2>1. /\ phase = "parsing" /\ phase' = "done"
        /\ slices' = IF arg_open /\ Len(slices) < slices_cap
                      THEN Append(slices, [off |-> cur_off, len |-> cur_len]) ELSE slices
        /\ UNCHANGED <<inputs, i, unit_count, data, current>>
    BY <1>3 DEF EndOfLine
  <2>2. /\ slices' \in Seq(Slice) /\ Len(slices') <= slices_cap
        /\ \A k \in DOMAIN slices' : slices'[k].off + slices'[k].len <= Len(data)
        /\ \A k \in 1 .. Len(slices') - 1 :
             slices'[k].off + slices'[k].len <= slices'[k + 1].off
    <3>1. CASE arg_open /\ Len(slices) < slices_cap
      BY <2>1, <3>1, SliceAdded
    <3>2. CASE ~ (arg_open /\ Len(slices) < slices_cap)
      BY <2>1, <3>2 DEF BuffersHold, SlicesApart
    <3> QED
      BY <3>1, <3>2
  <2>3. /\ data' = data /\ i' = i /\ unit_count' = unit_count
        /\ cmdline' = cmdline /\ slices_cap' = slices_cap /\ data_cap' = data_cap
        /\ max_units' = max_units /\ cur_off' = cur_off /\ cur_len' = cur_len
        /\ in_quotes' = in_quotes /\ arg_open' = arg_open
    BY <2>1 DEF inputs, current
  <2>4. SlicesApart'
    <3>1. arg_open => cur_off + cur_len = Len(data)
      BY <2>1 DEF BuffersHold, SlicesApart
    <3> QED
      BY <2>1, <2>2, <2>3, <3>1 DEF SlicesApart
  <2> QED
    BY <2>1, <2>2, <2>3, <2>4 DEF BuffersHold
<1> QED
  BY <1>1, <1>2, <1>3

-----------------------------------------------------------------------------
\* Before the first unit both buffers are empty.
LEMMA InitInv == Init => IInv
<1> SUFFICES ASSUME Init PROVE IInv
  OBVIOUS
<1>1. Given
  BY RtProcAssumption DEF Init, Given
<1>2. Len(cmdline) \in Nat /\ slices_cap \in Nat /\ data_cap \in Nat /\ max_units \in Nat
  BY <1>1 DEF Given
<1>3. slices \in Seq(Slice) /\ Len(slices) = 0 /\ data \in Seq(Byte) /\ Len(data) = 0
  BY DEF Init
<1>4. SlicesApart
  BY <1>3 DEF Init, SlicesApart
<1>5. i \in 1 .. Len(cmdline) + 1 /\ unit_count \in 0 .. max_units
  BY <1>2 DEF Init
<1>6. Len(slices) <= slices_cap /\ Len(data) <= data_cap
  BY <1>2, <1>3
<1>7. cur_off \in Nat /\ cur_len \in Nat /\ phase = "parsing"
  BY DEF Init
<1>8. in_quotes \in BOOLEAN /\ arg_open \in BOOLEAN
  BY DEF Init
<1> QED
  BY <1>1, <1>3, <1>4, <1>5, <1>6, <1>7, <1>8 DEF IInv, BuffersHold

\* Every step stays inside the buffers.
LEMMA NextInv == IInv /\ [Next]_vars => IInv'
<1> SUFFICES ASSUME IInv, [Next]_vars PROVE IInv'
  OBVIOUS
<1>1. CASE UNCHANGED vars
  BY <1>1 DEF vars, inputs, current, IInv, Given, BuffersHold, SlicesApart
<1> QED
  BY <1>1, EndHolds, BlankHolds, QuoteHolds, RunHolds, OrdinaryHolds DEF Next

\* rt_proc.c: the caller's arrays never overrun and hold the slices one behind
\* the other, for every line, whatever the sizes of the arrays and the bound on
\* units are.
THEOREM BuffersHoldAlways == Spec => []BuffersHold
<1>1. IInv => BuffersHold
  BY DEF IInv
<1> QED
  BY <1>1, InitInv, NextInv, PTL DEF Spec

-----------------------------------------------------------------------------
(* Lines                                                                   *)

\* What holds of an index when it holds of all later ones holds of all.
LEMMA Downward ==
  ASSUME NEW N \in Nat, NEW S,
         \A k \in 1 .. N : (\A j \in k + 1 .. N : j \in S) => k \in S
  PROVE  \A k \in 1 .. N : k \in S
<1> DEFINE Missing == {n \in Nat : n < N /\ N - n \notin S}
<1>1. SUFFICES ASSUME NEW k \in 1 .. N, k \notin S PROVE FALSE
  OBVIOUS
<1>2. N - k \in Missing /\ Missing \in SUBSET Nat
  <2>1. N - k \in Nat /\ N - k < N /\ N - (N - k) = k
    BY <1>1
  <2> QED
    BY <1>1, <2>1
<1>3. PICK n \in Missing : \A m \in Missing : ~ (<<m, n>> \in OpToRel(<, Nat))
  <2> HIDE DEF Missing
  <2> QED
    BY <1>2, WFMin, NatLessThanWellFounded
<1>4. n \in Nat /\ n < N /\ N - n \notin S /\ \A m \in Missing : ~ (m < n)
  BY <1>3 DEF OpToRel
<1>5. ASSUME NEW j \in N - n + 1 .. N PROVE j \in S
  <2>1. N - j \in Nat /\ N - j < n /\ N - j < N /\ N - (N - j) = j
    BY <1>4
  <2> QED
    BY <1>4, <2>1
<1> QED
  BY <1>4, <1>5

\* A run of backslashes ends inside the sequence, or where it does.
LEMMA LeadingRunEnds ==
  ASSUME NEW U, NEW s \in Seq(U), NEW k \in 1 .. Len(s) + 1
  PROVE  /\ LeadingRun(s, k) \in Nat /\ k + LeadingRun(s, k) <= Len(s) + 1
         /\ \A j \in k .. k + LeadingRun(s, k) - 1 : j \in DOMAIN s /\ s[j] = "backslash"
         /\ k + LeadingRun(s, k) \in DOMAIN s => s[k + LeadingRun(s, k)] # "backslash"
<1> DEFINE Ends == {n \in Nat : k + n \in DOMAIN s => s[k + n] # "backslash"}
           last == Len(s) + 1 - k
           Is(n) == /\ \A j \in k .. k + n - 1 : j \in DOMAIN s /\ s[j] = "backslash"
                    /\ k + n \in DOMAIN s => s[k + n] # "backslash"
<1>1. DOMAIN s = 1 .. Len(s) /\ Len(s) \in Nat
  OBVIOUS
<1>2. last \in Ends /\ Ends \in SUBSET Nat /\ last \in Nat
  BY <1>1
<1>3. PICK n \in Ends : \A m \in Ends : ~ (<<m, n>> \in OpToRel(<, Nat))
  <2> HIDE DEF Ends, last
  <2> QED
    BY <1>2, WFMin, NatLessThanWellFounded
<1>4. n \in Nat /\ n <= last /\ \A m \in Ends : ~ (m < n)
  <2>1. n \in Nat /\ \A m \in Ends : ~ (m < n)
    BY <1>2, <1>3 DEF OpToRel
  <2>2. ~ (last < n)
    BY <1>2, <2>1
  <2> HIDE DEF last
  <2> QED
    BY <1>2, <2>1, <2>2
<1>5. ASSUME NEW j \in k .. k + n - 1 PROVE j \in DOMAIN s /\ s[j] = "backslash"
  <2>1. j - k \in Nat /\ j - k < n /\ k + (j - k) = j
    BY <1>1, <1>4
  <2>2. j - k \notin Ends
    BY <1>4, <2>1
  <2> QED
    BY <2>1, <2>2
<1>6. n \in 0 .. Len(s) /\ Is(n)
  <2>1. last <= Len(s)
    BY <1>1
  <2>2. n <= Len(s)
    BY <1>1, <1>2, <1>4, <2>1
  <2>3. k + n \in DOMAIN s => s[k + n] # "backslash"
    BY <1>3
  <2> QED
    BY <1>4, <1>5, <2>2, <2>3
<1>7. LeadingRun(s, k) = CHOOSE m \in 0 .. Len(s) : Is(m)
  BY DEF LeadingRun
<1>8. LeadingRun(s, k) \in 0 .. Len(s) /\ Is(LeadingRun(s, k))
  <2> HIDE DEF Is
  <2> QED
    BY <1>6, <1>7
<1>9. ~ (n < LeadingRun(s, k))
  <2> SUFFICES ASSUME n < LeadingRun(s, k) PROVE FALSE
    OBVIOUS
  <2>1. k + n \in k .. k + LeadingRun(s, k) - 1
    BY <1>1, <1>4, <1>8
  <2> QED
    BY <1>3, <1>8, <2>1
<1> QED
  BY <1>1, <1>4, <1>8, <1>9

\* There is one such run.
LEMMA OneRun ==
  ASSUME NEW U, NEW s \in Seq(U), NEW k \in 1 .. Len(s) + 1, NEW n \in Nat,
         \A j \in k .. k + n - 1 : j \in DOMAIN s /\ s[j] = "backslash",
         k + n \in DOMAIN s => s[k + n] # "backslash"
  PROVE  LeadingRun(s, k) = n
<1> DEFINE m == LeadingRun(s, k)
<1>1. /\ m \in Nat
      /\ \A j \in k .. k + m - 1 : j \in DOMAIN s /\ s[j] = "backslash"
      /\ k + m \in DOMAIN s => s[k + m] # "backslash"
  BY LeadingRunEnds
<1> HIDE DEF m
<1>2. ~ (m < n)
  <2> SUFFICES ASSUME m < n PROVE FALSE
    OBVIOUS
  <2>1. k + m \in k .. k + n - 1
    BY <1>1
  <2> QED
    BY <1>1, <2>1
<1>3. ~ (n < m)
  <2> SUFFICES ASSUME n < m PROVE FALSE
    OBVIOUS
  <2>1. k + n \in k .. k + m - 1
    BY <1>1
  <2> QED
    BY <1>1, <2>1
<1>4. m = n
  BY <1>1, <1>2, <1>3
<1> QED
  BY <1>4 DEF m

-----------------------------------------------------------------------------
(* The split, one piece after the other                                    *)

Arglist == Seq(Seq(Byte))

\* What the units that make a piece are.
LEMMA PieceShape ==
  ASSUME NEW line \in Seq(Unit), NEW k \in 1 .. Len(line), NEW quoted \in BOOLEAN,
         NEW p, p = PieceAt(line, k, quoted)
  PROVE  /\ p.bytes \in Seq(Byte) /\ p.units \in Nat \ {0} /\ p.quoted \in BOOLEAN
         /\ k + p.units <= Len(line) + 1
<1> DEFINE n == LeadingRun(line, k)
           BeforeQuote == k + n \in DOMAIN line /\ line[k + n] = "quote"
           Fine(x) == /\ x.bytes \in Seq(Byte) /\ x.units \in Nat \ {0}
                      /\ x.quoted \in BOOLEAN /\ k + x.units <= Len(line) + 1
<1>0. ASSUME NEW bytes \in Seq(Byte), NEW u \in Nat \ {0}, k + u <= Len(line) + 1, NEW q \in BOOLEAN
      PROVE  Fine(Piece(bytes, u, q))
  BY <1>0 DEF Piece
<1>1. /\ DOMAIN line = 1 .. Len(line) /\ Len(line) \in Nat /\ line[k] \in Unit
      /\ n \in Nat /\ k + n <= Len(line) + 1
      /\ n > 0 => line[k] = "backslash"
      /\ n = 0 => line[k] # "backslash"
  <2>1. /\ n \in Nat /\ k + n <= Len(line) + 1
        /\ \A j \in k .. k + n - 1 : j \in DOMAIN line /\ line[j] = "backslash"
        /\ k + n \in DOMAIN line => line[k + n] # "backslash"
    BY LeadingRunEnds
  <2> HIDE DEF n
  <2>2. n > 0 => k \in k .. k + n - 1
    BY <2>1
  <2>3. n = 0 => k + n = k
    BY <2>1
  <2> QED
    BY <2>1, <2>2, <2>3
<1>2. ASSUME n > 0 PROVE Fine(p)
  <2>1. n \div 2 \in Nat
    BY <1>1
  <2>2. Backslashes(n \div 2) \in Seq(Byte) /\ Backslashes(n) \in Seq(Byte)
    BY <1>1, <2>1, BackslashBytes
  <2>3. Backslashes(n \div 2) \o <<"quote">> \in Seq(Byte)
    BY <2>2 DEF Byte
  <2>4. p = RunPiece(n, BeforeQuote, quoted)
    BY <1>2 DEF PieceAt
  <2>5. BeforeQuote => k + (n + 1) <= Len(line) + 1
    BY <1>1
  <2> HIDE DEF n, BeforeQuote, Fine
  <2>6. n + 1 \in Nat \ {0} /\ n \in Nat \ {0} /\ (~ quoted) \in BOOLEAN
    BY <1>1, <1>2
  <2>7. ~ BeforeQuote => Fine(Piece(Backslashes(n), n, quoted))
    BY <1>0, <1>1, <2>2, <2>6
  <2>8. BeforeQuote => Fine(Piece(Backslashes(n \div 2), n + 1, ~ quoted))
    BY <1>0, <2>2, <2>5, <2>6
  <2>9. BeforeQuote => Fine(Piece(Backslashes(n \div 2) \o <<"quote">>, n + 1, quoted))
    BY <1>0, <2>3, <2>5, <2>6
  <2> QED
    BY <2>4, <2>7, <2>8, <2>9 DEF RunPiece
<1>3. ASSUME n = 0 PROVE Fine(p)
  <2>1. ~ (n > 0) /\ line[k] \in Unit \ {"backslash"}
    BY <1>1, <1>3
  <2>2. /\ <<"quote">> \in Seq(Byte) /\ <<>> \in Seq(Byte) /\ Pair \in Seq(Byte)
        /\ Replacement \in Seq(Byte)
        /\ line[k] \notin {"high", "low"} => <<line[k]>> \in Seq(Byte)
    BY <1>1 DEF Byte, Unit, Pair, Replacement
  <2>3. \A a, b : TwoAt(line, k, a, b) => k + 2 <= Len(line) + 1
    BY <1>1 DEF TwoAt
  <2>4. \/ TwoAt(line, k, "quote", "quote") /\ p = Piece(<<"quote">>, 2, quoted)
        \/ p = Piece(<<>>, 1, ~ quoted)
        \/ TwoAt(line, k, "high", "low") /\ p = Piece(Pair, 2, quoted)
        \/ p = Piece(Replacement, 1, quoted)
        \/ line[k] \notin {"high", "low"} /\ p = Piece(<<line[k]>>, 1, quoted)
    BY <2>1 DEF PieceAt
  <2> HIDE DEF n, BeforeQuote, Fine
  <2>5. k + 1 <= Len(line) + 1 /\ (~ quoted) \in BOOLEAN /\ 1 \in Nat \ {0} /\ 2 \in Nat \ {0}
    BY <1>1
  <2>6. /\ Fine(Piece(<<>>, 1, ~ quoted)) /\ Fine(Piece(Replacement, 1, quoted))
        /\ line[k] \notin {"high", "low"} => Fine(Piece(<<line[k]>>, 1, quoted))
    BY <1>0, <2>2, <2>5
  <2>7. /\ TwoAt(line, k, "quote", "quote") => Fine(Piece(<<"quote">>, 2, quoted))
        /\ TwoAt(line, k, "high", "low") => Fine(Piece(Pair, 2, quoted))
    BY <1>0, <2>2, <2>3, <2>5
  <2> QED
    BY <2>4, <2>6, <2>7
<1>4. Fine(p)
  BY <1>1, <1>2, <1>3
<1> QED
  BY <1>4


\* What Before answers.
LEMMA BeforeShape ==
  ASSUME NEW bytes \in Seq(Byte), NEW args \in Arglist, args # <<>>
  PROVE  /\ Before(bytes, args) \in Arglist /\ Before(bytes, args) # <<>>
         /\ Len(Before(bytes, args)) = Len(args)
         /\ Head(Before(bytes, args)) = bytes \o Head(args)
         /\ Tail(Before(bytes, args)) = Tail(args)
<1>1. Head(args) \in Seq(Byte) /\ Tail(args) \in Arglist /\ Len(Tail(args)) = Len(args) - 1
      /\ Len(args) \in Nat
  BY HeadTailProperties, LenProperties DEF Arglist
<1> DEFINE first == bytes \o Head(args)
           rest  == Tail(args)
<1>2. first \in Seq(Byte)
  BY <1>1, ConcatProperties
<1>3. rest \in Seq(Seq(Byte)) /\ rest = Tail(args)
  BY <1>1 DEF Arglist
<1>4. Before(bytes, args) = <<first>> \o rest
  BY DEF Before
<1> HIDE DEF first, rest
<1>5. /\ <<first>> \o rest \in Seq(Seq(Byte)) /\ Len(<<first>> \o rest) = 1 + Len(rest)
      /\ Head(<<first>> \o rest) = first /\ Tail(<<first>> \o rest) = rest
  BY SMTT(40), <1>2, <1>3
<1>6. <<first>> \o rest # <<>>
  BY <1>3, <1>5
<1> QED
  BY <1>1, <1>3, <1>4, <1>5, <1>6, SMTT(40) DEF first, Arglist

\* The arguments from one place on; outside of a gap there is one at least.
LineArgs == {f \in [Places -> Arglist] : \A place \in Places \ {"gap"} : f[place] # <<>>}

\* The arguments at a place depend on later places only,
LEMMA ArgsLater ==
  ASSUME NEW line \in Seq(Unit), NEW k \in 1 .. Len(line) + 1, NEW F, NEW G,
         \A j \in k + 1 .. Len(line) + 1 : F[j] = G[j]
  PROVE  ArgsAt(line, F, k) = ArgsAt(line, G, k)
<1>1. CASE k = Len(line) + 1
  BY <1>1 DEF ArgsAt
<1>2. CASE k # Len(line) + 1
  <2>1. k \in 1 .. Len(line) /\ k + 1 \in k + 1 .. Len(line) + 1 /\ Len(line) \in Nat
    BY <1>2
  <2>2. F[k + 1] = G[k + 1]
    BY <2>1
  <2>3. ASSUME NEW place \in Places
        PROVE  LET p == PieceAt(line, k, place = "quoted") IN F[k + p.units] = G[k + p.units]
    <3>1. PICK p : p = PieceAt(line, k, place = "quoted")
      OBVIOUS
    <3>2. p.units \in Nat \ {0} /\ k + p.units <= Len(line) + 1
      BY <2>1, <3>1, PieceShape
    <3>3. k + p.units \in k + 1 .. Len(line) + 1
      BY <2>1, <3>2
    <3> QED
      BY <3>1, <3>3
  <2> QED
    BY <2>2, <2>3 DEF ArgsAt
<1> QED
  BY <1>1, <1>2

\* and are arguments.
LEMMA ArgsTyped ==
  ASSUME NEW line \in Seq(Unit), NEW k \in 1 .. Len(line) + 1, NEW F,
         \A j \in k + 1 .. Len(line) + 1 : F[j] \in LineArgs
  PROVE  ArgsAt(line, F, k) \in LineArgs
<1>0. \A place : Ended(place) \in Arglist /\ (place # "gap" => Ended(place) # <<>>)
  <2>1. <<>> \in Seq(Byte)
    OBVIOUS
  <2> QED
    BY <2>1 DEF Ended, Arglist
<1> SUFFICES ASSUME NEW place \in Places
             PROVE  /\ ArgsAt(line, F, k)[place] \in Arglist
                    /\ place # "gap" => ArgsAt(line, F, k)[place] # <<>>
  BY DEF LineArgs, ArgsAt
<1>1. CASE k = Len(line) + 1
  BY <1>0, <1>1 DEF ArgsAt
<1>2. CASE k # Len(line) + 1 /\ line[k] = "blank" /\ place # "quoted"
  <2>1. k + 1 \in k + 1 .. Len(line) + 1 /\ "gap" \in Places
    BY <1>2 DEF Places
  <2>2. F[k + 1]["gap"] \in Arglist
    BY <2>1 DEF LineArgs
  <2>3. ArgsAt(line, F, k)[place] = Ended(place) \o F[k + 1]["gap"]
    BY <1>2 DEF ArgsAt
  <2> QED
    BY <1>0, <2>2, <2>3, ConcatProperties, ConcatSimplifications DEF Arglist
<1>3. CASE k # Len(line) + 1 /\ ~ (line[k] = "blank" /\ place # "quoted")
  <2>1. PICK p : p = PieceAt(line, k, place = "quoted")
    OBVIOUS
  <2>2. k \in 1 .. Len(line) /\ Len(line) \in Nat
    BY <1>3
  <2>3. /\ p.bytes \in Seq(Byte) /\ p.units \in Nat \ {0} /\ p.quoted \in BOOLEAN
        /\ k + p.units <= Len(line) + 1
    BY <2>1, <2>2, PieceShape
  <2> DEFINE args == F[k + p.units][IF p.quoted THEN "quoted" ELSE "plain"]
  <2>4. k + p.units \in k + 1 .. Len(line) + 1
    BY <2>2, <2>3
  <2>5. args \in Arglist /\ args # <<>>
    BY <2>4 DEF LineArgs, Places
  <2>6. ArgsAt(line, F, k)[place] = Before(p.bytes, args)
    BY <1>3, <2>1 DEF ArgsAt
  <2> HIDE DEF args
  <2> QED
    BY <2>3, <2>5, <2>6, BeforeShape
<1> QED
  BY <1>1, <1>2, <1>3

\* So they are what ArgsAt makes of those further on.
LEMMA FromUnfolds ==
  ASSUME NEW line \in Seq(Unit)
  PROVE  /\ From(line) = [k \in 1 .. Len(line) + 1 |-> ArgsAt(line, From(line), k)]
         /\ \A k \in 1 .. Len(line) + 1 : From(line)[k] \in LineArgs
<1> DEFINE N == Len(line) + 1
           S == {k \in 1 .. N : \E G : \A j \in k .. N : G[j] = ArgsAt(line, G, j)}
<1>1. N \in Nat /\ N # 0
  OBVIOUS
<1>2. ASSUME NEW k \in 1 .. N, \A j \in k + 1 .. N : j \in S
      PROVE  k \in S
  <2>1. PICK G : \A j \in k + 1 .. N : G[j] = ArgsAt(line, G, j)
    <3>1. CASE k = N
      BY <1>1, <3>1
    <3>2. CASE k # N
      <4>1. k + 1 \in S
        <5>1. k + 1 \in k + 1 .. N
          BY <1>1, <3>2
        <5> HIDE DEF S, N
        <5> QED
          BY <1>2, <5>1
      <4> QED
        BY <4>1
    <3> QED
      BY <3>1, <3>2
  <2> DEFINE H == [j \in 1 .. N |-> IF j = k THEN ArgsAt(line, G, k) ELSE G[j]]
  <2>2. ASSUME NEW j \in k .. N PROVE H[j] = ArgsAt(line, H, j)
    <3>1. j \in 1 .. N /\ \A m \in j + 1 .. N : G[m] = H[m]
      BY <1>1
    <3>2. ArgsAt(line, G, j) = ArgsAt(line, H, j)
      <4> HIDE DEF H
      <4> QED
        BY <3>1, ArgsLater
    <3>3. H[j] = ArgsAt(line, G, j)
      BY <1>1, <2>1, <3>1
    <3> QED
      BY <3>2, <3>3
  <2> HIDE DEF H
  <2> QED
    BY <2>2
<1>3. 1 \in S
  <2> HIDE DEF S
  <2>1. \A k \in 1 .. N : k \in S
    BY <1>1, <1>2, Downward
  <2> QED
    BY <1>1, <2>1
<1>4. PICK G : \A j \in 1 .. N : G[j] = ArgsAt(line, G, j)
  BY <1>3
<1> DEFINE Is(F) == F = [k \in 1 .. N |-> ArgsAt(line, F, k)]
<1>5. \E F : Is(F)
  <2> DEFINE H == [k \in 1 .. N |-> G[k]]
  <2>1. \A k \in 1 .. N : ArgsAt(line, G, k) = ArgsAt(line, H, k)
    <3> SUFFICES ASSUME NEW k \in 1 .. N PROVE ArgsAt(line, G, k) = ArgsAt(line, H, k)
      OBVIOUS
    <3>1. \A j \in k + 1 .. N : G[j] = H[j]
      BY <1>1
    <3> HIDE DEF H
    <3> QED
      BY <3>1, ArgsLater
  <2>2. Is(H)
    BY <1>4, <2>1
  <2> QED
    BY <2>2
<1>6. From(line) = CHOOSE F : Is(F)
  BY DEF From
<1>7. Is(From(line))
  <2> HIDE DEF Is
  <2> QED
    BY <1>5, <1>6
<1>8. \A k \in 1 .. N : From(line)[k] \in LineArgs
  <2> DEFINE T == {k \in 1 .. N : From(line)[k] \in LineArgs}
  <2>1. ASSUME NEW k \in 1 .. N, \A j \in k + 1 .. N : j \in T
        PROVE  k \in T
    <3>1. From(line)[k] = ArgsAt(line, From(line), k)
      BY <1>7
    <3>2. \A j \in k + 1 .. N : From(line)[j] \in LineArgs
      BY <2>1
    <3>3. ArgsAt(line, From(line), k) \in LineArgs
      BY <3>2, ArgsTyped
    <3> QED
      BY <3>1, <3>3
  <2> HIDE DEF T
  <2>2. \A k \in 1 .. N : k \in T
    BY <1>1, <2>1, Downward
  <2> QED
    BY <2>2 DEF T
<1> QED
  BY <1>7, <1>8

-----------------------------------------------------------------------------
(* What has been taken and what is left                                    *)

\* Bytes that are written behind others leave those as they are.
LEMMA PrefixKept ==
  ASSUME NEW s \in Seq(Byte), NEW t \in Seq(Byte), NEW m \in Nat, NEW n \in Nat, m + n <= Len(s)
  PROVE  /\ SubSeq(s \o t, m + 1, m + n) = SubSeq(s, m + 1, m + n)
         /\ SubSeq(s, m + 1, m + n) \in Seq(Byte)
<1>1. Len(s) \in Nat /\ m + 1 \in Int /\ m + n \in Int
  OBVIOUS
<1>2. CASE n = 0
  <2>1. m + n < m + 1
    BY <1>2
  <2>2. SubSeq(s \o t, m + 1, m + n) = <<>> /\ SubSeq(s, m + 1, m + n) = <<>>
    BY <1>1, <2>1, SubSeqEmpty
  <2> QED
    BY <2>2
<1>3. CASE n # 0
  <2>1. m + 1 \in 1 .. Len(s) /\ m + n \in 1 .. Len(s)
    BY <1>1, <1>3
  <2>2. \A j \in m + 1 .. m + n : s[j] \in Byte
    BY <1>1
  <2> QED
    BY <1>1, <2>1, <2>2, SubSeqOfConcat1, SubSeqProperties
<1> QED
  BY <1>2, <1>3

\* Bytes that are written behind the last ones go on where those end.
LEMMA SuffixGrows ==
  ASSUME NEW s \in Seq(Byte), NEW t \in Seq(Byte), NEW c \in 0 .. Len(s)
  PROVE  SubSeq(s \o t, c + 1, Len(s) + Len(t)) = SubSeq(s, c + 1, Len(s)) \o t
<1> DEFINE L == Len(s)
           M == Len(t)
<1>1. /\ L \in Nat /\ M \in Nat /\ s \o t \in Seq(Byte) /\ Len(s \o t) = L + M
      /\ c \in Nat /\ c <= L
  BY ConcatProperties
<1>2. SubSeq(s \o t, L + 1, L + M) = t
  <2>1. CASE M = 0
    <3>1. t = <<>>
      BY <2>1, EmptySeq
    <3>2. L + M < L + 1 /\ L + M \in Int /\ L + 1 \in Int
      BY <1>1, <2>1
    <3> HIDE DEF L, M
    <3> QED
      BY <3>1, <3>2, SubSeqEmpty
  <2>2. CASE M # 0
    <3>1. L + 1 \in L + 1 .. L + M /\ L + M \in L + 1 .. L + M
      BY <1>1, <2>2
    <3>2. SubSeq(s \o t, L + 1, L + M) = SubSeq(t, (L + 1) - L, (L + M) - L)
      BY <3>1, SubSeqOfConcat2
    <3>3. (L + 1) - L = 1 /\ (L + M) - L = M
      BY <1>1
    <3>4. SubSeq(t, 1, M) = t
      BY SubSeqFull
    <3> HIDE DEF L, M
    <3> QED
      BY <3>2, <3>3, <3>4
  <2> QED
    BY <2>1, <2>2
<1>3. SubSeq(s \o t, c + 1, L) = SubSeq(s, c + 1, L)
  <2> DEFINE n == L - c
  <2>1. n \in Nat /\ c + n = L
    BY <1>1
  <2> HIDE DEF n
  <2>2. c + n <= Len(s)
    BY <1>1, <2>1
  <2>3. SubSeq(s \o t, c + 1, c + n) = SubSeq(s, c + 1, c + n)
    BY <1>1, <2>1, <2>2, PrefixKept
  <2> QED
    BY <2>1, <2>3
<1>4. SubSeq(s \o t, c + 1, L) \o SubSeq(s \o t, L + 1, L + M) = SubSeq(s \o t, c + 1, L + M)
  <2>1. /\ c + 1 \in 1 .. Len(s \o t) + 1 /\ L \in (c + 1) - 1 .. Len(s \o t)
        /\ L + M \in L .. Len(s \o t)
    BY <1>1
  <2> HIDE DEF L, M
  <2> QED
    BY <1>1, <2>1, ConcatAdjacentSubSeq
<1> QED
  BY <1>2, <1>3, <1>4

\* The slices handed out so far keep their bytes.
LEMMA ResultKept ==
  ASSUME IInv
  PROVE  /\ Result \in Arglist /\ Len(Result) = Len(slices)
         /\ \A b \in Seq(Byte) : slices' = slices /\ data' = data \o b => Result' = Result
<1>1. /\ slices \in Seq(Slice) /\ data \in Seq(Byte) /\ DOMAIN slices = 1 .. Len(slices)
      /\ Len(slices) \in Nat
  BY DEF IInv, BuffersHold
<1>2. \A k \in DOMAIN slices : /\ slices[k].off \in Nat /\ slices[k].len \in Nat
                               /\ slices[k].off + slices[k].len <= Len(data)
  <2>1. \A k \in DOMAIN slices : slices[k] \in Slice
    BY <1>1
  <2>2. \A k \in DOMAIN slices : slices[k].off + slices[k].len <= Len(data)
    BY DEF IInv, BuffersHold, SlicesApart
  <2> QED
    BY <2>1, <2>2 DEF Slice
<1>3. \A k \in DOMAIN slices :
        SubSeq(data, slices[k].off + 1, slices[k].off + slices[k].len) \in Seq(Byte)
  BY <1>1, <1>2, PrefixKept
<1>4. Result \in [1 .. Len(slices) -> Seq(Byte)]
  BY <1>1, <1>3 DEF Result
<1>5. Result \in Arglist /\ Len(Result) = Len(slices)
  BY <1>1, <1>4 DEF Arglist
<1>6. ASSUME NEW b \in Seq(Byte), slices' = slices, data' = data \o b
      PROVE  Result' = Result
  <2>1. \A k \in DOMAIN slices :
          SubSeq(data', slices[k].off + 1, slices[k].off + slices[k].len)
            = SubSeq(data, slices[k].off + 1, slices[k].off + slices[k].len)
    BY ZenonT(60), <1>1, <1>2, <1>6, PrefixKept
  <2> QED
    BY <1>6, <2>1 DEF Result
<1> QED
  BY <1>5, <1>6

\* Where the scan is, the arguments of the line from there on, the bytes of the
\* open argument, and all that is known of the split.
Place     == IF ~ arg_open THEN "gap" ELSE IF in_quotes THEN "quoted" ELSE "plain"
Remaining == From(cmdline)[i][Place]
Open      == SubSeq(data, cur_off + 1, cur_off + cur_len)
Whole     == Result \o (IF arg_open THEN Before(Open, Remaining) ELSE Remaining)

\* A region is quoted only inside of an argument, which has a slot to go to.
OpenOK == phase = "parsing" => /\ ~ arg_open => ~ in_quotes
                               /\ arg_open => Len(slices) < slices_cap

\* What the types of all these are.
LEMMA Known ==
  ASSUME IInv, OpenOK, phase = "parsing"
  PROVE  /\ Result \in Arglist /\ Remaining \in Arglist
         /\ arg_open => /\ Remaining # <<>> /\ Open \in Seq(Byte)
                        /\ Before(Open, Remaining) \in Arglist
                        /\ cur_off \in Nat /\ cur_len \in Nat /\ cur_off + cur_len = Len(data)
<1>1. From(cmdline)[i] \in LineArgs
  BY FromUnfolds DEF IInv, Given, BuffersHold
<1>2. Remaining \in Arglist /\ (arg_open => Remaining # <<>>)
  BY <1>1 DEF Remaining, Place, Places, LineArgs
<1>3. arg_open => /\ cur_off \in Nat /\ cur_len \in Nat /\ cur_off + cur_len = Len(data)
                  /\ Open \in Seq(Byte)
  <2>1. arg_open => cur_off \in Nat /\ cur_len \in Nat /\ cur_off + cur_len = Len(data)
    BY DEF IInv, BuffersHold, SlicesApart
  <2>2. data \in Seq(Byte) /\ Len(data) \in Nat
    BY DEF IInv, BuffersHold
  <2>3. arg_open => cur_off + cur_len <= Len(data)
    BY <2>1, <2>2
  <2> QED
    BY <2>1, <2>2, <2>3, PrefixKept DEF Open
<1> QED
  BY <1>2, <1>3, ResultKept, BeforeShape

\* Three sequences, one after the other.
LEMMA Grouping ==
  /\ \A s, t, r \in Seq(Byte) : (s \o t) \o r = s \o (t \o r)
  /\ \A s, t, r \in Seq(Plain) : (s \o t) \o r = s \o (t \o r)
  /\ \A s, t, r \in Arglist : (s \o t) \o r = s \o (t \o r)
<1>1. \A s, t, r \in Seq(Byte) : (s \o t) \o r = s \o (t \o r)
  BY ConcatAssociative
<1>2. \A s, t, r \in Seq(Plain) : (s \o t) \o r = s \o (t \o r)
  BY ConcatAssociative
<1>3. \A s, t, r \in Seq(Seq(Byte)) : (s \o t) \o r = s \o (t \o r)
  BY SMTT(40), ConcatAssociative
<1> QED
  BY <1>1, <1>2, <1>3 DEF Arglist

\* Bytes go before the rest of an argument one after the other.
LEMMA BeforeTwice ==
  ASSUME NEW a \in Seq(Byte), NEW b \in Seq(Byte), NEW args \in Arglist, args # <<>>
  PROVE  Before(a \o b, args) = Before(a, Before(b, args))
<1>1. /\ Head(Before(b, args)) = b \o Head(args) /\ Tail(Before(b, args)) = Tail(args)
      /\ Head(args) \in Seq(Byte)
  BY BeforeShape, HeadTailProperties DEF Arglist
<1>2. (a \o b) \o Head(args) = a \o (b \o Head(args))
  <2> DEFINE h == Head(args)
  <2>1. h \in Seq(Byte)
    BY <1>1
  <2> HIDE DEF h
  <2>2. (a \o b) \o h = a \o (b \o h)
    BY <2>1, ConcatAssociative
  <2> QED
    BY <2>2 DEF h
<1> QED
  BY <1>1, <1>2 DEF Before

\* A piece that is taken: its bytes go from what is left to what is there.
LEMMA TakeWhole ==
  ASSUME IInv, OpenOK, InArgument, NEW p, p = PieceAt(cmdline, i, in_quotes),
         Take(p.bytes, p.units, p.quoted)
  PROVE  Whole' = Whole /\ OpenOK'
<1>1. /\ phase = "parsing" /\ i \in 1 .. Len(cmdline) /\ Len(cmdline) \in Nat
      /\ cmdline \in Seq(Unit) /\ in_quotes \in BOOLEAN /\ ~ Gap
      /\ data \in Seq(Byte) /\ Len(data) \in Nat /\ At(i) = cmdline[i]
  BY Counted DEF InArgument, IInv, Given, BuffersHold, At
<1>2. /\ p.bytes \in Seq(Byte) /\ p.units \in Nat \ {0} /\ p.quoted \in BOOLEAN
      /\ i + p.units <= Len(cmdline) + 1
  BY <1>1, PieceShape
<1>3. /\ data' = data \o p.bytes /\ i' = i + p.units /\ in_quotes' = p.quoted /\ arg_open'
      /\ cur_off' = (IF arg_open THEN cur_off ELSE Len(data))
      /\ cur_len' = (IF arg_open THEN cur_len ELSE 0) + Len(p.bytes)
      /\ cmdline' = cmdline /\ slices' = slices /\ slices_cap' = slices_cap /\ phase' = phase
  BY DEF Take, inputs
<1>4. Result' = Result
  BY <1>2, <1>3, ResultKept
<1>5. /\ Remaining' = From(cmdline)[i + p.units][IF p.quoted THEN "quoted" ELSE "plain"]
      /\ Remaining' \in Arglist /\ Remaining' # <<>>
  <2>1. Remaining' = From(cmdline)[i + p.units][IF p.quoted THEN "quoted" ELSE "plain"]
    BY <1>2, <1>3 DEF Remaining, Place
  <2>2. From(cmdline)[i + p.units] \in LineArgs
    BY <1>1, <1>2, FromUnfolds
  <2> QED
    BY <1>2, <2>1, <2>2 DEF LineArgs, Places
<1>6. Remaining = Before(p.bytes, Remaining')
  <2>1. From(cmdline)[i] = ArgsAt(cmdline, From(cmdline), i)
    BY <1>1, FromUnfolds
  <2>2. (Place = "quoted") = in_quotes /\ Place \in Places
    BY <1>1 DEF OpenOK, Place, Places
  <2>3. ~ (cmdline[i] = "blank" /\ Place # "quoted") /\ i # Len(cmdline) + 1
    BY <1>1, <2>2 DEF Gap
  <2>4. ArgsAt(cmdline, From(cmdline), i)[Place] = Before(p.bytes, Remaining')
    BY <1>5, <2>2, <2>3 DEF ArgsAt
  <2> QED
    BY <2>1, <2>4 DEF Remaining
<1>7. Open' = IF arg_open THEN Open \o p.bytes ELSE p.bytes
  <2> DEFINE c == IF arg_open THEN cur_off ELSE Len(data)
             b == p.bytes
  <2>1. /\ arg_open => /\ cur_off \in Nat /\ cur_len \in Nat /\ cur_off + cur_len = Len(data)
        /\ Len(b) \in Nat
    BY <1>1, <1>2, Known
  <2>2. c \in 0 .. Len(data)
    BY <1>1, <2>1
  <2>3. cur_off' = c /\ cur_off' + cur_len' = Len(data) + Len(b)
    <3> DEFINE l == IF arg_open THEN cur_len ELSE 0
    <3>1. c + l = Len(data) /\ l \in Nat /\ c \in Nat
      BY <1>1, <2>1
    <3>2. cur_off' = c /\ cur_len' = l + Len(b)
      BY <1>3
    <3> HIDE DEF b, c, l
    <3> QED
      BY <1>1, <2>1, <3>1, <3>2
  <2>4. SubSeq(data \o b, c + 1, Len(data) + Len(b)) = SubSeq(data, c + 1, Len(data)) \o b
    <3> HIDE DEF b, c
    <3> QED
      BY <1>1, <1>2, <2>2, SuffixGrows DEF b
  <2>5. Open' = SubSeq(data, c + 1, Len(data)) \o b
    <3> HIDE DEF b, c
    <3> QED
      BY <1>3, <2>3, <2>4 DEF Open, b
  <2>6. CASE arg_open
    <3>1. SubSeq(data, c + 1, Len(data)) = Open
      BY <2>1, <2>6 DEF Open
    <3> QED
      BY <2>5, <2>6, <3>1
  <2>7. CASE ~ arg_open
    <3>1. SubSeq(data, c + 1, Len(data)) = <<>>
      <4>1. Len(data) < Len(data) + 1 /\ c = Len(data)
        BY <1>1, <2>7
      <4> QED
        BY <1>1, <4>1, SubSeqEmpty
    <3>2. <<>> \o b = b
      BY <1>2, ConcatEmptySeq
    <3> QED
      BY <2>5, <2>7, <3>1, <3>2
  <2> QED
    BY <2>6, <2>7
<1>8. Whole' = Result \o Before(Open', Remaining')
  BY <1>3, <1>4 DEF Whole
<1>9. CASE arg_open
  <2>1. Before(Open', Remaining') = Before(Open, Remaining)
    BY SMTT(40), <1>1, <1>2, <1>5, <1>6, <1>7, <1>9, Known, BeforeTwice
  <2> QED
    BY <1>3, <1>8, <1>9, <2>1 DEF Whole, OpenOK
<1>10. CASE ~ arg_open
  <2>1. Len(slices) < slices_cap
    BY <1>10 DEF InArgument
  <2> QED
    BY <1>3, <1>6, <1>7, <1>8, <1>10, <2>1 DEF Whole, OpenOK
<1> QED
  BY <1>9, <1>10

\* The call stops at a bound, with what it has handed out.
Stops == /\ phase' = "stopped" /\ UNCHANGED <<inputs, slices>>
         /\ \E b \in Seq(Byte) : data' = data \o b

\* What the loop sees of the line is what is in it.
LEMMA SameLine ==
  ASSUME IInv, i \in 1 .. Len(cmdline)
  PROVE  /\ At(i) = cmdline[i] /\ cmdline[i] \in Unit
         /\ \A a, b : a # NUL /\ b # NUL =>
              (TwoAt(cmdline, i, a, b) <=> At(i) = a /\ At(i + 1) = b)
         /\ At(i) # "backslash" => LeadingRun(cmdline, i) = 0
         /\ At(i) = "backslash" =>
              /\ LeadingRun(cmdline, i) = Run(i) /\ Run(i) \in Nat \ {0}
              /\ (i + Run(i) \in DOMAIN cmdline /\ cmdline[i + Run(i)] = "quote")
                   <=> At(i + Run(i)) = "quote"
<1>1. cmdline \in Seq(Unit) /\ DOMAIN cmdline = 1 .. Len(cmdline) /\ Len(cmdline) \in Nat
  BY DEF IInv, Given
<1>2. At(i) = cmdline[i] /\ cmdline[i] \in Unit
  BY <1>1 DEF At
<1>3. \A a, b : a # NUL /\ b # NUL =>
        (TwoAt(cmdline, i, a, b) <=> At(i) = a /\ At(i + 1) = b)
  BY <1>1, <1>2 DEF TwoAt, At
<1>4. ASSUME At(i) # "backslash" PROVE LeadingRun(cmdline, i) = 0
  <2>1. /\ \A j \in i .. i + 0 - 1 : j \in DOMAIN cmdline /\ cmdline[j] = "backslash"
        /\ i + 0 \in DOMAIN cmdline => cmdline[i + 0] # "backslash"
    BY <1>2, <1>4
  <2> QED
    BY <1>1, <2>1, OneRun
<1>5. ASSUME At(i) = "backslash"
      PROVE  /\ LeadingRun(cmdline, i) = Run(i) /\ Run(i) \in Nat \ {0}
             /\ (i + Run(i) \in DOMAIN cmdline /\ cmdline[i + Run(i)] = "quote")
                  <=> At(i + Run(i)) = "quote"
  <2> DEFINE n == Run(i)
  <2>1. /\ n \in 1 .. Len(cmdline) /\ \A j \in i .. i + n - 1 : At(j) = "backslash"
        /\ At(i + n) # "backslash" /\ i + n <= Len(cmdline) + 1
    BY <1>1, <1>5, RunEnds
  <2> HIDE DEF n
  <2>2. ASSUME NEW j \in i .. i + n - 1 PROVE j \in DOMAIN cmdline /\ cmdline[j] = "backslash"
    BY <1>1, <2>1 DEF At
  <2>3. i + n \in DOMAIN cmdline => cmdline[i + n] # "backslash"
    BY <2>1 DEF At
  <2>4. LeadingRun(cmdline, i) = n
    <3>1. n \in Nat /\ i \in 1 .. Len(cmdline) + 1
      BY <1>1, <2>1
    <3> QED
      BY <1>1, <2>2, <2>3, <3>1, OneRun
  <2>5. (i + n \in DOMAIN cmdline /\ cmdline[i + n] = "quote") <=> At(i + n) = "quote"
    BY DEF At, NUL
  <2> QED
    BY <2>1, <2>4, <2>5 DEF n
<1> QED
  BY <1>2, <1>3, <1>4, <1>5

\* Fields of a piece.
LEMMA PieceFields ==
  \A b, u, q : /\ Piece(b, u, q).bytes = b /\ Piece(b, u, q).units = u
               /\ Piece(b, u, q).quoted = q
BY DEF Piece

\* A call that is left with nothing more written.
LEMMA StopStops ==
  ASSUME IInv, Stop
  PROVE  Stops
<1>1. data \in Seq(Byte) /\ data' = data /\ <<>> \in Seq(Byte)
  BY DEF Stop, IInv, BuffersHold
<1>2. data' = data \o <<>>
  BY <1>1, ConcatEmptySeq
<1> QED
  BY <1>1, <1>2 DEF Stop, Stops

\* Each branch of the loop takes the piece that is there, or stops where its
\* bytes do not fit.
Branches == \/ DoubledQuote \/ CloseQuote \/ OpenQuote
            \/ EvenRunQuote \/ OddRunQuote \/ LiteralRun \/ Ordinary

LEMMA BranchPiece ==
  ASSUME IInv, Branches, NEW p, p = PieceAt(cmdline, i, in_quotes)
  PROVE  /\ InArgument /\ Iterates
         /\ \/ Fits(p.bytes) /\ Take(p.bytes, p.units, p.quoted)
            \/ ~ Fits(p.bytes) /\ Stops
<1>1. InArgument /\ Iterates
  BY DEF Branches, DoubledQuote, CloseQuote, OpenQuote, EvenRunQuote, OddRunQuote,
         LiteralRun, Ordinary, InArgument
<1>2. i \in 1 .. Len(cmdline) /\ in_quotes \in BOOLEAN
  BY <1>1, Counted DEF IInv, BuffersHold
<1>3. /\ At(i) = cmdline[i] /\ cmdline[i] \in Unit
      /\ TwoAt(cmdline, i, "quote", "quote") <=> At(i) = "quote" /\ At(i + 1) = "quote"
      /\ TwoAt(cmdline, i, "high", "low") <=> At(i) = "high" /\ At(i + 1) = "low"
      /\ At(i) # "backslash" => LeadingRun(cmdline, i) = 0
  BY <1>2, SameLine DEF NUL
<1>4. Fits(<<>>)
  BY DEF Fits, IInv, Given, BuffersHold
<1>5. ASSUME At(i) = "quote"
      PROVE  p = IF in_quotes
                   THEN IF At(i + 1) = "quote" THEN Piece(<<"quote">>, 2, TRUE)
                        ELSE Piece(<<>>, 1, FALSE)
                   ELSE Piece(<<>>, 1, TRUE)
  <2>1. ~ (LeadingRun(cmdline, i) > 0)
    BY <1>3, <1>5
  <2>2. p = IF in_quotes /\ TwoAt(cmdline, i, "quote", "quote")
              THEN Piece(<<"quote">>, 2, in_quotes)
            ELSE Piece(<<>>, 1, ~ in_quotes)
    BY <1>3, <1>5, <2>1 DEF PieceAt
  <2>3. (in_quotes => (~ in_quotes) = FALSE /\ in_quotes = TRUE)
        /\ (~ in_quotes => (~ in_quotes) = TRUE)
    BY <1>2
  <2> QED
    BY <1>3, <1>5, <2>2, <2>3
<1>6. CASE DoubledQuote
  <2>1. /\ At(i) = "quote" /\ At(i + 1) = "quote" /\ in_quotes
        /\ IF Fits(<<"quote">>) THEN Take(<<"quote">>, 2, TRUE) ELSE Stop
    BY <1>6 DEF DoubledQuote
  <2>2. p = Piece(<<"quote">>, 2, TRUE)
    BY <1>5, <2>1
  <2>3. p.bytes = <<"quote">> /\ p.units = 2 /\ p.quoted = TRUE
    BY <2>2 DEF Piece
  <2> QED
    BY <1>1, <2>1, <2>3, StopStops
<1>7. CASE CloseQuote
  <2>1. At(i) = "quote" /\ At(i + 1) # "quote" /\ in_quotes /\ Take(<<>>, 1, FALSE)
    BY <1>7 DEF CloseQuote
  <2>2. p = Piece(<<>>, 1, FALSE)
    BY <1>5, <2>1
  <2>3. p.bytes = <<>> /\ p.units = 1 /\ p.quoted = FALSE
    BY <2>2 DEF Piece
  <2> QED
    BY <1>1, <1>4, <2>1, <2>3
<1>8. CASE OpenQuote
  <2>1. At(i) = "quote" /\ ~ in_quotes /\ Take(<<>>, 1, TRUE)
    BY <1>8 DEF OpenQuote
  <2>2. p = Piece(<<>>, 1, TRUE)
    BY <1>5, <2>1
  <2>3. p.bytes = <<>> /\ p.units = 1 /\ p.quoted = TRUE
    BY <2>2 DEF Piece
  <2> QED
    BY <1>1, <1>4, <2>1, <2>3
<1> DEFINE n == Run(i)
           half == Backslashes(n \div 2)
<1>9. ASSUME At(i) = "backslash"
      PROVE  /\ p = RunPiece(n, At(i + n) = "quote", in_quotes) /\ n \in Nat \ {0}
             /\ half \in Seq(Byte)
  <2>1. /\ LeadingRun(cmdline, i) = n /\ n \in Nat \ {0}
        /\ (i + n \in DOMAIN cmdline /\ cmdline[i + n] = "quote") = (At(i + n) = "quote")
    <3>1. /\ LeadingRun(cmdline, i) = n /\ n \in Nat \ {0}
          /\ (i + n \in DOMAIN cmdline /\ cmdline[i + n] = "quote") <=> (At(i + n) = "quote")
      BY <1>2, <1>9, SameLine
    <3> HIDE DEF n
    <3> QED
      BY <3>1
  <2>2. n \div 2 \in Nat
    BY <2>1
  <2>3. half \in Seq(Byte)
    BY <2>2, BackslashBytes
  <2>4. LeadingRun(cmdline, i) > 0
    BY <2>1
  <2> HIDE DEF n, half
  <2>5. p = RunPiece(n, i + n \in DOMAIN cmdline /\ cmdline[i + n] = "quote", in_quotes)
    BY <2>1, <2>4 DEF PieceAt
  <2> QED
    BY <2>1, <2>3, <2>5
<1> HIDE DEF n, half
<1>10. CASE EvenRunQuote
  <2>1. /\ At(i) = "backslash" /\ At(i + n) = "quote" /\ n % 2 = 0
        /\ IF Fits(half) THEN Take(half, n + 1, ~ in_quotes) ELSE Stop
    BY <1>10 DEF EvenRunQuote, n, half
  <2>2. p = Piece(half, n + 1, ~ in_quotes)
    BY <1>9, <2>1 DEF RunPiece, half
  <2> QED
    BY <1>1, <2>1, <2>2, PieceFields, StopStops
<1>11. CASE OddRunQuote
  <2> DEFINE bytes == half \o <<"quote">>
  <2>1. /\ At(i) = "backslash" /\ At(i + n) = "quote" /\ n % 2 = 1
        /\ IF Fits(bytes) THEN Take(bytes, n + 1, in_quotes)
           ELSE /\ data' = IF Fits(half) THEN data \o half ELSE data
                /\ phase' = "stopped"
                /\ UNCHANGED <<inputs, i, slices, current>>
    BY <1>11 DEF OddRunQuote, n, half
  <2>2. p = Piece(bytes, n + 1, in_quotes)
    BY <1>9, <2>1 DEF RunPiece, half
  <2> HIDE DEF bytes
  <2>3. CASE Fits(bytes)
    BY <1>1, <2>1, <2>2, <2>3, PieceFields
  <2>4. CASE ~ Fits(bytes)
    <3>1. data \in Seq(Byte) /\ <<>> \in Seq(Byte) /\ data \o <<>> = data
      BY ConcatEmptySeq DEF IInv, BuffersHold
    <3>2. \E b \in Seq(Byte) : data' = data \o b
      <4>1. CASE Fits(half)
        BY <1>9, <2>1, <2>4, <4>1
      <4>2. CASE ~ Fits(half)
        BY <2>1, <2>4, <3>1, <4>2
      <4> QED
        BY <4>1, <4>2
    <3>3. Stops
      BY <2>1, <2>4, <3>2 DEF Stops
    <3> QED
      BY <1>1, <2>2, <2>4, <3>3, PieceFields
  <2> QED
    BY <2>3, <2>4
<1>12. CASE LiteralRun
  <2> DEFINE bytes == Backslashes(n)
  <2>1. /\ At(i) = "backslash" /\ At(i + n) # "quote"
        /\ IF Fits(bytes) THEN Take(bytes, n, in_quotes) ELSE Stop
    BY <1>12 DEF LiteralRun, n
  <2>2. p = Piece(bytes, n, in_quotes)
    BY <1>9, <2>1 DEF RunPiece
  <2> HIDE DEF bytes
  <2> QED
    BY <1>1, <2>1, <2>2, PieceFields, StopStops
<1>13. CASE Ordinary
  <2> DEFINE e == Encoded(i)
  <2>1. /\ At(i) \notin {"quote", "backslash"}
        /\ IF Fits(e.bytes) THEN Take(e.bytes, e.units, in_quotes) ELSE Stop
    BY <1>13 DEF Ordinary
  <2>2. ~ (LeadingRun(cmdline, i) > 0)
    BY <1>3, <2>1
  <2>3. p = IF TwoAt(cmdline, i, "high", "low") THEN Piece(Pair, 2, in_quotes)
            ELSE Piece(IF cmdline[i] \in {"high", "low"} THEN Replacement ELSE <<cmdline[i]>>,
                       1, in_quotes)
    BY <1>3, <2>1, <2>2 DEF PieceAt
  <2>4. p.bytes = e.bytes /\ p.units = e.units /\ p.quoted = in_quotes
    BY <1>3, <2>3, PieceFields DEF Encoded
  <2> HIDE DEF e
  <2> QED
    BY <1>1, <2>1, <2>4, StopStops
<1> QED
  BY <1>6, <1>7, <1>8, <1>10, <1>11, <1>12, <1>13 DEF Branches

-----------------------------------------------------------------------------
(* The steps of the loop                                                   *)

\* What is handed out is the beginning of the split, and with what is open and
\* what is left all of it.
SplitSoFar ==
  /\ phase = "parsing" => Split(cmdline) = Whole
  /\ \E more \in Arglist : Split(cmdline) = Result \o more
  /\ phase = "done" => Split(cmdline) = Result

\* An argument that is closed goes from the bytes into the result.
LEMMA ArgumentCloses ==
  ASSUME IInv, OpenOK, phase = "parsing", arg_open, NEW R \in Arglist,
         slices' = Append(slices, [off |-> cur_off, len |-> cur_len]), data' = data
  PROVE  Result' \o R = Result \o Before(Open, << <<>> >> \o R)
<1>1. /\ slices \in Seq(Slice) /\ DOMAIN slices = 1 .. Len(slices) /\ Len(slices) \in Nat
      /\ cur_off \in Nat /\ cur_len \in Nat
      /\ Open \in Seq(Byte) /\ Result \in Arglist /\ Len(Result) = Len(slices)
  BY Known, ResultKept DEF IInv, BuffersHold
<1> DEFINE new == [off |-> cur_off, len |-> cur_len]
<1>2. /\ new.off = cur_off /\ new.len = cur_len /\ new \in Slice
  BY <1>1 DEF Slice
<1>3. /\ DOMAIN slices' = 1 .. Len(slices) + 1 /\ slices'[Len(slices) + 1] = new
      /\ \A k \in 1 .. Len(slices) : slices'[k] = slices[k]
  <2> HIDE DEF new
  <2> QED
    BY <1>1, <1>2 DEF new
<1> HIDE DEF new
<1>4. Result' = Append(Result, Open)
  <2>1. /\ Append(Result, Open) \in Arglist /\ Len(Append(Result, Open)) = Len(slices) + 1
        /\ \A k \in 1 .. Len(slices) : Append(Result, Open)[k] = Result[k]
        /\ Append(Result, Open)[Len(slices) + 1] = Open
    BY <1>1, AppendProperties DEF Arglist
  <2>2. \A k \in 1 .. Len(slices) : Result[k] =
          SubSeq(data, slices[k].off + 1, slices[k].off + slices[k].len)
    BY <1>1 DEF Result
  <2>3. Result' = [k \in 1 .. Len(slices) + 1 |->
                     SubSeq(data, slices'[k].off + 1, slices'[k].off + slices'[k].len)]
    BY <1>3 DEF Result
  <2>4. \A k \in 1 .. Len(slices) + 1 : Append(Result, Open)[k] =
          SubSeq(data, slices'[k].off + 1, slices'[k].off + slices'[k].len)
    <3> SUFFICES ASSUME NEW k \in 1 .. Len(slices) + 1
                 PROVE  Append(Result, Open)[k] =
                          SubSeq(data, slices'[k].off + 1, slices'[k].off + slices'[k].len)
      OBVIOUS
    <3>1. CASE k \in 1 .. Len(slices)
      BY <1>3, <2>1, <2>2, <3>1
    <3>2. CASE k = Len(slices) + 1
      BY <1>2, <1>3, <2>1, <3>2 DEF Open
    <3> QED
      BY <1>1, <3>1, <3>2
  <2>5. Append(Result, Open) = [k \in 1 .. Len(slices) + 1 |-> Append(Result, Open)[k]]
    BY <2>1, LenProperties DEF Arglist
  <2> QED
    BY <2>3, <2>4, <2>5
<1>5. Before(Open, << <<>> >> \o R) = <<Open>> \o R
  <2>1. <<>> \in Seq(Byte)
    OBVIOUS
  <2>2. Head(<< <<>> >> \o R) = <<>> /\ Tail(<< <<>> >> \o R) = R
    BY <2>1 DEF Arglist
  <2>3. Open \o <<>> = Open
    BY <1>1, ConcatEmptySeq
  <2> QED
    BY <2>2, <2>3 DEF Before
<1>6. Append(Result, Open) = Result \o <<Open>>
  BY <1>1, AppendIsConcat DEF Arglist
<1>7. (Result \o <<Open>>) \o R = Result \o (<<Open>> \o R)
  <2>1. <<Open>> \in Arglist
    BY <1>1 DEF Arglist
  <2> QED
    BY SMTT(40), <1>1, <2>1, Grouping
<1> QED
  BY <1>4, <1>5, <1>6, <1>7

\* A blank outside of a region separates.
LEMMA GapLeft ==
  ASSUME IInv, i \in 1 .. Len(cmdline), At(i) = "blank", ~ in_quotes
  PROVE  /\ Remaining = (IF arg_open THEN << <<>> >> ELSE <<>>) \o From(cmdline)[i + 1]["gap"]
         /\ From(cmdline)[i + 1]["gap"] \in Arglist
<1>1. /\ From(cmdline)[i] = ArgsAt(cmdline, From(cmdline), i)
      /\ From(cmdline)[i + 1] \in LineArgs /\ i # Len(cmdline) + 1
  BY FromUnfolds, SMTT(40) DEF IInv, Given
<1>2. Place \in Places /\ Place # "quoted" /\ (Place = "gap") = ~ arg_open
  BY DEF Place, Places
<1>3. cmdline[i] = "blank"
  BY SameLine
<1>4. Remaining = Ended(Place) \o From(cmdline)[i + 1]["gap"]
  BY <1>1, <1>2, <1>3 DEF Remaining, ArgsAt
<1> QED
  BY <1>1, <1>2, <1>4 DEF Ended, LineArgs, Places

\* A line that has ended leaves nothing, or the end of the argument at hand.
LEMMA EndLeft ==
  ASSUME IInv, i = Len(cmdline) + 1
  PROVE  Remaining = IF arg_open THEN << <<>> >> ELSE <<>>
<1>1. From(cmdline)[i] = ArgsAt(cmdline, From(cmdline), i)
  BY FromUnfolds DEF IInv, Given
<1>2. Place \in Places /\ (Place = "gap") = ~ arg_open
  BY DEF Place, Places
<1> QED
  BY <1>1, <1>2 DEF Remaining, ArgsAt, Ended

\* A step that stops leaves what is handed out as it is.
LEMMA StopSplit ==
  ASSUME IInv, OpenOK, SplitSoFar, Stops
  PROVE  OpenOK' /\ SplitSoFar'
<1>1. Result' = Result /\ cmdline' = cmdline /\ phase' = "stopped"
  BY ResultKept DEF Stops, inputs
<1>2. Split(cmdline)' = Split(cmdline)
  BY <1>1 DEF Split, From, ArgsAt, PieceAt, LeadingRun
<1> QED
  BY <1>1, <1>2 DEF OpenOK, SplitSoFar

\* The split is about the line alone.
LEMMA SameSplit == cmdline' = cmdline => Split(cmdline)' = Split(cmdline) /\ From(cmdline)' = From(cmdline)
BY DEF Split, From, ArgsAt, PieceAt, LeadingRun

\* While the loop runs, what is known is what has been handed out and more.
LEMMA WholeIsMore == IInv /\ OpenOK /\ phase = "parsing" /\ Split(cmdline) = Whole => SplitSoFar
<1> SUFFICES ASSUME IInv, OpenOK, phase = "parsing", Split(cmdline) = Whole PROVE SplitSoFar
  OBVIOUS
<1>1. Whole = Result \o (IF arg_open THEN Before(Open, Remaining) ELSE Remaining)
  BY DEF Whole
<1>2. (IF arg_open THEN Before(Open, Remaining) ELSE Remaining) \in Arglist
  BY Known
<1> QED
  BY <1>1, <1>2 DEF SplitSoFar

\* What is handed out are arguments.
LEMMA ResultTyped == IInv => Result \in Arglist
BY ResultKept

\* Nothing is handed out or open before the first unit.
LEMMA InitSplit == Init /\ IInv => OpenOK /\ SplitSoFar
<1> SUFFICES ASSUME Init, IInv PROVE OpenOK /\ SplitSoFar
  OBVIOUS
<1>1. OpenOK /\ phase = "parsing"
  BY DEF Init, OpenOK
<1>2. Result = <<>> /\ Remaining \in Arglist
  <2>1. Len(Result) = 0 /\ Result \in Arglist
    BY ResultKept DEF Init
  <2> QED
    BY <1>1, <2>1, Known, EmptySeq DEF Arglist
<1>3. Whole = Split(cmdline)
  <2>1. Remaining = Split(cmdline)
    BY DEF Init, Remaining, Place, Split
  <2>2. <<>> \o Remaining = Remaining
    BY <1>2, ConcatEmptySeq DEF Arglist
  <2> QED
    BY <1>2, <2>1, <2>2 DEF Whole, Init
<1> QED
  BY <1>1, <1>3, WholeIsMore

\* A step keeps account of the split.
LEMMA NextSplit ==
  ASSUME IInv, OpenOK, SplitSoFar, Next
  PROVE  OpenOK' /\ SplitSoFar'
<1>1. /\ phase = "parsing" /\ Split(cmdline) = Whole /\ IInv'
      /\ cmdline \in Seq(Unit) /\ Len(cmdline) \in Nat
  <2>1. phase = "parsing"
    BY DEF Next, UnitBound, SkipBlank, EndArgument, NoRoomToOpen, DoubledQuote, CloseQuote,
           OpenQuote, EvenRunQuote, OddRunQuote, LiteralRun, Ordinary, EndOfLine, InArgument,
           Iterates
  <2> QED
    BY <2>1, NextInv DEF SplitSoFar, IInv, Given
<1>0. /\ IInv' /\ OpenOK' /\ phase' = "parsing" /\ Split(cmdline)' = Whole' => SplitSoFar'
      /\ IInv' => (Result \in Arglist)'
  <2>1. (IInv /\ OpenOK /\ phase = "parsing" /\ Split(cmdline) = Whole => SplitSoFar)'
    BY WholeIsMore, PTL
  <2>2. (IInv => Result \in Arglist)'
    BY ResultTyped, PTL
  <2> QED
    BY <2>1, <2>2
<1>2. ASSUME Stop PROVE OpenOK' /\ SplitSoFar'
  BY <1>2, StopStops, StopSplit
<1>3. CASE UnitBound \/ NoRoomToOpen
  BY <1>2, <1>3 DEF UnitBound, NoRoomToOpen
<1>4. CASE SkipBlank
  <2>1. /\ i' = i + 1 /\ UNCHANGED <<inputs, slices, data, current, phase>>
        /\ At(i) = "blank" /\ ~ in_quotes /\ ~ arg_open /\ i \in 1 .. Len(cmdline)
    BY <1>4, Counted DEF SkipBlank, Gap
  <2>2. Result' = Result
    BY <2>1 DEF Result
  <2>3. Remaining = From(cmdline)[i + 1]["gap"]
    <3> DEFINE rest == From(cmdline)[i + 1]["gap"]
    <3>1. Remaining = <<>> \o rest /\ rest \in Arglist
      BY <2>1, GapLeft
    <3> HIDE DEF rest
    <3>2. <<>> \o rest = rest
      BY <3>1, ConcatEmptySeq DEF Arglist
    <3> QED
      BY <3>1, <3>2 DEF rest
  <2>4. Remaining' = Remaining
    BY <2>1, <2>3, SameSplit DEF Remaining, Place, current, inputs
  <2>5. Split(cmdline)' = Whole' /\ OpenOK' /\ phase' = "parsing"
    BY <1>1, <2>1, <2>2, <2>4, SameSplit DEF Whole, OpenOK, current, inputs
  <2> QED
    BY <1>0, <1>1, <2>5
<1>5. CASE EndArgument
  <2>1. /\ At(i) = "blank" /\ ~ in_quotes /\ arg_open /\ i \in 1 .. Len(cmdline)
        /\ Len(slices) < slices_cap /\ Len(slices) \in Nat /\ slices_cap \in Nat
    BY <1>1, <1>5, Counted DEF EndArgument, Gap, OpenOK, IInv, Given, BuffersHold
  <2>2. /\ slices' = Append(slices, [off |-> cur_off, len |-> cur_len])
        /\ arg_open' = FALSE /\ i' = i + 1
        /\ UNCHANGED <<inputs, data, cur_off, cur_len, in_quotes, phase>>
    BY <1>5, <2>1 DEF EndArgument
  <2> DEFINE rest == From(cmdline)[i + 1]["gap"]
  <2>3. Remaining = << <<>> >> \o rest /\ rest \in Arglist
    BY <2>1, GapLeft
  <2>4. Result' \o rest = Result \o Before(Open, << <<>> >> \o rest)
    BY <1>1, <2>1, <2>2, <2>3, ArgumentCloses
  <2>5. Remaining' = rest
    BY <2>2, SameSplit DEF Remaining, Place, inputs
  <2> HIDE DEF rest
  <2>6. Split(cmdline)' = Whole' /\ OpenOK' /\ phase' = "parsing"
    <3>1. Whole = Result \o Before(Open, << <<>> >> \o rest)
      BY <2>1, <2>3 DEF Whole
    <3>2. Whole' = Result' \o rest
      BY <2>2, <2>5 DEF Whole
    <3> QED
      BY <1>1, <2>1, <2>2, <2>4, <3>1, <3>2, SameSplit DEF OpenOK, inputs
  <2> QED
    BY <1>0, <1>1, <2>6
<1>6. CASE Branches
  <2>1. PICK p : p = PieceAt(cmdline, i, in_quotes)
    OBVIOUS
  <2>2. /\ InArgument
        /\ \/ Take(p.bytes, p.units, p.quoted)
           \/ Stops
    BY <1>6, <2>1, BranchPiece
  <2>3. CASE Stops
    BY <2>3, StopSplit
  <2>4. CASE Take(p.bytes, p.units, p.quoted)
    <3>1. Whole' = Whole /\ OpenOK' /\ phase' = "parsing" /\ cmdline' = cmdline
      BY <1>1, <2>1, <2>2, <2>4, TakeWhole DEF Take, inputs
    <3> QED
      BY <1>0, <1>1, <3>1, SameSplit
  <2> QED
    BY <2>2, <2>3, <2>4
<1>7. CASE EndOfLine
  <2>1. /\ At(i) = NUL /\ phase' = "done" /\ UNCHANGED <<inputs, i, unit_count, data, current>>
        /\ slices' = IF arg_open /\ Len(slices) < slices_cap
                      THEN Append(slices, [off |-> cur_off, len |-> cur_len]) ELSE slices
    BY <1>7 DEF EndOfLine
  <2>2. i = Len(cmdline) + 1
    <3>1. i \in 1 .. Len(cmdline) + 1
      BY DEF IInv, BuffersHold
    <3>2. i \notin 1 .. Len(cmdline)
      <4> SUFFICES ASSUME i \in 1 .. Len(cmdline) PROVE FALSE
        OBVIOUS
      <4> QED
        BY <2>1, SameLine DEF Unit, NUL
    <3> QED
      BY <1>1, <3>1, <3>2
  <2>3. Remaining = IF arg_open THEN << <<>> >> ELSE <<>>
    BY <2>2, EndLeft
  <2>4. Result \in Arglist /\ Result' \in Arglist /\ <<>> \in Arglist
    BY <1>0, <1>1, ResultKept DEF Arglist
  <2>5. Whole = Result'
    <3>1. CASE arg_open
      <4>1. Len(slices) < slices_cap
        BY <1>1, <3>1 DEF OpenOK
      <4>2. slices' = Append(slices, [off |-> cur_off, len |-> cur_len]) /\ data' = data
        BY <2>1, <3>1, <4>1
      <4>3. Result' \o <<>> = Result \o Before(Open, << <<>> >> \o <<>>)
        BY <1>1, <2>4, <3>1, <4>2, ArgumentCloses
      <4>4. << <<>> >> \o <<>> = << <<>> >>
        OBVIOUS
      <4>5. Result' \o <<>> = Result'
        <5>1. PICK r : r = Result'
          OBVIOUS
        <5> QED
          BY <2>4, <5>1, ConcatEmptySeq DEF Arglist
      <4> QED
        BY <2>3, <3>1, <4>3, <4>4, <4>5 DEF Whole
    <3>2. CASE ~ arg_open
      <4>1. Result' = Result
        BY <2>1, <3>2 DEF Result
      <4>2. Result \o <<>> = Result
        BY <2>4, ConcatEmptySeq DEF Arglist
      <4> QED
        BY <2>3, <3>2, <4>1, <4>2 DEF Whole
    <3> QED
      BY <3>1, <3>2
  <2>6. Split(cmdline)' = Result' /\ OpenOK'
    BY <1>1, <2>1, <2>5, SameSplit DEF OpenOK, inputs
  <2>7. \E more \in Arglist : Split(cmdline)' = Result' \o more
    <3>1. PICK r : r = Result'
      OBVIOUS
    <3>2. r \o <<>> = r
      BY <2>4, <3>1, ConcatEmptySeq DEF Arglist
    <3> QED
      BY <2>4, <2>6, <3>1, <3>2
  <2> QED
    BY <2>1, <2>6, <2>7 DEF SplitSoFar
<1> QED
  BY <1>3, <1>4, <1>5, <1>6, <1>7 DEF Next, Branches

-----------------------------------------------------------------------------
(* Room for everything                                                     *)

\* The bounds rt_proc.h derives: no line within the bound on units is cut short.
Roomy == /\ Len(cmdline) <= max_units
         /\ slices_cap >= (max_units + 1) \div 2
         /\ data_cap >= 3 * max_units

\* An iteration uses up a unit at least, a unit writes three bytes at most, and
\* an argument that is handed out took two units.
Counts == phase = "parsing" =>
            /\ unit_count <= i - 1
            /\ Len(data) <= 3 * (i - 1)
            /\ 2 * Len(slices) + (IF arg_open THEN 1 ELSE 0) <= i - 1

\* No piece has more than three bytes for each of its units.
LEMMA PieceSize ==
  ASSUME NEW line \in Seq(Unit), NEW k \in 1 .. Len(line), NEW quoted \in BOOLEAN,
         NEW p, p = PieceAt(line, k, quoted)
  PROVE  Len(p.bytes) <= 3 * p.units
<1> DEFINE n == LeadingRun(line, k)
           BeforeQuote == k + n \in DOMAIN line /\ line[k + n] = "quote"
           Fine(x) == Len(x.bytes) <= 3 * x.units
<1>1. n \in Nat
  BY LeadingRunEnds
<1>2. ASSUME n > 0 PROVE Fine(p)
  <2>1. p = RunPiece(n, BeforeQuote, quoted)
    BY <1>2 DEF PieceAt
  <2> DEFINE h == n \div 2
  <2>2. h \in Nat /\ h <= n
    BY <1>1
  <2>3. /\ Backslashes(h) \in Seq(Byte) /\ Len(Backslashes(h)) = h
        /\ Len(Backslashes(n)) = n
    BY <1>1, <2>2, BackslashBytes
  <2>4. Len(Backslashes(h) \o <<"quote">>) = h + 1
    <3> DEFINE b == Backslashes(h)
    <3>1. b \in Seq(Byte) /\ <<"quote">> \in Seq(Byte)
      BY <2>3 DEF Byte
    <3> HIDE DEF b
    <3>2. Len(b \o <<"quote">>) = Len(b) + 1
      BY <3>1
    <3> QED
      BY <2>3, <3>2 DEF b
  <2>5. \/ p = Piece(Backslashes(n), n, quoted)
        \/ p = Piece(Backslashes(h), n + 1, ~ quoted)
        \/ p = Piece(Backslashes(h) \o <<"quote">>, n + 1, quoted)
    <3> HIDE DEF n, BeforeQuote
    <3> QED
      BY <2>1 DEF RunPiece
  <2> HIDE DEF n, h
  <2>6. Fine(Piece(Backslashes(n), n, quoted))
    BY <1>1, <2>3 DEF Piece
  <2>7. Fine(Piece(Backslashes(h), n + 1, ~ quoted))
    BY <1>1, <2>2, <2>3 DEF Piece
  <2>8. Fine(Piece(Backslashes(h) \o <<"quote">>, n + 1, quoted))
    <3> DEFINE b == Backslashes(h) \o <<"quote">>
    <3>1. Len(b) = h + 1
      BY <2>4
    <3> HIDE DEF b
    <3> QED
      BY <1>1, <2>2, <3>1 DEF Piece, b
  <2> HIDE DEF Fine
  <2> QED
    BY <2>5, <2>6, <2>7, <2>8
<1>3. ASSUME ~ (n > 0) PROVE Fine(p)
  <2>1. \/ p = Piece(<<"quote">>, 2, quoted)
        \/ p = Piece(<<>>, 1, ~ quoted)
        \/ p = Piece(Pair, 2, quoted)
        \/ p = Piece(Replacement, 1, quoted)
        \/ p = Piece(<<line[k]>>, 1, quoted)
    BY <1>3 DEF PieceAt
  <2>2. /\ Fine(Piece(<<"quote">>, 2, quoted)) /\ Fine(Piece(<<>>, 1, ~ quoted))
        /\ Fine(Piece(Pair, 2, quoted)) /\ Fine(Piece(Replacement, 1, quoted))
        /\ Fine(Piece(<<line[k]>>, 1, quoted))
    BY DEF Piece, Pair, Replacement
  <2> HIDE DEF Fine
  <2> QED
    BY <2>1, <2>2
<1> QED
  BY <1>2, <1>3

\* With that room no bound is met.
LEMMA NextCounts ==
  ASSUME IInv, OpenOK, Counts, Roomy, Next
  PROVE  Counts' /\ phase' # "stopped"
<1>1. /\ phase = "parsing" /\ i \in Nat \ {0} /\ Len(cmdline) \in Nat /\ cmdline \in Seq(Unit)
      /\ max_units \in Nat /\ slices_cap \in Nat /\ data_cap \in Nat /\ unit_count \in Nat
      /\ data \in Seq(Byte) /\ Len(data) \in Nat /\ Len(slices) \in Nat /\ slices \in Seq(Slice)
      /\ in_quotes \in BOOLEAN
  <2>1. phase = "parsing"
    BY DEF Next, UnitBound, SkipBlank, EndArgument, NoRoomToOpen, DoubledQuote, CloseQuote,
           OpenQuote, EvenRunQuote, OddRunQuote, LiteralRun, Ordinary, EndOfLine, InArgument,
           Iterates
  <2> QED
    BY <2>1 DEF IInv, Given, BuffersHold
<1> DEFINE opened == IF arg_open THEN 1 ELSE 0
<1>2. /\ opened \in {0, 1} /\ unit_count <= i - 1 /\ Len(data) <= 3 * (i - 1)
      /\ 2 * Len(slices) + opened <= i - 1
  BY <1>1 DEF Counts
<1> HIDE DEF opened
<1>3. ASSUME i \in 1 .. Len(cmdline)
      PROVE  /\ unit_count < max_units /\ Len(data) < data_cap /\ Len(slices) < slices_cap
  <2>1. i <= max_units /\ 3 * max_units <= data_cap
    BY <1>1, <1>3 DEF Roomy
  <2> DEFINE h == (max_units + 1) \div 2
  <2>2. h \in Nat /\ h <= slices_cap /\ max_units < 2 * h + 1
    BY <1>1 DEF Roomy
  <2> HIDE DEF h
  <2>3. Len(slices) < slices_cap
    BY <1>1, <1>2, <2>1, <2>2
  <2>4. unit_count < max_units /\ Len(data) < data_cap
    BY <1>1, <1>2, <2>1
  <2> QED
    BY <2>3, <2>4
<1>4. ASSUME Iterates PROVE i \in 1 .. Len(cmdline) /\ unit_count' = unit_count + 1
  BY <1>4, Counted DEF Iterates
<1>5. CASE UnitBound
  <2>1. i \in 1 .. Len(cmdline)
    BY <1>1, <1>5, Units DEF UnitBound
  <2> QED
    BY <1>1, <1>3, <1>5, <2>1 DEF UnitBound
<1>6. CASE NoRoomToOpen
  BY <1>1, <1>3, <1>4, <1>6 DEF NoRoomToOpen
<1>7. CASE SkipBlank
  <2>1. /\ i' = i + 1 /\ data' = data /\ slices' = slices /\ arg_open' = arg_open
        /\ phase' = phase /\ unit_count' = unit_count + 1
    BY <1>4, <1>7 DEF SkipBlank, current
  <2>2. (IF arg_open' THEN 1 ELSE 0) = opened
    BY <2>1 DEF opened
  <2> QED
    BY <1>1, <1>2, <2>1, <2>2 DEF Counts
<1>8. CASE EndArgument
  <2>1. arg_open /\ i \in 1 .. Len(cmdline) /\ unit_count' = unit_count + 1
    BY <1>4, <1>8 DEF EndArgument
  <2>2. /\ slices' = Append(slices, [off |-> cur_off, len |-> cur_len])
        /\ arg_open' = FALSE /\ i' = i + 1 /\ data' = data /\ phase' = phase
    BY <1>1, <1>3, <1>8, <2>1 DEF EndArgument
  <2>3. Len(slices') = Len(slices) + 1
    BY <1>1, <2>2
  <2>4. opened = 1 /\ (IF arg_open' THEN 1 ELSE 0) = 0
    BY <2>1, <2>2 DEF opened
  <2> QED
    BY <1>1, <1>2, <2>1, <2>2, <2>3, <2>4 DEF Counts
<1>9. CASE Branches
  <2>1. PICK p : p = PieceAt(cmdline, i, in_quotes)
    OBVIOUS
  <2>2. /\ InArgument /\ Iterates
        /\ \/ Take(p.bytes, p.units, p.quoted)
           \/ ~ Fits(p.bytes)
    BY <1>9, <2>1, BranchPiece
  <2>3. i \in 1 .. Len(cmdline) /\ unit_count' = unit_count + 1
    BY <1>4, <2>2
  <2>4. /\ p.bytes \in Seq(Byte) /\ p.units \in Nat \ {0} /\ i + p.units <= Len(cmdline) + 1
        /\ Len(p.bytes) <= 3 * p.units
    BY <1>1, <2>1, <2>3, PieceShape, PieceSize
  <2> DEFINE u == p.units
             l == Len(p.bytes)
  <2>5. u \in Nat \ {0} /\ l \in Nat /\ i + u <= Len(cmdline) + 1 /\ l <= 3 * u
    BY <2>4
  <2> HIDE DEF u, l
  <2>6. Len(data) + l <= 3 * (i + u - 1)
    BY <1>1, <1>2, <2>5
  <2>7. Fits(p.bytes)
    <3>1. i + u - 1 <= max_units /\ 3 * max_units <= data_cap
      BY <1>1, <2>5 DEF Roomy
    <3>2. Len(data) + l <= data_cap
      BY <1>1, <2>5, <2>6, <3>1
    <3> QED
      BY <3>2 DEF Fits, l
  <2>8. /\ data' = data \o p.bytes /\ i' = i + u /\ arg_open' = TRUE
        /\ slices' = slices /\ phase' = phase
    BY <2>2, <2>7 DEF Take, u
  <2>9. Len(data') = Len(data) + l /\ (IF arg_open' THEN 1 ELSE 0) = 1
    BY <1>1, <2>4, <2>8, ConcatProperties DEF l
  <2>10. 2 * Len(slices) + 1 <= i + u - 1
    BY <1>1, <1>2, <2>5
  <2>11. unit_count + 1 <= i + u - 1
    BY <1>1, <1>2, <2>5
  <2>12. Counts'
    <3>1. unit_count' <= i' - 1
      BY <1>1, <2>3, <2>5, <2>8, <2>11
    <3>2. Len(data') <= 3 * (i' - 1)
      BY <1>1, <2>5, <2>6, <2>8, <2>9
    <3>3. 2 * Len(slices') + (IF arg_open' THEN 1 ELSE 0) <= i' - 1
      BY <1>1, <2>5, <2>8, <2>9, <2>10
    <3> QED
      BY <3>1, <3>2, <3>3 DEF Counts
  <2> QED
    BY <1>1, <2>8, <2>12
<1>10. CASE EndOfLine
  BY <1>10 DEF EndOfLine, Counts
<1> QED
  BY <1>5, <1>6, <1>7, <1>8, <1>9, <1>10 DEF Next, Branches

-----------------------------------------------------------------------------
\* The inductive invariant of the split.
SInv == /\ IInv /\ OpenOK /\ SplitSoFar
        /\ Roomy => Counts /\ phase # "stopped"

\* What the documentation says follows.
LEMMA Documented == SInv => SplitAsDocumented /\ (phase = "done" => Result = Split(cmdline))
<1> SUFFICES ASSUME SInv, phase # "parsing"
             PROVE  SplitAsDocumented /\ (phase = "done" => Result = Split(cmdline))
  BY DEF SplitAsDocumented
<1>1. PICK more \in Arglist : Split(cmdline) = Result \o more
  BY DEF SInv, SplitSoFar
<1>2. Result \in Arglist
  BY ResultKept DEF SInv
<1>3. IsPrefix(Result, Split(cmdline))
  <2> DEFINE r == Result
  <2>1. r \in Seq(Seq(Byte)) /\ more \in Seq(Seq(Byte))
    BY <1>2 DEF Arglist
  <2> HIDE DEF r
  <2>2. Len(r \o more) = Len(r) + Len(more) /\ Len(r) \in Nat /\ Len(more) \in Nat
    BY <2>1
  <2>3. SubSeq(r \o more, 1, Len(r)) = SubSeq(r, 1, Len(r))
    <3>1. CASE Len(r) = 0
      BY <3>1, <2>2, SubSeqEmpty
    <3>2. CASE Len(r) # 0
      <4>1. 1 \in 1 .. Len(r) /\ Len(r) \in 1 .. Len(r)
        BY <2>2, <3>2
      <4> QED
        BY <2>1, <4>1, SubSeqOfConcat1
    <3> QED
      BY <3>1, <3>2
  <2>4. IsPrefix(r, r \o more)
    BY <2>2, <2>3 DEF IsPrefix
  <2> QED
    BY <1>1, <2>4 DEF r
<1>4. phase = "done" => Result = Split(cmdline)
  BY DEF SInv, SplitSoFar
<1>5. Roomy => phase = "done"
  BY DEF SInv, IInv, BuffersHold
<1> QED
  BY <1>3, <1>4, <1>5 DEF SplitAsDocumented, Roomy

\* At the start nothing has been counted.
LEMMA InitSInv == Init => SInv
<1> SUFFICES ASSUME Init PROVE SInv
  OBVIOUS
<1>1. IInv /\ OpenOK /\ SplitSoFar
  BY InitInv, InitSplit
<1>2. Counts /\ phase # "stopped"
  BY DEF Init, Counts
<1> QED
  BY <1>1, <1>2 DEF SInv

\* Every step keeps all of it.
LEMMA NextSInv == SInv /\ [Next]_vars => SInv'
<1> SUFFICES ASSUME SInv, [Next]_vars PROVE SInv'
  OBVIOUS
<1>1. IInv'
  BY NextInv DEF SInv
<1>2. CASE UNCHANGED vars
  <2>1. UNCHANGED <<inputs, i, unit_count, slices, data, current, phase>>
    BY <1>2 DEF vars
  <2>2. Result' = Result /\ Open' = Open
    BY <2>1 DEF Result, Open, current
  <2>3. Remaining' = Remaining
    BY <2>1, SameSplit DEF Remaining, Place, inputs, current
  <2>4. OpenOK' /\ Roomy' = Roomy /\ Counts' = Counts
    BY <2>1 DEF OpenOK, Roomy, Counts, inputs, current, SInv
  <2>5. SplitSoFar'
    BY <2>1, <2>2, <2>3, SameSplit DEF SplitSoFar, Whole, inputs, current, SInv
  <2> QED
    BY <1>1, <2>1, <2>4, <2>5 DEF SInv
<1>3. CASE Next
  <2>1. OpenOK' /\ SplitSoFar'
    BY <1>3, NextSplit DEF SInv
  <2>2. UNCHANGED inputs
    BY <1>3 DEF Next, UnitBound, SkipBlank, EndArgument, NoRoomToOpen, DoubledQuote, CloseQuote,
           OpenQuote, EvenRunQuote, OddRunQuote, LiteralRun, Ordinary, EndOfLine, Take, Stop,
           inputs
  <2>3. Roomy' = Roomy
    BY <2>2 DEF Roomy, inputs
  <2>4. Roomy => Counts' /\ phase' # "stopped"
    BY <1>3, NextCounts DEF SInv
  <2> QED
    BY <1>1, <2>1, <2>3, <2>4 DEF SInv
<1> QED
  BY <1>2, <1>3

-----------------------------------------------------------------------------
(* Quoting                                                                 *)

\* What quoting makes of an argument from a place on depends on later places only.
LEMMA EscapedStep ==
  ASSUME NEW a \in Seq(Plain), NEW k \in 1 .. Len(a) + 1
  PROVE  /\ \A F, G : (\A j \in k + 1 .. Len(a) + 1 : F[j] = G[j])
                        => EscapedAt(a, F, k) = EscapedAt(a, G, k)
         /\ \A F : (\A j \in k + 1 .. Len(a) + 1 : F[j] \in Seq(Plain))
                     => EscapedAt(a, F, k) \in Seq(Plain)
<1> DEFINE n == LeadingRun(a, k)
<1>1. n \in Nat /\ k + n <= Len(a) + 1 /\ Len(a) \in Nat
  BY LeadingRunEnds
<1> HIDE DEF n
<1>2. \A F : EscapedAt(a, F, k) =
        IF k + n = Len(a) + 1 THEN Backslashes(2 * n)
        ELSE (IF a[k + n] = "quote" THEN Backslashes(2 * n + 1) ELSE Backslashes(n))
               \o <<a[k + n]>> \o F[k + n + 1]
  BY DEF EscapedAt, n
<1>3. \A m \in Nat : Backslashes(m) \in Seq(Plain)
  <2> SUFFICES ASSUME NEW m \in Nat PROVE Backslashes(m) \in Seq(Plain)
    OBVIOUS
  <2>1. Backslashes(m) \in [1 .. m -> Plain]
    BY DEF Backslashes, Plain
  <2> QED
    BY <2>1
<1>4. CASE k + n = Len(a) + 1
  <2>1. 2 * n \in Nat
    BY <1>1
  <2> QED
    BY <1>2, <1>3, <1>4, <2>1
<1>5. CASE k + n # Len(a) + 1
  <2>1. k + n + 1 \in k + 1 .. Len(a) + 1 /\ k + n \in 1 .. Len(a) /\ 2 * n + 1 \in Nat
    BY <1>1, <1>5
  <2>2. \A F : EscapedAt(a, F, k) =
          (IF a[k + n] = "quote" THEN Backslashes(2 * n + 1) ELSE Backslashes(n))
             \o <<a[k + n]>> \o F[k + n + 1]
    BY <1>2, <1>5
  <2>3. ASSUME NEW F, F[k + n + 1] \in Seq(Plain) PROVE EscapedAt(a, F, k) \in Seq(Plain)
    <3> DEFINE b == IF a[k + n] = "quote" THEN Backslashes(2 * n + 1) ELSE Backslashes(n)
               c == <<a[k + n]>>
               d == F[k + n + 1]
    <3>1. b \in Seq(Plain) /\ c \in Seq(Plain) /\ d \in Seq(Plain)
      <4>1. b \in Seq(Plain)
        BY <1>1, <1>3, <2>1
      <4>2. c \in Seq(Plain)
        BY <2>1
      <4> QED
        BY <2>3, <4>1, <4>2
    <3>2. EscapedAt(a, F, k) = b \o c \o d
      BY <2>2
    <3> HIDE DEF b, c, d
    <3> QED
      BY <3>1, <3>2, ConcatProperties
  <2> QED
    BY <2>1, <2>2, <2>3
<1> QED
  BY <1>4, <1>5

\* So it is what EscapedAt makes of those.
LEMMA EscapedUnfolds ==
  ASSUME NEW a \in Seq(Plain)
  PROVE  \A k \in 1 .. Len(a) + 1 : /\ Escaped(a)[k] = EscapedAt(a, Escaped(a), k)
                                    /\ Escaped(a)[k] \in Seq(Plain)
<1> DEFINE N == Len(a) + 1
           S == {k \in 1 .. N : \E G : \A j \in k .. N : G[j] = EscapedAt(a, G, j)}
<1>1. N \in Nat /\ N # 0
  OBVIOUS
<1>2. ASSUME NEW k \in 1 .. N, \A j \in k + 1 .. N : j \in S
      PROVE  k \in S
  <2>1. PICK G : \A j \in k + 1 .. N : G[j] = EscapedAt(a, G, j)
    <3>1. CASE k = N
      BY <1>1, <3>1
    <3>2. CASE k # N
      <4>1. k + 1 \in S
        <5>1. k + 1 \in k + 1 .. N
          BY <1>1, <3>2
        <5> HIDE DEF S, N
        <5> QED
          BY <1>2, <5>1
      <4> QED
        BY <4>1
    <3> QED
      BY <3>1, <3>2
  <2> DEFINE H == [j \in 1 .. N |-> IF j = k THEN EscapedAt(a, G, k) ELSE G[j]]
  <2>2. ASSUME NEW j \in k .. N PROVE H[j] = EscapedAt(a, H, j)
    <3>1. j \in 1 .. N /\ \A m \in j + 1 .. N : G[m] = H[m]
      BY <1>1
    <3>2. EscapedAt(a, G, j) = EscapedAt(a, H, j)
      <4> HIDE DEF H
      <4> QED
        BY <3>1, EscapedStep
    <3>3. H[j] = EscapedAt(a, G, j)
      BY <1>1, <2>1, <3>1
    <3> QED
      BY <3>2, <3>3
  <2> HIDE DEF H
  <2> QED
    BY <2>2
<1>3. 1 \in S
  <2> HIDE DEF S
  <2>1. \A k \in 1 .. N : k \in S
    BY <1>1, <1>2, Downward
  <2> QED
    BY <1>1, <2>1
<1>4. PICK G : \A j \in 1 .. N : G[j] = EscapedAt(a, G, j)
  BY <1>3
<1> DEFINE Is(F) == F = [k \in 1 .. N |-> EscapedAt(a, F, k)]
<1>5. \E F : Is(F)
  <2> DEFINE H == [k \in 1 .. N |-> G[k]]
  <2>1. \A k \in 1 .. N : EscapedAt(a, G, k) = EscapedAt(a, H, k)
    <3> SUFFICES ASSUME NEW k \in 1 .. N PROVE EscapedAt(a, G, k) = EscapedAt(a, H, k)
      OBVIOUS
    <3>1. \A j \in k + 1 .. N : G[j] = H[j]
      BY <1>1
    <3> HIDE DEF H
    <3> QED
      BY <3>1, EscapedStep
  <2>2. Is(H)
    BY <1>4, <2>1
  <2> QED
    BY <2>2
<1>6. Escaped(a) = CHOOSE F : Is(F)
  BY DEF Escaped
<1>7. Is(Escaped(a))
  <2> HIDE DEF Is
  <2> QED
    BY <1>5, <1>6
<1>8. \A k \in 1 .. N : Escaped(a)[k] = EscapedAt(a, Escaped(a), k)
  BY <1>7
<1> DEFINE T == {k \in 1 .. N : Escaped(a)[k] \in Seq(Plain)}
<1>9. ASSUME NEW k \in 1 .. N, \A j \in k + 1 .. N : j \in T
      PROVE  k \in T
  <2>1. \A j \in k + 1 .. N : Escaped(a)[j] \in Seq(Plain)
    BY <1>9
  <2>2. EscapedAt(a, Escaped(a), k) \in Seq(Plain)
    BY <2>1, EscapedStep
  <2> QED
    BY <1>8, <2>2
<1>10. \A k \in 1 .. N : k \in T
  <2> HIDE DEF T
  <2> QED
    BY <1>1, <1>9, Downward
<1> QED
  BY <1>8, <1>10

\* The quoted argument.
LEMMA QuotedShape ==
  ASSUME NEW a \in Seq(Plain)
  PROVE  /\ Escaped(a)[1] \in Seq(Plain) /\ <<"quote">> \in Seq(Plain)
         /\ Quoted(a) \in Seq(Plain)
<1>1. Escaped(a)[1] \in Seq(Plain)
  BY EscapedUnfolds
<1>2. <<"quote">> \in Seq(Plain)
  BY DEF Plain
<1> DEFINE e == Escaped(a)[1]
<1>3. <<"quote">> \o e \o <<"quote">> \in Seq(Plain)
  <2>1. e \in Seq(Plain)
    BY <1>1
  <2> HIDE DEF e
  <2> QED
    BY <1>2, <2>1, ConcatProperties
<1> QED
  BY <1>1, <1>2, <1>3 DEF Quoted

Args == Seq(Seq(Plain))

\* What is joined from an argument on depends on later ones only.
LEMMA JoinedStep ==
  ASSUME NEW args \in Args, NEW k \in 1 .. Len(args) + 1
  PROVE  /\ \A F, G : (\A j \in k + 1 .. Len(args) + 1 : F[j] = G[j])
                        => JoinedAt(args, F, k) = JoinedAt(args, G, k)
         /\ \A F : (\A j \in k + 1 .. Len(args) + 1 : F[j] \in Seq(Plain))
                     => JoinedAt(args, F, k) \in Seq(Plain)
<1>1. Len(args) \in Nat
  BY DEF Args
<1>2. CASE k = Len(args) + 1
  BY <1>2 DEF JoinedAt
<1>3. CASE k # Len(args) + 1
  <2>1. k \in 1 .. Len(args) /\ k + 1 \in k + 1 .. Len(args) + 1 /\ args[k] \in Seq(Plain)
    BY <1>1, <1>3 DEF Args
  <2>2. \A F, G : F[k + 1] = G[k + 1] => JoinedAt(args, F, k) = JoinedAt(args, G, k)
    BY DEF JoinedAt
  <2>3. ASSUME NEW F, F[k + 1] \in Seq(Plain) PROVE JoinedAt(args, F, k) \in Seq(Plain)
    <3> DEFINE q == Quoted(args[k])
               r == IF k = Len(args) THEN <<>> ELSE <<"blank">> \o F[k + 1]
    <3>1. q \in Seq(Plain)
      BY <2>1, QuotedShape
    <3>2. r \in Seq(Plain)
      <4>1. <<"blank">> \in Seq(Plain) /\ <<>> \in Seq(Plain)
        BY DEF Plain
      <4> QED
        BY <2>3, <4>1, ConcatProperties
    <3>3. JoinedAt(args, F, k) = q \o r
      BY <1>3 DEF JoinedAt
    <3> HIDE DEF q, r
    <3> QED
      BY <3>1, <3>2, <3>3, ConcatProperties
  <2> QED
    BY <2>1, <2>2, <2>3
<1> QED
  BY <1>2, <1>3

\* So it is what JoinedAt makes of those.
LEMMA JoinedUnfolds ==
  ASSUME NEW args \in Args
  PROVE  \A k \in 1 .. Len(args) + 1 : /\ Joined(args)[k] = JoinedAt(args, Joined(args), k)
                                       /\ Joined(args)[k] \in Seq(Plain)
<1> DEFINE N == Len(args) + 1
           S == {k \in 1 .. N : \E G : \A j \in k .. N : G[j] = JoinedAt(args, G, j)}
<1>1. N \in Nat /\ N # 0
  BY DEF Args
<1>2. ASSUME NEW k \in 1 .. N, \A j \in k + 1 .. N : j \in S
      PROVE  k \in S
  <2>1. PICK G : \A j \in k + 1 .. N : G[j] = JoinedAt(args, G, j)
    <3>1. CASE k = N
      BY <1>1, <3>1
    <3>2. CASE k # N
      <4>1. k + 1 \in S
        <5>1. k + 1 \in k + 1 .. N
          BY <1>1, <3>2
        <5> HIDE DEF S, N
        <5> QED
          BY <1>2, <5>1
      <4> QED
        BY <4>1
    <3> QED
      BY <3>1, <3>2
  <2> DEFINE H == [j \in 1 .. N |-> IF j = k THEN JoinedAt(args, G, k) ELSE G[j]]
  <2>2. ASSUME NEW j \in k .. N PROVE H[j] = JoinedAt(args, H, j)
    <3>1. j \in 1 .. N /\ \A m \in j + 1 .. N : G[m] = H[m]
      BY <1>1
    <3>2. JoinedAt(args, G, j) = JoinedAt(args, H, j)
      <4> HIDE DEF H
      <4> QED
        BY <3>1, JoinedStep
    <3>3. H[j] = JoinedAt(args, G, j)
      BY <1>1, <2>1, <3>1
    <3> QED
      BY <3>2, <3>3
  <2> HIDE DEF H
  <2> QED
    BY <2>2
<1>3. 1 \in S
  <2> HIDE DEF S
  <2>1. \A k \in 1 .. N : k \in S
    BY <1>1, <1>2, Downward
  <2> QED
    BY <1>1, <2>1
<1>4. PICK G : \A j \in 1 .. N : G[j] = JoinedAt(args, G, j)
  BY <1>3
<1> DEFINE Is(F) == F = [k \in 1 .. N |-> JoinedAt(args, F, k)]
<1>5. \E F : Is(F)
  <2> DEFINE H == [k \in 1 .. N |-> G[k]]
  <2>1. \A k \in 1 .. N : JoinedAt(args, G, k) = JoinedAt(args, H, k)
    <3> SUFFICES ASSUME NEW k \in 1 .. N PROVE JoinedAt(args, G, k) = JoinedAt(args, H, k)
      OBVIOUS
    <3>1. \A j \in k + 1 .. N : G[j] = H[j]
      BY <1>1
    <3> HIDE DEF H
    <3> QED
      BY <3>1, JoinedStep
  <2>2. Is(H)
    BY <1>4, <2>1
  <2> QED
    BY <2>2
<1>6. Joined(args) = CHOOSE F : Is(F)
  BY DEF Joined
<1>7. Is(Joined(args))
  <2> HIDE DEF Is
  <2> QED
    BY <1>5, <1>6
<1>8. \A k \in 1 .. N : Joined(args)[k] = JoinedAt(args, Joined(args), k)
  BY <1>7
<1> DEFINE T == {k \in 1 .. N : Joined(args)[k] \in Seq(Plain)}
<1>9. ASSUME NEW k \in 1 .. N, \A j \in k + 1 .. N : j \in T
      PROVE  k \in T
  <2>1. \A j \in k + 1 .. N : Joined(args)[j] \in Seq(Plain)
    BY <1>9
  <2>2. JoinedAt(args, Joined(args), k) \in Seq(Plain)
    BY <2>1, JoinedStep
  <2> QED
    BY <1>8, <2>2
<1>10. \A k \in 1 .. N : k \in T
  <2> HIDE DEF T
  <2> QED
    BY <1>1, <1>9, Downward
<1> QED
  BY <1>8, <1>10

-----------------------------------------------------------------------------
(* A quoted line is split into what was quoted                             *)

\* The line goes on, at k, with the units s.
Reads(line, k, s) == /\ k + Len(s) <= Len(line) + 1
                     /\ \A j \in 1 .. Len(s) : line[k + (j - 1)] = s[j]

\* It goes on with one sequence and then with the next.
LEMMA ReadsBoth ==
  ASSUME NEW line \in Seq(Unit), NEW k \in Nat \ {0}, NEW s \in Seq(Plain), NEW t \in Seq(Plain),
         Reads(line, k, s \o t)
  PROVE  Reads(line, k, s) /\ Reads(line, k + Len(s), t) /\ k + Len(s) \in Nat \ {0}
<1>1. /\ Len(s) \in Nat /\ Len(t) \in Nat /\ Len(s \o t) = Len(s) + Len(t) /\ Len(line) \in Nat
      /\ \A j \in 1 .. Len(s) + Len(t) :
           (s \o t)[j] = IF j <= Len(s) THEN s[j] ELSE t[j - Len(s)]
  BY ConcatProperties
<1>2. \A j \in 1 .. Len(s) + Len(t) :
        line[k + (j - 1)] = IF j <= Len(s) THEN s[j] ELSE t[j - Len(s)]
  BY <1>1 DEF Reads
<1>3. ASSUME NEW j \in 1 .. Len(s) PROVE line[k + (j - 1)] = s[j]
  BY <1>1, <1>2
<1>4. ASSUME NEW j \in 1 .. Len(t) PROVE line[k + Len(s) + (j - 1)] = t[j]
  <2>1. /\ Len(s) + j \in 1 .. Len(s) + Len(t) /\ ~ (Len(s) + j <= Len(s))
        /\ k + ((Len(s) + j) - 1) = k + Len(s) + (j - 1) /\ (Len(s) + j) - Len(s) = j
    BY <1>1
  <2> QED
    BY <1>2, <2>1
<1>5. k + (Len(s) + Len(t)) <= Len(line) + 1
  BY <1>1 DEF Reads
<1>6. k + Len(s) <= Len(line) + 1 /\ k + Len(s) + Len(t) <= Len(line) + 1
  BY <1>1, <1>5
<1> QED
  BY <1>1, <1>3, <1>4, <1>6 DEF Reads

\* It goes on with one unit.
LEMMA ReadsOne ==
  ASSUME NEW line \in Seq(Unit), NEW k \in Nat \ {0}, NEW c, Reads(line, k, <<c>>)
  PROVE  k \in 1 .. Len(line) /\ line[k] = c
<1>1. Len(<<c>>) = 1 /\ <<c>>[1] = c /\ Len(line) \in Nat
  OBVIOUS
<1>2. k + 1 <= Len(line) + 1 /\ line[k + (1 - 1)] = c
  BY <1>1 DEF Reads
<1> QED
  BY <1>1, <1>2

\* It goes on with n backslashes, and then not with another: a run of n.
LEMMA ReadsRun ==
  ASSUME NEW line \in Seq(Unit), NEW k \in Nat \ {0}, NEW n \in Nat,
         Reads(line, k, Backslashes(n)),
         k + n \in DOMAIN line => line[k + n] # "backslash"
  PROVE  LeadingRun(line, k) = n /\ Len(Backslashes(n)) = n /\ k + n <= Len(line) + 1
<1>1. Len(Backslashes(n)) = n /\ \A j \in 1 .. n : Backslashes(n)[j] = "backslash"
  BY BackslashBytes DEF Backslashes
<1>2. k + n <= Len(line) + 1 /\ \A j \in 1 .. n : line[k + (j - 1)] = "backslash"
  BY <1>1 DEF Reads
<1>3. Len(line) \in Nat /\ DOMAIN line = 1 .. Len(line) /\ k \in 1 .. Len(line) + 1
  BY <1>2
<1>4. ASSUME NEW j \in k .. k + n - 1 PROVE j \in DOMAIN line /\ line[j] = "backslash"
  <2>1. j - k + 1 \in 1 .. n /\ k + ((j - k + 1) - 1) = j /\ j \in 1 .. Len(line)
    BY <1>2, <1>3
  <2> QED
    BY <1>2, <1>3, <2>1
<1> QED
  BY <1>1, <1>2, <1>3, <1>4, OneRun

\* Where no blank separates, the arguments are a piece and what follows it.
LEMMA FromPiece ==
  ASSUME NEW line \in Seq(Unit), NEW k \in 1 .. Len(line), NEW place \in Places,
         ~ (line[k] = "blank" /\ place # "quoted"),
         NEW p, p = PieceAt(line, k, place = "quoted")
  PROVE  /\ From(line)[k][place] =
              Before(p.bytes, From(line)[k + p.units][IF p.quoted THEN "quoted" ELSE "plain"])
         /\ k + p.units \in 1 .. Len(line) + 1
<1>1. k # Len(line) + 1 /\ k \in 1 .. Len(line) + 1 /\ Len(line) \in Nat
  OBVIOUS
<1>2. From(line)[k] = ArgsAt(line, From(line), k)
  BY <1>1, FromUnfolds
<1>3. p.units \in Nat \ {0} /\ k + p.units <= Len(line) + 1
  BY PieceShape
<1> QED
  BY <1>1, <1>2, <1>3 DEF ArgsAt

\* Backslashes in a quoted region: half of them when a quote follows.
LEMMA QuotedRun ==
  ASSUME NEW line \in Seq(Unit), NEW k \in Nat \ {0}, NEW n \in Nat \ {0},
         Reads(line, k, Backslashes(n)), k + n \in DOMAIN line, line[k + n] # "backslash",
         NEW p, line[k + n] = "quote" => p = RunPiece(n, TRUE, TRUE),
         line[k + n] # "quote" => p = RunPiece(n, FALSE, TRUE)
  PROVE  /\ From(line)[k]["quoted"] =
              Before(p.bytes, From(line)[k + p.units][IF p.quoted THEN "quoted" ELSE "plain"])
         /\ k + p.units \in 1 .. Len(line) + 1
<1>1. LeadingRun(line, k) = n
  BY ReadsRun
<1>2. k \in 1 .. Len(line) /\ "quoted" \in Places /\ n > 0
  BY DEF Places
<1>3. p = PieceAt(line, k, TRUE)
  <2>1. PieceAt(line, k, TRUE) =
          RunPiece(n, k + n \in DOMAIN line /\ line[k + n] = "quote", TRUE)
    BY <1>1, <1>2 DEF PieceAt
  <2>2. CASE line[k + n] = "quote"
    <3>1. (k + n \in DOMAIN line /\ line[k + n] = "quote") = TRUE
      BY <2>2
    <3> QED
      BY <2>1, <2>2, <3>1
  <2>3. CASE line[k + n] # "quote"
    <3>1. (k + n \in DOMAIN line /\ line[k + n] = "quote") = FALSE
      BY <2>3
    <3> QED
      BY <2>1, <2>3, <3>1
  <2> QED
    BY <2>2, <2>3
<1>4. p = PieceAt(line, k, "quoted" = "quoted")
  BY <1>3
<1> QED
  BY <1>2, <1>4, FromPiece

\* A letter or a blank in a quoted region.
LEMMA QuotedByte ==
  ASSUME NEW line \in Seq(Unit), NEW k \in 1 .. Len(line), line[k] \in {"letter", "blank"}
  PROVE  From(line)[k]["quoted"] = Before(<<line[k]>>, From(line)[k + 1]["quoted"])
<1>1. ~ (LeadingRun(line, k) > 0)
  <2>1. LeadingRun(line, k) = 0
    BY OneRun
  <2> QED
    BY <2>1
<1>2. PieceAt(line, k, TRUE) = Piece(<<line[k]>>, 1, TRUE)
  BY <1>1 DEF PieceAt, TwoAt
<1>3. PICK p : p = Piece(<<line[k]>>, 1, TRUE)
  OBVIOUS
<1>4. p.bytes = <<line[k]>> /\ p.units = 1 /\ p.quoted
  BY <1>3 DEF Piece
<1>5. p = PieceAt(line, k, "quoted" = "quoted") /\ "quoted" \in Places
  BY <1>2, <1>3 DEF Places
<1>6. From(line)[k]["quoted"] =
        Before(p.bytes, From(line)[k + p.units][IF p.quoted THEN "quoted" ELSE "plain"])
  BY <1>5, FromPiece
<1> QED
  BY <1>4, <1>6

\* A quote that opens a region, and one that closes it.
LEMMA QuoteTurns ==
  ASSUME NEW line \in Seq(Unit), NEW k \in 1 .. Len(line), line[k] = "quote"
  PROVE  /\ From(line)[k]["gap"] = Before(<<>>, From(line)[k + 1]["quoted"])
         /\ (k + 1 \in DOMAIN line => line[k + 1] = "blank")
              => From(line)[k]["quoted"] = Before(<<>>, From(line)[k + 1]["plain"])
<1>1. ~ (LeadingRun(line, k) > 0)
  <2>1. LeadingRun(line, k) = 0
    BY OneRun
  <2> QED
    BY <2>1
<1>2. PieceAt(line, k, FALSE) = Piece(<<>>, 1, TRUE)
  BY <1>1 DEF PieceAt
<1>3. (k + 1 \in DOMAIN line => line[k + 1] = "blank")
        => PieceAt(line, k, TRUE) = Piece(<<>>, 1, FALSE)
  BY <1>1 DEF PieceAt, TwoAt
<1>4. PICK p : p = Piece(<<>>, 1, TRUE)
  OBVIOUS
<1>5. PICK q : q = Piece(<<>>, 1, FALSE)
  OBVIOUS
<1>6. /\ p.bytes = <<>> /\ p.units = 1 /\ p.quoted
      /\ q.bytes = <<>> /\ q.units = 1 /\ ~ q.quoted
  BY <1>4, <1>5 DEF Piece
<1>7. From(line)[k]["gap"] = Before(<<>>, From(line)[k + 1]["quoted"])
  <2>1. p = PieceAt(line, k, "gap" = "quoted") /\ "gap" \in Places
    BY <1>2, <1>4 DEF Places
  <2>2. From(line)[k]["gap"] =
          Before(p.bytes, From(line)[k + p.units][IF p.quoted THEN "quoted" ELSE "plain"])
    BY <2>1, FromPiece
  <2> QED
    BY <1>6, <2>2
<1>8. ASSUME k + 1 \in DOMAIN line => line[k + 1] = "blank"
      PROVE  From(line)[k]["quoted"] = Before(<<>>, From(line)[k + 1]["plain"])
  <2>1. q = PieceAt(line, k, "quoted" = "quoted") /\ "quoted" \in Places
    BY <1>3, <1>5, <1>8 DEF Places
  <2>2. From(line)[k]["quoted"] =
          Before(q.bytes, From(line)[k + q.units][IF q.quoted THEN "quoted" ELSE "plain"])
    BY <2>1, FromPiece
  <2> QED
    BY <1>6, <2>2
<1> QED
  BY <1>7, <1>8

\* An argument goes on with its backslashes and what follows them.
LEMMA RestSplits ==
  ASSUME NEW a \in Seq(Plain), NEW m \in 1 .. Len(a) + 1, NEW n, n = LeadingRun(a, m)
  PROVE  /\ m + n = Len(a) + 1 => SubSeq(a, m, Len(a)) = Backslashes(n)
         /\ m + n \in 1 .. Len(a) =>
              SubSeq(a, m, Len(a)) =
                Backslashes(n) \o (<<a[m + n]>> \o SubSeq(a, m + n + 1, Len(a)))
<1>1. /\ n \in Nat /\ m + n <= Len(a) + 1 /\ Len(a) \in Nat /\ m \in Nat \ {0}
      /\ \A j \in m .. m + n - 1 : j \in DOMAIN a /\ a[j] = "backslash"
  BY LeadingRunEnds
<1>2. SubSeq(a, m, m + n - 1) = Backslashes(n)
  <2> DEFINE s == SubSeq(a, m, m + n - 1)
             b == Backslashes(n)
  <2>1. /\ b \in Seq(Byte) /\ Len(b) = n /\ \A j \in 1 .. n : b[j] = "backslash"
    BY <1>1, BackslashBytes DEF Backslashes
  <2>2. \A j \in m .. m + n - 1 : a[j] \in Byte
    BY <1>1 DEF Byte
  <2>3. /\ s \in Seq(Byte) /\ Len(s) = n /\ \A j \in 1 .. n : s[j] = a[m + j - 1]
    <3>1. /\ s \in Seq(Byte)
          /\ Len(s) = IF m <= m + n - 1 THEN (m + n - 1) - m + 1 ELSE 0
          /\ \A j \in 1 .. (m + n - 1) - m + 1 : s[j] = a[m + j - 1]
      BY <1>1, <2>2, SubSeqProperties
    <3>2. (m + n - 1) - m + 1 = n /\ (IF m <= m + n - 1 THEN n ELSE 0) = n
      BY <1>1
    <3> HIDE DEF s
    <3> QED
      BY <3>1, <3>2
  <2> HIDE DEF s, b
  <2>4. \A j \in 1 .. n : s[j] = b[j]
    BY <1>1, <2>1, <2>3
  <2>5. s = b
    BY <2>1, <2>3, <2>4, SeqEqual
  <2> QED
    BY <2>5 DEF s, b
<1>3. ASSUME m + n = Len(a) + 1 PROVE SubSeq(a, m, Len(a)) = Backslashes(n)
  <2>1. m + n - 1 = Len(a)
    BY <1>1, <1>3
  <2> QED
    BY <1>2, <2>1
<1>4. ASSUME m + n \in 1 .. Len(a)
      PROVE  SubSeq(a, m, Len(a)) =
               Backslashes(n) \o (<<a[m + n]>> \o SubSeq(a, m + n + 1, Len(a)))
  <2>1. SubSeq(a, m + n, Len(a)) = <<a[m + n]>> \o SubSeq(a, m + n + 1, Len(a))
    <3>1. PICK d : d = m + n
      OBVIOUS
    <3>2. d \in 1 .. Len(a) /\ Len(a) \in d .. Len(a)
      BY <1>1, <1>4, <3>1
    <3>3. SubSeq(a, d, Len(a)) = <<a[d]>> \o SubSeq(a, d + 1, Len(a))
      BY <3>2, SubSeqRecursiveFirst
    <3> QED
      BY <3>1, <3>3
  <2>2. SubSeq(a, m, m + n - 1) \o SubSeq(a, (m + n - 1) + 1, Len(a)) = SubSeq(a, m, Len(a))
    <3>1. m + n - 1 \in m - 1 .. Len(a) /\ Len(a) \in m + n - 1 .. Len(a)
      BY <1>1, <1>4
    <3> QED
      BY <3>1, ConcatAdjacentSubSeq
  <2>3. (m + n - 1) + 1 = m + n
    BY <1>1
  <2> QED
    BY <1>2, <2>1, <2>2, <2>3
<1> QED
  BY <1>3, <1>4

\* Where the scan is behind an argument that is quoted from m on, read from k on.
Behind(a, m, k) == k + Len(Escaped(a)[m]) + 1

\* The places of an argument from which on it is read back.
ReadBack(line, a) ==
  {m \in 1 .. Len(a) + 1 : \A k \in Nat \ {0} :
     /\ Reads(line, k, Escaped(a)[m] \o <<"quote">>)
     /\ Behind(a, m, k) \in DOMAIN line => line[Behind(a, m, k)] = "blank"
     => From(line)[k]["quoted"] =
          Before(SubSeq(a, m, Len(a)), From(line)[Behind(a, m, k)]["plain"])}

\* Behind a quoted argument there are arguments still.
LEMMA PlainAt ==
  ASSUME NEW line \in Seq(Unit), NEW k \in 1 .. Len(line) + 1
  PROVE  \A place \in {"plain", "quoted"} :
           From(line)[k][place] \in Arglist /\ From(line)[k][place] # <<>>
<1>1. From(line)[k] \in LineArgs
  BY FromUnfolds
<1> QED
  BY <1>1 DEF LineArgs, Places

\* Nothing before the first of some arguments.
LEMMA BeforeNothing ==
  ASSUME NEW args \in Arglist, args # <<>>
  PROVE  Before(<<>>, args) = args
<1> DEFINE h == Head(args)
<1>1. h \in Seq(Byte) /\ args = <<h>> \o Tail(args)
  BY HeadTailProperties DEF Arglist
<1>2. <<>> \o h = h
  <2> HIDE DEF h
  <2> QED
    BY <1>1, ConcatEmptySeq
<1> QED
  BY <1>1, <1>2 DEF Before

\* The backslashes at the end of an argument, and the quote that closes it.
LEMMA EndReadBack ==
  ASSUME NEW line \in Seq(Unit), NEW a \in Seq(Plain), NEW m \in 1 .. Len(a) + 1,
         m + LeadingRun(a, m) = Len(a) + 1
  PROVE  m \in ReadBack(line, a)
<1> DEFINE n == LeadingRun(a, m)
           b == Backslashes(2 * n)
<1>1. n \in Nat /\ 2 * n \in Nat
  BY LeadingRunEnds
<1>2. Escaped(a)[m] = b /\ Len(b) = 2 * n /\ b \in Seq(Plain)
  <2>1. Escaped(a)[m] = b /\ b \in Seq(Plain)
    BY EscapedUnfolds DEF EscapedAt
  <2> QED
    BY <1>1, <2>1, BackslashBytes
<1>3. SubSeq(a, m, Len(a)) = Backslashes(n)
  BY RestSplits
<1> HIDE DEF n, b
<1> SUFFICES ASSUME NEW k \in Nat \ {0}, Reads(line, k, b \o <<"quote">>),
                    Behind(a, m, k) \in DOMAIN line => line[Behind(a, m, k)] = "blank"
             PROVE  From(line)[k]["quoted"] =
                      Before(Backslashes(n), From(line)[Behind(a, m, k)]["plain"])
  BY <1>2, <1>3 DEF ReadBack
<1> DEFINE e == k + 2 * n
<1>4. Reads(line, k, b) /\ Reads(line, e, <<"quote">>) /\ e \in Nat \ {0}
  <2>1. <<"quote">> \in Seq(Plain)
    BY DEF Plain
  <2> QED
    BY <1>2, <2>1, ReadsBoth
<1>5. e \in 1 .. Len(line) /\ line[e] = "quote" /\ Behind(a, m, k) = e + 1
  BY <1>2, <1>4, ReadsOne DEF Behind
<1>6. CASE n = 0
  <2>1. e = k
    BY <1>6
  <2>2. Backslashes(n) = <<>>
    <3>1. Backslashes(0) = <<>>
      BY 0 \in Nat, BackslashBytes, EmptySeq
    <3> QED
      BY <1>6, <3>1
  <2> HIDE DEF e
  <2> QED
    BY <1>5, <2>1, <2>2, QuoteTurns
<1>7. CASE n # 0
  <2>1. PICK w \in Nat \ {0} : w = 2 * n
    BY <1>1, <1>7
  <2>2. w % 2 = 0 /\ w \div 2 = n
    BY <1>1, <2>1
  <2>3. PICK p : p = RunPiece(w, TRUE, TRUE)
    OBVIOUS
  <2>4. p = Piece(Backslashes(n), w + 1, FALSE)
    BY <2>2, <2>3 DEF RunPiece
  <2>5. p.bytes = Backslashes(n) /\ p.units = w + 1 /\ ~ p.quoted
    BY <2>4 DEF Piece
  <2>6. /\ Reads(line, k, Backslashes(w))
        /\ k + w \in DOMAIN line /\ line[k + w] = "quote" /\ k + (w + 1) = Behind(a, m, k)
    <3>1. Reads(line, k, Backslashes(w))
      BY <1>4, <2>1 DEF b
    <3>2. k + w = e /\ k + (w + 1) = e + 1
      BY <2>1
    <3> HIDE DEF e
    <3> QED
      BY <1>5, <3>1, <3>2
  <2>7. line[k + w] # "backslash"
    BY <2>6
  <2> HIDE DEF e
  <2>8. From(line)[k]["quoted"] =
          Before(p.bytes, From(line)[k + p.units][IF p.quoted THEN "quoted" ELSE "plain"])
    BY ZenonT(60), <2>3, <2>6, <2>7, QuotedRun
  <2> QED
    BY <2>5, <2>6, <2>8
<1> QED
  BY <1>6, <1>7

\* What an argument has before its next quote or other byte, and that one.
LEMMA NextReadBack ==
  ASSUME NEW line \in Seq(Unit), NEW k \in Nat \ {0}, NEW n \in Nat, NEW c \in Plain,
         c # "backslash",
         NEW w \in Nat, c = "quote" => w = 2 * n + 1, c # "quote" => w = n,
         Reads(line, k, Backslashes(w)), Reads(line, k + w, <<c>>)
  PROVE  /\ From(line)[k]["quoted"] =
              Before(Backslashes(n) \o <<c>>, From(line)[k + (w + 1)]["quoted"])
         /\ k + (w + 1) \in 1 .. Len(line) + 1
<1>1. k + w \in 1 .. Len(line) /\ line[k + w] = c /\ k + w \in Nat \ {0}
  <2>1. PICK e \in Nat \ {0} : e = k + w
    OBVIOUS
  <2>2. e \in 1 .. Len(line) /\ line[e] = c
    BY <2>1, ReadsOne
  <2> QED
    BY <2>1, <2>2
<1>2. k + (w + 1) = (k + w) + 1 /\ k + (w + 1) \in 1 .. Len(line) + 1 /\ Len(line) \in Nat
  BY <1>1
<1>3. Backslashes(n) \in Seq(Byte) /\ <<c>> \in Seq(Byte)
  <2>1. c \in Byte
    BY DEF Plain, Byte
  <2> QED
    BY <2>1, BackslashBytes
<1>4. CASE c = "quote"
  <2>1. w \in Nat \ {0} /\ ~ (w % 2 = 0) /\ w \div 2 = n
    BY <1>4
  <2>2. PICK p : p = RunPiece(w, TRUE, TRUE)
    OBVIOUS
  <2>3. p = Piece(Backslashes(n) \o <<"quote">>, w + 1, TRUE)
    BY <2>1, <2>2 DEF RunPiece
  <2>4. p.bytes = Backslashes(n) \o <<"quote">> /\ p.units = w + 1 /\ p.quoted
    BY <2>3 DEF Piece
  <2>5. From(line)[k]["quoted"] =
          Before(p.bytes, From(line)[k + p.units][IF p.quoted THEN "quoted" ELSE "plain"])
    <3>1. line[k + w] = "quote" /\ line[k + w] # "backslash" /\ k + w \in DOMAIN line
      BY <1>1, <1>4
    <3> QED
      BY ZenonT(60), <2>1, <2>2, <3>1, QuotedRun
  <2> QED
    BY <1>2, <1>4, <2>4, <2>5
<1>5. CASE c # "quote"
  <2>1. w = n /\ line[k + w] \in {"letter", "blank"}
    BY <1>1, <1>5 DEF Plain
  <2>2. From(line)[k + w]["quoted"] = Before(<<c>>, From(line)[k + (w + 1)]["quoted"])
    <3>1. PICK e \in 1 .. Len(line) : e = k + w
      BY <1>1
    <3>2. From(line)[e]["quoted"] = Before(<<line[e]>>, From(line)[e + 1]["quoted"])
      BY <2>1, <3>1, QuotedByte
    <3> QED
      BY <1>1, <1>2, <3>1, <3>2
  <2>3. CASE n = 0
    <3>1. Backslashes(n) \o <<c>> = <<c>> /\ k + w = k
      <4>1. Backslashes(n) = <<>>
        <5>1. Backslashes(0) = <<>>
          BY 0 \in Nat, BackslashBytes, EmptySeq
        <5> QED
          BY <2>3, <5>1
      <4>2. <<>> \o <<c>> = <<c>>
        BY <1>3, ConcatEmptySeq
      <4>3. k + w = k
        BY <2>1, <2>3
      <4> QED
        BY <4>1, <4>2, <4>3
    <3> QED
      BY <1>2, <2>2, <3>1
  <2>4. CASE n # 0
    <3>1. PICK p : p = RunPiece(w, FALSE, TRUE)
      OBVIOUS
    <3>2. p = Piece(Backslashes(n), w, TRUE)
      BY <2>1, <3>1 DEF RunPiece
    <3>3. p.bytes = Backslashes(n) /\ p.units = w /\ p.quoted
      BY <3>2 DEF Piece
    <3>4. From(line)[k]["quoted"] =
            Before(p.bytes, From(line)[k + p.units][IF p.quoted THEN "quoted" ELSE "plain"])
      <4>1. /\ w \in Nat \ {0} /\ line[k + w] # "backslash" /\ line[k + w] # "quote"
            /\ k + w \in DOMAIN line
        BY <1>1, <2>1, <2>4
      <4> QED
        BY <3>1, <4>1, QuotedRun, ZenonT(60)
    <3> DEFINE args == From(line)[k + (w + 1)]["quoted"]
    <3>5. From(line)[k]["quoted"] = Before(Backslashes(n), Before(<<c>>, args))
      BY <2>2, <3>3, <3>4
    <3>6. args \in Arglist /\ args # <<>>
      BY <1>2, PlainAt
    <3> HIDE DEF args
    <3>7. Before(Backslashes(n) \o <<c>>, args) = Before(Backslashes(n), Before(<<c>>, args))
      BY <1>3, <3>6, BeforeTwice
    <3> QED
      BY <1>2, <3>5, <3>7 DEF args
  <2> QED
    BY <2>3, <2>4
<1> QED
  BY <1>2, <1>4, <1>5

\* The places before are read back when the later ones are.
LEMMA MoreReadBack ==
  ASSUME NEW line \in Seq(Unit), NEW a \in Seq(Plain), NEW m \in 1 .. Len(a) + 1,
         NEW n \in Nat, NEW l \in 1 .. Len(a) + 1
  PROVE  /\ n = LeadingRun(a, m) /\ m + n \in 1 .. Len(a)
         /\ l = m + n + 1 /\ l \in ReadBack(line, a)
         => m \in ReadBack(line, a)
<1>1. SUFFICES ASSUME n = LeadingRun(a, m), m + n \in 1 .. Len(a),
                      l = m + n + 1, l \in ReadBack(line, a)
               PROVE  m \in ReadBack(line, a)
  OBVIOUS
<1> DEFINE c == a[m + n]
           w == IF c = "quote" THEN 2 * n + 1 ELSE n
           b == Backslashes(w)
           rest == Escaped(a)[l]
           left == SubSeq(a, l, Len(a))
<1>2. w \in Nat /\ c \in Plain /\ c # "backslash"
  <2>1. c \in Plain /\ c # "backslash"
    <3>1. a[m + n] \in Plain /\ m + n \in DOMAIN a
      BY <1>1
    <3>2. a[m + n] # "backslash"
      BY <1>1, <3>1, LeadingRunEnds
    <3> QED
      BY <3>1, <3>2
  <2> HIDE DEF c
  <2> QED
    BY <2>1
<1>3. Escaped(a)[m] = (b \o <<c>>) \o rest
  <2>1. m + n # Len(a) + 1
    BY <1>1
  <2>2. Escaped(a)[m] = EscapedAt(a, Escaped(a), m)
    BY EscapedUnfolds
  <2> QED
    BY <1>1, <2>1, <2>2 DEF EscapedAt
<1>4. SubSeq(a, m, Len(a)) = Backslashes(n) \o (<<c>> \o left)
  BY <1>1, RestSplits
<1>5. /\ Len(b) = w /\ b \in Seq(Plain) /\ rest \in Seq(Plain) /\ <<c>> \in Seq(Plain)
      /\ Backslashes(n) \in Seq(Byte) /\ <<c>> \in Seq(Byte) /\ left \in Seq(Byte)
  <2>1. Plain \subseteq Byte
    BY DEF Plain, Byte
  <2>2. b \in [1 .. w -> Plain]
    BY DEF Backslashes, Plain
  <2>3. rest \in Seq(Plain)
    BY <1>2, EscapedUnfolds
  <2>4. left \in Seq(Byte)
    <3>1. a \in Seq(Byte)
      BY <2>1
    <3>2. \A j \in l .. Len(a) : a[j] \in Byte
      BY <1>2, <2>1
    <3> QED
      BY <1>2, <3>1, <3>2, SubSeqProperties
  <2> HIDE DEF c, w, rest, left
  <2>5. Backslashes(n) \in Seq(Byte) /\ Len(b) = w
    BY <1>2, BackslashBytes
  <2>6. b \in Seq(Plain)
    BY <1>2, <2>2
  <2> QED
    BY <1>2, <2>1, <2>3, <2>4, <2>5, <2>6
<1>6. l \in ReadBack(line, a)
  BY <1>1
<1>7. SUFFICES ASSUME NEW k \in Nat \ {0}, Reads(line, k, Escaped(a)[m] \o <<"quote">>),
                       Behind(a, m, k) \in DOMAIN line => line[Behind(a, m, k)] = "blank"
                PROVE  From(line)[k]["quoted"] =
                         Before(Backslashes(n) \o (<<c>> \o left),
                                From(line)[Behind(a, m, k)]["plain"])
  BY <1>4 DEF ReadBack
<1> DEFINE after == From(line)[Behind(a, m, k)]["plain"]
<1>8. (c = "quote" => w = 2 * n + 1) /\ (c # "quote" => w = n)
  OBVIOUS
<1> HIDE DEF c, w, rest, left
<1>9. /\ Reads(line, k, b) /\ Reads(line, k + w, <<c>>)
      /\ Reads(line, k + (w + 1), rest \o <<"quote">>)
      /\ k + (w + 1) \in Nat \ {0}
      /\ Behind(a, m, k) = Behind(a, l, k + (w + 1))
      /\ Behind(a, m, k) \in 1 .. Len(line) + 1
  <2> DEFINE x == b \o <<c>>
             q == <<"quote">>
             y == rest \o q
  <2>1. q \in Seq(Plain) /\ Len(q) = 1 /\ Len(<<c>>) = 1 /\ Len(rest) \in Nat /\ Len(line) \in Nat
    BY <1>5 DEF Plain
  <2> HIDE DEF b
  <2>2. x \in Seq(Plain) /\ Len(x) = w + 1
    BY ZenonT(60), <1>5, <2>1, ConcatProperties
  <2>3. y \in Seq(Plain) /\ Len(y) = Len(rest) + 1
    BY <1>5, <2>1, ConcatProperties
  <2> HIDE DEF x, q
  <2>4. Escaped(a)[m] = x \o rest /\ Len(x \o rest) = w + 1 + Len(rest)
    BY <1>2, <1>3, <1>5, <2>2, ConcatProperties DEF x
  <2>5. (x \o rest) \o q = x \o y
    <3>1. \A s, t, r \in Seq(Plain) : (s \o t) \o r = s \o (t \o r)
      BY Grouping
    <3> QED
      BY <1>5, <2>1, <2>2, <3>1
  <2> HIDE DEF y
  <2>6. Reads(line, k, x \o y)
    BY <1>7, <2>4, <2>5 DEF q
  <2>7. Reads(line, k, x) /\ Reads(line, k + (w + 1), y) /\ k + (w + 1) \in Nat \ {0}
    BY <1>7, <2>2, <2>3, <2>6, ReadsBoth
  <2>8. Reads(line, k, b) /\ Reads(line, k + w, <<c>>)
    <3>1. Reads(line, k, b \o <<c>>)
      BY <2>7 DEF x
    <3> QED
      BY <1>5, <1>7, <3>1, ReadsBoth
  <2>9. Behind(a, m, k) = k + (w + 1 + Len(rest)) + 1
    BY <2>4 DEF Behind
  <2>10. Behind(a, l, k + (w + 1)) = k + (w + 1) + Len(rest) + 1
    BY DEF Behind, rest
  <2>11. k + (w + 1) + (Len(rest) + 1) <= Len(line) + 1
    BY <2>3, <2>7 DEF Reads
  <2>12. /\ Behind(a, m, k) = Behind(a, l, k + (w + 1))
         /\ Behind(a, m, k) \in 1 .. Len(line) + 1
    BY <1>2, <1>7, <2>1, <2>9, <2>10, <2>11
  <2> QED
    BY <2>7, <2>8, <2>12 DEF y, q
<1>10. From(line)[k + (w + 1)]["quoted"] = Before(left, after)
  BY <1>6, <1>7, <1>9 DEF ReadBack, rest, left
<1>11. From(line)[k]["quoted"] =
        Before(Backslashes(n) \o <<c>>, From(line)[k + (w + 1)]["quoted"])
  BY <1>2, <1>7, <1>8, <1>9, NextReadBack
<1>12. after \in Arglist /\ after # <<>>
  BY <1>9, PlainAt
<1> HIDE DEF after
<1> DEFINE u == Backslashes(n)
           v == <<c>>
<1>13. From(line)[k]["quoted"] = Before(u \o v, Before(left, after))
  BY <1>10, <1>11
<1>14. u \in Seq(Byte) /\ v \in Seq(Byte) /\ left \in Seq(Byte)
  BY <1>5
<1> HIDE DEF u, v, b
<1>15. u \o v \in Seq(Byte)
  BY <1>14, ConcatProperties
<1>16. Before((u \o v) \o left, after) = Before(u \o v, Before(left, after))
  BY <1>12, <1>14, <1>15, BeforeTwice
<1>17. (u \o v) \o left = u \o (v \o left)
  <2>1. \A x, y, z \in Seq(Byte) : (x \o y) \o z = x \o (y \o z)
    BY Grouping
  <2> QED
    BY <1>14, <2>1
<1> QED
  BY <1>13, <1>16, <1>17 DEF u, v, after

\* An argument that was quoted is read back.
LEMMA ArgumentReadBack ==
  ASSUME NEW line \in Seq(Unit), NEW a \in Seq(Plain)
  PROVE  1 \in ReadBack(line, a)
<1> DEFINE N == Len(a) + 1
           S == ReadBack(line, a)
<1>1. N \in Nat /\ N # 0
  OBVIOUS
<1>2. ASSUME NEW m \in 1 .. N, \A j \in m + 1 .. N : j \in S
      PROVE  m \in S
  <2>1. PICK n \in Nat : n = LeadingRun(a, m) /\ m + n <= Len(a) + 1
    BY LeadingRunEnds
  <2>2. CASE m + n = Len(a) + 1
    BY <2>1, <2>2, EndReadBack
  <2>3. CASE m + n # Len(a) + 1
    <3>1. PICK l \in m + 1 .. N : l = m + n + 1 /\ m + n \in 1 .. Len(a)
      BY <1>1, <2>1, <2>3
    <3>2. l \in S /\ l \in 1 .. Len(a) + 1
      BY <1>1, <1>2, <3>1
    <3> QED
      BY <2>1, <3>1, <3>2, MoreReadBack
  <2> QED
    BY <2>2, <2>3
<1> HIDE DEF N, S
<1>3. \A m \in 1 .. N : m \in S
  BY <1>1, <1>2, Downward
<1> QED
  BY <1>1, <1>3 DEF S

\* Two sequences, one after the other.
LEMMA Appended ==
  \A s, t \in Seq(Plain) :
    s \o t \in Seq(Plain) /\ Len(s \o t) = Len(s) + Len(t) /\ Len(s) \in Nat /\ Len(t) \in Nat
BY ConcatProperties

\* An argument before others: in front of nothing and those.
LEMMA BeforeOthers ==
  ASSUME NEW a \in Seq(Byte), NEW more \in Arglist
  PROVE  /\ << <<>> >> \o more \in Arglist /\ << <<>> >> \o more # <<>>
         /\ Before(a, << <<>> >> \o more) = <<a>> \o more
<1>1. more \in Seq(Seq(Byte)) /\ <<>> \in Seq(Byte)
  BY DEF Arglist
<1> DEFINE none == <<>>
<1>2. none \in Seq(Byte)
  BY <1>1
<1>3. a \o none = a
  BY ConcatEmptySeq
<1> HIDE DEF none
<1>4. /\ <<none>> \o more \in Seq(Seq(Byte)) /\ Len(<<none>> \o more) = 1 + Len(more)
      /\ Head(<<none>> \o more) = none /\ Tail(<<none>> \o more) = more
  BY <1>1, <1>2
<1>5. <<none>> \o more # <<>>
  BY <1>1, <1>4
<1>6. Before(a, <<none>> \o more) = <<a>> \o more
  BY <1>3, <1>4 DEF Before
<1> QED
  BY <1>4, <1>5, <1>6 DEF none, Arglist

\* The arguments from which on a line is split into what was joined.
SplitBack(line, args) ==
  {j \in 1 .. Len(args) : \A k \in Nat \ {0} :
     Reads(line, k, Joined(args)[j]) /\ k + Len(Joined(args)[j]) = Len(line) + 1
     => From(line)[k]["gap"] = SubSeq(args, j, Len(args))}

\* The line has the j-th argument at k, quoted, and what is joined to it at f.
ArgumentOf(line, args, j, k, f) ==
  /\ k \in 1 .. Len(line) /\ line[k] = "quote"
  /\ Reads(line, k + 1, Escaped(args[j])[1] \o <<"quote">>)
  /\ f = Behind(args[j], 1, k + 1)
  /\ j = Len(args) => f = Len(line) + 1
  /\ j # Len(args) => /\ f \in 1 .. Len(line) /\ line[f] = "blank"
                      /\ Reads(line, f + 1, Joined(args)[j + 1])
                      /\ f + 1 + Len(Joined(args)[j + 1]) = Len(line) + 1

\* It has when it goes on with the j-th argument and the later ones.
LEMMA ReadsArgument ==
  ASSUME NEW line \in Seq(Unit), NEW args \in Args, NEW j \in 1 .. Len(args), NEW k \in Nat \ {0}
  PROVE  Reads(line, k, Joined(args)[j]) /\ k + Len(Joined(args)[j]) = Len(line) + 1
         => \E f \in 1 .. Len(line) + 1 : ArgumentOf(line, args, j, k, f)
<1>1. SUFFICES ASSUME Reads(line, k, Joined(args)[j]), k + Len(Joined(args)[j]) = Len(line) + 1
               PROVE  \E f \in 1 .. Len(line) + 1 : ArgumentOf(line, args, j, k, f)
  OBVIOUS
<1> DEFINE a == args[j]
           e == Escaped(a)[1]
           q == <<"quote">>
           b == <<"blank">>
           next == Joined(args)[j + 1]
           r == IF j = Len(args) THEN <<>> ELSE b \o next
           y == e \o q
           f == k + 1 + Len(e) + 1
<1>2. /\ a \in Seq(Plain) /\ e \in Seq(Plain) /\ q \in Seq(Plain) /\ b \in Seq(Plain)
      /\ Len(q) = 1 /\ Len(b) = 1 /\ Len(args) \in Nat /\ Len(line) \in Nat
  <2>1. a \in Seq(Plain)
    BY DEF Args
  <2>2. e \in Seq(Plain)
    BY <2>1, QuotedShape
  <2> QED
    BY <2>1, <2>2 DEF Plain, Args
<1>3. Joined(args)[j] = ((q \o e) \o q) \o r
  <2>1. j # Len(args) + 1 /\ j \in 1 .. Len(args) + 1
    BY <1>2
  <2>2. Joined(args)[j] = JoinedAt(args, Joined(args), j)
    BY <2>1, JoinedUnfolds
  <2> QED
    BY <2>1, <2>2 DEF JoinedAt, Quoted
<1>4. j # Len(args) => next \in Seq(Plain)
  <2>1. j # Len(args) => j + 1 \in 1 .. Len(args) + 1
    BY <1>2
  <2> QED
    BY <2>1, JoinedUnfolds
<1>5. f = Behind(a, 1, k + 1)
  BY DEF Behind
<1> HIDE DEF q, b, e, a, next
<1>6. y \in Seq(Plain) /\ Len(y) = Len(e) + 1 /\ Len(e) \in Nat
  BY <1>2, Appended
<1>7. r \in Seq(Plain) /\ (j = Len(args) => Len(r) = 0) /\ (j # Len(args) => r = b \o next)
  <2>1. j = Len(args) => r = <<>>
    OBVIOUS
  <2>2. j # Len(args) => r = b \o next
    OBVIOUS
  <2>3. j # Len(args) => b \o next \in Seq(Plain)
    BY <1>2, <1>4, Appended
  <2>4. <<>> \in Seq(Plain) /\ Len(<<>>) = 0
    OBVIOUS
  <2> HIDE DEF r
  <2> QED
    BY <2>1, <2>2, <2>3, <2>4
<1>8. Joined(args)[j] = (q \o y) \o r
  BY ZenonT(60), <1>2, <1>3, Grouping
<1> HIDE DEF y, r
<1>9. q \o y \in Seq(Plain) /\ Len(q \o y) = 1 + Len(y)
  BY <1>2, <1>6, Appended
<1>10. Len((q \o y) \o r) = 1 + Len(y) + Len(r) /\ Len(r) \in Nat
  <2> DEFINE x == q \o y
  <2>1. x \in Seq(Plain) /\ Len(x) = 1 + Len(y)
    BY <1>9
  <2> HIDE DEF x
  <2>2. Len(x \o r) = Len(x) + Len(r) /\ Len(r) \in Nat
    BY <1>7, <2>1, Appended
  <2> QED
    BY <2>1, <2>2 DEF x
<1>11. Reads(line, k, q \o y) /\ Reads(line, k + (1 + Len(y)), r)
  <2>1. Reads(line, k, (q \o y) \o r)
    BY <1>1, <1>8
  <2> DEFINE x == q \o y
  <2>2. x \in Seq(Plain) /\ Len(x) = 1 + Len(y) /\ Reads(line, k, x \o r)
    BY <1>9, <2>1
  <2> HIDE DEF x
  <2>3. Reads(line, k, x) /\ Reads(line, k + Len(x), r)
    BY <1>7, <2>2, ReadsBoth
  <2> QED
    BY <2>2, <2>3 DEF x
<1>12. Reads(line, k, q) /\ Reads(line, k + 1, y)
  BY <1>2, <1>6, <1>11, ReadsBoth
<1>13. k \in 1 .. Len(line) /\ line[k] = "quote"
  BY <1>12, ReadsOne DEF q
<1>14. f = k + (1 + Len(y)) /\ f \in Nat \ {0}
  BY <1>6
<1>15. f + Len(r) = Len(line) + 1
  BY <1>1, <1>2, <1>6, <1>8, <1>10, <1>14
<1>16. Reads(line, f, r)
  BY <1>11, <1>14
<1>17. ASSUME j # Len(args)
       PROVE  /\ f \in 1 .. Len(line) /\ line[f] = "blank"
              /\ Reads(line, f + 1, next) /\ f + 1 + Len(next) = Len(line) + 1
  <2> HIDE DEF f
  <2>1. r = b \o next /\ next \in Seq(Plain)
    BY <1>4, <1>7, <1>17
  <2>2. Reads(line, f, b) /\ Reads(line, f + 1, next)
    BY <1>2, <1>14, <1>16, <2>1, ReadsBoth, ZenonT(60)
  <2>3. f \in 1 .. Len(line) /\ line[f] = "blank"
    BY <1>14, <2>2, ReadsOne DEF b
  <2>4. Len(r) = 1 + Len(next) /\ Len(next) \in Nat
    BY <1>2, <2>1, Appended, ZenonT(60)
  <2>5. f + 1 + Len(next) = Len(line) + 1
    BY <1>2, <1>14, <1>15, <2>4
  <2> QED
    BY <2>2, <2>3, <2>5
<1>18. j = Len(args) => f = Len(line) + 1
  BY <1>2, <1>7, <1>14, <1>15
<1>19. f \in 1 .. Len(line) + 1
  BY <1>2, <1>10, <1>14, <1>15
<1> HIDE DEF f
<1>20. ArgumentOf(line, args, j, k, f)
  BY <1>5, <1>12, <1>13, <1>17, <1>18 DEF ArgumentOf, y, q, e, a, next
<1> QED
  BY <1>19, <1>20

\* An argument is split off when what follows it is split.
LEMMA ArgumentSplitBack ==
  ASSUME NEW line \in Seq(Unit), NEW args \in Args, NEW j \in 1 .. Len(args)
  PROVE  (j # Len(args) => j + 1 \in SplitBack(line, args)) => j \in SplitBack(line, args)
<1>1. SUFFICES ASSUME j # Len(args) => j + 1 \in SplitBack(line, args),
                      NEW k \in Nat \ {0}, Reads(line, k, Joined(args)[j]),
                      k + Len(Joined(args)[j]) = Len(line) + 1
               PROVE  From(line)[k]["gap"] = SubSeq(args, j, Len(args))
  BY DEF SplitBack
<1> DEFINE a == args[j]
           more == SubSeq(args, j + 1, Len(args))
<1>2. a \in Seq(Plain) /\ a \in Seq(Byte) /\ more \in Arglist /\ Len(args) \in Nat
  <2>1. Plain \subseteq Byte
    BY DEF Plain, Byte
  <2>2. a \in Seq(Plain) /\ Len(args) \in Nat
    BY DEF Args
  <2>3. a \in Seq(Byte)
    <3> HIDE DEF a
    <3> QED
      BY <2>1, <2>2
  <2>4. args \in Seq(Seq(Byte))
    <3>1. Seq(Plain) \subseteq Seq(Byte)
      BY <2>1
    <3> QED
      BY <3>1 DEF Args
  <2>5. \A h \in j + 1 .. Len(args) : args[h] \in Seq(Byte)
    BY <2>2, <2>4
  <2>6. more \in Seq(Seq(Byte))
    BY <2>2, <2>4, <2>5, SubSeqProperties
  <2> QED
    BY <2>2, <2>3, <2>6 DEF Arglist
<1>3. SubSeq(args, j, Len(args)) = <<a>> \o more
  <2>1. args \in Seq(Seq(Plain)) /\ Len(args) \in j .. Len(args)
    BY <1>2 DEF Args
  <2> QED
    BY <2>1, SubSeqRecursiveFirst
<1>4. j = Len(args) => more = <<>>
  <2>1. j = Len(args) => j + 1 > Len(args)
    BY <1>2
  <2>2. ASSUME j = Len(args) PROVE more = <<>>
    <3>1. args \in Seq(Seq(Plain)) /\ Len(args) \in Nat /\ j + 1 \in Nat /\ Len(args) < j + 1
      BY <1>2, <2>2 DEF Args
    <3> QED
      BY <3>1, SubSeqEmpty
  <2> QED
    BY <2>2
<1>5. PICK f \in 1 .. Len(line) + 1 : ArgumentOf(line, args, j, k, f)
  BY <1>1, ReadsArgument
<1>6. From(line)[f]["plain"] = << <<>> >> \o more
  <2>1. From(line)[f] = ArgsAt(line, From(line), f) /\ "plain" \in Places /\ "plain" # "gap"
    BY FromUnfolds DEF Places
  <2>2. CASE j = Len(args)
    <3>1. From(line)[f]["plain"] = << <<>> >>
      <4>1. f = Len(line) + 1
        BY <1>5, <2>2 DEF ArgumentOf
      <4> QED
        BY <2>1, <4>1 DEF ArgsAt, Ended
    <3>2. << <<>> >> \o more = << <<>> >>
      <4>1. << <<>> >> \in Seq(Seq(Byte))
        OBVIOUS
      <4>2. << <<>> >> \o <<>> = << <<>> >>
        BY <4>1, ConcatEmptySeq
      <4> QED
        BY <1>4, <2>2, <4>2
    <3> QED
      BY <3>1, <3>2
  <2>3. CASE j # Len(args)
    <3>1. From(line)[f]["plain"] = << <<>> >> \o From(line)[f + 1]["gap"]
      <4>1. f # Len(line) + 1 /\ line[f] = "blank" /\ "plain" # "quoted"
        BY <1>5, <2>3 DEF ArgumentOf
      <4> QED
        BY <2>1, <4>1 DEF ArgsAt, Ended
    <3>2. From(line)[f + 1]["gap"] = more
      <4>1. /\ f + 1 \in Nat \ {0} /\ Reads(line, f + 1, Joined(args)[j + 1])
            /\ f + 1 + Len(Joined(args)[j + 1]) = Len(line) + 1
        BY <1>5, <2>3 DEF ArgumentOf
      <4>2. j + 1 \in SplitBack(line, args)
        BY <1>1, <2>3
      <4> QED
        BY <4>1, <4>2 DEF SplitBack
    <3> QED
      BY <3>1, <3>2
  <2> QED
    BY <2>2, <2>3
<1>7. From(line)[k + 1]["quoted"] = Before(a, From(line)[f]["plain"])
  <2>1. 1 \in ReadBack(line, a)
    BY <1>2, ArgumentReadBack
  <2>2. f \in DOMAIN line => line[f] = "blank"
    BY <1>2, <1>5 DEF ArgumentOf
  <2>3. k + 1 \in Nat \ {0}
    BY <1>1
  <2>4. SubSeq(a, 1, Len(a)) = a
    BY <1>2, SubSeqFull
  <2>5. Reads(line, k + 1, Escaped(a)[1] \o <<"quote">>) /\ f = Behind(a, 1, k + 1)
    BY <1>5 DEF ArgumentOf
  <2> HIDE DEF a
  <2> QED
    BY <2>1, <2>2, <2>3, <2>4, <2>5 DEF ReadBack
<1>8. From(line)[k]["gap"] = Before(<<>>, From(line)[k + 1]["quoted"])
  BY <1>5, QuoteTurns DEF ArgumentOf
<1> HIDE DEF a, more
<1> DEFINE rest == << <<>> >> \o more
<1>9. rest \in Arglist /\ rest # <<>> /\ Before(a, rest) = <<a>> \o more
  BY <1>2, BeforeOthers
<1> HIDE DEF rest
<1>10. Before(a, rest) \in Arglist /\ Before(a, rest) # <<>>
  BY <1>2, <1>9, BeforeShape
<1>11. Before(<<>>, Before(a, rest)) = Before(a, rest)
  BY <1>10, BeforeNothing
<1> QED
  BY <1>3, <1>6, <1>7, <1>8, <1>9, <1>11 DEF rest

\* A line that quotes arguments is split into them.
LEMMA QuotingInverts ==
  ASSUME NEW line \in Seq(Unit), NEW args \in Args, line = JoinQuoted(args)
  PROVE  Split(line) = args
<1>1. Len(args) \in Nat /\ args \in Seq(Seq(Plain)) /\ Len(line) \in Nat
  BY DEF Args
<1>2. CASE Len(args) = 0
  <2>1. args = <<>>
    BY <1>1, <1>2, EmptySeq
  <2>2. line = <<>>
    <3>1. Joined(args)[1] = JoinedAt(args, Joined(args), 1)
      BY <1>1, JoinedUnfolds
    <3> QED
      BY <1>2, <3>1 DEF JoinedAt, JoinQuoted
  <2>3. 1 = Len(line) + 1
    BY <2>2
  <2>4. From(line)[1] = ArgsAt(line, From(line), 1) /\ "gap" \in Places
    BY <2>3, FromUnfolds DEF Places
  <2>5. From(line)[1]["gap"] = <<>>
    BY <2>3, <2>4 DEF ArgsAt, Ended
  <2> QED
    BY <2>1, <2>5 DEF Split
<1>3. CASE Len(args) # 0
  <2> DEFINE N == Len(args)
             S == SplitBack(line, args)
  <2>1. N \in Nat /\ N # 0
    BY <1>1, <1>3
  <2>2. ASSUME NEW j \in 1 .. N, \A h \in j + 1 .. N : h \in S
        PROVE  j \in S
    <3>1. j # N => j + 1 \in j + 1 .. N
      <4> HIDE DEF N
      <4> QED
        BY <2>1
    <3>2. j # N => j + 1 \in S
      BY <2>2, <3>1
    <3> QED
      BY <3>2, ArgumentSplitBack
  <2> HIDE DEF N, S
  <2>3. \A j \in 1 .. N : j \in S
    BY <2>1, <2>2, Downward
  <2>4. 1 \in SplitBack(line, args)
    BY <2>1, <2>3 DEF S
  <2>5. Reads(line, 1, Joined(args)[1]) /\ 1 + Len(Joined(args)[1]) = Len(line) + 1
    <3>1. Joined(args)[1] = line
      BY DEF JoinQuoted
    <3>2. \A h \in 1 .. Len(line) : 1 + (h - 1) = h
      BY <1>1
    <3>3. Reads(line, 1, line)
      BY <1>1, <3>2 DEF Reads
    <3> QED
      BY <1>1, <3>1, <3>3
  <2>6. From(line)[1]["gap"] = SubSeq(args, 1, Len(args))
    BY <2>4, <2>5, 1 \in Nat \ {0} DEF SplitBack
  <2>7. SubSeq(args, 1, Len(args)) = args
    BY <1>1, SubSeqFull
  <2> QED
    BY <2>6, <2>7 DEF Split
<1> QED
  BY <1>2, <1>3

\* So the parser's answer for a line that quotes arguments is those arguments.
LEMMA SInvExact == SInv => SplitExact
<1> SUFFICES ASSUME SInv PROVE SplitExact
  OBVIOUS
<1>1. SplitAsDocumented /\ (phase = "done" => Result = Split(cmdline))
  BY Documented
<1>2. ASSUME phase = "done", cmdline \in QuotedLines PROVE JoinQuoted(Result) = cmdline
  <2>1. PICK args \in Arguments : cmdline = JoinQuoted(args)
    BY <1>2 DEF QuotedLines
  <2>2. args \in Args
    BY RtProcSplitAssumption DEF Args
  <2>3. cmdline \in Seq(Unit)
    BY DEF SInv, IInv, Given
  <2>4. Split(cmdline) = args
    BY <2>1, <2>2, <2>3, QuotingInverts
  <2> QED
    BY <1>1, <1>2, <2>1, <2>4
<1> QED
  BY <1>1, <1>2 DEF SplitExact, RoundTrip

\* rt_proc_parse_cmdline splits every command line, whatever its three bounds, the
\* way its documentation describes, and gives back every list of arguments that
\* was quoted.
THEOREM SplitExactHolds == Spec => []SplitExact
<1>1. Init => SInv
  BY InitSInv
<1>2. SInv /\ [Next]_vars => SInv'
  BY NextSInv
<1>3. SInv => SplitExact
  BY SInvExact
<1> QED
  BY <1>1, <1>2, <1>3, PTL DEF Spec
=============================================================================
