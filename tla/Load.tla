-------------------------------- MODULE Load --------------------------------
(***************************************************************************)
(* The source loader (bootstrap/src/load/load.c): a file is read, its line *)
(* terminators are normalised, and one pass over the text validates UTF-8  *)
(* everywhere and NUL bytes outside strings and comments.  A byte is its   *)
(* number; offsets are 0-based, as in the code.                            *)
(***************************************************************************)
EXTENDS Integers, Sequences, SequencesExt, FiniteSets

CONSTANT LoadFailures   \* whether an allocation or a read may fail: a subset of BOOLEAN

NUL   == 0
LF    == 10
CR    == 13
Quote == 34
Star  == 42
Slash == 47
Backslash == 92

VARIABLES raw,      \* the bytes of the file
          pc,       \* "read", "normalize", "scan" or "done"
          i,        \* the index of the running loop
          text,     \* the normalised text
          starts,   \* line_starts
          ctx,      \* the lexical context of the scan
          scan_records,  \* diagnostics, in the order they were added
          scan_oom,      \* Scan.oom
          load_status    \* the LoadStatus answered

loadVars == <<raw, pc, i, text, starts, ctx, scan_records, scan_oom, load_status>>

\* The loader before it reads raw.
Idle     == /\ pc = "read" /\ i = 0 /\ starts = <<>> /\ ctx = "code"
            /\ scan_records = <<>> /\ scan_oom = FALSE /\ load_status = "none"
LoadInit == text = <<>> /\ Idle

-----------------------------------------------------------------------------
(* Reading and normalising                                                 *)

Ends(s) == pc' = "done" /\ load_status' = s

\* load_source_from_file: open, measure, allocate and read, then
\* load_source_from_bytes with the buffers of normalize_bytes.
Read ==
  /\ pc = "read"
  /\ \/ TRUE \in LoadFailures /\ \E s \in {"LOAD_IO_ERROR", "LOAD_OOM"} : Ends(s)
        /\ UNCHANGED starts
     \/ pc' = "normalize" /\ starts' = <<0>> /\ UNCHANGED load_status
  /\ UNCHANGED <<raw, i, text, ctx, scan_records, scan_oom>>

CrLfAt(k) == k + 1 < Len(raw) /\ raw[k + 1] = CR /\ raw[k + 2] = LF

\* One turn of the loop of normalize_bytes.
NormalizeStep ==
  /\ pc = "normalize" /\ i < Len(raw)
  /\ LET c == IF CrLfAt(i) THEN LF ELSE raw[i + 1]
     IN /\ text' = Append(text, c)
        /\ starts' = IF c = LF THEN Append(starts, Len(text) + 1) ELSE starts
        /\ i' = i + (IF CrLfAt(i) THEN 2 ELSE 1)
  /\ UNCHANGED <<raw, pc, ctx, scan_records, scan_oom, load_status>>

\* The variables of the loop of position_at.
Windows == [lo : 0 .. Len(starts), hi : -1 .. Len(starts) - 1, ans : 0 .. Len(starts) - 1]
Window(lo, hi, ans) == [lo |-> lo, hi |-> hi, ans |-> ans]

\* Bisection for the rightmost line start that is not past the offset.
Search(offset, window) ==
  LET S[w \in Windows] ==
        LET mid == w.lo + (w.hi - w.lo) \div 2
        IN IF w.lo > w.hi THEN w.ans
           ELSE IF starts[mid + 1] <= offset THEN S[Window(mid + 1, w.hi, mid)]
           ELSE S[Window(w.lo, mid - 1, w.ans)]
  IN S[window]

position_at(offset) ==
  LET line == Search(offset, Window(0, Len(starts) - 1, 0))
  IN [line |-> line + 1, col |-> offset - starts[line + 1] + 1]

-----------------------------------------------------------------------------
(* The scan                                                                *)

B(k)       == text[k + 1]
Have(k)    == k < Len(text)
Is(k, b)   == Have(k) /\ B(k) = b

\* scan_add: a record, unless an allocation of it fails or one failed before.
Add(rs) ==
  \/ scan_oom /\ UNCHANGED <<scan_records, scan_oom>>
  \/ ~ scan_oom /\ scan_records' = scan_records \o rs /\ UNCHANGED scan_oom
  \/ /\ ~ scan_oom /\ rs # <<>> /\ TRUE \in LoadFailures
     /\ scan_oom' = TRUE /\ UNCHANGED scan_records

Finding(code, start, end) == [code |-> code, start |-> start, end |-> end]

BeginScan ==
  /\ pc = "normalize" /\ i = Len(raw)
  /\ pc' = "scan" /\ i' = 0
  /\ Add(IF Is(0, 239) /\ Is(1, 187) /\ Is(2, 191)
         THEN <<Finding("AIC-L0002", 0, 3)>> ELSE <<>>)
  /\ UNCHANGED <<raw, text, starts, ctx, load_status>>

Needs(lead) == IF lead \in 194 .. 223 THEN 1
               ELSE IF lead \in 224 .. 239 THEN 2
               ELSE IF lead \in 240 .. 244 THEN 3
               ELSE 0

Continues(k) == Have(k) /\ B(k) \in 128 .. 191

\* consume_continuations: how many of the continuation bytes are there.
Continuations(k) ==
  LET n == Needs(B(k))
  IN CHOOSE m \in 0 .. n :
       /\ \A j \in 1 .. m : Continues(k + j)
       /\ m < n => ~ Continues(k + m + 1)

\* The code point of a completed sequence of three or four bytes.
CodePoint(k) ==
  LET C(j) == B(k + j) % 64
  IN IF Needs(B(k)) = 2 THEN (B(k) % 16) * 4096 + C(1) * 64 + C(2)
     ELSE (B(k) % 8) * 262144 + C(1) * 4096 + C(2) * 64 + C(3)

\* Neither overlong, nor a surrogate, nor out of range.
Encodes(k) ==
  /\ Needs(B(k)) = 2 => CodePoint(k) >= 2048 /\ (CodePoint(k) < 55296 \/ 57343 < CodePoint(k))
  /\ Needs(B(k)) = 3 => 65536 <= CodePoint(k) /\ CodePoint(k) <= 1114111

\* scan_utf8_sequence: the bytes used up, and the record of a malformed run.
SequenceAt(k) ==
  LET m == Continuations(k)
      valid == Needs(B(k)) > 0 /\ m = Needs(B(k)) /\ Encodes(k)
  IN [size |-> m + 1,
      found |-> IF valid THEN <<>> ELSE <<Finding("AIC-L0001", k, k + m + 1)>>]

Goes(c, n, rs) == /\ ctx' = c /\ i' = i + n /\ Add(rs)
                  /\ UNCHANGED <<raw, pc, text, starts, load_status>>

In(c) == pc = "scan" /\ Have(i) /\ ctx = c

\* A byte from 128 up begins a sequence, in every context.
Multibyte ==
  /\ pc = "scan" /\ Have(i) /\ B(i) >= 128
  /\ Goes(ctx, SequenceAt(i).size, SequenceAt(i).found)

OpensLine == Is(i, Slash) /\ Is(i + 1, Slash)
OpensBlock == Is(i, Slash) /\ Is(i + 1, Star)

LineComment  == In("code") /\ OpensLine /\ Goes("line", 2, <<>>)
BlockComment == In("code") /\ OpensBlock /\ Goes("block", 2, <<>>)
OpenString   == In("code") /\ B(i) = Quote /\ Goes("string", 1, <<>>)
Nul          == In("code") /\ B(i) = NUL
                /\ Goes("code", 1, <<Finding("AIC-L0003", i, i + 1)>>)
Code         == /\ In("code") /\ B(i) < 128 /\ B(i) \notin {Quote, NUL}
                /\ ~ OpensLine /\ ~ OpensBlock
                /\ Goes("code", 1, <<>>)

InLine == /\ In("line") /\ B(i) < 128
          /\ Goes(IF B(i) = LF THEN "code" ELSE "line", 1, <<>>)

CloseBlock == In("block") /\ Is(i, Star) /\ Is(i + 1, Slash) /\ Goes("code", 2, <<>>)
InBlock    == /\ In("block") /\ B(i) < 128 /\ ~ (Is(i, Star) /\ Is(i + 1, Slash))
              /\ Goes("block", 1, <<>>)

Bug_Escape ==
  /\ In("string") /\ B(i) = Backslash
  /\ Goes("string", 1, <<>>)

\* A backslash takes the next byte along, or the whole sequence it begins; a
\* line feed after it ends the string for this scan.
Escape ==
  /\ In("string") /\ B(i) = Backslash
  /\ \/ ~ Have(i + 1) /\ Goes("string", 1, <<>>)
     \/ Is(i + 1, LF) /\ Goes("code", 2, <<>>)
     \/ /\ Have(i + 1) /\ B(i + 1) >= 128
        /\ Goes("string", 1 + SequenceAt(i + 1).size, SequenceAt(i + 1).found)
     \/ Have(i + 1) /\ B(i + 1) \in 0 .. 127 \ {LF} /\ Goes("string", 2, <<>>)

InString == /\ In("string") /\ B(i) < 128 /\ B(i) # Backslash
            /\ Goes(IF B(i) \in {Quote, LF} THEN "code" ELSE "string", 1, <<>>)

\* diag_sort_records: the records in the order of diag_record_compare, which two
\* of one file compare by their offsets.
Orders(rs) == {o \in [DOMAIN rs -> DOMAIN rs] :
                 /\ \A k \in DOMAIN rs : \E j \in DOMAIN rs : o[j] = k
                 /\ \A j, k \in DOMAIN rs : j < k => rs[o[j]].start <= rs[o[k]].start}

\* Memory has run out, or there are records, or there is a source.
LoadFinish ==
  /\ pc = "scan" /\ ~ Have(i)
  /\ \/ scan_oom /\ Ends("LOAD_OOM") /\ scan_records' = <<>>
     \/ /\ ~ scan_oom /\ scan_records # <<>> /\ Ends("LOAD_VALIDATION_ERROR")
        /\ \E o \in Orders(scan_records) :
             scan_records' = [k \in DOMAIN scan_records |-> scan_records[o[k]]]
     \/ /\ ~ scan_oom /\ scan_records = <<>> /\ UNCHANGED scan_records
        /\ \/ Ends("LOAD_OK")
           \/ TRUE \in LoadFailures /\ Ends("LOAD_OOM")
  /\ UNCHANGED <<raw, i, text, starts, ctx, scan_oom>>

LoadNext == \/ Read \/ NormalizeStep \/ BeginScan
            \/ Multibyte \/ LineComment \/ BlockComment \/ OpenString \/ Nul \/ Code
            \/ InLine \/ CloseBlock \/ InBlock \/ Escape \/ InString
            \/ LoadFinish

\* A file is any sequence of bytes.
LoadSpec == raw \in Seq(0 .. 255) /\ LoadInit /\ [][LoadNext]_loadVars
=============================================================================
