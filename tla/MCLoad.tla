------------------------------- MODULE MCLoad -------------------------------
(* The loader against definitions it does not share: Unicode's table of    *)
(* well-formed sequences, lines counted from the text, and the lexer.      *)
EXTENDS LexText

Words(bytes, n) == UNION {[1 .. k -> bytes] : k \in 0 .. n}

CONSTANTS Utf8Len, NulLen, LineLen    \* bounds: the bytes of a file

\* Lead and continuation bytes at the limits of every range, alone and behind
\* a character of four; what opens and closes a context, with NUL and a letter
\* of two bytes, also inside a string and a comment; line terminators; the BOM.
Contexts == {0, 10, 34, 42, 47, 92, 195, 169}
SmallFiles ==
  Words({128, 144, 160, 191, 195, 224, 237, 240, 244}, Utf8Len)
    \cup {<<240, 144, 128, 191>> \o w : w \in Words({128, 144, 195, 240}, 3)}
    \cup {open \o w : open \in {<<>>, <<34>>, <<47, 42>>}, w \in Words(Contexts, NulLen)}
    \cup Words({97, 10, 13}, LineLen)
    \cup Words({0, 34, 239, 187, 191, 195}, 4)

MCInit == raw \in SmallFiles /\ LoadInit

-----------------------------------------------------------------------------
\* The Unicode standard's table 3-7: is text[k + 1 .. k + n] one character?
Character(k, n) ==
  LET b     == [j \in 0 .. n - 1 |-> text[k + j + 1]]
      Row(leads, seconds) == b[0] \in leads /\ b[1] \in seconds
      Tail_ == \A j \in 2 .. n - 1 : b[j] \in 128 .. 191
  IN \/ n = 1 /\ b[0] \in 0 .. 127
     \/ n = 2 /\ Row(194 .. 223, 128 .. 191)
     \/ /\ n = 3 /\ Tail_
        /\ \/ Row({224}, 160 .. 191)
           \/ Row({237}, 128 .. 159)
           \/ Row(225 .. 236 \cup {238, 239}, 128 .. 191)
     \/ /\ n = 4 /\ Tail_
        /\ Row({240}, 144 .. 191) \/ Row(241 .. 243, 128 .. 191) \/ Row({244}, 128 .. 143)

\* The NUL bytes the lexer meets where a token should begin.  A literal that
\* runs over a line feed is an error, and the two recover from it differently:
\* such a text answers -1.
Broken == -1
LexerNuls ==
  LET L[p \in 0 .. Len(text)] ==
        LET q == skip_trivia(p).end
            s == scan_string_one(q).end
        IN IF ~ Have(q) THEN {}
           ELSE IF B(q) # Quote THEN (IF B(q) = NUL THEN {q} ELSE {}) \cup L[q + 1]
           ELSE (IF \E k \in q + 1 .. s : text[k] = LF THEN {Broken} ELSE {}) \cup L[s]
  IN L[0]

Runs == {r \in Range(scan_records) : r.code = "AIC-L0001"}

\* The text splits into whole characters and the malformed runs of the records.
Splits ==
  LET S[k \in 0 .. Len(text)] ==
        \/ k = Len(text)
        \/ \E n \in 1 .. 4 : k + n <= Len(text) /\ Character(k, n) /\ S[k + n]
        \/ \E r \in Runs : r.start = k /\ S[r.end]
  IN S[0]

Validated == pc = "done" /\ load_status \in {"LOAD_OK", "LOAD_VALIDATION_ERROR"}

\* Every byte of the file is validated, whatever the context: the text is a row
\* of characters and of reported runs, and a run holds no character (a valid
\* byte after a broken sequence is not swallowed).
Utf8Exact ==
  Validated =>
    /\ Splits
    /\ \A r \in Runs, k \in 0 .. Len(text), n \in 1 .. 4 :
         r.start <= k /\ k + n <= r.end => ~ Character(k, n)

\* The contexts the scan keeps are those of the lexer: the NUL bytes reported
\* are the ones outside of every literal and comment the lexer reads.
NulsExact ==
  Validated /\ Broken \notin LexerNuls =>
    LexerNuls = {r.start : r \in {x \in Range(scan_records) : x.code = "AIC-L0003"}}

\* Offset to position: the line is one more than the line feeds before it, the
\* column counts from the last of them, and offset Len(text) has a position too.
Positions ==
  pc = "scan" /\ i = 0 =>
    \A o \in 0 .. Len(text) :
      LET before == {k \in 1 .. o : text[k] = LF}
          last   == IF before = {} THEN 0
                    ELSE CHOOSE k \in before : \A j \in before : j <= k
      IN position_at(o) = [line |-> 1 + Cardinality(before), col |-> o - last + 1]

\* Normalising drops the CR of every CRLF and nothing else; line_starts stays
\* within the len + 2 entries allocated for it.
Kept ==
  pc = "scan" =>
    /\ text = LET keep == {k \in DOMAIN raw :
                             ~ (raw[k] = CR /\ k < Len(raw) /\ raw[k + 1] = LF)}
              IN [n \in 1 .. Cardinality(keep) |->
                    raw[CHOOSE k \in keep : Cardinality({j \in keep : j <= k}) = n]]
    /\ Len(starts) <= Len(raw) + 2

\* What every span of the compiler rests on: the normalised text and the
\* positions in it are those of the file.
PositionsExact == Positions /\ Kept

\* The shape of the state; the index never passes the end of the text.
TypeOK ==
  /\ pc \in {"read", "normalize", "scan", "done"}
  /\ ctx \in {"code", "line", "block", "string"}
  /\ pc = "normalize" => i <= Len(raw)
  /\ pc \in {"scan", "done"} => i <= Len(text) \/ load_status = "LOAD_IO_ERROR"
  /\ \A k \in DOMAIN scan_records : scan_records[k].start < scan_records[k].end
  /\ scan_oom \in BOOLEAN

\* A file is accepted only when nothing was found, and a file with findings is
\* never accepted because memory ran out while they were recorded.
NothingAcceptedInError ==
  load_status = "LOAD_OK" => /\ Splits /\ Runs = {}
                        /\ ~ (Is(0, 239) /\ Is(1, 187) /\ Is(2, 191))

\* What the compiler knows of a file it has loaded is what is in the file.
SourceExact ==
  TypeOK /\ Utf8Exact /\ NulsExact /\ PositionsExact /\ NothingAcceptedInError
=============================================================================
