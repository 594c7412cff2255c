------------------------------ MODULE LexText ------------------------------
(***************************************************************************)
(* What the lexer (bootstrap/src/lex/lex.c) reads at a position of the     *)
(* text that was loaded: trivia, literals, punctuation.  Each operator     *)
(* answers where it ended and which diagnostics it found, in the order     *)
(* they are added.                                                         *)
(***************************************************************************)
EXTENDS Load, FiniteSetsExt

CONSTANTS IntBits,     \* bits of an i8, an i16, an i32 and a machine word
          Puncts       \* kPuncts: the spellings in the order of the table

\* No spelling goes on where an earlier one of the table ends.
ASSUME PunctsAssumption ==
  /\ Puncts \in Seq(Seq(0 .. 255) \ {<<>>})
  /\ \A j, k \in DOMAIN Puncts : j < k => ~ IsStrictPrefix(Puncts[j], Puncts[k])

\* The types are as wide as they are named, and none is wider than a word.
ASSUME IntBitsAssumption ==
  /\ IntBits \in [i8 : Nat \ {0}, i16 : Nat \ {0}, i32 : Nat \ {0}, word : Nat \ {0}]
  /\ IntBits.i8 <= IntBits.i16 /\ IntBits.i16 <= IntBits.i32 /\ IntBits.i32 <= IntBits.word

Underscore == 95
X     == 120
Blank == {9, 10, 13, 32}

Digits      == 48 .. 57
HexDigits   == Digits \cup 97 .. 102 \cup 65 .. 70
Letters     == 65 .. 90 \cup 97 .. 122 \cup {Underscore}
IdentBytes  == Letters \cup Digits

HexValue(b) == IF b \in Digits THEN b - 48 ELSE IF b \in 97 .. 102 THEN b - 87 ELSE b - 55

\* The first position from p on whose byte is not in s.
RunEnd(p, s) ==
  Min({k \in p .. Len(text) : k = Len(text) \/ B(k) \notin s})

-----------------------------------------------------------------------------
(* Trivia                                                                  *)

Closings(p) == {k \in p .. Len(text) - 2 : Is(k, Star) /\ Is(k + 1, Slash)}

Bug_BlockEnd(p) ==
  IF Closings(p + 1) = {} THEN Len(text) ELSE Min(Closings(p + 1)) + 2

\* Where the block comment that opens at p ends.
BlockEnd(p) ==
  IF Closings(p + 2) = {} THEN Len(text) ELSE Min(Closings(p + 2)) + 2

LineEnd(p) == Min({k \in p .. Len(text) : k = Len(text) \/ B(k) = LF})

skip_trivia(from) ==
  LET Skip[p \in 0 .. Len(text)] ==
        IF Have(p) /\ B(p) \in Blank THEN Skip[p + 1]
        ELSE IF Is(p, Slash) /\ Is(p + 1, Slash) THEN Skip[LineEnd(p)]
        ELSE IF ~ (Is(p, Slash) /\ Is(p + 1, Star)) THEN [end |-> p, found |-> <<>>]
        ELSE IF Closings(p + 2) # {} THEN Skip[BlockEnd(p)]
        ELSE [end |-> Len(text), found |-> <<Finding("AIC-L0004", p, Len(text))>>]
  IN Skip[from]

-----------------------------------------------------------------------------
(* Integer literals                                                        *)

\* kSuffixes: how the names of the types are spelled.
kSuffixes == [i8  |-> <<105, 56>>, i16 |-> <<105, 49, 54>>, i32 |-> <<105, 51, 50>>,
              i64 |-> <<105, 54, 52>>, isize |-> <<105, 115, 105, 122, 101>>,
              u8  |-> <<117, 56>>, u16 |-> <<117, 49, 54>>, u32 |-> <<117, 51, 50>>,
              u64 |-> <<117, 54, 52>>, usize |-> <<117, 115, 105, 122, 101>>]

Signed   == {"i8", "i16", "i32", "i64", "isize"}
Unsigned == {"u8", "u16", "u32", "u64", "usize"}

\* The widths of the table: i64, u64 and the size types are a word wide.
Width(type) == CASE type \in {"i8", "u8"}   -> IntBits.i8
                 [] type \in {"i16", "u16"} -> IntBits.i16
                 [] type \in {"i32", "u32"} -> IntBits.i32
                 [] OTHER -> IntBits.word

\* UINT64_C(1) << n, in numbers that do not wrap.
PowerOf2[n \in 0 .. IntBits.word] == IF n = 0 THEN 1 ELSE 2 * PowerOf2[n - 1]

WordMax == PowerOf2[IntBits.word] - 1

Prefix(p) ==
  IF ~ (Is(p, 48) /\ Have(p + 1)) THEN 10
  ELSE IF B(p + 1) \in {120, 88} THEN 16
  ELSE IF B(p + 1) \in {98, 66} THEN 2
  ELSE IF B(p + 1) \in {111, 79} THEN 8
  ELSE 10

BaseDigits(base) == IF base = 16 THEN HexDigits ELSE 48 .. 47 + base

\* Is s what the text reads from p on?
Spells(p, s) == p + Len(s) <= Len(text) /\ \A j \in DOMAIN s : text[p + j] = s[j]

\* match_suffix: the name of a type at a word boundary (no name begins another,
\* so there is one at most).
SuffixAt(p) ==
  {t \in DOMAIN kSuffixes :
     LET end == p + Len(kSuffixes[t])
     IN Spells(p, kSuffixes[t]) /\ ~ (Have(end) /\ B(end) \in IdentBytes)}

\* The value in a word of the digits from p up to q, or overflow.
Value(p, q, base) ==
  LET V[k \in p .. q] ==
        IF k = p THEN [value |-> 0, overflow |-> FALSE]
        ELSE IF V[k - 1].overflow \/ B(k - 1) = Underscore THEN V[k - 1]
        ELSE IF V[k - 1].value > (WordMax - HexValue(B(k - 1))) \div base
               THEN [V[k - 1] EXCEPT !.overflow = TRUE]
        ELSE [value |-> V[k - 1].value * base + HexValue(B(k - 1)), overflow |-> FALSE]
  IN V[q]

\* signed_magnitude_fits, unsigned_magnitude_fits.
Fits(type, value, unary_minus) ==
  IF type \in Unsigned THEN value <= PowerOf2[Width(type)] - 1
  ELSE value <= PowerOf2[Width(type) - 1] - (IF unary_minus THEN 0 ELSE 1)

IntToken(type, v, is_min, start, end) ==
  [kind |-> "int", type |-> type, value |-> v, is_min |-> is_min,
   start |-> start, end |-> end, span |-> TRUE]

Nothing(end, found)  == [end |-> end, found |-> found, token |-> <<>>]
Token(end, token)    == [end |-> end, found |-> <<>>, token |-> <<token>>]

scan_integer(start, unary_minus) ==
  LET base     == Prefix(start)
      first    == start + (IF base = 10 THEN 0 ELSE 2)
      last     == RunEnd(first, BaseDigits(base) \cup {Underscore})
      run      == first .. last - 1
      IsDigit(k) == k \in run /\ B(k) # Underscore
      malformed == \/ ~ \E k \in run : IsDigit(k)
                   \/ base = 10 /\ Is(start, 48) /\ last - first > 1
      misplaced == \E k \in run : /\ B(k) = Underscore
                                  /\ ~ (IsDigit(k - 1) /\ IsDigit(k + 1))
      plain    == SuffixAt(last) = {}
      v        == Value(first, last, base)
      least    == IF v.value <= PowerOf2[IntBits.i32 - 1] - 1 THEN "i32"
                  ELSE IF v.value <= PowerOf2[IntBits.word - 1] - 1 THEN "i64"
                  ELSE "u64"
      type     == IF plain THEN least ELSE CHOOSE t \in SuffixAt(last) : TRUE
      end      == last + (IF plain THEN 0 ELSE Len(kSuffixes[type]))
      fits     == ~ v.overflow /\ (~ plain => Fits(type, v.value, unary_minus))
      is_min   == /\ ~ plain /\ type \in Signed /\ unary_minus
                  /\ v.value = PowerOf2[Width(type) - 1]
  IN IF malformed THEN Nothing(last, <<Finding("AIC-L0001", start, last)>>)
     ELSE IF misplaced THEN Nothing(end, <<Finding("AIC-L0005", start, end)>>)
     ELSE IF ~ fits THEN Nothing(end, <<Finding("AIC-L0006", start, end)>>)
     ELSE Token(end, IntToken(type, v.value, is_min, start, end))

-----------------------------------------------------------------------------
(* String literals                                                         *)

\* 0, n, r and t; a quote and a backslash stand for themselves.
Escapes == [b \in {48, 110, 114, 116, 92, 34} |->
              IF b = 48 THEN 0 ELSE IF b = 110 THEN 10
              ELSE IF b = 114 THEN 13 ELSE IF b = 116 THEN 9 ELSE b]

\* Where an invalid \x escape at p ends: the hex digits that are there belong
\* to it.
HexEnd(p) == IF Have(p + 2) /\ B(p + 2) \in HexDigits THEN p + 3 ELSE p + 2

IsHex(p) == /\ Is(p + 1, X) /\ Have(p + 3)
            /\ B(p + 2) \in HexDigits /\ B(p + 3) \in HexDigits

\* scan_string_one: the literal whose quote is at start.  Bytes and findings are
\* put in front of those of the rest; behind a line feed (discard is up) only the
\* end of the literal counts.
scan_string_one(start) ==
  LET Unterminated == <<Finding("AIC-L0001", start, Len(text))>>
      Before(bytes, found, s) == [s EXCEPT !.bytes = bytes \o @, !.found = found \o @]
      Discarded(found, s) ==
        [s EXCEPT !.bytes = <<>>,
                  !.found = found \o (IF s.closed THEN <<>> ELSE Unterminated)]
      S[p \in 0 .. Len(text)] ==
        IF ~ Have(p) \/ (B(p) = Backslash /\ ~ Have(p + 1))
          THEN [end |-> Len(text), bytes |-> <<>>, closed |-> FALSE, found |-> Unterminated]
        ELSE IF B(p) = Quote
          THEN [end |-> p + 1, bytes |-> <<>>, closed |-> TRUE, found |-> <<>>]
        ELSE IF B(p) = LF THEN Discarded(<<Finding("AIC-L0007", p, p + 1)>>, S[p + 1])
        ELSE IF B(p) # Backslash THEN Before(<<B(p)>>, <<>>, S[p + 1])
        ELSE IF B(p + 1) \in DOMAIN Escapes THEN Before(<<Escapes[B(p + 1)]>>, <<>>, S[p + 2])
        ELSE IF B(p + 1) # X THEN Before(<<>>, <<Finding("AIC-L0008", p, p + 2)>>, S[p + 2])
        ELSE IF IsHex(p)
          THEN Before(<<HexValue(B(p + 2)) * 16 + HexValue(B(p + 3))>>, <<>>, S[p + 4])
        ELSE Before(<<>>, <<Finding("AIC-L0008", p, HexEnd(p))>>, S[HexEnd(p)])
  IN S[start + 1]

Good(s) == s.closed /\ s.found = <<>>

\* utf8_valid: how many bytes the character at k takes, 0 when it is invalid.
CharSize(s, k) ==
  LET b == s[k]
      Cont(j) == k + j <= Len(s) /\ s[k + j] \in 128 .. 191
  IN IF b < 128 THEN 1
     ELSE IF b \in 194 .. 223 /\ Cont(1) THEN 2
     ELSE IF /\ b \in 224 .. 239 /\ Cont(1) /\ Cont(2)
             /\ b = 224 => s[k + 1] >= 160
             /\ b = 237 => s[k + 1] < 160 THEN 3
     ELSE IF /\ b \in 240 .. 244 /\ Cont(1) /\ Cont(2) /\ Cont(3)
             /\ b = 240 => s[k + 1] >= 144
             /\ b = 244 => s[k + 1] < 144 THEN 4
     ELSE 0

utf8_valid(s) ==
  LET V[k \in 1 .. Len(s) + 1] ==
        \/ k > Len(s)
        \/ CharSize(s, k) > 0 /\ V[k + CharSize(s, k)]
  IN V[1]

StrToken(bytes, start, end) ==
  [kind |-> "str", bytes |-> bytes, start |-> start, end |-> end, span |-> TRUE]

\* scan_string: adjacent literals are concatenated; one bad literal spoils all.
\* The position answered is the end of the last literal, so the trivia behind it
\* is skipped once more by the main loop.  More is what follows a good literal
\* that ends at p.
scan_string(start) ==
  LET More[p \in 0 .. Len(text)] ==
        LET trivia == skip_trivia(p)
            next   == scan_string_one(trivia.end)
            found  == trivia.found
        IN IF ~ Is(trivia.end, Quote)
             THEN [end |-> p, bytes |-> <<>>, good |-> TRUE, found |-> found]
           ELSE IF ~ Good(next)
             THEN [end |-> next.end, bytes |-> <<>>, good |-> FALSE,
                   found |-> found \o next.found]
           ELSE [More[next.end] EXCEPT !.bytes = next.bytes \o @, !.found = found \o @]
      first == scan_string_one(start)
      rest  == More[first.end]
      bytes == first.bytes \o rest.bytes
  IN IF ~ Good(first) THEN Nothing(first.end, first.found)
     ELSE IF ~ rest.good THEN Nothing(rest.end, rest.found)
     ELSE IF utf8_valid(bytes)
       THEN [end |-> rest.end, found |-> rest.found,
             token |-> <<StrToken(bytes, start, rest.end)>>]
     ELSE Nothing(rest.end, rest.found \o <<Finding("AIC-L0009", start, rest.end)>>)

-----------------------------------------------------------------------------
(* Identifiers and punctuation                                             *)

Matches(p, k) ==
  p + Len(Puncts[k]) <= Len(text) /\ SubSeq(text, p + 1, p + Len(Puncts[k])) = Puncts[k]

PunctToken(k, start, end) ==
  [kind |-> "punct", punct |-> k, start |-> start, end |-> end, span |-> TRUE]

\* scan_punct: the first entry of the table that matches, or an invalid
\* character, whose bytes are skipped together.
scan_punct(p) ==
  LET some == {k \in DOMAIN Puncts : Matches(p, k)}
      size == IF B(p) \in 194 .. 223 THEN 2 ELSE IF B(p) \in 224 .. 239 THEN 3
              ELSE IF B(p) \in 240 .. 244 THEN 4 ELSE 1
      end  == Min({p + size, Len(text)})
  IN IF some # {}
     THEN LET k == Min(some)
          IN Token(p + Len(Puncts[k]), PunctToken(k, p, p + Len(Puncts[k])))
     ELSE Nothing(end, <<Finding("AIC-L0001", p, end)>>)
=============================================================================
