------------------------------- MODULE MCLex -------------------------------
(* Texts made of fragments, and the properties of the lexer's answer.      *)
EXTENDS Lex

CONSTANTS MaxFragments,  \* bound: fragments of a text
          LiteralLen     \* bound: fragments of a text of literals

Joined(fragments, n) ==
  {FlattenSeq(f) : f \in UNION {[1 .. k -> fragments] : k \in 0 .. n}}
Made(fragments) == Joined(fragments, MaxFragments)

\* Literals:   - 0 1 2 9 x _ i8 u8 blank, also behind a prefix and its sign
Pieces == {<<45>>, <<48>>, <<49>>, <<50>>, <<57>>, <<120>>, <<95>>, <<105, 56>>,
          <<117, 56>>, <<32>>}
LiteralTexts ==
  Joined(Pieces, LiteralLen)
  \cup {sign \o <<48, 120>> \o f : sign \in {<<>>, <<45>>}, f \in Joined(Pieces, LiteralLen - 1)}
\* Suffixes:   numbers at the edges of the scaled types, in three bases, a name
\* of a type or almost one, and what follows; alone, negated, subtracted
EdgeNumbers == {<<48>>, <<49>>, <<50>>, <<51>>, <<52>>, <<55>>, <<56>>, <<49, 53>>, <<49, 54>>,
                <<51, 95, 49>>, <<51, 50>>, <<48, 120, 49, 70>>, <<48, 88, 50, 48>>, <<48, 98, 49, 95, 48>>}
TypeNames == Range(kSuffixes) \cup {<<105, 54>>, <<117, 49>>, <<105, 115, 105, 122>>, <<117>>}
SuffixTexts ==
  {sign \o n \o name \o tail : sign \in {<<>>, <<45>>, <<49, 45>>}, n \in EdgeNumbers, name \in TypeNames,
                             tail \in {<<>>, <<56>>, <<95>>, <<32, 49>>}}
\* Strings:    " a \" \x \xED \xA0 \x80 line-feed blank /* */ //
StringTexts == Made({<<34>>, <<97>>, <<92, 34>>, <<92, 120>>, <<92, 120, 69, 68>>,
                     <<92, 120, 65, 48>>, <<92, 120, 56, 48>>, <<10>>, <<32>>,
                     <<47, 42>>, <<42, 47>>, <<47, 47>>})
\* Encodings:  the five bytes after an opening and before a closing quote
EncodingTexts ==
  {<<34>> \o f \o <<34>> :
     f \in Made({<<92, 120, 69, 68>>, <<92, 120, 65, 48>>, <<92, 120, 56, 48>>,
                 <<92, 120, 69, 48>>, <<92, 120, 67, 51>>, <<97>>, <<34, 34>>})}
\* Four bytes: escapes for leads and second bytes at both ends of Unicode's
\* table, whole, cut short, or continued by the next literal
Escaped(b) == LET digit == <<48, 49, 50, 51, 52, 53, 54, 55, 56, 57, 65, 66, 67, 68, 69, 70>>
              IN <<92, 120, digit[(b \div 16) + 1], digit[(b % 16) + 1]>>
FourTexts ==
  {<<34>> \o Escaped(lead) \o c[1] \o c[2] \o c[3] \o <<34>> :
     lead \in {239, 240, 241, 244, 245},
     c \in [1 .. 3 -> {<<>>, <<34, 32, 34>>}
                      \cup {Escaped(b) : b \in {127, 128, 143, 144, 191, 192}}]}
\* Tokens:     a if - < > = . ( @ the two bytes of a letter with an accent, blank
TokenTexts == Made({<<97>>, <<105, 102>>, <<45>>, <<60>>, <<62>>, <<61>>, <<46>>,
                    <<40>>, <<64>>, <<195, 169>>, <<32>>})
\* Allocation: one token of each kind, an open comment, an invalid byte
SmallTexts == Made({<<97>>, <<105, 102>>, <<49>>, <<34, 97, 34>>, <<45>>, <<47, 42>>, <<64>>})

MCLexInit ==
  /\ \/ text \in LiteralTexts \/ text \in SuffixTexts \/ text \in FourTexts \/ text \in StringTexts \/ text \in EncodingTexts
     \/ text \in TokenTexts \/ text \in SmallTexts
  /\ LexInit

-----------------------------------------------------------------------------
Answered == lex_pc = "done" /\ lex_status # "LEX_OOM"
Ints     == {k \in DOMAIN tokens : tokens[k].kind = "int"}
Codes(c) == {r \in Range(lex_records) : r.code = c}

\* Do the bytes from p up to q hold nothing but blanks and whole comments?
Trivial(p, q) ==
  LET T[k \in p .. q] ==
        \/ k = q
        \/ B(k) \in Blank /\ T[k + 1]
        \/ \E e \in k + 2 .. q :
             /\ Is(k, Slash) /\ Is(k + 1, Slash)
             /\ e = Len(text) \/ Is(e, LF)
             /\ \A j \in k + 2 .. e - 1 : ~ Is(j, LF)
             /\ T[e]
        \/ \E e \in k + 4 .. q :
             /\ Is(k, Slash) /\ Is(k + 1, Star)
             /\ Is(e - 2, Star) /\ Is(e - 1, Slash)
             /\ \A j \in k + 2 .. e - 3 : ~ (Is(j, Star) /\ Is(j + 1, Slash))
             /\ T[e]
  IN T[p]

\* Spec 4.6, no silent recovery: the tokens follow one another, the stream ends
\* with its one EOF token, and between two tokens there is trivia only or a
\* diagnostic that begins there.
NothingDropped ==
  Answered =>
    /\ tokens # <<>> /\ Last(tokens).kind = "eof" /\ Last(tokens).end = Len(text)
    /\ \A k \in DOMAIN tokens :
         LET from == IF k = 1 THEN 0 ELSE tokens[k - 1].end
             to   == tokens[k].start
         IN /\ from <= to
            /\ tokens[k].kind # "eof" => (k < Len(tokens) /\ to < tokens[k].end)
            /\ ~ Trivial(from, to) => \E r \in Range(lex_records) : r.start \in from .. to - 1

\* The value that the digits from p up to q stand for, by the base of the
\* prefix, whatever its size; the bytes of a suffix are not part of them.
Meaning(p, q) ==
  LET base == Prefix(p)
      M[k \in 0 .. q - p] ==
        IF k = 0 THEN 0
        ELSE IF text[p + k] \in BaseDigits(base) THEN M[k - 1] * base + HexValue(text[p + k])
        ELSE M[k - 1]
  IN M[q - p]

\* The digits of the literal from p up to q end where its suffix begins: no
\* digit and no prefix is an i or a u.
DigitsEnd(p, q) == Min({k \in p .. q : k = q \/ B(k) \in {105, 117}})

\* Spec 4.3's integer types: the name, the bits, and whether there is a sign.
IntTypes ==
  LET Row(name, bits, sign) == [name |-> name, bits |-> bits, sign |-> sign]
  IN [i8    |-> Row(<<105, 56>>, IntBits.i8, TRUE),
      i16   |-> Row(<<105, 49, 54>>, IntBits.i16, TRUE),
      i32   |-> Row(<<105, 51, 50>>, IntBits.i32, TRUE),
      i64   |-> Row(<<105, 54, 52>>, IntBits.word, TRUE),
      isize |-> Row(<<105, 115, 105, 122, 101>>, IntBits.word, TRUE),
      u8    |-> Row(<<117, 56>>, IntBits.i8, FALSE),
      u16   |-> Row(<<117, 49, 54>>, IntBits.i16, FALSE),
      u32   |-> Row(<<117, 51, 50>>, IntBits.i32, FALSE),
      u64   |-> Row(<<117, 54, 52>>, IntBits.word, FALSE),
      usize |-> Row(<<117, 115, 105, 122, 101>>, IntBits.word, FALSE)]

\* The types that the text from p up to q names.
Named(p, q) ==
  {t \in DOMAIN IntTypes : p + Len(IntTypes[t].name) = q /\ Spells(p, IntTypes[t].name)}

Lowest(type)  == IF IntTypes[type].sign THEN 0 - PowerOf2[IntTypes[type].bits - 1] ELSE 0
Highest(type) == PowerOf2[IntTypes[type].bits - (IF IntTypes[type].sign THEN 1 ELSE 0)] - 1

\* Spec 4.3: an integer token has the value its digits stand for, a type that
\* holds it (its negation, after a unary minus): the one its suffix names, or
\* without a suffix the first of i32, i64 and u64 that does; a literal that was
\* rejected for its size fits in none of the types it could have had.
ValuesExact ==
  Answered =>
    /\ \A k \in Ints :
         LET t == tokens[k]
             digits == DigitsEnd(t.start, t.end)
         IN /\ t.value = Meaning(t.start, digits)
            /\ IF t.is_min THEN 0 - t.value = Lowest(t.type) ELSE t.value <= Highest(t.type)
            /\ digits # t.end => t.type \in Named(digits, t.end)
            /\ digits = t.end =>
                 /\ t.type \in {"i32", "i64", "u64"}
                 /\ t.type = "i64" => t.value > Highest("i32")
                 /\ t.type = "u64" => t.value > Highest("i64")
    /\ \A r \in Codes("AIC-L0006") :
         LET digits == DigitsEnd(r.start, r.end)
             m == Meaning(r.start, digits)
         IN IF digits = r.end THEN m > WordMax
            ELSE \E t \in Named(digits, r.end) : m > Highest(t)

\* The minimum of a type is written with a minus that is unary: in a file
\* without diagnostics the token before such a literal is a minus, and the one
\* before that ends no expression.
MinAfterMinus ==
  lex_pc = "done" /\ lex_status = "LEX_OK" =>
    \A k \in Ints : tokens[k].is_min =>
      /\ k > 1 /\ IsMinus(tokens[k - 1])
      /\ k > 2 => ~ is_expr_ending(tokens[k - 2])

\* Spec 4.6: punctuation is matched as long as possible.
LongestMatch ==
  Answered =>
    \A k \in DOMAIN tokens : tokens[k].kind = "punct" =>
      \A p \in DOMAIN Puncts : Matches(tokens[k].start, p) =>
        Len(Puncts[p]) <= tokens[k].end - tokens[k].start

\* Unicode's table of well-formed sequences.
Utf8Character(b) ==
  CASE Len(b) = 1 -> b[1] < 128
    [] Len(b) = 2 -> b[1] \in 194 .. 223 /\ b[2] \in 128 .. 191
    [] Len(b) = 3 -> /\ b[3] \in 128 .. 191
                     /\ b[2] \in (CASE b[1] = 224 -> 160 .. 191
                                    [] b[1] = 237 -> 128 .. 159
                                    [] b[1] \in 225 .. 239 \ {237} -> 128 .. 191
                                    [] OTHER -> {})
    [] Len(b) = 4 -> /\ b[3] \in 128 .. 191 /\ b[4] \in 128 .. 191
                     /\ b[2] \in (CASE b[1] = 240 -> 144 .. 191
                                    [] b[1] = 244 -> 128 .. 143
                                    [] b[1] \in 241 .. 243 -> 128 .. 191
                                    [] OTHER -> {})

WellFormed(s) ==
  LET W[k \in 0 .. Len(s)] ==
        k = 0 \/ \E n \in 1 .. Min({4, k}) : Utf8Character(SubSeq(s, k - n + 1, k)) /\ W[k - n]
  IN W[Len(s)]

\* Spec 4.4: the bytes of a string token, escapes expanded and neighbours
\* concatenated, are UTF-8; a literal rejected for its encoding is not.
StringsUtf8 ==
  Answered =>
    /\ \A k \in DOMAIN tokens : tokens[k].kind = "str" => WellFormed(tokens[k].bytes)
    /\ \A r \in Codes("AIC-L0009") :
         scan_string_one(r.start).end = r.end =>
           ~ WellFormed(scan_string_one(r.start).bytes)

\* Every literal is what the source says: the value of an integer and its sign,
\* the encoding of a string.
LiteralsExact == ValuesExact /\ MinAfterMinus /\ StringsUtf8

\* Nothing of a text is lost or split too early.
TokensExact == NothingDropped /\ LongestMatch

\* Each turn of the main loop uses up a byte at least.
Advance == pos' >= pos /\ (lex_pc' = "trivia" => pos' > pos)
=============================================================================
