----------------------------- MODULE LexProofs -----------------------------
(***************************************************************************)
(* The lexer answers for every byte, whatever the text: its tokens follow  *)
(* one another up to the end, what lies between two of them is trivia or   *)
(* reported, punctuation is matched as long as possible, and every literal *)
(* is what the text says.                                                  *)
(***************************************************************************)
EXTENDS LoadProofs, MCLex

-----------------------------------------------------------------------------
(* Punctuation                                                             *)

\* What the bytes of a slice of the text are.
LEMMA SlicedAt ==
  ASSUME text \in Seq(Byte), NEW p \in Nat, NEW n \in Nat, p + n <= Len(text)
  PROVE  \A x \in 1 .. n : SubSeq(text, p + 1, p + n)[x] = text[p + x]
OBVIOUS

\* The first spelling of the table that is there is the longest one that is.
LEMMA FirstIsLongest ==
  ASSUME text \in Seq(Byte), NEW p \in Nat, NEW j \in DOMAIN Puncts, NEW k \in DOMAIN Puncts,
         Matches(p, j), Matches(p, k), j <= k
  PROVE  /\ Len(Puncts[k]) \in Nat /\ Len(Puncts[j]) \in Nat
         /\ 0 < Len(Puncts[j]) /\ Len(Puncts[k]) <= Len(Puncts[j])
<1> DEFINE m == Len(Puncts[j])
           n == Len(Puncts[k])
<1>0. DOMAIN Puncts \in SUBSET Nat /\ Puncts[j] \in Seq(Byte) /\ Puncts[k] \in Seq(Byte) /\ Puncts[j] # <<>>
  BY PunctsAssumption DEF Byte
<1>1. m \in Nat /\ n \in Nat /\ 0 < m
  BY <1>0
<1>2. SUFFICES ASSUME m < n PROVE FALSE
  BY <1>1
<1>3. j < k
  BY <1>0, <1>2
<1>4. /\ p + m <= Len(text) /\ SubSeq(text, p + 1, p + m) = Puncts[j]
      /\ p + n <= Len(text) /\ SubSeq(text, p + 1, p + n) = Puncts[k]
  BY DEF Matches
<1>5. \A x \in 1 .. m : Puncts[j][x] = text[p + x]
  BY <1>1, <1>4, SlicedAt
<1>6. \A x \in 1 .. n : Puncts[k][x] = text[p + x]
  BY <1>1, <1>4, SlicedAt
<1>7. SubSeq(Puncts[k], 1, m) = Puncts[j] /\ SubSeq(Puncts[j], 1, m) = Puncts[j]
  BY <1>0, <1>1, <1>2, <1>5, <1>6
<1>8. IsStrictPrefix(Puncts[j], Puncts[k])
  BY <1>1, <1>2, <1>7 DEF IsStrictPrefix, IsPrefix
<1> QED
  BY <1>3, <1>8, PunctsAssumption

-----------------------------------------------------------------------------
(* Trivia                                                                  *)

\* A line comment holds no line feed.
LEMMA LineEndLeast ==
  ASSUME text \in Seq(Byte), NEW p \in 0 .. Len(text)
  PROVE  \A j \in p .. LineEnd(p) - 1 : ~ Is(j, LF)
<1> DEFINE P == {k \in p .. Len(text) : k = Len(text) \/ B(k) = LF}
<1>1. P \in SUBSET Nat /\ Len(text) \in P
  OBVIOUS
<1>2. LineEnd(p) \in P /\ \A k \in P : LineEnd(p) <= k
  <2>1. LineEnd(p) = Min(P)
    BY DEF LineEnd
  <2> HIDE DEF P
  <2> QED
    BY <1>1, <2>1, Least
<1>3. ASSUME NEW j \in p .. LineEnd(p) - 1, Is(j, LF) PROVE FALSE
  <2>1. j \in P
    BY <1>2, <1>3 DEF Is
  <2>2. LineEnd(p) <= j
    BY <1>2, <2>1
  <2> QED
    BY <1>2, <2>2
<1> QED
  BY <1>3

\* A block comment holds no star and slash but the ones that close it.
LEMMA BlockEndLeast ==
  ASSUME text \in Seq(Byte), NEW p \in 0 .. Len(text), Closings(p) # {}
  PROVE  LET m == Min(Closings(p))
         IN /\ m \in p .. Len(text) - 2 /\ Is(m, Star) /\ Is(m + 1, Slash)
            /\ \A j \in p .. m - 1 : ~ (Is(j, Star) /\ Is(j + 1, Slash))
<1>1. Closings(p) \in SUBSET Nat
  BY DEF Closings
<1>2. Min(Closings(p)) \in Closings(p) /\ \A k \in Closings(p) : Min(Closings(p)) <= k
  BY <1>1, Least
<1>3. PICK m \in Closings(p) : m = Min(Closings(p)) /\ \A k \in Closings(p) : m <= k
  BY <1>2
<1>4. m \in p .. Len(text) - 2 /\ Is(m, Star) /\ Is(m + 1, Slash)
  BY <1>3 DEF Closings
<1>5. ASSUME NEW j \in p .. m - 1, Is(j, Star), Is(j + 1, Slash) PROVE FALSE
  <2>1. j \in Closings(p)
    BY <1>4, <1>5 DEF Closings
  <2> QED
    BY <1>3, <1>4, <2>1
<1> QED
  BY <1>3, <1>4, <1>5

\* One turn of the recursion of Trivial.
TrivialAt(F, q, k) ==
  \/ k = q
  \/ B(k) \in Blank /\ F[k + 1]
  \/ \E e \in k + 2 .. q :
       /\ Is(k, Slash) /\ Is(k + 1, Slash)
       /\ e = Len(text) \/ Is(e, LF)
       /\ \A j \in k + 2 .. e - 1 : ~ Is(j, LF)
       /\ F[e]
  \/ \E e \in k + 4 .. q :
       /\ Is(k, Slash) /\ Is(k + 1, Star)
       /\ Is(e - 2, Star) /\ Is(e - 1, Slash)
       /\ \A j \in k + 2 .. e - 3 : ~ (Is(j, Star) /\ Is(j + 1, Slash))
       /\ F[e]
TrivialFrom(p, q) == CHOOSE F : F = [k \in p .. q |-> TrivialAt(F, q, k)]

\* Trivial is the function its recursion defines.
LEMMA TrivialUnfolds ==
  ASSUME NEW p \in Nat, NEW q \in Nat, p <= q
  PROVE  /\ Trivial(p, q) = TrivialFrom(p, q)[p]
         /\ \A k \in p .. q : TrivialFrom(p, q)[k] = TrivialAt(TrivialFrom(p, q), q, k)
<1> DEFINE I == p .. q
           mu == [k \in I |-> q - k]
           f == [G \in [I -> BOOLEAN] |-> [k \in I |-> TrivialAt(G, q, k)]]
           Right(F) == F = [k \in I |-> TrivialAt(F, q, k)]
<1>1. Measured(I, mu, q + 1)
  BY DEF Measured
<1>2. Typed(I, BOOLEAN, f)
  <2>1. ASSUME NEW G, NEW k PROVE TrivialAt(G, q, k) \in BOOLEAN
    BY DEF TrivialAt
  <2> QED
    BY <2>1 DEF Typed
<1>3. Local(I, BOOLEAN, mu, f)
  <2>1. ASSUME NEW G \in [I -> BOOLEAN], NEW H \in [I -> BOOLEAN], NEW k \in I,
               \A j \in I : mu[j] < mu[k] => G[j] = H[j]
        PROVE  TrivialAt(G, q, k) = TrivialAt(H, q, k)
    <3>1. \A j \in I : k < j => G[j] = H[j]
      BY <2>1
    <3>2. CASE k = q
      BY <3>2 DEF TrivialAt
    <3>3. CASE k # q
      <4>1. G[k + 1] = H[k + 1]
        BY <3>1, <3>3
      <4>2. \A e \in k + 2 .. q : G[e] = H[e]
        BY <3>1
      <4>3. \A e \in k + 4 .. q : G[e] = H[e]
        BY <3>1
      <4> HIDE DEF mu
      <4> QED
        BY <4>1, <4>2, <4>3 DEF TrivialAt
    <3> QED
      BY <3>2, <3>3
  <2> HIDE DEF I, mu
  <2>2. \A G, H \in [I -> BOOLEAN] : \A k \in I :
          (\A j \in I : mu[j] < mu[k] => G[j] = H[j]) => f[G][k] = f[H][k]
    BY <2>1
  <2> QED
    BY <2>2 DEF Local
<1>4. PICK F \in [I -> BOOLEAN] : \A k \in I : F[k] = f[F][k]
  <2>1. q + 1 \in Nat
    OBVIOUS
  <2> HIDE DEF I, mu, f
  <2>2. Solvable(I, BOOLEAN, f)
    BY <1>1, <1>2, <1>3, <2>1, Recursion
  <2> QED
    BY <2>2 DEF Solvable
<1>5. Right(F)
  BY <1>4
<1>6. Right(TrivialFrom(p, q))
  <2>1. TrivialFrom(p, q) = CHOOSE G : Right(G)
    BY DEF TrivialFrom
  <2> HIDE DEF Right
  <2> QED
    BY <1>5, <2>1
<1>7. Trivial(p, q) = TrivialFrom(p, q)[p]
  BY DEF Trivial, TrivialFrom, TrivialAt
<1> QED
  BY <1>6, <1>7

\* What an open block comment leaves behind.
OpenComment(p) == <<Finding("AIC-L0004", p, Len(text))>>

\* What skip_trivia answers, turn by turn.
LEMMA SkipAnswers ==
  ASSUME text \in Seq(Byte), NEW p \in 0 .. Len(text)
  PROVE  /\ Skips(p) => SkipTo(p) \in p + 1 .. Len(text) /\ Skipped[p] = Skipped[SkipTo(p)]
         /\ ~ Skips(p) /\ OpensBlockAt(p) => Skipped[p] = [end |-> Len(text), found |-> OpenComment(p)]
         /\ ~ Skips(p) /\ ~ OpensBlockAt(p) => Skipped[p] = [end |-> p, found |-> <<>>]
<1>1. Skipped[p] = SkipAt(Skipped, p)
  BY SkipUnfolds
<1>2. ASSUME Skips(p)
      PROVE  SkipTo(p) \in p + 1 .. Len(text) /\ Skipped[p] = Skipped[SkipTo(p)]
  BY <1>1, <1>2, SkipGoesOn
<1>3. ASSUME ~ Skips(p)
      PROVE  Skipped[p] = IF OpensBlockAt(p) THEN [end |-> Len(text), found |-> OpenComment(p)]
                          ELSE [end |-> p, found |-> <<>>]
  BY <1>1, <1>3, SkipGoesOn DEF OpenComment
<1> QED
  BY <1>2, <1>3

\* The step of trivia from k is one that Trivial knows.
LEMMA SkipIsTrivial ==
  ASSUME text \in Seq(Byte), NEW k \in 0 .. Len(text), Skips(k),
         NEW q \in 0 .. Len(text), SkipTo(k) <= q, NEW F, F[SkipTo(k)]
  PROVE  TrivialAt(F, q, k)
<1>1. CASE k < Len(text) /\ B(k) \in Blank
  BY <1>1 DEF SkipTo, TrivialAt
<1>2. CASE ~ (k < Len(text) /\ B(k) \in Blank) /\ OpensLineAt(k)
  <2> DEFINE e == LineEnd(k)
  <2>1. /\ k + 1 < Len(text) /\ SkipTo(k) = e
        /\ ~ Is(k, LF) /\ ~ Is(k + 1, LF) /\ Is(k, Slash) /\ Is(k + 1, Slash)
    BY <1>2 DEF OpensLineAt, SkipTo, Is, Have, Slash, LF
  <2>2. /\ e \in k .. Len(text) /\ (e = Len(text) \/ Is(e, LF))
        /\ \A j \in k .. e - 1 : ~ Is(j, LF)
    BY LineEnds, LineEndLeast DEF Is, Have
  <2>3. e # k /\ e # k + 1
    BY <2>1, <2>2
  <2> HIDE DEF e
  <2>4. e \in k + 2 .. q /\ \A j \in k + 2 .. e - 1 : ~ Is(j, LF)
    BY <2>1, <2>2, <2>3
  <2> QED
    BY <2>1, <2>2, <2>4 DEF TrivialAt
<1>3. CASE ~ (k < Len(text) /\ B(k) \in Blank) /\ ~ OpensLineAt(k)
  <2> DEFINE m == Min(Closings(k + 2))
  <2>1. k + 2 \in 0 .. Len(text) /\ Closings(k + 2) # {} /\ SkipTo(k) = m + 2
    BY <1>3 DEF Skips, SkipTo, OpensBlockAt
  <2>2. Is(k, Slash) /\ Is(k + 1, Star)
    BY <1>3 DEF Skips, OpensBlockAt, Is, Have
  <2>3. /\ m \in k + 2 .. Len(text) - 2 /\ Is(m, Star) /\ Is(m + 1, Slash)
        /\ \A j \in k + 2 .. m - 1 : ~ (Is(j, Star) /\ Is(j + 1, Slash))
    BY <2>1, BlockEndLeast
  <2> HIDE DEF m
  <2> DEFINE e == m + 2
  <2>4. e \in k + 4 .. q /\ e - 2 = m /\ e - 1 = m + 1 /\ e - 3 = m - 1
    BY <2>1, <2>3
  <2>5. F[e]
    BY <2>1
  <2> HIDE DEF e
  <2> QED
    BY <2>2, <2>3, <2>4, <2>5 DEF TrivialAt
<1> QED
  BY <1>1, <1>2, <1>3

\* What skip_trivia passes over is trivia, or an open comment that it reports.
SkipTells(p) ==
  LET r == skip_trivia(p)
  IN /\ r.end \in p .. Len(text)
     /\ \/ r.found = <<>> /\ Trivial(p, r.end)
        \/ \E k \in p .. r.end - 1 : r.found = OpenComment(k)

\* The end and the finding of skip_trivia, from any position of the text.
LEMMA SkipFinds ==
  ASSUME text \in Seq(Byte)
  PROVE  \A p \in 0 .. Len(text) :
           Skipped[p].found = <<>> \/ \E k \in p .. Skipped[p].end - 1 : Skipped[p].found = OpenComment(k)
<1> DEFINE n == Len(text)
           I == 0 .. n
           mu == [k \in I |-> n - k]
           Found(p) == \E k \in p .. Skipped[p].end - 1 : Skipped[p].found = OpenComment(k)
           Told == {p \in I : Skipped[p].found = <<>> \/ Found(p)}
<1>1. ASSUME NEW p \in I, \A j \in I : mu[j] < mu[p] => j \in Told PROVE p \in Told
  <2>1. CASE Skips(p)
    <3>1. PICK m \in p + 1 .. n : m = SkipTo(p) /\ Skipped[p] = Skipped[m]
      BY <2>1, SkipAnswers
    <3>2. m \in I /\ mu[m] < mu[p]
      OBVIOUS
    <3>3. Skipped[m].found = <<>> \/ Found(m)
      <4> HIDE DEF mu, Found
      <4> QED
        BY <1>1, <3>2
    <3>4. m .. Skipped[m].end - 1 \subseteq p .. Skipped[m].end - 1
      BY TriviaEnds, <3>2 DEF TriviaEnd
    <3> QED
      BY <3>1, <3>3, <3>4
  <2>2. CASE ~ Skips(p) /\ OpensBlockAt(p)
    <3>0. Skipped[p] = [end |-> n, found |-> OpenComment(p)]
      BY <2>2, SkipAnswers, Zenon
    <3>1. Skipped[p].end = n /\ Skipped[p].found = OpenComment(p)
      BY <3>0
    <3>2. p \in p .. n - 1
      BY <2>2 DEF OpensBlockAt
    <3> QED
      BY <3>1, <3>2
  <2>3. CASE ~ Skips(p) /\ ~ OpensBlockAt(p)
    <3>1. Skipped[p] = [end |-> p, found |-> <<>>]
      BY <2>3, SkipAnswers, Zenon
    <3> QED
      BY <3>1
  <2> QED
    BY <2>1, <2>2, <2>3
<1>2. \A p \in I : p \in Told
  <2>1. mu \in [I -> Nat]
    OBVIOUS
  <2> HIDE DEF mu, Told, I
  <2> QED
    BY <1>1, <2>1, Below
<1> QED
  BY <1>2

\* Trivia that reports nothing is trivial.
LEMMA SkipTrivial ==
  ASSUME text \in Seq(Byte), NEW p \in 0 .. Len(text), Skipped[p].found = <<>>
  PROVE  Trivial(p, Skipped[p].end)
<1> DEFINE q == Skipped[p].end
           I == p .. q
           mu == [k \in I |-> q - k]
           T == TrivialFrom(p, q)
           Reached(k) == Skipped[k].end = q /\ Skipped[k].found = <<>>
           Good_ == {k \in I : Reached(k) => T[k]}
<1>1. q \in p .. Len(text)
  BY TriviaEnds DEF TriviaEnd
<1>2. Trivial(p, q) = T[p] /\ \A k \in I : T[k] = TrivialAt(T, q, k)
  BY <1>1, TrivialUnfolds
<1> HIDE DEF T
<1>3. ASSUME NEW k \in I, \A j \in I : mu[j] < mu[k] => j \in Good_, Reached(k) PROVE T[k]
  <2>0. k \in 0 .. Len(text) /\ T[k] = TrivialAt(T, q, k)
    BY <1>1, <1>2
  <2>1. CASE Skips(k)
    <3>1. PICK m \in k + 1 .. Len(text) : m = SkipTo(k) /\ Skipped[k] = Skipped[m]
      BY <2>0, <2>1, SkipAnswers
    <3>2. Skipped[m].end \in m .. Len(text)
      BY <2>0, <3>1, TriviaEnds DEF TriviaEnd
    <3>3. m \in I /\ mu[m] < mu[k] /\ Reached(m)
      BY <1>1, <1>3, <3>1, <3>2
    <3>4. T[m]
      <4> HIDE DEF mu, I, Reached
      <4> QED
        BY <1>3, <3>3
    <3>5. TrivialAt(T, q, k)
      <4>1. q \in 0 .. Len(text) /\ m <= q
        BY <1>1, <3>3
      <4> QED
        BY <2>0, <2>1, <3>1, <3>4, <4>1, SkipIsTrivial
    <3> QED
      BY <2>0, <3>5
  <2>2. CASE ~ Skips(k) /\ OpensBlockAt(k)
    <3>1. Skipped[k] = [end |-> Len(text), found |-> OpenComment(k)]
      BY <2>0, <2>2, SkipAnswers, Zenon
    <3>2. OpenComment(k) # <<>>
      BY DEF OpenComment
    <3>3. Skipped[k].found = OpenComment(k)
      BY <3>1
    <3> QED
      BY <1>3, <3>2, <3>3, Zenon
  <2>3. CASE ~ Skips(k) /\ ~ OpensBlockAt(k)
    <3>0. Skipped[k] = [end |-> k, found |-> <<>>]
      BY <2>0, <2>3, SkipAnswers, Zenon
    <3>1. k = q
      BY <1>3, <3>0
    <3> QED
      BY <2>0, <3>1 DEF TrivialAt
  <2> QED
    BY <2>1, <2>2, <2>3
<1>4. \A k \in I : k \in Good_
  <2>1. mu \in [I -> Nat]
    BY <1>1
  <2>2. \A k \in I : (\A j \in I : mu[j] < mu[k] => j \in Good_) => k \in Good_
    <3> SUFFICES ASSUME NEW k \in I, \A j \in I : mu[j] < mu[k] => j \in Good_ PROVE k \in Good_
      OBVIOUS
    <3> HIDE DEF mu, I, Reached
    <3> QED
      BY <1>3
  <2> HIDE DEF mu, Good_, I
  <2> QED
    BY <2>1, <2>2, Below
<1> QED
  BY <1>1, <1>2, <1>4

\* So skip_trivia tells what it passed over.
LEMMA TriviaTold ==
  ASSUME text \in Seq(Byte), NEW p \in 0 .. Len(text)
  PROVE  SkipTells(p)
<1>1. skip_trivia(p) = Skipped[p] /\ Skipped[p].end \in p .. Len(text)
  BY SkipIsSkipped, TriviaEnds DEF TriviaEnd
<1>2. CASE Skipped[p].found = <<>>
  BY <1>1, <1>2, SkipTrivial DEF SkipTells
<1>3. CASE Skipped[p].found # <<>>
  BY <1>1, <1>3, SkipFinds DEF SkipTells
<1> QED
  BY <1>2, <1>3

-----------------------------------------------------------------------------
(* Findings                                                                *)

LexCodes    == {"AIC-L0001", "AIC-L0004", "AIC-L0005", "AIC-L0006", "AIC-L0007", "AIC-L0008",
                "AIC-L0009"}
LexFindings == [code : LexCodes, start : Nat, end : Nat]

\* Those that judge no whole literal.
PlainCodes    == LexCodes \ {"AIC-L0006", "AIC-L0009"}
PlainFindings == [code : PlainCodes, start : Nat, end : Nat]

LEMMA PlainAreFindings ==
  ASSUME NEW found \in Seq(PlainFindings)
  PROVE  /\ found \in Seq(LexFindings)
         /\ \A k \in DOMAIN found : found[k].code \notin {"AIC-L0006", "AIC-L0009"}
<1>1. \A r \in PlainFindings : r \in LexFindings /\ r.code \notin {"AIC-L0006", "AIC-L0009"}
  BY DEF PlainFindings, LexFindings, PlainCodes
<1>2. \A k \in 1 .. Len(found) : found[k] \in PlainFindings
  OBVIOUS
<1> QED
  BY <1>1, <1>2

\* One of the findings begins between a and b.
FoundIn(found, a, b) == \E k \in DOMAIN found : found[k].start \in a .. b - 1

\* It is among those that are found together with others.
LEMMA FoundJoins ==
  ASSUME NEW S, NEW found \in Seq(S), NEW more \in Seq(S), NEW a, NEW b,
         FoundIn(found, a, b) \/ FoundIn(more, a, b)
  PROVE  FoundIn(found \o more, a, b)
<1> DEFINE all == found \o more
<1>1. /\ DOMAIN all = 1 .. Len(found) + Len(more)
      /\ DOMAIN found = 1 .. Len(found) /\ DOMAIN more = 1 .. Len(more)
      /\ Len(found) \in Nat /\ Len(more) \in Nat
  OBVIOUS
<1>2. /\ \A k \in DOMAIN found : all[k] = found[k]
      /\ \A k \in DOMAIN more : all[Len(found) + k] = more[k]
  OBVIOUS
<1> HIDE DEF all
<1>3. CASE FoundIn(found, a, b)
  <2>1. PICK k \in DOMAIN found : found[k].start \in a .. b - 1
    BY <1>3 DEF FoundIn
  <2>2. k \in DOMAIN all /\ all[k] = found[k]
    BY <1>1, <1>2
  <2> QED
    BY <2>1, <2>2 DEF FoundIn, all
<1>4. CASE FoundIn(more, a, b)
  <2>1. PICK k \in DOMAIN more : more[k].start \in a .. b - 1
    BY <1>4 DEF FoundIn
  <2>2. Len(found) + k \in DOMAIN all /\ all[Len(found) + k] = more[k]
    BY <1>1, <1>2
  <2> QED
    BY <2>1, <2>2 DEF FoundIn, all
<1> QED
  BY <1>3, <1>4

\* What is found in a stretch of the text is found in a longer one.
LEMMA FoundWidens ==
  ASSUME NEW found, NEW a \in Int, NEW b \in Int, NEW c \in Int, NEW d \in Int,
         c <= a, b <= d, FoundIn(found, a, b)
  PROVE  FoundIn(found, c, d)
BY DEF FoundIn

\* One finding is found where it begins.
LEMMA FoundHere ==
  ASSUME NEW found \in Seq(StringNote), NEW p \in Nat, NEW q \in Nat, p < q, NoteAt(found, p)
  PROVE  FoundIn(found, p, q)
<1>1. 1 \in DOMAIN found /\ found[1].start = p /\ p \in p .. q - 1
  BY DEF NoteAt
<1> QED
  BY <1>1 DEF FoundIn

\* The findings of a string are findings of the lexer.
LEMMA NotesAreFindings ==
  ASSUME NEW found \in Seq(StringNote)
  PROVE  found \in Seq(PlainFindings) /\ found \in Seq(LexFindings)
<1>1. \A r \in StringNote : r \in PlainFindings
  BY DEF StringNote, PlainFindings, PlainCodes, LexCodes, Finding
<1>2. \A k \in 1 .. Len(found) : found[k] \in PlainFindings
  BY <1>1
<1>3. found \in Seq(PlainFindings)
  BY <1>2
<1> QED
  BY <1>3, PlainAreFindings

-----------------------------------------------------------------------------
(* Strings                                                                 *)

\* A literal without a fault, or one whose fault is found within it.
Faultless(s, from) == (s.closed /\ s.found = <<>>) \/ FoundIn(s.found, from, s.end)

\* One turn of a string finds what is wrong with it.
LEMMA StringFaultStep ==
  ASSUME text \in Seq(Byte), NEW q \in 0 .. Len(text) - 1, NEW p \in q + 1 .. Len(text),
         ~ StringStops(p), ~ StringCloses(p), Faultless(Strung(q)[StringTo(p)], q)
  PROVE  Faultless(Strung(q)[p], q)
<1> DEFINE s == Strung(q)[p]
           r == Strung(q)[StringTo(p)]
<1>1. /\ p \in 0 .. Len(text) /\ p \in Nat /\ q \in Nat /\ Len(text) \in Nat /\ q <= p
      /\ StringTo(p) \in p + 1 .. Len(text)
  BY StringToIs
<1>2. s \in Strings /\ r \in Strings /\ s.end = r.end /\ s = StringAt(Strung(q), q, p)
  <2>1. StringTo(p) \in 0 .. Len(text)
    BY <1>1
  <2>2. s \in Strings /\ r \in Strings /\ s = StringAt(Strung(q), q, p)
    BY <1>1, <2>1, StringUnfolds
  <2>3. s.end = r.end
    BY <1>1, StringEndsStep
  <2> QED
    BY <2>2, <2>3
<1>3. r.end \in Nat /\ p < r.end
  <2>1. StringTo(p) \in 0 .. Len(text)
    BY <1>1
  <2>2. r.end = StringEnd(StringTo(p)) /\ StringEnd(StringTo(p)) \in StringTo(p) .. Len(text)
    BY <1>1, <2>1, StringEnds
  <2> QED
    BY <1>1, <2>2
<1>4. r.found \in Seq(StringNote) /\ r.bytes \in Seq(Unit)
  BY <1>2 DEF Strings
<1>5. ASSUME NEW y \in Seq(StringNote), NoteAt(y, p) PROVE FoundIn(y, q, r.end)
  <2>1. FoundIn(y, p, r.end)
    BY <1>1, <1>3, <1>5, FoundHere
  <2> QED
    BY <1>1, <1>3, <2>1, FoundWidens
<1>6. ASSUME NEW x \in Seq(Unit), NEW y \in Seq(StringNote), Fronted(q, p, x, y) PROVE Faultless(s, q)
  <2>1. s = [r EXCEPT !.bytes = x \o @, !.found = y \o @]
    BY <1>2, <1>6 DEF Fronted, Before
  <2>2. s.found = y \o r.found /\ s.closed = r.closed
    BY <1>2, <2>1 DEF Strings
  <2>3. CASE NoteAt(y, p)
    <3>1. FoundIn(s.found, q, r.end)
      BY <1>4, <1>5, <2>2, <2>3, FoundJoins
    <3> QED
      BY <1>2, <3>1 DEF Faultless
  <2>4. CASE y = <<>>
    <3>1. s.found = r.found
      BY <1>4, <2>2, <2>4
    <3> QED
      BY <1>2, <2>2, <3>1 DEF Faultless
  <2> QED
    BY <1>6, <2>3, <2>4 DEF Fronted
<1>7. ASSUME NEW y \in Seq(StringNote), Unfronted(q, p, y) PROVE Faultless(s, q)
  <2> DEFINE more == IF r.closed THEN <<>> ELSE Unterminated(q)
  <2>1. more \in Seq(StringNote)
    <3>1. Unterminated(q) \in Seq(StringNote) /\ <<>> \in Seq(StringNote)
      BY <1>1, UnterminatedIs
    <3> QED
      BY <3>1
  <2>2. s = Discarded(q, y, r) /\ NoteAt(y, p)
    BY <1>2, <1>7 DEF Unfronted
  <2>3. s.found = y \o more
    BY <1>2, <2>2 DEF Discarded, Strings
  <2> HIDE DEF more
  <2>4. FoundIn(s.found, q, r.end)
    BY <1>5, <2>1, <2>2, <2>3, FoundJoins
  <2> QED
    BY <1>2, <2>4 DEF Faultless
<1>8. \/ \E x \in Seq(Unit), y \in Seq(StringNote) : Fronted(q, p, x, y)
      \/ \E y \in Seq(StringNote) : Unfronted(q, p, y)
  BY <1>1, StringBranches
<1> HIDE DEF s
<1> QED
  BY <1>6, <1>7, <1>8 DEF s

\* What scan_string_one answers for the quote at q.
StringTells(q) ==
  LET s == scan_string_one(q)
  IN /\ s \in Strings /\ s.end \in q + 1 .. Len(text)
     /\ Good(s) \/ FoundIn(s.found, q, s.end)

LEMMA StringTold ==
  ASSUME text \in Seq(Byte), NEW q \in 0 .. Len(text) - 1
  PROVE  StringTells(q)
<1> DEFINE n == Len(text)
           I == q + 1 .. n
           mu == [k \in I |-> n - k]
           S == Strung(q)
           Told == {p \in I : Faultless(S[p], q)}
<1> HIDE DEF S
<1>0. n \in Nat /\ q \in Nat /\ I \subseteq 0 .. n /\ q < n
  OBVIOUS
<1>1. \A p \in 0 .. n : S[p] \in Strings /\ S[p] = StringAt(S, q, p)
  BY <1>0, StringUnfolds DEF S
<1>2. ASSUME NEW p \in I, \A j \in I : mu[j] < mu[p] => j \in Told PROVE p \in Told
  <2>1. CASE StringStops(p)
    <3>1. S[p] = [end |-> n, bytes |-> <<>>, closed |-> FALSE, found |-> Unterminated(q)]
      BY <1>0, <1>1, <2>1, StringBranches
    <3>2. FoundIn(Unterminated(q), q, n)
      BY <1>0, UnterminatedIs, FoundHere
    <3> QED
      BY <3>1, <3>2 DEF Faultless
  <2>2. CASE ~ StringStops(p) /\ StringCloses(p)
    <3>1. S[p] = [end |-> p + 1, bytes |-> <<>>, closed |-> TRUE, found |-> <<>>]
      BY <1>0, <1>1, <2>2, StringBranches
    <3> QED
      BY <3>1 DEF Faultless
  <2>3. CASE ~ StringStops(p) /\ ~ StringCloses(p)
    <3>1. StringTo(p) \in p + 1 .. n
      BY <1>0, <2>3, StringToIs
    <3>2. StringTo(p) \in I /\ mu[StringTo(p)] < mu[p]
      BY <3>1
    <3>3. Faultless(S[StringTo(p)], q)
      <4> HIDE DEF mu, I
      <4> QED
        BY <1>2, <3>2
    <3> QED
      BY <2>3, <3>3, StringFaultStep DEF S
  <2> QED
    BY <2>1, <2>2, <2>3
<1>3. \A p \in I : p \in Told
  <2>1. mu \in [I -> Nat]
    OBVIOUS
  <2> HIDE DEF mu, Told, I
  <2> QED
    BY <1>2, <2>1, Below
<1>4. q + 1 \in I /\ scan_string_one(q) = S[q + 1]
  BY <1>0, StringIsStrung DEF S
<1>5. S[q + 1].end \in q + 1 .. n
  BY <1>0, <1>4, StringEnds DEF S
<1> QED
  BY <1>0, <1>1, <1>3, <1>4, <1>5 DEF StringTells, Faultless, Good

-----------------------------------------------------------------------------
(* Adjacent strings                                                        *)

Joined_ == [end : 0 .. Len(text), bytes : Seq(Unit), good : BOOLEAN, found : Seq(PlainFindings)]

\* The literal behind the trivia behind a good one that ends at p, and whether
\* the loop of scan_string goes on behind that.
NextOf(p)   == scan_string_one(skip_trivia(p).end)
Quoted(p)   == Is(skip_trivia(p).end, Quote)
JoinsOn(p)  == Quoted(p) /\ Good(NextOf(p))

\* One turn of the loop.
MoreAt(F, p) ==
  IF ~ Quoted(p) THEN [end |-> p, bytes |-> <<>>, good |-> TRUE, found |-> skip_trivia(p).found]
  ELSE IF ~ Good(NextOf(p))
    THEN [end |-> NextOf(p).end, bytes |-> <<>>, good |-> FALSE,
          found |-> skip_trivia(p).found \o NextOf(p).found]
  ELSE Before(NextOf(p).bytes, skip_trivia(p).found, F[NextOf(p).end])
More == CHOOSE F : F = [p \in 0 .. Len(text) |-> MoreAt(F, p)]

\* The trivia behind a literal, and the literal behind that.
LEMMA TriviaTyped ==
  ASSUME text \in Seq(Byte), NEW p \in 0 .. Len(text)
  PROVE  /\ skip_trivia(p).end \in p .. Len(text)
         /\ skip_trivia(p).found \in Seq(PlainFindings)
<1>1. SkipTells(p)
  BY TriviaTold
<1>2. ASSUME NEW k \in Nat PROVE OpenComment(k) \in Seq(PlainFindings)
  BY DEF OpenComment, Finding, PlainFindings, PlainCodes, LexCodes
<1>3. <<>> \in Seq(PlainFindings)
  OBVIOUS
<1>4. \A k \in p .. skip_trivia(p).end - 1 : k \in Nat
  BY <1>1 DEF SkipTells
<1> QED
  BY <1>1, <1>2, <1>3, <1>4 DEF SkipTells

LEMMA NextTyped ==
  ASSUME text \in Seq(Byte), NEW p \in 0 .. Len(text), Quoted(p)
  PROVE  /\ NextOf(p).bytes \in Seq(Unit) /\ NextOf(p).found \in Seq(PlainFindings)
         /\ NextOf(p).end \in p + 1 .. Len(text)
         /\ Good(NextOf(p)) \/ FoundIn(NextOf(p).found, p, NextOf(p).end)
<1>1. PICK q \in p .. Len(text) - 1 : q = skip_trivia(p).end
  BY TriviaTyped DEF Quoted, Is, Have
<1>2. q \in 0 .. Len(text) - 1 /\ NextOf(p) = scan_string_one(q)
  BY <1>1 DEF NextOf
<1>3. /\ NextOf(p) \in Strings /\ NextOf(p).end \in q + 1 .. Len(text)
      /\ Good(NextOf(p)) \/ FoundIn(NextOf(p).found, q, NextOf(p).end)
  BY <1>2, StringTold DEF StringTells
<1>4. NextOf(p).found \in Seq(StringNote) /\ NextOf(p).bytes \in Seq(Unit)
  BY <1>3 DEF Strings
<1>5. NextOf(p).found \in Seq(PlainFindings)
  BY <1>4, NotesAreFindings
<1>6. PICK e \in q + 1 .. Len(text) : e = NextOf(p).end
  BY <1>3
<1>7. FoundIn(NextOf(p).found, q, e) => FoundIn(NextOf(p).found, p, e)
  BY <1>1, FoundWidens
<1> QED
  BY <1>1, <1>3, <1>4, <1>5, <1>6, <1>7

\* The rest, behind a good literal.
LEMMA MoreJoins ==
  ASSUME NEW bytes \in Seq(Unit), NEW found \in Seq(PlainFindings), NEW s \in Joined_
  PROVE  LET r == Before(bytes, found, s)
         IN r \in Joined_ /\ r.end = s.end /\ r.good = s.good /\ r.found = found \o s.found
<1> DEFINE b == bytes \o s.bytes
           f == found \o s.found
<1>1. b \in Seq(Unit) /\ f \in Seq(PlainFindings)
  BY ConcatProperties DEF Joined_
<1>2. Before(bytes, found, s) = [s EXCEPT !.bytes = b, !.found = f]
  BY DEF Joined_, Before
<1> HIDE DEF b, f
<1>3. LET r == [s EXCEPT !.bytes = b, !.found = f]
      IN r \in Joined_ /\ r.end = s.end /\ r.good = s.good /\ r.found = f
  BY <1>1 DEF Joined_
<1> QED
  BY <1>2, <1>3 DEF f

\* A turn answers a result of the type.
LEMMA MoreTyped ==
  ASSUME text \in Seq(Byte), NEW p \in 0 .. Len(text), NEW F,
         JoinsOn(p) => F[NextOf(p).end] \in Joined_
  PROVE  MoreAt(F, p) \in Joined_
<1>1. PICK y \in Seq(PlainFindings) : y = skip_trivia(p).found
  BY TriviaTyped
<1>2. <<>> \in Seq(Unit)
  OBVIOUS
<1>3. CASE ~ Quoted(p)
  BY <1>1, <1>2, <1>3 DEF MoreAt, Joined_
<1>4. CASE Quoted(p)
  <2>1. PICK b \in Seq(Unit) : b = NextOf(p).bytes
    BY <1>4, NextTyped
  <2>2. PICK z \in Seq(PlainFindings) : z = NextOf(p).found
    BY <1>4, NextTyped
  <2>3. NextOf(p).end \in 0 .. Len(text)
    <3>1. PICK e \in p + 1 .. Len(text) : e = NextOf(p).end
      BY <1>4, NextTyped
    <3> QED
      BY <3>1
  <2>4. CASE ~ Good(NextOf(p))
    <3> DEFINE e == NextOf(p).end
               f == y \o z
    <3>1. e \in 0 .. Len(text) /\ f \in Seq(PlainFindings)
      BY <2>3, ConcatProperties
    <3>2. MoreAt(F, p) = [end |-> e, bytes |-> <<>>, good |-> FALSE, found |-> f]
      BY <1>1, <1>4, <2>2, <2>4 DEF MoreAt
    <3> HIDE DEF e, f
    <3> QED
      BY <1>2, <3>1, <3>2 DEF Joined_
  <2>5. CASE Good(NextOf(p))
    <3>1. PICK s \in Joined_ : s = F[NextOf(p).end]
      BY <1>4, <2>5 DEF JoinsOn
    <3>2. MoreAt(F, p) = Before(b, y, s)
      BY <1>1, <1>4, <2>1, <2>5, <3>1 DEF MoreAt
    <3> QED
      BY <3>2, MoreJoins
  <2> QED
    BY <2>4, <2>5
<1> QED
  BY <1>3, <1>4

\* The loop of scan_string computes what it should, from what follows.
LEMMA MoreUnfolds ==
  ASSUME text \in Seq(Byte)
  PROVE  \A p \in 0 .. Len(text) : More[p] \in Joined_ /\ More[p] = MoreAt(More, p)
<1> DEFINE n == Len(text)
           I == 0 .. n
           V == Joined_
           mu == [k \in I |-> n - k]
           f == [G \in [I -> V] |-> [k \in I |-> MoreAt(G, k)]]
           Right(F) == F = [k \in I |-> MoreAt(F, k)]
<1>0. n \in Nat /\ n + 1 \in Nat /\ n \in I
  OBVIOUS
<1>1. Measured(I, mu, n + 1) /\ mu \in [I -> Nat]
  <2> HIDE DEF n
  <2> QED
    BY <1>0 DEF Measured
<1>2. V # {}
  <2>1. <<>> \in Seq(Unit) /\ <<>> \in Seq(PlainFindings)
    OBVIOUS
  <2>2. [end |-> n, bytes |-> <<>>, good |-> TRUE, found |-> <<>>] \in V
    BY <1>0, <2>1 DEF Joined_
  <2> QED
    BY <2>2
<1>3. ASSUME NEW k \in I, JoinsOn(k)
      PROVE  NextOf(k).end \in I /\ mu[NextOf(k).end] < mu[k]
  <2>1. PICK m \in k + 1 .. n : m = NextOf(k).end
    BY <1>3, NextTyped DEF JoinsOn
  <2> HIDE DEF n
  <2>2. m \in I /\ mu[m] < mu[k]
    BY <1>0
  <2> QED
    BY <2>1, <2>2
<1>4. ASSUME NEW G, NEW k \in I, JoinsOn(k) => G[NextOf(k).end] \in V PROVE MoreAt(G, k) \in V
  BY <1>4, MoreTyped
<1> HIDE DEF mu, I, V
<1>6. Typed(I, V, f)
  <2>1. ASSUME NEW G \in [I -> V], NEW k \in I PROVE MoreAt(G, k) \in V
    BY <1>3, <1>4
  <2> QED
    BY <2>1 DEF Typed
<1>7. Local(I, V, mu, f)
  <2>1. ASSUME NEW G \in [I -> V], NEW H \in [I -> V], NEW k \in I,
               \A j \in I : mu[j] < mu[k] => G[j] = H[j]
        PROVE  MoreAt(G, k) = MoreAt(H, k)
    <3>1. JoinsOn(k) => G[NextOf(k).end] = H[NextOf(k).end]
      BY <1>3, <2>1
    <3> QED
      BY <3>1, Zenon DEF MoreAt, JoinsOn
  <2>2. \A G, H \in [I -> V] : \A k \in I :
          (\A j \in I : mu[j] < mu[k] => G[j] = H[j]) => f[G][k] = f[H][k]
    BY <2>1
  <2> QED
    BY <2>2 DEF Local
<1>8. PICK F \in [I -> V] : \A k \in I : F[k] = f[F][k]
  <2> HIDE DEF f
  <2>1. Solvable(I, V, f)
    BY <1>0, <1>1, <1>2, <1>6, <1>7, Recursion
  <2> QED
    BY <2>1 DEF Solvable
<1>9. Right(F)
  BY <1>8
<1>10. Right(More)
  <2>1. More = CHOOSE G : Right(G)
    BY DEF More, I
  <2> HIDE DEF Right
  <2> QED
    BY <1>9, <2>1
<1>11. \A k \in I : More[k] = MoreAt(More, k)
  BY <1>10
<1>12. \A k \in I : More[k] \in V
  <2> DEFINE There == {k \in I : More[k] \in V}
  <2>1. ASSUME NEW k \in I, \A j \in I : mu[j] < mu[k] => j \in There PROVE k \in There
    <3>1. JoinsOn(k) => More[NextOf(k).end] \in V
      BY <1>3, <2>1
    <3> QED
      BY <1>4, <1>11, <3>1
  <2> HIDE DEF There
  <2>2. \A k \in I : k \in There
    BY <1>1, <2>1, Below
  <2> QED
    BY <2>2 DEF There
<1> QED
  BY <1>11, <1>12, Zenon DEF I, V

\* Where the literals end, and what is wrong with one of them.
MoreTells(p) == /\ More[p].end \in p .. Len(text)
                /\ More[p].good \/ FoundIn(More[p].found, p, More[p].end)

\* A turn of the loop, told by what follows.
LEMMA MoreStep ==
  ASSUME text \in Seq(Byte), NEW p \in 0 .. Len(text),
         JoinsOn(p) => MoreTells(NextOf(p).end)
  PROVE  MoreTells(p)
<1>0. p \in Nat /\ Len(text) \in Nat /\ p \in p .. Len(text)
  OBVIOUS
<1>1. More[p] = MoreAt(More, p)
  BY MoreUnfolds
<1>2. PICK y \in Seq(PlainFindings) : y = skip_trivia(p).found
  BY TriviaTyped
<1>3. CASE ~ Quoted(p)
  <2>1. More[p].end = p /\ More[p].good
    BY <1>1, <1>3 DEF MoreAt
  <2> QED
    BY <1>0, <2>1 DEF MoreTells
<1>4. CASE Quoted(p)
  <2>1. PICK b \in Seq(Unit) : b = NextOf(p).bytes
    BY <1>4, NextTyped
  <2>2. PICK z \in Seq(PlainFindings) : z = NextOf(p).found
    BY <1>4, NextTyped
  <2>3. PICK e \in p + 1 .. Len(text) : e = NextOf(p).end
    BY <1>4, NextTyped
  <2>4. e \in 0 .. Len(text) /\ e \in p .. Len(text) /\ e \in Nat
    BY <1>0
  <2>5. CASE ~ Good(NextOf(p))
    <3>0. More[p] = [end |-> e, bytes |-> <<>>, good |-> FALSE, found |-> y \o z]
      BY <1>1, <1>2, <1>4, <2>2, <2>3, <2>5 DEF MoreAt
    <3>1. More[p].end = e /\ More[p].found = y \o z
      BY <3>0
    <3>2. FoundIn(z, p, e)
      BY <1>4, <2>2, <2>3, <2>5, NextTyped
    <3>3. FoundIn(y \o z, p, e)
      BY <3>2, FoundJoins
    <3> QED
      BY <2>4, <3>1, <3>3 DEF MoreTells
  <2>6. CASE Good(NextOf(p))
    <3>1. PICK s \in Joined_ : s = More[e]
      BY <2>4, MoreUnfolds
    <3>2. More[p] = Before(b, y, s)
      BY <1>1, <1>2, <1>4, <2>1, <2>3, <2>6, <3>1 DEF MoreAt
    <3>3. More[p].end = s.end /\ More[p].good = s.good /\ More[p].found = y \o s.found
      BY <3>2, MoreJoins
    <3>4. s.end \in e .. Len(text) /\ (s.good \/ FoundIn(s.found, e, s.end))
      BY <1>4, <2>3, <2>6, <3>1 DEF JoinsOn, MoreTells
    <3>5. s.found \in Seq(PlainFindings)
      BY DEF Joined_
    <3>6. FoundIn(s.found, e, s.end) => FoundIn(y \o s.found, p, s.end)
      <4>1. FoundIn(s.found, e, s.end) => FoundIn(s.found, p, s.end)
        <5>1. s.end \in Int /\ p <= e
          BY <1>0, <2>4, <3>4
        <5> QED
          BY <1>0, <2>4, <5>1, FoundWidens
      <4> QED
        BY <3>5, <4>1, FoundJoins
    <3>7. s.end \in p .. Len(text)
      BY <1>0, <2>4, <3>4
    <3> QED
      BY <3>3, <3>4, <3>6, <3>7 DEF MoreTells
  <2> QED
    BY <2>5, <2>6
<1> QED
  BY <1>3, <1>4

LEMMA MoreTold ==
  ASSUME text \in Seq(Byte)
  PROVE  \A p \in 0 .. Len(text) : MoreTells(p)
<1> DEFINE n == Len(text)
           I == 0 .. n
           mu == [k \in I |-> n - k]
           Told == {p \in I : MoreTells(p)}
<1>0. n \in Nat
  OBVIOUS
<1>1. ASSUME NEW k \in I, JoinsOn(k)
      PROVE  NextOf(k).end \in I /\ mu[NextOf(k).end] < mu[k]
  <2>1. PICK m \in k + 1 .. n : m = NextOf(k).end
    BY <1>1, NextTyped DEF JoinsOn
  <2> HIDE DEF n
  <2>2. m \in I /\ mu[m] < mu[k]
    BY <1>0
  <2> QED
    BY <2>1, <2>2
<1>2. ASSUME NEW k \in I, JoinsOn(k) => MoreTells(NextOf(k).end) PROVE MoreTells(k)
  BY <1>2, MoreStep
<1>3. mu \in [I -> Nat]
  <2> HIDE DEF n
  <2> QED
    BY <1>0
<1> HIDE DEF mu, I
<1>4. ASSUME NEW k \in I, \A j \in I : mu[j] < mu[k] => j \in Told PROVE k \in Told
  <2>1. JoinsOn(k) => MoreTells(NextOf(k).end)
    BY <1>1, <1>4
  <2> QED
    BY <1>2, <2>1
<1> HIDE DEF Told
<1>5. \A k \in I : k \in Told
  BY <1>3, <1>4, Below
<1> QED
  BY <1>5 DEF Told, I

-----------------------------------------------------------------------------
(* UTF-8                                                                   *)

\* The bytes of a slice of s.
LEMMA SliceIs ==
  ASSUME NEW S, NEW s \in Seq(S), NEW k \in 1 .. Len(s), NEW n \in 1 .. 4, k + n - 1 <= Len(s)
  PROVE  /\ Len(SubSeq(s, k, k + n - 1)) = n
         /\ \A d \in 1 .. n : SubSeq(s, k, k + n - 1)[d] = s[k + d - 1]
<1> DEFINE m == k + n - 1
<1>1. k \in Nat /\ m \in Nat /\ m <= Len(s) /\ Len(s) \in Nat /\ (m - k) + 1 = n
  OBVIOUS
<1>2. \A d \in k .. m : s[d] \in S
  BY <1>1
<1>3. /\ Len(SubSeq(s, k, m)) = IF k <= m THEN (m - k) + 1 ELSE 0
      /\ \A d \in 1 .. (m - k) + 1 : SubSeq(s, k, m)[d] = s[k + d - 1]
  <2> HIDE DEF m
  <2> QED
    BY <1>1, <1>2, SubSeqProperties
<1>4. k <= m
  OBVIOUS
<1> HIDE DEF m
<1>5. Len(SubSeq(s, k, m)) = n /\ \A d \in 1 .. n : SubSeq(s, k, m)[d] = s[k + d - 1]
  BY <1>1, <1>3, <1>4
<1> QED
  BY <1>5 DEF m

\* The code's test of a lead of three bytes is the rows of the table.
ThirdLead(x, y) ==
  (x \in 224 .. 239 /\ y \in 128 .. 191 /\ (x = 224 => y >= 160) /\ (x = 237 => y < 160))
    <=> \/ x = 224 /\ y \in 160 .. 191
        \/ x = 237 /\ y \in 128 .. 159
        \/ x \in 225 .. 239 /\ x # 237 /\ y \in 128 .. 191

LEMMA LeadOfThree ==
  ASSUME NEW x, NEW y
  PROVE  ThirdLead(x, y)
<1> USE DEF ThirdLead
<1>1. CASE x = 224
  <2>1. 224 \in 224 .. 239 /\ 224 \notin 225 .. 239 /\ 224 # 237
    OBVIOUS
  <2>2. y \in 128 .. 191 /\ y >= 160 <=> y \in 160 .. 191
    OBVIOUS
  <2> QED
    BY <1>1, <2>1, <2>2
<1>2. CASE x = 237
  <2>1. 237 \in 224 .. 239 /\ 224 # 237
    OBVIOUS
  <2>2. y \in 128 .. 191 /\ y < 160 <=> y \in 128 .. 159
    OBVIOUS
  <2> QED
    BY <1>2, <2>1, <2>2
<1>3. CASE x # 224 /\ x # 237
  <2>1. x \in 224 .. 239 <=> x \in 225 .. 239
    BY <1>3
  <2> QED
    BY <1>3, <2>1
<1> QED
  BY <1>1, <1>2, <1>3

\* So is its test of a lead of four.
FourthLead(x, y) ==
  (x \in 240 .. 244 /\ y \in 128 .. 191 /\ (x = 240 => y >= 144) /\ (x = 244 => y < 144))
    <=> \/ x = 240 /\ y \in 144 .. 191
        \/ x = 244 /\ y \in 128 .. 143
        \/ x \in 241 .. 243 /\ y \in 128 .. 191

LEMMA LeadOfFour ==
  ASSUME NEW x, NEW y
  PROVE  FourthLead(x, y)
<1> USE DEF FourthLead
<1>1. CASE x = 240
  <2>1. 240 \in 240 .. 244 /\ 240 \notin 241 .. 243 /\ 240 # 244
    OBVIOUS
  <2>2. y \in 128 .. 191 /\ y >= 144 <=> y \in 144 .. 191
    OBVIOUS
  <2> QED
    BY <1>1, <2>1, <2>2
<1>2. CASE x = 244
  <2>1. 244 \in 240 .. 244 /\ 244 \notin 241 .. 243 /\ 240 # 244
    OBVIOUS
  <2>2. y \in 128 .. 191 /\ y < 144 <=> y \in 128 .. 143
    OBVIOUS
  <2> QED
    BY <1>2, <2>1, <2>2
<1>3. CASE x # 240 /\ x # 244
  <2>1. x \in 240 .. 244 <=> x \in 241 .. 243
    BY <1>3
  <2> QED
    BY <1>3, <2>1
<1> QED
  BY <1>1, <1>2, <1>3

\* No lead is one of another length, nor a byte of its own.
LEMMA LeadsApart ==
  ASSUME NEW x
  PROVE  /\ x \in 194 .. 223 => ~ (x < 128) /\ x \notin 224 .. 239 /\ x \notin 240 .. 244
         /\ x \in 224 .. 239 => ~ (x < 128) /\ x \notin 194 .. 223 /\ x \notin 240 .. 244
         /\ x \in 240 .. 244 => ~ (x < 128) /\ x \notin 194 .. 223 /\ x \notin 224 .. 239
OBVIOUS

\* CharSize knows the characters of the table, and how long they are.
LEMMA SizeIsCharacter ==
  ASSUME NEW S, NEW s \in Seq(S), NEW k \in 1 .. Len(s), NEW n \in 1 .. 4, k + n - 1 <= Len(s)
  PROVE  Utf8Character(SubSeq(s, k, k + n - 1)) <=> CharSize(s, k) = n
<1> DEFINE b == SubSeq(s, k, k + n - 1)
           x == s[k]
           y == s[k + 1]
           z == s[k + 2]
           w == s[k + 3]
<1>0. Len(s) \in Nat /\ k \in Nat
  OBVIOUS
<1>1. Len(b) = n /\ \A d \in 1 .. n : b[d] = s[k + d - 1]
  BY SliceIs
<1>2. /\ k + 1 - 1 = k /\ k + 2 - 1 = k + 1 /\ k + 3 - 1 = k + 2 /\ k + 4 - 1 = k + 3
  BY <1>0
<1>3. CharSize(s, k) = IF x < 128 THEN 1
                       ELSE IF x \in 194 .. 223 /\ k + 1 <= Len(s) /\ y \in 128 .. 191 THEN 2
                       ELSE IF /\ x \in 224 .. 239 /\ (k + 1 <= Len(s) /\ y \in 128 .. 191)
                               /\ k + 2 <= Len(s) /\ z \in 128 .. 191
                               /\ x = 224 => y >= 160
                               /\ x = 237 => y < 160 THEN 3
                       ELSE IF /\ x \in 240 .. 244 /\ (k + 1 <= Len(s) /\ y \in 128 .. 191)
                               /\ (k + 2 <= Len(s) /\ z \in 128 .. 191)
                               /\ k + 3 <= Len(s) /\ w \in 128 .. 191
                               /\ x = 240 => y >= 144
                               /\ x = 244 => y < 144 THEN 4
                       ELSE 0
  BY DEF CharSize
<1> HIDE DEF b, x, y, z, w
<1>4. CASE n = 1
  <2>1. b[1] = x /\ Len(b) = 1
    BY <1>1, <1>2, <1>4 DEF x
  <2>2. Utf8Character(b) <=> x < 128
    BY <2>1 DEF Utf8Character
  <2>3. CharSize(s, k) = 1 <=> x < 128
    BY <1>3
  <2> QED
    BY <1>4, <2>2, <2>3 DEF b
<1>5. CASE n = 2
  <2>1. b[1] = x /\ b[2] = y /\ Len(b) = 2 /\ k + 1 <= Len(s)
    BY <1>0, <1>1, <1>2, <1>5 DEF x, y
  <2>2. Utf8Character(b) <=> x \in 194 .. 223 /\ y \in 128 .. 191
    BY <2>1 DEF Utf8Character
  <2>3. CharSize(s, k) = 2 <=> x \in 194 .. 223 /\ y \in 128 .. 191
    BY <1>3, <2>1, LeadsApart
  <2> QED
    BY <1>5, <2>2, <2>3 DEF b
<1>6. CASE n = 3
  <2>1. /\ b[1] = x /\ b[2] = y /\ b[3] = z /\ Len(b) = 3
        /\ k + 1 <= Len(s) /\ k + 2 <= Len(s)
    BY <1>0, <1>1, <1>2, <1>6 DEF x, y, z
  <2>2. Utf8Character(b) <=>
          /\ z \in 128 .. 191
          /\ \/ x = 224 /\ y \in 160 .. 191
             \/ x = 237 /\ y \in 128 .. 159
             \/ x \in 225 .. 239 /\ x # 237 /\ y \in 128 .. 191
    <3> DEFINE Second == CASE x = 224 -> 160 .. 191 [] x = 237 -> 128 .. 159
                           [] x \in 225 .. 239 \ {237} -> 128 .. 191 [] OTHER -> {}
    <3>1. Utf8Character(b) <=> z \in 128 .. 191 /\ y \in Second
      BY <2>1 DEF Utf8Character
    <3>2. 224 \notin 225 .. 239 /\ 224 # 237
      OBVIOUS
    <3>3. x = 224 => Second = 160 .. 191
      BY <3>2
    <3>4. x = 237 => Second = 128 .. 159
      BY <3>2
    <3>5. x \in 225 .. 239 \ {237} => Second = 128 .. 191
      BY <3>2
    <3>6. x # 224 /\ x # 237 /\ x \notin 225 .. 239 \ {237} => Second = {}
      BY Zenon
    <3> HIDE DEF Second
    <3> QED
      BY <3>1, <3>2, <3>3, <3>4, <3>5, <3>6, SMTT(40)
  <2>3. CharSize(s, k) = 3 <=>
          /\ x \in 224 .. 239 /\ y \in 128 .. 191 /\ z \in 128 .. 191
          /\ x = 224 => y >= 160
          /\ x = 237 => y < 160
    BY <1>3, <2>1, LeadsApart
  <2>4. ThirdLead(x, y)
    BY LeadOfThree
  <2>5. Utf8Character(b) <=> CharSize(s, k) = 3
    BY <2>2, <2>3, <2>4, ZenonT(60) DEF ThirdLead
  <2> QED
    BY <1>6, <2>5 DEF b
<1>7. CASE n = 4
  <2>1. /\ b[1] = x /\ b[2] = y /\ b[3] = z /\ b[4] = w /\ Len(b) = 4
        /\ k + 1 <= Len(s) /\ k + 2 <= Len(s) /\ k + 3 <= Len(s)
    BY <1>0, <1>1, <1>2, <1>7 DEF x, y, z, w
  <2>2. Utf8Character(b) <=>
          /\ z \in 128 .. 191 /\ w \in 128 .. 191
          /\ \/ x = 240 /\ y \in 144 .. 191
             \/ x = 244 /\ y \in 128 .. 143
             \/ x \in 241 .. 243 /\ y \in 128 .. 191
    <3> DEFINE Second == CASE x = 240 -> 144 .. 191 [] x = 244 -> 128 .. 143
                           [] x \in 241 .. 243 -> 128 .. 191 [] OTHER -> {}
    <3>1. Utf8Character(b) <=> z \in 128 .. 191 /\ w \in 128 .. 191 /\ y \in Second
      BY <2>1 DEF Utf8Character
    <3>2. 240 \notin 241 .. 243 /\ 244 \notin 241 .. 243 /\ 240 # 244
      OBVIOUS
    <3>3. x = 240 => Second = 144 .. 191
      BY <3>2
    <3>4. x = 244 => Second = 128 .. 143
      BY <3>2
    <3>5. x \in 241 .. 243 => Second = 128 .. 191
      BY <3>2
    <3>6. x # 240 /\ x # 244 /\ x \notin 241 .. 243 => Second = {}
      BY Zenon
    <3> HIDE DEF Second
    <3> QED
      BY <3>1, <3>2, <3>3, <3>4, <3>5, <3>6, SMTT(40)
  <2>3. CharSize(s, k) = 4 <=>
          /\ x \in 240 .. 244 /\ y \in 128 .. 191 /\ z \in 128 .. 191 /\ w \in 128 .. 191
          /\ x = 240 => y >= 144
          /\ x = 244 => y < 144
    BY <1>3, <2>1, LeadsApart
  <2>4. FourthLead(x, y)
    BY LeadOfFour
  <2>5. Utf8Character(b) <=> CharSize(s, k) = 4
    BY <2>2, <2>3, <2>4, ZenonT(60) DEF FourthLead
  <2> QED
    BY <1>7, <2>5 DEF b
<1> QED
  BY <1>4, <1>5, <1>6, <1>7

LEMMA SizeInside ==
  ASSUME NEW S, NEW s \in Seq(S), NEW k \in 1 .. Len(s)
  PROVE  CharSize(s, k) \in 0 .. 4 /\ k + CharSize(s, k) \in k .. Len(s) + 1
BY DEF CharSize

\* One turn of the recursions of utf8_valid and of WellFormed.
ValidAt(F, s, k)  == k > Len(s) \/ (CharSize(s, k) > 0 /\ F[k + CharSize(s, k)])
ValidFrom(s)      == CHOOSE F : F = [k \in 1 .. Len(s) + 1 |-> ValidAt(F, s, k)]
FormedAt(F, s, k) ==
  k = 0 \/ \E n \in 1 .. Min({4, k}) : Utf8Character(SubSeq(s, k - n + 1, k)) /\ F[k - n]
FormedUpTo(s)     == CHOOSE F : F = [k \in 0 .. Len(s) |-> FormedAt(F, s, k)]

LEMMA ValidUnfolds ==
  ASSUME NEW S, NEW s \in Seq(S)
  PROVE  /\ utf8_valid(s) = ValidFrom(s)[1]
         /\ \A k \in 1 .. Len(s) + 1 : ValidFrom(s)[k] = ValidAt(ValidFrom(s), s, k)
<1> DEFINE n == Len(s) + 1
           I == 1 .. n
           mu == [k \in I |-> n - k]
           f == [G \in [I -> BOOLEAN] |-> [k \in I |-> ValidAt(G, s, k)]]
           Right(F) == F = [k \in I |-> ValidAt(F, s, k)]
<1>0. n \in Nat /\ \A k \in I : k > Len(s) \/ k \in 1 .. Len(s)
  OBVIOUS
<1>1. Measured(I, mu, n + 1)
  <2> HIDE DEF n
  <2> QED
    BY <1>0 DEF Measured
<1>2. Typed(I, BOOLEAN, f)
  <2>1. ASSUME NEW G, NEW k PROVE ValidAt(G, s, k) \in BOOLEAN
    BY DEF ValidAt
  <2> QED
    BY <2>1 DEF Typed
<1>3. Local(I, BOOLEAN, mu, f)
  <2>1. ASSUME NEW G \in [I -> BOOLEAN], NEW H \in [I -> BOOLEAN], NEW k \in I,
               \A j \in I : mu[j] < mu[k] => G[j] = H[j]
        PROVE  ValidAt(G, s, k) = ValidAt(H, s, k)
    <3>1. k > Len(s) \/ CharSize(s, k) = 0 \/ k + CharSize(s, k) \in k + 1 .. n
      BY <1>0, SizeInside
    <3>2. ASSUME NEW j \in k + 1 .. n PROVE j \in I /\ mu[j] < mu[k]
      <4> HIDE DEF n
      <4> QED
        BY <1>0
    <3>3. k + CharSize(s, k) \in k + 1 .. n => G[k + CharSize(s, k)] = H[k + CharSize(s, k)]
      BY <2>1, <3>2
    <3>4. CharSize(s, k) = 0 => ~ (CharSize(s, k) > 0)
      OBVIOUS
    <3> HIDE DEF mu, I, n
    <3> QED
      BY <3>1, <3>3, <3>4, Zenon DEF ValidAt
  <2> HIDE DEF I, mu
  <2>2. \A G, H \in [I -> BOOLEAN] : \A k \in I :
          (\A j \in I : mu[j] < mu[k] => G[j] = H[j]) => f[G][k] = f[H][k]
    BY <2>1
  <2> QED
    BY <2>2 DEF Local
<1>4. PICK F \in [I -> BOOLEAN] : \A k \in I : F[k] = f[F][k]
  <2>1. n + 1 \in Nat
    BY <1>0
  <2> HIDE DEF I, mu, f
  <2>2. Solvable(I, BOOLEAN, f)
    BY <1>1, <1>2, <1>3, <2>1, Recursion
  <2> QED
    BY <2>2 DEF Solvable
<1>5. Right(F)
  BY <1>4
<1>6. Right(ValidFrom(s))
  <2>1. ValidFrom(s) = CHOOSE G : Right(G)
    BY DEF ValidFrom
  <2> HIDE DEF Right
  <2> QED
    BY <1>5, <2>1
<1>7. utf8_valid(s) = ValidFrom(s)[1]
  BY DEF utf8_valid, ValidFrom, ValidAt
<1> QED
  BY <1>6, <1>7

LEMMA FormedUnfolds ==
  ASSUME NEW S, NEW s \in Seq(S)
  PROVE  /\ WellFormed(s) = FormedUpTo(s)[Len(s)]
         /\ \A k \in 0 .. Len(s) : FormedUpTo(s)[k] = FormedAt(FormedUpTo(s), s, k)
<1> DEFINE top == Len(s)
           I == 0 .. top
           mu == [k \in I |-> k]
           f == [G \in [I -> BOOLEAN] |-> [k \in I |-> FormedAt(G, s, k)]]
           Right(F) == F = [k \in I |-> FormedAt(F, s, k)]
<1>0. top \in Nat
  OBVIOUS
<1> HIDE DEF top
<1>1. Measured(I, mu, top + 1)
  BY <1>0 DEF Measured
<1>2. Typed(I, BOOLEAN, f)
  <2>1. ASSUME NEW G, NEW k PROVE FormedAt(G, s, k) \in BOOLEAN
    BY DEF FormedAt
  <2> QED
    BY <2>1 DEF Typed
<1>3. Local(I, BOOLEAN, mu, f)
  <2>1. ASSUME NEW G \in [I -> BOOLEAN], NEW H \in [I -> BOOLEAN], NEW k \in I,
               \A j \in I : mu[j] < mu[k] => G[j] = H[j]
        PROVE  FormedAt(G, s, k) = FormedAt(H, s, k)
    <3>1. ASSUME k # 0, NEW n \in 1 .. Min({4, k}) PROVE k - n \in I /\ mu[k - n] < mu[k]
      <4>1. {4, k} \in SUBSET Nat /\ k \in {4, k}
        BY <1>0
      <4>2. Min({4, k}) \in {4, k} /\ Min({4, k}) <= k
        BY <4>1, Least
      <4>3. n \in Nat /\ n >= 1 /\ n <= k
        BY <4>1, <4>2
      <4> QED
        BY <1>0, <4>3
    <3>2. k # 0 => \A n \in 1 .. Min({4, k}) : G[k - n] = H[k - n]
      BY <2>1, <3>1
    <3> HIDE DEF mu, I
    <3> QED
      BY <3>2, Zenon DEF FormedAt
  <2> HIDE DEF I, mu
  <2>2. \A G, H \in [I -> BOOLEAN] : \A k \in I :
          (\A j \in I : mu[j] < mu[k] => G[j] = H[j]) => f[G][k] = f[H][k]
    BY <2>1
  <2> QED
    BY <2>2 DEF Local
<1>4. PICK F \in [I -> BOOLEAN] : \A k \in I : F[k] = f[F][k]
  <2>1. top + 1 \in Nat
    BY <1>0
  <2> HIDE DEF I, mu, f
  <2>2. Solvable(I, BOOLEAN, f)
    BY <1>1, <1>2, <1>3, <2>1, Recursion
  <2> QED
    BY <2>2 DEF Solvable
<1>5. Right(F)
  BY <1>4
<1>6. Right(FormedUpTo(s))
  <2>1. FormedUpTo(s) = CHOOSE G : Right(G)
    BY DEF FormedUpTo, top
  <2> HIDE DEF Right
  <2> QED
    BY <1>5, <2>1
<1>7. WellFormed(s) = FormedUpTo(s)[Len(s)]
  BY DEF WellFormed, FormedUpTo, FormedAt
<1> QED
  BY <1>6, <1>7 DEF top

\* The turns, character by character.
LEMMA ValidTurn ==
  ASSUME NEW S, NEW s \in Seq(S), NEW k \in 1 .. Len(s)
  PROVE  ValidFrom(s)[k] <=> CharSize(s, k) > 0 /\ ValidFrom(s)[k + CharSize(s, k)]
<1>1. k \in 1 .. Len(s) + 1 /\ ~ (k > Len(s))
  OBVIOUS
<1>2. ValidFrom(s)[k] = ValidAt(ValidFrom(s), s, k)
  BY <1>1, ValidUnfolds
<1> QED
  BY <1>1, <1>2, Zenon DEF ValidAt

LEMMA FormedTurn ==
  ASSUME NEW S, NEW s \in Seq(S), NEW k \in 1 .. Len(s)
  PROVE  FormedUpTo(s)[k]
           <=> \E n \in 1 .. 4 : n <= k /\ CharSize(s, k - n + 1) = n /\ FormedUpTo(s)[k - n]
<1> DEFINE W == FormedUpTo(s)
           top == Len(s)
<1>0. top \in Nat /\ k \in Nat /\ k # 0 /\ k <= top
  OBVIOUS
<1>1. W[k] <=> \E n \in 1 .. Min({4, k}) : Utf8Character(SubSeq(s, k - n + 1, k)) /\ W[k - n]
  <2>1. k \in 0 .. Len(s)
    BY <1>0
  <2>2. W[k] = FormedAt(W, s, k)
    BY <2>1, FormedUnfolds
  <2> HIDE DEF W
  <2> QED
    BY <1>0, <2>2, Zenon DEF FormedAt
<1>2. ASSUME NEW n \in 1 .. 4, n <= k
      PROVE  Utf8Character(SubSeq(s, k - n + 1, k)) <=> CharSize(s, k - n + 1) = n
  <2> DEFINE j == k - n + 1
  <2> HIDE DEF top
  <2>1. j \in 1 .. top /\ j + n - 1 = k
    BY <1>0, <1>2
  <2> HIDE DEF j
  <2>2. j \in 1 .. Len(s) /\ j + n - 1 <= Len(s)
    BY <1>0, <2>1 DEF top
  <2>3. Utf8Character(SubSeq(s, j, j + n - 1)) <=> CharSize(s, j) = n
    BY <2>2, SizeIsCharacter
  <2> QED
    BY <2>1, <2>3 DEF j
<1>3. \A n : n \in 1 .. Min({4, k}) <=> n \in 1 .. 4 /\ n <= k
  <2>1. {4, k} \in SUBSET Nat /\ k \in {4, k} /\ 4 \in {4, k}
    BY <1>0
  <2>2. Min({4, k}) \in {4, k} /\ Min({4, k}) <= k /\ Min({4, k}) <= 4
    BY <2>1, Least
  <2> HIDE DEF top, W
  <2> QED
    BY <1>0, <2>2
<1> HIDE DEF W
<1>4. W[k] <=> \E n \in 1 .. 4 : n <= k /\ CharSize(s, k - n + 1) = n /\ W[k - n]
  BY <1>1, <1>2, <1>3, Zenon
<1> QED
  BY <1>4 DEF W

\* utf8_valid accepts what the table does.
LEMMA ValidIsFormed ==
  ASSUME NEW S, NEW s \in Seq(S)
  PROVE  utf8_valid(s) <=> WellFormed(s)
<1> DEFINE F == ValidFrom(s)
           W == FormedUpTo(s)
           top == Len(s)
           C(k) == CharSize(s, k)
<1>0. top \in Nat
  OBVIOUS
<1>1. utf8_valid(s) = F[1] /\ WellFormed(s) = W[top]
  BY ValidUnfolds, FormedUnfolds
<1>2. F[top + 1]
  <2>1. top + 1 \in 1 .. Len(s) + 1 /\ top + 1 > Len(s)
    OBVIOUS
  <2>2. F[top + 1] = ValidAt(F, s, top + 1)
    BY <2>1, ValidUnfolds
  <2> HIDE DEF F
  <2> QED
    BY <2>1, <2>2, Zenon DEF ValidAt
<1>3. W[0]
  <2>1. 0 \in 0 .. Len(s)
    OBVIOUS
  <2>2. W[0] = FormedAt(W, s, 0)
    BY <2>1, FormedUnfolds
  <2> HIDE DEF W
  <2> QED
    BY <2>2, Zenon DEF FormedAt
<1>4. \A k \in 1 .. top : F[k] <=> C(k) > 0 /\ F[k + C(k)]
  BY ValidTurn
<1>5. \A k \in 1 .. top : W[k] <=> \E n \in 1 .. 4 : n <= k /\ C(k - n + 1) = n /\ W[k - n]
  BY FormedTurn
<1>6. \A k \in 1 .. top : C(k) \in 0 .. 4 /\ k + C(k) \in k .. top + 1
  BY SizeInside
<1> HIDE DEF F, W, C, top
<1>7. F[1] => W[top]
  <2> DEFINE I == 1 .. top + 1
             mu == [k \in I |-> top + 1 - k]
             T == {k \in I : F[k] /\ W[k - 1] => W[top]}
  <2>1. ASSUME NEW k \in I, \A j \in I : mu[j] < mu[k] => j \in T PROVE k \in T
    <3>1. CASE k = top + 1
      <4>1. k - 1 = top
        BY <1>0, <3>1
      <4> QED
        BY <4>1
    <3>2. CASE k # top + 1
      <4>1. k \in 1 .. top /\ k \in Nat
        BY <1>0, <3>2
      <4>2. SUFFICES ASSUME F[k], W[k - 1] PROVE W[top]
        OBVIOUS
      <4>3. PICK n \in 1 .. 4 : n = C(k) /\ F[k + n] /\ k + n \in I
        <5>1. C(k) > 0 /\ F[k + C(k)] /\ C(k) \in 0 .. 4 /\ k + C(k) \in k .. top + 1
          BY <1>4, <1>6, <4>1, <4>2
        <5>2. C(k) \in 1 .. 4 /\ k + C(k) \in I
          BY <1>0, <4>1, <5>1
        <5> QED
          BY <5>1, <5>2
      <4>4. /\ k + n - 1 \in 1 .. top /\ n <= k + n - 1 /\ (k + n - 1) - n + 1 = k
            /\ (k + n - 1) - n = k - 1 /\ (k + n) - 1 = k + n - 1
            /\ top + 1 - (k + n) < top + 1 - k
        <5>1. k + n \in Nat /\ k + n >= 1 /\ k + n <= top + 1 /\ k >= 1
          BY <1>0, <4>1, <4>3
        <5>2. k + n - 1 \in 1 .. top /\ n <= k + n - 1
          BY <1>0, <4>1, <5>1
        <5>3. /\ (k + n - 1) - n + 1 = k /\ (k + n - 1) - n = k - 1 /\ (k + n) - 1 = k + n - 1
              /\ top + 1 - (k + n) < top + 1 - k
          BY <1>0, <4>1
        <5> QED
          BY <5>2, <5>3
      <4>5. W[k + n - 1]
        BY <1>5, <4>2, <4>3, <4>4
      <4>6. k + n \in T
        BY <2>1, <4>3, <4>4
      <4> QED
        BY <4>3, <4>4, <4>5, <4>6
    <3> QED
      BY <3>1, <3>2
  <2>2. mu \in [I -> Nat] /\ 1 \in I
    BY <1>0
  <2>3. 1 \in T
    <3> HIDE DEF I, mu, T
    <3> QED
      BY <2>1, <2>2, Below
  <2> QED
    BY <1>3, <2>3
<1>8. W[top] => F[1]
  <2> DEFINE I == 0 .. top
             mu == [k \in I |-> k]
             T == {k \in I : W[k] /\ F[k + 1] => F[1]}
  <2>1. ASSUME NEW k \in I, \A j \in I : mu[j] < mu[k] => j \in T PROVE k \in T
    <3>1. CASE k = 0
      BY <3>1
    <3>2. CASE k # 0
      <4>1. k \in 1 .. top /\ k \in Nat
        BY <1>0, <3>2
      <4>2. SUFFICES ASSUME W[k], F[k + 1] PROVE F[1]
        OBVIOUS
      <4>3. PICK n \in 1 .. 4 : n <= k /\ C(k - n + 1) = n /\ W[k - n]
        BY <1>5, <4>1, <4>2
      <4>4. k - n \in I /\ k - n < k /\ k - n + 1 \in 1 .. top /\ (k - n + 1) + n = k + 1 /\ n > 0
        BY <1>0, <4>1, <4>3
      <4>5. F[k - n + 1]
        BY <1>4, <4>2, <4>3, <4>4
      <4>6. k - n \in T
        BY <2>1, <4>4
      <4> QED
        BY <4>3, <4>5, <4>6
    <3> QED
      BY <3>1, <3>2
  <2>2. mu \in [I -> Nat] /\ top \in I
    BY <1>0
  <2>3. top \in T
    <3> HIDE DEF I, mu, T
    <3> QED
      BY <2>1, <2>2, Below
  <2> QED
    BY <1>2, <2>3
<1>9. F[1] \in BOOLEAN /\ W[top] \in BOOLEAN
  <2>1. 1 \in 1 .. Len(s) + 1 /\ Len(s) \in 0 .. Len(s)
    OBVIOUS
  <2>2. F[1] = ValidAt(F, s, 1)
    BY <2>1, ValidUnfolds DEF F
  <2>3. W[top] = FormedAt(W, s, top)
    BY <2>1, FormedUnfolds DEF W, top
  <2> QED
    BY <2>2, <2>3 DEF ValidAt, FormedAt
<1> QED
  BY <1>1, <1>7, <1>8, <1>9

-----------------------------------------------------------------------------
(* Powers of two                                                           *)

Bits == 0 .. IntBits.word

\* The powers of two are what their recursion says.
LEMMA PowersUnfold ==
  \A n \in Bits : /\ PowerOf2[n] \in Nat
                  /\ PowerOf2[n] = IF n = 0 THEN 1 ELSE 2 * PowerOf2[n - 1]
<1> DEFINE top == IntBits.word
           I == 0 .. top
           At_(F, n) == IF n = 0 THEN 1 ELSE 2 * F[n - 1]
           mu == [n \in I |-> n]
           f == [G \in [I -> Nat] |-> [n \in I |-> At_(G, n)]]
           Right(F) == F = [n \in I |-> At_(F, n)]
<1>0. top \in Nat
  BY IntBitsAssumption
<1> HIDE DEF top
<1>1. Measured(I, mu, top + 1)
  BY <1>0 DEF Measured
<1>2. \A G \in [I -> Nat] : \A n \in I : At_(G, n) \in Nat
  <2> SUFFICES ASSUME NEW G \in [I -> Nat], NEW n \in I PROVE At_(G, n) \in Nat
    OBVIOUS
  <2>1. n # 0 => n - 1 \in I
    BY <1>0
  <2> QED
    BY <2>1
<1>3. Typed(I, Nat, f)
  <2> HIDE DEF I, At_
  <2> QED
    BY <1>2 DEF Typed
<1>4. Local(I, Nat, mu, f)
  <2>1. ASSUME NEW G \in [I -> Nat], NEW H \in [I -> Nat], NEW n \in I,
               \A m \in I : mu[m] < mu[n] => G[m] = H[m]
        PROVE  At_(G, n) = At_(H, n)
    <3>1. n # 0 => n - 1 \in I /\ mu[n - 1] < mu[n]
      BY <1>0
    <3> QED
      BY <2>1, <3>1
  <2> HIDE DEF I, At_, mu
  <2>2. \A G, H \in [I -> Nat] : \A n \in I :
          (\A m \in I : mu[m] < mu[n] => G[m] = H[m]) => f[G][n] = f[H][n]
    BY <2>1
  <2> QED
    BY <2>2 DEF Local
<1>5. PICK F \in [I -> Nat] : \A n \in I : F[n] = f[F][n]
  <2>1. top + 1 \in Nat /\ Nat # {}
    BY <1>0
  <2> HIDE DEF I, mu, f
  <2>2. Solvable(I, Nat, f)
    BY <1>1, <1>3, <1>4, <2>1, Recursion
  <2> QED
    BY <2>2 DEF Solvable
<1>6. Right(F)
  BY <1>5
<1>7. Right(PowerOf2)
  <2>1. PowerOf2 = CHOOSE G : Right(G)
    BY DEF PowerOf2, top
  <2> HIDE DEF Right
  <2> QED
    BY <1>6, <2>1
<1>8. \A n \in I : PowerOf2[n] = At_(PowerOf2, n)
  BY <1>7
<1> DEFINE S == {n \in I : PowerOf2[n] \in Nat}
<1>9. mu \in [I -> Nat]
  BY <1>0
<1>10. ASSUME NEW n \in I, \A m \in I : mu[m] < mu[n] => m \in S PROVE n \in S
  <2>1. n # 0 => n - 1 \in I /\ mu[n - 1] < mu[n]
    BY <1>0
  <2>2. n # 0 => PowerOf2[n - 1] \in Nat
    BY <1>10, <2>1
  <2>3. PowerOf2[n] = IF n = 0 THEN 1 ELSE 2 * PowerOf2[n - 1]
    BY <1>8
  <2>4. PowerOf2[n] \in Nat
    BY <2>2, <2>3
  <2> QED
    BY <2>4
<1> HIDE DEF mu, S, I
<1>11. \A n \in I : n \in S
  BY <1>9, <1>10, Below
<1> QED
  BY <1>8, <1>11 DEF S, I, Bits, top

\* They are positive and grow.
LEMMA PowersGrow ==
  \A m, n \in Bits : /\ PowerOf2[n] \in Nat /\ PowerOf2[n] >= 1
                     /\ m <= n => PowerOf2[m] <= PowerOf2[n]
<1> DEFINE top == IntBits.word
           mu == [n \in Bits |-> n]
           S == {n \in Bits : PowerOf2[n] >= 1 /\ \A m \in Bits : m <= n => PowerOf2[m] <= PowerOf2[n]}
<1>0. top \in Nat
  BY IntBitsAssumption
<1> HIDE DEF top
<1>1. Bits = 0 .. top
  BY DEF Bits, top
<1>2. mu \in [Bits -> Nat]
  BY <1>0, <1>1
<1>3. ASSUME NEW n \in Bits, \A m \in Bits : mu[m] < mu[n] => m \in S PROVE n \in S
  <2>1. CASE n = 0
    <3>1. PowerOf2[n] = 1 /\ \A m \in Bits : m <= n => m = n
      BY <1>0, <1>1, <2>1, PowersUnfold
    <3> QED
      BY <3>1
  <2>2. CASE n # 0
    <3>1. n - 1 \in Bits /\ mu[n - 1] < mu[n]
      BY <1>0, <1>1, <2>2
    <3>2. n - 1 \in S
      BY <1>3, <3>1
    <3>3. PICK a \in Nat : a = PowerOf2[n - 1]
      BY <3>1, PowersUnfold
    <3>4. PowerOf2[n] = 2 * a /\ a >= 1
      BY <2>2, <3>2, <3>3, PowersUnfold
    <3>5. ASSUME NEW m \in Bits, m <= n PROVE PowerOf2[m] <= 2 * a
      <4>1. CASE m = n
        BY <3>3, <3>4, <4>1
      <4>2. CASE m # n
        <5>1. m <= n - 1
          BY <1>0, <1>1, <3>5, <4>2
        <5>2. PowerOf2[m] <= a /\ PowerOf2[m] \in Nat
          BY <3>2, <3>3, <5>1, PowersUnfold
        <5> QED
          BY <3>3, <5>2
      <4> QED
        BY <4>1, <4>2
    <3>6. 2 * a >= 1
      BY <3>3, <3>4
    <3> QED
      BY <3>4, <3>5, <3>6
  <2> QED
    BY <2>1, <2>2
<1> HIDE DEF mu, S
<1>4. \A n \in Bits : n \in S
  BY <1>2, <1>3, Below
<1> QED
  BY <1>4, PowersUnfold DEF S

-----------------------------------------------------------------------------
(* The digits of an integer                                                *)

\* A run of bytes ends behind them, within the text.
LEMMA RunEnds ==
  ASSUME text \in Seq(Byte), NEW p \in 0 .. Len(text), NEW s
  PROVE  /\ RunEnd(p, s) \in p .. Len(text)
         /\ p < Len(text) /\ B(p) \in s => RunEnd(p, s) \in p + 1 .. Len(text)
<1> DEFINE P == {k \in p .. Len(text) : k = Len(text) \/ B(k) \notin s}
<1>1. P \in SUBSET Nat /\ Len(text) \in P
  OBVIOUS
<1>2. RunEnd(p, s) \in P
  <2>1. RunEnd(p, s) = Min(P)
    BY DEF RunEnd
  <2> HIDE DEF P
  <2> QED
    BY <1>1, <2>1, Least
<1>3. p < Len(text) /\ B(p) \in s => p \notin P
  OBVIOUS
<1> QED
  BY <1>2, <1>3

Bases == {2, 8, 10, 16}

LEMMA PrefixIsBase ==
  \A p : Prefix(p) \in Bases
BY DEF Prefix, Bases

\* A digit of a base has a value below it.
LEMMA DigitBelowBase ==
  ASSUME NEW base \in Bases, NEW b \in BaseDigits(base)
  PROVE  HexValue(b) \in 0 .. base - 1 /\ b # Underscore /\ b \in Nat
BY DEF Bases, BaseDigits, HexDigits, Digits, HexValue, Underscore

\* The bytes of a run are of its set.
LEMMA RunHolds ==
  ASSUME text \in Seq(Byte), NEW p \in 0 .. Len(text), NEW s
  PROVE  \A k \in p .. RunEnd(p, s) - 1 : B(k) \in s
<1> DEFINE P == {k \in p .. Len(text) : k = Len(text) \/ B(k) \notin s}
<1>1. P \in SUBSET Nat /\ Len(text) \in P
  OBVIOUS
<1>2. RunEnd(p, s) \in P /\ \A k \in P : RunEnd(p, s) <= k
  <2>1. RunEnd(p, s) = Min(P)
    BY DEF RunEnd
  <2> HIDE DEF P
  <2> QED
    BY <1>1, <2>1, Least
<1>3. ASSUME NEW k \in p .. RunEnd(p, s) - 1, B(k) \notin s PROVE FALSE
  <2>1. RunEnd(p, s) \in p .. Len(text) /\ Len(text) \in Nat
    BY <1>2
  <2>2. k \in P
    BY <1>3, <2>1
  <2>3. RunEnd(p, s) <= k
    BY <1>2, <2>2
  <2> QED
    BY <2>1, <2>3
<1> QED
  BY <1>3

\* A run of digits of a base, with underscores.
DigitRun(p, q, base) ==
  /\ p \in Nat /\ q \in Nat /\ p <= q /\ base \in Bases
  /\ \A k \in p .. q - 1 : B(k) \in BaseDigits(base) \cup {Underscore}

\* One turn of the recursion of Value.
ValueAt(F, p, base, k) ==
  IF k = p THEN [value |-> 0, overflow |-> FALSE]
  ELSE IF F[k - 1].overflow \/ B(k - 1) = Underscore THEN F[k - 1]
  ELSE IF F[k - 1].value > (WordMax - HexValue(B(k - 1))) \div base
         THEN [F[k - 1] EXCEPT !.overflow = TRUE]
  ELSE [value |-> F[k - 1].value * base + HexValue(B(k - 1)), overflow |-> FALSE]
ValueFrom(p, q, base) == CHOOSE F : F = [k \in p .. q |-> ValueAt(F, p, base, k)]

Values == [value : Nat, overflow : BOOLEAN]

LEMMA ValueTyped ==
  ASSUME NEW p \in Nat, NEW q \in Nat, NEW base, DigitRun(p, q, base), NEW k \in p .. q,
         NEW F, k # p => F[k - 1] \in Values
  PROVE  ValueAt(F, p, base, k) \in Values
<1>1. CASE k = p
  BY <1>1 DEF ValueAt, Values
<1>2. CASE k # p
  <2>1. PICK v \in Values : v = F[k - 1]
    BY <1>2
  <2>2. k - 1 \in p .. q - 1 /\ base \in Bases
    BY <1>2 DEF DigitRun
  <2>3. B(k - 1) # Underscore => HexValue(B(k - 1)) \in Nat
    BY <2>2, DigitBelowBase DEF DigitRun, Bases
  <2> DEFINE n == v.value * base + HexValue(B(k - 1))
  <2>4. B(k - 1) # Underscore => n \in Nat
    BY <2>1, <2>2, <2>3 DEF Values, Bases
  <2>5. ValueAt(F, p, base, k) \in {v, [v EXCEPT !.overflow = TRUE]}
        \/ (B(k - 1) # Underscore /\ ValueAt(F, p, base, k) = [value |-> n, overflow |-> FALSE])
    BY <1>2, <2>1 DEF ValueAt
  <2> HIDE DEF n
  <2>6. [v EXCEPT !.overflow = TRUE] \in Values
    BY <2>1 DEF Values
  <2>7. n \in Nat => [value |-> n, overflow |-> FALSE] \in Values
    BY DEF Values
  <2> QED
    BY <2>1, <2>4, <2>5, <2>6, <2>7
<1> QED
  BY <1>1, <1>2

\* Value is the function its recursion defines.
LEMMA ValueUnfolds ==
  ASSUME NEW p, NEW q, NEW base, DigitRun(p, q, base)
  PROVE  /\ Value(p, q, base) = ValueFrom(p, q, base)[q]
         /\ \A k \in p .. q : /\ ValueFrom(p, q, base)[k] = ValueAt(ValueFrom(p, q, base), p, base, k)
                              /\ ValueFrom(p, q, base)[k] \in Values
<1> DEFINE I == p .. q
           mu == [k \in I |-> k - p]
           f == [G \in [I -> Values] |-> [k \in I |-> ValueAt(G, p, base, k)]]
           Right(F) == F = [k \in I |-> ValueAt(F, p, base, k)]
<1>0. p \in Nat /\ q \in Nat /\ p <= q
  BY DEF DigitRun
<1>1. Measured(I, mu, q + 1)
  BY <1>0 DEF Measured
<1>2. Typed(I, Values, f)
  <2>1. ASSUME NEW G \in [I -> Values], NEW k \in I PROVE ValueAt(G, p, base, k) \in Values
    <3>1. k # p => k - 1 \in I
      BY <1>0
    <3>2. k # p => G[k - 1] \in Values
      BY <3>1
    <3> QED
      BY <1>0, <3>2, ValueTyped
  <2> HIDE DEF I
  <2> QED
    BY <2>1 DEF Typed
<1>3. Local(I, Values, mu, f)
  <2>1. ASSUME NEW G \in [I -> Values], NEW H \in [I -> Values], NEW k \in I,
               \A j \in I : mu[j] < mu[k] => G[j] = H[j]
        PROVE  ValueAt(G, p, base, k) = ValueAt(H, p, base, k)
    <3>1. k # p => k - 1 \in I /\ mu[k - 1] < mu[k]
      BY <1>0
    <3>2. k # p => G[k - 1] = H[k - 1]
      BY <2>1, <3>1
    <3> HIDE DEF I, mu
    <3> QED
      BY <3>2, Zenon DEF ValueAt
  <2> HIDE DEF I, mu
  <2>2. \A G, H \in [I -> Values] : \A k \in I :
          (\A j \in I : mu[j] < mu[k] => G[j] = H[j]) => f[G][k] = f[H][k]
    BY <2>1
  <2> QED
    BY <2>2 DEF Local
<1>4. PICK F \in [I -> Values] : \A k \in I : F[k] = f[F][k]
  <2>1. q + 1 \in Nat /\ Values # {}
    <3>1. [value |-> 0, overflow |-> FALSE] \in Values
      BY DEF Values
    <3> QED
      BY <1>0, <3>1
  <2> HIDE DEF I, mu, f
  <2>2. Solvable(I, Values, f)
    BY <1>1, <1>2, <1>3, <2>1, Recursion
  <2> QED
    BY <2>2 DEF Solvable
<1>5. Right(F)
  BY <1>4
<1>6. Right(ValueFrom(p, q, base))
  <2>1. ValueFrom(p, q, base) = CHOOSE G : Right(G)
    BY DEF ValueFrom
  <2> HIDE DEF Right
  <2> QED
    BY <1>5, <2>1
<1>7. Value(p, q, base) = ValueFrom(p, q, base)[q]
  BY DEF Value, ValueFrom, ValueAt
<1> DEFINE V == ValueFrom(p, q, base)
           S == {k \in I : V[k] \in Values}
<1>8. \A k \in I : V[k] = ValueAt(V, p, base, k)
  BY <1>6
<1> HIDE DEF V
<1>9. ASSUME NEW k \in I, \A j \in I : mu[j] < mu[k] => j \in S PROVE k \in S
  <2>1. k # p => k - 1 \in I /\ mu[k - 1] < mu[k]
    BY <1>0
  <2>2. k # p => V[k - 1] \in Values
    BY <1>9, <2>1
  <2>3. ValueAt(V, p, base, k) \in Values
    BY <1>0, <2>2, ValueTyped
  <2> QED
    BY <1>8, <2>3
<1>10. mu \in [I -> Nat]
  BY <1>1 DEF Measured
<1> HIDE DEF mu, S, I
<1>11. \A k \in I : k \in S
  BY <1>9, <1>10, Below
<1> QED
  BY <1>7, <1>8, <1>11 DEF S, I, V

\* One turn of the recursion of Meaning.
MeaningAt(F, p, k) ==
  IF k = 0 THEN 0
  ELSE IF text[p + k] \in BaseDigits(Prefix(p)) THEN F[k - 1] * Prefix(p) + HexValue(text[p + k])
  ELSE F[k - 1]
MeaningFrom(p, q) == CHOOSE F : F = [k \in 0 .. q - p |-> MeaningAt(F, p, k)]

LEMMA MeaningTyped ==
  ASSUME NEW p, NEW k \in Nat, NEW F, k # 0 => F[k - 1] \in Nat
  PROVE  MeaningAt(F, p, k) \in Nat
<1>1. text[p + k] \in BaseDigits(Prefix(p)) => HexValue(text[p + k]) \in Nat /\ Prefix(p) \in Nat
  BY PrefixIsBase, DigitBelowBase DEF Bases
<1>2. CASE k = 0
  BY <1>2 DEF MeaningAt
<1>3. CASE k # 0
  <2>1. PICK m \in Nat : m = F[k - 1]
    BY <1>3
  <2> DEFINE base == Prefix(p)
             h == HexValue(text[p + k])
  <2>2. base \in Bases
    BY PrefixIsBase
  <2>3. MeaningAt(F, p, k) = IF text[p + k] \in BaseDigits(base) THEN m * base + h ELSE m
    BY <1>3, <2>1 DEF MeaningAt
  <2> HIDE DEF base, h
  <2>4. h \in Nat => m * base + h \in Nat
    BY <2>1, <2>2 DEF Bases
  <2> QED
    BY <1>1, <2>1, <2>3, <2>4 DEF h, base
<1> QED
  BY <1>2, <1>3

\* Meaning is the function its recursion defines.
LEMMA MeaningUnfolds ==
  ASSUME NEW p \in Nat, NEW q \in Nat, p <= q
  PROVE  /\ Meaning(p, q) = MeaningFrom(p, q)[q - p]
         /\ \A k \in 0 .. q - p : /\ MeaningFrom(p, q)[k] = MeaningAt(MeaningFrom(p, q), p, k)
                                  /\ MeaningFrom(p, q)[k] \in Nat
<1> DEFINE n == q - p
           I == 0 .. n
           mu == [k \in I |-> k]
           f == [G \in [I -> Nat] |-> [k \in I |-> MeaningAt(G, p, k)]]
           Right(F) == F = [k \in I |-> MeaningAt(F, p, k)]
<1>0. n \in Nat
  OBVIOUS
<1> HIDE DEF n
<1>1. Measured(I, mu, n + 1)
  BY <1>0 DEF Measured
<1>2. Typed(I, Nat, f)
  <2>1. ASSUME NEW G \in [I -> Nat], NEW k \in I PROVE MeaningAt(G, p, k) \in Nat
    <3>1. k # 0 => k - 1 \in I
      BY <1>0
    <3>2. k # 0 => G[k - 1] \in Nat
      BY <3>1
    <3> QED
      BY <1>0, <3>2, MeaningTyped
  <2> HIDE DEF I
  <2> QED
    BY <2>1 DEF Typed
<1>3. Local(I, Nat, mu, f)
  <2>1. ASSUME NEW G \in [I -> Nat], NEW H \in [I -> Nat], NEW k \in I,
               \A j \in I : mu[j] < mu[k] => G[j] = H[j]
        PROVE  MeaningAt(G, p, k) = MeaningAt(H, p, k)
    <3>1. k # 0 => k - 1 \in I /\ mu[k - 1] < mu[k]
      BY <1>0
    <3>2. k # 0 => G[k - 1] = H[k - 1]
      BY <2>1, <3>1
    <3> HIDE DEF I, mu
    <3> QED
      BY <3>2, Zenon DEF MeaningAt
  <2> HIDE DEF I, mu
  <2>2. \A G, H \in [I -> Nat] : \A k \in I :
          (\A j \in I : mu[j] < mu[k] => G[j] = H[j]) => f[G][k] = f[H][k]
    BY <2>1
  <2> QED
    BY <2>2 DEF Local
<1>4. PICK F \in [I -> Nat] : \A k \in I : F[k] = f[F][k]
  <2>1. n + 1 \in Nat /\ Nat # {}
    BY <1>0
  <2> HIDE DEF I, mu, f
  <2>2. Solvable(I, Nat, f)
    BY <1>1, <1>2, <1>3, <2>1, Recursion
  <2> QED
    BY <2>2 DEF Solvable
<1>5. Right(F)
  BY <1>4
<1>6. Right(MeaningFrom(p, q))
  <2>1. MeaningFrom(p, q) = CHOOSE G : Right(G)
    BY DEF MeaningFrom, n
  <2> HIDE DEF Right
  <2> QED
    BY <1>5, <2>1
<1>7. Meaning(p, q) = MeaningFrom(p, q)[q - p]
  BY DEF Meaning, MeaningFrom, MeaningAt
<1> DEFINE M == MeaningFrom(p, q)
           S == {k \in I : M[k] \in Nat}
<1>8. \A k \in I : M[k] = MeaningAt(M, p, k)
  BY <1>6
<1> HIDE DEF M
<1>9. ASSUME NEW k \in I, \A j \in I : mu[j] < mu[k] => j \in S PROVE k \in S
  <2>1. k # 0 => k - 1 \in I /\ mu[k - 1] < mu[k]
    BY <1>0
  <2>2. k # 0 => M[k - 1] \in Nat
    BY <1>9, <2>1
  <2>3. MeaningAt(M, p, k) \in Nat
    BY <1>0, <2>2, MeaningTyped
  <2> QED
    BY <1>8, <2>3
<1>10. mu \in [I -> Nat]
  BY <1>1 DEF Measured
<1> HIDE DEF mu, S, I
<1>11. \A k \in I : k \in S
  BY <1>9, <1>10, Below
<1> QED
  BY <1>7, <1>8, <1>11 DEF S, I, M, n

\* The test for overflow is exact.
LEMMA OverflowExact ==
  ASSUME NEW base \in Bases, NEW h \in 0 .. base - 1, NEW m \in Nat, NEW top \in Nat
  PROVE  /\ m > top => m * base + h > top
         /\ m > (top - h) \div base <=> m * base + h > top
<1>1. CASE base = 2
  BY <1>1
<1>2. CASE base = 8
  BY <1>2
<1>3. CASE base = 10
  BY <1>3
<1>4. CASE base = 16
  BY <1>4
<1> QED
  BY <1>1, <1>2, <1>3, <1>4 DEF Bases

FirstOf(p)  == p + (IF Prefix(p) = 10 THEN 0 ELSE 2)
RunOf(p)    == RunEnd(FirstOf(p), BaseDigits(Prefix(p)) \cup {Underscore})
Plain(p)    == SuffixAt(RunOf(p)) = {}
NamedOf(p)  == CHOOSE t \in SuffixAt(RunOf(p)) : TRUE
ValueOf(p)  == Value(FirstOf(p), RunOf(p), Prefix(p))

\* The run of an integer's digits lies behind its first byte.
LEMMA RunOfDigits ==
  ASSUME text \in Seq(Byte), NEW p \in 0 .. Len(text) - 1, B(p) \in Digits
  PROVE  /\ FirstOf(p) \in {p, p + 2} /\ FirstOf(p) \in Nat
         /\ RunOf(p) \in p + 1 .. Len(text) /\ FirstOf(p) <= RunOf(p)
         /\ DigitRun(FirstOf(p), RunOf(p), Prefix(p))
         /\ FirstOf(p) = p + 2 =>
              B(p) = 48 /\ B(p + 1) \in {120, 88, 98, 66, 111, 79} /\ B(p + 1) \notin BaseDigits(Prefix(p))
<1> DEFINE base == Prefix(p)
           first == FirstOf(p)
           s == BaseDigits(base) \cup {Underscore}
           last == RunOf(p)
<1>0. p \in Nat /\ Len(text) \in Nat /\ p < Len(text) /\ last = RunEnd(first, s)
  BY DEF RunOf
<1>1. CASE base = 10
  <2>1. first = p /\ p \in 0 .. Len(text) /\ B(p) \in s
    BY <1>0, <1>1 DEF BaseDigits, Digits, FirstOf
  <2> HIDE DEF first, s, last
  <2>2. last \in p + 1 .. Len(text) /\ \A k \in p .. last - 1 : B(k) \in s
    BY <1>0, <2>1, RunEnds, RunHolds
  <2>3. last \in Nat /\ p <= last
    BY <1>0, <2>2
  <2>4. base \in Bases
    BY PrefixIsBase
  <2>5. DigitRun(p, last, base)
    BY <1>0, <2>2, <2>3, <2>4 DEF DigitRun, s
  <2>6. first # p + 2
    BY <1>0, <2>1
  <2> QED
    BY <1>0, <2>1, <2>2, <2>3, <2>5, <2>6 DEF first, last
<1>2. CASE base # 10
  <2>1. /\ p + 1 < Len(text) /\ B(p) = 48
        /\ \/ base = 16 /\ B(p + 1) \in {120, 88}
           \/ base = 2 /\ B(p + 1) \in {98, 66}
           \/ base = 8 /\ B(p + 1) \in {111, 79}
    BY <1>2 DEF Prefix, Have, Is
  <2>2. B(p + 1) \in {120, 88, 98, 66, 111, 79} /\ B(p + 1) \notin BaseDigits(base)
    <3> DEFINE c == B(p + 1)
    <3>1. \/ base = 16 /\ c \in {120, 88}
          \/ base = 2 /\ c \in {98, 66}
          \/ base = 8 /\ c \in {111, 79}
      BY <2>1
    <3> HIDE DEF c, base
    <3>2. c \in {120, 88, 98, 66, 111, 79} /\ c \notin BaseDigits(base)
      <4>1. /\ 120 \notin BaseDigits(16) /\ 88 \notin BaseDigits(16) /\ 98 \notin BaseDigits(2)
            /\ 66 \notin BaseDigits(2) /\ 111 \notin BaseDigits(8) /\ 79 \notin BaseDigits(8)
        BY DEF BaseDigits, HexDigits, Digits
      <4> QED
        BY <3>1, <4>1
    <3> QED
      BY <3>2 DEF c, base
  <2>3. first = p + 2 /\ first \in 0 .. Len(text)
    BY <1>0, <1>2, <2>1 DEF FirstOf
  <2> HIDE DEF first, s, last
  <2>4. last \in first .. Len(text) /\ \A k \in first .. last - 1 : B(k) \in s
    BY <1>0, <2>3, RunEnds, RunHolds
  <2>5. last \in Nat /\ first \in Nat /\ first <= last /\ last \in p + 1 .. Len(text)
    BY <1>0, <2>3, <2>4
  <2>6. base \in Bases
    BY PrefixIsBase
  <2>7. DigitRun(first, last, base)
    BY <2>4, <2>5, <2>6 DEF DigitRun, s
  <2> QED
    BY <2>1, <2>2, <2>3, <2>5, <2>7 DEF first, last
<1> QED
  BY <1>1, <1>2

\* What was read up to k, against what it means.
Agrees(v, m) == /\ v \in Values /\ m \in Nat
                /\ v.overflow => m > WordMax
                /\ ~ v.overflow => m = v.value /\ m <= WordMax

LEMMA WordHasMax ==
  WordMax \in Nat
<1>1. IntBits.word \in Bits
  BY IntBitsAssumption DEF Bits
<1> QED
  BY <1>1, PowersGrow DEF WordMax

\* The overflow and the value of scan_integer are those of what the digits mean.
LEMMA ValueMeans ==
  ASSUME text \in Seq(Byte), NEW p \in 0 .. Len(text) - 1, B(p) \in Digits
  PROVE  Agrees(ValueOf(p), Meaning(p, RunOf(p)))
<1> DEFINE base == Prefix(p)
           first == FirstOf(p)
           last == RunOf(p)
           V == ValueFrom(first, last, base)
           M == MeaningFrom(p, last)
           I == first .. last
           mu == [k \in I |-> k - first]
           S == {k \in I : Agrees(V[k], M[k - p])}
<1>0. /\ first \in {p, p + 2} /\ first \in Nat /\ last \in Nat /\ first <= last /\ p <= last /\ p \in Nat
      /\ first - p \in Nat /\ DigitRun(first, last, base) /\ base \in Bases
  BY RunOfDigits, PrefixIsBase
<1>1. first = p + 2 => B(p) = 48 /\ B(p + 1) \notin BaseDigits(base)
  BY RunOfDigits
<1> HIDE DEF base, first, last
<1>2. /\ Value(first, last, base) = V[last]
      /\ \A k \in I : V[k] = ValueAt(V, first, base, k) /\ V[k] \in Values
  BY <1>0, ValueUnfolds
<1>3. /\ Meaning(p, last) = M[last - p]
      /\ \A k \in 0 .. last - p : M[k] = MeaningAt(M, p, k) /\ M[k] \in Nat
  BY <1>0, MeaningUnfolds
<1> HIDE DEF V, M
<1>4. M[first - p] = 0
  <2>1. 0 \in 0 .. last - p
    BY <1>0
  <2>2. M[0] = 0
    BY <1>3, <2>1 DEF MeaningAt
  <2>3. CASE first = p
    BY <1>0, <2>2, <2>3
  <2>4. CASE first = p + 2
    <3>1. 1 \in 0 .. last - p /\ 2 \in 0 .. last - p /\ first - p = 2
      BY <1>0, <2>4
    <3>2. text[p + 1] = 48 /\ text[p + 2] \notin BaseDigits(base)
      BY <1>0, <1>1, <2>4 DEF B
    <3>3. M[1] = MeaningAt(M, p, 1) /\ M[2] = MeaningAt(M, p, 2)
      BY <1>3, <3>1
    <3>4. HexValue(48) = 0
      BY DEF HexValue, Digits
    <3>5. M[1] = 0
      BY <1>0, <2>2, <3>2, <3>3, <3>4 DEF MeaningAt, base, Bases
    <3> QED
      BY <3>1, <3>2, <3>3, <3>5 DEF MeaningAt, base
  <2> QED
    BY <1>0, <2>3, <2>4
<1>5. ASSUME NEW k \in I, \A j \in I : mu[j] < mu[k] => j \in S PROVE k \in S
  <2>1. k - p \in 0 .. last - p /\ k \in Nat
    BY <1>0
  <2>2. /\ V[k] = ValueAt(V, first, base, k) /\ V[k] \in Values
        /\ M[k - p] = MeaningAt(M, p, k - p) /\ M[k - p] \in Nat
    BY <1>2, <1>3, <2>1
  <2>3. CASE k = first
    <3>1. V[k] = [value |-> 0, overflow |-> FALSE] /\ M[k - p] = 0
      BY <1>4, <2>2, <2>3 DEF ValueAt
    <3> QED
      BY <2>2, <3>1, WordHasMax DEF Agrees
  <2>4. CASE k # first
    <3>1. k - 1 \in I /\ mu[k - 1] < mu[k] /\ k - p # 0 /\ (k - p) - 1 = (k - 1) - p /\ p + (k - p) = k
          /\ (k - 1) + 1 = k
      BY <1>0, <2>4
    <3>2. Agrees(V[k - 1], M[(k - 1) - p])
      BY <1>5, <3>1
    <3> DEFINE b == B(k - 1)
               h == HexValue(b)
    <3>3. PICK v \in Values : v = V[k - 1]
      BY <3>2 DEF Agrees
    <3>4. PICK m \in Nat : m = M[(k - 1) - p]
      BY <3>2 DEF Agrees
    <3>5. Agrees(v, m)
      BY <3>2, <3>3, <3>4
    <3>6. b = text[k] /\ b \in BaseDigits(base) \cup {Underscore}
      <4>1. b = text[k]
        BY <3>1 DEF B
      <4>2. k - 1 \in first .. last - 1
        BY <1>0, <2>1, <3>1
      <4>3. B(k - 1) \in BaseDigits(base) \cup {Underscore}
        BY <1>0, <4>2 DEF DigitRun
      <4> QED
        BY <4>1, <4>3
    <3>7. M[k - p] = IF text[k] \in BaseDigits(base) THEN m * base + HexValue(text[k]) ELSE m
      BY <2>2, <3>1, <3>4 DEF MeaningAt, base
    <3>8. V[k] = IF v.overflow \/ b = Underscore THEN v
                 ELSE IF v.value > (WordMax - h) \div base THEN [v EXCEPT !.overflow = TRUE]
                 ELSE [value |-> v.value * base + h, overflow |-> FALSE]
      BY <2>2, <2>4, <3>3 DEF ValueAt
    <3> HIDE DEF b, h
    <3>9. CASE b = Underscore
      <4>1. b \notin BaseDigits(base)
        BY <1>0, <3>9, DigitBelowBase
      <4> QED
        BY <3>5, <3>6, <3>7, <3>8, <3>9, <4>1
    <3>10. CASE b # Underscore
      <4>1. b \in BaseDigits(base) /\ h \in 0 .. base - 1
        BY <1>0, <3>6, <3>10, DigitBelowBase DEF h
      <4> DEFINE n == m * base + h
      <4>2. M[k - p] = n /\ n \in Nat
        BY <2>2, <3>6, <3>7, <4>1 DEF h
      <4>3. /\ m > WordMax => n > WordMax
            /\ m > (WordMax - h) \div base <=> n > WordMax
        BY <1>0, <4>1, WordHasMax, OverflowExact
      <4>4. CASE v.overflow
        BY <3>5, <3>8, <4>2, <4>3, <4>4 DEF Agrees
      <4>5. CASE ~ v.overflow
        <5>1. m = v.value
          BY <3>5, <4>5 DEF Agrees
        <5>2. V[k] = IF n > WordMax THEN [v EXCEPT !.overflow = TRUE] ELSE [value |-> n, overflow |-> FALSE]
          BY <3>8, <3>10, <4>3, <4>5, <5>1
        <5> HIDE DEF n
        <5>3. n > WordMax => [v EXCEPT !.overflow = TRUE].overflow
          BY DEF Values
        <5>4. ~ (n > WordMax) => n <= WordMax
          BY <4>2, WordHasMax
        <5>5. [value |-> n, overflow |-> FALSE] \in Values
          BY <4>2 DEF Values
        <5>6. CASE n > WordMax
          BY <2>2, <4>2, <5>2, <5>3, <5>6 DEF Agrees
        <5>7. CASE ~ (n > WordMax)
          <6>1. V[k] = [value |-> n, overflow |-> FALSE]
            BY <5>2, <5>7
          <6> QED
            BY <4>2, <5>4, <5>5, <5>7, <6>1 DEF Agrees
        <5> QED
          BY <5>6, <5>7
      <4> QED
        BY <4>4, <4>5
    <3> QED
      BY <3>9, <3>10
  <2>5. Agrees(V[k], M[k - p])
    BY <2>3, <2>4
  <2> QED
    BY <2>5
<1>6. mu \in [I -> Nat] /\ last \in I
  BY <1>0
<1> HIDE DEF mu, S, I
<1>7. \A k \in I : k \in S
  BY <1>5, <1>6, Below
<1>8. Agrees(V[last], M[last - p])
  BY <1>6, <1>7 DEF S
<1> QED
  BY <1>2, <1>3, <1>8 DEF ValueOf, first, last, base

LeastType(v) == IF v <= PowerOf2[IntBits.i32 - 1] - 1 THEN "i32"
                ELSE IF v <= PowerOf2[IntBits.word - 1] - 1 THEN "i64" ELSE "u64"
TypeOf(p)    == IF Plain(p) THEN LeastType(ValueOf(p).value) ELSE NamedOf(p)
IntEnd(p)    == RunOf(p) + (IF Plain(p) THEN 0 ELSE Len(kSuffixes[TypeOf(p)]))
FitsAt(p, unary_minus) ==
  /\ ~ ValueOf(p).overflow
  /\ ~ Plain(p) => Fits(TypeOf(p), ValueOf(p).value, unary_minus)
MinAt(p, unary_minus) ==
  /\ ~ Plain(p) /\ TypeOf(p) \in Signed /\ unary_minus
  /\ ValueOf(p).value = PowerOf2[Width(TypeOf(p)) - 1]

\* What scan_integer found wrong, or its token.
LEMMA IntegerIs ==
  ASSUME NEW p, NEW unary_minus
  PROVE  \/ scan_integer(p, unary_minus) = Nothing(RunOf(p), <<Finding("AIC-L0001", p, RunOf(p))>>)
         \/ scan_integer(p, unary_minus) = Nothing(IntEnd(p), <<Finding("AIC-L0005", p, IntEnd(p))>>)
         \/ /\ ~ FitsAt(p, unary_minus)
            /\ scan_integer(p, unary_minus) = Nothing(IntEnd(p), <<Finding("AIC-L0006", p, IntEnd(p))>>)
         \/ /\ FitsAt(p, unary_minus)
            /\ scan_integer(p, unary_minus)
                 = Token(IntEnd(p), IntToken(TypeOf(p), ValueOf(p).value, MinAt(p, unary_minus), p, IntEnd(p)))
BY ZenonT(30) DEF scan_integer, RunOf, FirstOf, IntEnd, FitsAt, TypeOf, LeastType, Plain, NamedOf, ValueOf, MinAt

IntNames == {"i8", "i16", "i32", "i64", "isize", "u8", "u16", "u32", "u64", "usize"}

\* The table of the code is that of the specification.
LEMMA TypeRows ==
  /\ DOMAIN kSuffixes = IntNames /\ DOMAIN IntTypes = IntNames
  /\ \A t \in IntNames : /\ IntTypes[t].name = kSuffixes[t] /\ IntTypes[t].bits = Width(t)
                         /\ IntTypes[t].sign <=> t \in Signed
                         /\ t \in Unsigned <=> t \notin Signed
<1>1. DOMAIN kSuffixes = IntNames /\ DOMAIN IntTypes = IntNames
  BY DEF kSuffixes, IntTypes, IntNames
<1>2. \A t \in IntNames : IntTypes[t].name = kSuffixes[t]
  BY SMTT(40) DEF kSuffixes, IntTypes, IntNames
<1>3. \A t \in IntNames : IntTypes[t].bits = Width(t)
  BY DEF Width, IntTypes, IntNames
<1>4. \A t \in IntNames : IntTypes[t].sign <=> t \in Signed
  BY DEF Signed, IntTypes, IntNames
<1>5. \A t \in IntNames : t \in Unsigned <=> t \notin Signed
  BY DEF Signed, Unsigned, IntNames
<1> QED
  BY <1>1, <1>2, <1>3, <1>4, <1>5

\* A name begins with an i or a u.
LEMMA NamesBegin ==
  \A t \in IntNames : /\ Len(kSuffixes[t]) \in 2 .. 5 /\ 1 \in DOMAIN kSuffixes[t]
                      /\ kSuffixes[t][1] \in {105, 117}
BY DEF kSuffixes, IntNames

LEMMA WidthsFit ==
  \A t \in IntNames : Width(t) \in Bits /\ Width(t) - 1 \in Bits
<1>1. \A w \in {IntBits.i8, IntBits.i16, IntBits.i32, IntBits.word} : w \in Bits /\ w - 1 \in Bits
  BY IntBitsAssumption DEF Bits
<1> QED
  BY <1>1 DEF Width, IntNames

\* What the types hold.
LEMMA Ranges ==
  \A t \in IntNames :
    /\ t \in Signed => /\ Highest(t) = PowerOf2[Width(t) - 1] - 1
                       /\ Lowest(t) = 0 - PowerOf2[Width(t) - 1]
    /\ t \notin Signed => Highest(t) = PowerOf2[Width(t)] - 1
<1> TAKE t \in IntNames
<1>1. Width(t) - 0 = Width(t)
  BY WidthsFit DEF Bits
<1> QED
  BY <1>1, TypeRows DEF Highest, Lowest

LEMMA RangesFit ==
  \A t \in IntNames : /\ PowerOf2[Width(t) - 1] \in Nat /\ PowerOf2[Width(t)] \in Nat
                      /\ PowerOf2[Width(t) - 1] - 1 <= WordMax /\ PowerOf2[Width(t)] - 1 <= WordMax
<1> TAKE t \in IntNames
<1> DEFINE a == PowerOf2[Width(t) - 1]
           b == PowerOf2[Width(t)]
           c == PowerOf2[IntBits.word]
<1>1. /\ IntBits.word \in Bits /\ \A w \in Bits : w <= IntBits.word
  BY IntBitsAssumption DEF Bits
<1>2. a \in Nat /\ b \in Nat /\ c \in Nat /\ a <= c /\ b <= c
  BY <1>1, WidthsFit, PowersGrow
<1>3. WordMax = c - 1
  BY DEF WordMax
<1> HIDE DEF a, b, c
<1>4. a - 1 <= WordMax /\ b - 1 <= WordMax
  BY <1>2, <1>3
<1> QED
  BY <1>2, <1>4 DEF a, b

\* The name behind the digits is in the text.
LEMMA SuffixThere ==
  ASSUME NEW p
  PROVE  ~ Plain(p) => /\ TypeOf(p) \in IntNames /\ Spells(RunOf(p), kSuffixes[TypeOf(p)])
                       /\ RunOf(p) + Len(kSuffixes[TypeOf(p)]) <= Len(text)
<1> SUFFICES ASSUME ~ Plain(p)
             PROVE  /\ TypeOf(p) \in IntNames /\ Spells(RunOf(p), kSuffixes[TypeOf(p)])
                    /\ RunOf(p) + Len(kSuffixes[TypeOf(p)]) <= Len(text)
  OBVIOUS
<1>1. TypeOf(p) \in SuffixAt(RunOf(p))
  BY Zenon DEF TypeOf, NamedOf, Plain
<1>2. TypeOf(p) \in DOMAIN kSuffixes /\ Spells(RunOf(p), kSuffixes[TypeOf(p)])
  BY <1>1, Zenon DEF SuffixAt
<1> QED
  BY <1>2, TypeRows, Zenon DEF Spells

\* Where the digits of an integer end can be told from its text.
LEMMA DigitsEndThere ==
  ASSUME text \in Seq(Byte), NEW p \in 0 .. Len(text) - 1, B(p) \in Digits
  PROVE  /\ DigitsEnd(p, IntEnd(p)) = RunOf(p)
         /\ Plain(p) <=> RunOf(p) = IntEnd(p)
         /\ ~ Plain(p) => TypeOf(p) \in Named(RunOf(p), IntEnd(p))
<1> DEFINE last == RunOf(p)
           first == FirstOf(p)
           base == Prefix(p)
           end == IntEnd(p)
           P == {k \in p .. end : k = end \/ B(k) \in {105, 117}}
<1>1. /\ p \in Nat /\ first \in {p, p + 2} /\ last \in Nat /\ p < last /\ first <= last
      /\ DigitRun(first, last, base)
      /\ first = p + 2 => B(p) = 48 /\ B(p + 1) \in {120, 88, 98, 66, 111, 79}
  BY RunOfDigits
<1>2. Plain(p) => end = last
  BY <1>1 DEF IntEnd
<1>3. ~ Plain(p) => /\ end = last + Len(kSuffixes[TypeOf(p)]) /\ end \in Nat /\ last < end
                    /\ B(last) \in {105, 117}
  <2> SUFFICES ASSUME ~ Plain(p)
               PROVE  /\ end = last + Len(kSuffixes[TypeOf(p)]) /\ end \in Nat /\ last < end
                      /\ B(last) \in {105, 117}
    OBVIOUS
  <2>1. end = last + Len(kSuffixes[TypeOf(p)])
    BY DEF IntEnd
  <2>2. /\ Len(kSuffixes[TypeOf(p)]) \in 2 .. 5 /\ 1 \in DOMAIN kSuffixes[TypeOf(p)]
        /\ kSuffixes[TypeOf(p)][1] \in {105, 117}
    BY SuffixThere, NamesBegin
  <2>3. text[last + 1] = kSuffixes[TypeOf(p)][1]
    BY <2>2, SuffixThere DEF Spells
  <2> HIDE DEF last, end
  <2>4. end \in Nat /\ last < end
    BY <1>1, <2>1, <2>2
  <2> QED
    BY <2>1, <2>2, <2>3, <2>4 DEF B
<1>4. last \in P
  <2> HIDE DEF last, end
  <2> QED
    BY <1>1, <1>2, <1>3
<1>5. ASSUME NEW k \in p .. last - 1 PROVE B(k) \notin {105, 117}
  <2>1. CASE k >= first
    <3>1. k \in first .. last - 1
      BY <1>1, <1>5, <2>1
    <3>2. B(k) \in BaseDigits(base) \cup {Underscore}
      BY <1>1, <3>1 DEF DigitRun
    <3>3. 105 \notin BaseDigits(base) /\ 117 \notin BaseDigits(base)
      BY PrefixIsBase DEF base, Bases, BaseDigits, HexDigits, Digits
    <3> QED
      BY <3>2, <3>3 DEF Underscore
  <2>2. CASE ~ (k >= first)
    <3>1. first = p + 2 /\ k \in {p, p + 1}
      BY <1>1, <1>5, <2>2
    <3> QED
      BY <1>1, <3>1
  <2> QED
    BY <2>1, <2>2
<1>6. P \in SUBSET Nat /\ \A k \in P : last <= k
  <2> HIDE DEF last, end
  <2>1. \A k \in p .. end : k \in Nat /\ (last <= k \/ k \in p .. last - 1) /\ last <= end
    BY <1>1, <1>2, <1>3
  <2> QED
    BY <1>1, <1>5, <2>1
<1>7. DigitsEnd(p, end) = last
  <2>1. DigitsEnd(p, end) = Min(P)
    BY DEF DigitsEnd
  <2> HIDE DEF P, last, end
  <2>2. Min(P) \in P /\ Min(P) <= last
    BY <1>4, <1>6, Least
  <2>3. Min(P) \in Nat /\ last <= Min(P)
    BY <1>6, <2>2
  <2> QED
    BY <1>1, <2>1, <2>2, <2>3
<1>8. Plain(p) <=> last = end
  <2> HIDE DEF last, end
  <2> QED
    BY <1>1, <1>2, <1>3
<1>9. ~ Plain(p) => TypeOf(p) \in Named(last, end)
  <2> SUFFICES ASSUME ~ Plain(p) PROVE TypeOf(p) \in Named(last, end)
    OBVIOUS
  <2>1. /\ TypeOf(p) \in DOMAIN IntTypes /\ IntTypes[TypeOf(p)].name = kSuffixes[TypeOf(p)]
        /\ Spells(last, kSuffixes[TypeOf(p)])
    BY SuffixThere, TypeRows
  <2> QED
    BY <1>3, <2>1, Zenon DEF Named
<1> QED
  BY <1>7, <1>8, <1>9

\* An integer token is worth its digits, and its type holds that.
IntTrue(t) ==
  LET digits == DigitsEnd(t.start, t.end)
  IN /\ t.value = Meaning(t.start, digits)
     /\ IF t.is_min THEN 0 - t.value = Lowest(t.type) ELSE t.value <= Highest(t.type)
     /\ digits # t.end => t.type \in Named(digits, t.end)
     /\ digits = t.end => /\ t.type \in {"i32", "i64", "u64"}
                          /\ t.type = "i64" => t.value > Highest("i32")
                          /\ t.type = "u64" => t.value > Highest("i64")

\* A literal that was rejected for its size fits in none of its types.
SizeTrue(r) ==
  LET digits == DigitsEnd(r.start, r.end)
      m == Meaning(r.start, digits)
  IN IF digits = r.end THEN m > WordMax ELSE \E t \in Named(digits, r.end) : m > Highest(t)

\* scan_integer tells the truth.
LEMMA IntegerTrue ==
  ASSUME text \in Seq(Byte), NEW p \in 0 .. Len(text) - 1, B(p) \in Digits, NEW unary_minus
  PROVE  /\ FitsAt(p, unary_minus) =>
              IntTrue(IntToken(TypeOf(p), ValueOf(p).value, MinAt(p, unary_minus), p, IntEnd(p)))
         /\ ~ FitsAt(p, unary_minus) => SizeTrue(Finding("AIC-L0006", p, IntEnd(p)))
<1> DEFINE last == RunOf(p)
           end == IntEnd(p)
           x == ValueOf(p).value
           over == ValueOf(p).overflow
           m == Meaning(p, last)
           type == TypeOf(p)
           is_min == MinAt(p, unary_minus)
           none == Plain(p)
           a == PowerOf2[Width(type) - 1]
           b == PowerOf2[Width(type)]
           c == PowerOf2[IntBits.i32 - 1]
           d == PowerOf2[IntBits.word - 1]
<1>1. /\ DigitsEnd(p, end) = last /\ (none <=> last = end)
      /\ ~ none => type \in Named(last, end)
  BY DigitsEndThere
<1>2. /\ x \in Nat /\ m \in Nat /\ (over => m > WordMax)
      /\ ~ over => m = x /\ m <= WordMax
  BY ValueMeans DEF Agrees, Values
<1>3. none => type = IF x <= c - 1 THEN "i32" ELSE IF x <= d - 1 THEN "i64" ELSE "u64"
  BY DEF TypeOf, LeastType
<1>4. type \in IntNames
  <2>1. {"i32", "i64", "u64"} \subseteq IntNames
    BY DEF IntNames
  <2> QED
    BY <1>3, <2>1, SuffixThere
<1>5. /\ a \in Nat /\ b \in Nat /\ WordMax \in Nat /\ a - 1 <= WordMax /\ b - 1 <= WordMax
  BY <1>4, RangesFit, WordHasMax
<1>6. /\ type \in Signed => Highest(type) = a - 1 /\ Lowest(type) = 0 - a
      /\ type \notin Signed => Highest(type) = b - 1
  BY <1>4, Ranges
<1>7. c \in Nat /\ d \in Nat /\ Highest("i32") = c - 1 /\ Highest("i64") = d - 1 /\ Highest("u64") = WordMax
  <2>1. /\ Width("i32") = IntBits.i32 /\ Width("i64") = IntBits.word /\ Width("u64") = IntBits.word
        /\ {"i32", "i64", "u64"} \subseteq IntNames
        /\ "i32" \in Signed /\ "i64" \in Signed /\ "u64" \notin Signed
    BY DEF Width, IntNames, Signed
  <2> QED
    BY <2>1, Ranges, RangesFit DEF WordMax
<1>8. Fits(type, x, unary_minus) <=>
        IF type \in Signed THEN x <= a - (IF unary_minus THEN 0 ELSE 1) ELSE x <= b - 1
  BY <1>4, TypeRows DEF Fits
<1>9. FitsAt(p, unary_minus) <=> ~ over /\ (~ none => Fits(type, x, unary_minus))
  BY DEF FitsAt
<1>10. is_min <=> ~ none /\ type \in Signed /\ unary_minus /\ x = a
  BY DEF MinAt
<1>11. IntTrue(IntToken(type, x, is_min, p, end))
         <=> /\ x = m
             /\ IF is_min THEN 0 - x = Lowest(type) ELSE x <= Highest(type)
             /\ none => /\ type \in {"i32", "i64", "u64"}
                        /\ type = "i64" => x > Highest("i32")
                        /\ type = "u64" => x > Highest("i64")
  <2> HIDE DEF x, is_min, type, end, last, none
  <2> DEFINE t == IntToken(type, x, is_min, p, end)
  <2>1. t.type = type /\ t.value = x /\ t.is_min = is_min /\ t.start = p /\ t.end = end
    BY DEF IntToken
  <2> HIDE DEF t
  <2>2. DigitsEnd(t.start, t.end) = last /\ Meaning(t.start, last) = m /\ (last = t.end <=> none)
    BY <1>1, <2>1 DEF m
  <2> HIDE DEF m
  <2>3. IntTrue(t)
          <=> /\ x = m
              /\ IF is_min THEN 0 - x = Lowest(type) ELSE x <= Highest(type)
              /\ none => /\ type \in {"i32", "i64", "u64"}
                         /\ type = "i64" => x > Highest("i32")
                         /\ type = "u64" => x > Highest("i64")
    BY <1>1, <2>1, <2>2 DEF IntTrue
  <2> QED
    BY <2>3 DEF t
<1>12. SizeTrue(Finding("AIC-L0006", p, end))
         <=> IF none THEN m > WordMax ELSE \E t \in Named(last, end) : m > Highest(t)
  <2> HIDE DEF end, last, none
  <2>1. Finding("AIC-L0006", p, end).start = p /\ Finding("AIC-L0006", p, end).end = end
    BY DEF Finding
  <2> QED
    BY <1>1, <2>1 DEF SizeTrue, m
<1> HIDE DEF last, end, x, over, m, type, is_min, none, a, b, c, d
<1>13. ASSUME FitsAt(p, unary_minus) PROVE IntTrue(IntToken(type, x, is_min, p, end))
  <2>1. x = m /\ ~ over /\ x <= WordMax
    BY <1>2, <1>9, <1>13
  <2>2. CASE none
    <3>1. ~ is_min
      BY <1>10, <2>2
    <3>2. CASE x <= c - 1
      BY <1>3, <1>7, <1>11, <2>1, <2>2, <3>1, <3>2
    <3>3. CASE ~ (x <= c - 1) /\ x <= d - 1
      <4>1. x > c - 1
        BY <1>2, <1>7, <3>3
      <4> QED
        BY <1>3, <1>7, <1>11, <2>1, <2>2, <3>1, <3>3, <4>1
    <3>4. CASE ~ (x <= c - 1) /\ ~ (x <= d - 1)
      <4>1. x > d - 1
        BY <1>2, <1>7, <3>4
      <4> QED
        BY <1>3, <1>7, <1>11, <2>1, <2>2, <3>1, <3>4, <4>1
    <3> QED
      BY <3>2, <3>3, <3>4
  <2>3. CASE ~ none /\ type \in Signed
    <3>1. x <= a - (IF unary_minus THEN 0 ELSE 1)
      BY <1>8, <1>9, <1>13, <2>3
    <3>2. is_min => 0 - x = Lowest(type)
      BY <1>6, <1>10, <2>3
    <3>3. ~ is_min => x <= a - 1
      <4>1. CASE unary_minus
        <5>1. x <= a /\ (~ is_min => x # a)
          BY <1>5, <1>10, <2>3, <3>1, <4>1
        <5> QED
          BY <1>2, <1>5, <5>1
      <4>2. CASE ~ unary_minus
        BY <3>1, <4>2
      <4> QED
        BY <4>1, <4>2
    <3> QED
      BY <1>6, <1>11, <2>1, <2>3, <3>2, <3>3
  <2>4. CASE ~ none /\ type \notin Signed
    <3>1. x <= b - 1 /\ ~ is_min
      BY <1>8, <1>9, <1>10, <1>13, <2>4
    <3> QED
      BY <1>6, <1>11, <2>1, <2>4, <3>1
  <2> QED
    BY <2>2, <2>3, <2>4
<1>14. ASSUME ~ FitsAt(p, unary_minus) PROVE SizeTrue(Finding("AIC-L0006", p, end))
  <2>1. CASE none
    BY <1>2, <1>9, <1>12, <1>14, <2>1
  <2>2. CASE ~ none
    <3>1. CASE over
      <4>1. m > Highest(type)
        BY <1>2, <1>5, <1>6, <3>1
      <4> QED
        BY <1>1, <1>12, <2>2, <4>1
    <3>2. CASE ~ over
      <4>1. m = x /\ ~ Fits(type, x, unary_minus)
        BY <1>2, <1>9, <1>14, <2>2, <3>2
      <4>2. CASE type \in Signed
        <5>1. ~ (x <= a - (IF unary_minus THEN 0 ELSE 1))
          BY <1>8, <4>1, <4>2
        <5>2. m > a - 1
          BY <1>2, <1>5, <4>1, <5>1
        <5> QED
          BY <1>1, <1>6, <1>12, <2>2, <4>2, <5>2
      <4>3. CASE type \notin Signed
        <5>1. m > b - 1
          BY <1>2, <1>5, <1>8, <4>1, <4>3
        <5> QED
          BY <1>1, <1>6, <1>12, <2>2, <4>3, <5>1
      <4> QED
        BY <4>2, <4>3
    <3> QED
      BY <3>1, <3>2
  <2> QED
    BY <2>1, <2>2
<1> QED
  BY <1>13, <1>14 DEF last, end, x, type, is_min

-----------------------------------------------------------------------------
(* What is read at a position                                              *)

\* Of the spellings that are there the token has the longest.
LongestOf(t) ==
  t.kind = "punct" =>
    \A p \in DOMAIN Puncts : Matches(t.start, p) => Len(Puncts[p]) <= t.end - t.start

\* A token of the text from p up to e.
TokenAt(t, p, e) ==
  /\ {"kind", "start", "end"} \subseteq DOMAIN t
  /\ t.start = p /\ t.end = e /\ t.kind # "eof"
  /\ LongestOf(t)

\* A scan function used up a byte at least, and for what it used up it answers a
\* token or a finding.
Reads(r, p) ==
  /\ r.end \in p + 1 .. Len(text) /\ r.found \in Seq(LexFindings)
  /\ \/ r.token = <<>> /\ FoundIn(r.found, p, r.end)
     \/ \E t : r.token = <<t>> /\ TokenAt(t, p, r.end)

\* Nothing but findings.
LEMMA NothingReads ==
  ASSUME NEW p, NEW e \in p + 1 .. Len(text), NEW found \in Seq(LexFindings), FoundIn(found, p, e)
  PROVE  Reads(Nothing(e, found), p)
BY DEF Reads, Nothing

\* A token alone.
LEMMA TokenReads ==
  ASSUME NEW p, NEW e \in p + 1 .. Len(text), NEW t, TokenAt(t, p, e)
  PROVE  Reads(Token(e, t), p)
<1>1. <<>> \in Seq(LexFindings)
  OBVIOUS
<1> QED
  BY <1>1 DEF Reads, Token

\* One finding of the lexer.
LEMMA FindingReads ==
  ASSUME NEW p \in Nat, NEW e \in p + 1 .. Len(text), Len(text) \in Nat, NEW c \in LexCodes
  PROVE  <<Finding(c, p, e)>> \in Seq(LexFindings) /\ FoundIn(<<Finding(c, p, e)>>, p, e)
<1>1. Finding(c, p, e) \in LexFindings /\ Finding(c, p, e).start = p
  BY DEF Finding, LexFindings
<1>2. p \in p .. e - 1
  OBVIOUS
<1> QED
  BY <1>1, <1>2 DEF FoundIn

LEMMA ScanStringIs ==
  ASSUME NEW q
  PROVE  LET first == scan_string_one(q)
             rest  == More[first.end]
             bytes == first.bytes \o rest.bytes
         IN scan_string(q) =
              IF ~ Good(first) THEN Nothing(first.end, first.found)
              ELSE IF ~ rest.good THEN Nothing(rest.end, rest.found)
              ELSE IF utf8_valid(bytes)
                THEN [end |-> rest.end, found |-> rest.found,
                      token |-> <<StrToken(bytes, q, rest.end)>>]
              ELSE Nothing(rest.end, rest.found \o <<Finding("AIC-L0009", q, rest.end)>>)
BY DEF scan_string, More, MoreAt, Quoted, NextOf, Before

\* scan_string answers a token, or a finding.
LEMMA StringReads ==
  ASSUME text \in Seq(Byte), NEW q \in 0 .. Len(text) - 1
  PROVE  Reads(scan_string(q), q)
<1> DEFINE first == scan_string_one(q)
           rest == More[first.end]
           bytes == first.bytes \o rest.bytes
<1>0. q \in Nat /\ Len(text) \in Nat
  OBVIOUS
<1>1. PICK e \in q + 1 .. Len(text) : e = first.end
  BY StringTold DEF StringTells
<1>2. first.found \in Seq(LexFindings) /\ (Good(first) \/ FoundIn(first.found, q, e))
  <2>1. first \in Strings /\ (Good(first) \/ FoundIn(first.found, q, e))
    BY <1>1, StringTold DEF StringTells
  <2> HIDE DEF first
  <2>2. first.found \in Seq(StringNote)
    BY <2>1 DEF Strings
  <2> QED
    BY <2>1, <2>2, NotesAreFindings
<1>3. e \in 0 .. Len(text)
  BY <1>0
<1>4. rest \in Joined_ /\ rest.end \in e .. Len(text) /\ (rest.good \/ FoundIn(rest.found, e, rest.end))
  BY <1>1, <1>3, MoreUnfolds, MoreTold DEF MoreTells
<1> HIDE DEF first, rest
<1>5. PICK l \in q + 1 .. Len(text) : l = rest.end /\ (rest.good \/ FoundIn(rest.found, q, l))
  <2>1. PICK l \in e .. Len(text) : l = rest.end /\ (rest.good \/ FoundIn(rest.found, e, l))
    BY <1>4
  <2>2. l \in q + 1 .. Len(text) /\ l \in Int /\ e \in Int /\ q <= e
    BY <1>0, <1>3
  <2>3. FoundIn(rest.found, e, l) => FoundIn(rest.found, q, l)
    BY <1>0, <2>2, FoundWidens
  <2> QED
    BY <2>1, <2>2, <2>3
<1>6. PICK f \in Seq(LexFindings) : f = rest.found
  BY <1>4, PlainAreFindings DEF Joined_
<1>7. scan_string(q) =
        IF ~ Good(first) THEN Nothing(e, first.found)
        ELSE IF ~ rest.good THEN Nothing(l, f)
        ELSE IF utf8_valid(bytes)
          THEN [end |-> l, found |-> f, token |-> <<StrToken(bytes, q, l)>>]
        ELSE Nothing(l, f \o <<Finding("AIC-L0009", q, l)>>)
  BY <1>1, <1>5, <1>6, ScanStringIs, Zenon DEF first, rest
<1> HIDE DEF bytes
<1>8. CASE ~ Good(first)
  <2>1. scan_string(q) = Nothing(e, first.found)
    BY <1>7, <1>8
  <2> QED
    BY <1>2, <1>8, <2>1, NothingReads
<1>9. CASE Good(first) /\ ~ rest.good
  <2>1. scan_string(q) = Nothing(l, f)
    BY <1>7, <1>9
  <2> QED
    BY <1>5, <1>6, <1>9, <2>1, NothingReads
<1>10. CASE Good(first) /\ rest.good /\ utf8_valid(bytes)
  <2> DEFINE t == StrToken(bytes, q, l)
  <2>1. scan_string(q) = [end |-> l, found |-> f, token |-> <<t>>]
    BY <1>7, <1>10
  <2>2. TokenAt(t, q, l)
    BY DEF StrToken, TokenAt, LongestOf
  <2> HIDE DEF t
  <2> QED
    BY <2>1, <2>2 DEF Reads
<1>11. CASE Good(first) /\ rest.good /\ ~ utf8_valid(bytes)
  <2> DEFINE here == <<Finding("AIC-L0009", q, l)>>
  <2>1. scan_string(q) = Nothing(l, f \o here)
    BY <1>7, <1>11
  <2>2. here \in Seq(LexFindings) /\ FoundIn(here, q, l)
    BY <1>0, FindingReads DEF LexCodes
  <2> HIDE DEF here
  <2>3. f \o here \in Seq(LexFindings) /\ FoundIn(f \o here, q, l)
    BY <2>2, FoundJoins, ConcatProperties
  <2> QED
    BY <2>1, <2>3, NothingReads
<1> QED
  BY <1>8, <1>9, <1>10, <1>11

\* scan_integer answers a token, or a finding.
LEMMA IntegerReads ==
  ASSUME text \in Seq(Byte), NEW p \in 0 .. Len(text) - 1, B(p) \in Digits, NEW unary_minus
  PROVE  Reads(scan_integer(p, unary_minus), p)
<1> DEFINE base == Prefix(p)
           first == p + (IF base = 10 THEN 0 ELSE 2)
           s == BaseDigits(base) \cup {Underscore}
           last == RunEnd(first, s)
           end == IntEnd(p)
<1>0. p \in Nat /\ Len(text) \in Nat
  OBVIOUS
<1>1. last \in p + 1 .. Len(text)
  <2>1. CASE base = 10
    <3>1. first = p /\ p \in 0 .. Len(text) /\ p < Len(text) /\ B(p) \in s
      BY <1>0, <2>1 DEF BaseDigits, Digits
    <3> HIDE DEF first, s
    <3> QED
      BY <3>1, RunEnds
  <2>2. CASE base # 10
    <3>1. p + 1 < Len(text)
      BY <2>2 DEF Prefix, Have
    <3>2. first \in 0 .. Len(text) /\ first = p + 2
      BY <1>0, <2>2, <3>1
    <3>3. last \in first .. Len(text)
      <4> HIDE DEF first, s
      <4> QED
        BY <3>2, RunEnds
    <3> HIDE DEF first, last
    <3> QED
      BY <1>0, <3>2, <3>3
  <2> QED
    BY <2>1, <2>2
<1> HIDE DEF last
<1>2. end \in p + 1 .. Len(text)
  <2>1. last = RunOf(p)
    BY DEF RunOf, FirstOf, last
  <2>2. CASE Plain(p)
    BY <1>1, <2>1, <2>2 DEF IntEnd
  <2>3. CASE ~ Plain(p)
    <3> DEFINE len == Len(kSuffixes[TypeOf(p)])
    <3>1. len \in 2 .. 5 /\ last + len <= Len(text)
      BY <2>1, <2>3, SuffixThere, NamesBegin
    <3>2. end = last + len
      BY <2>1, <2>3 DEF IntEnd
    <3> HIDE DEF len, end
    <3> QED
      BY <1>0, <1>1, <3>1, <3>2
  <2> QED
    BY <2>2, <2>3
<1>3. \/ scan_integer(p, unary_minus) = Nothing(last, <<Finding("AIC-L0001", p, last)>>)
      \/ \E c \in {"AIC-L0005", "AIC-L0006"} :
           scan_integer(p, unary_minus) = Nothing(end, <<Finding(c, p, end)>>)
      \/ \E type, v, is_min :
           scan_integer(p, unary_minus) = Token(end, IntToken(type, v, is_min, p, end))
  <2>1. last = RunOf(p)
    BY DEF RunOf, FirstOf, last
  <2>2. \/ scan_integer(p, unary_minus) = Nothing(RunOf(p), <<Finding("AIC-L0001", p, RunOf(p))>>)
        \/ scan_integer(p, unary_minus) = Nothing(end, <<Finding("AIC-L0005", p, end)>>)
        \/ scan_integer(p, unary_minus) = Nothing(end, <<Finding("AIC-L0006", p, end)>>)
        \/ scan_integer(p, unary_minus)
             = Token(end, IntToken(TypeOf(p), ValueOf(p).value, MinAt(p, unary_minus), p, end))
    BY IntegerIs, Zenon
  <2> HIDE DEF end
  <2> QED
    BY <2>1, <2>2, Zenon
<1>4. ASSUME NEW c \in LexCodes, NEW e \in p + 1 .. Len(text) PROVE Reads(Nothing(e, <<Finding(c, p, e)>>), p)
  BY <1>0, FindingReads, NothingReads
<1>5. {"AIC-L0001", "AIC-L0005", "AIC-L0006"} \subseteq LexCodes
  BY DEF LexCodes
<1>6. ASSUME NEW type, NEW v, NEW is_min
      PROVE  Reads(Token(end, IntToken(type, v, is_min, p, end)), p)
  <2> DEFINE t == IntToken(type, v, is_min, p, end)
  <2>1. TokenAt(t, p, end)
    BY DEF IntToken, TokenAt, LongestOf
  <2> HIDE DEF t
  <2>2. Reads(Token(end, t), p)
    BY <1>2, <2>1, TokenReads
  <2> QED
    BY <2>2 DEF t
<1> QED
  BY <1>1, <1>2, <1>3, <1>4, <1>5, <1>6

\* scan_punct answers the longest spelling that is there, or a finding.
LEMMA PunctReads ==
  ASSUME text \in Seq(Byte), NEW p \in 0 .. Len(text) - 1
  PROVE  Reads(scan_punct(p), p)
<1> DEFINE some == {k \in DOMAIN Puncts : Matches(p, k)}
           size == IF B(p) \in 194 .. 223 THEN 2 ELSE IF B(p) \in 224 .. 239 THEN 3
                   ELSE IF B(p) \in 240 .. 244 THEN 4 ELSE 1
           end == Min({p + size, Len(text)})
<1>0. p \in Nat /\ Len(text) \in Nat /\ p < Len(text) /\ some \in SUBSET Nat
  BY PunctsAssumption
<1>1. CASE some # {}
  <2> DEFINE k == Min(some)
             e == p + Len(Puncts[k])
             t == PunctToken(k, p, e)
  <2>1. k \in some /\ \A j \in some : k <= j
    <3> HIDE DEF some
    <3> QED
      BY <1>0, <1>1, Least
  <2>2. k \in DOMAIN Puncts /\ Matches(p, k)
    BY <2>1
  <2>3. scan_punct(p) = Token(e, t)
    BY <1>1 DEF scan_punct
  <2>4. \A j \in DOMAIN Puncts : Matches(p, j) =>
          Len(Puncts[j]) \in Nat /\ Len(Puncts[j]) <= Len(Puncts[k])
    <3> SUFFICES ASSUME NEW j \in DOMAIN Puncts, Matches(p, j)
                 PROVE  Len(Puncts[j]) \in Nat /\ Len(Puncts[j]) <= Len(Puncts[k])
      OBVIOUS
    <3>1. k <= j
      BY <2>1
    <3> HIDE DEF k
    <3> QED
      BY <1>0, <2>2, <3>1, FirstIsLongest
  <2>5. Len(Puncts[k]) \in Nat /\ 0 < Len(Puncts[k]) /\ e <= Len(text)
    <3>1. k <= k
      BY <1>0, <2>1
    <3> HIDE DEF k
    <3>2. Len(Puncts[k]) \in Nat /\ 0 < Len(Puncts[k])
      BY <1>0, <2>2, <3>1, FirstIsLongest
    <3> QED
      BY <2>2, <3>2 DEF Matches
  <2>6. e \in p + 1 .. Len(text) /\ e - p = Len(Puncts[k])
    <3> DEFINE n == Len(Puncts[k])
    <3>1. n \in Nat /\ 0 < n /\ p + n <= Len(text)
      BY <2>5
    <3> HIDE DEF n
    <3>2. p + n \in p + 1 .. Len(text) /\ (p + n) - p = n
      BY <1>0, <3>1
    <3> QED
      BY <3>2 DEF n
  <2> HIDE DEF k, e
  <2>7. {"kind", "start", "end"} \subseteq DOMAIN t /\ t.start = p /\ t.end = e /\ t.kind = "punct"
    BY DEF PunctToken
  <2> HIDE DEF t
  <2>8. TokenAt(t, p, e)
    BY <2>4, <2>6, <2>7 DEF TokenAt, LongestOf
  <2> QED
    BY <2>3, <2>6, <2>8, TokenReads
<1>2. CASE some = {}
  <2>1. scan_punct(p) = Nothing(end, <<Finding("AIC-L0001", p, end)>>)
    BY <1>2, Zenon DEF scan_punct
  <2>2. size \in 1 .. 4
    OBVIOUS
  <2> HIDE DEF size
  <2>3. {p + size, Len(text)} \in SUBSET Nat /\ Len(text) \in {p + size, Len(text)}
    BY <1>0, <2>2
  <2>4. end \in {p + size, Len(text)} /\ end <= Len(text)
    BY <2>3, Least
  <2>5. end \in p + 1 .. Len(text)
    <3> HIDE DEF end
    <3> QED
      BY <1>0, <2>2, <2>4
  <2> HIDE DEF end
  <2> QED
    BY <1>0, <2>1, <2>5, FindingReads, NothingReads DEF LexCodes
<1> QED
  BY <1>1, <1>2

-----------------------------------------------------------------------------
(* The invariant                                                           *)

IsSeq(s) == \E S : s \in Seq(S)

\* A record begins between a and b.
Covered(rs, a, b) == \E r \in Range(rs) : r.start \in a .. b - 1

\* What lies between two tokens is trivia, or reported.
Gap(rs, a, b) == a \in Nat /\ b \in Nat /\ a <= b /\ (Trivial(a, b) \/ Covered(rs, a, b))

EndBefore(ts, k) == IF k = 1 THEN 0 ELSE ts[k - 1].end
EndOf(ts)        == IF ts = <<>> THEN 0 ELSE ts[Len(ts)].end

\* A token in its place: it is what the text says, and so is what lies before it.
Placed(ts, rs, k) ==
  /\ {"kind", "start", "end"} \subseteq DOMAIN ts[k]
  /\ Gap(rs, EndBefore(ts, k), ts[k].start)
  /\ ts[k].end \in 0 .. Len(text)
  /\ ts[k].kind # "eof" => ts[k].start < ts[k].end
  /\ LongestOf(ts[k])
Chain(ts, rs) == \A k \in 1 .. Len(ts) : Placed(ts, rs, k)

\* The one EOF token is the last one, at the end of the text.
Complete(ts) == /\ ts # <<>> /\ ts[Len(ts)].kind = "eof" /\ ts[Len(ts)].end = Len(text)

LexTyped ==
  /\ text \in Seq(Byte) /\ pos \in 0 .. Len(text)
  /\ IsSeq(tokens) /\ lex_records \in Seq(LexFindings) /\ lex_oom \in BOOLEAN
  /\ lex_pc \in {"trivia", "token", "end", "done"}
  /\ lex_pc # "done" => lex_status = "none"

\* Before trivia is skipped what was read is a token, or reported.
BehindToken == EndOf(tokens) \in 0 .. pos /\ (EndOf(tokens) = pos \/ Covered(lex_records, EndOf(tokens), pos))

LexIInv ==
  /\ LexTyped
  /\ ~ lex_oom => Chain(tokens, lex_records)
  /\ ~ lex_oom /\ lex_pc = "trivia" => BehindToken
  /\ ~ lex_oom /\ lex_pc = "token"  => Gap(lex_records, EndOf(tokens), pos)
  /\ ~ lex_oom /\ lex_pc = "end"    => Complete(tokens)
  /\ lex_pc = "done" /\ lex_status # "LEX_OOM" => Chain(tokens, lex_records) /\ Complete(tokens)

\* An empty stretch is trivial.
LEMMA TrivialNothing ==
  ASSUME NEW p \in Nat
  PROVE  Trivial(p, p)
<1>1. /\ Trivial(p, p) = TrivialFrom(p, p)[p]
      /\ TrivialFrom(p, p)[p] = TrivialAt(TrivialFrom(p, p), p, p)
  BY TrivialUnfolds
<1> QED
  BY <1>1 DEF TrivialAt

\* A stretch with a record in it is part of a longer one.
LEMMA CoveredWidens ==
  ASSUME NEW rs, NEW a \in Int, NEW b \in Int, NEW c \in Int, NEW d \in Int,
         c <= a, b <= d, Covered(rs, a, b)
  PROVE  Covered(rs, c, d)
BY DEF Covered

\* Records that are added cover no less, and what was found covers its place.
LEMMA CoveredJoins ==
  ASSUME NEW rs \in Seq(LexFindings), NEW found \in Seq(LexFindings)
  PROVE  /\ rs \o found \in Seq(LexFindings)
         /\ \A a, b : Covered(rs, a, b) => Covered(rs \o found, a, b)
         /\ \A a, b : FoundIn(found, a, b) => Covered(rs \o found, a, b)
<1> DEFINE all == rs \o found
<1>1. all \in Seq(LexFindings)
  BY ConcatProperties
<1>2. \A a, b : Covered(rs, a, b) => FoundIn(rs, a, b)
  BY DEF Covered, FoundIn, Range
<1>3. \A a, b : FoundIn(all, a, b) => Covered(all, a, b)
  BY DEF Covered, FoundIn, Range
<1>4. \A a, b : FoundIn(rs, a, b) \/ FoundIn(found, a, b) => FoundIn(all, a, b)
  BY FoundJoins
<1> HIDE DEF all
<1> QED
  BY <1>1, <1>2, <1>3, <1>4 DEF all

\* So tokens stay in their places.
LEMMA ChainStays ==
  ASSUME NEW ts, NEW rs \in Seq(LexFindings), NEW found \in Seq(LexFindings), Chain(ts, rs)
  PROVE  Chain(ts, rs \o found)
<1> DEFINE all == rs \o found
<1>1. \A a, b : Gap(rs, a, b) => Gap(all, a, b)
  BY CoveredJoins DEF Gap
<1> HIDE DEF all
<1>2. \A k : Placed(ts, rs, k) => Placed(ts, all, k)
  BY <1>1 DEF Placed
<1> QED
  BY <1>2 DEF Chain, all

\* A token that is appended.
LEMMA Appended ==
  ASSUME NEW ts, IsSeq(ts), NEW t
  PROVE  LET us == Append(ts, t)
         IN /\ IsSeq(us) /\ us # <<>> /\ Len(ts) \in Nat /\ Len(us) = Len(ts) + 1
            /\ us[Len(ts) + 1] = t /\ \A k \in 1 .. Len(ts) : us[k] = ts[k]
            /\ EndOf(us) = t.end /\ EndBefore(us, Len(us)) = EndOf(ts)
            /\ \A k \in 1 .. Len(ts) : EndBefore(us, k) = EndBefore(ts, k)
<1> DEFINE us == Append(ts, t)
           n == Len(ts)
<1>1. PICK S : ts \in Seq(S)
  BY DEF IsSeq
<1>2. us \in Seq(S \cup {t})
  <2> DEFINE T == S \cup {t}
  <2>1. \A k \in 1 .. Len(ts) : ts[k] \in T
    BY <1>1
  <2>2. t \in T
    OBVIOUS
  <2> HIDE DEF T
  <2>3. ts \in Seq(T)
    BY <1>1, <2>1
  <2>4. us \in Seq(T)
    BY <2>2, <2>3
  <2> QED
    BY <2>4 DEF T
<1>3. /\ n \in Nat /\ Len(us) = n + 1 /\ us # <<>>
      /\ us[n + 1] = t /\ (\A k \in 1 .. n : us[k] = ts[k])
  BY <1>1
<1>4. IsSeq(us)
  BY <1>2 DEF IsSeq
<1>5. ts = <<>> <=> n = 0
  BY <1>1
<1> HIDE DEF us, n
<1>6. EndOf(us) = t.end
  BY <1>3 DEF EndOf
<1>7. EndBefore(us, n + 1) = EndOf(ts)
  BY <1>3, <1>5 DEF EndBefore, EndOf, n
<1>8. \A k \in 1 .. n : EndBefore(us, k) = EndBefore(ts, k)
  BY <1>3 DEF EndBefore
<1> QED
  BY <1>3, <1>4, <1>6, <1>7, <1>8 DEF us, n

\* The chain goes on with a token that follows.
LEMMA ChainGrows ==
  ASSUME NEW ts, IsSeq(ts), NEW rs, Chain(ts, rs), NEW t,
         {"kind", "start", "end"} \subseteq DOMAIN t, Gap(rs, EndOf(ts), t.start),
         t.end \in 0 .. Len(text), t.kind # "eof" => t.start < t.end, LongestOf(t)
  PROVE  Chain(Append(ts, t), rs)
<1> DEFINE us == Append(ts, t)
           n == Len(ts)
<1>1. /\ n \in Nat /\ Len(us) = n + 1 /\ us[n + 1] = t
      /\ \A k \in 1 .. n : us[k] = ts[k] /\ EndBefore(us, k) = EndBefore(ts, k)
      /\ EndBefore(us, n + 1) = EndOf(ts)
  BY Appended
<1> HIDE DEF us
<1>2. \A k \in 1 .. n : Placed(us, rs, k)
  BY <1>1 DEF Chain, Placed
<1>3. Placed(us, rs, n + 1)
  BY <1>1 DEF Placed
<1> HIDE DEF n
<1>4. \A k \in 1 .. n + 1 : k \in 1 .. n \/ k = n + 1
  BY <1>1
<1> QED
  BY <1>1, <1>2, <1>3, <1>4 DEF Chain, us

-----------------------------------------------------------------------------
(* The steps of lex_run                                                    *)

\* scan_emit appends the token, unless an allocation fails.
LEMMA Emitted ==
  ASSUME NEW t, {"kind", "start", "end"} \subseteq DOMAIN t, Emit(t), ~ lex_oom'
  PROVE  \E u : /\ tokens' = Append(tokens, u)
                /\ {"kind", "start", "end"} \subseteq DOMAIN u
                /\ u.kind = t.kind /\ u.start = t.start /\ u.end = t.end
<1>1. PICK span \in BOOLEAN : tokens' = Append(tokens, [t EXCEPT !.span = span])
  BY DEF Emit
<1> DEFINE u == [t EXCEPT !.span = span]
<1>2. /\ {"kind", "start", "end"} \subseteq DOMAIN u
      /\ u.kind = t.kind /\ u.start = t.start /\ u.end = t.end
  OBVIOUS
<1> HIDE DEF u
<1> QED
  BY <1>1, <1>2 DEF u

\* Otherwise the tokens are what they were.
LEMMA EmitIsSeq ==
  ASSUME IsSeq(tokens), NEW t, Emit(t)
  PROVE  IsSeq(tokens')
<1>1. \/ tokens' = tokens
      \/ \E u : tokens' = Append(tokens, u)
  BY DEF Emit
<1>2. ASSUME NEW u PROVE IsSeq(Append(tokens, u))
  BY Appended
<1> QED
  BY <1>1, <1>2

\* A token in its place is emitted.
LEMMA EmitPlaces ==
  ASSUME IsSeq(tokens), NEW rs, Chain(tokens, rs), NEW t, {"kind", "start", "end"} \subseteq DOMAIN t,
         Gap(rs, EndOf(tokens), t.start), t.end \in 0 .. Len(text),
         t.kind # "eof" => t.start < t.end, LongestOf(t), Emit(t), ~ lex_oom'
  PROVE  /\ Chain(tokens', rs) /\ EndOf(tokens') = t.end
         /\ tokens' # <<>> /\ tokens'[Len(tokens')].kind = t.kind
<1>1. PICK u : /\ tokens' = Append(tokens, u)
               /\ {"kind", "start", "end"} \subseteq DOMAIN u
               /\ u.kind = t.kind /\ u.start = t.start /\ u.end = t.end
  BY Emitted
<1>2. LongestOf(u)
  BY <1>1 DEF LongestOf
<1>3. Chain(Append(tokens, u), rs)
  BY <1>1, <1>2, ChainGrows
<1>4. EndOf(Append(tokens, u)) = u.end /\ Append(tokens, u) # <<>>
  BY Appended
<1>5. Append(tokens, u)[Len(Append(tokens, u))] = u
  <2>1. Len(Append(tokens, u)) = Len(tokens) + 1 /\ Append(tokens, u)[Len(tokens) + 1] = u
    BY Appended
  <2> QED
    BY <2>1, Zenon
<1> QED
  BY <1>1, <1>3, <1>4, <1>5

\* Findings are recorded, unless an allocation fails.
Recorded(found) == /\ lex_records' \in {lex_records, lex_records \o found} /\ lex_oom' \in BOOLEAN
                   /\ ~ lex_oom' => lex_records' = lex_records \o found

LEMMA NoteRecords ==
  ASSUME lex_oom \in BOOLEAN, NEW found, Note(found)
  PROVE  Recorded(found)
BY DEF Note, Recorded

\* The records stay findings, and so cover what they did.
LEMMA RecordsStay ==
  ASSUME lex_records \in Seq(LexFindings), NEW found \in Seq(LexFindings), Recorded(found)
  PROVE  lex_records' \in Seq(LexFindings)
BY CoveredJoins DEF Recorded

\* The text stays what it is, and with it what is said of the tokens.
LEMMA TextStays ==
  ASSUME text' = text
  PROVE  /\ Chain(tokens, lex_records)' = Chain(tokens', lex_records')
         /\ Gap(lex_records, EndOf(tokens), pos)' = Gap(lex_records', EndOf(tokens'), pos')
         /\ Complete(tokens)' = Complete(tokens')
<1>1. Chain(tokens, lex_records)' = Chain(tokens', lex_records')
  BY DEF Chain, Placed, Gap, Trivial, Covered, EndBefore, LongestOf, Matches, B, Is, Have
<1>2. Gap(lex_records, EndOf(tokens), pos)' = Gap(lex_records', EndOf(tokens'), pos')
  BY DEF Gap, Trivial, Covered, EndOf, B, Is, Have
<1>3. Complete(tokens)' = Complete(tokens')
  BY DEF Complete
<1> QED
  BY <1>1, <1>2, <1>3

\* Trivia is skipped.
LEMMA TriviaStep ==
  ASSUME LexIInv, SkipTrivia
  PROVE  LexIInv'
<1> DEFINE r == skip_trivia(pos)
<1>0. /\ lex_pc = "trivia" /\ ~ lex_oom /\ lex_pc' = "token" /\ pos' = r.end /\ Note(r.found)
      /\ UNCHANGED <<text, tokens, lex_status>>
  BY DEF SkipTrivia
<1>1. /\ LexTyped /\ Chain(tokens, lex_records) /\ BehindToken
      /\ text \in Seq(Byte) /\ pos \in 0 .. Len(text) /\ lex_records \in Seq(LexFindings)
      /\ lex_oom \in BOOLEAN /\ Len(text) \in Nat
  BY <1>0 DEF LexIInv, LexTyped
<1>2. PICK found \in Seq(LexFindings) : found = r.found
  BY <1>1, TriviaTyped, PlainAreFindings
<1>3. PICK e \in pos .. Len(text) : e = r.end
  BY <1>1, TriviaTyped
<1>4. (found = <<>> /\ Trivial(pos, e)) \/ FoundIn(found, pos, e)
  <2>1. (found = <<>> /\ Trivial(pos, e)) \/ \E k \in pos .. e - 1 : found = OpenComment(k)
    BY <1>1, <1>2, <1>3, TriviaTold DEF SkipTells
  <2>2. ASSUME NEW k \in pos .. e - 1, found = OpenComment(k) PROVE FoundIn(found, pos, e)
    BY <2>2 DEF OpenComment, FoundIn, Finding
  <2> QED
    BY <2>1, <2>2
<1>5. Recorded(found)
  BY <1>0, <1>1, <1>2, NoteRecords
<1> HIDE DEF r
<1>6. /\ e \in 0 .. Len(text) /\ e \in Nat /\ pos \in Nat /\ pos <= e /\ pos' = e
  BY <1>0, <1>1, <1>3
<1>7. LexTyped'
  BY <1>0, <1>1, <1>5, <1>6, RecordsStay DEF LexTyped, Recorded
<1>8. ASSUME ~ lex_oom' PROVE Chain(tokens', lex_records') /\ Gap(lex_records', EndOf(tokens'), pos')
  <2> DEFINE a == EndOf(tokens)
             all == lex_records \o found
  <2>1. lex_records' = all /\ tokens' = tokens
    BY <1>0, <1>5, <1>8 DEF Recorded
  <2>2. Chain(tokens, all)
    BY <1>1, ChainStays
  <2>3. a \in 0 .. pos /\ (a = pos \/ Covered(lex_records, a, pos))
    BY <1>1 DEF BehindToken
  <2>4. Covered(lex_records, a, pos) => Covered(all, a, pos)
    BY <1>1, CoveredJoins
  <2>5. FoundIn(found, pos, e) => Covered(all, pos, e)
    BY <1>1, CoveredJoins
  <2> HIDE DEF all, a
  <2>6. a \in Nat /\ a <= pos /\ a <= e
    BY <1>6, <2>3
  <2>7. Covered(all, a, pos) \/ Covered(all, pos, e) => Covered(all, a, e)
    BY <1>6, <2>6, CoveredWidens
  <2>8. Gap(all, a, e)
    BY <1>4, <1>6, <2>3, <2>4, <2>5, <2>6, <2>7 DEF Gap
  <2> QED
    BY <1>6, <2>1, <2>2, <2>8 DEF a
<1> QED
  BY <1>0, <1>7, <1>8, TextStays DEF LexIInv

\* A token, or findings, take the place of what was read.
LEMMA ReadStep ==
  ASSUME LexIInv, lex_pc = "token", ~ lex_oom, NEW r, Reads(r, pos), Scanned(r)
  PROVE  LexIInv'
<1>0. pos' = r.end /\ lex_pc' = "trivia" /\ UNCHANGED <<text, lex_status>>
  BY DEF Scanned
<1>1. /\ LexTyped /\ Chain(tokens, lex_records) /\ Gap(lex_records, EndOf(tokens), pos)
      /\ text \in Seq(Byte) /\ pos \in 0 .. Len(text) /\ lex_records \in Seq(LexFindings)
      /\ lex_oom \in BOOLEAN /\ Len(text) \in Nat /\ IsSeq(tokens) /\ lex_status = "none"
  BY DEF LexIInv, LexTyped
<1>2. PICK e \in pos + 1 .. Len(text) : e = r.end
  BY DEF Reads
<1>3. PICK found \in Seq(LexFindings) : found = r.found
  BY DEF Reads
<1> DEFINE a == EndOf(tokens)
           all == lex_records \o found
<1>4. /\ all \in Seq(LexFindings) /\ Chain(tokens, all) /\ Gap(all, a, pos)
      /\ FoundIn(found, pos, e) => Covered(all, pos, e)
  BY <1>1, CoveredJoins, ChainStays DEF Gap
<1> HIDE DEF a, all
<1>5. pos \in Nat /\ e \in Nat /\ pos < e /\ pos' = e /\ e \in 0 .. Len(text) /\ a \in Nat /\ a <= pos
  BY <1>0, <1>1, <1>2, <1>4 DEF Gap
<1>6. CASE r.token = <<>> /\ FoundIn(found, pos, e) /\ Note(found) /\ UNCHANGED tokens
  <2>1. Recorded(found)
    BY <1>1, <1>6, NoteRecords
  <2>2. LexTyped'
    BY <1>0, <1>1, <1>5, <1>6, <2>1, RecordsStay DEF LexTyped, Recorded
  <2>3. ASSUME ~ lex_oom' PROVE Chain(tokens', lex_records') /\ BehindToken'
    <3>1. lex_records' = all /\ tokens' = tokens
      BY <1>6, <2>1, <2>3 DEF Recorded, all
    <3>2. Covered(all, a, e)
      BY <1>4, <1>5, <1>6, CoveredWidens
    <3>3. a \in 0 .. e
      BY <1>5
    <3>4. BehindToken' <=> a \in 0 .. e /\ (a = e \/ Covered(all, a, e))
      BY <1>5, <3>1 DEF BehindToken, a, EndOf, Covered
    <3> QED
      BY <1>4, <3>1, <3>2, <3>3, <3>4
  <2> QED
    BY <1>0, <2>2, <2>3, TextStays DEF LexIInv
<1>7. ASSUME NEW t, r.token = <<t>>, TokenAt(t, pos, e), Emit(t),
             lex_records' \in {lex_records, all}, lex_oom' \in BOOLEAN,
             ~ lex_oom' => lex_records' = all
      PROVE  LexIInv'
  <2>1. LexTyped'
    BY <1>0, <1>1, <1>4, <1>5, <1>7, EmitIsSeq DEF LexTyped
  <2>2. ASSUME ~ lex_oom' PROVE Chain(tokens', lex_records') /\ BehindToken'
    <3>1. lex_records' = all
      BY <1>7, <2>2
    <3>2. {"kind", "start", "end"} \subseteq DOMAIN t /\ t.start = pos /\ t.end = e /\ LongestOf(t)
      BY <1>7 DEF TokenAt
    <3>3. Chain(tokens', all) /\ EndOf(tokens') = e
      BY <1>1, <1>4, <1>5, <1>7, <2>2, <3>2, EmitPlaces DEF a
    <3>4. EndOf(tokens)' = EndOf(tokens')
      BY DEF EndOf
    <3>5. BehindToken'
      BY <1>5, <3>3, <3>4 DEF BehindToken
    <3> QED
      BY <3>1, <3>3, <3>5
  <2> QED
    BY <1>0, <2>1, <2>2, TextStays DEF LexIInv
<1>8. \/ r.token = <<>> /\ FoundIn(found, pos, e)
      \/ \E t : r.token = <<t>> /\ TokenAt(t, pos, e)
  BY <1>2, <1>3 DEF Reads
<1>9. \/ r.token = <<>> /\ Note(found) /\ UNCHANGED tokens
      \/ /\ r.token # <<>> /\ Emit(r.token[1])
         /\ lex_records' \in {lex_records, all} /\ lex_oom' \in BOOLEAN
         /\ ~ lex_oom' => lex_records' = all
  BY <1>1, <1>3 DEF Scanned, Grows, all
<1>10. \A t : <<t>> # <<>> /\ <<t>>[1] = t
  OBVIOUS
<1> QED
  BY <1>6, <1>7, <1>8, <1>9, <1>10

\* The scan's buffer cannot be allocated.
LEMMA AbortStep ==
  ASSUME LexIInv, lex_pc = "token", Aborts
  PROVE  LexIInv'
<1>1. /\ lex_oom' = TRUE /\ UNCHANGED <<text, lex_pc, pos, tokens, lex_records, lex_status>>
  BY DEF Aborts
<1>2. LexTyped'
  BY <1>1 DEF LexIInv, LexTyped
<1> QED
  BY <1>1, <1>2 DEF LexIInv

\* scan_ident answers a keyword or an identifier.
LEMMA IdentifierStep ==
  ASSUME LexIInv, ScanIdent
  PROVE  LexIInv'
<1>1. /\ lex_pc = "token" /\ ~ lex_oom /\ pos < Len(text) /\ B(pos) \in IdentBytes /\ Identifier
      /\ text \in Seq(Byte) /\ pos \in 0 .. Len(text)
  BY DEF LexIInv, LexTyped, ScanIdent, At, Have, IdentBytes
<1> DEFINE end == RunEnd(pos, IdentBytes)
           name == SubSeq(text, pos + 1, end)
           k == [kind |-> "keyword", name |-> name, start |-> pos, end |-> end, span |-> TRUE]
           d == [kind |-> "ident", start |-> pos, end |-> end, span |-> TRUE]
<1>2. end \in pos + 1 .. Len(text)
  BY <1>1, RunEnds
<1>3. Scanned(Token(end, k)) \/ Scanned(Token(end, d)) \/ Aborts
  BY <1>1 DEF Identifier
<1> HIDE DEF end, name
<1>4. TokenAt(k, pos, end) /\ TokenAt(d, pos, end)
  BY DEF TokenAt, LongestOf
<1> HIDE DEF k, d
<1>5. Reads(Token(end, k), pos) /\ Reads(Token(end, d), pos)
  BY <1>2, <1>4, TokenReads
<1> QED
  BY <1>1, <1>3, <1>5, ReadStep, AbortStep

\* The other scan functions.
LEMMA LiteralStep ==
  ASSUME LexIInv, ScanInteger \/ ScanString \/ ScanPunct
  PROVE  LexIInv'
<1>1. /\ lex_pc = "token" /\ ~ lex_oom /\ pos \in 0 .. Len(text) - 1 /\ text \in Seq(Byte)
  BY DEF LexIInv, LexTyped, ScanInteger, ScanString, ScanPunct, At, Have
<1>2. CASE ScanInteger
  <2>1. B(pos) \in Digits /\ Scanned(scan_integer(pos, prev.unary_minus))
    BY <1>2 DEF ScanInteger, At
  <2>2. Reads(scan_integer(pos, prev.unary_minus), pos)
    BY <1>1, <2>1, IntegerReads
  <2> QED
    BY <1>1, <2>1, <2>2, ReadStep
<1>3. CASE ScanString
  <2>1. Scanned(scan_string(pos)) \/ Aborts
    BY <1>3 DEF ScanString
  <2>2. Reads(scan_string(pos), pos)
    BY <1>1, StringReads
  <2> QED
    BY <1>1, <2>1, <2>2, ReadStep, AbortStep
<1>4. CASE ScanPunct
  <2>1. Scanned(scan_punct(pos))
    BY <1>4 DEF ScanPunct
  <2>2. Reads(scan_punct(pos), pos)
    BY <1>1, PunctReads
  <2> QED
    BY <1>1, <2>1, <2>2, ReadStep
<1> QED
  BY <1>2, <1>3, <1>4

\* The EOF token closes the stream.
LEMMA EndStep ==
  ASSUME LexIInv, EndOfText
  PROVE  LexIInv'
<1> DEFINE t == [kind |-> "eof", start |-> pos, end |-> pos, span |-> TRUE]
<1>1. /\ lex_pc = "token" /\ ~ lex_oom /\ ~ (pos < Len(text)) /\ Grows /\ Emit(t) /\ lex_pc' = "end"
      /\ UNCHANGED <<text, pos, lex_records, lex_status>>
  BY DEF EndOfText, Have
<1>2. /\ LexTyped /\ Chain(tokens, lex_records) /\ Gap(lex_records, EndOf(tokens), pos)
      /\ pos \in 0 .. Len(text) /\ Len(text) \in Nat /\ IsSeq(tokens) /\ lex_oom \in BOOLEAN
  BY <1>1 DEF LexIInv, LexTyped
<1>3. pos = Len(text)
  <2> DEFINE n == Len(text)
  <2>1. n \in Nat /\ pos \in 0 .. n /\ ~ (pos < n)
    BY <1>1, <1>2
  <2> HIDE DEF n
  <2>2. pos = n
    BY <2>1
  <2> QED
    BY <2>2 DEF n
<1>4. /\ {"kind", "start", "end"} \subseteq DOMAIN t /\ t.start = pos /\ t.end = pos /\ t.kind = "eof"
      /\ LongestOf(t)
  BY DEF LongestOf
<1> HIDE DEF t
<1>5. LexTyped'
  BY <1>1, <1>2, EmitIsSeq DEF LexTyped, Grows
<1>6. ASSUME ~ lex_oom' PROVE Chain(tokens', lex_records') /\ Complete(tokens')
  <2>1. /\ Chain(tokens', lex_records) /\ EndOf(tokens') = t.end
        /\ tokens' # <<>> /\ tokens'[Len(tokens')].kind = t.kind
    BY <1>1, <1>2, <1>4, <1>6, EmitPlaces
  <2>2. tokens'[Len(tokens')].end = Len(text)
    BY <1>3, <1>4, <2>1 DEF EndOf
  <2> QED
    BY <1>1, <1>4, <2>1, <2>2 DEF Complete
<1> QED
  BY <1>1, <1>5, <1>6, TextStays DEF LexIInv

\* lex_tokenize hands on what was collected, sorted, or nothing.
LEMMA TokenizeStep ==
  ASSUME LexIInv, LexFinish
  PROVE  LexIInv'
<1>1. /\ lex_pc \in {"trivia", "token", "end"} /\ lex_pc' = "done" /\ UNCHANGED <<text, pos, lex_oom>>
      /\ LexTyped /\ (lex_oom \/ lex_pc = "end")
  BY DEF LexFinish, LexIInv, LexTyped
<1>2. CASE lex_oom
  <2>1. lex_status' = "LEX_OOM" /\ tokens' = <<>> /\ lex_records' = <<>>
    BY <1>2 DEF LexFinish
  <2>2. IsSeq(<<>>) /\ <<>> \in Seq(LexFindings)
    <3>1. <<>> \in Seq(LexFindings)
      OBVIOUS
    <3> QED
      BY <3>1 DEF IsSeq
  <2>3. LexTyped'
    BY <1>1, <2>1, <2>2 DEF LexIInv, LexTyped
  <2> QED
    BY <1>1, <1>2, <2>1, <2>3 DEF LexIInv
<1>3. CASE ~ lex_oom
  <2>1. /\ LexTyped /\ Chain(tokens, lex_records) /\ Complete(tokens) /\ lex_records \in Seq(LexFindings)
    BY <1>1, <1>3 DEF LexIInv, LexTyped
  <2>2. PICK o \in Orders(lex_records) :
          lex_records' = [k \in DOMAIN lex_records |-> lex_records[o[k]]] /\ tokens' = tokens
    BY <1>3 DEF LexFinish
  <2>3. lex_records' \in Seq(LexFindings) /\ Range(lex_records') = Range(lex_records)
    BY <2>1, <2>2, OrderKeeps
  <2>4. \A a, b : Covered(lex_records, a, b) = Covered(lex_records', a, b)
    BY <2>3 DEF Covered
  <2>5. \A a, b : Gap(lex_records, a, b) => Gap(lex_records', a, b)
    BY <2>4 DEF Gap
  <2>6. Chain(tokens', lex_records') /\ Complete(tokens')
    BY <2>1, <2>2, <2>5 DEF Chain, Placed
  <2>7. LexTyped'
    BY <1>1, <2>1, <2>2, <2>3 DEF LexTyped
  <2> QED
    BY <1>1, <2>6, <2>7, TextStays DEF LexIInv
<1> QED
  BY <1>2, <1>3

\* The lexer starts with nothing read.
LEMMA LexStarts ==
  ASSUME text \in Seq(0 .. 255), LexInit
  PROVE  LexIInv
<1>1. /\ text \in Seq(Byte) /\ tokens = <<>> /\ lex_pc = "trivia" /\ pos = 0 /\ lex_records = <<>>
      /\ lex_oom = FALSE /\ lex_status = "none" /\ Len(text) \in Nat
  BY DEF LexInit, LexIdle, Byte
<1>2. IsSeq(<<>>) /\ <<>> \in Seq(LexFindings)
  <2>1. <<>> \in Seq(LexFindings)
    OBVIOUS
  <2> QED
    BY <2>1 DEF IsSeq
<1>3. LexTyped
  <2>1. pos \in 0 .. Len(text) /\ IsSeq(tokens) /\ lex_records \in Seq(LexFindings)
    BY <1>1, <1>2
  <2> QED
    BY <1>1, <2>1 DEF LexTyped
<1>4. Chain(tokens, lex_records) /\ BehindToken
  BY <1>1 DEF Chain, BehindToken, EndOf
<1> QED
  BY <1>1, <1>3, <1>4 DEF LexIInv

\* Every step keeps the invariant.
LEMMA LexStep ==
  LexIInv /\ [LexNext]_lexVars => LexIInv'
<1> SUFFICES ASSUME LexIInv, [LexNext]_lexVars PROVE LexIInv'
  OBVIOUS
<1>1. CASE SkipTrivia
  BY <1>1, TriviaStep
<1>2. CASE ScanIdent
  BY <1>2, IdentifierStep
<1>3. CASE ScanInteger \/ ScanString \/ ScanPunct
  BY <1>3, LiteralStep
<1>4. CASE EndOfText
  BY <1>4, EndStep
<1>5. CASE LexFinish
  BY <1>5, TokenizeStep
<1>6. CASE UNCHANGED lexVars
  <2>1. UNCHANGED <<text, lex_pc, pos, tokens, lex_records, lex_oom, lex_status>>
    BY <1>6 DEF lexVars
  <2>2. LexTyped' /\ (BehindToken => BehindToken')
    BY <2>1 DEF LexIInv, LexTyped, BehindToken, EndOf, Covered
  <2> QED
    BY <2>1, <2>2, TextStays DEF LexIInv
<1> QED
  BY <1>1, <1>2, <1>3, <1>4, <1>5, <1>6 DEF LexNext

\* The invariant says what the tokens are when the lexer has answered.
LEMMA LexTells ==
  ASSUME LexIInv
  PROVE  TokensExact
<1> SUFFICES ASSUME Answered PROVE TokensExact
  BY DEF TokensExact, NothingDropped, LongestMatch
<1>1. Chain(tokens, lex_records) /\ Complete(tokens) /\ IsSeq(tokens)
  BY DEF Answered, LexIInv, LexTyped
<1>2. DOMAIN tokens = 1 .. Len(tokens) /\ Len(tokens) \in Nat
  <2>1. PICK S : tokens \in Seq(S)
    BY <1>1 DEF IsSeq
  <2> QED
    BY <2>1
<1>3. Last(tokens) = tokens[Len(tokens)]
  BY DEF Last
<1>4. ASSUME NEW k \in DOMAIN tokens
      PROVE  LET from == IF k = 1 THEN 0 ELSE tokens[k - 1].end
                 to   == tokens[k].start
             IN /\ from <= to
                /\ tokens[k].kind # "eof" => (k < Len(tokens) /\ to < tokens[k].end)
                /\ ~ Trivial(from, to) => \E r \in Range(lex_records) : r.start \in from .. to - 1
  <2>1. /\ Gap(lex_records, EndBefore(tokens, k), tokens[k].start)
        /\ tokens[k].kind # "eof" => tokens[k].start < tokens[k].end
    BY <1>1, <1>2 DEF Chain, Placed
  <2>2. tokens[k].kind # "eof" => k # Len(tokens)
    BY <1>1 DEF Complete
  <2>3. k # Len(tokens) => k < Len(tokens)
    <3> DEFINE n == Len(tokens)
    <3>1. n \in Nat /\ k \in 1 .. n
      BY <1>2
    <3> HIDE DEF n
    <3>2. k # n => k < n
      BY <3>1
    <3> QED
      BY <3>2 DEF n
  <2> QED
    BY <2>1, <2>2, <2>3 DEF Gap, EndBefore, Covered
<1>5. NothingDropped
  BY <1>1, <1>3, <1>4 DEF NothingDropped, Complete
<1>6. LongestMatch
  BY <1>1, <1>2 DEF LongestMatch, Chain, Placed, LongestOf
<1> QED
  BY <1>5, <1>6 DEF TokensExact

\* lex_run loses nothing of a text and splits nothing too early: when the lexer
\* answers, its tokens follow one another up to the EOF token at the end of the
\* text, what lies between two of them is blanks and whole comments, or a
\* diagnostic begins there, and punctuation is matched as long as possible.
THEOREM TokensExactHolds ==
  LexSpec => []TokensExact
<1>1. text \in Seq(0 .. 255) /\ LexInit => LexIInv
  BY LexStarts
<1>2. LexIInv => TokensExact
  BY LexTells
<1> QED
  BY <1>1, <1>2, LexStep, PTL DEF LexSpec

\* A scan function uses up a byte.
LEMMA ReadAdvances ==
  ASSUME NEW r, pos \in 0 .. Len(text), Reads(r, pos), Scanned(r)
  PROVE  Advance
<1>1. PICK e \in pos + 1 .. Len(text) : pos' = e
  BY DEF Reads, Scanned
<1>2. e > pos /\ e >= pos
  OBVIOUS
<1> QED
  BY <1>1, <1>2 DEF Advance

\* Each step of lex_run goes on.
LEMMA Advancing ==
  LexIInv /\ LexNext => Advance
<1> SUFFICES ASSUME LexIInv, LexNext PROVE Advance
  OBVIOUS
<1>0. text \in Seq(Byte) /\ pos \in 0 .. Len(text) /\ pos \in Nat /\ pos >= pos
  BY DEF LexIInv, LexTyped
<1>1. CASE SkipTrivia
  <2>1. PICK e \in pos .. Len(text) : e = skip_trivia(pos).end
    BY <1>0, TriviaTyped
  <2>2. pos' = e /\ lex_pc' = "token" /\ e >= pos
    BY <1>0, <1>1, <2>1 DEF SkipTrivia
  <2> QED
    BY <2>2 DEF Advance
<1>2. ASSUME lex_pc = "token", Aborts PROVE Advance
  BY <1>0, <1>2 DEF Aborts, Advance
<1>3. CASE ScanIdent
  <2> DEFINE end == RunEnd(pos, IdentBytes)
             k == [kind |-> "keyword", name |-> SubSeq(text, pos + 1, end),
                   start |-> pos, end |-> end, span |-> TRUE]
             d == [kind |-> "ident", start |-> pos, end |-> end, span |-> TRUE]
  <2>1. lex_pc = "token" /\ pos < Len(text) /\ B(pos) \in IdentBytes /\ Identifier
    BY <1>3 DEF ScanIdent, At, Have, IdentBytes
  <2>2. end \in pos + 1 .. Len(text)
    BY <1>0, <2>1, RunEnds
  <2>3. Scanned(Token(end, k)) \/ Scanned(Token(end, d)) \/ Aborts
    BY <2>1 DEF Identifier
  <2> HIDE DEF end
  <2>4. TokenAt(k, pos, end) /\ TokenAt(d, pos, end)
    BY DEF TokenAt, LongestOf
  <2> HIDE DEF k, d
  <2>5. Reads(Token(end, k), pos) /\ Reads(Token(end, d), pos)
    BY <2>2, <2>4, TokenReads
  <2> QED
    BY <1>0, <1>2, <2>1, <2>3, <2>5, ReadAdvances
<1>4. CASE ScanInteger
  <2>1. B(pos) \in Digits /\ pos \in 0 .. Len(text) - 1 /\ Scanned(scan_integer(pos, prev.unary_minus))
    BY <1>0, <1>4 DEF ScanInteger, At, Have
  <2>2. Reads(scan_integer(pos, prev.unary_minus), pos)
    BY <1>0, <2>1, IntegerReads
  <2> QED
    BY <1>0, <2>1, <2>2, ReadAdvances
<1>5. CASE ScanString
  <2>1. /\ lex_pc = "token" /\ pos \in 0 .. Len(text) - 1
        /\ Scanned(scan_string(pos)) \/ Aborts
    BY <1>0, <1>5 DEF ScanString, At, Have
  <2>2. Reads(scan_string(pos), pos)
    BY <1>0, <2>1, StringReads
  <2> QED
    BY <1>0, <1>2, <2>1, <2>2, ReadAdvances
<1>6. CASE ScanPunct
  <2>1. pos \in 0 .. Len(text) - 1 /\ Scanned(scan_punct(pos))
    BY <1>0, <1>6 DEF ScanPunct, At, Have
  <2>2. Reads(scan_punct(pos), pos)
    BY <1>0, <2>1, PunctReads
  <2> QED
    BY <1>0, <2>1, <2>2, ReadAdvances
<1>7. CASE EndOfText \/ LexFinish
  <2>1. pos' = pos /\ lex_pc' \in {"end", "done"}
    BY <1>7 DEF EndOfText, LexFinish
  <2> QED
    BY <1>0, <2>1 DEF Advance
<1> QED
  BY <1>1, <1>3, <1>4, <1>5, <1>6, <1>7 DEF LexNext

\* lex_run ends: no step goes back in the text, and each turn of its loop uses
\* up a byte at least, whatever is wrong with the text.
THEOREM AdvanceHolds ==
  LexSpec => [][Advance]_lexVars
<1>1. text \in Seq(0 .. 255) /\ LexInit => LexIInv
  BY LexStarts
<1> QED
  BY <1>1, LexStep, Advancing, PTL DEF LexSpec

-----------------------------------------------------------------------------
(* Literals                                                                *)

\* A literal that was rejected for its encoding, and stands alone, is not UTF-8.
EncodingTrue(r) == scan_string_one(r.start).end = r.end => ~ WellFormed(scan_string_one(r.start).bytes)

TokenTrue(t)  == (t.kind = "int" => IntTrue(t)) /\ (t.kind = "str" => WellFormed(t.bytes))
RecordTrue(r) == (r.code = "AIC-L0006" => SizeTrue(r)) /\ (r.code = "AIC-L0009" => EncodingTrue(r))
AllTrue(rs)   == \A r \in Range(rs) : RecordTrue(r)

\* The fields of a token.
Shaped(t) ==
  /\ {"kind", "start", "end"} \subseteq DOMAIN t
  /\ t.kind = "int"     => {"type", "value", "is_min"} \subseteq DOMAIN t
  /\ t.kind = "str"     => "bytes" \in DOMAIN t
  /\ t.kind = "keyword" => "name" \in DOMAIN t
  /\ t.kind = "punct"   => "punct" \in DOMAIN t

\* A token that may follow what prev says; a minimum does so behind a minus only.
Fitting(t, unary_minus) ==
  Shaped(t) /\ TokenTrue(t) /\ (t.kind = "int" /\ t.is_min => unary_minus)

\* What a scan function answers is true.
Truthful(r, unary_minus) ==
  /\ AllTrue(r.found)
  /\ r.token = <<>> \/ \E t : r.token = <<t>> /\ Fitting(t, unary_minus)

LEMMA PlainTrue ==
  ASSUME NEW found \in Seq(PlainFindings)
  PROVE  AllTrue(found)
BY PlainAreFindings DEF AllTrue, RecordTrue, Range

LEMMA OneTrue ==
  ASSUME NEW r, RecordTrue(r)
  PROVE  AllTrue(<<r>>)
BY DEF AllTrue, Range

LEMMA BothTrue ==
  ASSUME NEW S, NEW rs \in Seq(S), NEW found \in Seq(S), AllTrue(rs), AllTrue(found)
  PROVE  AllTrue(rs \o found)
<1> DEFINE all == rs \o found
<1>1. /\ DOMAIN all = 1 .. Len(rs) + Len(found)
      /\ DOMAIN rs = 1 .. Len(rs) /\ DOMAIN found = 1 .. Len(found)
      /\ Len(rs) \in Nat /\ Len(found) \in Nat
  OBVIOUS
<1>2. /\ \A k \in DOMAIN rs : all[k] = rs[k]
      /\ \A k \in DOMAIN found : all[Len(rs) + k] = found[k]
  OBVIOUS
<1>3. ASSUME NEW k \in DOMAIN all
      PROVE  k \in DOMAIN rs \/ (k - Len(rs) \in DOMAIN found /\ Len(rs) + (k - Len(rs)) = k)
  <2> DEFINE m == Len(rs)
             n == Len(found)
  <2>1. m \in Nat /\ n \in Nat /\ k \in 1 .. m + n
    BY <1>1, <1>3
  <2> HIDE DEF m, n
  <2>2. k \in 1 .. m \/ (k - m \in 1 .. n /\ m + (k - m) = k)
    BY <2>1
  <2> QED
    BY <1>1, <2>2 DEF m, n
<1> HIDE DEF all
<1>4. ASSUME NEW k \in DOMAIN all PROVE RecordTrue(all[k])
  <2>1. CASE k \in DOMAIN rs
    BY <1>2, <2>1 DEF AllTrue, Range
  <2>2. CASE k - Len(rs) \in DOMAIN found /\ Len(rs) + (k - Len(rs)) = k
    <3>1. all[k] = found[k - Len(rs)]
      BY <1>2, <2>2
    <3> QED
      BY <2>2, <3>1 DEF AllTrue, Range
  <2> QED
    BY <1>3, <2>1, <2>2
<1> QED
  BY <1>4 DEF AllTrue, Range, all

\* When nothing was joined to a good literal, there are no more bytes.
LEMMA NothingJoined ==
  ASSUME text \in Seq(Byte), NEW p \in 0 .. Len(text), More[p].end = p, More[p].good
  PROVE  More[p].bytes = <<>>
<1>1. More[p] = MoreAt(More, p)
  BY MoreUnfolds
<1>2. CASE ~ Quoted(p)
  BY <1>1, <1>2 DEF MoreAt
<1>3. CASE Quoted(p) /\ ~ Good(NextOf(p))
  BY <1>1, <1>3 DEF MoreAt
<1>4. CASE Quoted(p) /\ Good(NextOf(p))
  <2>1. PICK e \in p + 1 .. Len(text) : e = NextOf(p).end
    BY <1>4, NextTyped
  <2>2. e \in 0 .. Len(text) /\ e > p
    OBVIOUS
  <2>3. PICK b \in Seq(Unit) : b = NextOf(p).bytes
    BY <1>4, NextTyped
  <2>4. PICK y \in Seq(PlainFindings) : y = skip_trivia(p).found
    BY TriviaTyped
  <2>5. PICK s \in Joined_ : s = More[e]
    BY <2>2, MoreUnfolds
  <2>6. More[p] = Before(b, y, s)
    BY <1>1, <1>4, <2>1, <2>3, <2>4, <2>5 DEF MoreAt
  <2>7. s.end = p
    BY <2>6, MoreJoins
  <2>8. s.end \in e .. Len(text)
    BY <2>2, <2>5, MoreTold DEF MoreTells
  <2> QED
    BY <2>2, <2>7, <2>8
<1> QED
  BY <1>2, <1>3, <1>4

\* scan_string tells the truth of the encoding.
LEMMA StringTruthful ==
  ASSUME text \in Seq(Byte), NEW q \in 0 .. Len(text) - 1, NEW unary_minus
  PROVE  Truthful(scan_string(q), unary_minus)
<1> DEFINE first == scan_string_one(q)
           rest == More[first.end]
           bytes == first.bytes \o rest.bytes
<1>1. PICK e \in q + 1 .. Len(text) : e = first.end
  BY StringTold DEF StringTells
<1>2. first.found \in Seq(PlainFindings) /\ first.bytes \in Seq(Unit)
  <2>1. first \in Strings
    BY StringTold DEF StringTells
  <2> HIDE DEF first
  <2>2. first.found \in Seq(StringNote) /\ first.bytes \in Seq(Unit)
    BY <2>1 DEF Strings
  <2> QED
    BY <2>2, NotesAreFindings
<1>3. e \in 0 .. Len(text)
  OBVIOUS
<1>4. rest \in Joined_ /\ rest = More[e]
  BY <1>1, <1>3, MoreUnfolds
<1>5. rest.end = e /\ rest.good => rest.bytes = <<>>
  BY <1>3, <1>4, NothingJoined
<1>6. scan_string(q) =
        IF ~ Good(first) THEN Nothing(first.end, first.found)
        ELSE IF ~ rest.good THEN Nothing(rest.end, rest.found)
        ELSE IF utf8_valid(bytes)
          THEN [end |-> rest.end, found |-> rest.found, token |-> <<StrToken(bytes, q, rest.end)>>]
        ELSE Nothing(rest.end, rest.found \o <<Finding("AIC-L0009", q, rest.end)>>)
  BY ScanStringIs, Zenon DEF first, rest
<1> HIDE DEF rest
<1>7. rest.found \in Seq(PlainFindings) /\ rest.bytes \in Seq(Unit)
  BY <1>4 DEF Joined_
<1>8. AllTrue(first.found) /\ AllTrue(rest.found)
  BY <1>2, <1>7, PlainTrue
<1>9. bytes \in Seq(Unit) /\ (utf8_valid(bytes) <=> WellFormed(bytes))
  <2>1. bytes \in Seq(Unit)
    BY <1>2, <1>7, ConcatProperties
  <2> HIDE DEF bytes
  <2> QED
    BY <2>1, ValidIsFormed
<1>10. rest.bytes = <<>> => bytes = first.bytes
  BY <1>2, ConcatEmptySeq
<1>11. first = scan_string_one(q)
  OBVIOUS
<1> HIDE DEF bytes, first
<1>12. ASSUME NEW l, NEW f, AllTrue(f) PROVE Truthful(Nothing(l, f), unary_minus)
  BY <1>12 DEF Truthful, Nothing
<1>13. CASE ~ Good(first) \/ ~ rest.good
  BY <1>6, <1>8, <1>12, <1>13
<1>14. CASE Good(first) /\ rest.good /\ utf8_valid(bytes)
  <2> DEFINE t == StrToken(bytes, q, rest.end)
  <2>1. scan_string(q) = [end |-> rest.end, found |-> rest.found, token |-> <<t>>]
    BY <1>6, <1>14
  <2>2. t.kind = "str" /\ t.bytes = bytes /\ DOMAIN t = {"kind", "bytes", "start", "end", "span"}
    BY DEF StrToken
  <2> HIDE DEF t
  <2>3. Fitting(t, unary_minus)
    BY <1>9, <1>14, <2>2 DEF Fitting, Shaped, TokenTrue
  <2> QED
    BY <1>8, <2>1, <2>3 DEF Truthful
<1>15. CASE Good(first) /\ rest.good /\ ~ utf8_valid(bytes)
  <2> DEFINE r == Finding("AIC-L0009", q, rest.end)
  <2>1. scan_string(q) = Nothing(rest.end, rest.found \o <<r>>)
    BY <1>6, <1>15
  <2>2. r.code = "AIC-L0009" /\ r.start = q /\ r.end = rest.end
    BY DEF Finding
  <2> HIDE DEF r
  <2>3. first.end = rest.end => ~ WellFormed(first.bytes)
    BY <1>1, <1>5, <1>9, <1>10, <1>15
  <2>4. RecordTrue(r)
    BY <1>11, <2>2, <2>3 DEF RecordTrue, EncodingTrue
  <2>5. AllTrue(<<r>>)
    BY <2>4, OneTrue
  <2>6. AllTrue(rest.found \o <<r>>)
    <3> DEFINE T == PlainFindings \cup {r}
    <3>1. \A k \in 1 .. Len(rest.found) : rest.found[k] \in T
      BY <1>7
    <3>2. r \in T
      OBVIOUS
    <3> HIDE DEF T
    <3>3. rest.found \in Seq(T) /\ <<r>> \in Seq(T)
      BY <1>7, <3>1, <3>2
    <3> QED
      BY <1>8, <2>5, <3>3, BothTrue
  <2> QED
    BY <1>12, <2>1, <2>6
<1> QED
  BY <1>13, <1>14, <1>15

\* scan_integer tells the truth of the value.
LEMMA IntegerTruthful ==
  ASSUME text \in Seq(Byte), NEW p \in 0 .. Len(text) - 1, B(p) \in Digits, NEW unary_minus
  PROVE  Truthful(scan_integer(p, unary_minus), unary_minus)
<1>1. ASSUME NEW e, NEW r, RecordTrue(r) PROVE Truthful(Nothing(e, <<r>>), unary_minus)
  BY <1>1, OneTrue DEF Truthful, Nothing
<1>2. ASSUME NEW c \in {"AIC-L0001", "AIC-L0005"}, NEW e PROVE RecordTrue(Finding(c, p, e))
  BY DEF RecordTrue, Finding
<1>3. ~ FitsAt(p, unary_minus) => RecordTrue(Finding("AIC-L0006", p, IntEnd(p)))
  <2>1. Finding("AIC-L0006", p, IntEnd(p)).code = "AIC-L0006"
    BY DEF Finding
  <2> QED
    BY <2>1, IntegerTrue DEF RecordTrue
<1> DEFINE t == IntToken(TypeOf(p), ValueOf(p).value, MinAt(p, unary_minus), p, IntEnd(p))
<1>4. FitsAt(p, unary_minus) => IntTrue(t)
  BY IntegerTrue
<1>5. /\ t.kind = "int" /\ t.is_min = MinAt(p, unary_minus)
      /\ DOMAIN t = {"kind", "type", "value", "is_min", "start", "end", "span"}
  BY DEF IntToken
<1>6. MinAt(p, unary_minus) => unary_minus
  BY DEF MinAt
<1>7. \/ scan_integer(p, unary_minus) = Nothing(RunOf(p), <<Finding("AIC-L0001", p, RunOf(p))>>)
      \/ scan_integer(p, unary_minus) = Nothing(IntEnd(p), <<Finding("AIC-L0005", p, IntEnd(p))>>)
      \/ /\ ~ FitsAt(p, unary_minus)
         /\ scan_integer(p, unary_minus) = Nothing(IntEnd(p), <<Finding("AIC-L0006", p, IntEnd(p))>>)
      \/ FitsAt(p, unary_minus) /\ scan_integer(p, unary_minus) = Token(IntEnd(p), t)
  BY IntegerIs, Zenon
<1> HIDE DEF t
<1>8. FitsAt(p, unary_minus) => Truthful(Token(IntEnd(p), t), unary_minus)
  <2> SUFFICES ASSUME FitsAt(p, unary_minus) PROVE Truthful(Token(IntEnd(p), t), unary_minus)
    OBVIOUS
  <2>1. Fitting(t, unary_minus)
    BY <1>4, <1>5, <1>6 DEF Fitting, Shaped, TokenTrue
  <2>2. <<>> \in Seq(PlainFindings)
    OBVIOUS
  <2> QED
    BY <2>1, <2>2, PlainTrue DEF Truthful, Token
<1> QED
  BY <1>1, <1>2, <1>3, <1>7, <1>8

\* A token alone.
LEMMA TokenTruthful ==
  ASSUME NEW e, NEW t, NEW unary_minus, Shaped(t), t.kind \notin {"int", "str"}
  PROVE  Truthful(Token(e, t), unary_minus)
<1>1. <<>> \in Seq(PlainFindings)
  OBVIOUS
<1>2. Fitting(t, unary_minus)
  BY DEF Fitting, TokenTrue
<1> QED
  BY <1>1, <1>2, PlainTrue DEF Truthful, Token

LEMMA PunctTruthful ==
  ASSUME NEW p, NEW unary_minus
  PROVE  Truthful(scan_punct(p), unary_minus)
<1>1. \/ \E k, e : scan_punct(p) = Token(e, PunctToken(k, p, e))
      \/ \E e : scan_punct(p) = Nothing(e, <<Finding("AIC-L0001", p, e)>>)
  <2> DEFINE some == {k \in DOMAIN Puncts : Matches(p, k)}
             size == IF B(p) \in 194 .. 223 THEN 2 ELSE IF B(p) \in 224 .. 239 THEN 3
                     ELSE IF B(p) \in 240 .. 244 THEN 4 ELSE 1
             end == Min({p + size, Len(text)})
             k == Min(some)
             e == p + Len(Puncts[k])
  <2>1. some # {} => scan_punct(p) = Token(e, PunctToken(k, p, e))
    BY DEF scan_punct
  <2>2. some = {} => scan_punct(p) = Nothing(end, <<Finding("AIC-L0001", p, end)>>)
    BY Zenon DEF scan_punct
  <2> HIDE DEF some, end, k, e
  <2> QED
    BY <2>1, <2>2
<1>2. ASSUME NEW k, NEW e PROVE Truthful(Token(e, PunctToken(k, p, e)), unary_minus)
  <2> DEFINE t == PunctToken(k, p, e)
  <2>1. t.kind = "punct" /\ DOMAIN t = {"kind", "punct", "start", "end", "span"}
    BY DEF PunctToken
  <2> HIDE DEF t
  <2>2. Shaped(t) /\ t.kind \notin {"int", "str"}
    BY <2>1 DEF Shaped
  <2>3. Truthful(Token(e, t), unary_minus)
    BY <2>2, TokenTruthful
  <2> QED
    BY <2>3 DEF t
<1>3. ASSUME NEW e PROVE Truthful(Nothing(e, <<Finding("AIC-L0001", p, e)>>), unary_minus)
  <2>1. RecordTrue(Finding("AIC-L0001", p, e))
    BY DEF RecordTrue, Finding
  <2> QED
    BY <2>1, OneTrue DEF Truthful, Nothing
<1> QED
  BY <1>1, <1>2, <1>3

\* The minimum of a type stands behind a minus that is unary.
AfterMinus(ts, k) ==
  ts[k].kind = "int" /\ ts[k].is_min =>
    k > 1 /\ IsMinus(ts[k - 1]) /\ (k > 2 => ~ is_expr_ending(ts[k - 2]))
TokensTrue(ts) == \A k \in 1 .. Len(ts) : TokenTrue(ts[k]) /\ AfterMinus(ts, k)

\* What the lexer keeps of the last token.
PrevIs(ts, v) ==
  IF ts = <<>> THEN ~ v.unary_minus
  ELSE /\ v.ends = is_expr_ending(ts[Len(ts)])
       /\ v.unary_minus => /\ IsMinus(ts[Len(ts)])
                           /\ Len(ts) > 1 => ~ is_expr_ending(ts[Len(ts) - 1])

LitIInv ==
  /\ ~ lex_oom => TokensTrue(tokens) /\ AllTrue(lex_records) /\ PrevIs(tokens, prev)
  /\ lex_pc = "done" /\ lex_status # "LEX_OOM" => TokensTrue(tokens) /\ AllTrue(lex_records)

\* A token is what it is without its span.
LEMMA SpanKeeps ==
  ASSUME NEW t, Shaped(t), NEW span
  PROVE  LET u == [t EXCEPT !.span = span]
         IN /\ u.kind = t.kind /\ (TokenTrue(t) => TokenTrue(u))
            /\ u.kind = "int" => u.is_min = t.is_min
            /\ is_expr_ending(u) = is_expr_ending(t) /\ IsMinus(u) = IsMinus(t)
<1> DEFINE u == [t EXCEPT !.span = span]
<1>1. \A f \in DOMAIN t : f # "span" => u[f] = t[f]
  OBVIOUS
<1> HIDE DEF u
<1>2. /\ u.kind = t.kind /\ u.start = t.start /\ u.end = t.end
      /\ t.kind = "int"     => u.type = t.type /\ u.value = t.value /\ u.is_min = t.is_min
      /\ t.kind = "str"     => u.bytes = t.bytes
      /\ t.kind = "keyword" => u.name = t.name
      /\ t.kind = "punct"   => u.punct = t.punct
  BY <1>1 DEF Shaped
<1>3. t.kind = "int" /\ IntTrue(t) => IntTrue(u)
  BY <1>2 DEF IntTrue
<1>4. TokenTrue(t) => TokenTrue(u)
  BY <1>2, <1>3 DEF TokenTrue
<1>5. IsMinus(u) = IsMinus(t)
  BY <1>2 DEF IsMinus
<1>6. is_expr_ending(u) = is_expr_ending(t)
  <2>1. CASE t.kind = "keyword"
    BY <1>2, <2>1 DEF is_expr_ending
  <2>2. CASE t.kind = "punct"
    BY <1>2, <2>2 DEF is_expr_ending
  <2>3. CASE t.kind \notin {"keyword", "punct"}
    BY <1>2, <2>3 DEF is_expr_ending
  <2> QED
    BY <2>1, <2>2, <2>3
<1> QED
  BY <1>2, <1>4, <1>5, <1>6 DEF u

\* A token that fits is emitted.
LEMMA EmitTrue ==
  ASSUME IsSeq(tokens), TokensTrue(tokens), PrevIs(tokens, prev),
         NEW t, Fitting(t, prev.unary_minus), Emit(t), ~ lex_oom'
  PROVE  TokensTrue(tokens') /\ PrevIs(tokens', prev')
<1>1. PICK span \in BOOLEAN : tokens' = Append(tokens, [t EXCEPT !.span = span])
  BY DEF Emit
<1>2. prev' = [ends |-> is_expr_ending(t), unary_minus |-> IsMinus(t) /\ ~ prev.ends]
  BY DEF Emit
<1> DEFINE u == [t EXCEPT !.span = span]
           us == Append(tokens, u)
           n == Len(tokens)
<1>3. /\ u.kind = t.kind /\ TokenTrue(u) /\ (u.kind = "int" => u.is_min = t.is_min)
      /\ is_expr_ending(u) = is_expr_ending(t) /\ IsMinus(u) = IsMinus(t)
  BY SpanKeeps DEF Fitting
<1> HIDE DEF u
<1>4. /\ us # <<>> /\ n \in Nat /\ Len(us) = n + 1 /\ us[n + 1] = u
      /\ \A k \in 1 .. n : us[k] = tokens[k]
  BY Appended, ZenonT(60)
<1>5. tokens = <<>> <=> n = 0
  <2>1. PICK S : tokens \in Seq(S)
    BY DEF IsSeq
  <2> QED
    BY <2>1
<1> HIDE DEF us
<1>6. n > 0 => n \in 1 .. n /\ us[n] = tokens[n]
  BY <1>4
<1>7. n > 1 => n - 1 \in 1 .. n /\ us[n - 1] = tokens[n - 1]
  BY <1>4
<1>8. prev.unary_minus => /\ n > 0 /\ IsMinus(us[n])
                          /\ n > 1 => ~ is_expr_ending(us[n - 1])
  <2>1. prev.unary_minus => tokens # <<>>
    BY DEF PrevIs
  <2>2. prev.unary_minus => IsMinus(tokens[n]) /\ (n > 1 => ~ is_expr_ending(tokens[n - 1]))
    BY <2>1 DEF PrevIs
  <2>3. n # 0 => n > 0
    BY <1>4
  <2> QED
    BY <1>5, <1>6, <1>7, <2>1, <2>2, <2>3
<1>9. \A k \in 1 .. n : TokenTrue(us[k]) /\ AfterMinus(us, k)
  <2> SUFFICES ASSUME NEW k \in 1 .. n PROVE TokenTrue(us[k]) /\ AfterMinus(us, k)
    OBVIOUS
  <2>1. /\ us[k] = tokens[k] /\ (k > 1 => us[k - 1] = tokens[k - 1])
        /\ k > 2 => us[k - 2] = tokens[k - 2]
    <3>1. k \in 1 .. n /\ (k > 1 => k - 1 \in 1 .. n) /\ (k > 2 => k - 2 \in 1 .. n)
      BY <1>4
    <3> QED
      BY <1>4, <3>1
  <2>2. TokenTrue(tokens[k]) /\ AfterMinus(tokens, k)
    BY DEF TokensTrue, n
  <2> HIDE DEF n
  <2> QED
    BY <2>1, <2>2 DEF AfterMinus
<1>10. TokenTrue(us[n + 1]) /\ AfterMinus(us, n + 1)
  <2>1. t.kind = "int" /\ t.is_min => prev.unary_minus
    BY DEF Fitting
  <2>2. n \in Nat
    BY <1>4
  <2> HIDE DEF n
  <2>3. /\ (n + 1) - 1 = n /\ (n + 1) - 2 = n - 1
        /\ (n > 0 => n + 1 > 1) /\ (n + 1 > 2 => n > 1)
    BY <2>2
  <2> QED
    BY <1>3, <1>4, <1>8, <2>1, <2>3 DEF AfterMinus
<1>11. TokensTrue(us)
  <2> HIDE DEF n
  <2>1. \A k \in 1 .. n + 1 : k \in 1 .. n \/ k = n + 1
    BY <1>4
  <2> QED
    BY <1>4, <1>9, <1>10, <2>1 DEF TokensTrue
<1>12. PrevIs(us, prev')
  <2>1. prev'.ends = is_expr_ending(u) /\ (prev'.unary_minus <=> IsMinus(u) /\ ~ prev.ends)
    BY <1>2, <1>3
  <2>2. n > 0 => prev.ends = is_expr_ending(us[n])
    <3>1. n > 0 => tokens # <<>>
      BY <1>5
    <3>2. tokens # <<>> => prev.ends = is_expr_ending(tokens[n])
      BY DEF PrevIs
    <3> QED
      BY <1>6, <3>1, <3>2
  <2>3. (n + 1) - 1 = n /\ (n + 1 > 1 => n > 0)
    BY <1>4
  <2> HIDE DEF n
  <2> QED
    BY <1>4, <2>1, <2>2, <2>3 DEF PrevIs
<1> QED
  BY <1>1, <1>11, <1>12 DEF us, u

\* Of the text all this says the same while the text stays.
LEMMA LitStays ==
  ASSUME text' = text
  PROVE  /\ TokensTrue(tokens)' = TokensTrue(tokens')
         /\ AllTrue(lex_records)' = AllTrue(lex_records')
         /\ PrevIs(tokens, prev)' = PrevIs(tokens', prev')
<1>1. TokensTrue(tokens)' = TokensTrue(tokens')
  BY DEF TokensTrue, TokenTrue, IntTrue, Named, Spells, DigitsEnd, Meaning, Prefix, B, Is, Have, AfterMinus
<1>2. AllTrue(lex_records)' = AllTrue(lex_records')
  BY DEF AllTrue, RecordTrue, SizeTrue, EncodingTrue, Named, Spells, DigitsEnd, Meaning, Prefix, scan_string_one,
         HexEnd, IsHex, B, Is, Have
<1>3. PrevIs(tokens, prev)' = PrevIs(tokens', prev')
  BY DEF PrevIs
<1> QED
  BY <1>1, <1>2, <1>3

\* What is true of a step's new state.
LitNext == ~ lex_oom' => TokensTrue(tokens') /\ AllTrue(lex_records') /\ PrevIs(tokens', prev')

\* The outcome of a scan function is taken over.
LEMMA ScannedTrue ==
  ASSUME LexIInv, LitIInv, ~ lex_oom, NEW r, Truthful(r, prev.unary_minus),
         r.found \in Seq(LexFindings), Scanned(r)
  PROVE  LitNext
<1> SUFFICES ASSUME ~ lex_oom' PROVE TokensTrue(tokens') /\ AllTrue(lex_records') /\ PrevIs(tokens', prev')
  BY DEF LitNext
<1>1. /\ TokensTrue(tokens) /\ AllTrue(lex_records) /\ PrevIs(tokens, prev)
      /\ IsSeq(tokens) /\ lex_records \in Seq(LexFindings)
  BY DEF LexIInv, LexTyped, LitIInv
<1>2. AllTrue(lex_records \o r.found)
  BY <1>1, BothTrue DEF Truthful
<1>3. lex_records' = lex_records \o r.found
  BY DEF Scanned, Note, Grows
<1>4. \/ r.token = <<>> /\ UNCHANGED <<tokens, prev>>
      \/ r.token # <<>> /\ Emit(r.token[1])
  BY DEF Scanned
<1>5. ASSUME NEW t, r.token = <<t>>, Fitting(t, prev.unary_minus), r.token # <<>>, Emit(r.token[1])
      PROVE  TokensTrue(tokens') /\ PrevIs(tokens', prev')
  <2>1. r.token[1] = t
    BY <1>5
  <2> QED
    BY <1>1, <1>5, <2>1, EmitTrue
<1>6. r.token = <<>> \/ \E t : r.token = <<t>> /\ Fitting(t, prev.unary_minus)
  BY DEF Truthful
<1> QED
  BY <1>1, <1>2, <1>3, <1>4, <1>5, <1>6

\* The scan's own buffer cannot be allocated.
LEMMA AbortTrue ==
  ASSUME Aborts
  PROVE  LitNext
BY DEF Aborts, LitNext

LEMMA LitStep ==
  LexIInv /\ LitIInv /\ [LexNext]_lexVars => LitIInv'
<1> SUFFICES ASSUME LexIInv, LitIInv, [LexNext]_lexVars PROVE LitIInv'
  OBVIOUS
<1>0. /\ text \in Seq(Byte) /\ pos \in 0 .. Len(text) /\ lex_records \in Seq(LexFindings)
      /\ lex_oom \in BOOLEAN
  BY DEF LexIInv, LexTyped
<1>1. ASSUME LitNext, lex_pc' # "done", text' = text PROVE LitIInv'
  BY <1>1, LitStays DEF LitNext, LitIInv
<1>2. CASE SkipTrivia
  <2>1. /\ ~ lex_oom /\ lex_pc' = "token" /\ Note(skip_trivia(pos).found)
        /\ UNCHANGED <<text, tokens, prev>>
    BY <1>2 DEF SkipTrivia
  <2>2. PICK found \in Seq(PlainFindings) : found = skip_trivia(pos).found
    BY <1>0, TriviaTyped
  <2>3. AllTrue(found) /\ found \in Seq(LexFindings)
    BY PlainTrue, PlainAreFindings
  <2>4. ~ lex_oom' => lex_records' = lex_records \o found
    BY <2>1, <2>2 DEF Note
  <2>5. TokensTrue(tokens) /\ AllTrue(lex_records) /\ PrevIs(tokens, prev)
    BY <2>1 DEF LitIInv
  <2>6. AllTrue(lex_records \o found)
    BY <1>0, <2>3, <2>5, BothTrue
  <2>7. LitNext
    BY <2>1, <2>4, <2>5, <2>6 DEF LitNext
  <2> QED
    BY <1>1, <2>1, <2>7
<1>3. CASE ScanIdent
  <2> DEFINE end == RunEnd(pos, IdentBytes)
             k == [kind |-> "keyword", name |-> SubSeq(text, pos + 1, end),
                   start |-> pos, end |-> end, span |-> TRUE]
             d == [kind |-> "ident", start |-> pos, end |-> end, span |-> TRUE]
  <2>1. ~ lex_oom /\ Identifier /\ lex_pc = "token"
    BY <1>3 DEF ScanIdent, At
  <2>2. Scanned(Token(end, k)) \/ Scanned(Token(end, d)) \/ Aborts
    BY <2>1 DEF Identifier
  <2> HIDE DEF end
  <2>3. Shaped(k) /\ Shaped(d) /\ k.kind \notin {"int", "str"} /\ d.kind \notin {"int", "str"}
    BY DEF Shaped
  <2> HIDE DEF k, d
  <2>4. Truthful(Token(end, k), prev.unary_minus) /\ Truthful(Token(end, d), prev.unary_minus)
    BY <2>3, TokenTruthful
  <2>5. Token(end, k).found \in Seq(LexFindings) /\ Token(end, d).found \in Seq(LexFindings)
    BY DEF Token
  <2>6. LitNext
    BY <2>1, <2>2, <2>4, <2>5, ScannedTrue, AbortTrue
  <2>7. lex_pc' \in {"trivia", "token"} /\ text' = text
    BY <2>1, <2>2 DEF Scanned, Aborts
  <2> QED
    BY <1>1, <2>6, <2>7
<1>4. CASE ScanInteger \/ ScanString \/ ScanPunct
  <2>1. /\ ~ lex_oom /\ lex_pc = "token" /\ pos \in 0 .. Len(text) - 1
    BY <1>0, <1>4 DEF ScanInteger, ScanString, ScanPunct, At, Have
  <2>2. ASSUME NEW r, Truthful(r, prev.unary_minus), Reads(r, pos), Scanned(r) PROVE LitNext
    BY <2>1, <2>2, ScannedTrue DEF Reads
  <2>3. LitNext
    <3>1. CASE ScanInteger
      <4>1. B(pos) \in Digits /\ Scanned(scan_integer(pos, prev.unary_minus))
        BY <3>1 DEF ScanInteger, At
      <4>2. /\ Reads(scan_integer(pos, prev.unary_minus), pos)
            /\ Truthful(scan_integer(pos, prev.unary_minus), prev.unary_minus)
        BY <1>0, <2>1, <4>1, IntegerReads, IntegerTruthful
      <4> QED
        BY <2>2, <4>1, <4>2
    <3>2. CASE ScanString
      <4>1. Scanned(scan_string(pos)) \/ Aborts
        BY <3>2 DEF ScanString
      <4>2. Reads(scan_string(pos), pos) /\ Truthful(scan_string(pos), prev.unary_minus)
        BY <1>0, <2>1, StringReads, StringTruthful
      <4> QED
        BY <2>2, <4>1, <4>2, AbortTrue
    <3>3. CASE ScanPunct
      <4>1. Scanned(scan_punct(pos))
        BY <3>3 DEF ScanPunct
      <4>2. Reads(scan_punct(pos), pos) /\ Truthful(scan_punct(pos), prev.unary_minus)
        BY <1>0, <2>1, PunctReads, PunctTruthful
      <4> QED
        BY <2>2, <4>1, <4>2
    <3> QED
      BY <1>4, <3>1, <3>2, <3>3
  <2>7. lex_pc' \in {"trivia", "token"} /\ text' = text
    BY <1>4, <2>1 DEF ScanInteger, ScanString, ScanPunct, Scanned, Aborts
  <2> QED
    BY <1>1, <2>3, <2>7
<1>5. CASE EndOfText
  <2> DEFINE t == [kind |-> "eof", start |-> pos, end |-> pos, span |-> TRUE]
  <2>1. ~ lex_oom /\ Emit(t) /\ lex_pc' = "end" /\ UNCHANGED <<text, lex_records>>
    BY <1>5 DEF EndOfText
  <2>2. Fitting(t, prev.unary_minus)
    BY DEF Fitting, Shaped, TokenTrue
  <2> HIDE DEF t
  <2>3. LitNext
    <3>1. TokensTrue(tokens) /\ AllTrue(lex_records) /\ PrevIs(tokens, prev) /\ IsSeq(tokens)
      BY <2>1 DEF LexIInv, LexTyped, LitIInv
    <3> QED
      BY <2>1, <2>2, <3>1, EmitTrue DEF LitNext
  <2> QED
    BY <1>1, <2>1, <2>3
<1>6. CASE LexFinish
  <2>1. lex_pc' = "done" /\ UNCHANGED <<text, prev, lex_oom>>
    BY <1>6 DEF LexFinish
  <2>2. CASE lex_oom
    <3>1. lex_status' = "LEX_OOM"
      BY <1>6, <2>2 DEF LexFinish
    <3> QED
      BY <2>1, <2>2, <3>1 DEF LitIInv
  <2>3. CASE ~ lex_oom
    <3>1. PICK o \in Orders(lex_records) :
            lex_records' = [k \in DOMAIN lex_records |-> lex_records[o[k]]] /\ tokens' = tokens
      BY <1>6, <2>3 DEF LexFinish
    <3>2. Range(lex_records') = Range(lex_records)
      BY <1>0, <3>1, OrderKeeps
    <3>3. TokensTrue(tokens) /\ AllTrue(lex_records) /\ PrevIs(tokens, prev)
      BY <2>3 DEF LitIInv
    <3>4. TokensTrue(tokens') /\ AllTrue(lex_records') /\ PrevIs(tokens', prev')
      BY <2>1, <3>1, <3>2, <3>3 DEF AllTrue
    <3> QED
      BY <2>1, <3>4, LitStays DEF LitIInv
  <2> QED
    BY <1>0, <2>2, <2>3
<1>7. CASE UNCHANGED lexVars
  <2>1. UNCHANGED <<text, lex_pc, tokens, lex_records, prev, lex_oom, lex_status>>
    BY <1>7 DEF lexVars
  <2> QED
    BY <2>1, LitStays DEF LitIInv
<1> QED
  BY <1>2, <1>3, <1>4, <1>5, <1>6, <1>7 DEF LexNext

LEMMA LitStarts ==
  ASSUME text \in Seq(0 .. 255), LexInit
  PROVE  LitIInv
<1>1. /\ tokens = <<>> /\ lex_pc = "trivia" /\ lex_records = <<>>
      /\ prev = [ends |-> FALSE, unary_minus |-> FALSE]
  BY DEF LexInit, LexIdle
<1>2. AllTrue(<<>>)
  BY DEF AllTrue, Range
<1>3. TokensTrue(<<>>) /\ PrevIs(<<>>, prev)
  BY <1>1 DEF TokensTrue, PrevIs
<1> QED
  BY <1>1, <1>2, <1>3 DEF LitIInv

LEMMA LitTells ==
  ASSUME LexIInv, LitIInv
  PROVE  LiteralsExact
<1>1. DOMAIN tokens = 1 .. Len(tokens) /\ Len(tokens) \in Nat
  <2>1. PICK S : tokens \in Seq(S)
    BY DEF LexIInv, LexTyped, IsSeq
  <2> QED
    BY <2>1
<1>2. Answered => TokensTrue(tokens) /\ AllTrue(lex_records)
  BY DEF Answered, LitIInv
<1>3. \A k \in DOMAIN tokens : k \in 1 .. Len(tokens)
  BY <1>1
<1>4. ValuesExact
  <2> SUFFICES ASSUME Answered PROVE ValuesExact
    BY DEF ValuesExact
  <2>1. \A k \in Ints : IntTrue(tokens[k])
    BY <1>2, <1>3 DEF Ints, TokensTrue, TokenTrue
  <2>2. \A r \in Codes("AIC-L0006") : SizeTrue(r)
    BY <1>2 DEF Codes, AllTrue, RecordTrue
  <2> QED
    BY <2>1, <2>2 DEF ValuesExact, IntTrue, SizeTrue
<1>5. MinAfterMinus
  <2> SUFFICES ASSUME lex_pc = "done", lex_status = "LEX_OK", NEW k \in Ints, tokens[k].is_min
               PROVE  k > 1 /\ IsMinus(tokens[k - 1]) /\ (k > 2 => ~ is_expr_ending(tokens[k - 2]))
    BY DEF MinAfterMinus
  <2>1. AfterMinus(tokens, k)
    BY <1>2, <1>3 DEF Answered, Ints, TokensTrue
  <2> QED
    BY <2>1 DEF AfterMinus, Ints
<1>6. StringsUtf8
  BY <1>2, <1>3 DEF StringsUtf8, TokensTrue, TokenTrue, Codes, AllTrue, RecordTrue, EncodingTrue
<1> QED
  BY <1>4, <1>5, <1>6 DEF LiteralsExact

\* Every literal is what the source says, whatever the text and however wide the
\* types: the value of an integer token is what its digits stand for in the base
\* of its prefix, its type holds it and is the first that does when it has no
\* suffix; a literal refused for its size fits in none of its types; the minimum
\* of a type is written behind a minus that is unary; and the bytes of a string
\* are UTF-8, while a string refused for its encoding is not.
THEOREM LiteralsExactHolds ==
  LexSpec => []LiteralsExact
<1>1. text \in Seq(0 .. 255) /\ LexInit => LexIInv /\ LitIInv
  BY LexStarts, LitStarts
<1>2. LexIInv /\ LitIInv => LiteralsExact
  BY LitTells
<1> QED
  BY <1>1, <1>2, LexStep, LitStep, PTL DEF LexSpec
=============================================================================
