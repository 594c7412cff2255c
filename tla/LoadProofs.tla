----------------------------- MODULE LoadProofs -----------------------------
(***************************************************************************)
(* What the compiler knows of a file that load.c has loaded is what is in  *)
(* the file, for every file: the text and its positions, the validation of *)
(* UTF-8 and of NUL bytes, and what is accepted.                           *)
(***************************************************************************)
EXTENDS MCLoad, FiniteSetTheorems, SequenceTheorems, WellFoundedInduction, TLAPS

Byte == 0 .. 255

-----------------------------------------------------------------------------
(* Recursion                                                               *)

\* What holds of x when it holds of all that measure less holds of all.
LEMMA Below ==
  ASSUME NEW I, NEW mu \in [I -> Nat], NEW S,
         \A x \in I : (\A y \in I : mu[y] < mu[x] => y \in S) => x \in S
  PROVE  \A x \in I : x \in S
<1> DEFINE Missing == {n \in Nat : \E x \in I : mu[x] = n /\ x \notin S}
<1>1. SUFFICES ASSUME NEW x \in I, x \notin S PROVE FALSE
  OBVIOUS
<1>2. mu[x] \in Missing /\ Missing \in SUBSET Nat
  BY <1>1
<1>3. PICK n \in Missing : \A m \in Missing : ~ (<<m, n>> \in OpToRel(<, Nat))
  <2> HIDE DEF Missing
  <2> QED
    BY <1>2, WFMin, NatLessThanWellFounded
<1>4. n \in Nat /\ \A m \in Missing : ~ (m < n)
  BY <1>3 DEF OpToRel
<1>5. PICK y \in I : mu[y] = n /\ y \notin S
  OBVIOUS
<1>6. \A z \in I : mu[z] < n => z \in S
  BY <1>4
<1> QED
  BY <1>5, <1>6

\* f computes its value at x, of V, from those a function has at what measures less.
Measured(I, mu, top) == mu \in [I -> Nat] /\ top \in Nat /\ \A x \in I : mu[x] < top
Typed(I, V, f)       == \A G \in [I -> V] : \A x \in I : f[G][x] \in V
Local(I, V, mu, f)   == \A G, H \in [I -> V] : \A x \in I :
                          (\A y \in I : mu[y] < mu[x] => G[y] = H[y]) => f[G][x] = f[H][x]
Solvable(I, V, f)    == \E F \in [I -> V] : \A x \in I : F[x] = f[F][x]

\* Then there is a function that has the values computed from itself.
LEMMA Recursion ==
  ASSUME NEW I, NEW V, NEW mu, NEW top, NEW f,
         V # {}, Measured(I, mu, top), Typed(I, V, f), Local(I, V, mu, f)
  PROVE  Solvable(I, V, f)
<1> DEFINE Fixed(n) == \E G \in [I -> V] : \A x \in I : mu[x] < n => G[x] = f[G][x]
           S == {n \in Nat : Fixed(n)}
<1> USE DEF Measured, Typed, Local
<1>1. ASSUME NEW n \in Nat, Fixed(n) PROVE Fixed(n + 1)
  <2>1. PICK G \in [I -> V] : \A x \in I : mu[x] < n => G[x] = f[G][x]
    BY <1>1
  <2> DEFINE H == [x \in I |-> IF mu[x] < n THEN G[x] ELSE f[G][x]]
  <2>2. H \in [I -> V]
    BY <2>1
  <2>3. ASSUME NEW x \in I, mu[x] < n + 1 PROVE H[x] = f[H][x]
    <3>1. H[x] = f[G][x]
      BY <2>1
    <3>2. \A y \in I : mu[y] < mu[x] => G[y] = H[y]
      <4>1. mu[x] \in Nat
        OBVIOUS
      <4>2. ASSUME NEW y \in I, mu[y] < mu[x] PROVE mu[y] < n
        <5>1. mu[y] \in Nat
          OBVIOUS
        <5> QED
          BY <2>3, <4>1, <4>2, <5>1
      <4> QED
        BY <4>2
    <3> HIDE DEF H
    <3> QED
      BY <2>1, <2>2, <3>1, <3>2
  <2> HIDE DEF H
  <2> QED
    BY <2>2, <2>3
<1>2. Fixed(0)
  <2>0. PICK v : v \in V
    OBVIOUS
  <2> DEFINE G == [x \in I |-> v]
  <2>1. G \in [I -> V] /\ \A x \in I : ~ (mu[x] < 0)
    BY <2>0
  <2> QED
    BY <2>1
<1>3. \A n \in Nat : n \in S
  <2> DEFINE mu0 == [n \in Nat |-> n]
  <2>1. ASSUME NEW n \in Nat, \A m \in Nat : mu0[m] < mu0[n] => m \in S PROVE n \in S
    <3>1. CASE n = 0
      BY <1>2, <3>1
    <3>2. CASE n # 0
      <4>1. n - 1 \in Nat /\ mu0[n - 1] < mu0[n] /\ (n - 1) + 1 = n
        BY <3>2
      <4>2. Fixed(n - 1)
        BY <2>1, <4>1
      <4> HIDE DEF Fixed, mu0
      <4> QED
        BY <1>1, <4>1, <4>2
    <3> QED
      BY <3>1, <3>2
  <2>2. mu0 \in [Nat -> Nat]
    OBVIOUS
  <2> HIDE DEF S, mu0
  <2> QED
    BY <2>1, <2>2, Below
<1>4. Fixed(top)
  BY <1>3
<1> QED
  BY <1>4 DEF Solvable

-----------------------------------------------------------------------------
(* Positions                                                               *)

LineFeeds(t, o) == {k \in 1 .. o : t[k] = LF}

\* Where the lines of t begin: at 0 and behind every line feed.
LineStarts(t, s) ==
  /\ s \in Seq(Nat) /\ s # <<>> /\ s[1] = 0
  /\ \A j, k \in 1 .. Len(s) : j < k => s[j] < s[k]
  /\ \A j \in 2 .. Len(s) : s[j] \in 1 .. Len(t) /\ t[s[j]] = LF
  /\ \A k \in 1 .. Len(t) : t[k] = LF => \E j \in 2 .. Len(s) : s[j] = k
  /\ \A j \in 1 .. Len(s) : Cardinality(LineFeeds(t, s[j])) = j - 1

\* The line at offset o: it starts there or before, the next one does not.
IsLine(s, o, l) == /\ l \in 0 .. Len(s) - 1 /\ s[l + 1] <= o
                   /\ \A j \in 1 .. Len(s) : j > l + 1 => o < s[j]

\* One turn of the loop of position_at.
SearchAt(F, offset, w) ==
  LET mid == w.lo + (w.hi - w.lo) \div 2
  IN IF w.lo > w.hi THEN w.ans
     ELSE IF starts[mid + 1] <= offset THEN F[Window(mid + 1, w.hi, mid)]
     ELSE F[Window(w.lo, mid - 1, w.ans)]

Searched(offset) == CHOOSE F : F = [w \in Windows |-> SearchAt(F, offset, w)]

\* Search is the function its recursion defines.
LEMMA SearchIsSearched ==
  ASSUME NEW o, NEW w
  PROVE  Search(o, w) = Searched(o)[w]
BY DEF Search, Searched, SearchAt

\* The size of a window gets smaller with every turn.
Size(w) == IF w.lo > w.hi THEN 0 ELSE w.hi - w.lo + 1
Mid(w)  == w.lo + (w.hi - w.lo) \div 2

\* Each turn of the bisection leaves a smaller window.
LEMMA WindowShrinks ==
  ASSUME starts \in Seq(Nat), NEW w \in Windows
  PROVE  /\ Size(w) \in Nat /\ Size(w) < Len(starts) + 1 /\ w.ans \in 0 .. Len(starts) - 1
         /\ w.lo <= w.hi =>
              /\ Mid(w) \in w.lo .. w.hi /\ Mid(w) \in 0 .. Len(starts) - 1
              /\ Window(Mid(w) + 1, w.hi, Mid(w)) \in Windows
              /\ Window(w.lo, Mid(w) - 1, w.ans) \in Windows
              /\ Size(Window(Mid(w) + 1, w.hi, Mid(w))) < Size(w)
              /\ Size(Window(w.lo, Mid(w) - 1, w.ans)) < Size(w)
<1>1. /\ w.lo \in 0 .. Len(starts) /\ w.hi \in -1 .. Len(starts) - 1
      /\ w.ans \in 0 .. Len(starts) - 1 /\ Len(starts) \in Nat
  BY DEF Windows
<1>2. Size(w) \in Nat /\ Size(w) < Len(starts) + 1
  BY <1>1, SMTT(40) DEF Size
<1>3. ASSUME w.lo <= w.hi
      PROVE  /\ Mid(w) \in w.lo .. w.hi /\ Mid(w) \in 0 .. Len(starts) - 1
             /\ Window(Mid(w) + 1, w.hi, Mid(w)) \in Windows
             /\ Window(w.lo, Mid(w) - 1, w.ans) \in Windows
             /\ Size(Window(Mid(w) + 1, w.hi, Mid(w))) < Size(w)
             /\ Size(Window(w.lo, Mid(w) - 1, w.ans)) < Size(w)
  <2>1. Mid(w) \in w.lo .. w.hi
    BY <1>1, <1>3, SMTT(40) DEF Mid
  <2>2. PICK m \in w.lo .. w.hi : m = Mid(w)
    BY <2>1
  <2>3. /\ m \in 0 .. Len(starts) - 1
        /\ Window(m + 1, w.hi, m) \in Windows /\ Window(w.lo, m - 1, w.ans) \in Windows
    BY <1>1, <1>3 DEF Window, Windows
  <2>4. \A lo, hi, ans : Size(Window(lo, hi, ans)) = IF lo > hi THEN 0 ELSE hi - lo + 1
    BY DEF Size, Window
  <2>5. Size(w) = w.hi - w.lo + 1
    BY <1>1, <1>3 DEF Size
  <2>6. Size(Window(m + 1, w.hi, m)) < Size(w)
    BY <1>1, <1>3, <2>4, <2>5, SMTT(40)
  <2>7. Size(Window(w.lo, m - 1, w.ans)) < Size(w)
    BY <1>1, <1>3, <2>4, <2>5, SMTT(40)
  <2> QED
    BY <2>1, <2>2, <2>3, <2>6, <2>7
<1> QED
  BY <1>1, <1>2, <1>3

\* The loop computes what its turns say.
LEMMA SearchUnfolds ==
  ASSUME starts \in Seq(Nat), starts # <<>>, NEW o \in Nat
  PROVE  \A w \in Windows : Searched(o)[w] = SearchAt(Searched(o), o, w)
<1> DEFINE V == 0 .. Len(starts) - 1
           mu == [w \in Windows |-> Size(w)]
           f == [G \in [Windows -> V] |-> [w \in Windows |-> SearchAt(G, o, w)]]
           Solves(F) == F = [w \in Windows |-> SearchAt(F, o, w)]
<1>1. 0 \in V /\ Len(starts) + 1 \in Nat
  OBVIOUS
<1>2. mu \in [Windows -> Nat] /\ \A w \in Windows : mu[w] < Len(starts) + 1
  BY WindowShrinks
<1>3. ASSUME NEW G \in [Windows -> V], NEW w \in Windows PROVE f[G][w] \in V
  <2>1. SearchAt(G, o, w) \in V
    <3>1. CASE w.lo > w.hi
      BY <3>1, WindowShrinks DEF SearchAt
    <3>2. CASE ~ (w.lo > w.hi)
      <4>1. w.lo <= w.hi
        BY <3>2 DEF Windows
      <4> HIDE DEF V
      <4> QED
        BY <3>2, <4>1, WindowShrinks DEF SearchAt, Mid
    <3> QED
      BY <3>1, <3>2
  <2> QED
    BY <2>1
<1>4. ASSUME NEW G, NEW H, NEW w \in Windows,
             \A x \in Windows : mu[x] < mu[w] => G[x] = H[x]
      PROVE  SearchAt(G, o, w) = SearchAt(H, o, w)
  <2>1. CASE w.lo > w.hi
    BY <2>1 DEF SearchAt
  <2>2. CASE ~ (w.lo > w.hi)
    <3>1. w.lo <= w.hi
      BY <2>2 DEF Windows
    <3>2. /\ G[Window(Mid(w) + 1, w.hi, Mid(w))] = H[Window(Mid(w) + 1, w.hi, Mid(w))]
          /\ G[Window(w.lo, Mid(w) - 1, w.ans)] = H[Window(w.lo, Mid(w) - 1, w.ans)]
      BY <1>4, <3>1, WindowShrinks
    <3> QED
      BY <2>2, <3>2 DEF SearchAt, Mid
  <2> QED
    BY <2>1, <2>2
<1>5. \A G, H \in [Windows -> V] : \A w \in Windows :
        (\A x \in Windows : mu[x] < mu[w] => G[x] = H[x]) => f[G][w] = f[H][w]
  <2> HIDE DEF mu, V
  <2> QED
    BY <1>4
<1>6. PICK F \in [Windows -> V] : \A w \in Windows : F[w] = f[F][w]
  <2> DEFINE top == Len(starts) + 1
  <2>1. V # {} /\ Measured(Windows, mu, top)
    BY <1>1, <1>2 DEF Measured
  <2>2. Typed(Windows, V, f)
    BY <1>3 DEF Typed
  <2>3. Local(Windows, V, mu, f)
    BY <1>5 DEF Local
  <2> HIDE DEF V, mu, f, top
  <2>4. Solvable(Windows, V, f)
    BY <2>1, <2>2, <2>3, Recursion
  <2> QED
    BY <2>4 DEF Solvable
<1>7. Solves(F)
  BY <1>6
<1>8. Solves(Searched(o))
  <2>1. Searched(o) = CHOOSE G : Solves(G)
    BY DEF Searched
  <2> HIDE DEF Solves
  <2> QED
    BY <1>7, <2>1
<1> QED
  BY <1>8

\* Bisection finds the line of an offset.
LEMMA SearchFinds ==
  ASSUME LineStarts(text, starts), NEW o \in Nat
  PROVE  IsLine(starts, o, Search(o, Window(0, Len(starts) - 1, 0)))
<1> DEFINE n == Len(starts)
           Ok(w) == /\ starts[w.ans + 1] <= o /\ w.lo <= w.hi + 1
                    /\ w.lo = w.ans + 1 \/ (w.lo = 0 /\ w.ans = 0)
                    /\ \A j \in 1 .. n : j > w.hi + 1 => o < starts[j]
           S == {w \in Windows : Ok(w) => IsLine(starts, o, Searched(o)[w])}
           mu == [w \in Windows |-> Size(w)]
<1>1. /\ starts \in Seq(Nat) /\ starts # <<>> /\ n \in Nat \ {0} /\ starts[1] = 0
      /\ \A j, k \in 1 .. n : j < k => starts[j] < starts[k]
      /\ \A j \in 1 .. n : starts[j] \in Nat
  BY DEF LineStarts
<1>2. ASSUME NEW w \in Windows, \A x \in Windows : mu[x] < mu[w] => x \in S, Ok(w)
      PROVE  IsLine(starts, o, Searched(o)[w])
  <2>0. /\ w.lo \in 0 .. n /\ w.hi \in -1 .. n - 1 /\ w.ans \in 0 .. n - 1
        /\ Searched(o)[w] = SearchAt(Searched(o), o, w)
    BY <1>1, SearchUnfolds DEF Windows
  <2>1. CASE w.lo > w.hi
    <3>1. Searched(o)[w] = w.ans
      BY <2>0, <2>1 DEF SearchAt
    <3>2. \A j \in 1 .. n : j > w.ans + 1 => o < starts[j]
      <4>1. w.ans + 1 >= w.hi + 1
        BY <1>2, <2>0, <2>1
      <4>2. \A j \in 1 .. n : j > w.hi + 1 => o < starts[j]
        BY <1>2
      <4>3. \A j \in 1 .. n : j > w.ans + 1 => j > w.hi + 1
        BY <2>0, <4>1
      <4> QED
        BY <4>2, <4>3
    <3> QED
      BY <1>2, <2>0, <3>1, <3>2 DEF IsLine
  <2>2. CASE ~ (w.lo > w.hi)
    <3> DEFINE up == Window(Mid(w) + 1, w.hi, Mid(w))
               down == Window(w.lo, Mid(w) - 1, w.ans)
    <3>1. w.lo <= w.hi
      BY <2>0, <2>2
    <3>2. /\ up \in Windows /\ down \in Windows /\ mu[up] < mu[w] /\ mu[down] < mu[w]
          /\ Mid(w) \in w.lo .. w.hi
      BY <1>1, <3>1, WindowShrinks
    <3>3. CASE starts[Mid(w) + 1] <= o
      <4>1. Searched(o)[w] = Searched(o)[up]
        BY <2>0, <2>2, <3>3 DEF SearchAt, Mid
      <4>2. Ok(up)
        BY <1>2, <2>0, <3>2, <3>3 DEF Window
      <4> HIDE DEF Ok, up, mu
      <4> QED
        BY <1>2, <3>2, <4>1, <4>2
    <3>4. CASE ~ (starts[Mid(w) + 1] <= o)
      <4>1. Searched(o)[w] = Searched(o)[down]
        BY <2>0, <2>2, <3>4 DEF SearchAt, Mid
      <4>2. Ok(down)
        <5>1. PICK m \in w.lo .. w.hi : m = Mid(w)
          BY <3>2
        <5>2. \A j \in 1 .. n : j > m => o < starts[j]
          <6> SUFFICES ASSUME NEW j \in 1 .. n, j > m PROVE o < starts[j]
            OBVIOUS
          <6>1. m + 1 \in 1 .. n /\ o < starts[m + 1]
            BY <1>1, <2>0, <3>4, <5>1, SMTT(40)
          <6> QED
            BY <1>1, <2>0, <6>1, SMTT(40)
        <5>3. down.lo = w.lo /\ down.hi = m - 1 /\ down.ans = w.ans
          BY <5>1 DEF Window
        <5> HIDE DEF down
        <5> QED
          BY SMTT(40), <1>2, <2>0, <5>1, <5>2, <5>3
      <4> HIDE DEF Ok, down, mu
      <4> QED
        BY <1>2, <3>2, <4>1, <4>2
    <3> QED
      BY <3>3, <3>4
  <2> QED
    BY <2>1, <2>2
<1>3. \A w \in Windows : w \in S
  <2>1. mu \in [Windows -> Nat]
    BY <1>1, WindowShrinks
  <2>2. \A w \in Windows : (\A x \in Windows : mu[x] < mu[w] => x \in S) => w \in S
    <3> HIDE DEF mu, Ok
    <3> QED
      BY <1>2
  <2> HIDE DEF mu, S
  <2> QED
    BY <2>1, <2>2, Below
<1> DEFINE all == Window(0, n - 1, 0)
<1>4. all \in Windows /\ Ok(all)
  BY <1>1 DEF Window, Windows
<1>5. IsLine(starts, o, Searched(o)[all])
  <2> HIDE DEF all, Ok
  <2> QED
    BY <1>3, <1>4
<1> QED
  BY <1>5, SearchIsSearched

\* A text has finitely many line feeds up to an offset.
LEMMA LineFeedsFinite ==
  ASSUME NEW t, NEW o \in Nat
  PROVE  IsFiniteSet(LineFeeds(t, o))
<1>1. LineFeeds(t, o) \subseteq 1 .. o
  BY DEF LineFeeds
<1> QED
  BY <1>1, FS_Interval, FS_Subset

\* The position of an offset, by the line feeds before it.
PositionIn(o) ==
  LET before == {k \in 1 .. o : text[k] = LF}
      last   == IF before = {} THEN 0
                ELSE CHOOSE k \in before : \A j \in before : j <= k
  IN [line |-> 1 + Cardinality(before), col |-> o - last + 1]

\* position_at answers the line and the column counted in the text.
LEMMA PositionFound ==
  ASSUME LineStarts(text, starts), text \in Seq(Byte), NEW o \in 0 .. Len(text)
  PROVE  position_at(o) = PositionIn(o)
<1> DEFINE l == Search(o, Window(0, Len(starts) - 1, 0))
           before == LineFeeds(text, o)
           n == Len(starts)
<1>1. /\ n \in Nat \ {0} /\ starts[1] = 0 /\ Len(text) \in Nat
      /\ \A j \in 1 .. n : starts[j] \in Nat
      /\ \A j \in 2 .. n : starts[j] \in 1 .. Len(text) /\ text[starts[j]] = LF
      /\ \A k \in 1 .. Len(text) : text[k] = LF => \E j \in 2 .. n : starts[j] = k
      /\ \A j \in 1 .. n : Cardinality(LineFeeds(text, starts[j])) = j - 1
      /\ \A j, k \in 1 .. n : j < k => starts[j] < starts[k]
  BY DEF LineStarts
<1>2. IsLine(starts, o, l)
  BY SearchFinds
<1> HIDE DEF l
<1>3. /\ l \in 0 .. n - 1 /\ l + 1 \in 1 .. n /\ l \in Nat /\ starts[l + 1] \in Nat
      /\ starts[l + 1] <= o /\ \A j \in 1 .. n : j > l + 1 => o < starts[j]
  BY <1>1, <1>2 DEF IsLine
<1>4. before = LineFeeds(text, starts[l + 1])
  <2>1. ASSUME NEW k \in before PROVE k <= starts[l + 1]
    <3>1. k \in 1 .. Len(text) /\ k <= o /\ text[k] = LF
      BY DEF LineFeeds
    <3>2. PICK j \in 2 .. n : starts[j] = k
      BY <1>1, <3>1
    <3>3. ~ (j > l + 1)
      BY <1>1, <1>3, <3>1, <3>2
    <3>4. j = l + 1 \/ j < l + 1
      BY <1>1, <1>3, <3>3
    <3> QED
      BY <1>1, <1>3, <3>2, <3>4
  <2> QED
    BY <1>1, <1>3, <2>1 DEF LineFeeds
<1>5. Cardinality(before) = l
  BY <1>1, <1>3, <1>4
<1> DEFINE last == IF before = {} THEN 0
                   ELSE CHOOSE k \in before : \A j \in before : j <= k
<1>6. last = starts[l + 1]
  <2>1. CASE l = 0
    <3>1. before = {}
      BY <1>5, <2>1, LineFeedsFinite, FS_EmptySet
    <3> QED
      BY <1>1, <2>1, <3>1
  <2>2. CASE l # 0
    <3>1. l + 1 \in 2 .. n
      BY <1>1, <1>3, <2>2
    <3>2. starts[l + 1] \in before
      BY <1>1, <1>3, <3>1 DEF LineFeeds
    <3>3. \A k \in before : k <= starts[l + 1]
      BY <1>3, <1>4 DEF LineFeeds
    <3> DEFINE m == CHOOSE k \in before : \A j \in before : j <= k
    <3>4. m \in before /\ \A j \in before : j <= m
      <4> HIDE DEF before
      <4> QED
        BY <3>2, <3>3
    <3>5. m <= starts[l + 1] /\ starts[l + 1] <= m
      BY <3>2, <3>3, <3>4
    <3>6. m \in Nat
      BY <3>4 DEF LineFeeds
    <3>7. last = m
      BY <3>2
    <3> HIDE DEF m, last
    <3> QED
      BY <1>3, <3>5, <3>6, <3>7
  <2> QED
    BY <2>1, <2>2
<1>7. position_at(o) = [line |-> l + 1, col |-> o - starts[l + 1] + 1]
  BY DEF position_at, l
<1>8. PositionIn(o) = [line |-> 1 + Cardinality(before), col |-> o - last + 1]
  BY DEF PositionIn, LineFeeds
<1> HIDE DEF before, last
<1> QED
  BY <1>3, <1>5, <1>6, <1>7, <1>8

\* A byte that is no line feed changes no line start; a line feed adds one.
LEMMA LineStartsGrow ==
  ASSUME NEW t \in Seq(Byte), NEW s, LineStarts(t, s), NEW b \in Byte
  PROVE  LineStarts(Append(t, b), IF b = LF THEN Append(s, Len(t) + 1) ELSE s)
<1> DEFINE u == Append(t, b)
           n == Len(t) + 1
<1>1. /\ s \in Seq(Nat) /\ s # <<>> /\ s[1] = 0 /\ Len(s) \in Nat \ {0}
      /\ \A j, k \in 1 .. Len(s) : j < k => s[j] < s[k]
      /\ \A j \in 2 .. Len(s) : s[j] \in 1 .. Len(t) /\ t[s[j]] = LF
      /\ \A k \in 1 .. Len(t) : t[k] = LF => \E j \in 2 .. Len(s) : s[j] = k
      /\ \A j \in 1 .. Len(s) : Cardinality(LineFeeds(t, s[j])) = j - 1
  BY DEF LineStarts
<1>2. /\ n \in Nat \ {0} /\ Len(u) = n /\ u[n] = b /\ Len(t) \in Nat
      /\ \A k \in 1 .. Len(t) : u[k] = t[k]
  OBVIOUS
<1> HIDE DEF u, n
<1>3. n = Len(t) + 1
  BY DEF n
<1>4. \A j \in 1 .. Len(s) : s[j] \in 0 .. Len(t)
  BY <1>1, <1>2
<1>5. \A o \in 0 .. Len(t) : LineFeeds(u, o) = LineFeeds(t, o)
  BY <1>2 DEF LineFeeds
<1>6. \A j \in 1 .. Len(s) : Cardinality(LineFeeds(u, s[j])) = j - 1
  BY <1>1, <1>4, <1>5
<1>9. /\ \A k \in 1 .. Len(u) : k \in 1 .. Len(t) \/ k = n
      /\ n \in 1 .. Len(u) /\ \A k \in 1 .. Len(t) : k \in 1 .. Len(u)
  BY <1>2, <1>3
<1>7. CASE b # LF
  <2>1. \A j \in 2 .. Len(s) : s[j] \in 1 .. Len(u) /\ u[s[j]] = LF
    BY <1>1, <1>2, <1>9
  <2>2. \A k \in 1 .. Len(u) : u[k] = LF => \E j \in 2 .. Len(s) : s[j] = k
    BY <1>1, <1>2, <1>7, <1>9
  <2> QED
    BY <1>1, <1>6, <1>7, <2>1, <2>2 DEF LineStarts, u
<1>8. CASE b = LF
  <2> DEFINE r == Append(s, n)
             m == Len(s) + 1
  <2>1. /\ r \in Seq(Nat) /\ Len(r) = m /\ r[m] = n /\ m \in Nat \ {0}
        /\ \A j \in 1 .. Len(s) : r[j] = s[j]
    BY <1>1, <1>2
  <2>0. /\ m = Len(s) + 1 /\ m \in 2 .. m
        /\ \A j \in 1 .. m : j \in 1 .. Len(s) \/ j = m
        /\ \A j \in 2 .. m : j \in 2 .. Len(s) \/ j = m
        /\ \A j \in 2 .. Len(s) : j \in 2 .. m /\ j \in 1 .. Len(s)
    BY <1>1
  <2> HIDE DEF r, m
  <2>2. \A j, k \in 1 .. m : j < k => r[j] < r[k]
    <3> SUFFICES ASSUME NEW j \in 1 .. m, NEW k \in 1 .. m, j < k PROVE r[j] < r[k]
      OBVIOUS
    <3>1. j \in 1 .. Len(s)
      BY <1>1, <2>0
    <3>2. CASE k = m
      <4>1. r[j] \in 0 .. Len(t) /\ r[k] = n
        BY <1>4, <2>1, <3>1, <3>2
      <4> QED
        BY <1>2, <1>3, <4>1
    <3>3. CASE k \in 1 .. Len(s)
      BY <1>1, <2>1, <3>1, <3>3
    <3> QED
      BY <2>0, <3>2, <3>3
  <2>3. \A j \in 2 .. m : r[j] \in 1 .. Len(u) /\ u[r[j]] = LF
    <3> SUFFICES ASSUME NEW j \in 2 .. m PROVE r[j] \in 1 .. Len(u) /\ u[r[j]] = LF
      OBVIOUS
    <3>1. CASE j = m
      BY <1>2, <1>8, <1>9, <2>1, <3>1
    <3>2. CASE j \in 2 .. Len(s)
      BY <1>1, <1>2, <1>9, <2>0, <2>1, <3>2
    <3> QED
      BY <2>0, <3>1, <3>2
  <2>4. \A k \in 1 .. Len(u) : u[k] = LF => \E j \in 2 .. m : r[j] = k
    <3> SUFFICES ASSUME NEW k \in 1 .. Len(u), u[k] = LF PROVE \E j \in 2 .. m : r[j] = k
      OBVIOUS
    <3>1. CASE k = n
      BY <2>0, <2>1, <3>1
    <3>2. CASE k \in 1 .. Len(t)
      <4>1. t[k] = LF
        BY <1>2, <3>2
      <4>2. PICK j \in 2 .. Len(s) : s[j] = k
        BY <1>1, <3>2, <4>1
      <4> QED
        BY <2>0, <2>1, <4>2
    <3> QED
      BY <1>9, <3>1, <3>2
  <2>5. \A j \in 1 .. m : Cardinality(LineFeeds(u, r[j])) = j - 1
    <3>1. Cardinality(LineFeeds(u, n)) = m - 1
      <4> DEFINE last == s[Len(s)]
      <4>1. last \in 0 .. Len(t) /\ Cardinality(LineFeeds(u, last)) = Len(s) - 1
        BY <1>1, <1>4, <1>6
      <4>2. \A k \in last + 1 .. Len(t) : u[k] # LF
        <5> SUFFICES ASSUME NEW k \in last + 1 .. Len(t), u[k] = LF PROVE FALSE
          OBVIOUS
        <5>1. k \in 1 .. Len(t) /\ t[k] = LF
          BY <1>2, <4>1
        <5>2. PICK j \in 2 .. Len(s) : s[j] = k
          BY <1>1, <5>1
        <5>3. j = Len(s) \/ j < Len(s)
          BY <1>1
        <5> QED
          BY <1>1, <1>4, <4>1, <5>2, <5>3, SMTT(40)
      <4>3. LineFeeds(u, n) = LineFeeds(u, last) \cup {n} /\ n \notin LineFeeds(u, last)
        <5> HIDE DEF last
        <5>1. last \in 0 .. Len(t)
          BY <4>1
        <5>2. \A k \in 1 .. n : u[k] = LF <=> (k \in 1 .. last /\ u[k] = LF) \/ k = n
          BY <1>2, <1>3, <1>8, <4>2, <5>1
        <5>3. \A k \in 1 .. last : k \in 1 .. n /\ k # n
          BY <1>2, <1>3, <5>1
        <5>4. n \in 1 .. n
          BY <1>2
        <5> QED
          BY <5>2, <5>3, <5>4 DEF LineFeeds
      <4>4. IsFiniteSet(LineFeeds(u, last))
        BY <4>1, LineFeedsFinite
      <4>5. Cardinality(LineFeeds(u, n)) = Cardinality(LineFeeds(u, last)) + 1
        BY <4>3, <4>4, FS_AddElement
      <4> HIDE DEF last
      <4> QED
        BY <1>1, <2>0, <4>1, <4>5
    <3>2. \A j \in 1 .. Len(s) : Cardinality(LineFeeds(u, r[j])) = j - 1
      BY <1>6, <2>1
    <3>3. Cardinality(LineFeeds(u, r[m])) = m - 1
      BY <2>1, <3>1
    <3> QED
      BY <2>0, <3>2, <3>3
  <2>6. r # <<>> /\ r[1] = 0
    <3>1. r[1] = s[1] /\ Len(r) # 0
      BY <1>1, <2>1
    <3> QED
      BY <1>1, <3>1
  <2>7. LineStarts(u, r)
    BY <2>1, <2>2, <2>3, <2>4, <2>5, <2>6 DEF LineStarts
  <2> QED
    BY <1>8, <2>7 DEF r, u, n
<1> QED
  BY <1>7, <1>8

-----------------------------------------------------------------------------
(* Normalising                                                             *)

\* The bytes of the file that are kept, and those of them up to k.
Keep == {k \in DOMAIN raw : ~ (raw[k] = CR /\ k < Len(raw) /\ raw[k + 1] = LF)}
KeptTo(k) == {j \in Keep : j <= k}

\* t is what is kept of the first n bytes, in their order.
Normalized(t, n) ==
  /\ t \in Seq(Byte) /\ Len(t) = Cardinality(KeptTo(n))
  /\ \A k \in KeptTo(n) : t[Cardinality(KeptTo(k))] = raw[k]
  /\ \A m \in 1 .. Len(t) : \E k \in KeptTo(n) : Cardinality(KeptTo(k)) = m

\* The bytes kept up to a place are finitely many, and counted one by one.
LEMMA KeptCounted ==
  ASSUME raw \in Seq(Byte), NEW n \in Nat
  PROVE  /\ IsFiniteSet(KeptTo(n)) /\ Cardinality(KeptTo(n)) \in Nat
         /\ \A k \in KeptTo(n) :
              /\ IsFiniteSet(KeptTo(k))
              /\ Cardinality(KeptTo(k)) \in 1 .. Cardinality(KeptTo(n))
<1>1. ASSUME NEW k \in Nat PROVE IsFiniteSet(KeptTo(k)) /\ Cardinality(KeptTo(k)) \in Nat
  <2>1. KeptTo(k) \subseteq 1 .. Len(raw)
    BY DEF KeptTo, Keep
  <2>2. IsFiniteSet(KeptTo(k))
    BY <2>1, FS_Interval, FS_Subset
  <2> QED
    BY <2>2, FS_CardinalityType
<1>2. ASSUME NEW k \in KeptTo(n) PROVE Cardinality(KeptTo(k)) \in 1 .. Cardinality(KeptTo(n))
  <2>1. k \in Nat /\ k \in KeptTo(k) /\ KeptTo(k) \subseteq KeptTo(n)
    BY DEF KeptTo, Keep
  <2>2. /\ IsFiniteSet(KeptTo(k)) /\ Cardinality(KeptTo(k)) \in Nat
        /\ IsFiniteSet(KeptTo(n)) /\ Cardinality(KeptTo(n)) \in Nat
    BY <1>1, <2>1
  <2>3. Cardinality(KeptTo(k)) <= Cardinality(KeptTo(n))
    BY <2>1, <2>2, FS_Subset
  <2>4. Cardinality(KeptTo(k)) # 0
    BY <2>1, <2>2, FS_EmptySet
  <2> QED
    BY <2>2, <2>3, <2>4
<1>3. \A k \in KeptTo(n) : k \in Nat
  BY DEF KeptTo, Keep
<1> QED
  BY <1>1, <1>2, <1>3

\* The next byte that is kept.
LEMMA NormalizedGrows ==
  ASSUME raw \in Seq(Byte), NEW n \in Nat, NEW t, Normalized(t, n), NEW k \in Keep,
         n < k, KeptTo(k) = KeptTo(n) \cup {k}
  PROVE  Normalized(Append(t, raw[k]), k)
<1> DEFINE u == Append(t, raw[k])
           C(j) == Cardinality(KeptTo(j))
<1>1. k \in Nat /\ k \in 1 .. Len(raw) /\ raw[k] \in Byte
  BY DEF Keep
<1>2. k \notin KeptTo(n)
  BY <1>1 DEF KeptTo
<1>3. /\ C(k) = C(n) + 1 /\ C(n) \in Nat
      /\ \A j \in KeptTo(n) : C(j) \in 1 .. C(n)
  BY <1>2, KeptCounted, FS_AddElement
<1>4. /\ t \in Seq(Byte) /\ Len(t) = C(n)
      /\ \A j \in KeptTo(n) : t[C(j)] = raw[j]
      /\ \A m \in 1 .. Len(t) : \E j \in KeptTo(n) : C(j) = m
  BY DEF Normalized
<1> HIDE DEF C
<1>5. /\ u \in Seq(Byte) /\ Len(u) = C(k) /\ u[C(k)] = raw[k]
      /\ \A m \in 1 .. C(n) : u[m] = t[m]
  BY <1>1, <1>3, <1>4
<1> HIDE DEF u
<1>6. \A j \in KeptTo(k) : u[C(j)] = raw[j]
  BY <1>3, <1>4, <1>5
<1>7. ASSUME NEW m \in 1 .. Len(u) PROVE \E j \in KeptTo(k) : C(j) = m
  <2>1. CASE m = C(k)
    BY <2>1
  <2>2. CASE m # C(k)
    <3>1. m \in 1 .. Len(t)
      BY <1>3, <1>4, <1>5, <2>2
    <3> QED
      BY <1>4, <3>1
  <2> QED
    BY <2>1, <2>2
<1> QED
  BY <1>5, <1>6, <1>7 DEF Normalized, u, C

\* One turn of the loop of normalize_bytes.
LEMMA StepNormalizes ==
  ASSUME raw \in Seq(Byte), NEW n \in 0 .. Len(raw) - 1, Normalized(text, n)
  PROVE  LET b == IF CrLfAt(n) THEN LF ELSE raw[n + 1]
             m == n + (IF CrLfAt(n) THEN 2 ELSE 1)
         IN Normalized(Append(text, b), m) /\ m \in n + 1 .. Len(raw) /\ b \in Byte
<1>1. n \in Nat /\ n + 1 \in 1 .. Len(raw) /\ DOMAIN raw = 1 .. Len(raw) /\ Len(raw) \in Nat
  OBVIOUS
<1>2. CASE CrLfAt(n)
  <2>1. n + 2 \in 1 .. Len(raw) /\ raw[n + 1] = CR /\ raw[n + 2] = LF /\ n + 1 < Len(raw)
    BY <1>1, <1>2 DEF CrLfAt
  <2>2. n + 1 \notin Keep /\ n + 2 \in Keep
    <3>1. (n + 1) + 1 = n + 2 /\ LF # CR
      BY <1>1 DEF LF, CR
    <3> QED
      BY <1>1, <2>1, <3>1 DEF Keep
  <2>3. KeptTo(n + 2) = KeptTo(n) \cup {n + 2}
    <3>1. \A j \in Keep : j <= n + 2 <=> j <= n \/ j = n + 1 \/ j = n + 2
      <4>1. \A j \in Keep : j \in Nat
        BY DEF Keep
      <4> QED
        BY <1>1, <4>1
    <3> QED
      BY <2>2, <3>1 DEF KeptTo
  <2>4. Normalized(Append(text, raw[n + 2]), n + 2)
    <3>1. n < n + 2
      BY <1>1
    <3> QED
      BY <1>1, <2>2, <2>3, <3>1, NormalizedGrows
  <2>5. LF \in Byte
    BY DEF LF, Byte
  <2> QED
    BY <1>1, <1>2, <2>1, <2>4, <2>5
<1>3. CASE ~ CrLfAt(n)
  <2>1. n + 1 \in Keep
    BY <1>1, <1>3 DEF Keep, CrLfAt
  <2>2. KeptTo(n + 1) = KeptTo(n) \cup {n + 1}
    <3>1. \A j \in Keep : j <= n + 1 <=> j <= n \/ j = n + 1
      <4>1. \A j \in Keep : j \in Nat
        BY DEF Keep
      <4> QED
        BY <1>1, <4>1
    <3> QED
      BY <2>1, <3>1 DEF KeptTo
  <2>3. Normalized(Append(text, raw[n + 1]), n + 1)
    <3>1. n < n + 1
      BY <1>1
    <3> QED
      BY <1>1, <2>1, <2>2, <3>1, NormalizedGrows
  <2> QED
    BY <1>1, <1>3, <2>3
<1> QED
  BY <1>2, <1>3

\* At the end the text is the file without the CR of every CRLF.
LEMMA NormalizedWhole ==
  ASSUME raw \in Seq(Byte), Normalized(text, Len(raw))
  PROVE  text = LET keep == {k \in DOMAIN raw :
                               ~ (raw[k] = CR /\ k < Len(raw) /\ raw[k + 1] = LF)}
                IN [n \in 1 .. Cardinality(keep) |->
                      raw[CHOOSE k \in keep : Cardinality({j \in keep : j <= k}) = n]]
<1>1. KeptTo(Len(raw)) = Keep
  BY DEF KeptTo, Keep
<1> DEFINE At(n) == CHOOSE k \in Keep : Cardinality(KeptTo(k)) = n
<1>2. /\ text \in Seq(Byte) /\ Len(text) = Cardinality(Keep)
      /\ \A k \in Keep : text[Cardinality(KeptTo(k))] = raw[k]
      /\ \A m \in 1 .. Len(text) : \E k \in Keep : Cardinality(KeptTo(k)) = m
  BY <1>1 DEF Normalized
<1>3. \A n \in 1 .. Len(text) : text[n] = raw[At(n)]
  <2> SUFFICES ASSUME NEW n \in 1 .. Len(text) PROVE text[n] = raw[At(n)]
    OBVIOUS
  <2>1. At(n) \in Keep /\ Cardinality(KeptTo(At(n))) = n
    BY <1>2
  <2> HIDE DEF At
  <2> QED
    BY <1>2, <2>1
<1>4. text = [n \in 1 .. Cardinality(Keep) |-> raw[At(n)]]
  <2> HIDE DEF At
  <2>1. DOMAIN text = 1 .. Cardinality(Keep) /\ text = [n \in DOMAIN text |-> text[n]]
    BY <1>2
  <2> QED
    BY <1>2, <1>3, <2>1
<1> QED
  BY <1>4 DEF Keep, KeptTo

-----------------------------------------------------------------------------
(* UTF-8                                                                   *)

\* The rows of the table, by the number of bytes.
LEMMA CharacterRows ==
  ASSUME NEW k \in Nat
  PROVE  /\ Character(k, 1) <=> B(k) \in 0 .. 127
         /\ Character(k, 2) <=> B(k) \in 194 .. 223 /\ B(k + 1) \in 128 .. 191
         /\ Character(k, 3) <=>
              /\ B(k + 2) \in 128 .. 191
              /\ \/ B(k) = 224 /\ B(k + 1) \in 160 .. 191
                 \/ B(k) = 237 /\ B(k + 1) \in 128 .. 159
                 \/ B(k) \in 225 .. 236 \cup {238, 239} /\ B(k + 1) \in 128 .. 191
         /\ Character(k, 4) <=>
              /\ B(k + 2) \in 128 .. 191 /\ B(k + 3) \in 128 .. 191
              /\ \/ B(k) = 240 /\ B(k + 1) \in 144 .. 191
                 \/ B(k) \in 241 .. 243 /\ B(k + 1) \in 128 .. 191
                 \/ B(k) = 244 /\ B(k + 1) \in 128 .. 143
<1>1. k + 0 = k /\ k + 0 + 1 = k + 1 /\ k + 1 + 1 = (k + 1) + 1
  OBVIOUS
<1>2. Character(k, 1) <=> B(k) \in 0 .. 127
  BY <1>1 DEF Character, B
<1>3. Character(k, 2) <=> B(k) \in 194 .. 223 /\ B(k + 1) \in 128 .. 191
  BY <1>1 DEF Character, B
<1>4. Character(k, 3) <=>
        /\ B(k + 2) \in 128 .. 191
        /\ \/ B(k) = 224 /\ B(k + 1) \in 160 .. 191
           \/ B(k) = 237 /\ B(k + 1) \in 128 .. 159
           \/ B(k) \in 225 .. 236 \cup {238, 239} /\ B(k + 1) \in 128 .. 191
  <2> DEFINE b == [j \in 0 .. 3 - 1 |-> text[k + j + 1]]
  <2>1. b[0] = B(k) /\ b[1] = B(k + 1) /\ b[2] = B(k + 2)
    BY <1>1 DEF B
  <2>2. (\A j \in 2 .. 3 - 1 : b[j] \in 128 .. 191) <=> b[2] \in 128 .. 191
    <3> HIDE DEF b
    <3> QED
      OBVIOUS
  <2>3. Character(k, 3) <=>
          /\ \A j \in 2 .. 3 - 1 : b[j] \in 128 .. 191
          /\ \/ b[0] \in {224} /\ b[1] \in 160 .. 191
             \/ b[0] \in {237} /\ b[1] \in 128 .. 159
             \/ b[0] \in 225 .. 236 \cup {238, 239} /\ b[1] \in 128 .. 191
    BY DEF Character
  <2> HIDE DEF b
  <2> QED
    BY <2>1, <2>2, <2>3
<1>5. Character(k, 4) <=>
        /\ B(k + 2) \in 128 .. 191 /\ B(k + 3) \in 128 .. 191
        /\ \/ B(k) = 240 /\ B(k + 1) \in 144 .. 191
           \/ B(k) \in 241 .. 243 /\ B(k + 1) \in 128 .. 191
           \/ B(k) = 244 /\ B(k + 1) \in 128 .. 143
  <2> DEFINE b == [j \in 0 .. 4 - 1 |-> text[k + j + 1]]
  <2>1. b[0] = B(k) /\ b[1] = B(k + 1) /\ b[2] = B(k + 2) /\ b[3] = B(k + 3)
    BY <1>1 DEF B
  <2>2. (\A j \in 2 .. 4 - 1 : b[j] \in 128 .. 191)
          <=> b[2] \in 128 .. 191 /\ b[3] \in 128 .. 191
    <3> HIDE DEF b
    <3> QED
      OBVIOUS
  <2>3. Character(k, 4) <=>
          /\ \A j \in 2 .. 4 - 1 : b[j] \in 128 .. 191
          /\ \/ b[0] \in {240} /\ b[1] \in 144 .. 191
             \/ b[0] \in 241 .. 243 /\ b[1] \in 128 .. 191
             \/ b[0] \in {244} /\ b[1] \in 128 .. 143
    BY DEF Character
  <2> HIDE DEF b
  <2> QED
    BY <2>1, <2>2, <2>3
<1> QED
  BY <1>2, <1>3, <1>4, <1>5

\* How many continuation bytes a lead byte asks for.
LEMMA NeedsRows ==
  ASSUME NEW b \in Byte
  PROVE  /\ b \in 194 .. 223 => Needs(b) = 1
         /\ b \in 224 .. 239 => Needs(b) = 2
         /\ b \in 240 .. 244 => Needs(b) = 3
         /\ b < 194 \/ 244 < b => Needs(b) = 0
BY DEF Needs, Byte

\* How far the continuation bytes of a sequence go.
LEMMA ContinuationsFound ==
  ASSUME text \in Seq(Byte), NEW k \in 0 .. Len(text) - 1
  PROVE  LET m == Continuations(k)
         IN /\ Needs(B(k)) \in 0 .. 3 /\ m \in 0 .. Needs(B(k))
            /\ \A j \in 1 .. m : Continues(k + j)
            /\ m < Needs(B(k)) => ~ Continues(k + m + 1)
<1> DEFINE n == Needs(B(k))
           Right(m) == /\ \A j \in 1 .. m : Continues(k + j)
                       /\ m < n => ~ Continues(k + m + 1)
<1>1. n \in 0 .. 3
  BY DEF Needs
<1> HIDE DEF n
<1>2. \E m \in 0 .. n : Right(m)
  <2>1. CASE n = 0 \/ ~ Continues(k + 0 + 1)
    <3>1. Right(0) /\ 0 \in 0 .. n
      BY <1>1, <2>1
    <3> QED
      BY <3>1
  <2>2. CASE n # 0 /\ Continues(k + 1) /\ (n = 1 \/ ~ Continues(k + 1 + 1))
    <3>1. Right(1) /\ 1 \in 0 .. n
      BY <1>1, <2>2
    <3> QED
      BY <3>1
  <2>3. CASE n \in 2 .. 3 /\ Continues(k + 1) /\ Continues(k + 2)
             /\ (n = 2 \/ ~ Continues(k + 2 + 1))
    <3>1. Right(2) /\ 2 \in 0 .. n
      BY <1>1, <2>3
    <3> QED
      BY <3>1
  <2>4. CASE n = 3 /\ Continues(k + 1) /\ Continues(k + 2) /\ Continues(k + 3)
    <3>1. Right(3) /\ 3 \in 0 .. n
      BY <1>1, <2>4
    <3> QED
      BY <3>1
  <2>5. k + 0 + 1 = k + 1 /\ k + 1 + 1 = k + 2 /\ k + 2 + 1 = k + 3
    OBVIOUS
  <2> HIDE DEF Right
  <2> QED
    BY <1>1, <2>1, <2>2, <2>3, <2>4, <2>5
<1>3. Continuations(k) = CHOOSE m \in 0 .. n : Right(m)
  BY DEF Continuations, n
<1>4. Continuations(k) \in 0 .. n /\ Right(Continuations(k))
  <2> HIDE DEF Right
  <2> QED
    BY <1>2, <1>3
<1> QED
  BY <1>1, <1>4 DEF n

\* No part of the text from a up to b is a character.
NoCharacter(a, b) ==
  \A k \in 0 .. Len(text), n \in 1 .. 4 : a <= k /\ k + n <= b => ~ Character(k, n)

\* The code point of three bytes and what the table says of them.
Point3(p, q, r) == (p % 16) * 4096 + (q % 64) * 64 + (r % 64)
Scalar(x)       == x >= 2048 /\ (x < 55296 \/ 57343 < x)
InRow3(p, q)    == \/ p = 224 /\ q \in 160 .. 191
                   \/ p = 237 /\ q \in 128 .. 159
                   \/ p \in 225 .. 236 \cup {238, 239} /\ q \in 128 .. 191

\* The arithmetic of code points and the rows of the table say the same.
LEMMA ThreeBytes ==
  ASSUME NEW p \in 224 .. 239, NEW q \in 128 .. 191, NEW r \in 128 .. 191
  PROVE  Scalar(Point3(p, q, r)) <=> InRow3(p, q)
<1> DEFINE b == p - 224
           c == q - 128
           d == r - 128
<1>1. /\ b \in 0 .. 15 /\ c \in 0 .. 63 /\ d \in 0 .. 63
      /\ p = 224 + b /\ q = 128 + c /\ r = 128 + d
  OBVIOUS
<1> HIDE DEF b, c, d
<1>2. p % 16 = b /\ q % 64 = c /\ r % 64 = d
  BY <1>1
<1> DEFINE x == b * 4096 + c * 64 + d
<1>3. Scalar(x) <=> \/ b = 0 /\ c \in 32 .. 63
                    \/ b = 13 /\ c \in 0 .. 31
                    \/ b \in 1 .. 12 \cup {14, 15}
  BY <1>1 DEF Scalar
<1>4. InRow3(p, q) <=> \/ b = 0 /\ c \in 32 .. 63
                       \/ b = 13 /\ c \in 0 .. 31
                       \/ b \in 1 .. 12 \cup {14, 15}
  BY <1>1 DEF InRow3
<1>5. Point3(p, q, r) = x
  BY <1>2 DEF Point3
<1> QED
  BY <1>3, <1>4, <1>5

Trail == 128 .. 191
Leads == 240 .. 244
Point(p, q, r, s) == (p % 8) * 262144 + (q % 64) * 4096 + (r % 64) * 64 + (s % 64)
InRange(p, q, r, s) == 65536 <= Point(p, q, r, s) /\ Point(p, q, r, s) <= 1114111
InRow(p, q) == \/ p = 240 /\ q \in 144 .. 191
               \/ p \in 241 .. 243 /\ q \in 128 .. 191
               \/ p = 244 /\ q \in 128 .. 143

\* The same for four bytes.
LEMMA FourBytes ==
  ASSUME NEW p \in Leads, NEW q \in Trail, NEW r \in Trail, NEW s \in Trail
  PROVE  InRange(p, q, r, s) <=> InRow(p, q)
<1> DEFINE b == p - 240
           c == q - 128
           d == r - 128
           e == s - 128
<1>1. /\ b \in 0 .. 4 /\ c \in 0 .. 63 /\ d \in 0 .. 63 /\ e \in 0 .. 63
      /\ p = 240 + b /\ q = 128 + c /\ r = 128 + d /\ s = 128 + e
  BY DEF Leads, Trail
<1> HIDE DEF b, c, d, e
<1>2. p % 8 = b /\ q % 64 = c /\ r % 64 = d /\ s % 64 = e
  BY <1>1
<1> DEFINE x == b * 262144 + c * 4096 + d * 64 + e
<1>3. Point(p, q, r, s) = x
  BY <1>2 DEF Point
<1>4. 65536 <= x /\ x <= 1114111
        <=> \/ b = 0 /\ c \in 16 .. 63
            \/ b \in 1 .. 3
            \/ b = 4 /\ c \in 0 .. 15
  BY <1>1
<1>5. InRow(p, q)
        <=> \/ b = 0 /\ c \in 16 .. 63
            \/ b \in 1 .. 3
            \/ b = 4 /\ c \in 0 .. 15
  BY <1>1 DEF InRow
<1> QED
  BY <1>3, <1>4, <1>5 DEF InRange

\* Encodes accepts what the rows of the table accept.
LEMMA EncodesRow ==
  ASSUME text \in Seq(Byte), NEW k \in 0 .. Len(text) - 1,
         \A j \in 1 .. Needs(B(k)) : B(k + j) \in 128 .. 191
  PROVE  /\ B(k) \in 224 .. 239 => (Encodes(k) <=> Character(k, 3))
         /\ B(k) \in 240 .. 244 => (Encodes(k) <=> Character(k, 4))
<1>0. B(k) \in Byte
  BY SMTT(40) DEF B
<1>1. ASSUME B(k) \in 224 .. 239 PROVE Encodes(k) <=> Character(k, 3)
  <2>1. Needs(B(k)) = 2
    BY <1>0, <1>1, NeedsRows
  <2>2. PICK p \in 224 .. 239, q \in 128 .. 191, r \in 128 .. 191 :
          p = B(k) /\ q = B(k + 1) /\ r = B(k + 2)
    <3>1. B(k + 1) \in 128 .. 191 /\ B(k + 2) \in 128 .. 191
      BY <2>1
    <3> QED
      BY <1>1, <3>1
  <2>3. CodePoint(k) = Point3(p, q, r)
    BY <2>1, <2>2 DEF CodePoint, Point3
  <2>4. Encodes(k) <=> Scalar(Point3(p, q, r))
    BY <2>1, <2>3 DEF Encodes, Scalar
  <2>5. Character(k, 3) <=> InRow3(p, q)
    <3>1. Character(k, 3) <=>
            /\ B(k + 2) \in 128 .. 191
            /\ \/ B(k) = 224 /\ B(k + 1) \in 160 .. 191
               \/ B(k) = 237 /\ B(k + 1) \in 128 .. 159
               \/ B(k) \in 225 .. 236 \cup {238, 239} /\ B(k + 1) \in 128 .. 191
      BY CharacterRows
    <3> QED
      BY <2>2, <3>1, ZenonT(60) DEF InRow3
  <2> QED
    BY ZenonT(60), <2>4, <2>5, ThreeBytes
<1>2. ASSUME B(k) \in 240 .. 244 PROVE Encodes(k) <=> Character(k, 4)
  <2>1. Needs(B(k)) = 3
    BY <1>0, <1>2, NeedsRows
  <2> DEFINE p == B(k)
             q == B(k + 1)
             r == B(k + 2)
             s == B(k + 3)
  <2>2. p \in Leads /\ q \in Trail /\ r \in Trail /\ s \in Trail
    BY <1>2, <2>1 DEF Leads, Trail
  <2>3. CodePoint(k) = Point(p, q, r, s)
    BY <2>1 DEF CodePoint, Point
  <2>4. Encodes(k) <=> InRange(p, q, r, s)
    BY <2>1, <2>3 DEF Encodes, InRange
  <2>5. Character(k, 4) <=> InRow(p, q)
    <3>1. Character(k, 4) <=>
            /\ B(k + 2) \in 128 .. 191 /\ B(k + 3) \in 128 .. 191
            /\ \/ B(k) = 240 /\ B(k + 1) \in 144 .. 191
               \/ B(k) \in 241 .. 243 /\ B(k + 1) \in 128 .. 191
               \/ B(k) = 244 /\ B(k + 1) \in 128 .. 143
      BY CharacterRows
    <3> QED
      BY <2>2, <3>1, Zenon DEF Trail, InRow
  <2> HIDE DEF p, q, r, s
  <2> QED
    BY <2>2, <2>4, <2>5, FourBytes
<1> QED
  BY <1>1, <1>2

\* The kinds of bytes.
LEMMA Ascii ==
  ASSUME NEW b \in 0 .. 127
  PROVE  b < 128 /\ ~ (b >= 128) /\ Needs(b) = 0
BY DEF Needs

\* A continuation byte is not one of ASCII.
LEMMA TrailByte ==
  ASSUME NEW b \in 128 .. 191
  PROVE  b \in Byte /\ b >= 128
BY DEF Byte

\* The kinds of lead byte.
LEMMA ByteKinds ==
  ASSUME NEW b
  PROVE  /\ b \in 0 .. 127 => b < 128 /\ ~ (b >= 128) /\ Needs(b) = 0
         /\ b \in 128 .. 191 => b \in Byte /\ b >= 128 /\ ~ (b >= 194) /\ ~ (b < 128)
         /\ b \in 194 .. 223 => Needs(b) = 1 /\ ~ (b < 128) /\ b >= 194
         /\ b \in 224 .. 239 => Needs(b) = 2 /\ ~ (b < 128) /\ b >= 194
         /\ b \in 240 .. 244 => Needs(b) = 3 /\ ~ (b < 128) /\ b >= 194
<1>1. b \in 0 .. 127 => b < 128 /\ ~ (b >= 128) /\ Needs(b) = 0
  BY DEF Needs
<1>2. b \in 128 .. 191 => b \in Byte /\ b >= 128 /\ ~ (b >= 194) /\ ~ (b < 128)
  BY DEF Byte
<1>3. b \in 194 .. 223 => Needs(b) = 1 /\ ~ (b < 128) /\ b >= 194
  BY DEF Needs
<1>4. b \in 224 .. 239 => Needs(b) = 2 /\ ~ (b < 128) /\ b >= 194
  BY DEF Needs
<1>5. b \in 240 .. 244 => Needs(b) = 3 /\ ~ (b < 128) /\ b >= 194
  BY DEF Needs
<1> QED
  BY <1>1, <1>2, <1>3, <1>4, <1>5

\* A character begins with a lead byte, which says its size.
LEMMA CharacterLead ==
  ASSUME text \in Seq(Byte), NEW k \in 0 .. Len(text) - 1, NEW n \in 1 .. 4, Character(k, n)
  PROVE  /\ n = Needs(B(k)) + 1
         /\ B(k) < 128 => n = 1
         /\ B(k) >= 128 => B(k) >= 194 /\ n > 1
<1>0. B(k) \in Byte /\ k \in Nat
  BY DEF B
<1>1. CASE n = 1
  <2>1. B(k) \in 0 .. 127
    BY <1>0, <1>1, CharacterRows
  <2> QED
    <3>1. Needs(B(k)) = 0 /\ B(k) < 128 /\ ~ (B(k) >= 128)
      BY <2>1, Ascii
    <3> QED
      BY <1>1, <3>1
<1>2. CASE n = 2
  <2>1. B(k) \in 194 .. 223
    BY <1>0, <1>2, CharacterRows
  <2> QED
    <3>1. Needs(B(k)) = 1 /\ ~ (B(k) < 128) /\ B(k) >= 194
      BY <2>1, ByteKinds
    <3> QED
      BY <1>2, <3>1
<1>3. CASE n = 3
  <2>1. B(k) = 224 \/ B(k) = 237 \/ B(k) \in 225 .. 236 \cup {238, 239}
    BY <1>0, <1>3, CharacterRows
  <2>2. B(k) \in 224 .. 239
    BY <2>1
  <2> QED
    <3>1. Needs(B(k)) = 2 /\ ~ (B(k) < 128) /\ B(k) >= 194
      BY <2>2, ByteKinds
    <3> QED
      BY <1>3, <3>1
<1>4. CASE n = 4
  <2>1. B(k) = 240 \/ B(k) \in 241 .. 243 \/ B(k) = 244
    BY <1>0, <1>4, CharacterRows
  <2>2. B(k) \in 240 .. 244
    BY <2>1
  <2> QED
    <3>1. Needs(B(k)) = 3 /\ ~ (B(k) < 128) /\ B(k) >= 194
      BY <2>2, ByteKinds
    <3> QED
      BY <1>4, <3>1
<1> QED
  BY <1>1, <1>2, <1>3, <1>4

\* A sequence is a character, or a run that is reported and holds none.
Whole(k, q) == q.found = <<>> /\ Character(k, q.size)
Reported(k, q) == /\ q.found = <<Finding("AIC-L0001", k, k + q.size)>>
                  /\ NoCharacter(k, k + q.size)

\* What scan_utf8_sequence finds: one whole character, or a run without one.
LEMMA SequenceShape ==
  ASSUME text \in Seq(Byte), NEW k \in 0 .. Len(text) - 1, B(k) >= 128
  PROVE  LET q == SequenceAt(k)
         IN /\ q.size \in 1 .. 4 /\ k + q.size <= Len(text)
            /\ \A j \in k .. k + q.size - 1 : B(j) \in Byte /\ B(j) >= 128
            /\ Whole(k, q) \/ Reported(k, q)
<1> DEFINE q == SequenceAt(k)
           m == Continuations(k)
           n == Needs(B(k))
           valid == n > 0 /\ m = n /\ Encodes(k)
<1>0. B(k) \in Byte /\ k \in Nat /\ Len(text) \in Nat
  BY DEF B
<1>1. /\ n \in 0 .. 3 /\ m \in 0 .. n /\ \A j \in 1 .. m : Continues(k + j)
  BY ContinuationsFound
<1>2. q.size = m + 1 /\ q.found = IF valid THEN <<>> ELSE <<Finding("AIC-L0001", k, k + m + 1)>>
  BY DEF SequenceAt
<1> HIDE DEF m, n, q
<1>3. \A j \in 1 .. m : k + j < Len(text) /\ B(k + j) \in 128 .. 191
  BY <1>1 DEF Continues, Have
<1>4. q.size \in 1 .. 4 /\ k + q.size <= Len(text)
  <2>1. CASE m = 0
    BY <1>0, <1>2, <2>1
  <2>2. CASE m # 0
    <3>1. m \in 1 .. m
      BY <1>1, <2>2
    <3> QED
      BY <1>0, <1>1, <1>2, <1>3, <3>1
  <2> QED
    BY <2>1, <2>2
<1>5. \A j \in k + 1 .. k + q.size - 1 : B(j) \in 128 .. 191
  <2> SUFFICES ASSUME NEW j \in k + 1 .. k + q.size - 1 PROVE B(j) \in 128 .. 191
    OBVIOUS
  <2>1. j - k \in 1 .. m /\ k + (j - k) = j
    BY SMTT(40), <1>0, <1>1, <1>2
  <2> QED
    BY <1>3, <2>1
<1>6. \A j \in k .. k + q.size - 1 : B(j) \in Byte /\ B(j) >= 128
  <2> SUFFICES ASSUME NEW j \in k .. k + q.size - 1 PROVE B(j) \in Byte /\ B(j) >= 128
    OBVIOUS
  <2>1. CASE j = k
    BY <1>0, <2>1
  <2>2. CASE j # k
    <3>1. j \in k + 1 .. k + q.size - 1
      BY <1>0, <1>4, <2>2
    <3>2. B(j) \in 128 .. 191
      BY <1>5, <3>1
    <3> QED
      BY <3>2, TrailByte
  <2> QED
    BY <2>1, <2>2
<1>7. ASSUME m = n
      PROVE  /\ B(k) \in 224 .. 239 => (Encodes(k) <=> Character(k, 3))
             /\ B(k) \in 240 .. 244 => (Encodes(k) <=> Character(k, 4))
  <2>1. \A j \in 1 .. Needs(B(k)) : B(k + j) \in 128 .. 191
    BY <1>3, <1>7 DEF n
  <2> QED
    BY <2>1, EncodesRow
<1>8. CASE valid
  <2>1. CASE n = 1
    <3>1. B(k) \in 194 .. 223
      BY <1>0, <2>1 DEF n, Needs
    <3>2. B(k + 1) \in 128 .. 191
      BY <1>3, <1>8, <2>1
    <3>3. Character(k, 2)
      BY <1>0, <3>1, <3>2, CharacterRows
    <3> QED
      BY <1>2, <1>4, <1>6, <1>8, <2>1, <3>3 DEF Whole, q
  <2>2. CASE n = 2
    <3>1. B(k) \in 224 .. 239
      BY <1>0, <2>2 DEF n, Needs
    <3>2. Character(k, 3)
      BY <1>7, <1>8, <3>1
    <3> QED
      BY <1>2, <1>4, <1>6, <1>8, <2>2, <3>2 DEF Whole, q
  <2>3. CASE n = 3
    <3>1. B(k) \in 240 .. 244
      BY <1>0, <2>3 DEF n, Needs
    <3>2. Character(k, 4)
      BY <1>7, <1>8, <3>1
    <3> QED
      BY <1>2, <1>4, <1>6, <1>8, <2>3, <3>2 DEF Whole, q
  <2> QED
    BY <1>1, <1>8, <2>1, <2>2, <2>3
<1>9. CASE ~ valid
  <2>1. NoCharacter(k, k + q.size)
    <3> SUFFICES ASSUME NEW a \in 0 .. Len(text), NEW s \in 1 .. 4, k <= a, a + s <= k + q.size,
                        Character(a, s)
                 PROVE  FALSE
      BY DEF NoCharacter
    <3>1. a \in 0 .. Len(text) - 1 /\ a \in k .. k + q.size - 1
      BY SMTT(40), <1>0, <1>4
    <3>2. s = Needs(B(a)) + 1 /\ (B(a) >= 128 => B(a) >= 194 /\ s > 1)
      BY <3>1, CharacterLead
    <3>3. B(a) \in Byte /\ B(a) >= 194 /\ s > 1
      BY <1>6, <3>1, <3>2
    <3>4. a = k
      <4>1. CASE a \in k + 1 .. k + q.size - 1
        <5>1. B(a) \in 128 .. 191
          BY <1>5, <4>1
        <5> QED
          BY <3>3, <5>1, ByteKinds
      <4> QED
        BY <3>1, <4>1
    <3>5. s = n + 1 /\ n >= 1 /\ m = n
      <4>1. s = n + 1
        BY <3>2, <3>4 DEF n
      <4> QED
        BY <1>0, <1>1, <1>2, <1>4, <3>3, <3>4, <4>1
    <3>6. ~ Encodes(k)
      BY <1>1, <1>9, <3>5
    <3>7. CASE n = 1
      <4>1. Encodes(k)
        BY <3>7 DEF Encodes, n
      <4> QED
        BY <3>6, <4>1
    <3>8. CASE n = 2
      <4>1. B(k) \in 224 .. 239
        BY <1>0, <3>8 DEF n, Needs
      <4> QED
        BY <1>7, <3>4, <3>5, <3>6, <3>8, <4>1
    <3>9. CASE n = 3
      <4>1. B(k) \in 240 .. 244
        BY <1>0, <3>9 DEF n, Needs
      <4> QED
        BY <1>7, <3>4, <3>5, <3>6, <3>9, <4>1
    <3> QED
      BY <1>1, <3>5, <3>7, <3>8, <3>9
  <2>2. q.found = <<Finding("AIC-L0001", k, k + q.size)>>
    <3>1. k + m + 1 = k + q.size
      BY <1>0, <1>1, <1>2
    <3> QED
      BY <1>2, <1>9, <3>1
  <2> QED
    BY <1>4, <1>6, <2>1, <2>2 DEF Reported, q
<1> QED
  BY <1>8, <1>9

-----------------------------------------------------------------------------
(* The text as a row of characters and of runs                             *)

RunsOf(rs) == {r \in Range(rs) : r.code = "AIC-L0001"}

\* A record of the scan marks a part of the text.
Marks(rs) == \A r \in Range(rs) : /\ r.start \in 0 .. Len(text) /\ r.end \in 0 .. Len(text)
                                  /\ r.start < r.end

Piece(rs, p, q) == \/ \E n \in 1 .. 4 : q = p + n /\ Character(p, n)
                   \/ \E r \in RunsOf(rs) : r.start = p /\ r.end = q

\* The text up to n is a row of pieces.
Row(rs, P, n)  == /\ P \subseteq 0 .. n /\ 0 \in P /\ n \in P
                  /\ \A p \in P \ {n} : \E q \in P : p < q /\ Piece(rs, p, q)
Tiled(rs, n)   == \E P \in SUBSET (0 .. n) : Row(rs, P, n)

\* The empty text is tiled.
LEMMA TiledBegins ==
  ASSUME NEW rs
  PROVE  Tiled(rs, 0)
<1>1. {0} \in SUBSET (0 .. 0) /\ Row(rs, {0}, 0)
  BY DEF Row
<1> QED
  BY <1>1 DEF Tiled

\* One more piece tiles the text up to its end.
LEMMA TiledGrows ==
  ASSUME NEW n \in Nat, NEW m \in Nat, n < m, NEW rs, NEW ss, Tiled(rs, n),
         RunsOf(rs) \subseteq RunsOf(ss), Piece(ss, n, m)
  PROVE  Tiled(ss, m)
<1>1. PICK P \in SUBSET (0 .. n) : Row(rs, P, n)
  BY DEF Tiled
<1> DEFINE Q == P \cup {m}
<1>2. Q \in SUBSET (0 .. m) /\ 0 \in Q /\ m \in Q
  BY <1>1 DEF Row
<1>3. ASSUME NEW p \in Q \ {m} PROVE \E q \in Q : p < q /\ Piece(ss, p, q)
  <2>1. CASE p = n
    BY <2>1
  <2>2. CASE p # n
    <3>1. p \in P \ {n}
      BY <2>2
    <3>2. PICK q \in P : p < q /\ Piece(rs, p, q)
      BY <1>1, <3>1 DEF Row
    <3>3. Piece(ss, p, q)
      BY <3>2 DEF Piece
    <3> QED
      BY <3>2, <3>3
  <2> QED
    BY <2>1, <2>2
<1>4. Row(ss, Q, m)
  BY <1>2, <1>3 DEF Row
<1> HIDE DEF Q
<1> QED
  BY <1>2, <1>4 DEF Tiled

\* One turn of the recursion of Splits.
SplitAt(F, k) ==
  \/ k = Len(text)
  \/ \E n \in 1 .. 4 : k + n <= Len(text) /\ Character(k, n) /\ F[k + n]
  \/ \E r \in Runs : r.start = k /\ F[r.end]

\* A text that is tiled splits, by the recursion of Splits.
LEMMA TiledSplits ==
  ASSUME text \in Seq(Byte), Marks(scan_records), Tiled(scan_records, Len(text))
  PROVE  Splits
<1> DEFINE n == Len(text)
           I == 0 .. n
           mu == [k \in I |-> n - k]
           f == [G \in [I -> BOOLEAN] |-> [k \in I |-> SplitAt(G, k)]]
           Right(F) == F = [k \in I |-> SplitAt(F, k)]
           S == CHOOSE F : Right(F)
<1>1. n \in Nat /\ n + 1 \in Nat /\ Runs = RunsOf(scan_records)
  BY DEF Runs, RunsOf
<1>2. \A r \in Runs : r.start \in I /\ r.end \in I /\ r.start < r.end
  BY DEF Marks, Runs
<1>3. Measured(I, mu, n + 1)
  BY <1>1 DEF Measured
<1>4. Typed(I, BOOLEAN, f)
  <2>1. ASSUME NEW G, NEW k PROVE SplitAt(G, k) \in BOOLEAN
    BY DEF SplitAt
  <2> QED
    BY <2>1 DEF Typed
<1>5. Local(I, BOOLEAN, mu, f)
  <2>1. ASSUME NEW G \in [I -> BOOLEAN], NEW H \in [I -> BOOLEAN], NEW k \in I,
               \A j \in I : mu[j] < mu[k] => G[j] = H[j]
        PROVE  SplitAt(G, k) = SplitAt(H, k)
    <3>1. \A j \in I : k < j => G[j] = H[j]
      BY <1>1, <2>1
    <3>2. ASSUME NEW m \in 1 .. 4, k + m <= n PROVE G[k + m] = H[k + m]
      <4>1. k + m \in I /\ k < k + m
        BY <1>1, <3>2
      <4> QED
        BY <3>1, <4>1
    <3>3. ASSUME NEW r \in Runs, r.start = k PROVE G[r.end] = H[r.end]
      BY <1>2, <3>1, <3>3
    <3> QED
      BY <3>2, <3>3 DEF SplitAt
  <2> HIDE DEF I, mu
  <2>2. \A G, H \in [I -> BOOLEAN] : \A k \in I :
          (\A j \in I : mu[j] < mu[k] => G[j] = H[j]) => f[G][k] = f[H][k]
    BY <2>1
  <2> QED
    BY <2>2 DEF Local
<1>6. PICK F \in [I -> BOOLEAN] : \A k \in I : F[k] = f[F][k]
  <2> HIDE DEF I, mu, f
  <2>1. Solvable(I, BOOLEAN, f)
    BY <1>1, <1>3, <1>4, <1>5, Recursion
  <2> QED
    BY <2>1 DEF Solvable
<1>7. Right(F)
  BY <1>6
<1>8. Right(S)
  <2> HIDE DEF Right
  <2> QED
    BY <1>7
<1>9. Splits = S[0]
  BY DEF Splits, SplitAt
<1>10. PICK P \in SUBSET (0 .. n) : Row(scan_records, P, n)
  BY DEF Tiled
<1> DEFINE GoodEnds == {k \in I : k \in P => S[k]}
<1>11. ASSUME NEW k \in I, \A j \in I : mu[j] < mu[k] => j \in GoodEnds PROVE k \in GoodEnds
  <2> SUFFICES ASSUME k \in P PROVE S[k]
    OBVIOUS
  <2>0. S[k] = SplitAt(S, k)
    <3> HIDE DEF S
    <3> QED
      BY <1>8
  <2> HIDE DEF S
  <2>1. CASE k = n
    BY <2>0, <2>1 DEF SplitAt
  <2>2. CASE k # n
    <3>1. PICK q \in P : k < q /\ Piece(scan_records, k, q)
      BY <1>10, <2>2 DEF Row
    <3>2. q \in I /\ S[q]
      BY <1>1, <1>11, <3>1
    <3>3. CASE \E m \in 1 .. 4 : q = k + m /\ Character(k, m)
      BY <2>0, <3>2, <3>3 DEF SplitAt
    <3>4. CASE \E r \in Runs : r.start = k /\ r.end = q
      BY <2>0, <3>2, <3>4 DEF SplitAt
    <3> QED
      BY <1>1, <3>1, <3>3, <3>4 DEF Piece
  <2> QED
    BY <2>1, <2>2
<1>12. \A k \in I : k \in GoodEnds
  <2>1. mu \in [I -> Nat]
    BY <1>3 DEF Measured
  <2> HIDE DEF mu, GoodEnds, I
  <2> QED
    BY <1>11, <2>1, Below
<1>13. 0 \in P /\ 0 \in I
  BY <1>1, <1>10 DEF Row
<1> HIDE DEF S
<1> QED
  BY <1>9, <1>12, <1>13

-----------------------------------------------------------------------------
(* What the lexer skips                                                    *)

\* The least of a set of positions.
LEMMA Least ==
  ASSUME NEW P \in SUBSET Nat, P # {}
  PROVE  Min(P) \in P /\ \A k \in P : Min(P) <= k
<1>1. PICK n \in P : \A m \in P : ~ (<<m, n>> \in OpToRel(<, Nat))
  BY WFMin, NatLessThanWellFounded
<1>3. \A m \in P : ~ (m < n)
  BY <1>1 DEF OpToRel
<1>2. \A m \in P : n <= m
  BY <1>3
<1> QED
  BY <1>2 DEF Min

\* Min, of the lexer, is the least.
LEMMA LeastIs ==
  ASSUME NEW P \in SUBSET Nat, NEW n \in P, \A m \in P : n <= m
  PROVE  Min(P) = n
<1>1. Min(P) \in P /\ Min(P) <= n
  BY Least
<1>2. PICK m \in P : m = Min(P) /\ m <= n
  BY <1>1
<1>3. m = n
  BY <1>2
<1> QED
  BY <1>2, <1>3

\* A line comment goes on up to the next line feed.
LEMMA LineEnds ==
  ASSUME text \in Seq(Byte), NEW p \in 0 .. Len(text)
  PROVE  /\ LineEnd(p) \in p .. Len(text)
         /\ LineEnd(p) = Len(text) \/ (LineEnd(p) < Len(text) /\ B(LineEnd(p)) = LF)
         /\ p = Len(text) => LineEnd(p) = p
         /\ p < Len(text) /\ B(p) = LF => LineEnd(p) = p
         /\ p < Len(text) /\ B(p) # LF => LineEnd(p) = LineEnd(p + 1)
<1> DEFINE Ends_(q) == {k \in q .. Len(text) : k = Len(text) \/ text[k + 1] = LF}
<1>1. \A q : LineEnd(q) = Min(Ends_(q))
  BY DEF LineEnd, B
<1>2. \A q \in 0 .. Len(text) : Ends_(q) \in SUBSET Nat /\ Len(text) \in Ends_(q)
  OBVIOUS
<1>3. LineEnd(p) \in Ends_(p)
  <2> HIDE DEF Ends_
  <2> QED
    BY <1>1, <1>2, Least
<1>4. ASSUME p = Len(text) \/ B(p) = LF PROVE LineEnd(p) = p
  <2>1. p \in Ends_(p) /\ \A m \in Ends_(p) : p <= m
    BY <1>4 DEF B
  <2> HIDE DEF Ends_
  <2> QED
    BY <1>1, <1>2, <2>1, LeastIs
<1>5. ASSUME p < Len(text), B(p) # LF PROVE LineEnd(p) = LineEnd(p + 1)
  <2>1. Ends_(p) = Ends_(p + 1)
    BY <1>5 DEF B
  <2> HIDE DEF Ends_
  <2> QED
    BY <1>1, <2>1
<1> QED
  BY <1>3, <1>4, <1>5 DEF B

\* A block comment goes on up to the next star and slash.
Closing(k) == k + 1 < Len(text) /\ B(k) = Star /\ B(k + 1) = Slash

\* A block comment goes on up to the next star and slash.
LEMMA BlockEnds ==
  ASSUME text \in Seq(Byte), NEW p \in 0 .. Len(text)
  PROVE  /\ Closings(p) \in SUBSET Nat
         /\ Closings(p) # {} =>
              /\ Min(Closings(p)) \in p .. Len(text) - 2
              /\ Min(Closings(p)) + 2 \in p + 2 .. Len(text)
         /\ p = Len(text) => Closings(p) = {}
         /\ p < Len(text) /\ Closing(p) => Closings(p) # {} /\ Min(Closings(p)) = p
         /\ p < Len(text) /\ ~ Closing(p) => Closings(p) = Closings(p + 1)
<1>1. \A q \in 0 .. Len(text) : Closings(q) = {k \in q .. Len(text) - 2 : Closing(k)}
  <2> SUFFICES ASSUME NEW q \in 0 .. Len(text)
               PROVE  Closings(q) = {k \in q .. Len(text) - 2 : Closing(k)}
    OBVIOUS
  <2>1. \A k \in q .. Len(text) - 2 :
          Is(k, Star) /\ Is(k + 1, Slash) <=> Closing(k)
    <3>1. \A k \in q .. Len(text) - 2 : k < Len(text) /\ k + 1 < Len(text)
      OBVIOUS
    <3> QED
      BY <3>1 DEF Is, Have, Closing, B
  <2> QED
    BY <2>1 DEF Closings
<1>2. Closings(p) \in SUBSET (p .. Len(text) - 2) /\ Len(text) \in Nat
  BY <1>1
<1>3. Closings(p) \in SUBSET Nat
  BY <1>2
<1>4. ASSUME Closings(p) # {} PROVE Min(Closings(p)) \in p .. Len(text) - 2
  BY <1>2, <1>3, <1>4, Least
<1>5. ASSUME p = Len(text) PROVE Closings(p) = {}
  BY <1>2, <1>5
<1>6. ASSUME p < Len(text), Closing(p) PROVE Closings(p) # {} /\ Min(Closings(p)) = p
  <2>1. p \in Closings(p) /\ \A m \in Closings(p) : p <= m
    BY <1>1, <1>6 DEF Closing
  <2> QED
    BY <1>3, <2>1, LeastIs
<1>7. ASSUME p < Len(text), ~ Closing(p) PROVE Closings(p) = Closings(p + 1)
  <2>1. p + 1 \in 0 .. Len(text)
    BY <1>7
  <2>2. \A k \in p .. Len(text) - 2 : Closing(k) => k \in p + 1 .. Len(text) - 2
    BY <1>7
  <2>3. \A k \in p + 1 .. Len(text) - 2 : k \in p .. Len(text) - 2
    OBVIOUS
  <2> HIDE DEF Closing
  <2> QED
    BY <1>1, <2>1, <2>2, <2>3
<1> QED
  BY <1>2, <1>3, <1>4, <1>5, <1>6, <1>7

\* One turn of the loop of skip_trivia.
OpensLineAt(p)  == p + 1 < Len(text) /\ B(p) = Slash /\ B(p + 1) = Slash
OpensBlockAt(p) == p + 1 < Len(text) /\ B(p) = Slash /\ B(p + 1) = Star

SkipAt(F, p) ==
  IF p < Len(text) /\ B(p) \in Blank THEN F[p + 1]
  ELSE IF OpensLineAt(p) THEN F[LineEnd(p)]
  ELSE IF ~ OpensBlockAt(p) THEN [end |-> p, found |-> <<>>]
  ELSE IF Closings(p + 2) # {} THEN F[Min(Closings(p + 2)) + 2]
  ELSE [end |-> Len(text), found |-> <<Finding("AIC-L0004", p, Len(text))>>]

Skipped == CHOOSE F : F = [p \in 0 .. Len(text) |-> SkipAt(F, p)]

\* skip_trivia is the function its recursion defines.
LEMMA SkipIsSkipped ==
  ASSUME text \in Seq(Byte), NEW from
  PROVE  skip_trivia(from) = Skipped[from]
<1> DEFINE Skip(F, p) ==
        IF Have(p) /\ B(p) \in Blank THEN F[p + 1]
        ELSE IF Is(p, Slash) /\ Is(p + 1, Slash)
             THEN F[LineEnd(p)]
        ELSE IF ~ (Is(p, Slash) /\ Is(p + 1, Star))
             THEN [end |-> p, found |-> <<>>]
        ELSE IF Closings(p + 2) # {} THEN F[BlockEnd(p)]
        ELSE [end |-> Len(text), found |-> <<Finding("AIC-L0004", p, Len(text))>>]
<1>1. skip_trivia(from)
        = (CHOOSE F : F = [p \in 0 .. Len(text) |-> Skip(F, p)])[from]
  BY DEF skip_trivia
<1>2. ASSUME NEW F, NEW p \in 0 .. Len(text) PROVE Skip(F, p) = SkipAt(F, p)
  <2>1. Have(p) /\ B(p) \in Blank <=> p < Len(text) /\ B(p) \in Blank
    BY DEF Have
  <2>2. Is(p, Slash) /\ Is(p + 1, Slash)
          <=> OpensLineAt(p)
    BY DEF Is, Have, OpensLineAt
  <2>3. Is(p, Slash) /\ Is(p + 1, Star)
          <=> OpensBlockAt(p)
    BY DEF Is, Have, OpensBlockAt
  <2>4. Closings(p + 2) # {} =>
          BlockEnd(p) = Min(Closings(p + 2)) + 2
    BY DEF BlockEnd
  <2> QED
    BY <2>1, <2>2, <2>3, <2>4 DEF SkipAt
<1>3. \A F : [p \in 0 .. Len(text) |-> Skip(F, p)] = [p \in 0 .. Len(text) |-> SkipAt(F, p)]
  <2> HIDE DEF Skip
  <2> QED
    BY <1>2
<1> HIDE DEF Skip
<1> QED
  BY <1>1, <1>3 DEF Skipped

\* Where the next turn is.
SkipTo(p) == IF p < Len(text) /\ B(p) \in Blank THEN p + 1
             ELSE IF OpensLineAt(p) THEN LineEnd(p)
             ELSE Min(Closings(p + 2)) + 2
Skips(p) == \/ p < Len(text) /\ B(p) \in Blank
            \/ OpensLineAt(p)
            \/ OpensBlockAt(p) /\ Closings(p + 2) # {}

\* Where trivia goes on, further on in the text.
LEMMA SkipGoesOn ==
  ASSUME text \in Seq(Byte), NEW p \in 0 .. Len(text)
  PROVE  /\ Skips(p) => SkipTo(p) \in p + 1 .. Len(text) /\ \A F : SkipAt(F, p) = F[SkipTo(p)]
         /\ ~ Skips(p) => \A F : SkipAt(F, p) =
              IF OpensBlockAt(p)
              THEN [end |-> Len(text), found |-> <<Finding("AIC-L0004", p, Len(text))>>]
              ELSE [end |-> p, found |-> <<>>]
<1>1. ASSUME OpensLineAt(p) PROVE LineEnd(p) \in p + 1 .. Len(text) /\ ~ OpensBlockAt(p)
  <2>1. p < Len(text) /\ B(p) # LF /\ p + 1 \in 0 .. Len(text) /\ B(p + 1) # Star
    BY <1>1 DEF OpensLineAt, Slash, LF, Star
  <2>2. LineEnd(p) = LineEnd(p + 1) /\ LineEnd(p + 1) \in p + 1 .. Len(text)
    BY <2>1, LineEnds
  <2> QED
    BY <2>1, <2>2 DEF OpensBlockAt
<1>2. ASSUME OpensBlockAt(p), Closings(p + 2) # {}
      PROVE  Min(Closings(p + 2)) + 2 \in p + 1 .. Len(text) /\ B(p) \notin Blank
  <2>1. p + 2 \in 0 .. Len(text) /\ B(p) = Slash
    BY <1>2 DEF OpensBlockAt
  <2>2. Min(Closings(p + 2)) + 2 \in (p + 2) + 2 .. Len(text)
    BY <1>2, <2>1, BlockEnds
  <2>3. \A m \in (p + 2) + 2 .. Len(text) : m \in p + 1 .. Len(text)
    OBVIOUS
  <2> QED
    BY <2>1, <2>2, <2>3 DEF Blank, Slash
<1>3. ASSUME Skips(p) PROVE SkipTo(p) \in p + 1 .. Len(text)
  <2>1. CASE p < Len(text) /\ B(p) \in Blank
    BY <2>1 DEF SkipTo
  <2>2. CASE ~ (p < Len(text) /\ B(p) \in Blank) /\ OpensLineAt(p)
    BY <1>1, <2>2 DEF SkipTo
  <2>3. CASE ~ (p < Len(text) /\ B(p) \in Blank) /\ ~ OpensLineAt(p)
    BY <1>2, <1>3, <2>3 DEF SkipTo, Skips
  <2> QED
    BY <2>1, <2>2, <2>3
<1>4. ASSUME Skips(p), NEW F PROVE SkipAt(F, p) = F[SkipTo(p)]
  BY <1>4 DEF SkipAt, SkipTo, Skips
<1>5. ASSUME ~ Skips(p), NEW F
      PROVE  SkipAt(F, p) =
               IF OpensBlockAt(p)
               THEN [end |-> Len(text), found |-> <<Finding("AIC-L0004", p, Len(text))>>]
               ELSE [end |-> p, found |-> <<>>]
  BY <1>5 DEF SkipAt, Skips
<1> QED
  BY <1>3, <1>4, <1>5

\* One turn of skip_trivia.
LEMMA SkipUnfolds ==
  ASSUME text \in Seq(Byte)
  PROVE  \A p \in 0 .. Len(text) : Skipped[p] = SkipAt(Skipped, p)
<1> DEFINE n == Len(text)
           I == 0 .. n
           V == [end : I, found : {<<>>} \cup {<<Finding("AIC-L0004", p, n)>> : p \in I}]
           mu == [k \in I |-> n - k]
           f == [G \in [I -> V] |-> [k \in I |-> SkipAt(G, k)]]
           Right(F) == F = [k \in I |-> SkipAt(F, k)]
<1>1. n \in Nat /\ n + 1 \in Nat /\ n \in I
  OBVIOUS
<1>2. Measured(I, mu, n + 1)
  BY <1>1 DEF Measured
<1>3. V # {}
  <2>1. [end |-> n, found |-> <<>>] \in V
    BY <1>1
  <2> QED
    BY <2>1
<1>4. Typed(I, V, f)
  <2>1. ASSUME NEW G \in [I -> V], NEW k \in I PROVE SkipAt(G, k) \in V
    <3>1. CASE Skips(k)
      <4>1. SkipTo(k) \in I /\ SkipAt(G, k) = G[SkipTo(k)]
        <5>1. SkipTo(k) \in k + 1 .. n /\ SkipAt(G, k) = G[SkipTo(k)]
          BY <3>1, SkipGoesOn
        <5>2. \A m \in k + 1 .. n : m \in I
          OBVIOUS
        <5> QED
          BY <5>1, <5>2
      <4> QED
        BY <4>1
    <3>2. CASE ~ Skips(k)
      <4>1. SkipAt(G, k) = IF OpensBlockAt(k)
                           THEN [end |-> n, found |-> <<Finding("AIC-L0004", k, n)>>]
                           ELSE [end |-> k, found |-> <<>>]
        BY <3>2, SkipGoesOn
      <4>2. [end |-> n, found |-> <<Finding("AIC-L0004", k, n)>>] \in V
        BY <1>1
      <4>3. [end |-> k, found |-> <<>>] \in V
        OBVIOUS
      <4> HIDE DEF V
      <4> QED
        BY <4>1, <4>2, <4>3
    <3> QED
      BY <3>1, <3>2
  <2> HIDE DEF V, I
  <2> QED
    BY <2>1 DEF Typed
<1>5. Local(I, V, mu, f)
  <2>1. ASSUME NEW G \in [I -> V], NEW H \in [I -> V], NEW k \in I,
               \A j \in I : mu[j] < mu[k] => G[j] = H[j]
        PROVE  SkipAt(G, k) = SkipAt(H, k)
    <3>1. CASE Skips(k)
      <4>1. SkipTo(k) \in k + 1 .. n /\ SkipAt(G, k) = G[SkipTo(k)] /\ SkipAt(H, k) = H[SkipTo(k)]
        BY <3>1, SkipGoesOn
      <4>2. \A m \in k + 1 .. n : m \in I /\ mu[m] < mu[k]
        BY <1>1
      <4> HIDE DEF I, V, mu
      <4> QED
        BY <2>1, <4>1, <4>2
    <3>2. CASE ~ Skips(k)
      BY <3>2, SkipGoesOn
    <3> QED
      BY <3>1, <3>2
  <2> HIDE DEF I, mu, V
  <2>2. \A G, H \in [I -> V] : \A k \in I :
          (\A j \in I : mu[j] < mu[k] => G[j] = H[j]) => f[G][k] = f[H][k]
    BY <2>1
  <2> QED
    BY <2>2 DEF Local
<1>6. PICK F \in [I -> V] : \A k \in I : F[k] = f[F][k]
  <2> HIDE DEF I, V, mu, f
  <2>1. Solvable(I, V, f)
    BY <1>1, <1>2, <1>3, <1>4, <1>5, Recursion
  <2> QED
    BY <2>1 DEF Solvable
<1>7. Right(F)
  BY <1>6
<1>8. Right(Skipped)
  <2>1. Skipped = CHOOSE G : Right(G)
    BY DEF Skipped
  <2> HIDE DEF Right
  <2> QED
    BY <1>7, <2>1
<1> QED
  BY <1>8

\* Where the trivia behind p end.
TriviaEnd(p) == Skipped[p].end

\* Trivia ends where the text has none, or with an unterminated comment.
LEMMA TriviaEnds ==
  ASSUME text \in Seq(Byte)
  PROVE  \A p \in 0 .. Len(text) :
           /\ TriviaEnd(p) \in p .. Len(text)
           /\ Skips(p) => SkipTo(p) \in p + 1 .. Len(text) /\ TriviaEnd(p) = TriviaEnd(SkipTo(p))
           /\ ~ Skips(p) => TriviaEnd(p) = IF OpensBlockAt(p) THEN Len(text) ELSE p
<1> DEFINE n == Len(text)
           I == 0 .. n
           mu == [k \in I |-> n - k]
           GoodEnds == {p \in I : TriviaEnd(p) \in p .. n}
<1>1. ASSUME NEW p \in I
      PROVE  /\ Skips(p) => SkipTo(p) \in p + 1 .. n /\ TriviaEnd(p) = TriviaEnd(SkipTo(p))
             /\ ~ Skips(p) => TriviaEnd(p) = IF OpensBlockAt(p) THEN n ELSE p
  <2>1. Skipped[p] = SkipAt(Skipped, p)
    BY SkipUnfolds
  <2>2. CASE Skips(p)
    <3>1. SkipTo(p) \in p + 1 .. n /\ SkipAt(Skipped, p) = Skipped[SkipTo(p)]
      BY <2>2, SkipGoesOn
    <3> QED
      BY <2>1, <2>2, <3>1 DEF TriviaEnd
  <2>3. CASE ~ Skips(p)
    <3>1. SkipAt(Skipped, p) =
            IF OpensBlockAt(p)
            THEN [end |-> n, found |-> <<Finding("AIC-L0004", p, n)>>]
            ELSE [end |-> p, found |-> <<>>]
      BY <2>3, SkipGoesOn
    <3> QED
      BY <2>1, <2>3, <3>1 DEF TriviaEnd
  <2> QED
    BY <2>2, <2>3
<1>2. ASSUME NEW p \in I, \A j \in I : mu[j] < mu[p] => j \in GoodEnds PROVE p \in GoodEnds
  <2>1. CASE Skips(p)
    <3>1. PICK m \in p + 1 .. n : m = SkipTo(p) /\ TriviaEnd(p) = TriviaEnd(m)
      BY <1>1, <2>1
    <3>2. m \in I /\ mu[m] < mu[p]
      OBVIOUS
    <3>3. TriviaEnd(m) \in m .. n
      <4> HIDE DEF mu
      <4> QED
        BY <1>2, <3>2
    <3>4. TriviaEnd(m) \in p .. n
      BY <3>3
    <3> QED
      BY <3>1, <3>4
  <2>2. CASE ~ Skips(p)
    BY <1>1, <2>2
  <2> QED
    BY <2>1, <2>2
<1>3. \A p \in I : p \in GoodEnds
  <2>1. mu \in [I -> Nat]
    OBVIOUS
  <2> HIDE DEF mu, GoodEnds, I
  <2> QED
    BY <1>2, <2>1, Below
<1> QED
  BY <1>1, <1>3

-----------------------------------------------------------------------------
(* Where the lexer ends a string                                           *)

Unterminated(start) == <<Finding("AIC-L0001", start, Len(text))>>
Before(bytes, found, s) == [s EXCEPT !.bytes = bytes \o @, !.found = found \o @]
Discarded(start, found, s) ==
  [s EXCEPT !.bytes = <<>>, !.found = found \o (IF s.closed THEN <<>> ELSE Unterminated(start))]

\* One turn of the loop of scan_string_one.
StringAt(F, start, p) ==
  IF ~ Have(p) \/ (B(p) = Backslash /\ ~ Have(p + 1))
    THEN [end |-> Len(text), bytes |-> <<>>, closed |-> FALSE, found |-> Unterminated(start)]
  ELSE IF B(p) = Quote
    THEN [end |-> p + 1, bytes |-> <<>>, closed |-> TRUE, found |-> <<>>]
  ELSE IF B(p) = LF
    THEN Discarded(start, <<Finding("AIC-L0007", p, p + 1)>>, F[p + 1])
  ELSE IF B(p) # Backslash THEN Before(<<B(p)>>, <<>>, F[p + 1])
  ELSE IF B(p + 1) \in DOMAIN Escapes
    THEN Before(<<Escapes[B(p + 1)]>>, <<>>, F[p + 2])
  ELSE IF B(p + 1) # X
    THEN Before(<<>>, <<Finding("AIC-L0008", p, p + 2)>>, F[p + 2])
  ELSE IF IsHex(p)
    THEN Before(<<HexValue(B(p + 2)) * 16 + HexValue(B(p + 3))>>, <<>>, F[p + 4])
  ELSE Before(<<>>, <<Finding("AIC-L0008", p, HexEnd(p))>>,
              F[HexEnd(p)])

Strung(start) == CHOOSE F : F = [p \in 0 .. Len(text) |-> StringAt(F, start, p)]

\* scan_string_one is the function its recursion defines.
LEMMA StringIsStrung ==
  ASSUME NEW start
  PROVE  scan_string_one(start) = Strung(start)[start + 1]
BY DEF scan_string_one, Strung, StringAt, Before, Discarded, Unterminated

\* Where the literal stops, where it is closed, and where the next turn is.
StringStops(p)  == ~ p < Len(text) \/ (B(p) = Backslash /\ ~ p + 1 < Len(text))
StringCloses(p) == p < Len(text) /\ B(p) = Quote
StringTo(p) == IF B(p) # Backslash THEN p + 1
               ELSE IF B(p + 1) \in DOMAIN Escapes \/ B(p + 1) # 120 THEN p + 2
               ELSE IF IsHex(p) THEN p + 4
               ELSE HexEnd(p)

Hex == 48 .. 57 \cup 97 .. 102 \cup 65 .. 70

\* Each turn of a string goes on, within the text.
LEMMA StringToIs ==
  ASSUME text \in Seq(Byte), NEW p \in 0 .. Len(text), ~ StringStops(p)
  PROVE  /\ StringTo(p) \in p + 1 .. Len(text)
         /\ B(p) # Backslash => StringTo(p) = p + 1
         /\ B(p) = Backslash =>
              /\ p + 2 <= Len(text) /\ StringTo(p) \in {p + 2, p + 3, p + 4}
              /\ StringTo(p) # p + 2 => B(p + 1) = 120 /\ B(p + 2) \in Hex
              /\ StringTo(p) = p + 4 => B(p + 3) \in Hex
<1>1. p < Len(text)
  BY DEF StringStops
<1>2. CASE B(p) # Backslash
  BY <1>1, <1>2 DEF StringTo
<1>3. CASE B(p) = Backslash
  <2>1. p + 1 < Len(text) /\ p \in Nat /\ Len(text) \in Nat
    BY <1>3 DEF StringStops
  <2>2. IsHex(p) => p + 3 < Len(text) /\ B(p + 2) \in Hex /\ B(p + 3) \in Hex
    <3>1. p + 2 + 1 = p + 3 /\ p + 3 + 1 = p + 4
      OBVIOUS
    <3> QED
      BY <3>1 DEF IsHex, Have, HexDigits, Digits, Hex, B
  <2>3. \/ HexEnd(p) = p + 3 /\ p + 2 < Len(text) /\ B(p + 2) \in Hex
        \/ HexEnd(p) = p + 2
    <3>1. p + 2 + 1 = p + 3
      OBVIOUS
    <3> QED
      BY <3>1 DEF HexEnd, Have, HexDigits, Digits, Hex, B
  <2>4. CASE B(p + 1) \in DOMAIN Escapes \/ B(p + 1) # 120
    <3>1. StringTo(p) = p + 2
      BY <1>3, <2>4 DEF StringTo
    <3> QED
      BY <1>3, <2>1, <3>1
  <2>5. CASE ~ (B(p + 1) \in DOMAIN Escapes \/ B(p + 1) # 120) /\ IsHex(p)
    <3>1. StringTo(p) = p + 4
      BY <1>3, <2>5 DEF StringTo
    <3> QED
      BY <1>3, <2>1, <2>2, <2>5, <3>1
  <2>6. CASE ~ (B(p + 1) \in DOMAIN Escapes \/ B(p + 1) # 120) /\ ~ IsHex(p)
    <3>1. StringTo(p) = HexEnd(p)
      BY <1>3, <2>6 DEF StringTo
    <3> QED
      BY <1>3, <2>1, <2>3, <2>6, <3>1
  <2> QED
    BY <2>4, <2>5, <2>6
<1> QED
  BY <1>2, <1>3

\* What a turn may put in front of the rest.
Unit == Byte \cup {Escapes[b] : b \in Byte}
          \cup {HexValue(b) * 16 + HexValue(c) : b \in Byte, c \in Byte}
StringNote == {Finding(c, a, b) : c \in {"AIC-L0001", "AIC-L0007", "AIC-L0008"}, a \in Nat, b \in Nat}
Strings == [end : 0 .. Len(text), bytes : Seq(Unit), closed : BOOLEAN, found : Seq(StringNote)]

\* The rest, with more in front of it.
LEMMA BeforeAdds ==
  ASSUME NEW bytes \in Seq(Unit), NEW found \in Seq(StringNote), NEW s \in Strings
  PROVE  Before(bytes, found, s) \in Strings /\ Before(bytes, found, s).end = s.end
<1> DEFINE b == bytes \o s.bytes
           f == found \o s.found
<1>1. s.bytes \in Seq(Unit) /\ s.found \in Seq(StringNote)
  BY DEF Strings
<1>2. Before(bytes, found, s) = [s EXCEPT !.bytes = b, !.found = f]
  BY DEF Before, Strings
<1>3. b \in Seq(Unit) /\ f \in Seq(StringNote)
  BY <1>1, ConcatProperties
<1> HIDE DEF b, f
<1>4. [s EXCEPT !.bytes = b, !.found = f] \in Strings
  BY <1>3 DEF Strings
<1>5. [s EXCEPT !.bytes = b, !.found = f].end = s.end
  BY <1>3 DEF Strings
<1> QED
  BY <1>2, <1>4, <1>5, Zenon

\* The records of the lexer.
NoteAt(found, p) == found # <<>> /\ found[1].start = p

LEMMA NoteIs ==
  ASSUME NEW c \in {"AIC-L0001", "AIC-L0007", "AIC-L0008"}, NEW a \in Nat, NEW b \in Nat
  PROVE  <<Finding(c, a, b)>> \in Seq(StringNote) /\ NoteAt(<<Finding(c, a, b)>>, a)
<1>1. Finding(c, a, b) \in StringNote /\ Finding(c, a, b).start = a
  BY DEF StringNote, Finding
<1> QED
  BY <1>1 DEF NoteAt

\* The record of a literal that is not closed.
LEMMA UnterminatedIs ==
  ASSUME NEW start \in Nat, Len(text) \in Nat
  PROVE  Unterminated(start) \in Seq(StringNote) /\ NoteAt(Unterminated(start), start)
<1>1. "AIC-L0001" \in {"AIC-L0001", "AIC-L0007", "AIC-L0008"}
  OBVIOUS
<1>2. /\ <<Finding("AIC-L0001", start, Len(text))>> \in Seq(StringNote)
      /\ NoteAt(<<Finding("AIC-L0001", start, Len(text))>>, start)
  BY <1>1, NoteIs, Zenon
<1> QED
  BY <1>2, Zenon DEF Unterminated

\* Discarding what was read keeps the end.
LEMMA DiscardedAdds ==
  ASSUME NEW start \in Nat, NEW found \in Seq(StringNote), NEW s \in Strings, Len(text) \in Nat
  PROVE  Discarded(start, found, s) \in Strings /\ Discarded(start, found, s).end = s.end
<1> DEFINE more == IF s.closed THEN <<>> ELSE Unterminated(start)
           none == <<>>
           f == found \o more
<1>1. Unterminated(start) \in Seq(StringNote) /\ <<>> \in Seq(StringNote)
  BY UnterminatedIs
<1>2. more \in Seq(StringNote)
  BY <1>1
<1>3. Discarded(start, found, s) = [s EXCEPT !.bytes = none, !.found = f]
  BY DEF Discarded
<1> HIDE DEF more
<1>4. f \in Seq(StringNote) /\ none \in Seq(Unit)
  BY <1>2, ConcatProperties
<1> HIDE DEF f, none
<1>5. [s EXCEPT !.bytes = none, !.found = f] \in Strings
  BY <1>4 DEF Strings
<1>6. [s EXCEPT !.bytes = none, !.found = f].end = s.end
  BY <1>4 DEF Strings
<1> QED
  BY <1>3, <1>5, <1>6, Zenon

\* What the rest of the literal becomes.
Fronted(start, p, x, y) ==
  /\ y = <<>> \/ NoteAt(y, p)
  /\ \A F : StringAt(F, start, p) = Before(x, y, F[StringTo(p)])
Unfronted(start, p, y) ==
  /\ NoteAt(y, p)
  /\ \A F : StringAt(F, start, p) = Discarded(start, y, F[StringTo(p)])

\* One turn of a string answers a result of its type.
LEMMA StringBranches ==
  ASSUME text \in Seq(Byte), NEW start \in Nat, NEW p \in 0 .. Len(text)
  PROVE  /\ StringStops(p) => \A F : StringAt(F, start, p) =
              [end |-> Len(text), bytes |-> <<>>, closed |-> FALSE, found |-> Unterminated(start)]
         /\ ~ StringStops(p) /\ StringCloses(p) => \A F : StringAt(F, start, p) =
              [end |-> p + 1, bytes |-> <<>>, closed |-> TRUE, found |-> <<>>]
         /\ ~ StringStops(p) /\ ~ StringCloses(p) =>
              \/ \E x \in Seq(Unit), y \in Seq(StringNote) : Fronted(start, p, x, y)
              \/ \E y \in Seq(StringNote) : Unfronted(start, p, y)
<1> USE DEF Have
<1>0. X = 120 /\ Quote # Backslash /\ LF # Backslash
  BY DEF Backslash, Quote, LF, X
<1>1. ASSUME StringStops(p), NEW F
      PROVE  StringAt(F, start, p) =
               [end |-> Len(text), bytes |-> <<>>, closed |-> FALSE, found |-> Unterminated(start)]
  BY <1>0, <1>1 DEF StringAt, StringStops
<1>2. ASSUME ~ StringStops(p), StringCloses(p), NEW F
      PROVE  StringAt(F, start, p) =
               [end |-> p + 1, bytes |-> <<>>, closed |-> TRUE, found |-> <<>>]
  BY <1>0, <1>2 DEF StringAt, StringStops, StringCloses
<1>3. ASSUME ~ StringStops(p), ~ StringCloses(p)
      PROVE  \/ \E x \in Seq(Unit), y \in Seq(StringNote) : Fronted(start, p, x, y)
             \/ \E y \in Seq(StringNote) : Unfronted(start, p, y)
  <2>0. /\ p < Len(text) /\ B(p) # Quote /\ B(p) \in Byte /\ p \in Nat /\ p + 1 \in Nat /\ p + 2 \in Nat
        /\ ~ (~ Have(p) \/ (B(p) = Backslash /\ ~ Have(p + 1)))
    BY <1>0, <1>3 DEF StringStops, StringCloses, B
  <2>1. CASE B(p) = LF
    <3> DEFINE y == <<Finding("AIC-L0007", p, p + 1)>>
    <3>1. y \in Seq(StringNote) /\ NoteAt(y, p)
      BY <2>0, NoteIs
    <3>2. StringTo(p) = p + 1
      BY <1>0, <2>1 DEF StringTo
    <3>3. ASSUME NEW F PROVE StringAt(F, start, p) = Discarded(start, y, F[p + 1])
      BY <1>0, <2>0, <2>1 DEF StringAt
    <3> HIDE DEF y
    <3>4. Unfronted(start, p, y)
      BY <3>1, <3>2, <3>3 DEF Unfronted
    <3> QED
      BY <3>1, <3>4
  <2>2. CASE B(p) # LF /\ B(p) # Backslash
    <3> DEFINE x == <<B(p)>>
    <3>1. x \in Seq(Unit) /\ <<>> \in Seq(StringNote)
      BY <1>0, <2>0 DEF Unit
    <3>2. StringTo(p) = p + 1
      BY <1>0, <2>2 DEF StringTo
    <3>3. ASSUME NEW F PROVE StringAt(F, start, p) = Before(x, <<>>, F[p + 1])
      BY <1>0, <2>0, <2>2 DEF StringAt
    <3> HIDE DEF x
    <3>4. Fronted(start, p, x, <<>>)
      BY <3>2, <3>3 DEF Fronted
    <3> QED
      BY <3>1, <3>4
  <2>3. CASE B(p) = Backslash /\ B(p + 1) \in DOMAIN Escapes
    <3> DEFINE x == <<Escapes[B(p + 1)]>>
    <3>0. B(p + 1) \in Byte
      <4>1. p + 1 < Len(text)
        BY <2>3, <1>3 DEF StringStops
      <4> QED
        BY <4>1 DEF B
    <3>1. x \in Seq(Unit) /\ <<>> \in Seq(StringNote)
      BY <1>0, <3>0 DEF Unit
    <3>2. StringTo(p) = p + 2
      BY <1>0, <2>3 DEF StringTo
    <3>3. ASSUME NEW F PROVE StringAt(F, start, p) = Before(x, <<>>, F[p + 2])
      BY <1>0, <2>0, <2>3 DEF StringAt
    <3> HIDE DEF x
    <3>4. Fronted(start, p, x, <<>>)
      BY <3>2, <3>3 DEF Fronted
    <3> QED
      BY <3>1, <3>4
  <2>4. CASE /\ B(p) = Backslash /\ B(p + 1) \notin DOMAIN Escapes /\ B(p + 1) # 120
    <3> DEFINE y == <<Finding("AIC-L0008", p, p + 2)>>
    <3>1. y \in Seq(StringNote) /\ NoteAt(y, p) /\ <<>> \in Seq(Unit)
      BY <2>0, NoteIs
    <3>2. StringTo(p) = p + 2
      BY <1>0, <2>4 DEF StringTo
    <3>3. ASSUME NEW F PROVE StringAt(F, start, p) = Before(<<>>, y, F[p + 2])
      BY <1>0, <2>0, <2>4 DEF StringAt
    <3> HIDE DEF y
    <3>4. Fronted(start, p, <<>>, y)
      BY <3>1, <3>2, <3>3 DEF Fronted
    <3> QED
      BY <3>1, <3>4
  <2>5. CASE /\ B(p) = Backslash /\ B(p + 1) \notin DOMAIN Escapes /\ B(p + 1) = 120
             /\ IsHex(p)
    <3> DEFINE x == <<HexValue(B(p + 2)) * 16 + HexValue(B(p + 3))>>
    <3>0. B(p + 2) \in Byte /\ B(p + 3) \in Byte
      <4>1. p + 3 < Len(text)
        BY <2>5 DEF IsHex
      <4> QED
        BY <4>1 DEF B
    <3>1. x \in Seq(Unit) /\ <<>> \in Seq(StringNote)
      BY <3>0 DEF Unit
    <3>2. StringTo(p) = p + 4
      BY <1>0, <2>5 DEF StringTo
    <3>3. ASSUME NEW F PROVE StringAt(F, start, p) = Before(x, <<>>, F[p + 4])
      BY <1>0, <2>0, <2>5 DEF StringAt
    <3> HIDE DEF x
    <3>4. Fronted(start, p, x, <<>>)
      BY <3>2, <3>3 DEF Fronted
    <3> QED
      BY <3>1, <3>4
  <2>6. CASE /\ B(p) = Backslash /\ B(p + 1) \notin DOMAIN Escapes /\ B(p + 1) = 120
             /\ ~ IsHex(p)
    <3> DEFINE to == HexEnd(p)
               y == <<Finding("AIC-L0008", p, to)>>
    <3>0. StringTo(p) = to
      BY <1>0, <2>6 DEF StringTo
    <3>1. to \in Nat
      BY <2>0 DEF HexEnd
    <3>2. y \in Seq(StringNote) /\ NoteAt(y, p) /\ <<>> \in Seq(Unit)
      BY <2>0, <3>1, NoteIs
    <3>3. ASSUME NEW F PROVE StringAt(F, start, p) = Before(<<>>, y, F[to])
      BY <1>0, <2>0, <2>6 DEF StringAt
    <3> HIDE DEF y, to
    <3>4. Fronted(start, p, <<>>, y)
      BY <3>0, <3>2, <3>3 DEF Fronted
    <3> QED
      BY <3>2, <3>4
  <2> QED
    BY <2>1, <2>2, <2>3, <2>4, <2>5, <2>6
<1> QED
  BY <1>1, <1>2, <1>3

\* One turn of scan_string_one.
LEMMA StringUnfolds ==
  ASSUME text \in Seq(Byte), NEW start \in Nat
  PROVE  /\ \A p \in 0 .. Len(text) : Strung(start)[p] = StringAt(Strung(start), start, p)
         /\ \A p \in 0 .. Len(text) : Strung(start)[p] \in Strings
<1> DEFINE n == Len(text)
           I == 0 .. n
           V == Strings
           mu == [k \in I |-> n - k]
           f == [G \in [I -> V] |-> [k \in I |-> StringAt(G, start, k)]]
           Right(F) == F = [k \in I |-> StringAt(F, start, k)]
<1>0. n \in Nat /\ n + 1 \in Nat /\ n \in I
  OBVIOUS
<1>1. Unterminated(start) \in Seq(StringNote) /\ <<>> \in Seq(StringNote) /\ <<>> \in Seq(Unit)
  BY <1>0, UnterminatedIs
<1>2. Measured(I, mu, n + 1)
  BY <1>0 DEF Measured
<1>3. V # {}
  <2>1. [end |-> n, bytes |-> <<>>, closed |-> FALSE, found |-> <<>>] \in V
    BY <1>0, <1>1 DEF Strings
  <2> QED
    BY <2>1
<1>4. ASSUME NEW k \in I, ~ StringStops(k), ~ StringCloses(k)
      PROVE  /\ StringTo(k) \in I /\ mu[StringTo(k)] < mu[k]
  <2>1. PICK m \in k + 1 .. n : m = StringTo(k)
    BY <1>4, StringToIs
  <2> QED
    BY <2>1
<1>5. ASSUME NEW G, NEW k \in I, ~ StringStops(k) /\ ~ StringCloses(k) => G[StringTo(k)] \in V
      PROVE  StringAt(G, start, k) \in V
  <2>1. CASE StringStops(k)
    <3>1. StringAt(G, start, k) =
            [end |-> n, bytes |-> <<>>, closed |-> FALSE, found |-> Unterminated(start)]
      BY <2>1, StringBranches
    <3> QED
      BY <1>0, <1>1, <3>1 DEF Strings
  <2>2. CASE ~ StringStops(k) /\ StringCloses(k)
    <3>1. StringAt(G, start, k) =
            [end |-> k + 1, bytes |-> <<>>, closed |-> TRUE, found |-> <<>>]
      BY <2>2, StringBranches
    <3>2. k + 1 \in I
      BY <2>2 DEF StringCloses
    <3> QED
      BY <1>1, <3>1, <3>2 DEF Strings
  <2>3. CASE ~ StringStops(k) /\ ~ StringCloses(k)
    <3>1. G[StringTo(k)] \in Strings
      BY <1>5, <2>3
    <3>2. \/ \E x \in Seq(Unit), y \in Seq(StringNote) : Fronted(start, k, x, y)
          \/ \E y \in Seq(StringNote) : Unfronted(start, k, y)
      BY <2>3, StringBranches
    <3>3. CASE \E x \in Seq(Unit), y \in Seq(StringNote) : Fronted(start, k, x, y)
      BY <3>1, <3>3, BeforeAdds, SMTT(40) DEF Fronted
    <3>4. CASE \E y \in Seq(StringNote) : Unfronted(start, k, y)
      BY <1>0, <3>1, <3>4, DiscardedAdds DEF Unfronted
    <3> QED
      BY <3>2, <3>3, <3>4
  <2> QED
    BY <2>1, <2>2, <2>3
<1>6. Typed(I, V, f)
  <2> HIDE DEF mu, I, V
  <2>1. ASSUME NEW G \in [I -> V], NEW k \in I PROVE StringAt(G, start, k) \in V
    BY <1>4, <1>5
  <2> QED
    BY <2>1 DEF Typed
<1>7. Local(I, V, mu, f)
  <2>1. ASSUME NEW G \in [I -> V], NEW H \in [I -> V], NEW k \in I,
               \A j \in I : mu[j] < mu[k] => G[j] = H[j]
        PROVE  StringAt(G, start, k) = StringAt(H, start, k)
    <3>1. CASE StringStops(k)
      BY <3>1, StringBranches
    <3>2. CASE ~ StringStops(k) /\ StringCloses(k)
      BY <3>2, StringBranches
    <3>3. CASE ~ StringStops(k) /\ ~ StringCloses(k)
      <4>1. G[StringTo(k)] = H[StringTo(k)]
        <5> HIDE DEF mu, I
        <5> QED
          BY <1>4, <2>1, <3>3
      <4>2. \/ \E x \in Seq(Unit), y \in Seq(StringNote) : Fronted(start, k, x, y)
            \/ \E y \in Seq(StringNote) : Unfronted(start, k, y)
        BY <3>3, StringBranches
      <4> QED
        BY <4>1, <4>2 DEF Fronted, Unfronted
    <3> QED
      BY <3>1, <3>2, <3>3
  <2> HIDE DEF I, mu, V
  <2>2. \A G, H \in [I -> V] : \A k \in I :
          (\A j \in I : mu[j] < mu[k] => G[j] = H[j]) => f[G][k] = f[H][k]
    BY <2>1
  <2> QED
    BY <2>2 DEF Local
<1>8. PICK F \in [I -> V] : \A k \in I : F[k] = f[F][k]
  <2> HIDE DEF I, V, mu, f
  <2>1. Solvable(I, V, f)
    BY <1>0, <1>2, <1>3, <1>6, <1>7, Recursion
  <2> QED
    BY <2>1 DEF Solvable
<1>9. Right(F)
  BY <1>8
<1>10. Right(Strung(start))
  <2>1. Strung(start) = CHOOSE G : Right(G)
    BY DEF Strung
  <2> HIDE DEF Right
  <2> QED
    BY <1>9, <2>1
<1>11. \A k \in I : Strung(start)[k] = StringAt(Strung(start), start, k)
  <2> HIDE DEF I
  <2> QED
    BY <1>10
<1>12. mu \in [I -> Nat]
  BY DEF mu
<1>13. \A k \in I : Strung(start)[k] \in V
  <2> DEFINE There == {k \in I : Strung(start)[k] \in V}
  <2> HIDE DEF I, V, mu
  <2>1. ASSUME NEW k \in I, \A j \in I : mu[j] < mu[k] => j \in There PROVE k \in There
    <3>1. ~ StringStops(k) /\ ~ StringCloses(k) => Strung(start)[StringTo(k)] \in V
      BY <1>4, <2>1
    <3> QED
      BY <1>5, <1>11, <3>1
  <2> HIDE DEF There
  <2>2. \A k \in I : k \in There
    BY <1>12, <2>1, Below
  <2> QED
    BY <2>2 DEF There
<1> QED
  BY <1>11, <1>13, Zenon

\* The end of a literal does not depend on where it began.
StringEnd(p) == Strung(0)[p].end

\* One turn of a string, as to where it ends.
LEMMA StringEndsStep ==
  ASSUME text \in Seq(Byte), NEW start \in Nat, NEW p \in 0 .. Len(text)
  PROVE  LET E(k) == Strung(start)[k].end
         IN /\ StringStops(p) => E(p) = Len(text)
            /\ ~ StringStops(p) /\ StringCloses(p) => E(p) = p + 1
            /\ ~ StringStops(p) /\ ~ StringCloses(p) =>
                 StringTo(p) \in p + 1 .. Len(text) /\ E(p) = E(StringTo(p))
<1>1. Strung(start)[p] = StringAt(Strung(start), start, p)
  BY StringUnfolds
<1>2. ASSUME StringStops(p) PROVE Strung(start)[p].end = Len(text)
  <2>1. Strung(start)[p] =
          [end |-> Len(text), bytes |-> <<>>, closed |-> FALSE, found |-> Unterminated(start)]
    BY <1>1, <1>2, StringBranches
  <2> QED
    BY <2>1
<1>3. ASSUME ~ StringStops(p), StringCloses(p) PROVE Strung(start)[p].end = p + 1
  <2>1. Strung(start)[p] = [end |-> p + 1, bytes |-> <<>>, closed |-> TRUE, found |-> <<>>]
    BY <1>1, <1>3, StringBranches
  <2> QED
    BY <2>1
<1>4. ASSUME ~ StringStops(p), ~ StringCloses(p)
      PROVE  StringTo(p) \in p + 1 .. Len(text)
             /\ Strung(start)[p].end = Strung(start)[StringTo(p)].end
  <2>1. StringTo(p) \in p + 1 .. Len(text)
    BY <1>4, StringToIs
  <2>2. Strung(start)[StringTo(p)] \in Strings
    <3>1. StringTo(p) \in 0 .. Len(text)
      BY <2>1
    <3> QED
      BY <3>1, StringUnfolds
  <2>3. \/ \E x \in Seq(Unit), y \in Seq(StringNote) : Fronted(start, p, x, y)
        \/ \E y \in Seq(StringNote) : Unfronted(start, p, y)
    BY <1>4, StringBranches
  <2>4. CASE \E x \in Seq(Unit), y \in Seq(StringNote) : Fronted(start, p, x, y)
    <3>1. PICK x \in Seq(Unit), y \in Seq(StringNote) : Fronted(start, p, x, y)
      BY <2>4
    <3>2. Strung(start)[p] = Before(x, y, Strung(start)[StringTo(p)])
      BY <1>1, <3>1 DEF Fronted
    <3>3. Before(x, y, Strung(start)[StringTo(p)]).end = Strung(start)[StringTo(p)].end
      BY <2>2, BeforeAdds
    <3> QED
      BY <2>1, <3>2, <3>3
  <2>5. CASE \E y \in Seq(StringNote) : Unfronted(start, p, y)
    <3>1. PICK y \in Seq(StringNote) : Unfronted(start, p, y)
      BY <2>5
    <3>2. Strung(start)[p] = Discarded(start, y, Strung(start)[StringTo(p)])
      BY <1>1, <3>1 DEF Unfronted
    <3>3. Discarded(start, y, Strung(start)[StringTo(p)]).end = Strung(start)[StringTo(p)].end
      <4>1. Len(text) \in Nat
        OBVIOUS
      <4> QED
        BY <2>2, <4>1, DiscardedAdds
    <3> QED
      BY <2>1, <3>2, <3>3
  <2> QED
    BY <2>3, <2>4, <2>5
<1> QED
  BY <1>2, <1>3, <1>4

\* Where a string ends, whichever place it is said to have begun at.
LEMMA StringEnds ==
  ASSUME text \in Seq(Byte)
  PROVE  \A p \in 0 .. Len(text) :
           /\ StringEnd(p) \in p .. Len(text)
           /\ \A start \in Nat : Strung(start)[p].end = StringEnd(p)
<1> DEFINE n == Len(text)
           I == 0 .. n
           mu == [k \in I |-> n - k]
           GoodEnds == {p \in I : /\ StringEnd(p) \in p .. n
                              /\ \A start \in Nat : Strung(start)[p].end = StringEnd(p)}
<1>0. n \in Nat /\ 0 \in Nat
  OBVIOUS
<1>1. ASSUME NEW p \in I, \A j \in I : mu[j] < mu[p] => j \in GoodEnds PROVE p \in GoodEnds
  <2>1. CASE StringStops(p)
    <3>1. \A start \in Nat : Strung(start)[p].end = n
      BY <2>1, StringEndsStep
    <3>2. StringEnd(p) = n
      BY <1>0, <3>1 DEF StringEnd
    <3> QED
      BY <3>1, <3>2
  <2>2. CASE ~ StringStops(p) /\ StringCloses(p)
    <3>1. \A start \in Nat : Strung(start)[p].end = p + 1
      BY <2>2, StringEndsStep
    <3>2. StringEnd(p) = p + 1 /\ p + 1 <= n
      BY <1>0, <2>2, <3>1 DEF StringEnd, StringCloses
    <3> QED
      BY <3>1, <3>2
  <2>3. CASE ~ StringStops(p) /\ ~ StringCloses(p)
    <3>1. \A start \in Nat : StringTo(p) \in p + 1 .. n
                             /\ Strung(start)[p].end = Strung(start)[StringTo(p)].end
      BY <2>3, StringEndsStep
    <3>2. PICK m \in p + 1 .. n : m = StringTo(p)
      BY <1>0, <3>1
    <3>3. m \in I /\ mu[m] < mu[p]
      OBVIOUS
    <3>4. StringEnd(m) \in m .. n /\ \A start \in Nat : Strung(start)[m].end = StringEnd(m)
      <4> HIDE DEF mu, I
      <4> QED
        BY <1>1, <3>3
    <3>5. \A start \in Nat : Strung(start)[p].end = StringEnd(m)
      BY <3>1, <3>2, <3>4
    <3>6. StringEnd(p) = StringEnd(m)
      BY <1>0, <3>5 DEF StringEnd
    <3>7. StringEnd(p) \in p .. n
      BY <3>4, <3>6
    <3> QED
      BY <3>5, <3>6, <3>7
  <2> QED
    BY <2>1, <2>2, <2>3
<1>2. \A p \in I : p \in GoodEnds
  <2>1. mu \in [I -> Nat]
    OBVIOUS
  <2> HIDE DEF mu, GoodEnds, I
  <2> QED
    BY <1>1, <2>1, Below
<1> QED
  BY <1>2

\* Bytes that are neither a quote nor a backslash leave the end where it is, and
\* so does a backslash with the byte behind it.
LEMMA StringScans ==
  ASSUME text \in Seq(Byte), NEW p \in 0 .. Len(text)
  PROVE  /\ p = Len(text) => StringEnd(p) = p
         /\ p < Len(text) /\ B(p) = Quote => StringEnd(p) = p + 1
         /\ p < Len(text) /\ B(p) # Quote /\ B(p) # Backslash => StringEnd(p) = StringEnd(p + 1)
         /\ p + 1 = Len(text) /\ B(p) = Backslash => StringEnd(p) = p + 1
         /\ p + 1 < Len(text) /\ B(p) = Backslash => StringEnd(p) = StringEnd(p + 2)
<1>0. /\ StringStops(p) => StringEnd(p) = Len(text)
      /\ ~ StringStops(p) /\ StringCloses(p) => StringEnd(p) = p + 1
      /\ ~ StringStops(p) /\ ~ StringCloses(p) => StringEnd(p) = StringEnd(StringTo(p))
  <2>1. 0 \in Nat
    OBVIOUS
  <2> QED
    BY <2>1, StringEndsStep DEF StringEnd
<1>1. ASSUME p = Len(text) PROVE StringEnd(p) = p
  BY <1>0, <1>1 DEF StringStops
<1>2. ASSUME p < Len(text), B(p) = Quote PROVE StringEnd(p) = p + 1
  BY <1>0, <1>2 DEF StringStops, StringCloses, Quote, Backslash
<1>3. ASSUME NEW k \in 0 .. Len(text), k < Len(text), B(k) # Quote, B(k) # Backslash
      PROVE  StringEnd(k) = StringEnd(k + 1)
  <2>1. ~ StringStops(k) /\ ~ StringCloses(k)
    BY <1>3 DEF StringStops, StringCloses
  <2>2. StringTo(k) = k + 1
    BY <1>3, <2>1, StringToIs
  <2>3. 0 \in Nat
    OBVIOUS
  <2> QED
    BY <2>1, <2>2, <2>3, StringEndsStep DEF StringEnd
<1>4. ASSUME p + 1 = Len(text), B(p) = Backslash PROVE StringEnd(p) = p + 1
  BY <1>0, <1>4 DEF StringStops
<1>5. ASSUME p + 1 < Len(text), B(p) = Backslash PROVE StringEnd(p) = StringEnd(p + 2)
  <2>1. ~ StringStops(p) /\ ~ StringCloses(p)
    BY <1>5 DEF StringStops, StringCloses, Quote, Backslash
  <2>2. /\ StringTo(p) \in p + 1 .. Len(text)
        /\ p + 2 <= Len(text) /\ StringTo(p) \in {p + 2, p + 3, p + 4}
        /\ StringTo(p) # p + 2 => B(p + 1) = 120 /\ B(p + 2) \in Hex
        /\ StringTo(p) = p + 4 => B(p + 3) \in Hex
    BY <1>5, <2>1, StringToIs
  <2>3. \A b \in Hex : b # Quote /\ b # Backslash
    BY DEF Hex, Quote, Backslash
  <2>4. ASSUME StringTo(p) # p + 2 PROVE StringEnd(p + 2) = StringEnd(p + 3)
    <3>1. p + 2 \in 0 .. Len(text) /\ p + 2 < Len(text) /\ (p + 2) + 1 = p + 3
      BY <2>2, <2>4
    <3>2. B(p + 2) # Quote /\ B(p + 2) # Backslash
      BY <2>2, <2>3, <2>4
    <3> QED
      BY <1>3, <3>1, <3>2
  <2>5. ASSUME StringTo(p) = p + 4 PROVE StringEnd(p + 3) = StringEnd(p + 4)
    <3>1. p + 3 \in 0 .. Len(text) /\ p + 3 < Len(text) /\ (p + 3) + 1 = p + 4
      BY <2>2, <2>5
    <3>2. B(p + 3) # Quote /\ B(p + 3) # Backslash
      BY <2>2, <2>3, <2>5
    <3> QED
      BY <1>3, <3>1, <3>2
  <2>6. StringEnd(p) = StringEnd(StringTo(p))
    BY <1>0, <2>1
  <2>7. p + 4 # p + 2 /\ p + 3 # p + 2
    OBVIOUS
  <2> QED
    BY <2>2, <2>4, <2>5, <2>6, <2>7
<1> QED
  BY <1>1, <1>2, <1>3, <1>4, <1>5

-----------------------------------------------------------------------------
(* The NUL bytes the lexer meets                                           *)

\* One turn of the recursion of LexerNuls.
NulsAt(F, p) ==
  LET q == TriviaEnd(p)
      s == StringEnd(q + 1)
  IN IF ~ q < Len(text) THEN {}
     ELSE IF B(q) # Quote THEN (IF B(q) = NUL THEN {q} ELSE {}) \cup F[q + 1]
     ELSE (IF \E k \in q + 1 .. s : text[k] = LF THEN {Broken} ELSE {}) \cup F[s]

NulsFrom == CHOOSE F : F = [p \in 0 .. Len(text) |-> NulsAt(F, p)]

\* The NUL bytes the lexer meets, by the function of its recursion.
LEMMA LexerNulsAre ==
  ASSUME text \in Seq(Byte)
  PROVE  LexerNuls = NulsFrom[0]
<1> DEFINE Nuls(F, p) ==
        LET q == skip_trivia(p).end
            s == scan_string_one(q).end
        IN IF ~ Have(q) THEN {}
           ELSE IF B(q) # Quote THEN (IF B(q) = NUL THEN {q} ELSE {}) \cup F[q + 1]
           ELSE (IF \E k \in q + 1 .. s : text[k] = LF THEN {Broken} ELSE {}) \cup F[s]
<1>1. LexerNuls = (CHOOSE F : F = [p \in 0 .. Len(text) |-> Nuls(F, p)])[0]
  BY DEF LexerNuls
<1>2. ASSUME NEW F, NEW p \in 0 .. Len(text) PROVE Nuls(F, p) = NulsAt(F, p)
  <2>1. skip_trivia(p).end = TriviaEnd(p)
    BY SkipIsSkipped DEF TriviaEnd
  <2>2. TriviaEnd(p) \in 0 .. Len(text)
    BY TriviaEnds
  <2>3. CASE TriviaEnd(p) < Len(text)
    <3>1. TriviaEnd(p) \in Nat /\ TriviaEnd(p) + 1 \in 0 .. Len(text)
      BY <2>2, <2>3
    <3>2. scan_string_one(TriviaEnd(p)).end = StringEnd(TriviaEnd(p) + 1)
      BY <3>1, StringIsStrung, StringEnds
    <3> QED
      BY <2>1, <2>3, <3>2 DEF NulsAt, Have
  <2>4. CASE ~ TriviaEnd(p) < Len(text)
    BY <2>1, <2>4 DEF NulsAt, Have
  <2> QED
    BY <2>3, <2>4
<1>3. \A F : [p \in 0 .. Len(text) |-> Nuls(F, p)] = [p \in 0 .. Len(text) |-> NulsAt(F, p)]
  <2> HIDE DEF Nuls
  <2> QED
    BY <1>2
<1> HIDE DEF Nuls
<1> QED
  BY <1>1, <1>3 DEF NulsFrom

\* Where the recursion goes.
LEMMA NulsGoOn ==
  ASSUME text \in Seq(Byte), NEW p \in 0 .. Len(text), TriviaEnd(p) < Len(text)
  PROVE  /\ TriviaEnd(p) + 1 \in p + 1 .. Len(text)
         /\ StringEnd(TriviaEnd(p) + 1) \in p + 1 .. Len(text)
<1>1. TriviaEnd(p) \in p .. Len(text)
  BY TriviaEnds
<1>2. TriviaEnd(p) + 1 \in 0 .. Len(text)
  BY <1>1
<1>3. StringEnd(TriviaEnd(p) + 1) \in TriviaEnd(p) + 1 .. Len(text)
  BY <1>2, StringEnds
<1> QED
  BY <1>1, <1>2, <1>3

\* One turn of it.
LEMMA NulsUnfold ==
  ASSUME text \in Seq(Byte)
  PROVE  \A p \in 0 .. Len(text) : NulsFrom[p] = NulsAt(NulsFrom, p)
<1> DEFINE n == Len(text)
           I == 0 .. n
           V == SUBSET Int
           mu == [k \in I |-> n - k]
           f == [G \in [I -> V] |-> [k \in I |-> NulsAt(G, k)]]
           Right(F) == F = [k \in I |-> NulsAt(F, k)]
<1>0. n \in Nat /\ n + 1 \in Nat
  OBVIOUS
<1>1. Measured(I, mu, n + 1)
  BY <1>0 DEF Measured
<1>2. ASSUME NEW k \in I, TriviaEnd(k) < n
      PROVE  /\ TriviaEnd(k) \in Int
             /\ TriviaEnd(k) + 1 \in I /\ mu[TriviaEnd(k) + 1] < mu[k]
             /\ StringEnd(TriviaEnd(k) + 1) \in I /\ mu[StringEnd(TriviaEnd(k) + 1)] < mu[k]
  <2>1. TriviaEnd(k) + 1 \in k + 1 .. n /\ StringEnd(TriviaEnd(k) + 1) \in k + 1 .. n
    BY <1>2, NulsGoOn
  <2>2. \A m \in k + 1 .. n : m \in I /\ mu[m] < mu[k]
    BY <1>0
  <2>3. TriviaEnd(k) \in k .. n
    BY TriviaEnds
  <2> HIDE DEF mu, I
  <2> QED
    BY <2>1, <2>2, <2>3
<1>3. ASSUME NEW G \in [I -> V], NEW k \in I PROVE NulsAt(G, k) \in V
  <2>1. CASE TriviaEnd(k) < n
    <3>1. G[TriviaEnd(k) + 1] \in V /\ G[StringEnd(TriviaEnd(k) + 1)] \in V /\ TriviaEnd(k) \in Int
      BY <1>2, <2>1
    <3>2. Broken \in Int
      BY DEF Broken
    <3> QED
      BY <3>1, <3>2 DEF NulsAt
  <2>2. CASE ~ TriviaEnd(k) < n
    BY <2>2 DEF NulsAt
  <2> QED
    BY <2>1, <2>2
<1>4. Typed(I, V, f)
  <2> HIDE DEF I, V
  <2> QED
    BY <1>3 DEF Typed
<1>5. Local(I, V, mu, f)
  <2>1. ASSUME NEW G \in [I -> V], NEW H \in [I -> V], NEW k \in I,
               \A j \in I : mu[j] < mu[k] => G[j] = H[j]
        PROVE  NulsAt(G, k) = NulsAt(H, k)
    <3>1. CASE TriviaEnd(k) < n
      <4>1. /\ G[TriviaEnd(k) + 1] = H[TriviaEnd(k) + 1]
            /\ G[StringEnd(TriviaEnd(k) + 1)] = H[StringEnd(TriviaEnd(k) + 1)]
        <5> HIDE DEF mu, I, V
        <5> QED
          BY <1>2, <2>1, <3>1
      <4> QED
        BY <4>1 DEF NulsAt
    <3>2. CASE ~ TriviaEnd(k) < n
      BY <3>2 DEF NulsAt
    <3> QED
      BY <3>1, <3>2
  <2> HIDE DEF I, mu, V
  <2>2. \A G, H \in [I -> V] : \A k \in I :
          (\A j \in I : mu[j] < mu[k] => G[j] = H[j]) => f[G][k] = f[H][k]
    BY <2>1
  <2> QED
    BY <2>2 DEF Local
<1>6. PICK F \in [I -> V] : \A k \in I : F[k] = f[F][k]
  <2>1. V # {}
    OBVIOUS
  <2> HIDE DEF I, V, mu, f
  <2>2. Solvable(I, V, f)
    BY <1>0, <1>1, <1>4, <1>5, <2>1, Recursion
  <2> QED
    BY <2>2 DEF Solvable
<1>7. Right(F)
  BY <1>6
<1>8. Right(NulsFrom)
  <2>1. NulsFrom = CHOOSE G : Right(G)
    BY DEF NulsFrom
  <2> HIDE DEF Right
  <2> QED
    BY <1>7, <2>1
<1> QED
  BY <1>8

\* What the lexer meets from p on, by what is at p.
LEMMA NulsFromAre ==
  ASSUME text \in Seq(Byte), NEW p \in 0 .. Len(text)
  PROVE  /\ p = Len(text) => NulsFrom[p] = {}
         /\ Skips(p) => SkipTo(p) \in 0 .. Len(text) /\ NulsFrom[p] = NulsFrom[SkipTo(p)]
         /\ ~ Skips(p) /\ OpensBlockAt(p) => NulsFrom[p] = {}
         /\ p < Len(text) /\ ~ Skips(p) /\ ~ OpensBlockAt(p) /\ B(p) # Quote =>
              NulsFrom[p] = (IF B(p) = NUL THEN {p} ELSE {}) \cup NulsFrom[p + 1]
         /\ p < Len(text) /\ ~ Skips(p) /\ ~ OpensBlockAt(p) /\ B(p) = Quote =>
              NulsFrom[p] = (IF \E k \in p + 1 .. StringEnd(p + 1) : text[k] = LF
                             THEN {Broken} ELSE {}) \cup NulsFrom[StringEnd(p + 1)]
<1>0. NulsFrom[p] = NulsAt(NulsFrom, p)
  BY NulsUnfold
<1>1. /\ TriviaEnd(p) \in p .. Len(text)
      /\ Skips(p) => SkipTo(p) \in p + 1 .. Len(text) /\ TriviaEnd(p) = TriviaEnd(SkipTo(p))
      /\ ~ Skips(p) => TriviaEnd(p) = IF OpensBlockAt(p) THEN Len(text) ELSE p
  BY TriviaEnds
<1>2. ASSUME p = Len(text) PROVE NulsFrom[p] = {}
  <2>1. ~ TriviaEnd(p) < Len(text)
    BY <1>1, <1>2
  <2> QED
    BY <1>0, <2>1 DEF NulsAt
<1>3. ASSUME Skips(p) PROVE SkipTo(p) \in 0 .. Len(text) /\ NulsFrom[p] = NulsFrom[SkipTo(p)]
  <2>1. SkipTo(p) \in 0 .. Len(text)
    BY <1>1, <1>3
  <2>2. NulsFrom[SkipTo(p)] = NulsAt(NulsFrom, SkipTo(p))
    BY <2>1, NulsUnfold
  <2>3. NulsAt(NulsFrom, p) = NulsAt(NulsFrom, SkipTo(p))
    BY <1>1, <1>3 DEF NulsAt
  <2> QED
    BY <1>0, <2>1, <2>2, <2>3
<1>4. ASSUME ~ Skips(p), OpensBlockAt(p) PROVE NulsFrom[p] = {}
  <2>1. ~ TriviaEnd(p) < Len(text)
    BY <1>1, <1>4
  <2> QED
    BY <1>0, <2>1 DEF NulsAt
<1>5. ASSUME p < Len(text), ~ Skips(p), ~ OpensBlockAt(p)
      PROVE  TriviaEnd(p) = p
  BY <1>1, <1>5
<1>6. ASSUME p < Len(text), ~ Skips(p), ~ OpensBlockAt(p), B(p) # Quote
      PROVE  NulsFrom[p] = (IF B(p) = NUL THEN {p} ELSE {}) \cup NulsFrom[p + 1]
  BY <1>0, <1>5, <1>6 DEF NulsAt
<1>7. ASSUME p < Len(text), ~ Skips(p), ~ OpensBlockAt(p), B(p) = Quote
      PROVE  NulsFrom[p] = (IF \E k \in p + 1 .. StringEnd(p + 1) : text[k] = LF
                            THEN {Broken} ELSE {}) \cup NulsFrom[StringEnd(p + 1)]
  BY <1>0, <1>5, <1>7 DEF NulsAt
<1> QED
  BY <1>2, <1>3, <1>4, <1>6, <1>7

\* What the lexer still meets when the scan is at k in context c.
Rest(c, k) == IF c = "code" THEN NulsFrom[k]
              ELSE IF c = "line" THEN NulsFrom[LineEnd(k)]
              ELSE IF c = "block"
                   THEN (IF Closings(k) = {} THEN {} ELSE NulsFrom[Min(Closings(k)) + 2])
              ELSE NulsFrom[StringEnd(k)]

\* No line feed up to the end of the literal.
NoFeed(k) == \A j \in k + 1 .. StringEnd(k) : text[j] # LF

\* The scan moves on from k to m, and meets N.
Unbroken(c, k)        == Broken \notin Rest(c, k) /\ (c = "string" => NoFeed(k))
Follows(c, k, d, m, N) ==
  Unbroken(c, k) => Rest(c, k) = N \cup Rest(d, m) /\ (d = "string" => NoFeed(m))

\* Two moves of the scan make one.
LEMMA FollowsOn ==
  ASSUME NEW c, NEW d, NEW e, NEW k, NEW l, NEW m, NEW M, NEW N,
         Follows(c, k, d, l, M), Follows(d, l, e, m, N)
  PROVE  Follows(c, k, e, m, M \cup N)
BY DEF Follows, Unbroken

\* Outside of literals and comments the scan moves as the lexer does.
LEMMA CodeFollows ==
  ASSUME text \in Seq(Byte), NEW k \in 0 .. Len(text) - 1
  PROVE  /\ OpensLineAt(k) => Follows("code", k, "line", k + 2, {})
         /\ OpensBlockAt(k) => Follows("code", k, "block", k + 2, {})
         /\ B(k) = Quote => Follows("code", k, "string", k + 1, {})
         /\ ~ OpensLineAt(k) /\ ~ OpensBlockAt(k) /\ B(k) # Quote =>
              Follows("code", k, "code", k + 1, IF B(k) = NUL THEN {k} ELSE {})
<1>0. /\ k \in 0 .. Len(text) /\ k < Len(text) /\ Slash \notin Blank /\ Slash # LF /\ Star # Slash
      /\ Quote \notin Blank /\ NUL \notin Blank /\ Quote # Slash
  BY DEF Slash, Star, Blank, LF, Quote, NUL
<1>1. ASSUME OpensLineAt(k) PROVE Follows("code", k, "line", k + 2, {})
  <2>1. /\ B(k) = Slash /\ B(k + 1) = Slash /\ k + 1 \in 0 .. Len(text) /\ k + 1 < Len(text)
        /\ (k + 1) + 1 = k + 2
    BY <1>1 DEF OpensLineAt
  <2>2. Skips(k) /\ SkipTo(k) = LineEnd(k)
    BY <1>0, <1>1, <2>1 DEF Skips, SkipTo
  <2>3. NulsFrom[k] = NulsFrom[LineEnd(k)]
    BY <1>0, <2>2, NulsFromAre
  <2>4. LineEnd(k) = LineEnd(k + 1) /\ LineEnd(k + 1) = LineEnd(k + 2)
    BY <1>0, <2>1, LineEnds
  <2> QED
    BY <2>3, <2>4 DEF Follows, Rest
<1>2. ASSUME OpensBlockAt(k) PROVE Follows("code", k, "block", k + 2, {})
  <2>1. B(k) = Slash /\ ~ OpensLineAt(k)
    BY <1>0, <1>2 DEF OpensBlockAt, OpensLineAt
  <2>2. CASE Closings(k + 2) = {}
    <3>1. ~ Skips(k)
      BY <1>0, <2>1, <2>2 DEF Skips
    <3>2. NulsFrom[k] = {}
      BY <1>0, <1>2, <3>1, NulsFromAre
    <3> QED
      BY <2>2, <3>2 DEF Follows, Rest
  <2>3. CASE Closings(k + 2) # {}
    <3>1. Skips(k) /\ SkipTo(k) = Min(Closings(k + 2)) + 2
      BY <1>0, <1>2, <2>1, <2>3 DEF Skips, SkipTo
    <3>2. NulsFrom[k] = NulsFrom[Min(Closings(k + 2)) + 2]
      BY <1>0, <3>1, NulsFromAre
    <3> QED
      BY <2>3, <3>2 DEF Follows, Rest
  <2> QED
    BY <2>2, <2>3
<1>3. ASSUME B(k) = Quote PROVE Follows("code", k, "string", k + 1, {})
  <2>1. ~ Skips(k) /\ ~ OpensBlockAt(k)
    BY <1>0, <1>3 DEF Skips, OpensLineAt, OpensBlockAt
  <2>2. NulsFrom[k] = (IF \E j \in k + 1 .. StringEnd(k + 1) : text[j] = LF
                       THEN {Broken} ELSE {}) \cup NulsFrom[StringEnd(k + 1)]
    BY <1>0, <1>3, <2>1, NulsFromAre
  <2>3. ASSUME Broken \notin NulsFrom[k]
        PROVE  NulsFrom[k] = NulsFrom[StringEnd(k + 1)] /\ NoFeed(k + 1)
    <3>1. \A j \in k + 1 .. StringEnd(k + 1) : text[j] # LF
      BY <2>2, <2>3
    <3>2. StringEnd(k + 1) \in 0 .. Len(text)
      BY StringEnds
    <3>3. \A j \in (k + 1) + 1 .. StringEnd(k + 1) : j \in k + 1 .. StringEnd(k + 1)
      BY <3>2
    <3>4. NulsFrom[k] = NulsFrom[StringEnd(k + 1)]
      BY <2>2, <3>1
    <3> QED
      BY <3>1, <3>3, <3>4 DEF NoFeed
  <2> QED
    BY <2>3 DEF Follows, Unbroken, Rest
<1>4. ASSUME ~ OpensLineAt(k), ~ OpensBlockAt(k), B(k) # Quote
      PROVE  Follows("code", k, "code", k + 1, IF B(k) = NUL THEN {k} ELSE {})
  <2>1. CASE B(k) \in Blank
    <3>1. Skips(k) /\ SkipTo(k) = k + 1
      BY <1>0, <2>1 DEF Skips, SkipTo
    <3>2. NulsFrom[k] = NulsFrom[k + 1]
      BY <1>0, <3>1, NulsFromAre
    <3> QED
      BY <1>0, <2>1, <3>2 DEF Follows, Rest
  <2>2. CASE B(k) \notin Blank
    <3>1. ~ Skips(k)
      BY <1>4, <2>2 DEF Skips
    <3>2. NulsFrom[k] = (IF B(k) = NUL THEN {k} ELSE {}) \cup NulsFrom[k + 1]
      BY <1>0, <1>4, <3>1, NulsFromAre
    <3> QED
      BY <3>2 DEF Follows, Rest
  <2> QED
    BY <2>1, <2>2
<1> QED
  BY <1>1, <1>2, <1>3, <1>4

\* So it does in a line comment.
LEMMA LineFollows ==
  ASSUME text \in Seq(Byte), NEW k \in 0 .. Len(text) - 1
  PROVE  Follows("line", k, IF B(k) = LF THEN "code" ELSE "line", k + 1, {})
<1>0. k \in 0 .. Len(text) /\ k < Len(text) /\ LF \in Blank
  BY DEF Blank, LF
<1>1. CASE B(k) = LF
  <2>1. Skips(k) /\ SkipTo(k) = k + 1
    BY <1>0, <1>1 DEF Skips, SkipTo
  <2>2. LineEnd(k) = k /\ NulsFrom[k] = NulsFrom[k + 1]
    BY <1>0, <1>1, <2>1, LineEnds, NulsFromAre
  <2> QED
    BY <1>1, <2>2 DEF Follows, Rest
<1>2. CASE B(k) # LF
  <2>1. LineEnd(k) = LineEnd(k + 1)
    BY <1>0, <1>2, LineEnds
  <2> QED
    BY <1>2, <2>1 DEF Follows, Rest
<1> QED
  BY <1>1, <1>2

\* So it does in a block comment.
LEMMA BlockFollows ==
  ASSUME text \in Seq(Byte), NEW k \in 0 .. Len(text) - 1
  PROVE  /\ Closing(k) => Follows("block", k, "code", k + 2, {})
         /\ ~ Closing(k) => Follows("block", k, "block", k + 1, {})
<1>0. k \in 0 .. Len(text) /\ k < Len(text)
  OBVIOUS
<1>1. ASSUME Closing(k) PROVE Follows("block", k, "code", k + 2, {})
  <2>1. Closings(k) # {} /\ Min(Closings(k)) = k
    BY <1>0, <1>1, BlockEnds
  <2> QED
    BY <2>1 DEF Follows, Rest
<1>2. ASSUME ~ Closing(k) PROVE Follows("block", k, "block", k + 1, {})
  <2>1. Closings(k) = Closings(k + 1)
    BY <1>0, <1>2, BlockEnds
  <2> QED
    BY <2>1 DEF Follows, Rest
<1> QED
  BY <1>1, <1>2

\* So it does in a string.
LEMMA StringFollows ==
  ASSUME text \in Seq(Byte), NEW k \in 0 .. Len(text) - 1
  PROVE  /\ B(k) = Quote => Follows("string", k, "code", k + 1, {})
         /\ B(k) = LF => Follows("string", k, "code", k + 1, {})
         /\ B(k) \notin {Quote, LF, Backslash} => Follows("string", k, "string", k + 1, {})
         /\ B(k) = Backslash /\ k + 1 = Len(text) => Follows("string", k, "string", k + 1, {})
         /\ B(k) = Backslash /\ k + 1 < Len(text) =>
              /\ Follows("string", k, "string", k + 2, {})
              /\ B(k + 1) = LF => Follows("string", k, "code", k + 2, {})
<1>0. /\ k \in 0 .. Len(text) /\ k < Len(text) /\ k + 1 \in 0 .. Len(text) /\ (k + 1) + 1 = k + 2
      /\ LF # Quote /\ LF # Backslash /\ k \in Nat
  BY DEF LF, Quote, Backslash
<1>1. ASSUME NEW m \in k + 1 .. Len(text), StringEnd(k) = StringEnd(m)
      PROVE  /\ Follows("string", k, "string", m, {})
             /\ \A j \in k + 1 .. m : text[j] = LF => ~ NoFeed(k)
  <2>1. StringEnd(m) \in m .. Len(text)
    BY StringEnds
  <2>2. \A j \in m + 1 .. StringEnd(m) : j \in k + 1 .. StringEnd(k)
    BY <1>0, <1>1, <2>1
  <2>3. \A j \in k + 1 .. m : j \in k + 1 .. StringEnd(k)
    BY <1>0, <1>1, <2>1
  <2>4. NoFeed(k) => NoFeed(m)
    BY <2>2 DEF NoFeed
  <2>5. Follows("string", k, "string", m, {})
    BY <1>1, <2>4 DEF Follows, Unbroken, Rest
  <2>6. \A j \in k + 1 .. m : text[j] = LF => ~ NoFeed(k)
    BY <2>3 DEF NoFeed
  <2> QED
    BY <2>5, <2>6
<1>2. ASSUME B(k) = Quote PROVE Follows("string", k, "code", k + 1, {})
  <2>1. StringEnd(k) = k + 1
    BY <1>0, <1>2, StringScans
  <2> QED
    BY <2>1 DEF Follows, Rest
<1>3. ASSUME ~ NoFeed(k), NEW m PROVE Follows("string", k, "code", m, {})
  BY <1>3 DEF Follows, Unbroken
<1>4. ASSUME B(k) = LF PROVE Follows("string", k, "code", k + 1, {})
  <2>1. StringEnd(k) = StringEnd(k + 1)
    BY <1>0, <1>4, StringScans
  <2>2. k + 1 \in k + 1 .. Len(text) /\ k + 1 \in k + 1 .. k + 1 /\ text[k + 1] = LF
    BY <1>0, <1>4 DEF B
  <2>3. ~ NoFeed(k)
    BY <1>1, <2>1, <2>2
  <2> QED
    BY <1>3, <2>3
<1>5. ASSUME B(k) \notin {Quote, LF, Backslash} PROVE Follows("string", k, "string", k + 1, {})
  <2>1. StringEnd(k) = StringEnd(k + 1)
    BY <1>0, <1>5, StringScans
  <2>2. k + 1 \in k + 1 .. Len(text)
    BY <1>0
  <2> QED
    BY <1>1, <2>1, <2>2
<1>6. ASSUME B(k) = Backslash, k + 1 = Len(text) PROVE Follows("string", k, "string", k + 1, {})
  <2>1. StringEnd(k) = k + 1 /\ StringEnd(k + 1) = k + 1
    BY <1>0, <1>6, StringScans
  <2>2. k + 1 \in k + 1 .. Len(text)
    BY <1>0
  <2> QED
    BY <1>1, <2>1, <2>2
<1>7. ASSUME B(k) = Backslash, k + 1 < Len(text)
      PROVE  /\ Follows("string", k, "string", k + 2, {})
             /\ B(k + 1) = LF => Follows("string", k, "code", k + 2, {})
  <2>1. StringEnd(k) = StringEnd(k + 2)
    BY <1>0, <1>7, StringScans
  <2>2. k + 2 \in k + 1 .. Len(text) /\ k + 2 \in k + 1 .. k + 2
    BY <1>0, <1>7
  <2>3. Follows("string", k, "string", k + 2, {})
    BY <1>1, <2>1, <2>2
  <2>4. ASSUME B(k + 1) = LF PROVE Follows("string", k, "code", k + 2, {})
    <3>1. text[k + 2] = LF
      BY <1>0, <2>4 DEF B
    <3>2. ~ NoFeed(k)
      BY <1>1, <2>1, <2>2, <3>1
    <3> QED
      BY <1>3, <3>2
  <2> QED
    BY <2>3, <2>4
<1> QED
  BY <1>2, <1>4, <1>5, <1>6, <1>7

\* The bytes of a sequence mean nothing in any context.
LEMMA ByteFollows ==
  ASSUME text \in Seq(Byte), NEW k \in 0 .. Len(text) - 1, B(k) >= 128,
         NEW c \in {"code", "line", "block", "string"}
  PROVE  Follows(c, k, c, k + 1, {})
<1>1. /\ B(k) # NUL /\ B(k) # LF /\ B(k) # Quote /\ B(k) # Star /\ B(k) # Slash /\ B(k) # Backslash
  BY DEF NUL, LF, Quote, Star, Slash, Backslash
<1>2. ~ OpensLineAt(k) /\ ~ OpensBlockAt(k) /\ ~ Closing(k)
  BY <1>1 DEF OpensLineAt, OpensBlockAt, Closing
<1>3. Follows("code", k, "code", k + 1, {})
  BY <1>1, <1>2, CodeFollows
<1>4. Follows("line", k, "line", k + 1, {})
  BY <1>1, LineFollows
<1>5. Follows("block", k, "block", k + 1, {})
  BY <1>2, BlockFollows
<1>6. Follows("string", k, "string", k + 1, {})
  BY <1>1, StringFollows
<1> QED
  BY <1>3, <1>4, <1>5, <1>6

\* So it does over bytes that are not of ASCII, in every context.
LEMMA BytesFollow ==
  ASSUME text \in Seq(Byte), NEW k \in 0 .. Len(text), NEW n \in 0 .. 4, k + n <= Len(text),
         \A j \in k .. k + n - 1 : B(j) >= 128,
         NEW c \in {"code", "line", "block", "string"}
  PROVE  Follows(c, k, c, k + n, {})
<1> DEFINE F(a, b) == Follows(c, a, c, b, {})
<1>1. ASSUME NEW m \in 0 .. 3, m < n, F(k, k + m) PROVE F(k, k + m + 1)
  <2>1. k + m \in 0 .. Len(text) - 1 /\ k + m \in k .. k + n - 1
    BY <1>1
  <2>2. B(k + m) >= 128
    BY <2>1
  <2>3. F(k + m, k + m + 1)
    BY <2>1, <2>2, ByteFollows
  <2>4. Follows(c, k, c, k + m + 1, {} \cup {})
    BY <1>1, <2>3, FollowsOn
  <2> QED
    BY <2>4
<1>2. F(k, k)
  BY DEF Follows, Unbroken
<1>3. k + 0 = k /\ k + 0 + 1 = k + 1 /\ k + 1 + 1 = k + 2 /\ k + 2 + 1 = k + 3 /\ k + 3 + 1 = k + 4
  OBVIOUS
<1> HIDE DEF F
<1>4. n > 0 => F(k, k + 1)
  BY <1>1, <1>2, <1>3
<1>5. n > 1 => F(k, k + 2)
  BY <1>1, <1>3, <1>4
<1>6. n > 2 => F(k, k + 3)
  BY <1>1, <1>3, <1>5
<1>7. n > 3 => F(k, k + 4)
  BY <1>1, <1>3, <1>6
<1>8. F(k, k + n)
  BY <1>2, <1>3, <1>4, <1>5, <1>6, <1>7
<1> QED
  BY <1>8 DEF F

-----------------------------------------------------------------------------
(* The scan                                                                *)

Contexts_ == {"code", "line", "block", "string"}
LoadCodes     == {"AIC-L0001", "AIC-L0002", "AIC-L0003"}
Findings  == [code : LoadCodes, start : Nat, end : Nat]

NulStarts(rs) == {r.start : r \in {x \in Range(rs) : x.code = "AIC-L0003"}}

\* What is known of the records when the scan is at k in context c.
RunsHold(rs)    == \A r \in RunsOf(rs) : NoCharacter(r.start, r.end)
Known(rs, c, k) == Broken \notin LexerNuls =>
                     /\ LexerNuls = NulStarts(rs) \cup Rest(c, k)
                     /\ c = "string" => NoFeed(k)
Marked(rs)      == (Is(0, 239) /\ Is(1, 187) /\ Is(2, 191)) => rs # <<>>
Deep(rs, c, k)  == Tiled(rs, k) /\ RunsHold(rs) /\ Known(rs, c, k) /\ Marked(rs)

\* The records of two rows of them.
LEMMA RangesJoin ==
  ASSUME NEW rs \in Seq(Findings), NEW found \in Seq(Findings)
  PROVE  /\ rs \o found \in Seq(Findings)
         /\ Range(rs \o found) = Range(rs) \cup Range(found)
<1>1. /\ rs \o found \in Seq(Findings) /\ Len(rs \o found) = Len(rs) + Len(found)
      /\ \A j \in 1 .. Len(rs) + Len(found) :
           (rs \o found)[j] = IF j <= Len(rs) THEN rs[j] ELSE found[j - Len(rs)]
  BY ConcatProperties
<1>2. ASSUME NEW x \in Range(rs \o found) PROVE x \in Range(rs) \cup Range(found)
  <2>1. PICK j \in 1 .. Len(rs) + Len(found) : x = (rs \o found)[j]
    BY <1>1 DEF Range
  <2>2. CASE j <= Len(rs)
    <3>1. j \in DOMAIN rs /\ x = rs[j]
      BY <1>1, <2>1, <2>2
    <3> QED
      BY <3>1 DEF Range
  <2>3. CASE ~ j <= Len(rs)
    <3>1. j - Len(rs) \in DOMAIN found /\ x = found[j - Len(rs)]
      BY <1>1, <2>1, <2>3
    <3> QED
      BY <3>1 DEF Range
  <2> QED
    BY <2>2, <2>3
<1>3. ASSUME NEW x \in Range(rs) PROVE x \in Range(rs \o found)
  <2>1. PICK j \in 1 .. Len(rs) : x = rs[j]
    BY DEF Range
  <2>2. j \in DOMAIN (rs \o found) /\ x = (rs \o found)[j]
    BY <1>1, <2>1
  <2> QED
    BY <2>2 DEF Range
<1>4. ASSUME NEW x \in Range(found) PROVE x \in Range(rs \o found)
  <2>1. PICK j \in 1 .. Len(found) : x = found[j]
    BY DEF Range
  <2>2. /\ Len(rs) + j \in DOMAIN (rs \o found) /\ x = (rs \o found)[Len(rs) + j]
    BY <1>1, <2>1
  <2> QED
    BY <2>2 DEF Range
<1> QED
  BY <1>1, <1>2, <1>3, <1>4

\* A character of one byte, and a sequence, add a piece to the row.
LEMMA AsciiTiles ==
  ASSUME text \in Seq(Byte), NEW k \in 0 .. Len(text) - 1, B(k) < 128, NEW rs, Tiled(rs, k)
  PROVE  Tiled(rs, k + 1)
<1>0. B(k) \in Byte /\ k \in Nat /\ k + 1 \in Nat /\ k < k + 1
  BY DEF B
<1>1. B(k) \in 0 .. 127
  <2>1. \A b \in Byte : b < 128 => b \in 0 .. 127
    BY DEF Byte
  <2> QED
    BY <1>0, <2>1
<1>2. Piece(rs, k, k + 1)
  <2>1. Character(k, 1) /\ 1 \in 1 .. 4
    BY <1>0, <1>1, CharacterRows
  <2> QED
    BY <2>1 DEF Piece
<1> QED
  BY <1>0, <1>2, TiledGrows

\* The empty row of records.
LEMMA NoneFound ==
  ASSUME NEW rs \in Seq(Findings)
  PROVE  rs \o <<>> = rs /\ RunsOf(<<>>) = {} /\ NulStarts(<<>>) = {} /\ <<>> \in Seq(Findings)
<1>1. Range(<<>>) = {}
  BY DEF Range
<1> QED
  BY <1>1 DEF RunsOf, NulStarts

\* A row of one record.
LEMMA OneFound ==
  ASSUME NEW code \in LoadCodes, NEW a \in Nat, NEW b \in Nat
  PROVE  /\ <<Finding(code, a, b)>> \in Seq(Findings)
         /\ Range(<<Finding(code, a, b)>>) = {Finding(code, a, b)}
         /\ Finding(code, a, b).code = code
         /\ Finding(code, a, b).start = a /\ Finding(code, a, b).end = b
<1>1. Finding(code, a, b) \in Findings
  BY DEF Finding, Findings
<1>2. Range(<<Finding(code, a, b)>>) = {Finding(code, a, b)}
  BY DEF Range
<1> QED
  BY <1>1, <1>2 DEF Finding

\* The bytes of a sequence are one piece of the text.
LEMMA SequenceTiles ==
  ASSUME text \in Seq(Byte), NEW k \in 0 .. Len(text) - 1, B(k) >= 128,
         NEW rs \in Seq(Findings), Tiled(rs, k)
  PROVE  LET q == SequenceAt(k) IN Tiled(rs \o q.found, k + q.size)
<1> DEFINE q == SequenceAt(k)
           ss == rs \o q.found
<1>1. /\ q.size \in 1 .. 4 /\ k + q.size <= Len(text)
      /\ Whole(k, q) \/ Reported(k, q)
  BY SequenceShape
<1> HIDE DEF q
<1>2. k \in Nat /\ k + q.size \in Nat /\ k < k + q.size /\ "AIC-L0001" \in LoadCodes
  BY <1>1 DEF LoadCodes
<1>3. q.found \in Seq(Findings)
  <2>1. CASE Whole(k, q)
    BY <2>1 DEF Whole
  <2>2. CASE Reported(k, q)
    <3>1. q.found = <<Finding("AIC-L0001", k, k + q.size)>>
      BY <2>2 DEF Reported
    <3>2. <<Finding("AIC-L0001", k, k + q.size)>> \in Seq(Findings)
      BY <1>2, OneFound
    <3> QED
      BY <3>1, <3>2, Zenon
  <2> QED
    BY <1>1, <2>1, <2>2
<1>4. RunsOf(rs) \subseteq RunsOf(ss)
  BY <1>3, RangesJoin DEF RunsOf
<1>5. Piece(ss, k, k + q.size)
  <2>1. CASE Whole(k, q)
    BY <1>1, <2>1 DEF Whole, Piece
  <2>2. CASE Reported(k, q)
    <3> DEFINE r == Finding("AIC-L0001", k, k + q.size)
    <3>1. Range(q.found) = {r} /\ r.code = "AIC-L0001" /\ r.start = k /\ r.end = k + q.size
      BY <1>2, <2>2, OneFound DEF Reported
    <3> HIDE DEF r
    <3>2. r \in RunsOf(ss)
      BY <1>3, <3>1, RangesJoin DEF RunsOf
    <3> QED
      BY <3>1, <3>2 DEF Piece
  <2> QED
    BY <1>1, <2>1, <2>2
<1> HIDE DEF ss
<1>6. Tiled(ss, k + q.size)
  BY <1>2, <1>4, <1>5, TiledGrows
<1> QED
  BY <1>6 DEF ss, q

\* The scan goes on from k to m, with what it found.
Moves(c, k, d, m, found) ==
  /\ m \in 0 .. Len(text) /\ d \in Contexts_
  /\ found \in Seq(Findings) /\ Marks(found) /\ RunsHold(found)
  /\ Follows(c, k, d, m, NulStarts(found))
  /\ \A rs \in Seq(Findings) : Tiled(rs, k) => Tiled(rs \o found, m)

\* What is known of the records stays known when the scan moves.
LEMMA MovesDeep ==
  ASSUME NEW rs \in Seq(Findings), Marks(rs), NEW c, NEW k, NEW d, NEW m, NEW found,
         Moves(c, k, d, m, found)
  PROVE  /\ rs \o found \in Seq(Findings) /\ Marks(rs \o found)
         /\ Deep(rs, c, k) => Deep(rs \o found, d, m)
<1> DEFINE ss == rs \o found
<1>1. ss \in Seq(Findings) /\ Range(ss) = Range(rs) \cup Range(found)
  BY RangesJoin DEF Moves
<1>2. rs # <<>> => ss # <<>>
  <2>1. Len(ss) = Len(rs) + Len(found) /\ Len(rs) \in Nat /\ Len(found) \in Nat
    BY ConcatProperties DEF Moves
  <2>2. rs # <<>> => Len(rs) # 0
    OBVIOUS
  <2>3. ss = <<>> => Len(ss) = 0
    OBVIOUS
  <2> HIDE DEF ss
  <2> QED
    BY <2>1, <2>2, <2>3
<1> HIDE DEF ss
<1>3. Marks(ss)
  BY <1>1 DEF Marks, Moves
<1>4. ASSUME Deep(rs, c, k) PROVE Deep(ss, d, m)
  <2>1. Tiled(ss, m)
    BY <1>4 DEF Deep, Moves, ss
  <2>2. RunsHold(ss)
    <3>1. RunsOf(ss) = RunsOf(rs) \cup RunsOf(found)
      BY <1>1 DEF RunsOf
    <3> QED
      BY <1>4, <3>1 DEF Deep, Moves, RunsHold
  <2>3. Known(ss, d, m)
    <3>1. NulStarts(ss) = NulStarts(rs) \cup NulStarts(found)
      BY <1>1 DEF NulStarts
    <3>2. ASSUME Broken \notin LexerNuls
          PROVE  LexerNuls = NulStarts(ss) \cup Rest(d, m) /\ (d = "string" => NoFeed(m))
      <4>1. LexerNuls = NulStarts(rs) \cup Rest(c, k) /\ (c = "string" => NoFeed(k))
        BY <1>4, <3>2 DEF Deep, Known
      <4>2. Unbroken(c, k)
        BY <3>2, <4>1 DEF Unbroken
      <4>3. Rest(c, k) = NulStarts(found) \cup Rest(d, m) /\ (d = "string" => NoFeed(m))
        BY <4>2 DEF Moves, Follows
      <4> QED
        BY <3>1, <4>1, <4>3
    <3> QED
      BY <3>2 DEF Known
  <2>4. Marked(ss)
    BY <1>2, <1>4 DEF Deep, Marked
  <2> QED
    BY <2>1, <2>2, <2>3, <2>4 DEF Deep
<1> QED
  BY <1>1, <1>3, <1>4 DEF ss

\* A move over one or two bytes of ASCII, without a finding.
LEMMA PlainMoves ==
  ASSUME text \in Seq(Byte), NEW k \in 0 .. Len(text) - 1, NEW m \in {k + 1, k + 2}, m <= Len(text),
         \A j \in k .. m - 1 : B(j) < 128,
         NEW c, NEW d \in Contexts_, Follows(c, k, d, m, {})
  PROVE  Moves(c, k, d, m, <<>>)
<1>1. ASSUME NEW rs \in Seq(Findings), Tiled(rs, k) PROVE Tiled(rs, m)
  <2>1. Tiled(rs, k + 1)
    BY <1>1, AsciiTiles
  <2>2. CASE m = k + 1
    BY <2>1, <2>2
  <2>3. CASE m = k + 2
    <3>1. k + 1 \in 0 .. Len(text) - 1 /\ B(k + 1) < 128 /\ (k + 1) + 1 = m
      BY <2>3
    <3> QED
      BY <2>1, <3>1, AsciiTiles
  <2> QED
    BY <2>2, <2>3
<1>2. /\ <<>> \in Seq(Findings) /\ RunsOf(<<>>) = {} /\ NulStarts(<<>>) = {}
      /\ \A rs \in Seq(Findings) : rs \o <<>> = rs
  <2>1. <<>> \in Seq(Findings)
    OBVIOUS
  <2> QED
    BY <2>1, NoneFound
<1>3. Range(<<>>) = {}
  BY DEF Range
<1>4. Marks(<<>>) /\ RunsHold(<<>>)
  BY <1>2, <1>3 DEF Marks, RunsHold
<1>5. m \in 0 .. Len(text)
  OBVIOUS
<1> QED
  BY <1>1, <1>2, <1>4, <1>5 DEF Moves

\* A move over a NUL byte, which is found.
LEMMA NulMoves ==
  ASSUME text \in Seq(Byte), NEW k \in 0 .. Len(text) - 1, B(k) = NUL
  PROVE  Moves("code", k, "code", k + 1, <<Finding("AIC-L0003", k, k + 1)>>)
<1> DEFINE r == Finding("AIC-L0003", k, k + 1)
           found == <<r>>
<1>0. /\ k \in Nat /\ k + 1 \in Nat /\ k + 1 \in 0 .. Len(text) /\ k < k + 1 /\ k \in 0 .. Len(text)
      /\ "AIC-L0003" \in LoadCodes
      /\ B(k) < 128 /\ B(k) # Quote /\ B(k) # Slash
  BY DEF NUL, Quote, Slash, LoadCodes
<1>1. /\ found \in Seq(Findings) /\ Range(found) = {r}
      /\ r.code = "AIC-L0003" /\ r.start = k /\ r.end = k + 1
  BY <1>0, OneFound
<1> HIDE DEF r, found
<1>2. Marks(found)
  BY <1>0, <1>1 DEF Marks
<1>3. RunsHold(found)
  BY <1>1 DEF RunsHold, RunsOf
<1>4. NulStarts(found) = {k}
  <2>1. {x \in Range(found) : x.code = "AIC-L0003"} = {r}
    BY <1>1
  <2> QED
    BY <1>1, <2>1 DEF NulStarts
<1>5. Follows("code", k, "code", k + 1, NulStarts(found))
  <2>1. ~ OpensLineAt(k) /\ ~ OpensBlockAt(k)
    BY <1>0 DEF OpensLineAt, OpensBlockAt
  <2>2. Follows("code", k, "code", k + 1, IF B(k) = NUL THEN {k} ELSE {})
    BY <1>0, <2>1, CodeFollows
  <2> QED
    BY <1>4, <2>2
<1>6. ASSUME NEW rs \in Seq(Findings), Tiled(rs, k) PROVE Tiled(rs \o found, k + 1)
  <2>1. RunsOf(rs) \subseteq RunsOf(rs \o found)
    BY <1>1, RangesJoin DEF RunsOf
  <2>2. B(k) \in 0 .. 127
    BY DEF NUL
  <2>3. Character(k, 1) /\ 1 \in 1 .. 4
    BY <1>0, <2>2, CharacterRows
  <2>4. Piece(rs \o found, k, k + 1)
    BY <2>3 DEF Piece
  <2> QED
    BY <1>0, <1>6, <2>1, <2>4, TiledGrows
<1>7. "code" \in Contexts_
  BY DEF Contexts_
<1> QED
  BY <1>0, <1>1, <1>2, <1>3, <1>5, <1>6, <1>7 DEF Moves, found, r

\* The record of a sequence, if there is one.
LEMMA SequenceFound ==
  ASSUME text \in Seq(Byte), NEW k \in 0 .. Len(text) - 1, B(k) >= 128
  PROVE  LET q == SequenceAt(k)
         IN /\ q.found \in Seq(Findings) /\ Marks(q.found) /\ RunsHold(q.found)
            /\ NulStarts(q.found) = {}
<1> DEFINE q == SequenceAt(k)
           r == Finding("AIC-L0001", k, k + q.size)
<1>1. /\ q.size \in 1 .. 4 /\ k + q.size <= Len(text)
      /\ Whole(k, q) \/ Reported(k, q)
  BY SequenceShape
<1> HIDE DEF q
<1>2. /\ k \in Nat /\ k + q.size \in Nat /\ k < k + q.size /\ "AIC-L0001" \in LoadCodes
      /\ k \in 0 .. Len(text) /\ k + q.size \in 0 .. Len(text)
  BY <1>1 DEF LoadCodes
<1>3. CASE Whole(k, q)
  <2>1. q.found = <<>> /\ Range(<<>>) = {}
    BY <1>3 DEF Whole, Range
  <2> QED
    BY <2>1, NoneFound DEF Marks, RunsHold, RunsOf, NulStarts, q
<1>4. CASE Reported(k, q)
  <2>1. q.found = <<r>> /\ NoCharacter(k, k + q.size)
    BY <1>4 DEF Reported
  <2>2. /\ <<r>> \in Seq(Findings) /\ Range(<<r>>) = {r}
        /\ r.code = "AIC-L0001" /\ r.start = k /\ r.end = k + q.size
    BY <1>2, OneFound
  <2> HIDE DEF r
  <2>3. q.found \in Seq(Findings) /\ Range(q.found) = {r}
    BY <2>1, <2>2, Zenon
  <2>4. Marks(q.found)
    BY <1>2, <2>2, <2>3 DEF Marks
  <2>5. RunsHold(q.found)
    BY <2>1, <2>2, <2>3 DEF RunsHold, RunsOf
  <2>6. NulStarts(q.found) = {}
    BY <2>2, <2>3 DEF NulStarts
  <2> QED
    BY <2>3, <2>4, <2>5, <2>6 DEF q
<1> QED
  BY <1>1, <1>3, <1>4

\* A move over a sequence.
LEMMA SequenceMoves ==
  ASSUME text \in Seq(Byte), NEW k \in 0 .. Len(text) - 1, B(k) >= 128, NEW c \in Contexts_
  PROVE  Moves(c, k, c, k + SequenceAt(k).size, SequenceAt(k).found)
<1> DEFINE q == SequenceAt(k)
<1>1. /\ q.size \in 1 .. 4 /\ k + q.size <= Len(text)
      /\ \A j \in k .. k + q.size - 1 : B(j) \in Byte /\ B(j) >= 128
  BY SequenceShape
<1>2. /\ q.found \in Seq(Findings) /\ Marks(q.found) /\ RunsHold(q.found)
      /\ NulStarts(q.found) = {}
  BY SequenceFound
<1>3. \A rs \in Seq(Findings) : Tiled(rs, k) => Tiled(rs \o q.found, k + q.size)
  BY SequenceTiles
<1> HIDE DEF q
<1>4. Follows(c, k, c, k + q.size, {})
  <2>1. q.size \in 0 .. 4 /\ k \in 0 .. Len(text)
    BY <1>1
  <2> QED
    BY <1>1, <2>1, BytesFollow DEF Contexts_
<1>5. k + q.size \in 0 .. Len(text)
  BY <1>1
<1> QED
  BY <1>2, <1>3, <1>4, <1>5 DEF Moves, q

\* A backslash and the sequence behind it.
LEMMA EscapeMoves ==
  ASSUME text \in Seq(Byte), NEW k \in 0 .. Len(text) - 1, k + 1 < Len(text),
         B(k) = Backslash, B(k + 1) >= 128
  PROVE  Moves("string", k, "string", k + (1 + SequenceAt(k + 1).size), SequenceAt(k + 1).found)
<1> DEFINE q == SequenceAt(k + 1)
           m == k + (1 + q.size)
<1>0. k + 1 \in 0 .. Len(text) - 1 /\ B(k) < 128
  BY DEF Backslash
<1>1. /\ q.size \in 1 .. 4 /\ (k + 1) + q.size <= Len(text)
      /\ \A j \in k + 1 .. (k + 1) + q.size - 1 : B(j) \in Byte /\ B(j) >= 128
  BY <1>0, SequenceShape
<1>2. /\ q.found \in Seq(Findings) /\ Marks(q.found) /\ RunsHold(q.found)
      /\ NulStarts(q.found) = {}
  BY <1>0, SequenceFound
<1>3. \A rs \in Seq(Findings) : Tiled(rs, k + 1) => Tiled(rs \o q.found, (k + 1) + q.size)
  BY <1>0, SequenceTiles
<1> HIDE DEF q
<1>4. (k + 1) + q.size = m /\ m \in 0 .. Len(text)
  BY <1>1
<1>5. \A rs \in Seq(Findings) : Tiled(rs, k) => Tiled(rs \o q.found, m)
  <2>1. \A rs \in Seq(Findings) : Tiled(rs, k) => Tiled(rs, k + 1)
    BY <1>0, AsciiTiles
  <2> HIDE DEF m
  <2> QED
    BY <1>3, <1>4, <2>1
<1>6. Follows("string", k, "string", m, {})
  <2>1. Follows("string", k, "string", k + 2, {})
    BY StringFollows
  <2> DEFINE n == q.size - 1
  <2>2. /\ n \in 0 .. 4 /\ k + 2 \in 0 .. Len(text) /\ (k + 2) + n = m /\ (k + 2) + n <= Len(text)
        /\ \A j \in k + 2 .. (k + 2) + n - 1 : j \in k + 1 .. (k + 1) + q.size - 1
    BY SMTT(40), <1>1
  <2> HIDE DEF n, m
  <2>3. \A j \in k + 2 .. (k + 2) + n - 1 : B(j) >= 128
    BY <1>1, <2>2
  <2>4. Follows("string", k + 2, "string", (k + 2) + n, {})
    BY <2>2, <2>3, BytesFollow
  <2>5. Follows("string", k, "string", m, {} \cup {})
    BY <2>1, <2>2, <2>4, FollowsOn
  <2> QED
    BY <2>5
<1>7. "string" \in Contexts_
  BY DEF Contexts_
<1> HIDE DEF m
<1> QED
  BY <1>2, <1>4, <1>5, <1>6, <1>7 DEF Moves, q, m

-----------------------------------------------------------------------------
(* The text stays what it is                                               *)

\* What the lexer meets depends on nothing but the text.
LEMMA NulsKept ==
  ASSUME text' = text
  PROVE  NulsFrom' = NulsFrom /\ LexerNuls' = LexerNuls
<1>1. NulsFrom' = NulsFrom
  BY DEF NulsFrom, NulsAt, TriviaEnd, Skipped, SkipAt, LineEnd, B, OpensLineAt, OpensBlockAt, Closings,
         Is, Have, StringEnd, Strung, StringAt, Unterminated, Before, Discarded, IsHex, HexEnd
<1>2. LexerNuls' = LexerNuls
  BY DEF LexerNuls, B, Have, Is, skip_trivia, LineEnd, Closings, BlockEnd, scan_string_one, IsHex, HexEnd
<1> QED
  BY <1>1, <1>2

\* What is known of the records depends on nothing but them and the text.
LEMMA DeepKept ==
  ASSUME text' = text, Deep(scan_records', ctx', i')
  PROVE  Deep(scan_records, ctx, i)'
<1>1. Tiled(scan_records, i)'
  <2>1. Tiled(scan_records', i')
    BY DEF Deep
  <2> QED
    BY <2>1 DEF Tiled, Row, Piece, RunsOf, Character
<1>2. RunsHold(scan_records)'
  <2>1. ASSUME NEW a, NEW b PROVE NoCharacter(a, b)' <=> NoCharacter(a, b)
    BY DEF NoCharacter, Character
  <2> QED
    BY <2>1 DEF Deep, RunsHold, RunsOf
<1>3. Known(scan_records, ctx, i)'
  <2>1. LineEnd(i)' = LineEnd(i')
    BY DEF LineEnd, B
  <2>2. Closings(i)' = Closings(i')
    BY DEF Closings, Is, Have, B
  <2>3. StringEnd(i)' = StringEnd(i')
    BY DEF StringEnd, Strung, StringAt, Unterminated, Before, Discarded, Have, IsHex, Is, B, HexEnd
  <2>4. Rest(ctx, i)' = Rest(ctx', i')
    BY <2>1, <2>2, <2>3, NulsKept DEF Rest
  <2>5. NoFeed(i)' <=> NoFeed(i')
    BY <2>3 DEF NoFeed
  <2>6. Known(scan_records', ctx', i')
    BY DEF Deep
  <2> QED
    BY <2>4, <2>5, <2>6, NulsKept DEF Known, NulStarts
<1>4. Marked(scan_records)'
  BY DEF Deep, Marked, Is, Have, B
<1> QED
  BY <1>1, <1>2, <1>3, <1>4 DEF Deep

\* The whole file, normalised, and its lines.
Loaded == Normalized(text, Len(raw)) /\ LineStarts(text, starts) /\ Len(starts) <= Len(raw) + 1

\* The text and its lines stay what they are.
LEMMA LoadedKept ==
  ASSUME UNCHANGED <<raw, text, starts>>, Loaded
  PROVE  Loaded'
<1>1. \A k : KeptTo(k)' = KeptTo(k)
  BY DEF KeptTo, Keep
<1>2. Normalized(text, Len(raw))'
  BY <1>1 DEF Loaded, Normalized
<1>3. LineStarts(text, starts)'
  BY DEF Loaded, LineStarts, LineFeeds
<1> QED
  BY <1>2, <1>3 DEF Loaded

\* What is known of the records does not depend on their order.
LEMMA DeepReordered ==
  ASSUME NEW rs \in Seq(Findings), NEW ss \in Seq(Findings), Range(ss) = Range(rs),
         NEW c, NEW k, Deep(rs, c, k)
  PROVE  Deep(ss, c, k)
<1>1. RunsOf(ss) = RunsOf(rs) /\ NulStarts(ss) = NulStarts(rs)
  BY DEF RunsOf, NulStarts
<1>2. Tiled(ss, k)
  BY <1>1 DEF Deep, Tiled, Row, Piece
<1>3. rs # <<>> => ss # <<>>
  <2>1. ASSUME rs # <<>> PROVE Range(rs) # {}
    <3>1. 1 \in DOMAIN rs
      BY <2>1
    <3> QED
      BY <3>1 DEF Range
  <2>2. Range(<<>>) = {}
    BY DEF Range
  <2> QED
    BY <2>1, <2>2
<1> QED
  BY <1>1, <1>2, <1>3 DEF Deep, RunsHold, Known, Marked

-----------------------------------------------------------------------------
(* The invariant                                                           *)

Typed_ == /\ raw \in Seq(Byte) /\ text \in Seq(Byte) /\ ctx \in Contexts_
          /\ scan_records \in Seq(Findings) /\ Marks(scan_records)
          /\ scan_oom \in BOOLEAN
          /\ pc \in {"read", "normalize", "scan", "done"}
          /\ pc # "done" => load_status = "none"

Reading == pc = "read" =>
  /\ i = 0 /\ text = <<>> /\ ctx = "code" /\ scan_records = <<>> /\ ~ scan_oom

Normalizing == pc = "normalize" =>
  /\ i \in 0 .. Len(raw) /\ Normalized(text, i) /\ LineStarts(text, starts)
  /\ Len(starts) <= Len(text) + 1 /\ Len(text) <= i
  /\ ctx = "code" /\ scan_records = <<>> /\ ~ scan_oom

Scanning == /\ pc = "scan" => Loaded
            /\ pc \in {"scan", "done"} => i \in 0 .. Len(text)
            /\ pc = "scan" /\ ~ scan_oom => Deep(scan_records, ctx, i)

Finished == Validated =>
  /\ i = Len(text) /\ Deep(scan_records, ctx, i)
  /\ load_status = "LOAD_OK" => scan_records = <<>>

IInv == Typed_ /\ Reading /\ Normalizing /\ Scanning /\ Finished

\* The marks depend on nothing but the records and the text.
LEMMA MarksKept ==
  ASSUME text' = text, Marks(scan_records')
  PROVE  Marks(scan_records)'
BY DEF Marks

\* One step of the scan.
LEMMA GoesPreserves ==
  ASSUME IInv, pc = "scan", NEW d, NEW n, NEW found, Moves(ctx, i, d, i + n, found),
         Goes(d, n, found)
  PROVE  IInv'
<1>1. /\ ctx' = d /\ i' = i + n /\ Add(found) /\ UNCHANGED <<raw, pc, text, starts, load_status>>
  BY DEF Goes
<1>2. /\ Typed_ /\ Scanning
      /\ d \in Contexts_ /\ i + n \in 0 .. Len(text)
  BY DEF IInv, Moves
<1>3. /\ scan_records \o found \in Seq(Findings) /\ Marks(scan_records \o found)
      /\ Deep(scan_records, ctx, i) => Deep(scan_records \o found, d, i + n)
  BY <1>2, MovesDeep DEF Typed_
<1>4. \/ scan_oom /\ UNCHANGED <<scan_records, scan_oom>>
      \/ ~ scan_oom /\ scan_records' = scan_records \o found /\ UNCHANGED scan_oom
      \/ ~ scan_oom /\ scan_oom' = TRUE /\ UNCHANGED scan_records
  BY <1>1 DEF Add
<1>5. /\ scan_records' \in Seq(Findings) /\ Marks(scan_records') /\ scan_oom' \in BOOLEAN
      /\ ~ scan_oom' => Deep(scan_records', ctx', i')
  <2>1. CASE scan_oom /\ UNCHANGED <<scan_records, scan_oom>>
    BY <1>2, <2>1 DEF Typed_
  <2>2. CASE ~ scan_oom /\ scan_records' = scan_records \o found /\ UNCHANGED scan_oom
    BY <1>1, <1>2, <1>3, <2>2 DEF Typed_, Scanning
  <2>3. CASE ~ scan_oom /\ scan_oom' = TRUE /\ UNCHANGED scan_records
    BY <1>2, <2>3 DEF Typed_
  <2> QED
    BY <1>4, <2>1, <2>2, <2>3
<1>6. Typed_'
  BY <1>1, <1>2, <1>5, MarksKept DEF Typed_
<1>7. Scanning'
  <2>1. Loaded'
    BY <1>1, <1>2, LoadedKept DEF Scanning
  <2>2. (i \in 0 .. Len(text))'
    BY <1>1, <1>2
  <2>3. ~ scan_oom' => Deep(scan_records, ctx, i)'
    BY <1>1, <1>5, DeepKept
  <2> QED
    BY <2>1, <2>2, <2>3 DEF Scanning
<1>8. pc' = "scan"
  BY <1>1
<1>9. Reading' /\ Normalizing' /\ Finished'
  BY <1>8 DEF Reading, Normalizing, Finished, Validated
<1> QED
  BY <1>6, <1>7, <1>9 DEF IInv

\* The initial states.
LEMMA InitHolds ==
  ASSUME raw \in Seq(0 .. 255), LoadInit
  PROVE  IInv
<1>1. raw \in Seq(Byte) /\ text \in Seq(Byte) /\ scan_records \in Seq(Findings)
  BY DEF LoadInit, Idle, Byte
<1>2. Range(scan_records) = {}
  BY DEF LoadInit, Idle, Range
<1>3. Typed_
  BY <1>1, <1>2 DEF Typed_, LoadInit, Idle, Marks, Contexts_
<1> QED
  BY <1>3 DEF IInv, LoadInit, Idle, Reading, Normalizing, Scanning, Finished, Validated

\* Before its first turn normalising has kept nothing.
LEMMA NormalizingBegins ==
  raw \in Seq(Byte) => Normalized(<<>>, 0) /\ LineStarts(<<>>, <<0>>)
<1> SUFFICES ASSUME raw \in Seq(Byte)
             PROVE  Normalized(<<>>, 0) /\ LineStarts(<<>>, <<0>>)
  OBVIOUS
<1>1. KeptTo(0) = {}
  BY DEF KeptTo, Keep
<1>2. Cardinality(KeptTo(0)) = 0
  BY <1>1, FS_EmptySet
<1>3. Normalized(<<>>, 0)
  BY <1>1, <1>2 DEF Normalized
<1>4. LineFeeds(<<>>, 0) = {} /\ Cardinality(LineFeeds(<<>>, 0)) = 0
  BY FS_EmptySet DEF LineFeeds
<1> DEFINE s == <<0>>
<1>5. /\ s \in Seq(Nat) /\ Len(s) = 1 /\ s[1] = 0 /\ s # <<>> /\ Len(<<>>) = 0
      /\ 1 .. Len(s) = {1} /\ 2 .. Len(s) = {}
  OBVIOUS
<1> HIDE DEF s
<1>6. LineStarts(<<>>, s)
  BY <1>4, <1>5 DEF LineStarts
<1> QED
  BY <1>3, <1>6 DEF s

\* The file is read, or an error answered.
LEMMA ReadPreserves ==
  ASSUME IInv, Read
  PROVE  IInv'
<1>0. /\ Typed_ /\ pc = "read" /\ UNCHANGED <<raw, i, text, ctx, scan_records, scan_oom>>
      /\ i = 0 /\ text = <<>> /\ ctx = "code" /\ scan_records = <<>> /\ ~ scan_oom
  BY DEF IInv, Read, Reading
<1>1. Marks(scan_records)'
  BY <1>0, MarksKept DEF Typed_
<1>2. CASE \E s \in {"LOAD_IO_ERROR", "LOAD_OOM"} : Ends(s)
  <2>1. pc' = "done" /\ load_status' \in {"LOAD_IO_ERROR", "LOAD_OOM"}
    BY <1>2 DEF Ends
  <2>2. Typed_'
    BY <1>0, <1>1, <2>1 DEF Typed_
  <2>3. (i \in 0 .. Len(text))'
    BY <1>0
  <2> QED
    BY <2>1, <2>2, <2>3 DEF IInv, Reading, Normalizing, Scanning, Finished, Validated
<1>3. CASE pc' = "normalize" /\ starts' = <<0>> /\ UNCHANGED load_status
  <2>1. Typed_'
    BY <1>0, <1>1, <1>3 DEF Typed_
  <2>2. (raw \in Seq(Byte))' /\ (text = <<>>)' /\ (starts = <<0>>)' /\ (i = 0)'
    BY <1>0, <1>3 DEF Typed_
  <2>3. Normalized(text, i)' /\ LineStarts(text, starts)'
    <3>1. Normalized(<<>>, 0)' /\ LineStarts(<<>>, <<0>>)'
      <4>1. (raw \in Seq(Byte) => Normalized(<<>>, 0) /\ LineStarts(<<>>, <<0>>))'
        BY NormalizingBegins, PTL
      <4> QED
        BY <2>2, <4>1
    <3> QED
      BY <2>2, <3>1 DEF Normalized, LineStarts, LineFeeds
  <2>4. Normalizing'
    <3>1. (Len(starts) <= Len(text) + 1 /\ Len(text) <= i /\ i \in 0 .. Len(raw))'
      BY <2>2
    <3>2. (ctx = "code" /\ scan_records = <<>> /\ ~ scan_oom)'
      BY <1>0
    <3> QED
      BY <2>3, <3>1, <3>2 DEF Normalizing
  <2> QED
    BY <1>3, <2>1, <2>4 DEF IInv, Reading, Scanning, Finished, Validated
<1> QED
  BY <1>2, <1>3 DEF Read

\* One turn of normalize_bytes.
LEMMA NormalizePreserves ==
  ASSUME IInv, NormalizeStep
  PROVE  IInv'
<1> DEFINE b == IF CrLfAt(i) THEN LF ELSE raw[i + 1]
           m == i + (IF CrLfAt(i) THEN 2 ELSE 1)
           t == Append(text, b)
           s == IF b = LF THEN Append(starts, Len(text) + 1) ELSE starts
<1>0. /\ Typed_ /\ pc = "normalize" /\ i < Len(raw)
      /\ UNCHANGED <<raw, pc, ctx, scan_records, scan_oom, load_status>>
      /\ text' = t /\ starts' = s /\ i' = m
      /\ i \in 0 .. Len(raw) - 1 /\ Normalized(text, i) /\ LineStarts(text, starts)
      /\ Len(starts) <= Len(text) + 1 /\ Len(text) <= i
      /\ ctx = "code" /\ scan_records = <<>> /\ ~ scan_oom
      /\ raw \in Seq(Byte) /\ text \in Seq(Byte)
  BY DEF IInv, NormalizeStep, Normalizing, Typed_
<1>1. Normalized(t, m) /\ m \in i + 1 .. Len(raw) /\ b \in Byte
  BY <1>0, StepNormalizes
<1> HIDE DEF b, m
<1>2. LineStarts(t, s)
  BY <1>0, <1>1, LineStartsGrow
<1>3. t \in Seq(Byte) /\ Len(t) = Len(text) + 1
  BY <1>0, <1>1
<1>4. Len(s) <= Len(t) + 1 /\ Len(t) <= m
  <2>1. starts \in Seq(Nat) /\ Len(text) \in Nat
    BY <1>0 DEF LineStarts
  <2>2. Len(s) \in {Len(starts), Len(starts) + 1} /\ Len(starts) \in Nat
    BY <2>1
  <2> HIDE DEF s, t
  <2>3. m \in Nat /\ m >= i + 1
    BY <1>0, <1>1
  <2> QED
    BY <1>0, <1>3, <2>1, <2>2, <2>3
<1> HIDE DEF t, s
<1>5. Normalized(text, i)'
  <2>1. \A k : KeptTo(k)' = KeptTo(k)
    BY <1>0 DEF KeptTo, Keep
  <2> QED
    BY <1>0, <1>1, <2>1 DEF Normalized
<1>6. LineStarts(text, starts)'
  BY <1>0, <1>2 DEF LineStarts, LineFeeds
<1>7. Marks(scan_records)'
  <2>1. Range(scan_records') = {}
    BY <1>0 DEF Range
  <2> QED
    BY <2>1 DEF Marks
<1>8. Typed_'
  BY <1>0, <1>3, <1>7 DEF Typed_
<1>9. Normalizing'
  BY <1>0, <1>1, <1>4, <1>5, <1>6 DEF Normalizing
<1> QED
  BY <1>0, <1>8, <1>9 DEF IInv, Reading, Scanning, Finished, Validated

\* The scan begins, with the byte order mark.
LEMMA BeginPreserves ==
  ASSUME IInv, BeginScan
  PROVE  IInv'
<1> DEFINE bom == Is(0, 239) /\ Is(1, 187) /\ Is(2, 191)
           found == IF bom THEN <<Finding("AIC-L0002", 0, 3)>> ELSE <<>>
<1>0. /\ Typed_ /\ pc = "normalize" /\ i = Len(raw) /\ pc' = "scan" /\ i' = 0
      /\ Add(found) /\ UNCHANGED <<raw, text, starts, ctx, load_status>>
      /\ Normalized(text, Len(raw)) /\ LineStarts(text, starts)
      /\ Len(starts) <= Len(text) + 1 /\ Len(text) <= i
      /\ ctx = "code" /\ scan_records = <<>> /\ ~ scan_oom
      /\ raw \in Seq(Byte) /\ text \in Seq(Byte)
  BY DEF IInv, BeginScan, Normalizing, Typed_
<1>1. Loaded
  <2>1. Len(starts) \in Nat /\ Len(text) \in Nat /\ Len(raw) \in Nat
    BY <1>0 DEF LineStarts
  <2> QED
    BY <1>0, <2>1 DEF Loaded
<1>2. Loaded'
  BY <1>0, <1>1, LoadedKept
<1>3. /\ found \in Seq(Findings) /\ Marks(found) /\ RunsOf(found) = {} /\ NulStarts(found) = {}
      /\ bom => found # <<>>
  <2>1. CASE bom
    <3> DEFINE r == Finding("AIC-L0002", 0, 3)
    <3>1. "AIC-L0002" \in LoadCodes /\ 0 \in Nat /\ 3 \in Nat
      BY DEF LoadCodes
    <3>2. /\ <<r>> \in Seq(Findings) /\ Range(<<r>>) = {r}
          /\ r.code = "AIC-L0002" /\ r.start = 0 /\ r.end = 3
      BY <3>1, OneFound
    <3> HIDE DEF r
    <3>3. 0 \in 0 .. Len(text) /\ 3 \in 0 .. Len(text)
      BY <1>0, <2>1 DEF Is, Have
    <3>4. /\ Marks(<<r>>) /\ RunsOf(<<r>>) = {} /\ NulStarts(<<r>>) = {} /\ <<r>> # <<>>
      BY <3>2, <3>3 DEF Marks, RunsOf, NulStarts
    <3> QED
      BY <2>1, <3>2, <3>4 DEF r
  <2>2. CASE ~ bom
    <3>1. Range(<<>>) = {}
      BY DEF Range
    <3> QED
      BY <2>2, <3>1 DEF Marks, RunsOf, NulStarts
  <2> QED
    BY <2>1, <2>2
<1>4. Deep(found, "code", 0)
  <2>1. Known(found, "code", 0)
    BY <1>0, <1>3, LexerNulsAre DEF Known, Rest
  <2>2. Marked(found)
    BY <1>3 DEF Marked
  <2> HIDE DEF found, bom
  <2> QED
    BY <1>3, <2>1, <2>2, TiledBegins DEF Deep, RunsHold
<1>5. /\ scan_records' \in Seq(Findings) /\ Marks(scan_records') /\ scan_oom' \in BOOLEAN
      /\ ~ scan_oom' => scan_records' = found
  <2> HIDE DEF found, bom
  <2>1. scan_records \o found = found
    BY <1>0, <1>3
  <2>2. Marks(scan_records) /\ scan_records \in Seq(Findings) /\ scan_oom \in BOOLEAN
    BY <1>0 DEF Typed_
  <2>3. \/ scan_records' = scan_records \o found /\ scan_oom' = scan_oom
        \/ scan_oom' = TRUE /\ scan_records' = scan_records
    BY <1>0 DEF Add
  <2>4. CASE scan_records' = scan_records \o found /\ scan_oom' = scan_oom
    <3>1. scan_records' = found
      BY <2>1, <2>4
    <3> QED
      BY <1>3, <2>2, <2>4, <3>1
  <2>5. CASE scan_oom' = TRUE /\ scan_records' = scan_records
    BY <2>2, <2>5
  <2> QED
    BY <2>3, <2>4, <2>5
<1> HIDE DEF found, bom
<1>6. Typed_'
  BY <1>0, <1>5, MarksKept DEF Typed_
<1>7. Scanning'
  <2>1. (i \in 0 .. Len(text))'
    BY <1>0
  <2>2. ~ scan_oom' => Deep(scan_records', ctx', i')
    BY <1>0, <1>4, <1>5
  <2>3. ~ scan_oom' => Deep(scan_records, ctx, i)'
    BY <1>0, <2>2, DeepKept
  <2> QED
    BY <1>2, <2>1, <2>3 DEF Scanning
<1>8. Reading' /\ Normalizing' /\ Finished'
  BY <1>0 DEF Reading, Normalizing, Finished, Validated
<1> QED
  BY <1>6, <1>7, <1>8 DEF IInv

\* In every context, at every byte, the scan moves on as the lexer does.
ScanStep == \/ Multibyte \/ LineComment \/ BlockComment \/ OpenString \/ Nul \/ Code
            \/ InLine \/ CloseBlock \/ InBlock \/ Escape \/ InString

\* One step of the scan.
LEMMA ScanPreserves ==
  ASSUME IInv, ScanStep
  PROVE  IInv'
<1>0. /\ text \in Seq(Byte) /\ pc = "scan" /\ i \in 0 .. Len(text) - 1 /\ i \in Nat /\ ctx \in Contexts_
      /\ B(i) \in Byte
  <2>1. pc = "scan" /\ i < Len(text)
    BY DEF ScanStep, Multibyte, LineComment, BlockComment, OpenString, Nul, Code,
           InLine, CloseBlock, InBlock, Escape, InString, In, Have
  <2> QED
    BY <2>1 DEF IInv, Typed_, Scanning, B
<1>1. /\ OpensLine <=> OpensLineAt(i)
      /\ OpensBlock <=> OpensBlockAt(i)
      /\ Is(i, Star) /\ Is(i + 1, Slash) <=> Closing(i)
  BY <1>0 DEF OpensLine, OpensBlock, OpensLineAt, OpensBlockAt, Closing, Is, Have
<1>2. /\ Slash < 128 /\ Star < 128 /\ Quote < 128 /\ LF < 128 /\ Backslash < 128 /\ NUL < 128
      /\ "code" \in Contexts_ /\ "line" \in Contexts_ /\ "block" \in Contexts_
      /\ "string" \in Contexts_
  BY DEF Slash, Star, Quote, LF, Backslash, NUL, Contexts_
<1>3. ASSUME NEW d \in Contexts_, NEW n \in {1, 2}, i + n <= Len(text), B(i) < 128,
             n = 2 => B(i + 1) < 128, Follows(ctx, i, d, i + n, {}), Goes(d, n, <<>>)
      PROVE  IInv'
  <2>1. \A j \in i .. (i + n) - 1 : B(j) < 128
    <3>1. \A j \in i .. (i + n) - 1 : j = i \/ (n = 2 /\ j = i + 1)
      BY <1>0
    <3> QED
      BY <1>3, <3>1
  <2>2. i + n \in {i + 1, i + 2}
    OBVIOUS
  <2>3. Moves(ctx, i, d, i + n, <<>>)
    BY <1>0, <1>3, <2>1, <2>2, PlainMoves
  <2> QED
    BY <1>0, <1>3, <2>3, GoesPreserves
<1>4. CASE Multibyte
  <2>1. B(i) >= 128 /\ Goes(ctx, SequenceAt(i).size, SequenceAt(i).found)
    BY <1>4 DEF Multibyte
  <2>2. Moves(ctx, i, ctx, i + SequenceAt(i).size, SequenceAt(i).found)
    BY <1>0, <2>1, SequenceMoves
  <2> QED
    BY <1>0, <2>1, <2>2, GoesPreserves
<1>5. CASE LineComment
  <2>1. ctx = "code" /\ OpensLineAt(i) /\ Goes("line", 2, <<>>)
    BY <1>1, <1>5 DEF LineComment, In
  <2>2. i + 2 <= Len(text) /\ B(i) < 128 /\ B(i + 1) < 128
    BY <1>0, <1>2, <2>1 DEF OpensLineAt
  <2>3. Follows(ctx, i, "line", i + 2, {})
    BY <1>0, <2>1, CodeFollows
  <2> QED
    BY <1>2, <1>3, <2>1, <2>2, <2>3
<1>6. CASE BlockComment
  <2>1. ctx = "code" /\ OpensBlockAt(i) /\ Goes("block", 2, <<>>)
    BY <1>1, <1>6 DEF BlockComment, In
  <2>2. i + 2 <= Len(text) /\ B(i) < 128 /\ B(i + 1) < 128
    BY <1>0, <1>2, <2>1 DEF OpensBlockAt
  <2>3. Follows(ctx, i, "block", i + 2, {})
    BY <1>0, <2>1, CodeFollows
  <2> QED
    BY <1>2, <1>3, <2>1, <2>2, <2>3
<1>7. CASE OpenString
  <2>1. ctx = "code" /\ B(i) = Quote /\ Goes("string", 1, <<>>)
    BY <1>7 DEF OpenString, In
  <2>2. Follows("code", i, "string", i + 1, {})
    BY <1>0, <2>1, CodeFollows
  <2>3. i + 1 <= Len(text)
    BY <1>0
  <2>4. Follows(ctx, i, "string", i + 1, {})
    BY <2>1, <2>2
  <2> QED
    BY <1>2, <1>3, <2>1, <2>3, <2>4
<1>8. CASE Nul
  <2>1. ctx = "code" /\ B(i) = NUL /\ Goes("code", 1, <<Finding("AIC-L0003", i, i + 1)>>)
    BY <1>8 DEF Nul, In
  <2>2. Moves(ctx, i, "code", i + 1, <<Finding("AIC-L0003", i, i + 1)>>)
    BY <1>0, <2>1, NulMoves
  <2> QED
    BY <1>0, <2>1, <2>2, GoesPreserves
<1>9. CASE Code
  <2>1. /\ ctx = "code" /\ B(i) < 128 /\ B(i) # Quote /\ B(i) # NUL
        /\ ~ OpensLineAt(i) /\ ~ OpensBlockAt(i) /\ Goes("code", 1, <<>>)
    BY <1>1, <1>9 DEF Code, In
  <2>2. Follows("code", i, "code", i + 1, IF B(i) = NUL THEN {i} ELSE {})
    BY <1>0, <2>1, CodeFollows
  <2>3. i + 1 <= Len(text)
    BY <1>0
  <2>4. Follows(ctx, i, "code", i + 1, {})
    BY <2>1, <2>2
  <2> QED
    BY <1>2, <1>3, <2>1, <2>3, <2>4
<1>10. CASE InLine
  <2> DEFINE d == IF B(i) = LF THEN "code" ELSE "line"
  <2>1. ctx = "line" /\ B(i) < 128 /\ Goes(d, 1, <<>>)
    BY <1>10 DEF InLine, In
  <2>2. Follows(ctx, i, d, i + 1, {}) /\ i + 1 <= Len(text)
    BY <1>0, <2>1, LineFollows
  <2>3. d \in Contexts_
    BY <1>2
  <2> HIDE DEF d
  <2> QED
    BY <1>3, <2>1, <2>2, <2>3
<1>11. CASE CloseBlock
  <2>1. ctx = "block" /\ Closing(i) /\ Goes("code", 2, <<>>)
    BY <1>1, <1>11 DEF CloseBlock, In
  <2>2. i + 2 <= Len(text) /\ B(i) < 128 /\ B(i + 1) < 128
    BY <1>0, <1>2, <2>1 DEF Closing
  <2>3. Follows(ctx, i, "code", i + 2, {})
    BY <1>0, <2>1, BlockFollows
  <2> QED
    BY <1>2, <1>3, <2>1, <2>2, <2>3
<1>12. CASE InBlock
  <2>1. ctx = "block" /\ ~ Closing(i) /\ B(i) < 128 /\ Goes("block", 1, <<>>)
    BY <1>1, <1>12 DEF InBlock, In
  <2>2. Follows(ctx, i, "block", i + 1, {}) /\ i + 1 <= Len(text)
    BY <1>0, <2>1, BlockFollows
  <2> QED
    BY <1>2, <1>3, <2>1, <2>2
<1>13. CASE Escape
  <2>0. ctx = "string" /\ B(i) = Backslash
    BY <1>13 DEF Escape, In
  <2>1. CASE ~ Have(i + 1) /\ Goes("string", 1, <<>>)
    <3>1. i + 1 = Len(text)
      BY <1>0, <2>1 DEF Have
    <3>2. Follows(ctx, i, "string", i + 1, {})
      BY <1>0, <2>0, <3>1, StringFollows
    <3> QED
      BY <1>2, <1>3, <2>0, <2>1, <3>1, <3>2
  <2>2. CASE Is(i + 1, LF) /\ Goes("code", 2, <<>>)
    <3>1. i + 1 < Len(text) /\ B(i + 1) = LF
      BY <2>2 DEF Is, Have
    <3>2. Follows(ctx, i, "code", i + 2, {}) /\ i + 2 <= Len(text)
      BY <1>0, <2>0, <3>1, StringFollows
    <3> QED
      BY <1>2, <1>3, <2>0, <2>2, <3>1, <3>2
  <2>3. CASE /\ Have(i + 1) /\ B(i + 1) >= 128
             /\ Goes("string", 1 + SequenceAt(i + 1).size, SequenceAt(i + 1).found)
    <3>1. Moves(ctx, i, "string", i + (1 + SequenceAt(i + 1).size), SequenceAt(i + 1).found)
      BY <1>0, <2>0, <2>3, EscapeMoves DEF Have
    <3> QED
      BY <1>0, <2>3, <3>1, GoesPreserves
  <2>4. CASE Have(i + 1) /\ B(i + 1) \in 0 .. 127 \ {LF} /\ Goes("string", 2, <<>>)
    <3>1. i + 1 < Len(text) /\ B(i + 1) < 128
      <4>1. B(i + 1) < 128
        BY <2>4, Ascii
      <4> QED
        BY <2>4, <4>1 DEF Have
    <3>2. Follows(ctx, i, "string", i + 2, {}) /\ i + 2 <= Len(text)
      BY <1>0, <2>0, <3>1, StringFollows
    <3> QED
      BY <1>2, <1>3, <2>0, <2>4, <3>1, <3>2
  <2> QED
    BY <1>13, <2>1, <2>2, <2>3, <2>4 DEF Escape
<1>14. CASE InString
  <2> DEFINE d == IF B(i) \in {Quote, LF} THEN "code" ELSE "string"
  <2>1. ctx = "string" /\ B(i) < 128 /\ B(i) # Backslash /\ Goes(d, 1, <<>>)
    BY <1>14 DEF InString, In
  <2>2. Follows(ctx, i, d, i + 1, {}) /\ i + 1 <= Len(text)
    BY <1>0, <2>1, StringFollows
  <2>3. d \in Contexts_
    BY <1>2
  <2> HIDE DEF d
  <2> QED
    BY <1>3, <2>1, <2>2, <2>3
<1> QED
  BY <1>4, <1>5, <1>6, <1>7, <1>8, <1>9, <1>10, <1>11, <1>12, <1>13, <1>14 DEF ScanStep

\* At the end of the text the lexer meets nothing more.
LEMMA RestEnds ==
  ASSUME text \in Seq(Byte), NEW c \in Contexts_
  PROVE  Rest(c, Len(text)) = {}
<1> DEFINE n == Len(text)
<1>0. n \in 0 .. Len(text)
  OBVIOUS
<1>1. NulsFrom[n] = {}
  BY <1>0, NulsFromAre
<1>2. LineEnd(n) = n
  BY <1>0, LineEnds
<1>3. Closings(n) = {}
  BY <1>0, BlockEnds
<1>4. StringEnd(n) = n
  <2>1. StringEnd(n) \in n .. Len(text)
    BY <1>0, StringEnds
  <2> QED
    BY <2>1
<1> QED
  BY <1>1, <1>2, <1>3, <1>4 DEF Rest

\* Sorting the records keeps them all.
LEMMA OrderKeeps ==
  ASSUME NEW S, NEW rs \in Seq(S), NEW o \in Orders(rs)
  PROVE  /\ [k \in DOMAIN rs |-> rs[o[k]]] \in Seq(S)
         /\ Range([k \in DOMAIN rs |-> rs[o[k]]]) = Range(rs)
<1> DEFINE ss == [k \in DOMAIN rs |-> rs[o[k]]]
<1>0. DOMAIN rs = 1 .. Len(rs) /\ Len(rs) \in Nat
  OBVIOUS
<1>1. \A k \in DOMAIN rs : o[k] \in DOMAIN rs
  BY DEF Orders
<1>2. \A k \in DOMAIN rs : \E j \in DOMAIN rs : o[j] = k
  BY DEF Orders
<1>3. \A k \in DOMAIN rs : rs[o[k]] \in S
  BY <1>1, <1>0
<1>4. ss \in Seq(S)
  BY <1>0, <1>3
<1>5. DOMAIN ss = DOMAIN rs /\ \A k \in DOMAIN rs : ss[k] = rs[o[k]]
  OBVIOUS
<1> HIDE DEF ss
<1>6. ASSUME NEW r PROVE r \in Range(ss) <=> r \in Range(rs)
  <2>1. ASSUME r \in Range(ss) PROVE r \in Range(rs)
    <3>1. PICK k \in DOMAIN rs : ss[k] = r
      BY <1>5, <2>1 DEF Range
    <3> QED
      BY <1>1, <1>5, <3>1 DEF Range
  <2>2. ASSUME r \in Range(rs) PROVE r \in Range(ss)
    <3>1. PICK k \in DOMAIN rs : rs[k] = r
      BY <2>2 DEF Range
    <3>2. PICK j \in DOMAIN rs : o[j] = k
      BY <1>2
    <3> QED
      BY <1>5, <3>1, <3>2 DEF Range
  <2> QED
    BY <2>1, <2>2
<1>7. Range(ss) = Range(rs)
  BY <1>6
<1> QED
  BY <1>4, <1>7 DEF ss

\* The load ends: what is known of the records is known of them sorted.
LEMMA FinishPreserves ==
  ASSUME IInv, LoadFinish
  PROVE  IInv'
<1>0. /\ pc = "scan" /\ i = Len(text) /\ pc' = "done"
      /\ UNCHANGED <<raw, i, text, starts, ctx, scan_oom>>
      /\ Typed_ /\ (~ scan_oom => Deep(scan_records, ctx, i))
  <2>1. pc = "scan" /\ ~ (i < Len(text)) /\ UNCHANGED <<raw, i, text, starts, ctx, scan_oom>>
    BY DEF LoadFinish, Have
  <2>2. pc' = "done"
    BY DEF LoadFinish, Ends
  <2>3. Typed_ /\ i \in 0 .. Len(text) /\ (~ scan_oom => Deep(scan_records, ctx, i))
    BY <2>1 DEF IInv, Scanning
  <2>4. Len(text) \in Nat
    BY <2>3 DEF Typed_
  <2>5. i = Len(text)
    <3> DEFINE l == Len(text)
    <3>1. ~ (i < l) /\ i \in 0 .. l /\ l \in Nat
      BY <2>1, <2>3, <2>4
    <3> HIDE DEF l
    <3>2. i = l
      BY <3>1
    <3> QED
      BY <3>2 DEF l
  <2> QED
    BY <2>1, <2>2, <2>3, <2>5
<1>1. ASSUME scan_records' \in Seq(Findings), Marks(scan_records'),
             load_status' \in {"LOAD_OK", "LOAD_VALIDATION_ERROR"}
                 => Deep(scan_records', ctx', i'),
             load_status' = "LOAD_OK" => scan_records' = <<>>
      PROVE  IInv'
  <2>1. Typed_'
    BY <1>0, <1>1, MarksKept DEF Typed_
  <2>2. Scanning'
    BY <1>0 DEF Scanning, IInv, Typed_
  <2>3. Validated' => Deep(scan_records, ctx, i)'
    BY <1>0, <1>1, DeepKept DEF Validated
  <2>4. Finished'
    BY <1>0, <1>1, <2>3 DEF Finished
  <2> QED
    BY <1>0, <2>1, <2>2, <2>4 DEF IInv, Reading, Normalizing
<1>2. Marks(<<>>) /\ <<>> \in Seq(Findings)
  BY DEF Marks, Range
<1>3. CASE scan_oom /\ Ends("LOAD_OOM") /\ scan_records' = <<>>
  BY <1>1, <1>2, <1>3 DEF Ends
<1>4. CASE /\ ~ scan_oom /\ scan_records # <<>> /\ Ends("LOAD_VALIDATION_ERROR")
           /\ \E o \in Orders(scan_records) :
                scan_records' = [k \in DOMAIN scan_records |-> scan_records[o[k]]]
  <2>1. load_status' = "LOAD_VALIDATION_ERROR"
    BY <1>4 DEF Ends
  <2>2. scan_records \in Seq(Findings) /\ Marks(scan_records)
    BY <1>0 DEF Typed_
  <2>3. PICK o \in Orders(scan_records) :
          scan_records' = [k \in DOMAIN scan_records |-> scan_records[o[k]]]
    BY <1>4
  <2>4. scan_records' \in Seq(Findings) /\ Range(scan_records') = Range(scan_records)
    BY <2>2, <2>3, OrderKeeps
  <2>5. Marks(scan_records')
    BY <2>2, <2>4 DEF Marks
  <2>6. Deep(scan_records, ctx, i)
    BY <1>0, <1>4
  <2>7. Deep(scan_records', ctx, i)
    BY <2>2, <2>4, <2>6, DeepReordered
  <2>8. Deep(scan_records', ctx', i')
    BY <1>0, <2>7
  <2> QED
    BY <1>1, <2>1, <2>4, <2>5, <2>8
<1>5. CASE /\ ~ scan_oom /\ scan_records = <<>> /\ UNCHANGED scan_records
           /\ Ends("LOAD_OK") \/ (TRUE \in LoadFailures /\ Ends("LOAD_OOM"))
  <2>1. Deep(scan_records', ctx', i')
    BY <1>0, <1>5
  <2> QED
    BY <1>1, <1>2, <1>5, <2>1
<1> QED
  BY <1>3, <1>4, <1>5 DEF LoadFinish

\* A step that changes nothing.
LEMMA StutterPreserves ==
  ASSUME IInv, UNCHANGED loadVars
  PROVE  IInv'
<1>0. UNCHANGED <<raw, pc, i, text, starts, ctx, scan_records, scan_oom, load_status>>
  BY DEF loadVars
<1>1. Typed_'
  BY <1>0, MarksKept DEF IInv, Typed_
<1>2. Reading'
  BY <1>0 DEF IInv, Reading
<1>3. Normalizing'
  <2>1. \A k : KeptTo(k)' = KeptTo(k)
    BY <1>0 DEF KeptTo, Keep
  <2>2. Normalized(text, i) => Normalized(text, i)'
    BY <1>0, <2>1 DEF Normalized
  <2>3. LineStarts(text, starts) => LineStarts(text, starts)'
    BY <1>0 DEF LineStarts, LineFeeds
  <2> QED
    BY <1>0, <2>2, <2>3 DEF IInv, Normalizing
<1>4. Deep(scan_records, ctx, i) => Deep(scan_records, ctx, i)'
  BY <1>0, DeepKept
<1>5. Scanning'
  <2>1. Loaded => Loaded'
    BY <1>0, LoadedKept
  <2> QED
    BY <1>0, <1>4, <2>1 DEF IInv, Scanning
<1>6. Finished'
  BY <1>0, <1>4 DEF IInv, Finished, Validated
<1> QED
  BY <1>1, <1>2, <1>3, <1>5, <1>6 DEF IInv

\* IInv is inductive.
LEMMA NextPreserves ==
  IInv /\ [LoadNext]_loadVars => IInv'
<1> SUFFICES ASSUME IInv, [LoadNext]_loadVars PROVE IInv'
  OBVIOUS
<1>1. CASE Read
  BY <1>1, ReadPreserves
<1>2. CASE NormalizeStep
  BY <1>2, NormalizePreserves
<1>3. CASE BeginScan
  BY <1>3, BeginPreserves
<1>4. CASE ScanStep
  BY <1>4, ScanPreserves
<1>5. CASE LoadFinish
  BY <1>5, FinishPreserves
<1>6. CASE UNCHANGED loadVars
  BY <1>6, StutterPreserves
<1> QED
  BY <1>1, <1>2, <1>3, <1>4, <1>5, <1>6 DEF LoadNext, ScanStep

-----------------------------------------------------------------------------
(* The theorem                                                             *)

\* In every state of the invariant, what is known of the file is what is in it.
LEMMA Exact ==
  IInv => SourceExact
<1> SUFFICES ASSUME IInv PROVE SourceExact
  OBVIOUS
<1>0. /\ Typed_ /\ Scanning /\ Finished /\ text \in Seq(Byte) /\ raw \in Seq(Byte)
      /\ scan_records \in Seq(Findings) /\ Marks(scan_records) /\ ctx \in Contexts_
      /\ Runs = RunsOf(scan_records)
  BY DEF IInv, Typed_, Runs, RunsOf
<1>1. TypeOK
  <2>1. \A k \in DOMAIN scan_records : scan_records[k].start < scan_records[k].end
    BY <1>0 DEF Marks, Range
  <2>2. pc = "normalize" => i <= Len(raw)
    BY DEF IInv, Normalizing
  <2>3. pc \in {"scan", "done"} => i <= Len(text)
    BY <1>0 DEF Scanning
  <2>4. ctx \in {"code", "line", "block", "string"}
    BY <1>0 DEF Contexts_
  <2> QED
    BY <1>0, <2>1, <2>2, <2>3, <2>4 DEF TypeOK, Typed_
<1>2. ASSUME Validated
      PROVE  /\ Splits /\ \A r \in Runs : NoCharacter(r.start, r.end)
             /\ Known(scan_records, ctx, Len(text)) /\ Marked(scan_records)
  <2>1. Deep(scan_records, ctx, Len(text))
    BY <1>0, <1>2 DEF Finished
  <2>2. Splits
    BY <1>0, <2>1, TiledSplits DEF Deep
  <2> QED
    BY <1>0, <2>1, <2>2 DEF Deep, RunsHold
<1>3. Utf8Exact
  BY <1>2 DEF Utf8Exact, NoCharacter
<1>4. NulsExact
  <2>1. ASSUME Validated, Broken \notin LexerNuls PROVE LexerNuls = NulStarts(scan_records)
    BY <1>0, <1>2, <2>1, RestEnds DEF Known
  <2> QED
    BY <2>1 DEF NulsExact, NulStarts
<1>5. PositionsExact
  <2>1. ASSUME pc = "scan" PROVE Loaded
    BY <1>0, <2>1 DEF Scanning
  <2>2. Positions
    <3>1. ASSUME pc = "scan", NEW o \in 0 .. Len(text) PROVE position_at(o) = PositionIn(o)
      BY <1>0, <2>1, <3>1, PositionFound DEF Loaded
    <3> QED
      BY <3>1 DEF Positions, PositionIn
  <2>3. Kept
    <3>1. ASSUME pc = "scan" PROVE Len(starts) <= Len(raw) + 2
      <4>1. Len(starts) \in Nat /\ Len(raw) \in Nat /\ Len(starts) <= Len(raw) + 1
        BY <1>0, <2>1, <3>1 DEF Loaded, LineStarts
      <4> QED
        BY <4>1
    <3>2. pc = "scan" => Normalized(text, Len(raw))
      BY <2>1 DEF Loaded
    <3> QED
      BY <1>0, <3>1, <3>2, NormalizedWhole DEF Kept
  <2> QED
    BY <2>2, <2>3 DEF PositionsExact
<1>6. NothingAcceptedInError
  <2>1. ASSUME load_status = "LOAD_OK" PROVE Validated /\ scan_records = <<>>
    <3>1. Validated
      BY <1>0, <2>1 DEF Typed_, Validated
    <3> QED
      BY <1>0, <2>1, <3>1 DEF Finished
  <2>2. ASSUME load_status = "LOAD_OK" PROVE Runs = {}
    BY <1>0, <2>1, <2>2 DEF RunsOf, Range
  <2> QED
    BY <1>2, <2>1, <2>2 DEF NothingAcceptedInError, Marked
<1> QED
  BY <1>1, <1>3, <1>4, <1>5, <1>6 DEF SourceExact

\* load_source_from_file, whatever the bytes of the file and whichever of its
\* allocations and reads fail: the text is the file without the CR of every
\* CRLF, position_at answers the line and the column counted in that text, the
\* UTF-8 findings and the characters of Unicode's table tile it, the NUL bytes
\* found are those the lexer meets, and nothing with a finding is accepted.
THEOREM SourceExactHolds == LoadSpec => []SourceExact
<1>1. raw \in Seq(0 .. 255) /\ LoadInit => IInv
  BY InitHolds
<1>2. IInv /\ [LoadNext]_loadVars => IInv'
  BY NextPreserves
<1>3. IInv => SourceExact
  BY Exact
<1> QED
  BY <1>1, <1>2, <1>3, PTL DEF LoadSpec

=============================================================================
