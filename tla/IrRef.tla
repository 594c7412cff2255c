-------------------------------- MODULE IrRef --------------------------------
(***************************************************************************)
(* What a program of the IR means, said without registers, frames or       *)
(* flags: values are integers, every local has an address of its own, and  *)
(* an operation that cannot be done stops the program with the code of its *)
(* rule and the node it was asked of.  The reference the emitted code is   *)
(* compared with.                                                          *)
(***************************************************************************)
EXTENDS X64

OfType(t, v) == IF Signed(t) THEN Sig(v, Width(t)) ELSE Unsig(v, Width(t))
InRange(t, v) == OfType(t, v) = v

\* A run: memory, the next free address, and the trap that ended it, if any.
Fine(s) == s.trap = <<>>
Fail(s, code, num, id) == [s EXCEPT !.trap = <<code, num, id>>]
Out(s, v) == [s |-> s, v |-> v]
Trapped(s, code, id) == Out(Fail(s, code, NumericOf(code), id), 0)
OrTrap(s, ok, v, code, id) == IF ok THEN Out(s, v) ELSE Trapped(s, code, id)

Arith(k, x, y) ==
  CASE k = "ADD" -> x + y [] k = "SUB" -> x - y [] k = "MUL" -> x * y
Bitop(k, x, y) ==
  CASE k = "BAND" -> x & y [] k = "BOR" -> x | y [] k = "BXOR" -> x ^^ y
Related(k, x, y) ==
  CASE k = "EQ" -> x = y [] k = "NE" -> x # y [] k = "LT" -> x < y
    [] k = "LE" -> x <= y [] k = "GT" -> x > y [] k = "GE" -> x >= y

Flag(b) == IF b THEN 1 ELSE 0

\* The byte sequences that are UTF-8.
Cont(q, i) == i \in DOMAIN q /\ q[i] \in 128 .. 191
CharLen(q, i) ==
  CASE q[i] < 128 -> 1
    [] q[i] \in 194 .. 223 /\ Cont(q, i + 1) -> 2
    [] /\ q[i] \in 224 .. 239 /\ Cont(q, i + 1) /\ Cont(q, i + 2)
       /\ (q[i] = 224 => q[i + 1] >= 160) /\ (q[i] = 237 => q[i + 1] <= 159) -> 3
    [] /\ q[i] \in 240 .. 244 /\ Cont(q, i + 1) /\ Cont(q, i + 2) /\ Cont(q, i + 3)
       /\ (q[i] = 240 => q[i + 1] >= 144) /\ (q[i] = 244 => q[i + 1] <= 143) -> 4
    [] OTHER -> 0
RECURSIVE Utf8From(_, _)
Utf8From(q, i) ==
  \/ i = Len(q) + 1
  \/ /\ i <= Len(q)
     /\ CharLen(q, i) > 0
     /\ Utf8From(q, i + CharLen(q, i))
BytesAt(m, a, n) == [i \in 1 .. n |-> m[a + i - 1]]

RECURSIVE Ev(_, _, _, _), Args(_, _, _, _), Ex(_, _, _, _), Invoke(_, _, _, _)

\* An operation on the values x of its operands.
Apply(g, e, n, s, x) ==
  LET t == n.t  w == Width(t)  id == n.id  a == n.a
      st == a[1].t
      U(i) == Unsig(x[i], w)
      pair == LoadAt(s.m, x[1], 8)  len == LoadAt(s.m, x[1] + 8, 8)
  IN CASE n.k = "FIELD_ADDR" -> Out(s, x[1] + n.x)
       [] n.k = "INDEX_ADDR" ->
            OrTrap(s, x[2] \in 0 .. (IF st.k = "array" THEN st.n ELSE len) - 1,
                   (IF st.k = "array" THEN x[1] ELSE pair) + ElemSize(t) * x[2], "R0807", id)
       [] n.k = "DEREF" -> OrTrap(s, x[1] # 0, x[1], "R0809", id)
       [] n.k = "LOAD" ->
            LET v == OfType(t, LoadAt(s.m, x[1], w))
            IN OrTrap(s, t.k = "bool" => v <= 1, v, "R0805", id)
       [] n.k = "STORE" ->
            LET vt == a[2].t
            IN Out([s EXCEPT !.m = IF Composite(vt) THEN Copied(@, x[1], x[2], vt.size)
                                   ELSE StoreAt(@, x[1], Unsig(x[2], Width(vt)), Width(vt))], 0)
       [] n.k = "ZERO" -> Out([s EXCEPT !.m = Filled(@, x[1], st.size, 0)], 0)
       [] n.k \in {"ADD", "SUB", "MUL"} ->
            LET v == Arith(n.k, x[1], x[2]) IN OrTrap(s, InRange(t, v), v, "R0802", id)
       [] n.k = "NEG" -> OrTrap(s, InRange(t, -x[1]), -x[1], "R0802", id)
       [] n.k \in {"DIV", "MOD"} ->
            IF x[2] = 0 THEN Trapped(s, "R0803", id)
            ELSE LET q == Quot(x[1], x[2])
                 IN Out(s, IF n.k = "DIV" THEN q ELSE x[1] - q * x[2])
       [] n.k \in {"SHL", "SHR"} ->
            IF Unsig(x[2], Width(a[2].t)) >= Bits[w] THEN Trapped(s, "R0804", id)
            ELSE Out(s, OfType(t, IF n.k = "SHL" THEN U(1) * 2 ^ x[2] ELSE x[1] \div 2 ^ x[2]))
       [] n.k \in {"BAND", "BOR", "BXOR"} -> Out(s, OfType(t, Bitop(n.k, U(1), U(2))))
       [] n.k = "BNOT" -> Out(s, OfType(t, -x[1] - 1))
       [] n.k = "LNOT" -> Out(s, 1 - x[1])
       [] n.k \in {"EQ", "NE", "LT", "LE", "GT", "GE"} -> Out(s, Flag(Related(n.k, x[1], x[2])))
       [] n.k = "LEN" -> Out(s, IF st.k = "array" THEN st.n ELSE len)
       [] n.k = "PTR" -> Out(s, IF st.k = "array" THEN (IF st.n = 0 THEN 0 ELSE x[1]) ELSE pair)
       [] n.k = "CAST" /\ t.k = "str" ->
            OrTrap(s, Utf8From(BytesAt(s.m, pair, len), 1), x[1], "R0806", id)
       [] n.k = "CAST" /\ t.k # "str" ->
            OrTrap(s, n.x = "R0801" => InRange(t, x[1]), OfType(t, x[1]), "R0801", id)
       [] n.k = "WRAP" -> Out(s, OfType(t, x[1]))
       [] n.k \in {"PTR_ADD", "PTR_SUB"} ->
            LET d == ElemSize(st) * x[2]
                v == IF n.k = "PTR_ADD" THEN x[1] + d ELSE x[1] - d
            IN OrTrap(s, v \in 0 .. Mod2(8) - 1, v, "R0816", id)
       [] n.k = "PTR_DIFF" ->
            LET d == x[1] - x[2]
            IN OrTrap(s, d % ElemSize(st) = 0, d \div ElemSize(st), "R0810", id)
       [] n.k = "SLICE" ->
            LET from == IF a[2].k = "NONE" THEN 0 ELSE x[2]
                all  == IF st.k = "array" THEN st.n ELSE len
                to   == IF a[3].k = "NONE" THEN all ELSE x[3]
                base == IF st.k = "array" THEN x[1] ELSE pair
                es   == IF st.k = "str" THEN 1 ELSE ElemSize(st)
                On(i) == i = all \/ s.m[base + i] \notin 128 .. 191
                m1 == StoreAt(StoreAt(s.m, s.top, base + es * from, 8), s.top + 8, to - from, 8)
            IN OrTrap([s EXCEPT !.m = m1, !.top = @ + 16],
                      from <= to /\ to <= all /\ (st.k = "str" => On(from) /\ On(to)),
                      s.top, IF st.k = "str" THEN "R0808" ELSE "R0807", id)
       [] n.k = "CALL" -> Invoke(g, n.x, x, s)

\* The values of operands, in order; an absent one counts as 0.
Args(g, e, q, s) ==
  LET One(acc, n) ==
        IF ~Fine(acc.s) THEN acc
        ELSE IF n.k = "NONE" THEN [acc EXCEPT !.v = Append(@, 0)]
        ELSE LET r == Ev(g, e, n, acc.s) IN Out(r.s, Append(acc.v, r.v))
  IN Fold(One, Out(s, <<>>), q)

\* The value of a node, and the run after it; e is the address of each local.
Ev(g, e, n, s) ==
  CASE n.k \in {"INT", "ENUM_VAL", "BOOL"} -> Out(s, n.x)
    [] n.k = "NULL" -> Out(s, 0)
    [] n.k \in {"STR", "GLOBAL"} -> Out(s, g.glob)
    [] n.k = "LOCAL" -> Out(s, e[n.x + 1])
    [] n.k \in {"LAND", "LOR"} ->
         LET l == Ev(g, e, n.a[1], s)
         IN IF ~Fine(l.s) \/ l.v = Flag(n.k = "LOR") THEN l ELSE Ev(g, e, n.a[2], l.s)
    [] n.k = "SELECT" ->
         LET c == Ev(g, e, n.a[1], s)
         IN IF ~Fine(c.s) THEN c ELSE Ev(g, e, n.a[IF c.v = 1 THEN 2 ELSE 3], c.s)
    [] OTHER -> LET r == Args(g, e, n.a, s)
                IN IF Fine(r.s) THEN Apply(g, e, n, r.s, r.v) ELSE Out(r.s, 0)

\* How a statement ends: falling through, leaving or repeating a construct
\* (to), or returning v.
End(s, how, to, v) == [s |-> s, how |-> how, to |-> to, v |-> v]
Going(r) == Fine(r.s) /\ r.how = "next"

Ex(g, e, n, s) ==
  LET Next(r, m) == IF Going(r) THEN Ex(g, e, m, r.s) ELSE r
      Value(m) == Ev(g, e, m, s)
      Left(r) == IF r.how = "brk" /\ r.to = n.id THEN End(r.s, "next", 0, 0) ELSE r
      Round(r) == IF r.how = "cont" /\ r.to = n.id THEN End(r.s, "next", 0, 0) ELSE r
  IN CASE n.k \in {"NONE", "EMPTY"} -> End(s, "next", 0, 0)
       [] n.k = "BLOCK" -> Fold(Next, End(s, "next", 0, 0), n.a)
       [] n.k = "EXPR_STMT" -> End(Value(n.a[1]).s, "next", 0, 0)
       [] n.k \in {"STORE", "ZERO"} -> End(Value(n).s, "next", 0, 0)
       [] n.k = "LOCAL_DECL" ->
            LET r == Value(n.a[1])  w == Width(n.t)  to == e[n.x + 1]
            IN End(IF ~Fine(r.s) THEN r.s
                   ELSE [r.s EXCEPT !.m = IF Composite(n.t) THEN Copied(@, to, r.v, n.t.size)
                                          ELSE StoreAt(@, to, Unsig(r.v, w), w)], "next", 0, 0)
       [] n.k = "IF" ->
            LET c == Value(n.a[1])
            IN IF Fine(c.s) THEN Ex(g, e, n.a[IF c.v = 1 THEN 2 ELSE 3], c.s)
               ELSE End(c.s, "next", 0, 0)
       [] n.k = "WHILE" ->
            LET c == Value(n.a[1])
                r == Round(Ex(g, e, n.a[2], c.s))
            IN IF ~Fine(c.s) \/ c.v = 0 THEN End(c.s, "next", 0, 0)
               ELSE IF Going(r) THEN Ex(g, e, n, r.s) ELSE Left(r)
       [] n.k = "FOR" ->
            LET first == Ex(g, e, n.a[1], s)
                rest == [n EXCEPT !.a[1] = None]
                c == IF n.a[2].k = "NONE" THEN Out(first.s, 1) ELSE Ev(g, e, n.a[2], first.s)
                r == Round(Ex(g, e, n.a[4], c.s))
                st == Ex(g, e, n.a[3], r.s)
            IN IF ~Fine(first.s) \/ ~Fine(c.s) \/ c.v = 0 THEN End(c.s, "next", 0, 0)
               ELSE IF ~Going(r) THEN Left(r)
               ELSE IF Fine(st.s) THEN Ex(g, e, rest, st.s) ELSE st
       [] n.k = "SWITCH" ->
            LET c == Value(n.a[1])
                arms == {i \in 2 .. Len(n.a) : n.a[i].k = "CASE" /\ n.a[i].x = c.v}
                dflt == {i \in 2 .. Len(n.a) : n.a[i].k = "DEFAULT"}
                pick == IF arms # {} THEN arms ELSE dflt
            IN IF ~Fine(c.s) \/ pick = {} THEN End(c.s, "next", 0, 0)
               ELSE Left(Ex(g, e, n.a[CHOOSE i \in pick : TRUE].a[1], c.s))
       [] n.k = "BREAK" -> End(s, "brk", n.x, 0)
       [] n.k = "CONTINUE" -> End(s, "cont", n.x, 0)
       [] n.k = "RETURN" ->
            IF n.a = <<>> THEN End(s, "ret", 0, 0)
            ELSE LET r == Value(n.a[1]) IN End(r.s, "ret", 0, r.v)
       [] n.k = "TRAP" ->
            End(IF n.t.k = "int" THEN Fail(s, "user", n.x, n.id)
                ELSE Fail(s, n.x, NumericOf(n.x), n.id), "next", 0, 0)

\* A call: fresh locals, the parameters filled with the arguments.
Invoke(g, f, x, s) ==
  LET fn == g.b.fns[f]
      Place(acc, t) == [e |-> Append(acc.e, AlignUp(acc.top, 8)),
                        top |-> AlignUp(acc.top, 8) + SlotSize(t)]
      pl == Fold(Place, [e |-> <<>>, top |-> s.top], fn.slots)
      Fill(m, i) == LET t == fn.slots[i]
                    IN IF Composite(t) THEN Copied(m, pl.e[i], x[i], t.size)
                       ELSE StoreAt(m, pl.e[i], Unsig(x[i], Width(t)), Width(t))
      m1 == Fold(Fill, s.m, [i \in 1 .. fn.nparams |-> i])
      r == Ex(g, pl.e, fn.body, [s EXCEPT !.m = m1, !.top = pl.top])
  IN IF fn.ext THEN Out(s, (x[1] + 2 * x[2]) % Mod2(8))
     ELSE Out([r.s EXCEPT !.top = s.top], r.v)
=============================================================================
