------------------------------ MODULE HostInt ------------------------------
(***************************************************************************)
(* The integers the constant evaluator computes with                       *)
(* (src/const/eval_core.c; src/types/layout.c has the same helpers).  A    *)
(* value is an EvalInt: an int64 `v` and a flag `big` that says the value  *)
(* is 2^63 or more and `v` holds its two's complement.  The host word has  *)
(* HostBits bits in place of 64, so that every value of it can be tried;   *)
(* all other widths are at most half of it, as 32 is of 64.                *)
(***************************************************************************)
EXTENDS Integers, Bitwise

CONSTANT HostBits
ASSUME HostBitsAssumption == HostBits \in Nat /\ HostBits >= 2

INT64_MAX == 2^(HostBits - 1) - 1
INT64_MIN == -(2^(HostBits - 1))
UINT64_MAX == 2^HostBits - 1
MaskOf(w) == 2^w - 1

\* The C casts (uint64_t)x and (int64_t)u, and C division, which truncates.
Unsigned(x) == x % 2^HostBits
Signed(u) == IF u > INT64_MAX THEN u - 2^HostBits ELSE u
Magnitude(x) == IF x < 0 THEN -x ELSE x
Quot(a, b) == IF (a < 0) = (b < 0) THEN Magnitude(a) \div Magnitude(b)
                                   ELSE -(Magnitude(a) \div Magnitude(b))
Rem(a, b) == a - b * Quot(a, b)

EvalInt(v, big) == [v |-> v, big |-> big]

\* The mathematical value an EvalInt stands for.
MathOf(i) == IF i.big THEN Unsigned(i.v) ELSE i.v

u64_of(i) == Unsigned(i.v)

\* p is a row of the primitive table: its width and signedness.
int_fits(i, p) ==
  IF p.signed
    THEN /\ ~i.big
         /\ \/ p.width >= HostBits
            \/ i.v >= -(2^(p.width - 1)) /\ i.v <= 2^(p.width - 1) - 1
    ELSE /\ i.big \/ i.v >= 0
         /\ p.width >= HostBits \/ Unsigned(i.v) <= MaskOf(p.width)

int_raw(i, w) == IF w >= HostBits THEN Unsigned(i.v)
                                  ELSE Unsigned(i.v) & MaskOf(w)

int_from_raw(raw, w, signed) ==
  LET mask == IF w >= HostBits THEN UINT64_MAX ELSE MaskOf(w)
      val == raw & mask
  IN IF ~signed
       THEN EvalInt(Signed(val), val >= 2^(HostBits - 1))
       ELSE IF raw & (2^(w - 1)) # 0
              THEN EvalInt(Signed(raw | (UINT64_MAX - mask)), FALSE)
              ELSE EvalInt(val, FALSE)

int_cmp(a, b) ==
  LET sign(x, y) == IF x < y THEN -1 ELSE IF x > y THEN 1 ELSE 0
  IN IF a.big /\ b.big THEN sign(Unsigned(a.v), Unsigned(b.v))
     ELSE IF a.big THEN 1
     ELSE IF b.big THEN -1
     ELSE sign(a.v, b.v)

i64_add_ovf(a, b) == \/ b > 0 /\ a > INT64_MAX - b
                     \/ b < 0 /\ a < INT64_MIN - b

i64_sub_ovf(a, b) == \/ b < 0 /\ a > INT64_MAX + b
                     \/ b > 0 /\ a < INT64_MIN + b

\* A mistake: the two values without an opposite are not looked at.
Bug_i64_mul_ovf(a, b) ==
  CASE a = 0 \/ b = 0 -> FALSE
    [] a > 0 /\ b > 0 -> a > Quot(INT64_MAX, b)
    [] a > 0 /\ b < 0 -> b # -1 /\ b < Quot(INT64_MIN, a)
    [] a < 0 /\ b > 0 -> a # -1 /\ a < Quot(INT64_MIN, b)
    [] a < 0 /\ b < 0 -> a # -1 /\ b # -1 /\ b < Quot(INT64_MAX, a)

i64_mul_ovf(a, b) ==
  CASE a = 0 \/ b = 0 -> FALSE
    [] a = -1 /\ b # 0 -> b = INT64_MIN
    [] b = -1 /\ a \notin {0, -1} -> a = INT64_MIN
    [] a > 0 /\ b > 0 -> a > Quot(INT64_MAX, b)
    [] a > 0 /\ b < -1 -> b < Quot(INT64_MIN, a)
    [] a < -1 /\ b > 0 -> a < Quot(INT64_MIN, b)
    [] a < -1 /\ b < -1 -> b < Quot(INT64_MAX, a)

\* ~(~a >> b) for a negative a.
i64_ashr(a, b) == IF a >= 0 THEN a \div 2^b ELSE -((-a - 1) \div 2^b) - 1

\* What an operation returns: EVAL_OK and a value, or another status.
Done(x) == [st |-> "OK", val |-> x, fail |-> "NONE"]
Fails(kind) == [st |-> "FAILURE", val |-> 0, fail |-> kind]
Stops(st) == [st |-> st, val |-> 0, fail |-> "NONE"]

Bits(a, b, op, w, signed) ==
  LET x == int_raw(a, w)
      y == int_raw(b, w)
  IN int_from_raw(CASE op = "BAND" -> x & y [] op = "BXOR" -> x ^^ y
                    [] op = "BOR" -> x | y, w, signed)

\* int_arith_op below the host width: compute in the host word, then compare
\* with the type's range.
ArithNarrow(a, b, op, w, signed) ==
  LET min == -(2^(w - 1))
      fit(ovf, r) == IF ovf \/ r < min \/ r > 2^(w - 1) - 1
                       THEN Fails("OVERFLOW")
                       ELSE Done(int_from_raw(Unsigned(r), w, TRUE))
      ufit(r) == IF r > MaskOf(w) THEN Fails("OVERFLOW")
                                  ELSE Done(int_from_raw(r, w, FALSE))
      ua == u64_of(a)
      ub == u64_of(b)
  IN CASE op = "ADD" /\ signed -> fit(i64_add_ovf(a.v, b.v), a.v + b.v)
       [] op = "ADD" /\ ~signed -> ufit(Unsigned(ua + ub))
       [] op = "SUB" /\ signed -> fit(i64_sub_ovf(a.v, b.v), a.v - b.v)
       [] op = "SUB" /\ ~signed -> IF ub > ua THEN Fails("OVERFLOW")
                                   ELSE Done(int_from_raw(ua - ub, w, FALSE))
       [] op = "MUL" /\ signed -> fit(i64_mul_ovf(a.v, b.v), a.v * b.v)
       [] op = "MUL" /\ ~signed -> ufit(Unsigned(ua * ub))
       [] op \in {"DIV", "MOD"} /\ b.v = 0 -> Fails("DIV_ZERO")
       [] op \in {"DIV", "MOD"} /\ b.v # 0 /\ signed ->
            IF a.v = min /\ b.v = -1 THEN Fails("OVERFLOW")
            ELSE Done(int_from_raw(Unsigned(IF op = "DIV" THEN Quot(a.v, b.v)
                                            ELSE Rem(a.v, b.v)), w, TRUE))
       [] op \in {"DIV", "MOD"} /\ b.v # 0 /\ ~signed ->
            Done(int_from_raw(IF op = "DIV" THEN ua \div ub ELSE ua % ub,
                              w, FALSE))
       [] op \in {"BAND", "BXOR", "BOR"} -> Done(Bits(a, b, op, w, signed))
       [] OTHER -> Stops("UNSUPPORTED")

\* int_arith_op at the host width: each overflow is found before computing.
ArithWide(a, b, op, signed) ==
  LET w == HostBits
      ua == u64_of(a)
      ub == u64_of(b)
      get(ovf, r) == IF ovf THEN Fails("OVERFLOW")
                     ELSE Done(int_from_raw(Unsigned(r), w, signed))
  IN CASE op = "ADD" /\ signed -> get(i64_add_ovf(a.v, b.v), a.v + b.v)
       [] op = "ADD" /\ ~signed -> get(Unsigned(ua + ub) < ua, ua + ub)
       [] op = "SUB" /\ signed -> get(i64_sub_ovf(a.v, b.v), a.v - b.v)
       [] op = "SUB" /\ ~signed -> get(ub > ua, ua - ub)
       [] op = "MUL" /\ signed -> get(i64_mul_ovf(a.v, b.v), a.v * b.v)
       [] op = "MUL" /\ ~signed ->
            get(ub # 0 /\ ua > UINT64_MAX \div (IF ub = 0 THEN 1 ELSE ub),
                ua * ub)
       [] op \in {"DIV", "MOD"} /\ b.v = 0 -> Fails("DIV_ZERO")
       [] op \in {"DIV", "MOD"} /\ b.v # 0 /\ signed ->
            get(a.v = INT64_MIN /\ b.v = -1,
                IF op = "DIV" THEN Quot(a.v, b.v) ELSE Rem(a.v, b.v))
       [] op \in {"DIV", "MOD"} /\ b.v # 0 /\ ~signed ->
            get(FALSE, IF op = "DIV" THEN ua \div ub ELSE ua % ub)
       [] op \in {"BAND", "BXOR", "BOR"} -> Done(Bits(a, b, op, w, signed))
       [] OTHER -> Stops("UNSUPPORTED")

int_arith_op(a, b, op, w, signed) ==
  IF w < HostBits THEN ArithNarrow(a, b, op, w, signed)
                  ELSE ArithWide(a, b, op, signed)

int_shift_op(a, w, signed, count, op) ==
  LET raw == int_raw(a, w)
      c == count.v
      cut(x) == int_from_raw(IF w < HostBits THEN x & MaskOf(w)
                                             ELSE Unsigned(x), w, signed)
  IN IF count.big \/ c < 0 \/ c >= w THEN Fails("SHIFT_RANGE")
     ELSE IF op = "SHL" THEN Done(cut(Unsigned(raw * 2^c)))
     ELSE IF signed
       THEN Done(cut(Unsigned(i64_ashr(int_from_raw(raw, w, TRUE).v, c))))
       ELSE Done(int_from_raw(raw \div 2^c, w, FALSE))

int_unary_op(op, a, w, signed) ==
  CASE op = "PLUS" -> Done(a)
    [] op = "BNOT" -> LET r == UINT64_MAX - int_raw(a, w)
                      IN Done(int_from_raw(IF w < HostBits THEN r & MaskOf(w)
                                                           ELSE r, w, signed))
    [] op = "NEG" ->
         IF ~signed \/ a.big THEN Stops("UNSUPPORTED")
         ELSE IF a.v = (IF w >= HostBits THEN INT64_MIN ELSE -(2^(w - 1)))
           THEN Fails("OVERFLOW")
           ELSE Done(int_from_raw(Unsigned(-a.v), w, TRUE))
    [] OTHER -> Stops("UNSUPPORTED")
=============================================================================
