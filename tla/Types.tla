------------------------------- MODULE Types -------------------------------
(***************************************************************************)
(* Types, their identity and conversions, and the layout of struct and     *)
(* enum declarations (src/types/type_tables.c, type_identity.c, convert.c  *)
(* and layout.c).                                                          *)
(*                                                                         *)
(* A syntax-tree node is a record whose field k is its kind; a Type is a   *)
(* record too, [k |-> "prim", p |-> "i8"], [k |-> "ptr", e |-> ..],        *)
(* [k |-> "array", e |-> .., n |-> ..], [k |-> "struct", s |-> ..] and so  *)
(* on, and NoType is the null pointer the code passes for a missing type.  *)
(***************************************************************************)
EXTENDS HostInt, Sequences, SequencesExt

CONSTANT NarrowBits      \* the width of i8 and u8
ASSUME NarrowAssumption == NarrowBits >= 2 /\ 2 * NarrowBits <= HostBits

\* One row per width: i16, i32 and their unsigned twins differ from these
\* only in the numbers.
kPrims ==
  LET row(i, s, ps, w, b, a) == [integer |-> i, signed |-> s, ptrsized |-> ps,
                                 width |-> w, size |-> b, align |-> a]
  IN [void |-> row(FALSE, FALSE, FALSE, 0, 0, 0),
      bool |-> row(FALSE, FALSE, FALSE, 0, 1, 1),
      str |-> row(FALSE, FALSE, FALSE, 0, 16, 8),
      i8 |-> row(TRUE, TRUE, FALSE, NarrowBits, 1, 1),
      u8 |-> row(TRUE, FALSE, FALSE, NarrowBits, 1, 1),
      i64 |-> row(TRUE, TRUE, FALSE, HostBits, 8, 8),
      u64 |-> row(TRUE, FALSE, FALSE, HostBits, 8, 8),
      isize |-> row(TRUE, TRUE, TRUE, HostBits, 8, 8),
      usize |-> row(TRUE, FALSE, TRUE, HostBits, 8, 8)]

NoType == [k |-> "notype"]
Prim(p) == [k |-> "prim", p |-> p]
Ptr(t) == [k |-> "ptr", e |-> t]
Slice(t) == [k |-> "slice", e |-> t]
Array(t, n) == [k |-> "array", e |-> t, n |-> n]
Struct(s) == [k |-> "struct", s |-> s]
Enum(s) == [k |-> "enum", s |-> s]

IsInt(t) == t.k = "prim" /\ kPrims[t.p].integer

\* Two types of one record are the same declaration, extent and element: what
\* the recursive comparison decides.
type_identical(a, b) == a = b

int_implicit(f, t) == IF f.signed # t.signed
                        THEN ~f.signed /\ t.signed /\ t.width > f.width
                        ELSE t.width >= f.width

convert_implicit_allowed(from, to) ==
  /\ from # NoType /\ to # NoType
  /\ \/ type_identical(from, to)
     \/ from.k = "ptr" /\ to.k = "ptr" /\ type_identical(from.e, to.e)
     \/ IsInt(from) /\ IsInt(to) /\ int_implicit(kPrims[from.p], kPrims[to.p])

\* A null source has no Type.
convert_implicit_allowed_ex(from, fromIsNull, to) ==
  IF fromIsNull THEN from = NoType /\ to.k = "ptr"
                ELSE convert_implicit_allowed(from, to)

\* NoType when no common type exists.
convert_common_type(a, b) ==
  IF ~IsInt(a) \/ ~IsInt(b) THEN NoType
  ELSE LET pa == kPrims[a.p]
           pb == kPrims[b.p]
       IN IF type_identical(a, b) THEN a
          ELSE IF pa.width > pb.width
            THEN IF int_implicit(pb, pa) THEN a ELSE NoType
          ELSE IF pb.width > pa.width
            THEN IF int_implicit(pa, pb) THEN b ELSE NoType
          ELSE IF pa.signed # pb.signed THEN NoType
          ELSE IF pa.ptrsized THEN b ELSE a

-----------------------------------------------------------------------------
(* The integer expressions the layout pass can evaluate itself: untyped     *)
(* arithmetic in the host word.                                             *)

LiteralOf(e, w, signed) ==
  IF e.min THEN EvalInt(-(2^(w - 1)), FALSE)
  ELSE IF ~signed /\ e.v > INT64_MAX THEN EvalInt(Signed(e.v), TRUE)
  ELSE EvalInt(e.v, FALSE)

LayoutShl(a, c) ==
  CASE c < 0 \/ c >= HostBits -> Stops("SHIFT_RANGE")
    [] c = 0 -> Done(EvalInt(a, FALSE))
    [] c \in 1..(HostBits - 1) /\
       \/ a > 0 /\ a > INT64_MAX \div 2^c
       \/ a < 0 /\ a < -(2^(HostBits - 1 - c)) -> Stops("OVERFLOW")
    [] OTHER -> Done(EvalInt(Signed(Unsigned(Unsigned(a) * 2^c)), FALSE))

LayoutBinary(op, a, b) ==
  LET ok(v) == Done(EvalInt(v, FALSE))
      ua == Unsigned(a)
      ub == Unsigned(b)
  IN CASE op = "ADD" -> IF i64_add_ovf(a, b) THEN Stops("OVERFLOW") ELSE ok(a + b)
       [] op = "SUB" -> IF i64_sub_ovf(a, b) THEN Stops("OVERFLOW") ELSE ok(a - b)
       [] op = "MUL" -> IF i64_mul_ovf(a, b) THEN Stops("OVERFLOW") ELSE ok(a * b)
       [] op \in {"DIV", "MOD"} /\ b = 0 -> Stops("DIV_ZERO")
       [] op = "DIV" /\ b # 0 -> IF a = INT64_MIN /\ b = -1 THEN Stops("OVERFLOW")
                                 ELSE ok(Quot(a, b))
       [] op = "MOD" /\ b # 0 -> ok(IF b = -1 THEN 0 ELSE Rem(a, b))
       [] op = "SHL" -> LayoutShl(a, b)
       [] op = "SHR" -> IF b < 0 \/ b >= HostBits THEN Stops("SHIFT_RANGE")
                        ELSE ok(i64_ashr(a, b))
       [] op = "BAND" -> ok(Signed(ua & ub))
       [] op = "BXOR" -> ok(Signed(ua ^^ ub))
       [] op = "BOR" -> ok(Signed(ua | ub))
       [] OTHER -> Stops("UNEVALUABLE")

RECURSIVE layout_eval_int_expr(_)
layout_eval_int_expr(e) ==
  LET neg(r) == IF r.val.big \/ r.val.v = INT64_MIN THEN Stops("OVERFLOW")
                ELSE Done(EvalInt(-r.val.v, FALSE))
      bnot(r) == IF r.val.big THEN Stops("OVERFLOW")
                 ELSE Done(EvalInt(-r.val.v - 1, FALSE))
      arith(l, r) == IF l.val.big \/ r.val.big THEN Stops("OVERFLOW")
                     ELSE LayoutBinary(e.op, l.val.v, r.val.v)
  IN CASE e.k = "int" -> Done(LiteralOf(e, kPrims[e.t].width, kPrims[e.t].signed))
       [] e.k = "paren" -> layout_eval_int_expr(e.e)
       [] e.k = "un" /\ e.op \in {"PLUS", "NEG", "BNOT"} ->
            LET r == layout_eval_int_expr(e.e)
            IN IF r.st # "OK" \/ e.op = "PLUS" THEN r
               ELSE IF e.op = "BNOT" THEN bnot(r)
               ELSE IF e.e.k = "int" /\ e.e.min THEN r
               ELSE neg(r)
       [] e.k = "bin" -> LET l == layout_eval_int_expr(e.l)
                             r == layout_eval_int_expr(e.r)
                         IN IF l.st # "OK" THEN l ELSE IF r.st # "OK" THEN r
                            ELSE arith(l, r)
       [] OTHER -> Stops("UNEVALUABLE")

-----------------------------------------------------------------------------
(* Sizes and alignments.  A build is [structs, enums: what is laid out, by   *)
(* symbol; skipped: the symbols marked unevaluable].  Where a layout is not  *)
(* found the answer depends on that mark.                                    *)

\* A mistake: the offset is rounded down.
Bug_align_up(x, a) == IF a <= 1 THEN Done(x) ELSE Done((x \div a) * a)

align_up(x, a) == IF a <= 1 THEN Done(x)
                  ELSE IF x > INT64_MAX - (a - 1) THEN Stops("OVERFLOW")
                  ELSE Done(((x + a - 1) \div a) * a)

SizeAlign(s, a) == [size |-> s, align |-> a]

RECURSIVE type_info(_, _)
type_info(build, tn) ==
  LET table == build.structs @@ build.enums
      array(base) ==
        LET n == layout_eval_int_expr(tn.len)
        IN IF base.st # "OK" THEN base
           ELSE IF n.st # "OK" THEN Stops("UNEVALUABLE")
           ELSE IF n.val.big \/ n.val.v < 0 THEN Stops("UNEVALUABLE")
           ELSE IF base.val.size # 0 /\ n.val.v > INT64_MAX \div base.val.size
             THEN Stops("UNSUPPORTED")
           ELSE Done(SizeAlign(base.val.size * n.val.v, base.val.align))
  IN CASE tn.k = "prim" -> Done(SizeAlign(kPrims[tn.p].size, kPrims[tn.p].align))
       [] tn.k = "ptr" -> Done(SizeAlign(8, 8))
       [] tn.k = "slice" -> Done(SizeAlign(16, 8))
       [] tn.k = "array" -> array(type_info(build, tn.base))
       [] tn.k = "named" ->
            IF tn.s \in DOMAIN table
              THEN Done(SizeAlign(table[tn.s].size, table[tn.s].align))
            ELSE Stops(IF tn.s \in build.skipped THEN "UNEVALUABLE"
                       ELSE "UNSUPPORTED")
       [] OTHER -> Stops("UNSUPPORTED")

\* The fields laid out so far: where they end, the strictest alignment, and
\* the field records.
PlaceField(build, acc, f) ==
  LET place(size, align, at) ==
        IF at.st # "OK" \/ size > INT64_MAX - at.val THEN Stops("UNSUPPORTED")
        ELSE Done([end |-> at.val + size,
                   align |-> IF align > acc.val.align THEN align ELSE acc.val.align,
                   fields |-> Append(acc.val.fields,
                                [name |-> f.name, offset |-> at.val, size |-> size,
                                 align |-> align, pad |-> at.val - acc.val.end])])
      after(ta) == IF ta.st # "OK" THEN ta
                   ELSE place(ta.val.size, ta.val.align, align_up(acc.val.end, ta.val.align))
  IN IF acc.st # "OK" THEN acc ELSE after(type_info(build, f.type))

compute_struct(build, decl) ==
  LET sized(l, size) ==
        IF size.st # "OK" THEN Stops("UNSUPPORTED")
        ELSE Done([size |-> size.val, align |-> l.align, fields |-> l.fields,
                   tail |-> size.val - l.end])
      all(placed) == IF placed.st # "OK" THEN placed
                     ELSE sized(placed.val, align_up(placed.val.end, placed.val.align))
  IN all(FoldLeft(LAMBDA acc, f : PlaceField(build, acc, f),
                  Done([end |-> 0, align |-> 1, fields |-> <<>>]), decl.fields))

\* The padding ranges of a struct, in offset order.
layout_struct_padding(ls) ==
  LET before == SelectSeq(ls.fields, LAMBDA f : f.pad > 0)
  IN [i \in DOMAIN before |-> [offset |-> before[i].offset - before[i].pad,
                               length |-> before[i].pad]]
     \o (IF ls.tail > 0 THEN <<[offset |-> ls.size - ls.tail, length |-> ls.tail]>>
         ELSE <<>>)

member_representable(m, p) ==
  /\ ~m.overflow
  /\ IF p.signed THEN /\ ~m.val.big
                      /\ m.val.v >= -(2^(p.width - 1))
                      /\ m.val.v <= MaskOf(p.width) \div 2
     ELSE \/ m.val.big /\ Unsigned(m.val.v) <= MaskOf(p.width)
          \/ ~m.val.big /\ m.val.v >= 0 /\ Unsigned(m.val.v) <= MaskOf(p.width)

\* compute_enum's loop.  A member that cannot be evaluated is left zeroed and
\* gets no record; prev is the value the next implicit member continues from.
EnumStep(p, acc, m) ==
  LET zero == [name |-> m.name, val |-> EvalInt(0, FALSE), overflow |-> FALSE]
      i == Len(acc.members) + 1
      known(v, ovf) ==
        LET mm == [zero EXCEPT !.val = v, !.overflow = ovf]
        IN [acc EXCEPT !.members = Append(@, mm), !.prev = v, !.past = ovf, !.valid = TRUE,
                       !.records = IF member_representable(mm, p) THEN @ ELSE @ \union {i}]
      unknown(valid) == [acc EXCEPT !.members = Append(@, zero), !.uneval = TRUE,
                                    !.valid = valid]
      next(v) == IF v.big /\ Unsigned(v.v) = UINT64_MAX THEN known(EvalInt(0, FALSE), TRUE)
                 ELSE IF v.big THEN known(EvalInt(v.v + 1, TRUE), FALSE)
                 ELSE IF v.v = INT64_MAX THEN known(EvalInt(INT64_MIN, TRUE), FALSE)
                 ELSE known(EvalInt(v.v + 1, FALSE), FALSE)
  IN IF m.value # <<>>
       THEN LET r == layout_eval_int_expr(m.value[1])
            IN IF r.st = "OK" THEN known(r.val, FALSE) ELSE unknown(FALSE)
     ELSE IF i = 1 THEN known(EvalInt(0, FALSE), FALSE)
     ELSE IF ~acc.valid THEN unknown(FALSE)
     ELSE IF acc.past THEN known(EvalInt(0, FALSE), TRUE)
     ELSE next(acc.prev)

\* unevaluable is the flag of the whole build, as it stands before this enum.
compute_enum(decl, unevaluable) ==
  LET p == kPrims[decl.under]
      outcome(all) ==
        [st |-> IF all.uneval # unevaluable THEN "UNEVALUABLE" ELSE "OK",
         layout |-> [size |-> p.size, align |-> p.align, members |-> all.members],
         records |-> all.records, unevaluable |-> all.uneval]
  IN outcome(FoldLeft(LAMBDA acc, m : EnumStep(p, acc, m),
       [members |-> <<>>, prev |-> EvalInt(0, FALSE), past |-> FALSE,
        valid |-> TRUE, records |-> {}, uneval |-> unevaluable], decl.members))
=============================================================================
