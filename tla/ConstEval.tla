----------------------------- MODULE ConstEval -----------------------------
(***************************************************************************)
(* The constant evaluator (src/const/eval_core.c) and the two walkers that *)
(* find the node a failure comes from (eval_fail_arith.c, eval_fail_rec.c).*)
(*                                                                         *)
(* An environment env has `syms`, what a name resolves to, and `build`,    *)
(* the layouts.  Name resolution has already been done: an identifier node *)
(* carries its symbol, so the current module of the context has no part.   *)
(* busy is the set of constants being evaluated (ctx->in_progress).        *)
(***************************************************************************)
EXTENDS Types, FiniteSets

\* A step that needs the value of an earlier one.
Then(r, F(_)) == IF r.st = "OK" THEN F(r.val) ELSE r

IntVal(i, t) == [kind |-> "INT", t |-> t, i |-> i]
BoolVal(b) == [kind |-> "BOOL", t |-> Prim("bool"), b |-> b]
NullVal == [kind |-> "NULL", t |-> NoType]
AddrVal(s, off, t) == [kind |-> "ADDR", t |-> t, s |-> s, off |-> off]
StrVal(bytes) == [kind |-> "STR", t |-> Prim("str"), bytes |-> bytes]
SliceVal(s, lo, hi, t) == [kind |-> "SLICE", t |-> t, s |-> s, lo |-> lo, hi |-> hi]
ArrayVal(vs) == [kind |-> "ARRAY", t |-> NoType, elems |-> vs]
StructVal(s, vs) == [kind |-> "STRUCT", t |-> Struct(s), elems |-> vs]
NoSym == "none"

KindOf(env, s) == IF s \in DOMAIN env.syms THEN env.syms[s].k ELSE NoSym
ConstKinds == {"const", "lconst"}

\* Bytes are "A" (starts a code point) or "C" (continues one).
utf8_boundary(bytes, off) ==
  \/ off = 0 \/ off = Len(bytes)
  \/ off > 0 /\ off < Len(bytes) /\ bytes[off + 1] # "C"

RECURSIVE const_eval_expr(_, _, _)
RECURSIVE type_of_expr(_, _, _)
RECURSIVE type_from_type_node(_, _, _)
RECURSIVE size_align_of_type_node(_, _, _)
RECURSIVE size_align_of_type(_, _)

-----------------------------------------------------------------------------
(* Sizes, and the types of names and expressions                             *)

TimesExtent(n, sa) == IF n # 0 /\ i64_mul_ovf(n, sa.size) THEN Fails("OVERFLOW")
                      ELSE Done(SizeAlign(n * sa.size, sa.align))

NamedSize(env, s) == LET table == env.build.structs @@ env.build.enums
                     IN IF s \in DOMAIN table
                          THEN Done(SizeAlign(table[s].size, table[s].align))
                          ELSE Stops("UNSUPPORTED")

PrimSize(p) == IF kPrims[p].size <= 0 THEN Stops("UNSUPPORTED")
               ELSE Done(SizeAlign(kPrims[p].size, kPrims[p].align))

IsExtent(v) == v.kind = "INT" /\ ~v.i.big /\ v.i.v >= 0

size_align_of_type_node(env, tn, busy) ==
  CASE tn.k = "prim" -> PrimSize(tn.p)
    [] tn.k = "ptr" -> Done(SizeAlign(8, 8))
    [] tn.k = "slice" -> Done(SizeAlign(16, 8))
    [] tn.k = "array" ->
         Then(size_align_of_type_node(env, tn.base, busy), LAMBDA sa :
           Then(const_eval_expr(env, tn.len, busy), LAMBDA v :
             IF IsExtent(v) THEN TimesExtent(v.i.v, sa) ELSE Stops("NOT_CONST")))
    [] tn.k = "named" /\ KindOf(env, tn.s) \in {"struct", "enum"} -> NamedSize(env, tn.s)
    [] OTHER -> Stops("UNSUPPORTED")

size_align_of_type(env, t) ==
  CASE t.k = "prim" -> PrimSize(t.p)
    [] t.k = "ptr" -> Done(SizeAlign(8, 8))
    [] t.k = "slice" -> Done(SizeAlign(16, 8))
    [] t.k = "array" -> Then(size_align_of_type(env, t.e), LAMBDA sa : TimesExtent(t.n, sa))
    [] t.k \in {"struct", "enum"} -> NamedSize(env, t.s)
    [] OTHER -> Stops("UNSUPPORTED")

type_from_type_node(env, tn, busy) ==
  CASE tn.k = "prim" -> Done(Prim(tn.p))
    [] tn.k = "named" -> IF KindOf(env, tn.s) = "struct" THEN Done(Struct(tn.s))
                         ELSE IF KindOf(env, tn.s) = "enum" THEN Done(Enum(tn.s))
                         ELSE Stops("UNKNOWN")
    [] tn.k = "ptr" -> Then(type_from_type_node(env, tn.base, busy), LAMBDA t : Done(Ptr(t)))
    [] tn.k = "slice" -> Then(type_from_type_node(env, tn.base, busy), LAMBDA t : Done(Slice(t)))
    [] tn.k = "array" ->
         Then(type_from_type_node(env, tn.base, busy), LAMBDA t :
           LET r == const_eval_expr(env, tn.len, busy)
           IN IF r.st = "OK" /\ IsExtent(r.val) THEN Done(Array(t, r.val.i.v))
              ELSE Stops("UNKNOWN"))
    [] OTHER -> Stops("UNKNOWN")

type_of_symbol(env, s, busy) ==
  LET k == KindOf(env, s)
  IN CASE k \in {"const", "lconst", "var", "lvar", "param"} ->
            type_from_type_node(env, env.syms[s].type, busy)
       [] k = "struct" -> Done(Struct(s))
       [] k = "enum" -> Done(Enum(s))
       [] k = "member" -> Done(Enum(env.syms[s].owner))
       [] OTHER -> Stops("UNKNOWN")

struct_field_type(env, t, name) ==
  LET fields == IF t.k = "struct" /\ KindOf(env, t.s) = "struct"
                  THEN env.syms[t.s].fields ELSE <<>>
      hits == {i \in DOMAIN fields : fields[i].name = name}
  IN IF hits = {} THEN NoType ELSE fields[CHOOSE i \in hits : \A j \in hits : i <= j].type

OrUnknown(t) == IF t = NoType THEN Stops("UNKNOWN") ELSE Done(t)

Compares == {"LT", "LE", "GT", "GE", "EQ", "NE"}

\* null has no Type: its operand makes every operator but a comparison or a
\* logical one untypable, and those too.
binary_result_type(op, l, r) ==
  IF l = NoType \/ r = NoType THEN Stops("UNKNOWN")
  ELSE CASE op \in Compares \union {"LAND", "LOR"} -> Done(Prim("bool"))
         [] op \in {"SHL", "SHR"} -> IF IsInt(l) THEN Done(l) ELSE Stops("UNKNOWN")
         [] op \in {"ADD", "SUB"} /\ l.k = "ptr" /\ IsInt(r) -> Done(l)
         [] op = "ADD" /\ r.k = "ptr" /\ IsInt(l) -> Done(r)
         [] op = "SUB" /\ l.k = "ptr" /\ r.k = "ptr" -> Done(Prim("isize"))
         [] OTHER -> OrUnknown(convert_common_type(l, r))

\* type_of_expr, its operators; NoType stands for null.
TypeOfUnary(op, t) ==
  CASE op \in {"PLUS", "NEG", "BNOT"} /\ IsInt(t) -> Done(t)
    [] op = "NOT" /\ t = Prim("bool") -> Done(t)
    [] op = "DEREF" /\ t.k = "ptr" -> Done(t.e)
    [] op = "ADDR" /\ t # NoType -> Done(Ptr(t))
    [] OTHER -> Stops("UNKNOWN")

TypeOfTernary(a, b) ==
  CASE IsInt(a) /\ IsInt(b) -> OrUnknown(convert_common_type(a, b))
    [] a # NoType /\ ~IsInt(a) /\ type_identical(a, b) -> Done(a)
    [] a = NoType /\ b.k = "ptr" -> Done(b)
    [] b = NoType /\ a.k = "ptr" -> Done(a)
    [] OTHER -> Stops("UNKNOWN")

ElementOf(t) == CASE t.k \in {"array", "slice"} -> t.e
                  [] t = Prim("str") -> Prim("u8")
                  [] OTHER -> NoType

type_of_expr(env, e, busy) ==
  LET of(x) == type_of_expr(env, x, busy)
      fieldOf(t) == LET tn == struct_field_type(env, t, e.name)
                    IN IF tn = NoType THEN Stops("UNKNOWN")
                       ELSE type_from_type_node(env, tn, busy)
  IN CASE e.k = "int" -> Done(Prim(e.t))
       [] e.k = "bool" -> Done(Prim("bool"))
       [] e.k = "str" -> Done(Prim("str"))
       [] e.k = "null" -> Done(NoType)
       [] e.k = "id" -> type_of_symbol(env, e.s, busy)
       [] e.k = "paren" -> of(e.e)
       [] e.k = "un" -> Then(of(e.e), LAMBDA t : TypeOfUnary(e.op, t))
       [] e.k \in {"sizeofT", "sizeofE", "alignof", "len"} -> Done(Prim("usize"))
       [] e.k = "data" -> Then(of(e.e), LAMBDA t :
            IF ElementOf(t) = NoType THEN Stops("UNKNOWN") ELSE Done(Ptr(ElementOf(t))))
       [] e.k = "index" -> Then(of(e.b), LAMBDA t : OrUnknown(ElementOf(t)))
       [] e.k = "slice" -> Then(of(e.b), LAMBDA t :
            IF t = Prim("str") THEN Done(t)
            ELSE IF ElementOf(t) = NoType THEN Stops("UNKNOWN") ELSE Done(Slice(ElementOf(t))))
       [] e.k \in {"cast", "wrap"} -> type_from_type_node(env, e.t, busy)
       [] e.k = "bin" -> Then(of(e.l), LAMBDA l : Then(of(e.r), LAMBDA r :
            binary_result_type(e.op, l, r)))
       [] e.k = "ternary" -> Then(of(e.a), LAMBDA a : Then(of(e.b), LAMBDA b : TypeOfTernary(a, b)))
       [] e.k = "member" -> IF KindOf(env, e.s) \in {"member"} \union ConstKinds
                              THEN type_of_symbol(env, e.s, busy)
                            ELSE Then(of(e.b), fieldOf)
       [] e.k = "arrow" -> Then(of(e.b), LAMBDA t :
            IF t.k # "ptr" THEN Stops("UNKNOWN") ELSE fieldOf(t.e))
       [] e.k = "init" -> IF KindOf(env, e.s) = "struct" THEN Done(Struct(e.s))
                          ELSE Stops("UNKNOWN")
       [] e.k = "call" -> IF KindOf(env, e.s) = "fn" THEN type_from_type_node(env, env.syms[e.s].ret, busy)
                          ELSE Stops("UNKNOWN")
       [] e.k = "assign" -> of(e.l)
       [] OTHER -> Stops("UNKNOWN")

-----------------------------------------------------------------------------
(* The evaluator                                                             *)

\* A mistake: a constant met again has the value it has so far.
Bug_eval_const_ref(env, s, busy) ==
  IF s \in busy THEN Done(IntVal(EvalInt(0, FALSE), Prim("i8")))
  ELSE const_eval_expr(env, env.syms[s].init, busy \union {s})

\* The initializer, retyped with the declared type; a constant met again
\* while it is being evaluated is not one.
eval_const_ref(env, s, busy) ==
  IF s \in busy THEN Stops("NOT_CONST")
  ELSE Then(const_eval_expr(env, env.syms[s].init, busy \union {s}), LAMBDA v :
         LET t == type_of_symbol(env, s, busy)
         IN IF t.st = "OK" THEN Done([v EXCEPT !.t = t.val]) ELSE Stops("UNSUPPORTED"))

wrap_into(i, t) == int_from_raw(int_raw(i, kPrims[t.p].width), kPrims[t.p].width,
                                kPrims[t.p].signed)

IsMember(env, s, i) == \E n \in DOMAIN env.build.enums[s].members :
                         LET m == env.build.enums[s].members[n]
                         IN ~m.overflow /\ m.val = i

ToEnum(env, v, to) == IF to.s \notin DOMAIN env.build.enums THEN Stops("UNSUPPORTED")
                      ELSE IF IsMember(env, to.s, v.i) THEN Done([v EXCEPT !.t = to])
                      ELSE Fails("CAST_RANGE")

\* eval_convert for a source that is an integer or an enum value.
ConvertInt(env, v, to, isCast) ==
  CASE v.t.k = "enum" /\ to.k = "enum" -> ToEnum(env, v, to)
    [] IsInt(to) /\ ~isCast -> Done(IntVal(wrap_into(v.i, to), to))
    [] IsInt(to) /\ isCast ->
         IF ~int_fits(v.i, kPrims[to.p]) THEN Fails("CAST_RANGE")
         ELSE IF v.t.k = "enum" THEN Done(IntVal(v.i, to))
         ELSE Done(IntVal(wrap_into(v.i, to), to))
    [] v.t.k # "enum" /\ isCast /\ to.k = "enum" -> ToEnum(env, v, to)
    [] v.t.k # "enum" /\ isCast /\ to.k = "ptr" ->
         IF v.i.big THEN Stops("UNSUPPORTED") ELSE Done(AddrVal(NoSym, v.i.v, to))
    [] v.t.k # "enum" /\ isCast /\ to = Prim("bool") ->
         IF v.i.big \/ v.i.v \notin {0, 1} THEN Fails("CAST_RANGE")
         ELSE Done(BoolVal(v.i.v = 1))
    [] OTHER -> Stops("UNSUPPORTED")

\* eval_convert for the other sources.  eval_value_free clears the value it
\* is given: an address cast to another pointer type is rebuilt from the
\* cleared value, the null address.
ConvertOther(v, to, isCast) ==
  CASE v.kind = "NULL" -> IF isCast /\ to.k = "ptr" THEN Done(AddrVal(NoSym, 0, to))
                          ELSE Stops("UNSUPPORTED")
    [] v.kind = "ADDR" -> IF to.k = "ptr" THEN Done(AddrVal(NoSym, 0, to))
                          ELSE IF IsInt(to) THEN Stops("NOT_CONST")
                          ELSE Stops("UNSUPPORTED")
    [] v.kind \in {"STR", "SLICE"} -> Stops("NOT_CONST")
    [] v.kind = "BOOL" -> IF isCast /\ IsInt(to)
                            THEN Done(IntVal(EvalInt(IF v.b THEN 1 ELSE 0, FALSE), to))
                          ELSE Stops("UNSUPPORTED")
    [] OTHER -> Stops("UNSUPPORTED")

eval_convert(env, e, busy) ==
  LET to == type_from_type_node(env, e.t, busy)
  IN IF to.st # "OK" THEN Stops("UNSUPPORTED")
     ELSE Then(const_eval_expr(env, e.e, busy), LAMBDA v :
            IF v.t # NoType /\ type_identical(v.t, to.val) THEN Done(v)
            ELSE IF v.kind = "INT" THEN ConvertInt(env, v, to.val, e.k = "cast")
            ELSE ConvertOther(v, to.val, e.k = "cast"))

\* The array a static-storage form names: its extent comes from the declared
\* type of the variable.
StaticArray(env, s, busy) ==
  LET t == type_of_symbol(env, s, busy)
  IN IF t.st # "OK" THEN Stops("UNSUPPORTED")
     ELSE IF t.val.k # "array" THEN Stops("UNSUPPORTED")
     ELSE Done([elem |-> t.val.e, n |-> t.val.n])

eval_static_addr(env, x, busy) ==
  CASE x.k = "id" ->
         CASE KindOf(env, x.s) = NoSym -> Stops("UNSUPPORTED")
           [] KindOf(env, x.s) = "var" ->
                LET t == type_of_symbol(env, x.s, busy)
                IN IF t.st = "OK" THEN Done(AddrVal(x.s, 0, Ptr(t.val))) ELSE Stops("UNSUPPORTED")
           [] KindOf(env, x.s) \in ConstKinds -> Stops("UNSUPPORTED")
           [] OTHER -> Stops("NOT_CONST")
    [] x.k = "index" ->
         IF x.b.k # "id" THEN Stops("NOT_CONST")
         ELSE IF KindOf(env, x.b.s) # "var" THEN Stops("NOT_CONST")
         ELSE Then(StaticArray(env, x.b.s, busy), LAMBDA a :
                Then(size_align_of_type_node(env, env.syms[x.b.s].type.base, busy), LAMBDA sa :
                  Then(const_eval_expr(env, x.i, busy), LAMBDA v :
                    CASE v.kind # "INT" -> Stops("UNSUPPORTED")
                      [] v.kind = "INT" /\ (~IsExtent(v) \/ v.i.v >= a.n) -> Fails("INDEX_RANGE")
                      [] v.kind = "INT" /\ IsExtent(v) /\ v.i.v < a.n ->
                           IF i64_mul_ovf(v.i.v, sa.size) THEN Fails("OVERFLOW")
                           ELSE Done(AddrVal(x.b.s, v.i.v * sa.size, Ptr(a.elem))))))
    [] OTHER -> Stops("NOT_CONST")

\* A bound that is given must be a non-negative integer; lo is judged before
\* hi is evaluated.
Bound(env, given, default, busy) ==
  IF given = <<>> THEN Done(default)
  ELSE Then(const_eval_expr(env, given[1], busy), LAMBDA v :
         IF v.kind # "INT" THEN Stops("UNSUPPORTED")
         ELSE IF ~IsExtent(v) THEN Fails("INDEX_RANGE")
         ELSE Done(v.i.v))

Bounds(env, e, extent, busy) ==
  Then(Bound(env, e.lo, 0, busy), LAMBDA lo :
    Then(Bound(env, e.hi, extent, busy), LAMBDA hi :
      IF lo > hi \/ hi > extent THEN Fails("INDEX_RANGE") ELSE Done(<<lo, hi>>)))

SliceStr(env, e, bytes, busy) ==
  Then(Bounds(env, e, Len(bytes), busy), LAMBDA b :
    IF utf8_boundary(bytes, b[1]) /\ utf8_boundary(bytes, b[2])
      THEN Done(StrVal(SubSeq(bytes, b[1] + 1, b[2])))
      ELSE Fails("STR_BOUNDARY"))

SliceConst(env, e, busy) ==
  Then(const_eval_expr(env, e.b, busy), LAMBDA v :
    CASE v.kind = "STR" -> SliceStr(env, e, v.bytes, busy)
      [] v.kind = "ARRAY" -> Stops("NOT_CONST")
      [] OTHER -> Stops("UNSUPPORTED"))

SliceArray(env, e, busy) ==
  Then(StaticArray(env, e.b.s, busy), LAMBDA a :
    Then(Bounds(env, e, a.n, busy), LAMBDA b :
      Done(SliceVal(e.b.s, b[1], b[2], Slice(a.elem)))))

eval_slice_expr(env, e, busy) ==
  CASE e.b.k = "str" -> SliceStr(env, e, e.b.bytes, busy)
    [] e.b.k = "id" -> CASE KindOf(env, e.b.s) \in ConstKinds -> SliceConst(env, e, busy)
                         [] KindOf(env, e.b.s) = "var" -> SliceArray(env, e, busy)
                         [] OTHER -> Stops("NOT_CONST")
    [] OTHER -> Stops("NOT_CONST")

\* p + i, i + p and p - i; p - q.
PointerPlus(env, p, i, op) ==
  IF i.i.big \/ i.i.v = INT64_MIN THEN Fails("OVERFLOW")
  ELSE Then(size_align_of_type(env, p.t.e), LAMBDA sa :
         LET n == i.i.v * sa.size
         IN IF i64_mul_ovf(i.i.v, sa.size) THEN Fails("OVERFLOW")
            ELSE IF op = "SUB"
              THEN IF i64_sub_ovf(p.off, n) THEN Fails("OVERFLOW")
                   ELSE Done([p EXCEPT !.off = @ - n])
            ELSE IF i64_add_ovf(p.off, n) THEN Fails("OVERFLOW")
            ELSE Done([p EXCEPT !.off = @ + n]))

PointerDiff(env, p, q) ==
  IF p.s # q.s THEN Stops("NOT_CONST")
  ELSE Then(size_align_of_type(env, p.t.e), LAMBDA sa :
         CASE sa.size = 0 -> Stops("UNSUPPORTED")
           [] sa.size # 0 /\ i64_sub_ovf(p.off, q.off) -> Fails("OVERFLOW")
           [] sa.size # 0 /\ ~i64_sub_ovf(p.off, q.off) ->
                IF Rem(p.off - q.off, sa.size) # 0 THEN Fails("PTR_DIFF")
                ELSE Done(IntVal(EvalInt(Quot(p.off - q.off, sa.size), FALSE), Prim("isize"))))

ByOrder(op, c) == Done(BoolVal(CASE op = "LT" -> c < 0 [] op = "LE" -> c <= 0
                                 [] op = "GT" -> c > 0 [] op = "GE" -> c >= 0
                                 [] op = "EQ" -> c = 0 [] op = "NE" -> c # 0))

\* memcmp, then the lengths; "A" stands before "C".
StrOrder(x, y) ==
  LET n == IF Len(x) < Len(y) THEN Len(x) ELSE Len(y)
      diff == {i \in 1..n : x[i] # y[i]}
  IN IF diff = {} THEN Len(x) - Len(y)
     ELSE IF x[CHOOSE i \in diff : \A j \in diff : i <= j] = "A" THEN -1 ELSE 1

Compare(op, l, r) ==
  LET equality == op \in {"EQ", "NE"}
      kinds == {l.kind, r.kind}
      other == IF l.kind = "NULL" THEN r ELSE l
  IN CASE kinds = {"NULL"} -> Done(BoolVal(op = "EQ"))
       [] kinds = {"NULL", "ADDR"} ->
            IF ~equality THEN Stops("NOT_CONST")
            ELSE Done(BoolVal((op = "EQ") = (other.s = NoSym /\ other.off = 0)))
       [] kinds = {"ADDR"} ->
            IF l.s = r.s /\ (l.s # NoSym \/ ~equality) THEN ByOrder(op, l.off - r.off)
            ELSE IF equality THEN ByOrder(op, IF l.s = r.s /\ l.off = r.off THEN 0 ELSE 1)
            ELSE Stops("NOT_CONST")
       [] kinds = {"BOOL"} -> IF equality THEN Done(BoolVal((l.b = r.b) = (op = "EQ")))
                              ELSE Stops("UNSUPPORTED")
       [] kinds = {"STR"} -> ByOrder(op, StrOrder(l.bytes, r.bytes))
       [] kinds = {"INT"} -> ByOrder(op, int_cmp(l.i, r.i))
       [] OTHER -> Stops("UNSUPPORTED")

Shift(op, l, r) ==
  IF l.kind # "INT" \/ ~IsInt(l.t) \/ r.kind # "INT" THEN Stops("UNSUPPORTED")
  ELSE Then(int_shift_op(l.i, kPrims[l.t.p].width, kPrims[l.t.p].signed, r.i, op),
            LAMBDA x : Done(IntVal(x, l.t)))

Arith(op, l, r) ==
  LET t == convert_common_type(l.t, r.t)
      p == kPrims[t.p]
  IN IF l.kind # "INT" \/ r.kind # "INT" \/ t = NoType THEN Stops("UNSUPPORTED")
     ELSE IF ~int_fits(l.i, p) \/ ~int_fits(r.i, p) THEN Stops("UNSUPPORTED")
     ELSE Then(int_arith_op(l.i, r.i, op, p.width, p.signed), LAMBDA x : Done(IntVal(x, t)))

\* Both operands are evaluated, whatever the operator.
eval_binary(env, e, busy) ==
  Then(const_eval_expr(env, e.l, busy), LAMBDA l :
    Then(const_eval_expr(env, e.r, busy), LAMBDA r :
      CASE e.op \in {"LAND", "LOR"} ->
             IF l.t # Prim("bool") \/ r.t # Prim("bool") THEN Stops("UNSUPPORTED")
             ELSE Done(BoolVal(IF e.op = "LAND" THEN l.b /\ r.b ELSE l.b \/ r.b))
        [] e.op \in {"ADD", "SUB"} /\ l.kind = "ADDR" /\ r.kind = "INT" ->
             PointerPlus(env, l, r, e.op)
        [] e.op = "ADD" /\ l.kind = "INT" /\ r.kind = "ADDR" -> PointerPlus(env, r, l, "ADD")
        [] e.op = "SUB" /\ l.kind = "ADDR" /\ r.kind = "ADDR" -> PointerDiff(env, l, r)
        [] e.op \in Compares -> Compare(e.op, l, r)
        [] e.op \in {"SHL", "SHR"} -> Shift(e.op, l, r)
        [] OTHER -> Arith(e.op, l, r)))

EvalUnary(env, e, busy) ==
  CASE e.op = "ADDR" -> eval_static_addr(env, e.e, busy)
    [] e.op = "DEREF" -> Stops("NOT_CONST")
    [] e.op = "NEG" /\ e.e.k = "int" /\ e.e.min -> const_eval_expr(env, e.e, busy)
    [] OTHER -> Then(const_eval_expr(env, e.e, busy), LAMBDA v :
         CASE v.kind = "INT" ->
                IF ~IsInt(v.t) THEN Stops("UNSUPPORTED")
                ELSE Then(int_unary_op(e.op, v.i, kPrims[v.t.p].width, kPrims[v.t.p].signed),
                          LAMBDA x : Done([v EXCEPT !.i = x]))
           [] v.kind = "BOOL" /\ e.op = "NOT" -> Done(BoolVal(~v.b))
           [] OTHER -> Stops("UNSUPPORTED"))

\* The elements in order, up to the first that does not evaluate.
RECURSIVE EvalAll(_, _, _)
EvalAll(env, es, busy) ==
  IF es = <<>> THEN Done(<<>>)
  ELSE Then(const_eval_expr(env, Head(es), busy), LAMBDA v :
         Then(EvalAll(env, Tail(es), busy), LAMBDA vs : Done(<<v>> \o vs)))

\* [e, ...] and [e; count], where e is evaluated count times.
EvalArrayLiteral(env, e, busy) ==
  IF e.count = <<>> THEN Then(EvalAll(env, e.es, busy), LAMBDA vs : Done(ArrayVal(vs)))
  ELSE Then(const_eval_expr(env, e.count[1], busy), LAMBDA c :
         IF c.kind # "INT" THEN Stops("UNSUPPORTED")
         ELSE IF ~IsExtent(c) THEN Fails("INDEX_RANGE")
         ELSE Then(EvalAll(env, [i \in 1..c.i.v |-> e.es[1]], busy),
                   LAMBDA vs : Done(ArrayVal(vs))))

EvalName(env, s, busy) ==
  CASE KindOf(env, s) = NoSym -> Stops("UNSUPPORTED")
    [] KindOf(env, s) \in ConstKinds -> eval_const_ref(env, s, busy)
    [] OTHER -> Stops("NOT_CONST")

EvalEnumMember(env, s) ==
  LET owner == env.syms[s].owner
      ms == IF owner \in DOMAIN env.build.enums THEN env.build.enums[owner].members ELSE <<>>
      hits == {i \in DOMAIN ms : ms[i].name = env.syms[s].name}
      m == ms[CHOOSE i \in hits : \A j \in hits : i <= j]
  IN IF hits = {} THEN Stops("UNSUPPORTED")
     ELSE IF m.overflow THEN Stops("UNSUPPORTED")
     ELSE Done(IntVal(m.val, Enum(owner)))

SizeValue(n) == Done(IntVal(EvalInt(n, FALSE), Prim("usize")))

const_eval_expr(env, e, busy) ==
  CASE e.k = "int" -> Done(IntVal(LiteralOf(e, kPrims[e.t].width, kPrims[e.t].signed), Prim(e.t)))
    [] e.k = "bool" -> Done(BoolVal(e.b))
    [] e.k = "str" -> Done(StrVal(e.bytes))
    [] e.k = "null" -> Done(NullVal)
    [] e.k = "paren" -> const_eval_expr(env, e.e, busy)
    [] e.k = "id" -> EvalName(env, e.s, busy)
    [] e.k = "member" -> IF KindOf(env, e.s) = "member" THEN EvalEnumMember(env, e.s)
                         ELSE EvalName(env, e.s, busy)
    [] e.k = "array" -> EvalArrayLiteral(env, e, busy)
    [] e.k = "init" -> IF KindOf(env, e.s) # "struct" THEN Stops("UNSUPPORTED")
                       ELSE Then(EvalAll(env, e.es, busy), LAMBDA vs : Done(StructVal(e.s, vs)))
    [] e.k = "sizeofT" -> Then(size_align_of_type_node(env, e.t, busy), LAMBDA sa : SizeValue(sa.size))
    [] e.k = "alignof" -> Then(size_align_of_type_node(env, e.t, busy), LAMBDA sa : SizeValue(sa.align))
    [] e.k = "sizeofE" -> LET t == type_of_expr(env, e.e, busy)
                          IN IF t.st # "OK" THEN Stops("NOT_CONST")
                             ELSE IF t.val = NoType THEN Stops("NOT_CONST")
                             ELSE Then(size_align_of_type(env, t.val), LAMBDA sa : SizeValue(sa.size))
    [] e.k = "un" -> EvalUnary(env, e, busy)
    [] e.k = "bin" -> eval_binary(env, e, busy)
    [] e.k \in {"cast", "wrap"} -> eval_convert(env, e, busy)
    [] e.k = "slice" -> eval_slice_expr(env, e, busy)
    [] e.k \in {"ternary", "index", "call", "assign", "arrow", "len", "data"} -> Stops("NOT_CONST")
    [] OTHER -> Stops("UNSUPPORTED")
=============================================================================
