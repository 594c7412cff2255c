----------------------------- MODULE ConstCheck -----------------------------
(***************************************************************************)
(* The constant passes over a program, after its layout pass: each site    *)
(* that must be constant (the initializer of a global, the value of an     *)
(* enum member) is evaluated by const_eval_check, which reports what is    *)
(* not constant and routes what fails; arith_fail_check types the routed   *)
(* arithmetic failures; rec_fail_emit reports every routed failure.  The   *)
(* passes evaluate each site again, on their own.                          *)
(*                                                                         *)
(* Where a failure comes from is found by arith_fail_classify              *)
(* (src/const/eval_fail_arith.c) and rec_fail_classify (eval_fail_rec.c).  *)
(* A node inside a site is named by its path, the list of the children     *)
(* taken from the site.  Both walkers evaluate sub-expressions again and   *)
(* descend into the first that fails.                                      *)
(***************************************************************************)
EXTENDS Layout, ConstEval

-----------------------------------------------------------------------------
(* The two walkers                                                         *)

ArithKinds == {"OVERFLOW", "DIV_ZERO", "SHIFT_RANGE"}

rec_fail_code(kind) ==
  CASE kind = "OVERFLOW" -> "E0405" [] kind = "DIV_ZERO" -> "E0406"
    [] kind = "SHIFT_RANGE" -> "E0407" [] kind = "CAST_RANGE" -> "E0408"
    [] kind = "INDEX_RANGE" -> "E0409" [] kind = "STR_BOUNDARY" -> "E0410"
    [] kind = "PTR_DIFF" -> "E0411"

\* The facts of a located node that its message shows; -1 is no extent.
NoFacts == [a |-> EvalInt(0, FALSE), b |-> EvalInt(0, FALSE), width |-> 0, signed |-> FALSE,
            bound |-> EvalInt(0, FALSE), extent |-> -1]

Located(path, facts) == [st |-> "FAILURE", path |-> path, facts |-> facts]
NotLocated(st) == [st |-> IF st = "NOT_CONST" THEN st ELSE "UNSUPPORTED",
                   path |-> <<>>, facts |-> NoFacts]
Below(step, r) == [r EXCEPT !.path = <<step>> \o @]

\* The operands of a node that a walker evaluates before it blames the node,
\* each with the step that leads to it.
Children(e) ==
  CASE e.k = "bin" -> <<<<"l", e.l>>, <<"r", e.r>>>>
    [] e.k = "un" /\ e.op # "ADDR" -> <<<<"e", e.e>>>>
    [] e.k = "un" /\ e.op = "ADDR" -> IF e.e.k = "index" THEN <<<<"i", e.e.i>>>> ELSE <<>>
    [] e.k \in {"cast", "wrap"} -> <<<<"e", e.e>>>>
    [] e.k = "array" -> (IF e.count = <<>> THEN <<>> ELSE <<<<"count", e.count[1]>>>>)
                        \o [i \in DOMAIN e.es |-> <<ToString(i), e.es[i]>>]
    [] e.k = "init" -> [i \in DOMAIN e.es |-> <<ToString(i), e.es[i]>>]
    [] e.k = "slice" -> (IF e.lo = <<>> THEN <<>> ELSE <<<<"lo", e.lo[1]>>>>)
                        \o (IF e.hi = <<>> THEN <<>> ELSE <<<<"hi", e.hi[1]>>>>)
    [] OTHER -> <<>>

\* The first of cs that does not evaluate, 0 if they all do.
FirstBad(env, cs) == LET bad == {i \in DOMAIN cs : const_eval_expr(env, cs[i][2], {}).st # "OK"}
                     IN IF bad = {} THEN 0 ELSE CHOOSE i \in bad : \A j \in bad : i <= j

Value(env, e) == const_eval_expr(env, e, {}).val

\* The operand facts of an arithmetic failure.
ArithFacts(env, e) ==
  LET typed(a, b, t) == IF IsInt(t) THEN [NoFacts EXCEPT !.a = a, !.b = b,
                                            !.width = kPrims[t.p].width, !.signed = kPrims[t.p].signed]
                        ELSE [NoFacts EXCEPT !.a = a, !.b = b]
      zero == EvalInt(0, FALSE)
      binary(l, r) ==
        CASE {l.kind, r.kind} = {"INT"} ->
               typed(l.i, r.i, IF e.op \in {"SHL", "SHR"} THEN l.t
                               ELSE convert_common_type(l.t, r.t))
          [] l.kind = "ADDR" /\ r.kind = "INT" -> typed(r.i, zero, Prim("i64"))
          [] l.kind = "INT" /\ r.kind = "ADDR" -> typed(l.i, zero, Prim("i64"))
          [] OTHER -> NoFacts
      unary(v) == IF v.kind = "INT" THEN typed(v.i, zero, v.t) ELSE NoFacts
  IN CASE e.k = "bin" -> binary(Value(env, e.l), Value(env, e.r))
       [] e.k = "un" /\ e.op # "ADDR" -> unary(Value(env, e.e))
       [] OTHER -> NoFacts

RECURSIVE locate_failure(_, _)
locate_failure(env, e) ==
  LET cs == Children(e)
      i == FirstBad(env, cs)
      st == const_eval_expr(env, cs[i][2], {}).st
  IN IF e.k = "paren" THEN Below("e", locate_failure(env, e.e))
     ELSE IF i = 0 THEN Located(<<>>, ArithFacts(env, e))
     ELSE IF st = "FAILURE" THEN Below(cs[i][1], locate_failure(env, cs[i][2]))
     ELSE NotLocated(st)

-----------------------------------------------------------------------------
array_extent_of_base(env, b) ==
  IF b.k # "id" THEN -1
  ELSE IF KindOf(env, b.s) # "var" THEN -1
  ELSE LET a == StaticArray(env, b.s, {})
       IN IF a.st = "OK" THEN a.val.n ELSE -1

slice_extent(env, e) ==
  CASE e.b.k = "str" -> Len(e.b.bytes)
    [] e.b.k = "id" /\ KindOf(env, e.b.s) \in ConstKinds ->
         LET r == const_eval_expr(env, e.b, {})
         IN IF r.st # "OK" THEN -1 ELSE IF r.val.kind = "STR" THEN Len(r.val.bytes) ELSE -1
    [] OTHER -> array_extent_of_base(env, e.b)

\* A mistake: the upper bound is blamed whenever there is one.
Bug_BlamedBound(env, e) ==
  LET given == IF e.hi # <<>> THEN e.hi ELSE e.lo
      step == IF e.hi # <<>> THEN <<"hi">> ELSE IF e.lo # <<>> THEN <<"lo">> ELSE <<>>
      v == IF given = <<>> THEN NullVal ELSE Value(env, given[1])
  IN Located(step, [NoFacts EXCEPT !.extent = slice_extent(env, e),
                      !.bound = IF v.kind = "INT" THEN v.i ELSE @])

\* Which bound of a slice is blamed once all of them evaluate.
BlamedBound(env, e) ==
  LET extent == slice_extent(env, e)
      val(given) == IF given = <<>> THEN <<>> ELSE <<Value(env, given[1])>>
      lo == val(e.lo)
      hi == val(e.hi)
      int(v) == v # <<>> /\ v[1].kind = "INT"
      lo64 == IF int(lo) /\ ~lo[1].i.big THEN lo[1].i.v ELSE 0
      hi64 == IF int(hi) /\ ~hi[1].i.big THEN hi[1].i.v ELSE extent
      below(v) == int(v) /\ (v[1].i.big \/ v[1].i.v < 0)
      blame(step, v) == Located(step, [NoFacts EXCEPT !.extent = extent,
                                         !.bound = IF int(v) THEN v[1].i ELSE @])
      loStep == IF lo # <<>> THEN <<"lo">> ELSE IF hi # <<>> THEN <<"hi">> ELSE <<>>
  IN IF below(lo) THEN blame(<<"lo">>, lo)
     ELSE IF below(hi) THEN blame(<<"hi">>, hi)
     ELSE IF lo64 > hi64 THEN blame(loStep, IF int(lo) THEN lo ELSE hi)
     ELSE IF hi64 > extent THEN blame(IF hi # <<>> THEN <<"hi">> ELSE <<>>, hi)
     ELSE IF lo # <<>> THEN blame(<<"lo">>, lo)
     ELSE Located(<<>>, [NoFacts EXCEPT !.extent = extent])

\* What is blamed when the node itself failed.
BlameNode(env, e, kind) ==
  CASE e.k = "un" /\ e.op = "ADDR" /\ kind = "INDEX_RANGE" /\ e.e.k = "index" ->
         LET v == Value(env, e.e.i)
         IN Located(<<"i">>, [NoFacts EXCEPT !.extent = array_extent_of_base(env, e.e.b),
                                !.bound = IF v.kind = "INT" THEN v.i ELSE @])
    [] e.k = "slice" /\ kind = "INDEX_RANGE" -> BlamedBound(env, e)
    [] e.k \in {"cast", "wrap"} /\ kind = "CAST_RANGE" ->
         LET v == Value(env, e.e)
         IN Located(<<>>, [NoFacts EXCEPT !.a = IF v.kind = "INT" THEN v.i ELSE @])
    [] OTHER -> Located(<<>>, NoFacts)

\* A slice evaluates its base first, when that is a constant's name.
RecChildren(env, e) ==
  (IF e.k = "slice" THEN IF e.b.k = "id" THEN IF KindOf(env, e.b.s) \in ConstKinds
     THEN <<<<"b", e.b>>>> ELSE <<>> ELSE <<>> ELSE <<>>) \o Children(e)

RECURSIVE locate_rec_failure(_, _, _)
locate_rec_failure(env, e, kind) ==
  LET cs == RecChildren(env, e)
      i == FirstBad(env, cs)
      r == const_eval_expr(env, cs[i][2], {})
  IN IF e.k = "paren" THEN Below("e", locate_rec_failure(env, e.e, kind))
     ELSE IF i = 0 THEN BlameNode(env, e, kind)
     ELSE IF r.st = "FAILURE" THEN Below(cs[i][1], locate_rec_failure(env, cs[i][2], r.fail))
     ELSE NotLocated(r.st)

\* The arithmetic kinds go to the first walker, the others to the second.
rec_fail_classify(env, site, kind) ==
  IF kind \in ArithKinds THEN locate_failure(env, site)
                         ELSE locate_rec_failure(env, site, kind)

\* Overflow and division blame the whole site, the other codes the node.
rec_build_record(kind, path) ==
  [code |-> rec_fail_code(kind),
   path |-> IF kind \in {"OVERFLOW", "DIV_ZERO"} THEN <<>> ELSE path]

\* The node a path leads to.
RECURSIVE NodeAt(_, _)
NodeAt(e, path) ==
  IF path = <<>> THEN e
  ELSE LET s == Head(path)
           c == CASE s = "l" -> e.l [] s = "r" -> e.r [] s = "e" -> e.e
                  [] s = "i" -> e.e.i [] s = "b" -> e.b [] s = "lo" -> e.lo[1]
                  [] s = "hi" -> e.hi[1] [] s = "count" -> e.count[1] [] OTHER -> e.es[CHOOSE n \in DOMAIN e.es : ToString(n) = s]
       IN NodeAt(c, Tail(path))

-----------------------------------------------------------------------------
(* The passes                                                              *)

\* What the passes call, at its public entry: const_eval_expr, the walkers
\* behind arith_fail_check and rec_fail_emit, and the typer that serves sizeof.
CONSTANTS Evaluate(_, _), LocateArith(_, _), LocateRec(_, _, _), TypeOf(_, _)

VARIABLES
  pass,       \* "layout", "check", "arith", "emit", "done"
  at,         \* the next site of the pass
  notConst,   \* the sites const_eval_check reported (E0401)
  routed,     \* the failures it routed, [site, kind]
  typed,      \* what arith_fail_check returns, [site, kind, path, facts]
  emitted,    \* the records of rec_fail_emit: site, code, the path of its span,
              \* the path located and the facts its message shows
  unsupported \* the passes whose unsupported flag is set
vars == <<lvars, pass, at, notConst, routed, typed, emitted, unsupported>>

CheckInit ==
  /\ LayoutInit
  /\ pass = "layout" /\ at = 1
  /\ notConst = {} /\ routed = {} /\ typed = {} /\ emitted = {} /\ unsupported = {}

\* What the names of the program resolve to.
SymsOf(d) ==
  CASE d.k \in {"const", "var"} -> d.s :> d
    [] d.k = "struct" -> d.s :> d
    [] d.k = "enum" ->
         (d.s :> d) @@ [m \in {d.members[i].sym : i \in DOMAIN d.members} |->
                          [k |-> "member", owner |-> d.s,
                           name |-> (CHOOSE x \in ToSet(d.members) : x.sym = m).name]]

Env == [syms |-> FoldLeft(LAMBDA acc, d : SymsOf(d) @@ acc, <<>>, decls), build |-> build]

SitesOf(d) == CASE d.k \in {"const", "var"} -> <<d.init>>
                [] d.k = "enum" -> FlattenSeq([i \in DOMAIN d.members |-> d.members[i].value])
                [] OTHER -> <<>>
Sites == FlattenSeq([i \in DOMAIN decls |-> SitesOf(decls[i])])

RunLayout ==
  /\ pass = "layout" /\ LayoutStep
  /\ UNCHANGED <<pass, at, notConst, routed, typed, emitted, unsupported>>

EndPass(from, to, ready) ==
  /\ pass = from /\ ready
  /\ pass' = to /\ at' = 1
  /\ UNCHANGED <<lvars, notConst, routed, typed, emitted, unsupported>>

Eval == Evaluate(Env, Sites[at])
InPass(p) == pass = p /\ at <= Len(Sites) /\ at' = at + 1 /\ UNCHANGED <<lvars, pass>>
Flag(p, is) == unsupported' = IF is THEN unsupported \union {p} ELSE unsupported

cc_check_site ==
  /\ InPass("check")
  /\ LET r == Eval
     IN /\ notConst' = IF r.st = "NOT_CONST" THEN notConst \union {at} ELSE notConst
        /\ routed' = IF r.st = "FAILURE"
                       THEN routed \union {[site |-> at, kind |-> r.fail]} ELSE routed
        /\ Flag("check", r.st = "UNSUPPORTED")
  /\ UNCHANGED <<typed, emitted>>

\* A mistake: every failure is taken for an arithmetic one.
Bug_arith_fail_eval ==
  /\ InPass("arith")
  /\ LET r == Eval
         l == LocateArith(Env, Sites[at])
         failed == r.st = "FAILURE"
     IN /\ typed' = IF failed /\ l.st = "FAILURE"
                      THEN typed \union {[site |-> at, kind |-> r.fail, path |-> l.path,
                                          facts |-> l.facts]}
                      ELSE typed
        /\ Flag("arith", r.st = "UNSUPPORTED" \/ (failed /\ l.st = "UNSUPPORTED"))
  /\ UNCHANGED <<notConst, routed, emitted>>

arith_fail_eval ==
  /\ InPass("arith")
  /\ LET r == Eval
         l == LocateArith(Env, Sites[at])
         arith == r.st = "FAILURE" /\ r.fail \in ArithKinds
     IN /\ typed' = IF arith /\ l.st = "FAILURE"
                      THEN typed \union {[site |-> at, kind |-> r.fail, path |-> l.path,
                                          facts |-> l.facts]}
                      ELSE typed
        /\ Flag("arith", \/ r.st = "UNSUPPORTED"
                         \/ arith /\ l.st = "UNSUPPORTED")
  /\ UNCHANGED <<notConst, routed, emitted>>

rec_emit_site ==
  /\ InPass("emit")
  /\ LET r == Eval
         l == LocateRec(Env, Sites[at], r.fail)
         failed == r.st = "FAILURE"
         rec == rec_build_record(r.fail, l.path)
     IN /\ emitted' = IF failed /\ l.st = "FAILURE"
                        THEN emitted \union {[site |-> at, code |-> rec.code, path |-> rec.path,
                                              at |-> l.path, facts |-> l.facts]}
                        ELSE emitted
        /\ Flag("emit", \/ r.st = "UNSUPPORTED"
                        \/ failed /\ l.st = "UNSUPPORTED")
  /\ UNCHANGED <<notConst, routed, typed>>

Next ==
  \/ RunLayout
  \/ EndPass("layout", "check", phase = "laidout")
  \/ EndPass("layout", "done", phase = "unsupported")
  \/ cc_check_site
  \/ EndPass("check", "arith", at > Len(Sites))
  \/ arith_fail_eval
  \/ EndPass("arith", "emit", at > Len(Sites))
  \/ rec_emit_site
  \/ EndPass("emit", "done", at > Len(Sites))

ConstEvalStatus ==
  IF notConst # {} THEN "DIAG_ERROR" ELSE IF routed # {} THEN "FAILURE"
  ELSE IF "check" \in unsupported THEN "UNSUPPORTED" ELSE "OK"
ArithFailStatus ==
  IF typed # {} THEN "FAILURE" ELSE IF "arith" \in unsupported THEN "UNSUPPORTED" ELSE "OK"
RecFailStatus ==
  IF emitted # {} THEN "FAILURE" ELSE IF "emit" \in unsupported THEN "UNSUPPORTED" ELSE "OK"

-----------------------------------------------------------------------------
Done3 == pass = "done" /\ phase = "laidout"
TheEnv == Env
Holds(e) == Evaluate(TheEnv, e)

\* The walkers also visit operands that the evaluator leaves alone once an
\* earlier one fails: hi after a negative lo, e of [e; count] after a bad or a
\* zero count, and both bounds of a slice after its base, which the walker of
\* the arithmetic kinds does not try.  A site is regular when those evaluate.
Untried(e) == CASE e.k = "slice" ->
                     IF Holds(e.b).st = "FAILURE" THEN e.lo \o e.hi
                     ELSE IF e.lo = <<>> THEN <<>> ELSE e.hi
                [] e.k = "array" -> IF e.count = <<>> THEN <<>> ELSE e.es
                [] OTHER -> <<>>
Regular == {i \in DOMAIN Sites :
              \A n \in DOMAIN Untried(Sites[i]) : Holds(Untried(Sites[i])[n]).st = "OK"}

\* The three passes evaluate on their own but tell one story: what the first
\* routes is what the last reports, once and under the code of its kind; the
\* second types its arithmetic part; no site is both routed and reported as
\* not constant; and the three statuses fit together.
PassesAgree ==
  Done3 =>
    /\ Regular = DOMAIN Sites =>
         /\ {[site |-> r.site, code |-> rec_fail_code(r.kind)] : r \in routed}
              = {[site |-> e.site, code |-> e.code] : e \in emitted}
         /\ Cardinality(emitted) = Cardinality(routed)
         /\ {[site |-> t.site, kind |-> t.kind] : t \in typed}
              = {r \in routed : r.kind \in ArithKinds}
         /\ unsupported \in {{}, {"check", "arith", "emit"}}
    /\ notConst \cap {r.site : r \in routed} = {}
    /\ ConstEvalStatus = "OK" => ArithFailStatus = "OK" /\ RecFailStatus = "OK"

\* The node a failure is pinned on is the innermost one: it fails when it is
\* evaluated alone, with the kind reported, and everything it is computed
\* from evaluates; or it is the bound that is out of range ("descending into
\* the first sub-expression that fails", eval_fail_rec.h).
CulpritFound ==
  Done3 => \A e \in emitted :
    LET n == NodeAt(Sites[e.site], e.at)
        kind == CHOOSE r \in routed : r.site = e.site
        r == Holds(n)
    IN e.site \in Regular =>
         IF r.st = "FAILURE"
           THEN /\ r.fail = kind.kind
                /\ \A i \in DOMAIN Children(n) : Holds(Children(n)[i][2]).st = "OK"
           ELSE e.code = "E0409" /\ r.st = "OK"

\* The facts a report shows are those of a real failure: no value of the type
\* is the result, the divisor is zero, the count is outside the width, the
\* value does not fit the target, the bound is outside the extent or crosses
\* the other one.
FactsTrue ==
  Done3 =>
    /\ \A t \in {x \in typed : x.site \in Regular} :
         LET n == NodeAt(Sites[t.site], t.path)
             f == t.facts
             a == MathOf(f.a)
             b == MathOf(f.b)
             p == [width |-> f.width, signed |-> f.signed]
             ints == n.k = "bin" /\ {Holds(n.l).val.kind, Holds(n.r).val.kind} = {"INT"}
         IN /\ ints /\ t.kind = "DIV_ZERO" => b = 0
            /\ ints /\ t.kind = "SHIFT_RANGE" => b \notin 0..(f.width - 1)
            /\ ints /\ t.kind = "OVERFLOW" =>
                 ~InRange(CASE n.op = "ADD" -> a + b [] n.op = "SUB" -> a - b
                            [] n.op = "MUL" -> a * b [] n.op \in {"DIV", "MOD"} -> Quot(a, b), p)
            /\ n.k = "un" /\ n.op = "NEG" => ~InRange(-a, p)
    /\ \A e \in {x \in emitted : x.site \in Regular} :
         LET n == NodeAt(Sites[e.site], e.at)
             v == MathOf(e.facts.bound)
         IN /\ e.code = "E0408" /\ n.k = "cast" /\ n.t.k = "prim" =>
                 IF n.t.p = "bool" THEN MathOf(e.facts.a) \notin {0, 1}
                 ELSE ~InRange(MathOf(e.facts.a), kPrims[n.t.p])
            /\ e.code = "E0409" /\ e.facts.extent >= 0 =>
                 \/ v < 0 \/ v > e.facts.extent
                 \/ v = e.facts.extent /\ Sites[e.site].k # "slice"
                 \/ e.at = <<"lo">> /\ Sites[e.site].k = "slice" /\ Sites[e.site].hi # <<>> /\
                      v > MathOf(Holds(Sites[e.site].hi[1]).val.i)

\* The bits of an integer of any sign in two's complement.
Bit(x, i) == (x \div 2^i) % 2

\* The evaluator's arithmetic, written over int64 with overflow flags and
\* patterns, is arithmetic on the integers: an operation on two values gives
\* the mathematical result when the common type can hold it and the right
\* failure otherwise; casts keep the value, wraps keep it modulo 2^width.
IntSite(e) == e.k = "bin" => Holds(e.l).st = "OK" /\ Holds(e.r).st = "OK"
BinaryExact(e) ==
  LET l == Holds(e.l).val
      r == Holds(e.r).val
      t == IF e.op \in {"SHL", "SHR"} THEN l.t ELSE convert_common_type(l.t, r.t)
      p == kPrims[t.p]
      a == MathOf(l.i)
      b == MathOf(r.i)
      res == Holds(e)
      m == MathOf(res.val.i)
      is(x) == IF InRange(x, p) THEN res.st = "OK" /\ m = x /\ res.val.t = t
                                ELSE res.st = "FAILURE" /\ res.fail = "OVERFLOW"
      bits(f(_, _)) == /\ res.st = "OK" /\ InRange(m, p)
                       /\ \A i \in 0..(p.width - 1) : Bit(m, i) = f(Bit(a, i), Bit(b, i))
      fails(kind) == res.st = "FAILURE" /\ res.fail = kind
  IN IF e.op \in Compares
       THEN res.val.b = (CASE e.op = "LT" -> a < b [] e.op = "LE" -> a <= b
                           [] e.op = "GT" -> a > b [] e.op = "GE" -> a >= b
                           [] e.op = "EQ" -> a = b [] e.op = "NE" -> a # b)
     ELSE IF t = NoType \/ ~IsInt(t) THEN res.st = "UNSUPPORTED"
     ELSE CASE e.op = "ADD" -> is(a + b) [] e.op = "SUB" -> is(a - b) [] e.op = "MUL" -> is(a * b)
            [] e.op = "DIV" -> IF b = 0 THEN fails("DIV_ZERO") ELSE is(Quot(a, b))
            [] e.op = "MOD" -> IF b = 0 THEN fails("DIV_ZERO")
                               ELSE IF InRange(Quot(a, b), p) THEN is(Rem(a, b))
                               ELSE fails("OVERFLOW")
            [] e.op = "BAND" -> bits(LAMBDA x, y : x * y)
            [] e.op = "BOR" -> bits(LAMBDA x, y : x + y - x * y)
            [] e.op = "BXOR" -> bits(LAMBDA x, y : (x + y) % 2)
            [] e.op \in {"SHL", "SHR"} ->
                 IF b \notin 0..(p.width - 1) THEN fails("SHIFT_RANGE")
                 ELSE /\ res.st = "OK" /\ InRange(m, p)
                      /\ IF e.op = "SHR" THEN m = a \div 2^b
                         ELSE (m - a * 2^b) % 2^(p.width) = 0

ConvertExact(e) ==
  LET v == Holds(e.e).val
      p == kPrims[e.t.p]
      a == MathOf(v.i)
      res == Holds(e)
  IN IF e.k = "cast"
       THEN IF InRange(a, p) THEN res.st = "OK" /\ MathOf(res.val.i) = a
            ELSE res.st = "FAILURE" /\ res.fail = "CAST_RANGE"
       ELSE /\ res.st = "OK" /\ InRange(MathOf(res.val.i), p)
            /\ (MathOf(res.val.i) - a) % 2^(p.width) = 0

UnaryExact(e) ==
  LET v == Holds(e.e).val
      p == kPrims[v.t.p]
      a == MathOf(v.i)
      res == Holds(e)
      x == CASE e.op = "PLUS" -> a [] e.op = "NEG" -> -a
             [] e.op = "BNOT" -> IF p.signed THEN -a - 1 ELSE MaskOf(p.width) - a
  IN IF e.op = "NEG" /\ (~p.signed \/ (e.e.k = "int" /\ e.e.min)) THEN TRUE
     ELSE IF InRange(x, p) THEN res.st = "OK" /\ MathOf(res.val.i) = x
     ELSE res.st = "FAILURE" /\ res.fail = "OVERFLOW"

IsIntValue(e) == Holds(e).st = "OK" /\ Holds(e).val.kind = "INT" /\ IsInt(Holds(e).val.t)

ArithExact ==
  Done3 => \A i \in DOMAIN Sites :
    LET e == Sites[i]
    IN /\ e.k = "bin" /\ e.op \notin {"LAND", "LOR"} =>
            (IsIntValue(e.l) /\ IsIntValue(e.r) => BinaryExact(e))
       /\ e.k \in {"cast", "wrap"} =>
            (IsIntValue(e.e) /\ IsInt(e.t) => ConvertExact(e))
       /\ e.k = "un" /\ e.op \in {"PLUS", "NEG", "BNOT"} => (IsIntValue(e.e) => UnaryExact(e))

\* The typer that serves sizeof and the evaluator type an expression alike:
\* where both answer it is with the same type, so that sizeof measures what
\* evaluates.  (The typer has no answer for p == null, nor for a pointer
\* stepped by an enum value; the evaluator computes both.)
TyperAgrees ==
  Done3 => \A i \in DOMAIN Sites :
    LET r == Holds(Sites[i])
        t == TypeOf(TheEnv, Sites[i])
    IN r.st = "OK" /\ t.st = "OK" => r.val.t \in {NoType, t.val}

\* The layout pass has an evaluator of its own, untyped and in the host word.
\* Where neither complements or shifts left, and both give a value, it is the
\* same: an enum is laid out with the values its members have.
RECURSIVE Plain(_)
Plain(e) == CASE e.k = "int" -> TRUE
              [] e.k = "paren" -> Plain(e.e)
              [] e.k = "un" -> e.op # "BNOT" /\ Plain(e.e)
              [] e.k = "bin" -> e.op # "SHL" /\ Plain(e.l) /\ Plain(e.r)
              [] OTHER -> FALSE
LayoutEvalAgrees ==
  Done3 => \A i \in DOMAIN Sites :
    LET r == Holds(Sites[i])
        l == layout_eval_int_expr(Sites[i])
    IN Plain(Sites[i]) /\ r.st = "OK" /\ l.st = "OK" /\ r.val.kind = "INT" =>
         r.val.i = l.val

\* A constant that needs its own value is never given one, whichever way the
\* names go round; everything else about the program is still checked.
RECURSIVE Names(_)
Names(e) == (IF e.k \in {"id", "member"} THEN {e.s} ELSE {}) \union
            UNION {Names(Children(e)[i][2]) : i \in DOMAIN Children(e)} \union
            (IF e.k = "paren" THEN Names(e.e) ELSE {})
RECURSIVE ReachesFrom(_, _)
ReachesFrom(s, seen) ==
  LET next == IF KindOf(TheEnv, s) = "const" THEN Names(TheEnv.syms[s].init) ELSE {}
  IN next \union UNION {ReachesFrom(x, seen \union {s}) : x \in next \ (seen \union {s})}
CyclesRejected ==
  Done3 => \A i \in DOMAIN decls :
    decls[i].k = "const" /\ decls[i].s \in ReachesFrom(decls[i].s, {}) =>
      Holds([k |-> "id", s |-> decls[i].s]).st # "OK"

\* Every struct is laid out without gaps that alignment does not ask for;
\* every enum member whose value the pass can know has it, or a record; a
\* struct that could not be laid out or holds a thing that could not is
\* missing, and the caller is told of whatever is missing.  The enums after
\* the first doubtful one are published with zeroes for what is not known
\* (types_layout_build, compute_enum's test of the flag).
LayoutSound == StructsTile /\ SkipsSpread /\ EnumsCount /\ LayoutEvalAgrees

\* A failure is pinned on the node that fails and shown with facts that make
\* it fail (locate_failure, locate_rec_failure).
BlameTrue == CulpritFound /\ FactsTrue

\* What evaluates has its mathematical value, in the type the typer gives it
\* (int_arith_op, eval_convert, type_of_expr).
ValuesExact == ArithExact /\ TyperAgrees

\* cast<U*>(p) keeps the address p ("T* -> U*: bit-preserving",
\* eval_convert in eval_core.c).
PointerCastKeeps ==
  Done3 => \A i \in DOMAIN Sites :
    LET e == Sites[i]
    IN e.k = "cast" /\ e.t.k = "ptr" /\ Holds(e).st = "OK" /\ Holds(e.e).val.kind = "ADDR" =>
         Holds(e).val.s = Holds(e.e).val.s /\ Holds(e).val.off = Holds(e.e).val.off
=============================================================================
