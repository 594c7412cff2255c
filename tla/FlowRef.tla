------------------------------ MODULE FlowRef ------------------------------
(***************************************************************************)
(* What control flow means: the runs of a statement of the source and of a *)
(* node of the IR, as sets of [tr, out, to].  tr is the trace of events    *)
(* <<place, what happened>>, at most a given number of them; out says how  *)
(* the run ends: next, ret, stop, brk or cont (to the construct `to'), or  *)
(* cut, when there are no events left.                                     *)
(***************************************************************************)
EXTENDS StmtBuild

End(out) == [tr |-> <<>>, out |-> out, to |-> 0]
Event(p, what, out, m) ==
  {IF m = 0 THEN End("cut") ELSE [tr |-> << <<p, what>> >>, out |-> out, to |-> 0]}

\* The runs of R that end in `out' go on with K, given the events left.
On(out, R, m, K(_)) ==
  UNION {IF r.out = out THEN {[k EXCEPT !.tr = r.tr \o @] : k \in K(m - Len(r.tr))} ELSE {r} : r \in R}
Then(R, m, K(_)) == On("next", R, m, K)
Becomes(R, outs, out) == {IF r.out \in outs THEN [r EXCEPT !.out = out, !.to = 0] ELSE r : r \in R}

-----------------------------------------------------------------------------
(* The source, by the rules of the language.                               *)

\* An expression that needs an intermediate does its work once each time it
\* is evaluated.
Eval(e, p, what, out, m) ==
  IF e = "e" THEN Then(Event(p, "pre", "next", m), m, LAMBDA k : Event(p, what, out, k))
  ELSE Event(p, what, out, m)

Test(e, p, m) ==
  IF e = "-" THEN {End("yes")}
  ELSE Eval(e, p, "yes", "yes", m) \cup (IF e = "t" THEN {} ELSE Eval(e, p, "no", "no", m))

RECURSIVE Run(_, _, _), RunFrom(_, _, _, _), Again(_, _, _)

RunFrom(q, p, i, m) ==
  IF i > Len(q) THEN {End("next")}
  ELSE Then(Run(q[i], Append(p, i), m), m, LAMBDA k : RunFrom(q, p, i + 1, k))

\* One more iteration of a loop.
Again(s, p, m) ==
  LET Step(k) == IF s.step # "-" THEN Eval(s.step, p, "step", "next", k)
                 ELSE {End("next")}
      Body(k) == Becomes(Run(s.a[1], Append(p, 1), k), {"cont"}, "next")
      Rest(k) == Then(Step(k), k, LAMBDA j : Again(s, p, j))
      Round(k) == Becomes(Then(Body(k), k, Rest), {"brk"}, "next")
      tested == Then(Event(p, "iter", "next", m), m, LAMBDA k : Test(s.x, p, k))
  IN Becomes(On("yes", tested, m, Round), {"no"}, "next")

RunSwitch(s, p, m) ==
  LET Labelled(c) == s.a[c].k = "case"
      clauses == DOMAIN s.a
      Enter(c, what) == Then(Event(p, what, "next", m), m, LAMBDA k : Run(s.a[c].a[1], p \o <<c, 1>>, k))
      others  == {c \in clauses : ~Labelled(c)}
  IN Becomes(UNION {Enter(c, s.a[c].x) : c \in {d \in clauses : Labelled(d)}}
             \cup (IF others = {} THEN Event(p, "other", "next", m)
                   ELSE Enter(CHOOSE c \in others : TRUE, "other")), {"brk"}, "next")

Run(s, p, m) ==
  CASE s.k = "block" -> RunFrom(s.a, p, 1, m)
    [] s.k = "if" ->
         LET T == On("yes", Test(s.x, p, m), m, LAMBDA k : Run(s.a[1], Append(p, 1), k))
         IN IF Len(s.a) = 1 THEN Becomes(T, {"no"}, "next")
            ELSE On("no", T, m, LAMBDA k : Run(s.a[2], Append(p, 2), k))
    [] s.k = "while" -> Again(s, p, m)
    [] s.k = "for" ->
         LET I == IF s.init \in {"-", "const"} THEN {End("next")}
                  ELSE Eval(s.init, p, "init", "next", m)
         IN Then(I, m, LAMBDA k : Again(s, p, k))
    [] s.k = "switch" -> RunSwitch(s, p, m)
    [] s.k \in {"brk", "cont"} -> Event(p, s.k, s.k, m)
    [] s.k = "ret" -> Event(p, "ret", "ret", m)
    [] s.k = "stop" -> Event(p, "stop", "stop", m)
    [] s.k = "const" -> {End("next")}
    [] s.k = "empty" -> Event(p, "do", "next", m)
    [] s.k \in {"do", "var"} -> Eval(s.x, p, "do", "next", m)

-----------------------------------------------------------------------------
(* The IR, by its contract: statements in order, jumps to the node named.  *)

TestNode(c, m) ==
  IF c.k = "NONE" THEN {End("yes")}
  ELSE Event(c.src, "yes", "yes", m) \cup (IF c.k = "BOOL" THEN {} ELSE Event(c.src, "no", "no", m))

RECURSIVE Exec(_, _, _), ExecFrom(_, _, _), Repeat(_, _)

ExecFrom(b, i, m) ==
  IF i > Len(b.a) THEN {End("next")}
  ELSE Then(Exec(b.a[i], "do", m), m, LAMBDA k : ExecFrom(b, i + 1, k))

\* The jumps out of a construct that name it.
Lands(R, n, out) == {IF r.out = out /\ r.to = n.id THEN [r EXCEPT !.out = "next", !.to = 0] ELSE r : r \in R}

Repeat(n, m) ==
  LET Step(k) == IF n.k = "FOR" THEN Exec(n.a[3], "step", k) ELSE {End("next")}
      Body(k) == Lands(Exec(LoopBody(n), "do", k), n, "cont")
      Rest(k) == Then(Step(k), k, LAMBDA j : Repeat(n, j))
      Round(k) == Lands(Then(Body(k), k, Rest), n, "brk")
      tested == Then(Event(n.src, "iter", "next", m), m, LAMBDA k : TestNode(LoopCond(n), k))
  IN Becomes(On("yes", tested, m, Round), {"no"}, "next")

ExecSwitch(n, m) ==
  LET arms == Arms(n)
      Enter(a, what) == Then(Event(n.src, what, "next", m), m, LAMBDA k : Exec(a.a[1], "do", k))
  IN Lands(UNION {Enter(arms[i], arms[i].x.v) : i \in {j \in DOMAIN arms : arms[j].k = "CASE"}}
           \cup (IF HasDefault(n) THEN Enter(Last(n.a), "other")
                 ELSE Event(n.src, "other", "next", m)), n, "brk")

\* what: the part the node plays in the statement around it.
Exec(n, what, m) ==
  CASE n.k = "NONE" -> {End("next")}
    [] n.k = "BLOCK" -> ExecFrom(n, 1, m)
    [] n.k = "IF" ->
         LET T == On("yes", TestNode(n.a[1], m), m, LAMBDA k : Exec(n.a[2], "do", k))
         IN On("no", T, m, LAMBDA k : Exec(n.a[3], "do", k))
    [] n.k = "WHILE" -> Repeat(n, m)
    [] n.k = "FOR" -> Then(Exec(n.a[1], "init", m), m, LAMBDA k : Repeat(n, k))
    [] n.k = "SWITCH" -> ExecSwitch(n, m)
    [] n.k \in {"BREAK", "CONTINUE"} ->
         LET out == IF n.k = "BREAK" THEN "brk" ELSE "cont"
         IN {IF r.out = out THEN [r EXCEPT !.to = n.x.id] ELSE r : r \in Event(n.src, out, out, m)}
    [] n.k = "RETURN" -> Event(n.src, "ret", "ret", m)
    [] n.k = "CALL_TERM" -> Event(n.src, "stop", "stop", m)
    [] n.k = "STORE" -> Event(n.src, "pre", "next", m)
    [] OTHER -> Event(n.src, what, "next", m)
=============================================================================
