----------------------------- MODULE StmtBuild -----------------------------
(***************************************************************************)
(* The mapping of a checked function body to the IR.  The builder's state  *)
(* is threaded through the statements in the order the code maps them:     *)
(*   ok     no form was refused           n     the id of the next node    *)
(*   b      the current block             encl  the loops and switches     *)
(*   slots  the slots of the function             around the statement     *)
(*   sig    the callees given their       v     the node mapped last       *)
(*          signature                                                      *)
(* A refusal lasts; nothing is built from a refused body.                  *)
(***************************************************************************)
EXTENDS StmtSema, IrGraph

Void == Prim("void")
Bool == Prim("bool")
I32  == Prim("i32")
Slot(kind, index, t) == [kind |-> kind, index |-> index, t |-> t]

Refuse(B) == [B EXCEPT !.ok = FALSE]
Need(c, B) == IF c THEN B ELSE Refuse(B)

\* A new node takes the next id and the place of its statement.
Mk(B, k, t, a, x, p) == [B EXCEPT !.n = @ + 1, !.v = From(Nd(k, B.n, t, a, x), p)]
\* The node mapped last becomes the next statement of the block.
AddStmt(B) == [B EXCEPT !.b = Append(@, B.v)]
AddSlot(B, kind, t) == [B EXCEPT !.slots = Append(@, Slot(kind, Len(@), t))]
EndsInTerminator(q) == q # <<>> /\ Last(q).k \in Terminators

-----------------------------------------------------------------------------
(* Expressions, as far as statements tell them apart: a literal, a read of *)
(* the parameters c and x, a call, and a form, "e", that needs a statement *)
(* of its own before the one it stands in.                                 *)

\* A load of the place mapped last.
LoadOf(B, t, p) ==
  LET L == Mk(B, "LOAD", t, <<B.v>>, 0, p)
  IN [L EXCEPT !.v.trap = IF t = Bool THEN "R0805" ELSE ""]

SymbolRef(B, i, t, p) == LoadOf(Mk(B, "LOCAL", t, <<>>, i, p), t, p)

\* A value is stored to a temporary ahead of the statement, then loaded.
Materialize(B, p) ==
  LET T == AddSlot(B, "temp", I32)
      V == Mk(T, "INT", I32, <<>>, Const("int", I32, 1), p)
      P == Mk(V, "LOCAL", I32, <<>>, Len(B.slots), p)
      W == AddStmt(Mk(P, "STORE", NoType, <<P.v, V.v>>, 0, p))
  IN LoadOf([W EXCEPT !.v = P.v], I32, p)

Put == [k |-> "FUNCTION", noreturn |-> FALSE, ret |-> Void, params |-> <<>>]

Lower(B, e, p) ==
  CASE e = "t" -> Mk(B, "BOOL", Bool, <<>>, Const("bool", Bool, 1), p)
    [] e = "1" -> Mk(B, "INT", I32, <<>>, Const("int", I32, 1), p)
    [] e = "c" -> SymbolRef(B, 0, Bool, p)
    [] e = "x" -> SymbolRef(B, 1, I32, p)
    [] e = "f" -> Mk(B, "CALL", Void, <<>>, Put, p)
    [] e = "e" -> Materialize(B, p)

\* A condition that needs a statement of its own: a comparison with "e".
LowerCond(B, e, p) ==
  IF e # "e" THEN Lower(B, e, p)
  ELSE LET L == Lower(B, "e", p)
           R == Lower(L, "1", p)
       IN Mk(R, "EQ", Bool, <<L.v, R.v>>, 0, p)

\* Mutant: what a loop condition needs ahead of it is left before the loop.
LowerPerIterationHoists(B, e, p) == LowerCond(B, e, p)

\* What is evaluated once per iteration may not leave a statement before
\* the loop.
LowerPerIteration(B, e, p) ==
  LET L == LowerCond(B, e, p) IN Need(Len(L.b) = Len(B.b), L)

-----------------------------------------------------------------------------
(* Calls that do not return.                                               *)

Params(name) ==
  IF name = "exit" THEN << Param("code", I32, 0) >>
  ELSE << Param("code", Prim("u32"), 0), Param("message", Prim("str"), 1) >>

\* The callee gets its parameters at its first call.
EnsureSignature(B, name) == [B EXCEPT !.sig = @ \cup {name}]
Noreturn(B, name) ==
  [k |-> "FUNCTION", noreturn |-> TRUE, ret |-> Void,
   params |-> IF name \in B.sig THEN Params(name) ELSE <<>>]

CallTerm(B, name, p) ==
  LET E == EnsureSignature(B, name)
      C == Mk(E, "CALL_TERM", NoType, <<>>, Noreturn(E, name), p)
      N == Mk(C, "INT", Params(name)[1].t, <<>>, Const("int", Params(name)[1].t, 1), p)
      T == Mk(N, "STR", Prim("str"), <<>>, Const("str", Prim("str"), 0), p)
  IN IF name = "exit" THEN AddStmt([N EXCEPT !.v = [C.v EXCEPT !.a = <<N.v>>]])
     ELSE AddStmt([T EXCEPT !.v = [C.v EXCEPT !.a = <<N.v, T.v>>]])

-----------------------------------------------------------------------------
(* Local declarations, jumps and returns.                                  *)

\* The slot comes before the initialiser is lowered.
LocalDecl(B, e, p) ==
  IF e = "-" THEN Refuse(B)
  ELSE LET D == AddSlot(B, "local", I32)
           L == Lower(D, e, p)
       IN Mk(L, "LOCAL_DECL", NoType, <<L.v>>, Len(B.slots), p)

BreakTarget(B) == B.encl
ContinueTarget(B) == SelectSeq(B.encl, LAMBDA t : t.k \in Loops)

Jump(B, k, targets, p) ==
  IF targets = <<>> THEN Refuse(B) ELSE AddStmt(Mk(B, k, NoType, <<>>, Last(targets), p))

Return(B, e, p) ==
  IF (e # "-") = (B.ret = Void) THEN Refuse(B)
  ELSE LET L == IF e # "-" THEN Lower(B, e, p) ELSE [B EXCEPT !.v = None]
       IN AddStmt(Mk(L, "RETURN", NoType, <<L.v>>, 0, p))

-----------------------------------------------------------------------------
(* Statements.                                                             *)

RECURSIVE MapStmt(_, _, _), MapFrom(_, _, _, _), Clauses(_, _, _, _)

\* The statements from the i-th on, into the current block.
MapFrom(B, s, p, i) ==
  IF ~B.ok \/ i > Len(s.a) THEN B
  ELSE IF EndsInTerminator(B.b) THEN Refuse(B)
  ELSE MapFrom(MapStmt(B, s.a[i], Append(p, i)), s, p, i + 1)

\* A block of its own; the block around it is current again afterwards.
NewBlock(B, s, p) ==
  LET K == Mk(B, "BLOCK", NoType, <<>>, 0, p)
      I == MapFrom([K EXCEPT !.b = <<>>], s, p, 1)
  IN [I EXCEPT !.b = B.b, !.v = [K.v EXCEPT !.a = I.b]]

\* The same inside the loop or switch just made.
BodyOf(B, s, p) ==
  LET I == NewBlock([B EXCEPT !.encl = Append(@, [id |-> B.v.id, k |-> B.v.k])], s, p)
  IN [I EXCEPT !.encl = B.encl]

\* The else of an if: absent, a block, or a block around the next if.
ElseOf(B, s, p) ==
  IF Len(s.a) = 1 THEN [B EXCEPT !.v = None]
  ELSE IF s.a[2].k = "block" THEN NewBlock(B, s.a[2], Append(p, 2))
  ELSE LET K == Mk(B, "BLOCK", NoType, <<>>, 0, p)
           I == MapStmt([K EXCEPT !.b = <<>>], s.a[2], Append(p, 2))
       IN [I EXCEPT !.b = B.b, !.v = [K.v EXCEPT !.a = I.b]]

MapIf(B, s, p) ==
  LET C == LowerCond(B, s.x, p)
      T == NewBlock(C, s.a[1], Append(p, 1))
      E == ElseOf(T, s, p)
  IN AddStmt(Mk(E, "IF", NoType, <<C.v, T.v, E.v>>, 0, p))

\* The loop's id is taken before its body is mapped, as jumps name it.
MapWhile(B, s, p) ==
  LET C == LowerPerIteration(B, s.x, p)
      W == Mk(C, "WHILE", NoType, <<C.v>>, 0, p)
      I == BodyOf(W, s.a[1], Append(p, 1))
  IN AddStmt([I EXCEPT !.v = [W.v EXCEPT !.a = Append(@, I.v)]])

ForInit(B, init, p) ==
  CASE init \in {"-", "const"} -> [B EXCEPT !.v = None]
    [] init = "var -" -> LocalDecl(B, "-", p)
    [] init = "var 1" -> LocalDecl(B, "1", p)
    [] OTHER -> LET L == Lower(B, init, p) IN Mk(L, "EXPR_STMT", NoType, <<L.v>>, 0, p)

MapFor(B, s, p) ==
  LET Part(A, e) == IF e = "-" THEN [A EXCEPT !.v = None] ELSE LowerPerIteration(A, e, p)
      N == ForInit(B, s.init, p)
      C == Part(N, s.x)
      T == Part(C, s.step)
      F == Mk(T, "FOR", NoType, <<N.v, C.v, T.v>>, 0, p)
      I == BodyOf(F, s.a[1], Append(p, 1))
  IN AddStmt([I EXCEPT !.v = [F.v EXCEPT !.a = Append(@, I.v)]])

\* The body of a clause must end in a terminator.
CaseBody(B, s, p) == LET K == NewBlock(B, s, p) IN Need(EndsInTerminator(K.v.a), K)

\* The clauses from the i-th on; their nodes gather in the current block.
Clauses(B, s, p, i) ==
  IF ~B.ok \/ i > Len(s.a) THEN B
  ELSE LET c == s.a[i]
           K == CaseBody(B, c.a[1], p \o <<i, 1>>)
           C == IF c.k = "case"
                THEN Mk(K, "CASE", NoType, <<K.v>>, Const("int", I32, c.x), p)
                ELSE Need(\A j \in DOMAIN B.b : B.b[j].k # "DEFAULT",
                          Mk(K, "DEFAULT", NoType, <<K.v>>, 0, p))
       IN Clauses(AddStmt(C), s, p, i + 1)

MapSwitch(B, s, p) ==
  LET C == Lower(B, "x", p)
      W == Mk(C, "SWITCH", NoType, <<C.v>>, 0, p)
      I == Clauses([W EXCEPT !.b = <<>>,
                             !.encl = Append(@, [id |-> W.v.id, k |-> "SWITCH"])], s, p, 1)
      cases    == SelectSeq(I.b, LAMBDA c : c.k = "CASE")
      defaults == SelectSeq(I.b, LAMBDA c : c.k = "DEFAULT")
      end == IF defaults = <<>> THEN None ELSE Last(defaults)
  IN AddStmt([I EXCEPT !.b = W.b, !.encl = W.encl,
                       !.v = [W.v EXCEPT !.a = Append(@ \o cases, end)]])

MapStmt(B, s, p) ==
  CASE s.k = "block" -> AddStmt(NewBlock(B, s, p))
    [] s.k = "var" -> AddStmt(LocalDecl(B, s.x, p))
    [] s.k = "const" -> B
    [] s.k = "if" -> MapIf(B, s, p)
    [] s.k = "while" -> MapWhile(B, s, p)
    [] s.k = "for" -> MapFor(B, s, p)
    [] s.k = "switch" -> MapSwitch(B, s, p)
    [] s.k = "brk" -> Jump(B, "BREAK", BreakTarget(B), p)
    [] s.k = "cont" -> Jump(B, "CONTINUE", ContinueTarget(B), p)
    [] s.k = "ret" -> Return(B, s.x, p)
    [] s.k = "stop" -> CallTerm(B, s.x, p)
    [] s.k = "do" -> LET L == Lower(B, s.x, p) IN AddStmt(Mk(L, "EXPR_STMT", NoType, <<L.v>>, 0, p))
    [] s.k = "empty" -> AddStmt(Mk(B, "EMPTY", NoType, <<>>, 0, p))

-----------------------------------------------------------------------------
(* The builder's own text of the verifier's invariant 5.                   *)

RECURSIVE TailPathNeverExits(_)
\* Mutant: a loop in the tail of a loop need not be endless.
TailPathNeverExitsLoops(b) ==
  /\ b.a # <<>>
  /\ LET n == Last(b.a)
     IN \/ n.k \in {"RETURN", "CALL_TERM", "TRAP", "CONTINUE"}
        \/ n.k \in Loops /\ TailPathNeverExits(LoopBody(n))

TailPathNeverExits(b) ==
  /\ b.k = "BLOCK" /\ b.a # <<>>
  /\ LET n == Last(b.a)
     IN \/ n.k \in {"RETURN", "CALL_TERM", "TRAP", "CONTINUE"}
        \/ n.k = "BLOCK" /\ TailPathNeverExits(n)
        \/ n.k = "IF" /\ n.a[3].k # "NONE" /\ \A i \in 2 .. 3 : TailPathNeverExits(n.a[i])
        \/ n.k = "SWITCH" /\ HasDefault(n)
           /\ \A i \in DOMAIN Arms(n) : TailPathNeverExits(Arms(n)[i].a[1])
        \/ n.k \in Loops /\ ConstTrue(LoopCond(n)) /\ TailPathNeverExits(LoopBody(n))

RECURSIVE TailSeqTerminates(_)
TailSeqTerminates(b) ==
  /\ b.k = "BLOCK" /\ b.a # <<>>
  /\ LET n == Last(b.a)
     IN \/ n.k \in {"RETURN", "CALL_TERM", "TRAP"}
        \/ n.k = "BLOCK" /\ TailSeqTerminates(n)
        \/ n.k = "IF" /\ n.a[3].k # "NONE" /\ \A i \in 2 .. 3 : TailSeqTerminates(n.a[i])
        \/ n.k = "SWITCH" /\ HasDefault(n)
           /\ \A i \in DOMAIN Arms(n) : TailSeqTerminates(Arms(n)[i].a[1])
        \/ n.k \in Loops /\ ConstTrue(LoopCond(n)) /\ TailPathNeverExits(LoopBody(n))

-----------------------------------------------------------------------------
(* A program: main, which takes c and x, a function put, and the runtime.  *)

MainParams == << Param("c", Bool, 0), Param("x", I32, 1) >>
ParamSlots(ps) == [i \in DOMAIN ps |-> Slot("param", i - 1, ps[i].t)]
\* The nodes declared before the body is mapped: three modules, two blocks
\* and four functions.
FirstId == 9

StmtBody(f) ==
  LET ret == IF f.void THEN Void ELSE I32
      B == MapFrom([ok |-> TRUE, n |-> FirstId, b |-> <<>>, encl |-> <<>>, v |-> None,
                    slots |-> ParamSlots(MainParams), sig |-> {}, ret |-> ret], f.body, <<>>, 1)
      block == Nd("BLOCK", 3, NoType, B.b, 0)
  IN [B |-> B, block |-> block,
      ok |-> B.ok /\ (ret # Void => TailSeqTerminates(block))]

Graph(r) ==
  LET Fn(id, name, ret, noreturn, params, slots, body) ==
        Nd("FUNCTION", id, NoType, <<body>>,
           [name |-> name, ret |-> ret, noreturn |-> noreturn, params |-> params, slots |-> slots])
      Rt(id, name, short) ==
        LET ps == IF short \in r.B.sig THEN Params(short) ELSE <<>>
        IN Fn(id, name, Void, TRUE, ps, ParamSlots(ps), None)
      Mod(id, name, decls) == Nd("MODULE", id, NoType, decls, [name |-> name, imports |-> 0])
  IN [mods |-> << Mod(0, "app", << Fn(2, "app.main", r.B.ret, FALSE, MainParams, r.B.slots, r.block),
                                   Fn(4, "app.put", Void, FALSE, <<>>, <<>>, Nd("BLOCK", 5, NoType, <<>>, 0)) >>),
                  Mod(1, "rt.proc", << Rt(6, "rt.proc.exit", "exit") >>),
                  Mod(7, "rt.trap", << Rt(8, "rt.trap.report", "report") >>) >>,
      ids |-> [i \in 1 .. r.B.n |-> i - 1], types |-> {Void, Bool, I32}, addrs |-> {}]
=============================================================================
