-------------------------------- MODULE Isel --------------------------------
(***************************************************************************)
(* Instruction selection (backend/isel_core.c): every value node owns one  *)
(* virtual register, allocated before its operands are selected, and       *)
(* every construct its labels.  The selection is a record s: the code so   *)
(* far, the register of each node, the break and continue labels of each   *)
(* construct (-1 where none), and the counters of registers and labels.    *)
(***************************************************************************)
EXTENDS Integers, Sequences, SequencesExt

-----------------------------------------------------------------------------
(* The IR the code generator consumes: types with their layout facts, and  *)
(* nodes with their kind, type, identifier, operands and one payload x (a  *)
(* constant, a slot, a field offset, a callee, the target of a break).  A  *)
(* module is a sequence of functions.  Identifiers are handed out operands *)
(* first, as the builder makes its nodes; an absent operand is None.       *)

\* FoldLeft and FlattenSeq for streams of any length, by halves.
Fold(f(_, _), s, q) ==
  LET RECURSIVE Run(_, _, _)
      Run(t, i, j) ==
        IF i > j THEN t
        ELSE IF i = j THEN f(t, q[i])
        ELSE LET h == (i + j) \div 2
             IN CHOOSE r \in {Run(m, h + 1, j) : m \in {Run(t, i, h)}} : TRUE
  IN Run(s, 1, Len(q))
Concat(q) == Fold(LAMBDA s, x : s \o x, <<>>, q)

\* A type: its kind, size, alignment, signedness, the size of its elements
\* (or of the object a pointer points to) and its extent.
Ty(k, size, align, sgn, esz, n) ==
  [k |-> k, size |-> size, align |-> align, sgn |-> sgn, esz |-> esz, n |-> n]

TI(w) == Ty("int", w, w, TRUE, 0, 0)
TU(w) == Ty("int", w, w, FALSE, 0, 0)
TBool == Ty("bool", 1, 1, FALSE, 0, 0)
TVoid == Ty("void", 0, 1, FALSE, 0, 0)
TStr  == Ty("str", 16, 8, FALSE, 1, 0)
TPtr(esz)       == Ty("ptr", 8, 8, FALSE, esz, 0)
TSlice(esz)     == Ty("slice", 16, 8, FALSE, esz, 0)
TArray(esz, al, n) == Ty("array", esz * n, al, FALSE, esz, n)
TStruct(size, al)  == Ty("struct", size, al, FALSE, 0, 0)

\* Makes a node; identifiers are given by Number.
Nd(k, t, a, x) == [k |-> k, t |-> t, id |-> -1, a |-> a, x |-> x]
None == Nd("NONE", TVoid, <<>>, 0)

RECURSIVE Weight(_)
\* The number of nodes of a tree.
Weight(n) ==
  IF n.k = "NONE" THEN 0
  ELSE 1 + Fold(LAMBDA s, c : s + Weight(c), 0, n.a)

Loops == {"WHILE", "FOR"}

RECURSIVE Number(_, _, _, _)
\* The tree with identifiers from k on, its operands first; brk and cont are
\* the constructs a break and a continue of it leave and repeat.
Number(n, k, brk, cont) ==
  LET me == k + Weight(n) - 1
      b  == IF n.k \in Loops \cup {"SWITCH"} THEN me ELSE brk
      c  == IF n.k \in Loops THEN me ELSE cont
      Before(i) == Fold(LAMBDA s, d : s + Weight(d), k, SubSeq(n.a, 1, i - 1))
  IN IF n.k = "NONE" THEN n
     ELSE [n EXCEPT !.id = me,
                    !.a = [i \in DOMAIN n.a |-> Number(n.a[i], Before(i), b, c)],
                    !.x = CASE n.k = "BREAK" -> brk
                            [] n.k = "CONTINUE" -> cont
                            [] OTHER -> @]

RECURSIVE Flatten1(_)
\* The nodes of a numbered tree, in the order of their identifiers.
Flatten1(n) ==
  IF n.k = "NONE" THEN <<>>
  ELSE Fold(LAMBDA q, c : q \o Flatten1(c), <<>>, n.a) \o <<n>>

\* A function: its parameters are its first slots; an external one has no body.
Fn(nparams, slots, noreturn, body) ==
  [nparams |-> nparams, slots |-> slots, noreturn |-> noreturn, body |-> body,
   ext |-> body.k = "NONE", base |-> 0]

\* A build: its functions with numbered bodies, and its nodes by identifier
\* (position p holds identifier first + p - 1).
Build(fns, first) ==
  LET Start(i) == Fold(LAMBDA s, f : s + Weight(f.body), first,
                           SubSeq(fns, 1, i - 1))
      done == [i \in DOMAIN fns |->
                 [fns[i] EXCEPT !.body = Number(@, Start(i), -1, -1),
                                !.base = Start(i)]]
  IN [fns |-> done, first |-> first,
      nodes |-> Fold(LAMBDA q, f : q \o Flatten1(f.body), <<>>, done)]

\* The node of an identifier, None where there is none.
NodeOf(b, id) ==
  IF id - b.first + 1 \in DOMAIN b.nodes THEN b.nodes[id - b.first + 1] ELSE None

-----------------------------------------------------------------------------
(* Operands and instructions                                               *)

Composite(t) == t.k \in {"str", "array", "slice", "struct"}

Width(t) ==
  CASE t.k \in {"bool", "int", "enum"} -> t.size
    [] t.k = "void" -> 0
    [] OTHER -> 8

Signed(t) == t.k \in {"int", "enum"} /\ t.sgn

ElemSize(t) == IF t.esz > 0 THEN t.esz ELSE 1

\* Operands: kind, register or label or symbol n, immediate or displacement i, width.
Opd(o, n, i, w) == [o |-> o, n |-> n, i |-> i, w |-> w]
Nil         == Opd("none", 0, 0, 0)
V(v, w)     == Opd("v", v, 0, w)
Imm(i, w)   == Opd("imm", 0, i, w)
Mem(v, i, w) == Opd("mem", v, i, w)
Slot(n, w)  == Opd("slot", n, 0, w)
Lab(n)      == Opd("lab", n, 0, 0)

\* An instruction; Op2 is the usual one, without condition, scale or obligation.
Full(op, d, a, b, cc, scale, mod, trap, id) ==
  [op |-> op, d |-> d, a |-> a, b |-> b, cc |-> cc, scale |-> scale,
   mod |-> mod, trap |-> trap, id |-> id]
Op2(op, d, a, b, id) == Full(op, d, a, b, "E", 0, FALSE, "", id)
Checked(op, d, a, b, trap, id) == Full(op, d, a, b, "E", 0, FALSE, trap, id)
Jcc(cc, l, id) == Full("JCC", Nil, Lab(l), Nil, cc, 0, FALSE, "", id)
Jmp(l, id)     == Op2("JMP", Nil, Lab(l), Nil, id)
Label(l, id)   == Op2("LABEL", Lab(l), Nil, Nil, id)
Test(v, id)    == Op2("TEST", V(v, 1), V(v, 1), Nil, id)

Emit(s, q) == [s EXCEPT !.code = @ \o q]
EmptySel(build) ==
  LET none == [i \in build.first .. build.first + Len(build.nodes) - 1 |-> -1]
  IN [code |-> <<>>, reg |-> none, brk |-> none, cont |-> none, nv |-> 0, nl |-> 0]

\* The register of a node, allocated on its first use.
Own(s, n) ==
  IF s.reg[n.id] >= 0 THEN s
  ELSE [s EXCEPT !.reg[n.id] = s.nv, !.nv = @ + 1]

\* As Cond, with the signed conditions for every operand.
CondSigned(k, t) == CASE k = "EQ" -> "E" [] k = "NE" -> "NE" [] k = "LT" -> "L"
                      [] k = "LE" -> "LE" [] k = "GT" -> "G" [] k = "GE" -> "GE"

Cond(k, t) ==
  CASE k = "EQ" -> "E"
    [] k = "NE" -> "NE"
    [] k = "LT" -> IF Signed(t) THEN "L" ELSE "B"
    [] k = "LE" -> IF Signed(t) THEN "LE" ELSE "BE"
    [] k = "GT" -> IF Signed(t) THEN "G" ELSE "A"
    [] k = "GE" -> IF Signed(t) THEN "GE" ELSE "AE"

-----------------------------------------------------------------------------
(* The code of one node, its operands selected: r gives their registers. *)

ConstValue(r, n) ==
  CASE n.k \in {"INT", "ENUM_VAL"} ->
         <<Op2("MOV", V(r[n.id], Width(n.t)), Imm(n.x, Width(n.t)), Nil, n.id)>>
    [] n.k = "BOOL" -> <<Op2("MOV", V(r[n.id], 1), Imm(n.x, 1), Nil, n.id)>>
    [] n.k = "NULL" -> <<Op2("MOV", V(r[n.id], 8), Imm(0, 8), Nil, n.id)>>
    [] n.k = "STR"  -> <<Op2("LEA", V(r[n.id], 8), Opd("str", n.x, 0, 8), Nil, n.id)>>

LocalAddr(r, n) == <<Op2("LEA", V(r[n.id], 8), Slot(n.x, 8), Nil, n.id)>>
GlobalAddr(r, n) == <<Op2("LEA", V(r[n.id], 8), Opd("glob", n.x, 0, 8), Nil, n.id)>>
FieldAddr(r, n) ==
  <<Op2("LEA", V(r[n.id], 8), Mem(r[n.a[1].id], n.x, 8), Nil, n.id)>>

\* A scale the address mode has takes one instruction; any other is
\* multiplied into the register of the index itself.
IndexAddr(r, n) ==
  LET v == V(r[n.id], 8)  vb == V(r[n.a[1].id], 8)  vi == V(r[n.a[2].id], 8)
      es == ElemSize(n.t)
  IN IF es \in {1, 2, 4, 8}
     THEN <<Full("LEA", v, vb, vi, "E", es, FALSE, "R0807", n.id)>>
     ELSE <<Op2("MOV", v, vb, Nil, n.id),
            Op2("IMUL", vi, Imm(es, 8), Nil, n.id),
            Checked("ADD", v, vi, Nil, "R0807", n.id)>>

Deref(r, n) ==
  <<Checked("MOV", V(r[n.id], 8), V(r[n.a[1].id], 8), Nil, "R0809", n.id)>>

Load(r, n) ==
  LET w == Width(n.t)
  IN <<Checked("MOV", V(r[n.id], w), Mem(r[n.a[1].id], 0, w), Nil,
               IF n.t.k = "bool" THEN "R0805" ELSE "", n.id)>>

Store(r, n) ==
  LET d == r[n.a[1].id]  v == r[n.a[2].id]  t == n.a[1].t  w == Width(t)
  IN IF Composite(t)
     THEN <<Op2("REP_MOVSB", Mem(d, 0, 8), Mem(v, 0, 8), Imm(t.size, 8), n.id)>>
     ELSE <<Op2("MOV", Mem(d, 0, w), V(v, w), Nil, n.id)>>

ArithOp == [ADD |-> "ADD", SUB |-> "SUB", MUL |-> "IMUL",
            BAND |-> "AND", BOR |-> "OR", BXOR |-> "XOR"]

BinaryArith(r, n) ==
  LET w == Width(n.t)
  IN <<Op2("MOV", V(r[n.id], w), V(r[n.a[1].id], w), Nil, n.id),
       Checked(ArithOp[n.k], V(r[n.id], w), V(r[n.a[2].id], w), Nil,
               IF n.k \in {"ADD", "SUB", "MUL"} THEN "R0802" ELSE "", n.id)>>

DivMod(r, n) ==
  LET w == Width(n.t)
  IN <<Op2("MOV", V(r[n.id], w), V(r[n.a[1].id], w), Nil, n.id),
       Full("IDIV", V(r[n.id], w), V(r[n.a[2].id], w), Nil, "E", 0,
            n.k = "MOD", "R0803", n.id)>>

Neg(r, n) ==
  LET w == Width(n.t)
  IN <<Op2("MOV", V(r[n.id], w), V(r[n.a[1].id], w), Nil, n.id),
       Checked("NEG", V(r[n.id], w), Nil, Nil, "R0802", n.id)>>

\* The count is the low byte of its operand.
Shift(r, n) ==
  LET w == Width(n.t)
      op == IF n.k = "SHL" THEN "SHL" ELSE IF Signed(n.t) THEN "SAR" ELSE "SHR"
  IN <<Op2("MOV", V(r[n.id], w), V(r[n.a[1].id], w), Nil, n.id),
       Checked(op, V(r[n.id], w), V(r[n.a[2].id], 1), Nil, "R0804", n.id)>>

Bnot(r, n) ==
  LET w == Width(n.t)
  IN <<Op2("MOV", V(r[n.id], w), V(r[n.a[1].id], w), Nil, n.id),
       Op2("NOT", V(r[n.id], w), Nil, Nil, n.id)>>

Lnot(r, n) ==
  <<Op2("MOV", V(r[n.id], 1), V(r[n.a[1].id], 1), Nil, n.id),
    Op2("XOR", V(r[n.id], 1), Imm(1, 1), Nil, n.id)>>

Compare(r, n) ==
  LET t == n.a[1].t  w == Width(t)  vl == r[n.a[1].id]  vr == r[n.a[2].id]
  IN IF t.k = "str"
     THEN <<Full("STRCMP", V(r[n.id], 1), V(vl, 8), V(vr, 8), Cond(n.k, t), 0,
                 FALSE, "", n.id)>>
     ELSE <<Op2("CMP", Nil, V(vl, w), V(vr, w), n.id),
            Full("SETCC", V(r[n.id], 1), Nil, Nil, Cond(n.k, t), 0, FALSE, "", n.id)>>

SliceEq(r, n) ==
  <<Full("SLICEEQ", V(r[n.id], 1), V(r[n.a[1].id], 8), V(r[n.a[2].id], 8), "E",
         ElemSize(n.a[1].t), FALSE, "", n.id)>>

Call(r, n) ==
  <<Op2("CALL", IF n.t.k = "void" THEN Nil ELSE V(r[n.id], 8),
        Opd("fn", n.x, 0, 8), Nil, n.id)>>

LenOf(r, n) ==
  <<Op2("MOV", V(r[n.id], 8),
        IF n.a[1].t.k = "array" THEN Imm(n.a[1].t.n, 8)
        ELSE Mem(r[n.a[1].id], 8, 8), Nil, n.id)>>

PtrOf(r, n) ==
  LET t == n.a[1].t  vo == r[n.a[1].id]
  IN CASE t.k = "array" /\ t.n = 0 -> <<Op2("MOV", V(r[n.id], 8), Imm(0, 8), Nil, n.id)>>
       [] t.k = "array" /\ t.n # 0 -> <<Op2("LEA", V(r[n.id], 8), Mem(vo, 0, 8), Nil, n.id)>>
       [] OTHER -> <<Op2("MOV", V(r[n.id], 8), Mem(vo, 0, 8), Nil, n.id)>>

\* A conversion extends by the signedness of its source where it widens, and
\* takes the low bits otherwise; its range check is added by TrapChecked.
Cast(r, n) ==
  LET st == n.a[1].t  ws == Width(st)  wt == Width(n.t)
      vo == r[n.a[1].id]  v == r[n.id]
      W(w) == IF w = 0 THEN 8 ELSE w
  IN IF n.t.k = "str" /\ st.k = "slice"
     THEN <<Checked("UTF8", V(v, 8), V(vo, 8), Nil, "R0806", n.id)>>
     ELSE IF wt > ws /\ ws > 0
     THEN <<Op2(IF Signed(st) THEN "MOVSX" ELSE "MOVZX", V(v, wt), V(vo, ws), Nil, n.id)>>
     ELSE <<Op2("MOV", V(v, W(wt)), V(vo, W(ws)), Nil, n.id)>>

Wrap(r, n) ==
  LET W(w) == IF w = 0 THEN 8 ELSE w
  IN <<Op2("MOV", V(r[n.id], W(Width(n.t))),
           V(r[n.a[1].id], W(Width(n.a[1].t))), Nil, n.id)>>

\* The offset is scaled in place.
PtrArith(r, n) ==
  LET v == V(r[n.id], 8)  vo == V(r[n.a[2].id], 8)  es == ElemSize(n.a[1].t)
  IN <<Op2("MOV", v, V(r[n.a[1].id], 8), Nil, n.id)>>
     \o (IF es # 1 THEN <<Op2("IMUL", vo, Imm(es, 8), Nil, n.id)>> ELSE <<>>)
     \o <<Checked(IF n.k = "PTR_ADD" THEN "ADD" ELSE "SUB", v, vo, Nil, "R0816", n.id)>>

PtrDiff(r, n) ==
  LET v == V(r[n.id], 8)
  IN <<Op2("MOV", v, V(r[n.a[1].id], 8), Nil, n.id),
       Op2("SUB", v, V(r[n.a[2].id], 8), Nil, n.id),
       Checked("PTRDIFF", v, Nil, Imm(ElemSize(n.a[1].t), 8), "R0810", n.id)>>

Zero(r, n) ==
  LET t == n.a[1].t
  IN <<Op2("REP_STOSB", Mem(r[n.a[1].id], 0, 8),
           Imm(IF t.size > 0 THEN t.size ELSE 1, 8), Nil, n.id)>>

-----------------------------------------------------------------------------
(* Selection with labels, anonymous registers and evaluation order. *)

\* A slice adds its scaled start to the data pointer, scaling the register
\* of the start itself, and subtracts that register from the end.
SliceOf(s, n) ==
  LET b == n.a[1]  start == n.a[2]  end == n.a[3]
      es == IF b.t.k \in {"slice", "array"} THEN ElemSize(b.t) ELSE 1
      has(m) == m.k # "NONE"
      data == V(s.nv, 8)  len == V(s.nv + 1, 8)  r == s.reg
      vb == r[b.id]
      trap == IF b.t.k = "str" THEN "R0808" ELSE "R0807"
      I(op, d, a) == <<Op2(op, d, a, Nil, n.id)>>
  IN Emit([s EXCEPT !.nv = @ + 2],
       I("MOV", data, Mem(vb, 0, 8))
       \o (IF has(start)
           THEN (IF es # 1 THEN I("IMUL", V(r[start.id], 8), Imm(es, 8)) ELSE <<>>)
                \o I("ADD", data, V(r[start.id], 8))
           ELSE <<>>)
       \o (IF has(end)
           THEN I("MOV", len, V(r[end.id], 8))
                \o (IF has(start) THEN I("SUB", len, V(r[start.id], 8)) ELSE <<>>)
           ELSE I("MOV", len, Mem(vb, 8, 8)))
       \o <<Full("SLICE", V(r[n.id], 8), data, len, "E", es, FALSE, trap, n.id)>>)

\* Nodes whose operands are selected first, in order, and whose code follows.
NodeCode(r, n) ==
  CASE n.k \in {"INT", "BOOL", "NULL", "STR", "ENUM_VAL"} -> ConstValue(r, n)
    [] n.k = "LOCAL" -> LocalAddr(r, n)
    [] n.k = "GLOBAL" -> GlobalAddr(r, n)
    [] n.k = "FIELD_ADDR" -> FieldAddr(r, n)
    [] n.k = "INDEX_ADDR" -> IndexAddr(r, n)
    [] n.k = "DEREF" -> Deref(r, n)
    [] n.k = "LOAD" -> Load(r, n)
    [] n.k = "STORE" -> Store(r, n)
    [] n.k \in DOMAIN ArithOp -> BinaryArith(r, n)
    [] n.k \in {"DIV", "MOD"} -> DivMod(r, n)
    [] n.k = "NEG" -> Neg(r, n)
    [] n.k \in {"SHL", "SHR"} -> Shift(r, n)
    [] n.k = "BNOT" -> Bnot(r, n)
    [] n.k = "LNOT" -> Lnot(r, n)
    [] n.k \in {"EQ", "NE", "LT", "LE", "GT", "GE"} -> Compare(r, n)
    [] n.k = "SLICE_EQ" -> SliceEq(r, n)
    [] n.k = "LEN" -> LenOf(r, n)
    [] n.k = "PTR" -> PtrOf(r, n)
    [] n.k = "CAST" -> Cast(r, n)
    [] n.k = "WRAP" -> Wrap(r, n)
    [] n.k \in {"PTR_ADD", "PTR_SUB"} -> PtrArith(r, n)
    [] n.k = "PTR_DIFF" -> PtrDiff(r, n)
    [] n.k = "ZERO" -> Zero(r, n)

RECURSIVE Select(_, _)

SelectAll(s, q) == Fold(Select, s, q)

\* && and ||: the right operand is evaluated only past the left one.
LandLor(s, n) ==
  LET right == s.nl  end == s.nl + 1  lor == n.k = "LOR"
      s1 == Select(Own([s EXCEPT !.nl = @ + 2], n), n.a[1])
      v  == s1.reg[n.id]
      s2 == Emit(s1, <<Test(s1.reg[n.a[1].id], n.id),
                       Jcc(IF lor THEN "E" ELSE "NE", right, n.id),
                       Op2("MOV", V(v, 1), Imm(IF lor THEN 1 ELSE 0, 1), Nil, n.id),
                       Jmp(end, n.id), Label(right, n.id)>>)
      s3 == Select(s2, n.a[2])
  IN Emit(s3, <<Op2("MOV", V(v, 1), V(s3.reg[n.a[2].id], 1), Nil, n.id),
                Label(end, n.id)>>)

SelectOf(s, n) ==
  LET other == s.nl  end == s.nl + 1  w == Width(n.t)
      s1 == Select(Own([s EXCEPT !.nl = @ + 2], n), n.a[1])
      v  == V(s1.reg[n.id], w)
      s2 == Select(Emit(s1, <<Test(s1.reg[n.a[1].id], n.id), Jcc("E", other, n.id)>>),
                   n.a[2])
      s3 == Emit(s2, <<Op2("MOV", v, V(s2.reg[n.a[2].id], w), Nil, n.id),
                       Jmp(end, n.id), Label(other, n.id)>>)
      s4 == Select(s3, n.a[3])
  IN Emit(s4, <<Op2("MOV", v, V(s4.reg[n.a[3].id], w), Nil, n.id), Label(end, n.id)>>)

SelectCall(s, n) ==
  LET s1 == SelectAll(s, n.a)
      s2 == IF n.t.k = "void" THEN s1 ELSE Own(s1, n)
  IN Emit(s2, Call(s2.reg, n))

SelectIf(s, n) ==
  LET other == s.nl  end == s.nl + 1
      s1 == Select([s EXCEPT !.nl = @ + 2], n.a[1])
      s2 == Select(Emit(s1, <<Test(s1.reg[n.a[1].id], n.id), Jcc("E", other, n.id)>>),
                   n.a[2])
      s3 == Emit(s2, <<Jmp(end, n.id), Label(other, n.id)>>)
  IN Emit(Select(s3, n.a[3]), <<Label(end, n.id)>>)

SelectWhile(s, n) ==
  LET loop == s.nl  exit == s.nl + 1
      s0 == [s EXCEPT !.nl = @ + 2, !.brk[n.id] = exit, !.cont[n.id] = loop]
      s1 == Select(Emit(s0, <<Label(loop, n.id)>>), n.a[1])
      s2 == Emit(s1, <<Test(s1.reg[n.a[1].id], n.id), Jcc("E", exit, n.id)>>)
  IN Emit(Select(s2, n.a[2]), <<Jmp(loop, n.id), Label(exit, n.id)>>)

\* Operands: initialisation, condition, step, body, each but the last optional;
\* continue goes to the step, to the condition where there is no step.
SelectFor(s, n) ==
  LET loop == s.nl  cont == s.nl + 1  exit == s.nl + 2
      has(i) == n.a[i].k # "NONE"
      s0 == [s EXCEPT !.nl = @ + 3, !.brk[n.id] = exit,
                      !.cont[n.id] = IF has(3) THEN cont ELSE loop]
      s1 == Emit(Select(s0, n.a[1]), <<Label(loop, n.id)>>)
      s2 == Select(s1, n.a[2])
      s3 == IF has(2)
            THEN Emit(s2, <<Test(s2.reg[n.a[2].id], n.id), Jcc("E", exit, n.id)>>)
            ELSE s2
      s4 == Select(s3, n.a[4])
      s5 == IF has(3) THEN Select(Emit(s4, <<Label(cont, n.id)>>), n.a[3]) ELSE s4
  IN Emit(s5, <<Jmp(loop, n.id), Label(exit, n.id)>>)

\* Operands: the selector, the cases, and a default last if there is one.
\* All comparisons precede all bodies; a switch has no continue label.
SelectSwitch(s, n) ==
  LET end == s.nl  dflt == s.nl + 1
      arms == Tail(n.a)
      cases == SelectSeq(arms, LAMBDA c : c.k = "CASE")
      default == SelectSeq(arms, LAMBDA c : c.k = "DEFAULT")
      s0 == Select([s EXCEPT !.nl = @ + 2, !.brk[n.id] = end, !.cont[n.id] = -1], n.a[1])
      first == s0.nl
      w == Width(n.a[1].t)
      s1 == [s0 EXCEPT !.nl = @ + Len(cases)]
      chain == Concat([i \in DOMAIN cases |->
                 <<Op2("CMP", Nil, V(s1.reg[n.a[1].id], w), Imm(cases[i].x, w), cases[i].id),
                   Jcc("E", first + i - 1, cases[i].id)>>])
      s2 == Emit(s1, chain \o
                 <<IF default # <<>> THEN Jmp(dflt, default[1].id) ELSE Jmp(end, n.id)>>)
      Body(t, i) == Select(Emit(t, <<Label(first + i - 1, cases[i].id)>>), cases[i].a[1])
      s3 == Fold(Body, s2, [i \in DOMAIN cases |-> i])
      s4 == IF default # <<>>
            THEN Select(Emit(s3, <<Label(dflt, default[1].id)>>), default[1].a[1])
            ELSE s3
  IN Emit(s4, <<Label(end, n.id)>>)

\* A break or continue of no construct that takes one is dropped.
SelectJump(s, n) ==
  LET l == IF n.x < 0 THEN -1 ELSE IF n.k = "BREAK" THEN s.brk[n.x] ELSE s.cont[n.x]
  IN IF l >= 0 THEN Emit(s, <<Jmp(l, n.id)>>) ELSE s

SelectReturn(s, n) ==
  LET s1 == SelectAll(s, n.a)
  IN Emit(s1, <<Op2("RET", Nil, IF n.a = <<>> THEN Nil ELSE V(s1.reg[n.a[1].id], 8),
                    Nil, n.id)>>)

\* x is the slot, its type is the node's.
SelectLocalDecl(s, n) ==
  LET s1 == Select(s, n.a[1])  v == s1.reg[n.a[1].id]  w == Width(n.t)
  IN Emit(s1, IF Composite(n.t)
              THEN <<Op2("REP_MOVSB", Slot(n.x, 8), V(v, 8), Imm(n.t.size, 8), n.id)>>
              ELSE <<Op2("MOV", Slot(n.x, w), V(v, w), Nil, n.id)>>)

\* A call that does not return ends its block.
SelectCallTerm(s, n) ==
  Emit(SelectAll(s, n.a), <<Op2("CALL", Nil, Opd("fn", n.x, 0, 8), Nil, n.id)>>)

\* x is the user's code, or the name of the language's.
SelectTrap(s, n) ==
  Emit(s, <<Checked("TRAP", Nil, Imm(IF n.t.k = "int" THEN n.x ELSE 0, 8), Nil,
                    IF n.t.k = "int" THEN "user" ELSE n.x, n.id)>>)

\* Selects a statement or a value.
Select(s, n) ==
  CASE n.k \in {"NONE", "EMPTY"} -> s
    [] n.k \in {"BLOCK", "EXPR_STMT"} -> SelectAll(s, n.a)
    [] n.k = "LOCAL_DECL" -> SelectLocalDecl(s, n)
    [] n.k = "IF" -> SelectIf(s, n)
    [] n.k = "WHILE" -> SelectWhile(s, n)
    [] n.k = "FOR" -> SelectFor(s, n)
    [] n.k = "SWITCH" -> SelectSwitch(s, n)
    [] n.k \in {"BREAK", "CONTINUE"} -> SelectJump(s, n)
    [] n.k = "RETURN" -> SelectReturn(s, n)
    [] n.k = "CALL_TERM" -> SelectCallTerm(s, n)
    [] n.k = "TRAP" -> SelectTrap(s, n)
    [] n.k \in {"LAND", "LOR"} -> LandLor(s, n)
    [] n.k = "SELECT" -> SelectOf(s, n)
    [] n.k = "CALL" -> SelectCall(s, n)
    [] n.k = "SLICE" -> SliceOf(SelectAll(Own(s, n), n.a), n)
    [] n.k \in {"STORE", "ZERO"} ->
         LET t == SelectAll(s, n.a) IN Emit(t, NodeCode(t.reg, n))
    [] OTHER -> LET t == SelectAll(Own(s, n), n.a) IN Emit(t, NodeCode(t.reg, n))

\* The stream of every function, each after its marker; registers and labels
\* are numbered through the whole build.
SelectFunction(s, f, i) ==
  Select(Emit(s, <<Op2("FUNCTION", Nil, Imm(i, 8), Nil, -1)>>), f.body)

IselSelect(build) ==
  Fold(LAMBDA s, i : SelectFunction(s, build.fns[i], i), EmptySel(build),
           [i \in DOMAIN build.fns |-> i])
=============================================================================
