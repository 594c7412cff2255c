------------------------------ MODULE CallLower ------------------------------
(***************************************************************************)
(* From selected to physical instructions: stack frames (backend/frame.c), *)
(* register allocation and calls (backend/call.c).  The slots of a         *)
(* function lie below RBP, each aligned; the stream gets the steps that    *)
(* open and close the frame, and slot operands become displacements.       *)
(* Every virtual register then lives in a spill slot of its own under the  *)
(* frame's slots; an instruction loads what it needs into R10 and R11 and  *)
(* stores its result back.  Under the spill slots lie the images of the    *)
(* slices the function makes, and at the bottom the area for outgoing      *)
(* arguments.                                                              *)
(***************************************************************************)
EXTENDS Isel

-----------------------------------------------------------------------------
(* frame.c: slots and frames                                               *)

FrameBase == -1

AlignUp(n, a) == ((n + a - 1) \div a) * a

SlotSize(t)  == IF t.size > 0 THEN t.size ELSE 8
SlotAlign(t) == IF t.align > 0 THEN t.align ELSE 8

\* Places one slot under the ones before it, padded so that its own address
\* is aligned.
PlaceSlot(l, t) ==
  LET size == SlotSize(t)  align == SlotAlign(t)
      pad == (align - ((l.cursor + size) % align)) % align
  IN [cursor |-> l.cursor + pad + size,
      offs   |-> Append(l.offs, -(l.cursor + pad + size)),
      sizes  |-> Append(l.sizes, size)]

LayoutFunction(f) ==
  LET l == Fold(PlaceSlot, [cursor |-> 0, offs |-> <<>>, sizes |-> <<>>],
                    IF f.ext THEN <<>> ELSE f.slots)
  IN [offs |-> l.offs, sizes |-> l.sizes, frame |-> AlignUp(l.cursor, 16),
      noreturn |-> f.noreturn, body |-> ~f.ext]

RewriteOperand(op, l) ==
  IF op.o = "slot" /\ op.n + 1 \in DOMAIN l.offs
  THEN Mem(FrameBase, l.offs[op.n + 1], op.w) ELSE op

RewriteSlots(q, l) ==
  [q EXCEPT !.d = RewriteOperand(@, l), !.a = RewriteOperand(@, l),
            !.b = RewriteOperand(@, l)]

Step(f, i) == [f |-> f, i |-> i, q |-> Op2("STEP", Nil, Nil, Nil, -1)]
BodyOf(q)  == [f |-> "BODY", i |-> 0, q |-> q]

\* The framed stream of one function: its layout and its instructions.
FrameFunction(f, code) ==
  LET l == LayoutFunction(f)
      Open == IF ~l.body THEN <<>>
              ELSE <<Step("PUSH_RBP", 0), Step("MOV_RBP_RSP", 0)>>
                   \o (IF l.frame > 0 THEN <<Step("SUB_RSP", l.frame)>> ELSE <<>>)
      Close(q) == IF l.body /\ ~l.noreturn /\ q.op = "RET"
                  THEN <<Step("MOV_RSP_RBP", 0), Step("POP_RBP", 0)>> ELSE <<>>
  IN [layout |-> l,
      code |-> Open \o Concat([i \in DOMAIN code |->
                 Close(code[i]) \o <<BodyOf(RewriteSlots(code[i], l))>>])]

\* The selected stream cut at its function markers.
Regions(code) ==
  LET marks == {i \in DOMAIN code : code[i].op = "FUNCTION"}
      End(i) == IF \E j \in marks : j > i
                THEN (CHOOSE j \in marks : j > i /\ \A k \in marks : k > i => k >= j) - 1
                ELSE Len(code)
      starts == SetToSortSeq(marks, <)
  IN [k \in DOMAIN starts |-> SubSeq(code, starts[k] + 1, End(starts[k]))]

FrameBuild(build, code) ==
  LET r == Regions(code)
  IN [i \in DOMAIN build.fns |-> FrameFunction(build.fns[i], r[i])]

-----------------------------------------------------------------------------
(* call.c: spill slots and calls                                           *)

\* Physical operands: a register and width, an address, an immediate, a symbol.
POpd(o, r, n, i, w) == [o |-> o, r |-> r, n |-> n, i |-> i, w |-> w]
PNil == POpd("none", "", 0, 0, 0)
Reg(r, w)    == POpd("reg", r, 0, 0, w)
PImm(i, w)   == POpd("imm", "", 0, i, w)
PMem(r, i, w) == POpd("mem", r, 0, i, w)
Sym(o, n)    == POpd(o, "", n, 0, 8)

NoIns == Op2("NONE", Nil, Nil, Nil, -1)

\* A physical instruction; p is the instruction a pseudo marker stands for.
Phys(op, d, a, b, id) ==
  [op |-> op, d |-> d, a |-> a, b |-> b, cc |-> "E", scale |-> 0, mod |-> FALSE,
   imm |-> 0, id |-> id, p |-> NoIns]
Marker(q) == [Phys("PSEUDO", PNil, PNil, PNil, q.id) EXCEPT !.p = q]
StepI(op, imm, id) == [Phys(op, PNil, PNil, PNil, id) EXCEPT !.imm = imm]
StepR(op, r, id) == Phys(op, Reg(r, 8), PNil, PNil, id)

Shadow == 32

Largest(S) == IF S = {} THEN -1 ELSE CHOOSE x \in S : \A y \in S : y <= x

-----------------------------------------------------------------------------
\* The register of each node: the least one written by an instruction of it.
VregMap(build, framed) ==
  LET q == Concat([i \in DOMAIN framed |-> framed[i].code])
      writes == {<<q[i].q.id, q[i].q.d.n>> :
                   i \in {j \in DOMAIN q : q[j].f = "BODY" /\ q[j].q.d.o = "v"}}
      Of(id) == {w[2] : w \in {x \in writes : x[1] = id}}
  IN [id \in build.first .. build.first + Len(build.nodes) - 1 |->
        IF Of(id) = {} THEN -1 ELSE CHOOSE v \in Of(id) : \A u \in Of(id) : v <= u]

\* What a function's stream needs of its frame.
AnalyzeRegion(build, f, code) ==
  LET body == SelectSeq(code, LAMBDA x : x.f = "BODY")
      opds == UNION {{body[i].q.d, body[i].q.a, body[i].q.b} : i \in DOMAIN body}
      ops  == {body[i].q.op : i \in DOMAIN body}
      calls == {i \in DOMAIN body : body[i].q.op = "CALL"}
      Beyond(i) == LET n == Len(NodeOf(build, body[i].q.id).a)
                   IN IF n > 4 THEN n - 4 ELSE 0
  IN [vregs  |-> Largest({o.n : o \in {p \in opds : p.o \in {"v", "mem"}}}) + 1,
      slices |-> Len(SelectSeq(body, LAMBDA x : x.q.op = "SLICE")),
      calls  |-> calls # {},
      stackargs |-> Largest({0} \cup {Beyond(i) : i \in calls}),
      movs   |-> "REP_MOVSB" \in ops,
      stos   |-> "REP_STOSB" \in ops,
      composite |-> \E i \in 1 .. f.nparams : Composite(f.slots[i])]

\* The reservation keeps RSP aligned at calls once the saved registers are pushed.
ComputePlan(layout, st) ==
  LET rdi == st.movs \/ st.stos \/ st.composite
      rsi == st.movs \/ st.composite
      saved == (IF rdi THEN 8 ELSE 0) + (IF rsi THEN 8 ELSE 0)
      spill == 8 * st.vregs
      base == layout.frame + spill + 16 * st.slices
              + (IF st.calls THEN Shadow ELSE 0) + 8 * st.stackargs
      total == AlignUp(base, 16)
  IN [frame |-> layout.frame, spill |-> spill, slices |-> st.slices,
      rdi |-> rdi, rsi |-> rsi, saved |-> saved,
      total |-> IF (total + saved) % 16 # 0 THEN total + 8 ELSE total]

SpillMem(pl, v) == PMem("rbp", -(pl.frame + 8 * (v + 1)), 8)
PairMem(pl, k, disp) == PMem("rbp", -(pl.frame + pl.spill + 16 * (k + 1)) + disp, 8)

-----------------------------------------------------------------------------
W8(w) == IF w > 0 THEN w ELSE 8

\* An operand read: the loads it needs into a scratch register, and its form.
LowerSource(pl, op, scratch, id) ==
  LET load == <<Phys("MOV", Reg(scratch, 8), SpillMem(pl, op.n), PNil, id)>>
  IN CASE op.o = "none" -> [c |-> <<>>, x |-> PNil]
       [] op.o = "v"    -> [c |-> load, x |-> Reg(scratch, W8(op.w))]
       [] op.o = "imm"  -> [c |-> <<>>, x |-> PImm(op.i, op.w)]
       [] op.o = "mem" /\ op.n = FrameBase -> [c |-> <<>>, x |-> PMem("rbp", op.i, op.w)]
       [] op.o = "mem" /\ op.n # FrameBase -> [c |-> load, x |-> PMem(scratch, op.i, op.w)]
       [] op.o \in {"glob", "str", "fn", "lab"} -> [c |-> <<>>, x |-> Sym(op.o, op.n)]

\* An operand written: loads, form, and the register to store back (-1: none).
LowerDest(pl, op, id) ==
  CASE op.o = "v" -> [c |-> <<>>, x |-> Reg("r10", W8(op.w)), v |-> op.n]
    [] op.o = "mem" /\ op.n = FrameBase ->
         [c |-> <<>>, x |-> PMem("rbp", op.i, op.w), v |-> -1]
    [] op.o = "mem" /\ op.n # FrameBase ->
         [c |-> <<Phys("MOV", Reg("r10", 8), SpillMem(pl, op.n), PNil, id)>>,
          x |-> PMem("r10", op.i, op.w), v |-> -1]
    [] op.o = "lab" -> [c |-> <<>>, x |-> Sym("lab", op.n), v |-> -1]
    [] OTHER -> [c |-> <<>>, x |-> PNil, v |-> -1]

\* A slot always holds the zero-extended result.
StoreResult(pl, v, w, id) ==
  IF v < 0 THEN <<>>
  ELSE (IF w < 4 THEN <<Phys("MOVZX", Reg("r10", 8), Reg("r10", w), PNil, id)>> ELSE <<>>)
       \o <<Phys("MOV", SpillMem(pl, v), Reg("r10", 8), PNil, id)>>

\* The dividend's high half is its sign, by the width; the remainder is read
\* from RDX at every width.
Dividend(w, id) ==
  CASE w = 8 -> <<Phys("MOV", Reg("rdx", 8), Reg("rax", 8), PNil, id),
                  Phys("SAR", Reg("rdx", 8), PImm(63, 8), PNil, id)>>
    [] w \in {2, 4} -> <<Phys("MOVSX", Reg("rdx", 8), Reg("rax", w), PNil, id)>>
    [] OTHER -> <<Phys("MOVSX", Reg("rax", 2), Reg("rax", 1), PNil, id)>>

LowerIdiv(pl, q) ==
  LET w == W8(q.d.w)
      src == LowerSource(pl, q.a, "r10", q.id)
  IN <<Phys("MOV", Reg("rax", w), SpillMem(pl, q.d.n), PNil, q.id)>>
     \o Dividend(w, q.id) \o src.c
     \o <<[Phys("IDIV", Reg("rax", w), src.x, PNil, q.id) EXCEPT !.mod = q.mod],
          Phys("MOV", Reg("r10", w), Reg(IF q.mod THEN "rdx" ELSE "rax", w), PNil, q.id)>>
     \o StoreResult(pl, q.d.n, w, q.id)

LowerShift(pl, q) ==
  LET w == W8(q.d.w)
      src == LowerSource(pl, q.a, "rcx", q.id)
      count == IF q.a.o = "imm" THEN src.x ELSE Reg("rcx", 1)
  IN <<Phys("MOV", Reg("r10", 8), SpillMem(pl, q.d.n), PNil, q.id)>> \o src.c
     \o <<Phys(q.op, Reg("r10", w), count, PNil, q.id)>>
     \o StoreResult(pl, q.d.n, w, q.id)

TwoAddress == {"ADD", "SUB", "IMUL", "AND", "OR", "XOR", "NEG", "NOT"}

\* TEST writes its first operand's slot back from R10, which it never loads:
\* it relies on R10 still holding the value just computed.
LowerGeneric(pl, q) ==
  LET d == IF q.op \in TwoAddress
           THEN [c |-> <<Phys("MOV", Reg("r10", 8), SpillMem(pl, q.d.n), PNil, q.id)>>,
                 x |-> Reg("r10", W8(q.d.w)), v |-> q.d.n]
           ELSE LowerDest(pl, q.d, q.id)
      usesR10 == q.d.o = "v" \/ (q.d.o = "mem" /\ q.d.n # FrameBase)
      s1 == LowerSource(pl, q.a, IF usesR10 THEN "r11" ELSE "r10", q.id)
      s2 == LowerSource(pl, q.b, IF usesR10 THEN "r10" ELSE "r11", q.id)
      same == q.a.o = "v" /\ q.b.o = "v" /\ q.a.n = q.b.n
  IN d.c \o s1.c \o s2.c
     \o <<[Phys(q.op, d.x, s1.x, IF same THEN s1.x ELSE s2.x, q.id)
             EXCEPT !.cc = q.cc, !.scale = q.scale, !.mod = q.mod]>>
     \o StoreResult(pl, d.v, W8(q.d.w), q.id)

\* As LowerSetcc, through RAX.
SetccInRax(pl, q) ==
  <<[Phys("SETCC", Reg("rax", 1), PNil, PNil, q.d.n) EXCEPT !.cc = q.cc],
    Phys("MOVZX", Reg("rax", 8), Reg("rax", 1), PNil, q.id),
    Phys("MOV", SpillMem(pl, q.d.n), Reg("rax", 8), PNil, q.id)>>

\* The instruction carries the register's number where its node belongs.
LowerSetcc(pl, q) ==
  <<[Phys("SETCC", Reg("r10", 1), PNil, PNil, q.d.n) EXCEPT !.cc = q.cc]>>
  \o StoreResult(pl, q.d.n, 1, q.id)

AddrTo(pl, r, op, id) ==
  IF op.n = FrameBase THEN <<Phys("LEA", Reg(r, 8), PMem("rbp", op.i, 8), PNil, id)>>
  ELSE <<Phys("MOV", Reg(r, 8), SpillMem(pl, op.n), PNil, id)>>
       \o (IF op.i # 0 THEN <<Phys("ADD", Reg(r, 8), PImm(op.i, 8), PNil, id)>> ELSE <<>>)

LowerRepMovsb(pl, q) ==
  AddrTo(pl, "rdi", q.d, q.id) \o AddrTo(pl, "rsi", q.a, q.id)
  \o <<Phys("MOV", Reg("rcx", 8), PImm(q.b.i, 8), PNil, q.id),
       Phys("REP_MOVSB", Reg("rdi", 8), Reg("rsi", 8), Reg("rcx", 8), q.id)>>

LowerRepStosb(pl, q) ==
  AddrTo(pl, "rdi", q.d, q.id)
  \o <<Phys("MOV", Reg("rcx", 8), PImm(q.a.i, 8), PNil, q.id),
       Phys("XOR", Reg("rax", 4), Reg("rax", 4), PNil, q.id),
       Phys("REP_STOSB", Reg("rdi", 8), Reg("rcx", 8), Reg("rax", 8), q.id)>>

\* The image of the k-th slice of the function, and its address as the value.
LowerSlice(pl, q, k) ==
  LET M(d, a) == Phys("MOV", d, a, PNil, q.id)
  IN <<Phys("LEA", Reg("r10", 8), PairMem(pl, k, 0), PNil, q.id),
       M(SpillMem(pl, q.d.n), Reg("r10", 8)),
       M(Reg("r11", 8), SpillMem(pl, q.a.n)), M(PairMem(pl, k, 0), Reg("r11", 8)),
       M(Reg("r11", 8), SpillMem(pl, q.b.n)), M(PairMem(pl, k, 8), Reg("r11", 8))>>

ArgRegister == <<"rcx", "rdx", "r8", "r9">>

\* Arguments beyond the fourth go above the callee's home area.
LowerCall(pl, vmap, build, q) ==
  LET args == NodeOf(build, q.id).a
      M(d, a) == Phys("MOV", d, a, PNil, q.id)
      Arg(i) == LET spill == SpillMem(pl, vmap[args[i].id])
                IN IF i <= 4 THEN <<M(Reg(ArgRegister[i], 8), spill)>>
                   ELSE <<M(Reg("r10", 8), spill),
                          M(PMem("rsp", Shadow + 8 * (i - 5), 8), Reg("r10", 8))>>
  IN Concat([i \in DOMAIN args |-> Arg(i)])
     \o <<Phys("CALL", PNil, Sym("fn", q.a.n), PNil, q.id)>>
     \o (IF q.d.o = "v"
         THEN <<M(Reg("r10", 8), Reg("rax", 8)), M(SpillMem(pl, q.d.n), Reg("r10", 8))>>
         ELSE <<>>)

-----------------------------------------------------------------------------
\* Incoming arguments are copied into the parameters' slots; these
\* instructions carry the slot's index where a node's identifier belongs.
ParamCopy(f, layout, i) ==
  LET id == i - 1  off == layout.offs[i]  size == layout.sizes[i]
      M(d, a) == Phys("MOV", d, a, PNil, id)
      incoming == M(Reg("r10", 8), PMem("rbp", 8 * (i - 1) + 16, 8))
      Copy(src) == <<Phys("LEA", Reg("rdi", 8), PMem("rbp", off, 8), PNil, id),
                     M(Reg("rsi", 8), Reg(src, 8)), M(Reg("rcx", 8), PImm(size, 8)),
                     Phys("REP_MOVSB", Reg("rdi", 8), Reg("rsi", 8), Reg("rcx", 8), id)>>
  IN CASE Composite(f.slots[i]) /\ i <= 4 -> Copy(ArgRegister[i])
       [] Composite(f.slots[i]) /\ i > 4 -> <<incoming>> \o Copy("r10")
       [] ~Composite(f.slots[i]) /\ i <= 4 ->
            <<M(PMem("rbp", off, size), Reg(ArgRegister[i], size))>>
       [] ~Composite(f.slots[i]) /\ i > 4 ->
            <<incoming, M(PMem("rbp", off, size), Reg("r10", size))>>

Prologue(pl) ==
  <<StepI("PUSH_RBP", 0, -1), StepI("MOV_RBP_RSP", 0, -1)>>
  \o (IF pl.total > 0 THEN <<StepI("SUB_RSP", pl.total, -1)>> ELSE <<>>)
  \o (IF pl.rsi THEN <<StepR("PUSH_REG", "rsi", -1)>> ELSE <<>>)
  \o (IF pl.rdi THEN <<StepR("PUSH_REG", "rdi", -1)>> ELSE <<>>)

\* As EpilogueRestore, with the registers popped in the order of the pushes.
EpilogueInOrder(pl) ==
  <<StepI("MOV_RSP_RBP", 0, -1)>>
  \o (IF pl.saved > 0
      THEN <<StepI("SUB_RSP", pl.total + pl.saved, -1)>>
           \o (IF pl.rsi THEN <<StepR("POP_REG", "rsi", -1)>> ELSE <<>>)
           \o (IF pl.rdi THEN <<StepR("POP_REG", "rdi", -1)>> ELSE <<>>)
           \o <<StepI("ADD_RSP", pl.total, -1)>>
      ELSE <<>>)
  \o <<StepI("POP_RBP", 0, -1)>>

EpilogueRestore(pl) ==
  <<StepI("MOV_RSP_RBP", 0, -1)>>
  \o (IF pl.saved > 0
      THEN <<StepI("SUB_RSP", pl.total + pl.saved, -1)>>
           \o (IF pl.rdi THEN <<StepR("POP_REG", "rdi", -1)>> ELSE <<>>)
           \o (IF pl.rsi THEN <<StepR("POP_REG", "rsi", -1)>> ELSE <<>>)
           \o <<StepI("ADD_RSP", pl.total, -1)>>
      ELSE <<>>)
  \o <<StepI("POP_RBP", 0, -1)>>

\* The value is loaded into RAX while RBP still addresses the frame.
LowerRet(pl, q, pending) ==
  (IF q.a.o = "v" THEN <<Phys("MOV", Reg("rax", 8), SpillMem(pl, q.a.n), PNil, q.id)>>
                  ELSE <<>>)
  \o (IF pending THEN EpilogueRestore(pl) ELSE <<>>)
  \o <<Phys("RET", PNil, PNil, PNil, q.id)>>

\* Lowers one framed instruction; k counts the slices lowered so far.
LowerBody(pl, vmap, build, q, k, pending) ==
  CASE q.op \in {"STRCMP", "SLICEEQ", "UTF8", "PTRDIFF", "TRAP"} -> <<Marker(q)>>
    [] q.op = "LABEL" -> <<Phys("LABEL", Sym("lab", q.d.n), PNil, PNil, q.id)>>
    [] q.op \in {"JMP", "JCC"} ->
         <<[Phys(q.op, PNil, Sym("lab", q.a.n), PNil, q.id) EXCEPT !.cc = q.cc]>>
    [] q.op = "CALL" -> LowerCall(pl, vmap, build, q)
    [] q.op = "RET" -> LowerRet(pl, q, pending)
    [] q.op = "REP_MOVSB" -> LowerRepMovsb(pl, q)
    [] q.op = "REP_STOSB" -> LowerRepStosb(pl, q)
    [] q.op = "SLICE" -> <<Marker(q)>> \o LowerSlice(pl, q, k)
    [] q.op = "IDIV" -> LowerIdiv(pl, q)
    [] q.op \in {"SHL", "SHR", "SAR"} -> LowerShift(pl, q)
    [] q.op = "SETCC" -> LowerSetcc(pl, q)
    [] OTHER -> LowerGeneric(pl, q)

\* The frame's closing steps wait for the RET they precede.
LowerStep(pl, vmap, build, s, x) ==
  CASE x.f = "MOV_RSP_RBP" -> [s EXCEPT !.pending = TRUE]
    [] x.f = "POP_RBP" /\ ~s.pending -> [s EXCEPT !.code = Append(@, StepI("POP_RBP", 0, -1))]
    [] x.f = "BODY" -> [code |-> s.code \o LowerBody(pl, vmap, build, x.q, s.k, s.pending),
                        k |-> IF x.q.op = "SLICE" THEN s.k + 1 ELSE s.k,
                        pending |-> s.pending /\ x.q.op # "RET"]
    [] OTHER -> s

LowerFunction(build, vmap, f, fr) ==
  LET pl == ComputePlan(fr.layout, AnalyzeRegion(build, f, fr.code))
      open == IF f.ext THEN <<>>
              ELSE Prologue(pl)
                   \o Concat([i \in 1 .. f.nparams |-> ParamCopy(f, fr.layout, i)])
      body == Fold(LAMBDA s, x : LowerStep(pl, vmap, build, s, x),
                       [code |-> <<>>, k |-> 0, pending |-> FALSE],
                       IF f.ext THEN <<>> ELSE fr.code).code
  IN [plan |-> pl, code |-> open \o body]

CallBuild(build, framed) ==
  LET vmap == VregMap(build, framed)
  IN [i \in DOMAIN build.fns |-> LowerFunction(build, vmap, build.fns[i], framed[i])]
=============================================================================
