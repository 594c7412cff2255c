----------------------------- MODULE MCBackend -----------------------------
(***************************************************************************)
(* Programs of the IR, compiled by the model of the code generator and run *)
(* on the model of the processor, each on its own small set of inputs: the *)
(* arguments of its first function and the bytes of its one constant.      *)
(***************************************************************************)
EXTENDS IrRef

\* Which programs are compiled: "sound", or "stores" for the one on which the
\* generated code departs from the contract of the IR.
CONSTANT Programs

\* What is compared: how a program becomes an image, and what it means when
\* its first function is called with an input.
CONSTANTS CodeGenerator(_), Interpreter(_, _)

VARIABLES prog, input, cpu
vars == <<prog, input, cpu>>

-----------------------------------------------------------------------------
(* Where the stack ends, and the constant's pointer and length, its bytes, *)
(* and memory end.                                                         *)

StackTop == 2048
PairAt   == 2048
BytesFrom == 2072
MemEnd   == 2111

-----------------------------------------------------------------------------
(* Writing programs. *)

C(t, v)        == Nd("INT", t, <<>>, v)
L(i, t)        == Nd("LOCAL", t, <<>>, i)
Ld(a, t)       == Nd("LOAD", t, <<a>>, 0)
Get(i, t)      == Ld(L(i, t), t)
Bin(k, t, a, b) == Nd(k, t, <<a, b>>, 0)
Un(k, t, a)    == Nd(k, t, <<a>>, 0)
Do(e)          == Nd("EXPR_STMT", TVoid, <<e>>, 0)
Set(d, v)      == Do(Nd("STORE", TVoid, <<d, v>>, 0))
Let(i, t, v)   == Nd("LOCAL_DECL", t, <<v>>, i)
Ret(e)         == Nd("RETURN", TVoid, <<e>>, 0)
Blk(q)         == Nd("BLOCK", TVoid, q, 0)
IfElse(c, a, b) == Nd("IF", TVoid, <<c, a, b>>, 0)
Loop(c, b)     == Nd("WHILE", TVoid, <<c, b>>, 0)
For(i, c, s, b) == Nd("FOR", TVoid, <<i, c, s, b>>, 0)
Break          == Nd("BREAK", TVoid, <<>>, -1)
Continue       == Nd("CONTINUE", TVoid, <<>>, -1)
Switch(q)      == Nd("SWITCH", TVoid, q, 0)
Case(v, b)     == Nd("CASE", TVoid, <<b>>, v)
Default(b)     == Nd("DEFAULT", TVoid, <<b>>, 0)
CallOf(f, t, q) == Nd("CALL", t, q, f)
Casts(t, e)    == Nd("CAST", t, <<e>>, "R0801")
Turns(t, e)    == Nd("CAST", t, <<e>>, "")
Wraps(t, e)    == Un("WRAP", t, e)
Index(t, a, i) == Nd("INDEX_ADDR", TPtr(t.size), <<a, i>>, 0)
Field(a, off)  == Nd("FIELD_ADDR", TPtr(8), <<a>>, off)
At0(p, t)      == Nd("DEREF", t, <<p>>, 0)
Part(b, t, lo, hi) == Nd("SLICE", t, <<b, lo, hi>>, 0)
Glob(t)        == Nd("GLOBAL", t, <<>>, 0)
Global         == Nd("STR", TStr, <<>>, 0)
One(e)         == <<Fn(2, <<TI(8), TI(8)>>, FALSE, Ret(e))>>
Fun(n, slots, q) == Fn(n, slots, FALSE, Blk(q))
Ext            == Fn(2, <<TI(8), TI(8)>>, FALSE, None)

I8 == TI(8)
Usz == TU(8)
Byte == TU(1)
TArr == TArray(8, 8, 3)
TRec == TStruct(24, 8)
TBytes == TSlice(1)

\* A program: its functions and its inputs.
P(fns, args, bytes) == [fns |-> fns, args |-> args, bytes |-> bytes]
NoBytes == {<<>>}

\* Two parameters of type t, one expression over them.
Op2P(t, s, e) == <<Fn(2, <<t, s>>, FALSE, Ret(e))>>
BinP(k, t, rt) == Op2P(t, t, Bin(k, rt, Get(0, t), Get(1, t)))

Edge(t) == LET w == Width(t) h == Mod2(w) \div 2
           IN IF Signed(t) THEN {-h, -h + 1, -1, 0, 1, 7, h - 1} ELSE {0, 1, 7, h - 1, h, Mod2(w) - 1}
Small(t) == IF Signed(t) THEN {-7, -1, 0, 2, 7} ELSE {0, 1, 3, 200}
Pairs(A, B) == {<<a, b>> : a \in A, b \in B}

Ariths ==
  [i \in 1 .. 10 |->
     LET c == << <<"ADD", TI(1)>>, <<"SUB", TI(1)>>, <<"MUL", TI(1)>>, <<"ADD", TU(1)>>,
                 <<"SUB", TU(2)>>, <<"ADD", TI(4)>>, <<"SUB", TI(4)>>, <<"ADD", TU(8)>>,
                 <<"MUL", TI(2)>>, <<"SUB", TI(8)>> >>[i]
     IN P(BinP(c[1], c[2], c[2]), Pairs(Edge(c[2]), Edge(c[2])), NoBytes)]

Divs ==
  << P(BinP("DIV", I8, I8), Pairs({-300, -7, 0, 8}, {-3, 0, 1, 5}), NoBytes),
     P(BinP("MOD", I8, I8), Pairs({-300, -7, 0, 8}, {-3, 0, 1, 5}), NoBytes),
     P(BinP("DIV", TI(1), TI(1)), Pairs({-128, -7, 9, 127}, {-3, 0, 2}), NoBytes) >>

Shifts ==
  [i \in 1 .. 4 |->
     LET c == << <<"SHL", TU(1)>>, <<"SHR", TI(1)>>, <<"SHL", TI(2)>>, <<"SHR", TU(2)>> >>[i]
     IN P(Op2P(c[2], Byte, Bin(c[1], c[2], Get(0, c[2]), Get(1, Byte))),
          Pairs(Edge(c[2]), {0, 1, 7, 8, 15, 16, 255}), NoBytes)]

Bitops ==
  [i \in 1 .. 3 |-> LET k == <<"BAND", "BOR", "BXOR">>[i]
                    IN P(BinP(k, TI(2), TI(2)), Pairs({-2, 0, 21845, 32767}, {-32768, 3}), NoBytes)]
  \o << P(Op2P(TI(1), TI(1), Un("BNOT", TI(1), Un("NEG", TI(1), Get(0, TI(1))))),
          Pairs(Edge(TI(1)), {0}), NoBytes) >>

\* Comparisons decide a branch, a selection and a short circuit.
CmpP(k, t) ==
  P(<<Fn(2, <<t, t, I8>>, FALSE,
     Blk(<<IfElse(Bin(k, TBool, Get(0, t), Get(1, t)), Blk(<<Let(2, I8, C(I8, 5))>>),
                  Blk(<<Let(2, I8, C(I8, 6))>>)),
           Ret(Bin("ADD", I8, Get(2, I8),
                   Nd("SELECT", I8, <<Bin("LOR", TBool, Un("LNOT", TBool, Bin(k, TBool, Get(1, t), Get(0, t))),
                                          Bin("LAND", TBool, Bin("EQ", TBool, Get(0, t), C(t, 7)),
                                              Bin("NE", TBool, Get(1, t), C(t, 7)))),
                                      C(I8, 10), C(I8, 20)>>, 0)))>>))>>,
    Pairs(Small(t), Small(t)), NoBytes)
Compares == << CmpP("LT", TI(1)), CmpP("LE", TU(1)), CmpP("GT", TI(4)), CmpP("GE", TU(1)),
               CmpP("EQ", TU(2)), CmpP("GE", TI(2)), CmpP("LT", TU(4)), CmpP("LE", TI(8)) >>

CastOf(from, to, values) == P(Op2P(from, from, Casts(to, Get(0, from))), Pairs(values, {0}), NoBytes)
CastP(from, to) == CastOf(from, to, Edge(from))
\* Enums: no value of theirs is negative here, nor out of an enum's range.
TE(w, sgn) == Ty("enum", w, w, sgn, 0, 0)
EnumCasts ==
  << CastP(TE(2, FALSE), TI(1)), CastP(TE(2, FALSE), TU(1)), CastP(TE(1, FALSE), TI(1)),
     CastP(TE(2, FALSE), TI(2)), CastP(TE(1, FALSE), TI(4)), CastP(TU(1), TE(2, FALSE)),
     CastOf(TE(2, TRUE), TI(1), {0, 7, 127, 128, 32767}),
     CastOf(TE(2, TRUE), TU(1), {0, 255, 256, 32767}), CastOf(TU(1), TE(1, FALSE), {0, 7, 255}) >>
Conversions ==
  << CastP(TI(2), TI(1)), CastP(TI(2), TU(1)), CastP(TU(2), TI(1)), CastP(TU(2), TU(1)),
     CastP(TI(1), TU(1)), CastP(TU(1), TI(1)), CastP(TI(8), TI(4)), CastP(TI(1), TI(4)),
     CastP(TU(2), TI(8)), CastP(TU(4), TU(2)),
     P(Op2P(TI(2), I8, Wraps(TU(1), Get(0, TI(2)))), Pairs(Edge(TI(2)), {0}), NoBytes),
     P(Op2P(TU(1), I8, Wraps(TI(4), Get(0, TU(1)))), Pairs(Edge(TU(1)), {0}), NoBytes) >>

\* An array filled in a loop, then indexed by an argument.
ArrayP ==
  P(<<Fun(2, <<Usz, Usz, TArr, Usz, I8>>,
      <<Do(Nd("ZERO", TVoid, <<L(2, TArr)>>, 0)),
        For(Let(3, Usz, C(Usz, 0)), Bin("LT", TBool, Get(3, Usz), Get(0, Usz)),
            Set(L(3, Usz), Bin("ADD", Usz, Get(3, Usz), C(Usz, 1))),
            Blk(<<IfElse(Bin("EQ", TBool, Get(3, Usz), C(Usz, 1)), Continue, None),
                  Set(Index(I8, L(2, TArr), Get(3, Usz)),
                      Bin("ADD", I8, Turns(I8, Get(3, Usz)), C(I8, 40)))>>)),
        Let(4, I8, Ld(Index(I8, L(2, TArr), C(Usz, 1)), I8)),
        Ret(Bin("ADD", I8, Get(4, I8), Ld(Index(I8, L(2, TArr), Get(1, Usz)), I8)))>>)>>,
    Pairs({0, 2, 3, 4}, {0, 2, 3, 9}), NoBytes)

\* break, continue and switch in nested loops.
ControlP ==
  LET i == Get(2, I8) s == Get(3, I8)
      Bump(k) == Set(L(3, I8), Bin("ADD", I8, s, C(I8, k)))
  IN P(<<Fun(2, <<I8, I8, I8, I8>>,
        <<Let(2, I8, C(I8, 0)), Let(3, I8, C(I8, 0)),
          Loop(Bin("LT", TBool, i, Get(0, I8)),
               Blk(<<Set(L(2, I8), Bin("ADD", I8, i, C(I8, 1))),
                     Switch(<<i, Case(1, Blk(<<Bump(1), Continue>>)),
                              Case(2, Blk(<<Bump(10), Break, Bump(500)>>)),
                              Default(Blk(<<IfElse(Bin("EQ", TBool, Get(1, I8), i), Break, None),
                                            Bump(100)>>))>>),
                     For(None, None, None, Blk(<<IfElse(Bin("GT", TBool, i, C(I8, 3)), Break, None),
                                                 Bump(1000), Break>>)),
                     IfElse(Bin("EQ", TBool, i, C(I8, 4)), Blk(<<Break>>), None)>>)),
          Ret(s)>>)>>,
      Pairs({0, 1, 3, 6}, {0, 3, 4}), NoBytes)

\* Records are copied by declarations, stores and calls; six arguments; a
\* callee that changes its own copy.
RecP ==
  P(<<Fun(2, <<I8, I8, TRec, TRec>>,
      <<Do(Nd("ZERO", TVoid, <<L(2, TRec)>>, 0)),
        Set(Field(L(2, TRec), 8), Get(0, I8)),
        Set(Field(L(2, TRec), 16), Get(1, I8)),
        Let(3, TRec, L(2, TRec)),
        Set(Field(L(3, TRec), 0), C(I8, 3)),
        Set(L(2, TRec), L(3, TRec)),
        Ret(Bin("ADD", I8, CallOf(2, I8, <<C(I8, 1), L(2, TRec), Get(1, I8), C(I8, 2), Get(0, I8), L(3, TRec)>>),
                Ld(Field(L(2, TRec), 8), I8)))>>),
      Fun(6, <<I8, TRec, I8, TI(2), I8, TRec>>,
      <<Set(Field(L(1, TRec), 8), C(I8, 1000)),
        Ret(Bin("ADD", I8, Bin("SUB", I8, Get(4, I8), Ld(Field(L(1, TRec), 16), I8)),
                Bin("ADD", I8, Ld(Field(L(5, TRec), 8), I8),
                    Bin("MUL", I8, Casts(I8, Get(3, TI(2))), Ld(Field(L(1, TRec), 8), I8)))))>>)>>,
    Pairs({-3, 5}, {0, 9}), NoBytes)

\* Recursion, and an external callee between two uses of a local.
CallP ==
  P(<<Fun(2, <<I8, I8>>,
      <<IfElse(Bin("LE", TBool, Get(0, I8), C(I8, 0)), Ret(Get(1, I8)), None),
        Do(CallOf(2, TVoid, <<Get(0, I8), Get(1, I8)>>)),
        Ret(Bin("ADD", I8, Get(0, I8),
                CallOf(1, I8, <<Bin("SUB", I8, Get(0, I8), C(I8, 1)),
                                CallOf(2, I8, <<Get(1, I8), Get(0, I8)>>)>>)))>>),
      Ext>>,
    Pairs({0, 1, 3}, {1, 4}), NoBytes)

\* Slices of bytes, cut again, read through their pointer. They begin where
\* their base does: the check of a later start goes between the loads of the
\* addition that moves the data pointer and the addition.
SliceP ==
  P(<<Fun(2, <<Usz, Usz, TBytes, TBytes>>,
      <<Let(2, TBytes, Part(Glob(TBytes), TBytes, None, Get(1, Usz))),
        Let(3, TBytes, Part(L(2, TBytes), TBytes, None, Get(0, Usz))),
        Ret(Bin("ADD", Usz, Un("LEN", Usz, L(3, TBytes)),
                Turns(Usz, Ld(At0(Bin("PTR_ADD", TPtr(1), Un("PTR", TPtr(1), L(3, TBytes)), Get(0, Usz)),
                                  Byte), Byte))))>>)>>,
    Pairs({0, 1, 2, 4}, {0, 1, 2, 3, 4}), {<<65, 66, 67>>})

\* str slices: the start must begin a code point.
StrP ==
  P(<<Fun(2, <<Usz, Usz, TStr>>,
      <<Let(2, TStr, Part(Global, TStr, Get(0, Usz), Get(1, Usz))),
        Ret(Un("LEN", Usz, L(2, TStr)))>>)>>,
    {<<0, 3>>, <<1, 3>>, <<2, 3>>, <<2, 4>>, <<1, 0>>}, {<<65, 195, 164>>, <<228, 184, 173>>, <<65, 66, 67>>})

ByteRuns ==
  {<<>>, <<127>>, <<128>>, <<193, 191>>, <<194, 128>>, <<195>>, <<223, 192>>, <<224, 159, 128>>,
   <<224, 160, 128>>, <<237, 159, 191>>, <<237, 160, 128>>, <<239, 191, 127>>, <<240, 143, 128, 128>>,
   <<240, 144, 128, 128>>, <<241, 128, 128>>, <<244, 143, 191, 191>>, <<244, 144, 128, 128>>,
   <<245, 128, 128, 128>>, <<65, 226, 130, 172, 66>>, <<226, 130>>, <<243, 160, 192, 128>>}
Utf8P == P(<<Fun(2, <<I8, I8>>, <<Do(Un("CAST", TStr, Glob(TBytes))), Ret(C(I8, 1))>>)>>,
           {<<0, 0>>}, ByteRuns)

\* Pointers: null, arithmetic, differences; a bool that is not 0 or 1.
PtrP ==
  LET p == Un("PTR", TPtr(1), Glob(TBytes))
      q(e) == Bin("PTR_ADD", TPtr(1), p, e)
  IN << P(<<Fun(2, <<Usz, Usz>>,
          <<Ret(Bin("PTR_DIFF", I8, q(Get(0, Usz)), q(Get(1, Usz))))>>)>>,
          Pairs({0, 5}, {0, 3}), {<<65>>}),
        P(<<Fun(2, <<Usz, Usz>>,
          <<Do(Bin("PTR_DIFF", I8, Turns(TPtr(4), q(Get(0, Usz))), Turns(TPtr(4), p))),
            Do(Bin("PTR_DIFF", I8, Turns(TPtr(6), p), Turns(TPtr(6), q(Get(0, Usz))))),
            Ret(C(I8, 2))>>)>>, Pairs({0, 4, 6, 12}, {0}), {<<65>>}),
        P(<<Fun(2, <<Usz, Usz>>,
          <<Ret(Ld(At0(Turns(TPtr(1), Get(0, Usz)), Byte), Byte))>>)>>, Pairs({0, BytesFrom}, {0}), {<<65>>}),
        P(<<Fun(2, <<Usz, Usz>>,
          <<Ret(Bin("PTR_ADD", TPtr(1), Turns(TPtr(1), Get(0, Usz)), Get(1, Usz)))>>)>>,
          Pairs({5, 2 ^ 28 - 4}, {3, 4}), {<<65>>}),
        P(<<Fun(2, <<Usz, Usz>>,
          <<IfElse(Ld(At0(Turns(TPtr(1), p), TBool), TBool), Ret(C(I8, 7)), None),
            Ret(C(I8, 8))>>)>>, {<<0, 0>>}, {<<0>>, <<1>>, <<2>>, <<255>>}) >>

TrapP ==
  P(<<Fun(2, <<I8, I8>>,
      <<Switch(<<Get(0, I8), Case(1, Blk(<<Nd("TRAP", TI(4), <<>>, 77)>>)),
                 Case(2, Blk(<<Nd("TRAP", TVoid, <<>>, "R0815")>>))>>),
        Ret(Get(1, I8))>>)>>, Pairs({1, 2, 3}, {6}), NoBytes)

\* Elements of one byte, stored from the last to the first.
StoreP ==
  LET TRow == TArray(1, 1, 3)
      Elem(i) == Nd("INDEX_ADDR", TPtr(1), <<L(2, TRow), C(Usz, i)>>, 0)
  IN P(<<Fun(2, <<Byte, Byte, TRow>>,
        <<Do(Nd("ZERO", TVoid, <<L(2, TRow)>>, 0)),
          Set(Elem(1), Get(1, Byte)), Set(Elem(0), Get(0, Byte)),
          Ret(Ld(Elem(1), Byte))>>)>>, Pairs({0, 3, 7, 255}, {0, 1, 2, 4, 9, 17, 33, 254}), NoBytes)

Library == IF Programs = "stores" THEN <<StoreP>> ELSE
  Ariths \o Divs \o Shifts \o Bitops \o Compares \o Conversions \o EnumCasts
  \o <<ArrayP, ControlP, RecP, CallP, SliceP, StrP, Utf8P, TrapP>> \o PtrP

-----------------------------------------------------------------------------
(* Compiling and starting them. *)

\* The passes of the code generator, one after the other.
Compile(p) ==
  LET b == Build(p.fns, 100)
      framed == FrameBuild(b, IselSelect(b).code)
      lowered == CallBuild(b, framed)
      checked == CheckedBuild(b, framed, lowered, TrapBuild(b, framed, lowered), Bits)
  IN [b |-> b, g |-> Link(b, checked, PairAt)]

Image == Fold(LAMBDA q, p : Append(q, CodeGenerator(p)), <<>>, Library)

\* The constant's bytes, its pointer and length; other memory holds junk.
Memory(bytes) ==
  LET m == [a \in 0 .. MemEnd |->
              IF a \in BytesFrom .. BytesFrom + Len(bytes) - 1 THEN bytes[a - BytesFrom + 1]
              ELSE (a * 37 + 11) % 100]
  IN StoreAt(StoreAt(m, PairAt, BytesFrom, 8), PairAt + 8, Len(bytes), 8)

\* Registers at the entry: arguments in their low bytes, junk elsewhere.
Boot(slots, in) ==
  LET Raw(i) == LET w == Width(slots[i]) u == Unsig(in[1][i], w)
                IN IF w < 8 THEN u + 5 * Mod2(w) ELSE u
      r == [x \in Regs |-> CASE x = "rcx" -> Raw(1) [] x = "rdx" -> Raw(2)
                             [] x = "rsp" -> StackTop - 40 [] x = "rbp" -> 4321
                             [] x = "rsi" -> 1357 [] x = "rdi" -> 2468 [] OTHER -> 999]
  IN [pc |-> 1, r |-> r, m |-> StoreAt(Memory(in[2]), StackTop - 40, 0, 8),
      f |-> [z |-> TRUE, s |-> FALSE, c |-> TRUE, o |-> TRUE], halt |-> "run",
      acts |-> <<[back |-> 0, sp |-> StackTop - 40,
                  saved |-> [x \in {"rbp", "rsi", "rdi"} |-> r[x]]]>>]

Init == \E p \in DOMAIN Library : \E a \in Library[p].args, q \in Library[p].bytes :
          /\ prog = p /\ input = <<a, q>>
          /\ cpu = Boot(Library[p].fns[1].slots, <<a, q>>)

Step1 ==
  /\ cpu.halt = "run"
  /\ cpu' = CpuStep(Image[prog].g, cpu)
  /\ UNCHANGED <<prog, input>>

Next == Step1
Spec == Init /\ [][Next]_vars

-----------------------------------------------------------------------------
IrRun(p, in) ==
  LET start == [m |-> Memory(in[2]), top |-> 16, trap |-> <<>>]
  IN Invoke([b |-> Image[p].b, glob |-> PairAt], 1, in[1], start)
Meant == Interpreter(prog, input)
Returns(e) == e.k = "RETURN" /\ e.a # <<>>

\* The type of what the first function returns, from its return statements.
RetType == LET q == Flatten1(Image[prog].b.fns[1].body)
               i == CHOOSE j \in DOMAIN q : Returns(q[j])
           IN q[i].a[1].t

\* The value a program returns is the one its IR means: registers, frames,
\* flags and spill slots change nothing (call.c, frame.c, isel_core.c).
ResultExact ==
  cpu.halt = "ret" => LET m == Meant
                      IN /\ Fine(m.s)
                         /\ OfType(RetType, cpu.r["rax"]) = m.v

\* A program traps exactly where its IR does, and the report receives that
\* rule's code for that node (trap_branch.c, trap_checked.c).
TrapBlamed ==
  /\ cpu.halt # "fault"
  /\ cpu.halt = "trap" =>
       LET m == Meant
           site == Image[prog].g.sites[Image[prog].g.fn[cpu.pc - 1]][cpu.r["rdx"]]
       IN m.s.trap = <<site.code, cpu.r["rcx"], site.id>>

At1 == Image[prog].g.code[cpu.pc]

\* Every return finds the frame its caller left: the return address, RSP,
\* RBP, RSI and RDI (the prologue and epilogue of call.c).
FramesIntact ==
  (cpu.halt = "run" /\ At1.op = "RET") =>
    LET a == Last(cpu.acts)
    IN /\ cpu.r["rsp"] = a.sp
       /\ LoadAt(cpu.m, a.sp, 8) = a.back
       /\ \A r \in DOMAIN a.saved : cpu.r[r] = a.saved[r]

\* RSP is a multiple of 16 at every call, the report's too (call.h sec. 15.7).
CallsAligned ==
  (cpu.halt = "run" /\ At1.op \in {"CALL", "T_CALL_REPORT"}) => cpu.r["rsp"] % 16 = 0

\* The calling convention of the platform holds at every call and return,
\* whatever the callees and the stack depth (frame.c, call.c).
ConventionKept == FramesIntact /\ CallsAligned

\* A condition is tested against itself: the second operand is loaded, the
\* first is what R10 happens to hold, and both must be the condition.
TestReadsCond ==
  (cpu.halt = "run" /\ At1.op = "TEST") =>
    cpu.r[At1.d.r] % 256 = cpu.r[At1.a.r] % 256

\* A store of a scalar "stores the value bytes" (IR contract, sec. 5.3): the
\* element stored earlier is still what was stored.
ElementsKept ==
  (Programs = "stores" /\ cpu.halt = "ret") => OfType(Byte, cpu.r["rax"]) = input[1][2]
=============================================================================
