--------------------------------- MODULE X64 ---------------------------------
(***************************************************************************)
(* The processor the emitted code is meant for, instruction by             *)
(* instruction, with words scaled down to what the model checker counts    *)
(* in: a byte and a 16-bit word keep their width, a 32-bit word has 24     *)
(* bits and a 64-bit word 28.  Little endian; 32-bit results clear the     *)
(* upper half of their register, narrower ones keep it.  Pseudo markers    *)
(* and labels do nothing.  The report of a trap stops the machine.         *)
(***************************************************************************)
EXTENDS TrapChecked, Bitwise

Bits == (1 :> 8) @@ (2 :> 16) @@ (4 :> 24) @@ (8 :> 28)
Mod2(w) == 2 ^ Bits[w]
Unsig(v, w) == v % Mod2(w)
Sig(v, w) == LET u == v % Mod2(w) IN IF u >= Mod2(w) \div 2 THEN u - Mod2(w) ELSE u

Regs == {"rax", "rcx", "rdx", "r8", "r9", "r10", "r11", "rsi", "rdi", "rbp", "rsp"}
Volatile == {"rcx", "rdx", "r8", "r9", "r10", "r11"}

\* The bytes of a value: 24 bits in the first three, the rest in the fifth.
ByteOf(v, i) == CASE i \in 0 .. 2 -> (v \div 256 ^ i) % 256
                  [] i = 4 -> v \div 2 ^ 24
                  [] OTHER -> 0
StoreAt(m, a, v, w) ==
  CASE w = 1 -> [m EXCEPT ![a] = v]
    [] w = 2 -> [m EXCEPT ![a] = ByteOf(v, 0), ![a + 1] = ByteOf(v, 1)]
    [] w = 4 -> [m EXCEPT ![a] = ByteOf(v, 0), ![a + 1] = ByteOf(v, 1),
                          ![a + 2] = ByteOf(v, 2), ![a + 3] = 0]
    [] w = 8 -> [m EXCEPT ![a] = ByteOf(v, 0), ![a + 1] = ByteOf(v, 1),
                          ![a + 2] = ByteOf(v, 2), ![a + 3] = 0, ![a + 4] = ByteOf(v, 4),
                          ![a + 5] = 0, ![a + 6] = 0, ![a + 7] = 0]
LoadAt(m, a, w) ==
  CASE w = 1 -> m[a]
    [] w = 2 -> m[a] + 256 * m[a + 1]
    [] w = 4 -> m[a] + 256 * m[a + 1] + 65536 * m[a + 2]
    [] w = 8 -> m[a] + 256 * m[a + 1] + 65536 * m[a + 2] + 2 ^ 24 * (m[a + 4] % 16)

\* The processor: c is its state, g the linked code (see Link).
WriteReg(c, r, v, w) ==
  [c EXCEPT !.r[r] = IF w >= 4 THEN v ELSE @ - (@ % Mod2(w)) + v]
Addr(c, x) == (c.r[x.r] + x.i) % Mod2(8)

Val(g, c, x, w) ==
  CASE x.o = "reg"  -> Unsig(c.r[x.r], w)
    [] x.o = "imm"  -> Unsig(x.i, w)
    [] x.o = "mem"  -> LoadAt(c.m, Addr(c, x), w)
    [] x.o = "glob" -> g.glob
    [] x.o = "str"  -> g.glob

Put(c, x, v, w) ==
  IF x.o = "reg" THEN WriteReg(c, x.r, v, w)
  ELSE [c EXCEPT !.m = StoreAt(c.m, Addr(c, x), v, w)]

Flags(c, z, s, cf, of) == [c EXCEPT !.f = [z |-> z, s |-> s, c |-> cf, o |-> of]]
OfResult(c, v, w, cf, of) == Flags(c, v = 0, v >= Mod2(w) \div 2, cf, of)

Holds(f, cc) ==
  CASE cc = "E" -> f.z            [] cc = "NE" -> ~f.z
    [] cc = "L" -> f.s # f.o      [] cc = "GE" -> f.s = f.o
    [] cc = "LE" -> f.z \/ f.s # f.o [] cc = "G" -> ~f.z /\ f.s = f.o
    [] cc = "B" -> f.c            [] cc = "AE" -> ~f.c
    [] cc = "BE" -> f.c \/ f.z    [] cc = "A" -> ~f.c /\ ~f.z
    [] cc = "O" -> f.o

Fits(v, w) == v = Sig(v, w)

\* x - y with its flags, nothing written.
Compared(c, x, y, w) ==
  OfResult(c, Unsig(x - y, w), w, x < y, ~Fits(Sig(x, w) - Sig(y, w), w))

\* A two-address operation: value, carry and overflow.
Alu(op, x, y, w) ==
  CASE op = "ADD"  -> [v |-> Unsig(x + y, w), c |-> x + y >= Mod2(w),
                       o |-> ~Fits(Sig(x, w) + Sig(y, w), w)]
    [] op = "SUB"  -> [v |-> Unsig(x - y, w), c |-> x < y,
                       o |-> ~Fits(Sig(x, w) - Sig(y, w), w)]
    [] op = "IMUL" -> LET p == Sig(x, w) * Sig(y, w)
                      IN [v |-> Unsig(p, w), c |-> ~Fits(p, w), o |-> ~Fits(p, w)]
    [] op = "AND"  -> [v |-> x & y, c |-> FALSE, o |-> FALSE]
    [] op = "OR"   -> [v |-> x | y, c |-> FALSE, o |-> FALSE]
    [] op = "XOR"  -> [v |-> x ^^ y, c |-> FALSE, o |-> FALSE]
    [] op = "NEG"  -> [v |-> Unsig(-x, w), c |-> x # 0, o |-> x = Mod2(w) \div 2]
    [] op = "NOT"  -> [v |-> Mod2(w) - 1 - x, c |-> FALSE, o |-> FALSE]
    [] op = "SHL"  -> [v |-> IF y >= Bits[w] THEN 0 ELSE Unsig((x % 2 ^ (Bits[w] - y)) * 2 ^ y, w), c |-> FALSE, o |-> FALSE]
    [] op = "SHR"  -> [v |-> IF y >= Bits[w] THEN 0 ELSE x \div 2 ^ y, c |-> FALSE, o |-> FALSE]
    [] op = "SAR"  -> [v |-> Unsig(Sig(x, w) \div 2 ^ (IF y < Bits[w] THEN y ELSE Bits[w]), w), c |-> FALSE, o |-> FALSE]

Quot(a, b) == LET A(n) == IF n < 0 THEN -n ELSE n  q == A(a) \div A(b)
              IN IF (a < 0) # (b < 0) THEN -q ELSE q

\* Signed division of the double-width dividend; a zero divisor or a quotient
\* too large stops the machine.
Divide(g, c, x) ==
  LET w == x.d.w
      y == Sig(Val(g, c, x.a, w), w)
      lo == Val(g, c, Reg("rax", w), w)  hi == Val(g, c, Reg("rdx", w), w)
      extended == hi = (IF Sig(lo, w) < 0 THEN Mod2(w) - 1 ELSE 0)
      n == CASE w = 1 -> Sig(c.r["rax"], 2)
             [] w = 2 -> Sig(hi, 2) * 65536 + lo
             [] w \in {4, 8} -> Sig(lo, w)
      q == Quot(n, y)  r == n - q * y
      c1 == WriteReg(c, "rax", Unsig(q, w), w)
  IN IF y = 0 \/ (w \in {4, 8} /\ ~extended) THEN [c EXCEPT !.halt = "fault"]
     ELSE IF ~Fits(q, w) THEN [c EXCEPT !.halt = "fault"]
     ELSE IF w = 1 THEN WriteReg(c, "rax", Unsig(q, 1) + 256 * Unsig(r, 1), 2)
     ELSE WriteReg(c1, "rdx", Unsig(r, w), w)

Push(c, v) ==
  LET sp == c.r["rsp"] - 8
  IN [c EXCEPT !.r["rsp"] = sp, !.m = StoreAt(c.m, sp, v, 8)]
Pop(c, r) ==
  LET v == LoadAt(c.m, c.r["rsp"], 8)
  IN [c EXCEPT !.r["rsp"] = @ + 8, !.r[r] = v]

Copied(m, to, from, n) ==
  [x \in DOMAIN m |-> IF x \in to .. to + n - 1 THEN m[from + (x - to)] ELSE m[x]]
Filled(m, to, n, v) == [x \in DOMAIN m |-> IF x \in to .. to + n - 1 THEN v ELSE m[x]]

\* An external callee returns a value made of its first two arguments, uses
\* its home area and leaves nothing in the registers it may use.
External(c) ==
  [c EXCEPT !.r = [r \in Regs |-> IF r = "rax" THEN (c.r["rcx"] + 2 * c.r["rdx"]) % Mod2(8)
                                  ELSE IF r \in Volatile THEN 12345 ELSE c.r[r]],
            !.m = Filled(c.m, c.r["rsp"], Shadow, 77)]

W(x) == IF x.d.w > 0 THEN x.d.w ELSE x.a.w

\* One instruction but for the program counter.
Execute(g, c, x) ==
  LET w == W(x)
      v(y) == Val(g, c, y, w)
  IN CASE x.op = "MOV" -> Put(c, x.d, v(x.a), w)
       [] x.op = "MOVZX" -> WriteReg(c, x.d.r, Val(g, c, x.a, x.a.w), w)
       [] x.op = "MOVSX" -> WriteReg(c, x.d.r, Unsig(Sig(Val(g, c, x.a, x.a.w), x.a.w), w), w)
       [] x.op = "LEA" ->
            WriteReg(c, x.d.r,
                     CASE x.scale > 0 -> (c.r[x.a.r] + c.r[x.b.r] * x.scale) % Mod2(8)
                       [] x.scale = 0 /\ x.a.o = "mem" -> Addr(c, x.a)
                       [] x.scale = 0 /\ x.a.o # "mem" -> v(x.a), 8)
       [] x.op \in {"ADD", "SUB", "IMUL", "AND", "OR", "XOR", "SHL", "SHR", "SAR"} ->
            LET r == Alu(x.op, v(x.d), IF x.op \in {"SHL", "SHR", "SAR"}
                                       THEN Val(g, c, x.a, 1) % (IF w = 8 THEN 64 ELSE 32)
                                       ELSE v(x.a), w)
            IN OfResult(Put(c, x.d, r.v, w), r.v, w, r.c, r.o)
       [] x.op = "NEG" -> LET r == Alu("NEG", v(x.d), 0, w)
                          IN OfResult(Put(c, x.d, r.v, w), r.v, w, r.c, r.o)
       [] x.op = "NOT" -> Put(c, x.d, Alu("NOT", v(x.d), 0, w).v, w)
       [] x.op = "CMP" -> Compared(c, Val(g, c, x.a, x.a.w), Val(g, c, x.b, x.a.w), x.a.w)
       [] x.op = "TEST" -> LET r == v(x.d) & v(x.a) IN OfResult(c, r, w, FALSE, FALSE)
       [] x.op = "T_TEST" -> LET r == v(x.a) IN OfResult(c, r, w, FALSE, FALSE)
       [] x.op = "T_CMP" -> Compared(c, v(x.a), Unsig(x.imm, w), w)
       [] x.op = "SETCC" -> WriteReg(c, x.d.r, IF Holds(c.f, x.cc) THEN 1 ELSE 0, 1)
       [] x.op = "IDIV" -> Divide(g, c, x)
       [] x.op = "REP_MOVSB" ->
            [c EXCEPT !.m = Copied(c.m, c.r["rdi"], c.r["rsi"], c.r["rcx"]),
                      !.r["rdi"] = @ + c.r["rcx"], !.r["rsi"] = @ + c.r["rcx"], !.r["rcx"] = 0]
       [] x.op = "REP_STOSB" ->
            [c EXCEPT !.m = Filled(c.m, c.r["rdi"], c.r["rcx"], c.r["rax"] % 256),
                      !.r["rdi"] = @ + c.r["rcx"], !.r["rcx"] = 0]
       [] x.op = "PUSH_RBP" -> Push(c, c.r["rbp"])
       [] x.op = "POP_RBP" -> Pop(c, "rbp")
       [] x.op = "MOV_RBP_RSP" -> [c EXCEPT !.r["rbp"] = c.r["rsp"]]
       [] x.op = "MOV_RSP_RBP" -> [c EXCEPT !.r["rsp"] = c.r["rbp"]]
       [] x.op \in {"SUB_RSP", "T_SUB_RSP"} -> [c EXCEPT !.r["rsp"] = @ - x.imm]
       [] x.op = "ADD_RSP" -> [c EXCEPT !.r["rsp"] = @ + x.imm]
       [] x.op = "PUSH_REG" -> Push(c, c.r[x.d.r])
       [] x.op = "POP_REG" -> Pop(c, x.d.r)
       [] x.op = "T_MOV_CODE" -> [c EXCEPT !.r["rcx"] = x.imm]
       [] x.op = "T_LEA_MSG" -> [c EXCEPT !.r["rdx"] = x.imm]
       [] x.op = "T_CALL_REPORT" -> [c EXCEPT !.halt = "trap"]
       [] OTHER -> c

Entered(c, back) ==
  [c EXCEPT !.acts = Append(@, [back |-> back, sp |-> c.r["rsp"],
                                saved |-> [r \in {"rbp", "rsi", "rdi"} |-> c.r[r]]])]

\* One step: acts records, for each activation, what it owes its caller.
CpuStep(g, c) ==
  LET x == g.code[c.pc]
      next == [c EXCEPT !.pc = @ + 1]
      Goto(l) == [c EXCEPT !.pc = l]
      f == x.a.n
  IN CASE x.op = "JMP" -> Goto(g.lab[x.a.n])
       [] x.op = "JCC" -> IF Holds(c.f, x.cc) THEN Goto(g.lab[x.a.n]) ELSE next
       [] x.op = "T_JMP" -> Goto(g.site[g.fn[c.pc]][x.imm])
       [] x.op = "T_JCC" -> IF Holds(c.f, x.cc) THEN Goto(g.site[g.fn[c.pc]][x.imm]) ELSE next
       [] x.op = "CHK_JMP" -> Goto(g.chk[x.imm])
       [] x.op = "CHK_JCC" -> IF Holds(c.f, x.cc) THEN Goto(g.chk[x.imm]) ELSE next
       [] x.op = "CALL" /\ g.entry[f] = 0 -> External(next)
       [] x.op = "CALL" /\ g.entry[f] # 0 ->
            [Entered(Push(c, c.pc + 1), c.pc + 1) EXCEPT !.pc = g.entry[f]]
       [] x.op = "RET" ->
            LET to == LoadAt(c.m, c.r["rsp"], 8)
                d == [c EXCEPT !.r["rsp"] = @ + 8, !.acts = Front(@)]
            IN IF to = 0 THEN [d EXCEPT !.halt = "ret"] ELSE [d EXCEPT !.pc = to]
       [] OTHER -> [Execute(g, c, x) EXCEPT !.pc = @ + 1]

-----------------------------------------------------------------------------
\* The functions' code laid end to end, with the targets of its branches; an
\* external function has no entry.
Link(build, fns, glob) ==
  LET start(i) == Fold(LAMBDA s, f : s + Len(f.code), 1, SubSeq(fns, 1, i - 1))
      code == Fold(LAMBDA q, f : q \o f.code, <<>>, fns)
      fn == Fold(LAMBDA q, i : q \o [k \in 1 .. Len(fns[i].code) |-> i], <<>>,
                     [i \in DOMAIN fns |-> i])
      At1(op) == {p \in DOMAIN code : code[p].op = op}
  IN [code |-> code, fn |-> fn, glob |-> glob,
      entry |-> [i \in DOMAIN fns |-> IF build.fns[i].ext THEN 0 ELSE start(i)],
      lab |-> [n \in {code[p].d.n : p \in At1("LABEL")} |->
                 CHOOSE p \in At1("LABEL") : code[p].d.n = n],
      chk |-> [n \in {code[p].imm : p \in At1("CHK_LABEL")} |->
                 CHOOSE p \in At1("CHK_LABEL") : code[p].imm = n],
      site |-> [i \in DOMAIN fns |->
                  [k \in DOMAIN fns[i].sites |->
                     CHOOSE p \in At1("T_LABEL") : fn[p] = i /\ code[p].imm = k]],
      sites |-> [i \in DOMAIN fns |-> fns[i].sites]]
=============================================================================
