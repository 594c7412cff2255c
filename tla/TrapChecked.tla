----------------------------- MODULE TrapChecked -----------------------------
(***************************************************************************)
(* Trap branches and checked operations (backend/trap_branch.c,            *)
(* backend/trap_checked.c).  Lowering drops the obligation of an           *)
(* instruction, so it is found again in the framed stream and given to the *)
(* first physical instruction of the same node and opcode.  Every          *)
(* obligation and every TRAP becomes a site, whose path (the code, the     *)
(* message and the call of rt.trap.report) follows the function's code.    *)
(* The checks that take more than one flag are inserted before the         *)
(* instruction they guard, or after it, in terms of the spill slots of the *)
(* node's operands.  Conversions carry no obligation through the streams;  *)
(* they are found here, by their node, and get sites of their own.         *)
(***************************************************************************)
EXTENDS CallLower

-----------------------------------------------------------------------------
(* trap_branch.c                                                           *)

\* The number the report receives for a language trap.
Numeric == [R0801 |-> 2049, R0802 |-> 2050, R0803 |-> 2051, R0804 |-> 2052,
            R0805 |-> 2053, R0806 |-> 2054, R0807 |-> 2055, R0808 |-> 2056,
            R0809 |-> 2057, R0810 |-> 2064, R0815 |-> 2069, R0816 |-> 2070]
NumericOf(code) == IF code \in DOMAIN Numeric THEN Numeric[code] ELSE 0

\* A site, its number and the node it blames; an unconditional one is a TRAP.
Site(code, num, id, always) == [code |-> code, num |-> num, id |-> id, always |-> always]

\* The branch to a site, and a comparison before it.
ToSite(cc, k, id)  == [Phys("T_JCC", PNil, PNil, PNil, id) EXCEPT !.cc = cc, !.imm = k]
AlwaysTo(k, id)    == StepI("T_JMP", k, id)
CompareImm(x, i, id) == [Phys("T_CMP", PNil, x, PNil, id) EXCEPT !.imm = i]
TestReg(x, id)     == Phys("T_TEST", PNil, x, PNil, id)

\* The path of a site: room for the callee, the three arguments, the call.
SitePath(k, s) ==
  <<StepI("T_LABEL", k, s.id), StepI("T_SUB_RSP", Shadow, s.id),
    StepI("T_MOV_CODE", s.num, s.id), StepI("T_LEA_MSG", k, s.id),
    StepI("T_MOV_LEN", k, s.id), StepI("T_CALL_REPORT", 0, s.id)>>
EmitPaths(sites) == Concat([k \in DOMAIN sites |-> SitePath(k, sites[k])])

\* Which branch an obligation of an opcode takes here, if any.
RuleFor(code, op) ==
  CASE code = "R0802" /\ op \in {"ADD", "SUB", "IMUL", "NEG"} -> "overflow"
    [] code = "R0803" /\ op = "IDIV" -> "div_zero"
    [] code = "R0804" /\ op \in {"SHL", "SHR", "SAR"} -> "shift"
    [] code = "R0805" /\ op = "MOV" -> "bool_byte"
    [] OTHER -> "none"

\* Before the instruction: a divisor or count in a register.
PreBranch(x, code, k, id) ==
  CASE RuleFor(code, x.op) = "div_zero" /\ x.a.o = "reg" ->
         <<TestReg(x.a, id), ToSite("E", k, id)>>
    [] RuleFor(code, x.op) = "shift" /\ x.a.o = "reg" ->
         <<CompareImm(x.a, 8 * x.d.w, id), ToSite("AE", k, id)>>
    [] OTHER -> <<>>

\* After it: the flag of the operation, or the byte just loaded.
PostBranch(build, x, code, k, id) ==
  CASE RuleFor(code, x.op) = "overflow" ->
         <<ToSite(IF Signed(NodeOf(build, id).t) THEN "O" ELSE "B", k, id)>>
    [] RuleFor(code, x.op) = "bool_byte" /\ x.d.o = "reg" ->
         <<CompareImm(x.d, 1, id), ToSite("A", k, id)>>
    [] OTHER -> <<>>

Obligations(framed) ==
  LET body == SelectSeq(framed, LAMBDA x : x.f = "BODY" /\ x.q.trap # "")
  IN [i \in DOMAIN body |-> [op |-> body[i].q.op, id |-> body[i].q.id,
                             code |-> body[i].q.trap]]

\* An obligation is taken by the first instruction of its node and opcode; a
\* move must write a register, and a bool's move a byte.
Takes(o, x) ==
  /\ o.id = x.id
  /\ o.op = x.op
  /\ o.op = "MOV" => /\ x.d.o = "reg"
                     /\ RuleFor(o.code, o.op) = "bool_byte" => x.d.w = 1

BranchMarker(s, x) ==
  LET k == Len(s.sites) + 1
      code == x.p.trap
      user == code = "user"
  IN CASE x.p.op = "TRAP" ->
            [s EXCEPT !.sites = Append(@, Site(code, IF user THEN x.p.a.i ELSE NumericOf(code),
                                               x.p.id, TRUE)),
                      !.code = @ \o <<x, AlwaysTo(k, x.p.id)>>]
       [] x.p.op # "TRAP" /\ code # "" ->
            [s EXCEPT !.sites = Append(@, Site(code, NumericOf(code), x.p.id, FALSE)),
                      !.code = Append(@, x)]
       [] x.p.op # "TRAP" /\ code = "" -> [s EXCEPT !.code = Append(@, x)]

BranchInsn(build, s, x) ==
  LET hits == {i \in DOMAIN s.obl : Takes(s.obl[i], x)}
      i == CHOOSE j \in hits : \A m \in hits : j <= m
      o == s.obl[i]
      k == Len(s.sites) + 1
  IN IF hits = {} THEN [s EXCEPT !.code = Append(@, x)]
     ELSE [sites |-> Append(s.sites, Site(o.code, NumericOf(o.code), o.id, FALSE)),
           code  |-> s.code \o PreBranch(x, o.code, k, o.id) \o <<x>>
                            \o PostBranch(build, x, o.code, k, o.id),
           obl   |-> RemoveAt(s.obl, i)]

BranchFunction(build, framed, lowered) ==
  LET r == Fold(LAMBDA s, x : IF x.op = "PSEUDO" THEN BranchMarker(s, x)
                                  ELSE BranchInsn(build, s, x),
                    [sites |-> <<>>, code |-> <<>>, obl |-> Obligations(framed.code)],
                    lowered.code)
  IN [sites |-> r.sites, code |-> r.code \o EmitPaths(r.sites)]

TrapBuild(build, framed, lowered) ==
  [i \in DOMAIN build.fns |-> BranchFunction(build, framed[i], lowered[i])]

-----------------------------------------------------------------------------
(* trap_checked.c                                                          *)

Two(op, d, a, id) == Phys(op, d, a, PNil, id)
Move(d, a, id)    == Two("MOV", d, a, id)
CompareReg(x, y, id) == Phys("CMP", PNil, x, y, id)
\* Labels and branches inside a check; l is a number of the build's own counter.
Here(l, id)       == StepI("CHK_LABEL", l, id)
Skip(cc, l, id)   == [Phys("CHK_JCC", PNil, PNil, PNil, id) EXCEPT !.cc = cc, !.imm = l]
SkipAlways(l, id) == StepI("CHK_JMP", l, id)

R8b  == Reg("r8", 1)
R9   == Reg("r9", 8)
R10  == Reg("r10", 8)
R10b == Reg("r10", 1)
R11  == Reg("r11", 8)
R11b == Reg("r11", 1)
At(r, i, w) == PMem(r, i, w)

\* A value into a register: a constant at once, another node from its slot.
NodeValue(pl, vmap, n, d, id) ==
  CASE n.k = "INT" -> <<Move(d, PImm(n.x, 8), id)>>
    [] n.k \notin {"INT", "NONE"} /\ vmap[n.id] >= 0 ->
         <<Move(d, SpillMem(pl, vmap[n.id]), id)>>
    [] OTHER -> <<>>

NullCheck(pl, vmap, n, k) ==
  NodeValue(pl, vmap, n.a[1], R10, n.id) \o <<TestReg(R10, n.id), ToSite("E", k, n.id)>>

\* Against the array's extent, or the length behind the base.
IndexCheck(pl, vmap, n, k) ==
  LET base == n.a[1]
  IN NodeValue(pl, vmap, n.a[2], R10, n.id)
     \o (IF base.t.k = "array" THEN <<CompareImm(R10, base.t.n, n.id)>>
         ELSE NodeValue(pl, vmap, base, R11, n.id)
              \o <<CompareReg(R10, At("r11", 8, 8), n.id)>>)
     \o <<ToSite("AE", k, n.id)>>

\* The width a check works with: an enum's is that of an address, whatever its
\* underlying type.
type_width(t) == IF t.k \in {"bool", "int"} THEN t.size ELSE 8

\* As CastCheck, for a source that is already extended.
CastUnextended(pl, vmap, n, k, bits) ==
  LET Bound(b, cc) == <<Move(R11, PImm(b, 8), n.id), CompareReg(R10, R11, n.id),
                        ToSite(cc, k, n.id)>>
      wt == type_width(n.t)
  IN IF wt >= 8 THEN <<>>
     ELSE NodeValue(pl, vmap, n.a[1], R10, n.id)
          \o (IF Signed(n.t)
              THEN Bound(-(2 ^ (bits[wt] - 1)), "L") \o Bound(2 ^ (bits[wt] - 1) - 1, "G")
              ELSE Bound(2 ^ bits[wt] - 1, "A"))

\* The source is extended by its signedness and compared with the target's
\* bounds; there is no check for a 64-bit target.
CastCheck(pl, vmap, n, k, bits) ==
  LET st == n.a[1].t  ws == type_width(st)  wt == type_width(n.t)
      Bound(b, cc) == <<Move(R11, PImm(b, 8), n.id), CompareReg(R10, R11, n.id),
                        ToSite(cc, k, n.id)>>
  IN IF wt >= 8 THEN <<>>
     ELSE NodeValue(pl, vmap, n.a[1], R10, n.id)
          \o (IF ws < 8
              THEN <<Two(IF Signed(st) THEN "MOVSX" ELSE "MOVZX", R10, Reg("r10", ws), n.id)>>
              ELSE <<>>)
          \o (IF Signed(n.t)
              THEN Bound(-(2 ^ (bits[wt] - 1)), "L") \o Bound(2 ^ (bits[wt] - 1) - 1, "G")
              ELSE Bound(2 ^ bits[wt] - 1, "A"))

\* end <= length, start <= end; and, for a str, the byte at start begins a
\* code point.
SliceCheck(pl, vmap, n, k, code, l) ==
  LET base == n.a[1]  start == n.a[2]  end == n.a[3]  id == n.id
      Val(m, d) == NodeValue(pl, vmap, m, d, id)
      has(m) == m.k # "NONE"
      Above == <<CompareReg(R10, R11, id), ToSite("A", k, id)>>
  IN (IF base.t.k = "array" THEN <<Move(R11, PImm(base.t.n, 8), id)>>
      ELSE Val(base, R10) \o <<Move(R11, At("r10", 8, 8), id)>>)
     \o (IF has(end) THEN Val(end, R10) \o Above ELSE <<>>)
     \o (IF has(start)
         THEN Val(start, R10) \o (IF has(end) THEN Val(end, R11) ELSE <<>>) \o Above
         ELSE <<>>)
     \o (IF code = "R0808" /\ has(start)
         THEN Val(base, R10) \o <<Move(R10, At("r10", 0, 8), id)>> \o Val(start, R11)
              \o <<Two("ADD", R10, R11, id), Move(R11b, At("r10", 0, 1), id),
                   CompareImm(R11b, 128, id), Skip("B", l, id),
                   CompareImm(R11b, 191, id), Skip("A", l, id),
                   AlwaysTo(k, id), Here(l, id)>>
         ELSE <<>>)

-----------------------------------------------------------------------------
(* The UTF-8 check: R9 walks to the end in R11, R8 holds the first byte of  *)
(* a sequence, R10 each continuation byte.                                  *)

\* The next byte exists and is a continuation byte.
NextByte(k, id) ==
  <<Two("ADD", R9, PImm(1, 8), id), CompareReg(R9, R11, id), ToSite("AE", k, id),
    Move(R10b, At("r9", 0, 1), id), CompareImm(R10b, 128, id), ToSite("B", k, id),
    CompareImm(R10b, 191, id), ToSite("A", k, id)>>

\* If the first byte is lead, the second must not be on the wrong side of b.
Narrow(lead, b, cc, skip, k, id) ==
  <<CompareImm(R8b, lead, id), Skip("NE", skip, id), CompareImm(R10b, b, id),
    ToSite(cc, k, id), Here(skip, id)>>

NextChar(loop, id) == <<Two("ADD", R9, PImm(1, 8), id), SkipAlways(loop, id)>>

Utf8Setup(pl, v, id) ==
  <<Move(R10, SpillMem(pl, v), id), Move(R11, At("r10", 0, 8), id),
    Move(R10, At("r10", 8, 8), id), Move(R9, R11, id), Two("ADD", R11, R10, id)>>

\* The class of the first byte; l is the first of the ten labels.
Utf8Lead(k, l, id) ==
  <<Here(l, id), CompareReg(R9, R11, id), Skip("AE", l + 9, id),
    Move(R8b, At("r9", 0, 1), id),
    CompareImm(R8b, 128, id), Skip("B", l + 1, id),
    CompareImm(R8b, 194, id), ToSite("B", k, id),
    CompareImm(R8b, 224, id), Skip("B", l + 2, id),
    CompareImm(R8b, 240, id), Skip("B", l + 3, id),
    CompareImm(R8b, 245, id), Skip("B", l + 4, id), AlwaysTo(k, id)>>

Utf8Two(k, l, id) == <<Here(l + 2, id)>> \o NextByte(k, id) \o NextChar(l, id)
Utf8Three(k, l, id) ==
  <<Here(l + 3, id)>> \o NextByte(k, id)
  \o Narrow(224, 160, "B", l + 5, k, id) \o Narrow(237, 159, "A", l + 6, k, id)
  \o NextByte(k, id) \o NextChar(l, id)
Utf8Four(k, l, id) ==
  <<Here(l + 4, id)>> \o NextByte(k, id)
  \o Narrow(240, 144, "B", l + 7, k, id) \o Narrow(244, 143, "A", l + 8, k, id)
  \o NextByte(k, id) \o NextByte(k, id) \o NextChar(l, id)

Utf8Check(pl, x, k, l) ==
  Utf8Setup(pl, x.p.a.n, x.id) \o Utf8Lead(k, l, x.id)
  \o <<Here(l + 1, x.id)>> \o NextChar(l, x.id)
  \o Utf8Two(k, l, x.id) \o Utf8Three(k, l, x.id) \o Utf8Four(k, l, x.id)
  \o <<Here(l + 9, x.id)>>

-----------------------------------------------------------------------------
\* The byte difference is a multiple of the element's size.
PtrDiffCheck(pl, x, k) ==
  LET e == x.p.b.i  id == x.id  slot == SpillMem(pl, x.p.d.n)
      Rax == Reg("rax", 8)  Rdx == Reg("rdx", 8)
  IN CASE e <= 1 -> <<>>
       [] e > 1 /\ e \in {2 ^ i : i \in 1 .. 12} ->
            <<Move(R10, slot, id), Two("AND", R10, PImm(e - 1, 8), id), ToSite("NE", k, id)>>
       [] e > 1 /\ e \notin {2 ^ i : i \in 1 .. 12} ->
            <<Move(Rax, slot, id), Move(Rdx, Rax, id), Two("SAR", Rdx, PImm(63, 8), id),
              Move(R11, PImm(e, 8), id), Phys("IDIV", Rax, R11, PNil, id),
              TestReg(Rdx, id), ToSite("NE", k, id)>>

PtrOverflowCheck(k, id) == <<ToSite("B", k, id)>>

\* The instruction a site was made for.
SiteOpcodes ==
  [R0802 |-> {"ADD", "SUB", "IMUL", "NEG"}, R0803 |-> {"IDIV"},
   R0804 |-> {"SHL", "SHR", "SAR"}, R0805 |-> {"MOV"}, R0806 |-> {"UTF8"},
   R0807 |-> {"LEA", "ADD", "SLICE"}, R0808 |-> {"SLICE"}, R0809 |-> {"MOV"},
   R0810 |-> {"PTRDIFF"}, R0816 |-> {"ADD", "SUB"}]

SiteMatches(site, x) ==
  LET op == IF x.op = "PSEUDO" THEN x.p.op ELSE x.op
  IN IF site.always THEN op = "TRAP"
     ELSE /\ site.code \in DOMAIN SiteOpcodes
          /\ op \in SiteOpcodes[site.code]
          /\ site.code \in {"R0805", "R0809"} => x.d.o = "reg"
          /\ site.code = "R0805" => x.d.w = 1

PostChecked == {"R0806", "R0810", "R0816"}

\* A conversion that narrows or changes the sign at the same width; its
\* node says whether the program can fail it (x is the rule it carries).
CastNeedsCheck(n) ==
  /\ n.k = "CAST" /\ n.x = "R0801"
  /\ n.t.k # "str"
  /\ \/ type_width(n.t) < type_width(n.a[1].t)
     \/ type_width(n.t) = type_width(n.a[1].t) /\ Signed(n.t) # Signed(n.a[1].t)

\* The check of a site at the instruction x of node n, and the labels it uses.
CheckOf(pl, vmap, n, x, code, k, l, bits) ==
  CASE code = "R0801" -> [c |-> CastCheck(pl, vmap, n, k, bits), l |-> l]
    [] code = "R0809" -> [c |-> NullCheck(pl, vmap, n, k), l |-> l]
    [] code = "R0807" /\ n.k = "INDEX_ADDR" -> [c |-> IndexCheck(pl, vmap, n, k), l |-> l]
    [] code \in {"R0807", "R0808"} /\ n.k = "SLICE" ->
         [c |-> SliceCheck(pl, vmap, n, k, code, l),
          l |-> IF code = "R0808" /\ n.a[2].k # "NONE" THEN l + 1 ELSE l]
    [] code = "R0806" -> [c |-> Utf8Check(pl, x, k, l), l |-> l + 10]
    [] code = "R0810" -> [c |-> PtrDiffCheck(pl, x, k), l |-> l]
    [] code = "R0816" -> [c |-> PtrOverflowCheck(k, x.id), l |-> l]
    [] OTHER -> [c |-> <<>>, l |-> l]

\* One instruction: the next site's, a conversion not met before, or another.
CheckInsn(build, pl, vmap, bits, s, x) ==
  LET n == NodeOf(build, x.id)
      here == /\ s.cursor <= Len(s.sites) /\ s.sites[s.cursor].id = x.id
              /\ SiteMatches(s.sites[s.cursor], x)
      cast == /\ ~here /\ CastNeedsCheck(n) /\ x.op = "MOV"
              /\ \A j \in DOMAIN s.sites : s.sites[j].id # x.id
      k    == IF here THEN s.cursor ELSE Len(s.sites) + 1
      code == IF here THEN s.sites[k].code ELSE "R0801"
      chk  == CheckOf(pl, vmap, n, x, IF here /\ s.sites[k].always THEN "" ELSE code,
                      k, s.l, bits)
  IN IF ~here /\ ~cast THEN [s EXCEPT !.code = Append(@, x)]
     ELSE [cursor |-> IF here THEN s.cursor + 1 ELSE s.cursor,
           sites  |-> IF cast THEN Append(s.sites, Site(code, NumericOf(code), x.id, FALSE))
                              ELSE s.sites,
           code   |-> s.code \o (IF code \in PostChecked THEN <<x>> \o chk.c
                                                         ELSE chk.c \o <<x>>),
           l      |-> chk.l]

\* The paths made before are dropped and made again for all sites.
PathOps == {"T_LABEL", "T_SUB_RSP", "T_MOV_CODE", "T_LEA_MSG", "T_MOV_LEN", "T_CALL_REPORT"}
BranchOps == {"T_JCC", "T_JMP", "T_TEST", "T_CMP"}

CheckFunction(build, vmap, bits, pl, branched, l) ==
  LET r == Fold(LAMBDA s, x :
                      CASE x.op \in PathOps -> s
                        [] x.op \in BranchOps -> [s EXCEPT !.code = Append(@, x)]
                        [] OTHER -> CheckInsn(build, pl, vmap, bits, s, x),
                    [cursor |-> 1, sites |-> branched.sites, code |-> <<>>, l |-> l],
                    branched.code)
  IN [sites |-> r.sites, code |-> r.code \o EmitPaths(r.sites), l |-> r.l]

\* bits: the number of bits of a value of each width.
CheckedBuild(build, framed, lowered, branched, bits) ==
  LET vmap == VregMap(build, framed)
      Next(s, i) == LET c == CheckFunction(build, vmap, bits, lowered[i].plan,
                                           branched[i], s.l)
                    IN [l |-> c.l, fns |-> Append(s.fns, c)]
  IN Fold(Next, [l |-> 0, fns |-> <<>>], [i \in DOMAIN build.fns |-> i]).fns
=============================================================================
