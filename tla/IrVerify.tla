----------------------------- MODULE IrVerify ------------------------------
(***************************************************************************)
(* The verifier of the IR: its two passes over a build, as the set of the  *)
(* violations they record, each the number of an invariant and the id of   *)
(* the node at fault (-1 where no node is named).                          *)
(* A build is [mods, ids, types, addrs]: the module trees, the id of every *)
(* node the builder made, the interned types with the declaration each     *)
(* names, and what each address constant targets.                          *)
(***************************************************************************)
EXTENDS IrGraph

\* One invariant violated where a condition holds.
If(c, violation) == IF c THEN {violation} ELSE {}
NoFn == [name |-> "", ret |-> NoType, noreturn |-> FALSE, params |-> <<>>, slots |-> <<>>]

-----------------------------------------------------------------------------
(* Invariant 5: tails.                                                     *)

RECURSIVE PathNeverExits(_)
\* Every path of the block ends without leaving the loop around it.
PathNeverExits(b) ==
  /\ b.k = "BLOCK" /\ b.a # <<>>
  /\ LET n == Last(b.a)
     IN \/ n.k \in {"RETURN", "CALL_TERM", "TRAP", "CONTINUE"}
        \/ n.k = "BLOCK" /\ PathNeverExits(n)
        \/ n.k = "IF" /\ n.a[3].k # "NONE" /\ PathNeverExits(n.a[2]) /\ PathNeverExits(n.a[3])
        \/ n.k = "SWITCH" /\ HasDefault(n)
           /\ \A i \in DOMAIN Arms(n) : PathNeverExits(Arms(n)[i].a[1])
        \/ n.k \in Loops /\ ConstTrue(LoopCond(n)) /\ PathNeverExits(LoopBody(n))

RECURSIVE TailTerminates(_)
\* Every path of the block ends in a terminator that leaves the function.
TailTerminates(b) ==
  /\ b.k = "BLOCK" /\ b.a # <<>>
  /\ LET n == Last(b.a)
     IN \/ n.k \in {"RETURN", "CALL_TERM", "TRAP"}
        \/ n.k = "BLOCK" /\ TailTerminates(n)
        \/ n.k = "IF" /\ n.a[3].k # "NONE" /\ TailTerminates(n.a[2]) /\ TailTerminates(n.a[3])
        \/ n.k = "SWITCH" /\ HasDefault(n)
           /\ \A i \in DOMAIN Arms(n) : TailTerminates(Arms(n)[i].a[1])
        \/ n.k \in Loops /\ ConstTrue(LoopCond(n)) /\ PathNeverExits(LoopBody(n))

-----------------------------------------------------------------------------
(* What every node must have.                                              *)

SpanCause(n) ==
  If(\/ ~n.meta.span \/ n.meta.links = <<>>
     \/ \E i \in DOMAIN n.meta.links : ~n.meta.links[i]
     \/ ~n.meta.root, 2)

ResultType(n) ==
  If(IF n.k \in ValueKinds THEN n.t.k = "none" \/ (n.t.k = "void" /\ n.k # "CALL")
     ELSE n.t.k # "none", 3)

TrapCode(n) ==
  If(CASE n.k = "LOAD" -> n.trap # (IF n.t.k = "bool" THEN "R0805" ELSE "")
       [] n.k = "TRAP" -> FALSE
       [] OTHER -> IF TrapCodes(n.k) = {} THEN n.trap # "" ELSE n.trap \notin TrapCodes(n.k), 9)

-----------------------------------------------------------------------------
(* The declarations.                                                       *)

ModuleKind(n) ==
  If(\E i \in DOMAIN n.a : n.a[i].k \notin (IF i <= n.x.imports THEN {"IMPORT"} ELSE DeclKinds), 1)

ImportKind(n) == If(n.x.name = "", 1)

StructKind(n) ==
  LET f == n.x.fields
      Bad(i) == \/ f[i].name = "" \/ f[i].t.k \in {"none", "void"} \/ ~f[i].span
                \/ f[i].off < 0 \/ f[i].off > n.x.size
                \/ f[i].size > 0 /\ f[i].off > n.x.size - f[i].size
                \/ i > 1 /\ f[i - 1].t.k # "none" /\ f[i].off < f[i - 1].off + f[i - 1].size
  IN If(n.x.name = "" \/ n.x.size < 0 \/ n.x.align < 1 \/ \E i \in DOMAIN f : Bad(i), 3)

EnumKind(n) ==
  If(\/ n.x.name = "" \/ n.x.under.k \notin IntTypes
     \/ \E i \in DOMAIN n.x.members : n.x.members[i].name = "" \/ ~n.x.members[i].span, 3)

GlobalKind(n) ==
  If(\/ n.x.name = "" \/ n.x.t.k = "none" \/ n.x.value.c = "none"
     \/ n.x.t.k # "none" /\ n.x.value.t # n.x.t, 3)

FunctionKind(n) ==
  LET f == n.x
      body == n.a[1]
      slots == f.slots
      Slot(i) == IF i \in DOMAIN slots THEN slots[i] ELSE [kind |-> "none", index |-> -1, t |-> NoType]
      BadParam(i) == \/ f.params[i].name = "" \/ f.params[i].t.k \in {"none", "void"}
                     \/ ~f.params[i].span
                     \/ f.params[i].slot # i - 1
                     \/ Slot(i).kind # "param" \/ Slot(i).index # i - 1
      BadSlot(i) == \/ slots[i].index # i - 1
                    \/ IF i <= Len(f.params) THEN slots[i].kind # "param"
                       ELSE slots[i].kind \notin {"local", "temp"}
                    \/ slots[i].t.k \in {"none", "void"}
  IN If(\/ f.name = "" \/ f.ret.k = "none"
        \/ f.noreturn /\ f.name \notin {"rt.proc.exit", "rt.trap.report"}
        \/ IF body.k = "NONE" THEN ~f.noreturn ELSE body.k # "BLOCK"
        \/ Len(slots) < Len(f.params)
        \/ \E i \in DOMAIN f.params : BadParam(i)
        \/ \E i \in DOMAIN slots : BadSlot(i), 3)
     \cup If(body.k = "BLOCK" /\ f.ret.k \notin {"none", "void"} /\ ~TailTerminates(body), 5)

-----------------------------------------------------------------------------
(* The statements.  encl holds the ids of the constructs around the node.  *)

BlockKind(n) == If(\E i \in 1 .. Len(n.a) - 1 : n.a[i].k \in Terminators, 5)

SlotType(fn, i) == IF i + 1 \in DOMAIN fn.slots THEN fn.slots[i + 1].t ELSE NoType

LocalDeclKind(n, fn) ==
  If(\/ SlotType(fn, n.x).k = "none"
     \/ n.a[1].k = "NONE"
     \/ SlotType(fn, n.x).k # "none" /\ n.a[1].t # SlotType(fn, n.x), 4)

BranchKind(n) ==
  LET c == IF n.k = "FOR" THEN n.a[2] ELSE n.a[1]
  IN If(\/ c.k = "NONE" /\ n.k # "FOR"
        \/ c.k # "NONE" /\ c.t.k # "bool"
        \/ n.k = "IF" /\ (n.a[2].k # "BLOCK" \/ n.a[3].k \notin {"BLOCK", "NONE"})
        \/ n.k \in Loops /\ LoopBody(n).k # "BLOCK"
        \/ n.k = "FOR" /\ (\/ n.a[1].k \notin StmtKinds \cup {"NONE"}
                           \/ n.a[3].k \notin ExprKinds \cup {"NONE"}), 4)

SwitchKind(n) ==
  LET sel == n.a[1].t
      cases == SubSeq(n.a, 2, Len(n.a) - 1)
  IN If(\/ n.a[1].k = "NONE" \/ sel.k \notin IntTypes \cup {"enum"}
        \/ \E i \in DOMAIN cases : cases[i].k = "CASE" /\ cases[i].x.c # "none"
                                   /\ sel.k # "none" /\ cases[i].x.t # sel, 4)
     \cup If(\/ \E i \in DOMAIN cases : cases[i].k # "CASE"
             \/ Last(n.a).k \notin {"DEFAULT", "NONE"}, 1)

ArmKind(n) ==
  LET body == n.a[1]
  IN If(n.k = "CASE" /\ n.x.c = "none", 3)
     \cup If(body.k # "BLOCK", 4)
     \cup If(body.k = "BLOCK" /\ (body.a = <<>> \/ Last(body.a).k \notin Terminators), 6)

\* Mutant: the target of a break is only looked at for its kind.
JumpKindAnywhere(n, encl) ==
  If(\/ n.k = "CONTINUE" /\ n.x.id \notin encl
     \/ n.x.k \notin Loops \cup (IF n.k = "BREAK" THEN {"SWITCH"} ELSE {}), 7)

JumpKind(n, encl) ==
  If(\/ n.x.id \notin encl
     \/ n.x.k \notin Loops \cup (IF n.k = "BREAK" THEN {"SWITCH"} ELSE {}), 7)

ReturnKind(n, fn) ==
  If(\/ fn.name = ""
     \/ IF fn.ret.k = "void" THEN n.a[1].k # "NONE"
        ELSE n.a[1].k = "NONE" \/ (fn.ret.k # "none" /\ n.a[1].t # fn.ret), 8)

\* The operands of a call against the parameters of its callee x.
Arguments(n) ==
  LET Both == 1 .. (IF Len(n.a) < Len(n.x.params) THEN Len(n.a) ELSE Len(n.x.params))
      Fits(i) == n.x.params[i].t.k = "none" \/ n.a[i].t = n.x.params[i].t
  IN If(Len(n.a) # Len(n.x.params) \/ \E i \in Both : n.a[i].k # "NONE" /\ ~Fits(i), 4)
     \cup If(\E i \in Both : n.a[i].k = "NONE", 1)

CallKind(n) ==
  IF n.x.k # "FUNCTION" THEN {4} ELSE If(n.t # n.x.ret, 4) \cup Arguments(n)

CallTermKind(n) ==
  IF n.x.k # "FUNCTION" THEN {4} ELSE If(~n.x.noreturn, 4) \cup Arguments(n)

TrapKind(n) ==
  If(\/ (n.x.code = "") # n.x.user
     \/ n.x.code # "" /\ ~n.x.known
     \/ n.x.user /\ n.x.num \notin 0 .. n.x.top, 9)

-----------------------------------------------------------------------------
(* The values.                                                             *)

LiteralKind(n) ==
  LET c == n.x.c
  IN CASE n.k = "INT" -> If(c = "none", 3)
                         \cup If(\/ c \notin {"none", "int"} \/ n.t.k \notin IntTypes
                                 \/ c = "int" /\ n.t.k # "none" /\ n.x.t # n.t, 4)
       [] n.k = "BOOL" -> If(c # "bool" \/ n.t.k # "bool", 4)
       [] n.k = "NULL" -> If(n.t.k # "ptr", 4)
       [] n.k = "STR" -> If(c # "str" \/ n.t.k # "str", 4)
       [] n.k = "ENUM_VAL" -> If(c # "enum" \/ n.t.k # "enum", 4)

\* The places: x is the slot, the global or the field.
PlaceKind(n, fn) ==
  LET b == IF n.k \in {"LOCAL", "GLOBAL"} THEN None ELSE n.a[1]
  IN CASE n.k = "LOCAL" -> If(SlotType(fn, n.x).k = "none" \/ n.t # SlotType(fn, n.x), 4)
       [] n.k = "GLOBAL" -> If(n.x.k # "GLOBAL_VAR" \/ (n.t.k # "none" /\ n.t # n.x.t), 4)
       [] n.k = "FIELD_ADDR" -> If(\/ ~Lvalue(b) \/ b.t.k # "struct" \/ n.x \notin DOMAIN b.t.d
                                   \/ ~Points(n.t, b.t.d[n.x]), 4)
       [] n.k = "INDEX_ADDR" -> If(\/ b.k = "NONE" \/ b.t.k \notin Sequential
                                   \/ b.t.k \in {"array", "slice"} /\ ~Lvalue(b)
                                   \/ n.a[2].t.k # "usize"
                                   \/ ~Points(n.t, ElemOf(b.t)), 4)
       [] n.k = "DEREF" -> If(b.t.k # "ptr" \/ ~Points(b.t, n.t), 4)

LoadKind(n) ==
  LET lv == n.a[1]
  IN If(\/ ~(Lvalue(lv) \/ (lv.k = "INDEX_ADDR" /\ lv.a[1].t.k = "str"))
        \/ n.t.k \notin ScalarTypes \/ n.t # Held(lv), 4)

StoreKind(n) ==
  LET d == n.a[1]
      v == n.a[2]
  IN If(\/ ~Lvalue(d)
        \/ v.k # "NONE" /\ d.k # "NONE" /\ Held(d).k # "none" /\ v.t # Held(d), 10)
     \cup If(v.k = "NONE", 11)

ZeroKind(n) ==
  IF n.a[1].k = "NONE" THEN {11}
  ELSE If(~Lvalue(n.a[1]) \/ n.a[1].t.k \notin {"struct", "array"}, 4)

\* A kind with all its operands, or the record that one is missing.
WithOperands(n, c) == IF \E i \in DOMAIN n.a : n.a[i].k = "NONE" THEN {11} ELSE If(c, 4)

ArithKind(n) ==
  WithOperands(n, n.a[1].t.k \notin IntTypes \/ n.a[2].t.k \notin IntTypes)
  \cup If(n.t.k \notin IntTypes, 4)
  \cup If(n.k \in Shifts /\ n.a[1].k # "NONE" /\ n.t # n.a[1].t, 4)


LogicKind(n) ==
  WithOperands(n, \E i \in DOMAIN n.a : n.a[i].t.k # "bool") \cup If(n.t.k # "bool", 4)

CompareKind(n) ==
  LET l == n.a[1].t
      r == n.a[2].t
      eligible == IF n.k \in {"EQ", "NE"} THEN IntTypes \cup {"bool", "ptr", "enum", "str"}
                  ELSE IntTypes \cup {"enum", "str", "ptr"}
  IN WithOperands(n, IF n.k = "SLICE_EQ" THEN l.k # "slice" \/ r.k # "slice" \/ l # r
                     ELSE l # r \/ l.k \notin eligible)
     \cup If(n.t.k # "bool", 4)

UnaryKind(n) ==
  LET o == n.a[1].t
  IN WithOperands(n, o.k \notin (CASE n.k = "NEG" -> SignedTypes [] n.k = "BNOT" -> IntTypes
                                   [] n.k = "LNOT" -> {"bool"}))
     \cup If(IF n.k = "LNOT" THEN n.t.k # "bool"
             ELSE n.a[1].k # "NONE" /\ n.t.k # "none" /\ n.t # o, 4)

SelectKind(n) ==
  If(n.a[1].t.k # "bool", 4)
  \cup (IF n.a[2].k = "NONE" \/ n.a[3].k = "NONE" THEN {11} ELSE If(n.a[2].t # n.a[3].t, 4))
  \cup If(n.a[2].t.k # "none" /\ n.t.k # "none" /\ n.t # n.a[2].t, 4)

\* len, ptr and a slice of an array, a slice or a str.
SpanOfKind(n) ==
  LET o == n.a[1].t
  IN IF n.k = "SLICE"
     THEN If(\/ n.a[1].k = "NONE" \/ o.k \notin Sequential
             \/ \E i \in 2 .. 3 : n.a[i].k # "NONE" /\ n.a[i].t.k # "usize"
             \/ IF o.k = "str" THEN n.t.k # "str"
                ELSE o.k \notin Sequential \/ n.t # SliceOf(ElemOf(o)), 4)
     ELSE WithOperands(n, o.k \notin Sequential)
          \cup If(IF n.k = "LEN" THEN n.t.k # "usize" ELSE ~Points(n.t, ElemOf(o)), 4)

CastKind(n) == WithOperands(n, FALSE)

PtrKind(n) ==
  LET l == n.a[1].t
      r == n.a[2].t
  IN IF n.k = "PTR_DIFF"
     THEN WithOperands(n, l.k # "ptr" \/ r.k # "ptr" \/ l # r) \cup If(n.t.k # "isize", 4)
     ELSE WithOperands(n, l.k # "ptr" \/ r.k \notin IntTypes)
          \cup If(n.a[1].k # "NONE" /\ n.t.k # "none" /\ n.t # l, 4)

-----------------------------------------------------------------------------
(* Pass 2: the node's own checks, then those of the children it visits.    *)

KindChecks(n, encl, fn) ==
  CASE n.k = "MODULE" -> ModuleKind(n)
    [] n.k = "IMPORT" -> ImportKind(n)
    [] n.k = "STRUCT_DECL" -> StructKind(n)
    [] n.k = "ENUM_DECL" -> EnumKind(n)
    [] n.k \in {"GLOBAL_CONST", "GLOBAL_VAR"} -> GlobalKind(n)
    [] n.k = "FUNCTION" -> FunctionKind(n)
    [] n.k = "BLOCK" -> BlockKind(n)
    [] n.k = "LOCAL_DECL" -> LocalDeclKind(n, fn)
    [] n.k \in {"IF"} \cup Loops -> BranchKind(n)
    [] n.k = "SWITCH" -> SwitchKind(n)
    [] n.k \in {"CASE", "DEFAULT"} -> ArmKind(n)
    [] n.k \in {"BREAK", "CONTINUE"} -> JumpKind(n, encl)
    [] n.k = "RETURN" -> ReturnKind(n, fn)
    [] n.k = "EXPR_STMT" -> If(n.a[1].k \notin ExprKinds, 4)
    [] n.k = "EMPTY" -> {}
    [] n.k = "CALL" -> CallKind(n)
    [] n.k = "CALL_TERM" -> CallTermKind(n)
    [] n.k = "TRAP" -> TrapKind(n)
    [] n.k \in Literals -> LiteralKind(n)
    [] n.k \in {"LOCAL", "GLOBAL", "FIELD_ADDR", "INDEX_ADDR", "DEREF"} -> PlaceKind(n, fn)
    [] n.k = "LOAD" -> LoadKind(n)
    [] n.k = "STORE" -> StoreKind(n)
    [] n.k = "ZERO" -> ZeroKind(n)
    [] n.k \in Arith \cup Shifts \cup Bitwise2 -> ArithKind(n)
    [] n.k \in {"LAND", "LOR"} -> LogicKind(n)
    [] n.k \in Ordered \cup {"EQ", "NE", "SLICE_EQ"} -> CompareKind(n)
    [] n.k \in {"NEG", "BNOT", "LNOT"} -> UnaryKind(n)
    [] n.k = "SELECT" -> SelectKind(n)
    [] n.k \in {"LEN", "PTR", "SLICE"} -> SpanOfKind(n)
    [] n.k \in {"CAST", "WRAP"} -> CastKind(n)
    [] n.k \in {"PTR_ADD", "PTR_SUB", "PTR_DIFF"} -> PtrKind(n)
    [] OTHER -> {1}

\* A module skips an entry of the wrong kind, a block a misplaced terminator.
Visits(n, i) ==
  /\ n.a[i].k # "NONE"
  /\ (n.k = "MODULE") => n.a[i].k \in (IF i <= n.x.imports THEN {"IMPORT"} ELSE DeclKinds)
  /\ (n.k = "BLOCK" /\ i < Len(n.a)) => n.a[i].k \notin Terminators

RECURSIVE VerifyNode(_, _, _)
VerifyNode(n, encl, fn) ==
  LET inner == IF n.k \in Loops \cup {"SWITCH"} THEN encl \cup {n.id} ELSE encl
      f     == IF n.k = "FUNCTION" THEN n.x ELSE fn
  IN {<<i, n.id>> : i \in SpanCause(n) \cup ResultType(n) \cup TrapCode(n)
                          \cup KindChecks(n, encl, fn)}
     \cup UNION {VerifyNode(n.a[i], inner, f) : i \in {j \in DOMAIN n.a : Visits(n, j)}}

-----------------------------------------------------------------------------
(* Pass 1, the id table, the types and the address constants, and the whole. *)

Modules(b) == {i \in DOMAIN b.mods : b.mods[i].k = "MODULE"}

ModuleViolations(b) ==
  UNION {If(\/ b.mods[i].k # "MODULE" \/ b.mods[i].x.name = ""
            \/ \E j \in Modules(b) : j < i /\ b.mods[j].x.name = b.mods[i].x.name, <<1, b.mods[i].id>>) :
           i \in DOMAIN b.mods}

IdViolations(b) ==
  LET last == Len(b.ids) - 1
      reached == UNION {Below(b.mods[i], {}) : i \in Modules(b)}
      Wrong(i) == \/ b.ids[i] \notin 0 .. last \ {b.ids[j] : j \in 1 .. i - 1}
                  \/ b.ids[i] \notin reached
  IN {<<1, b.ids[i]>> : i \in {j \in DOMAIN b.ids : Wrong(j)}}

TypeViolations(b) ==
  LET decls == UNION {Below(b.mods[i], DeclKinds) : i \in Modules(b)}
      Wrong(t) == \/ t.k = "array" /\ t.n < 0
                  \/ t.k \in {"array", "slice", "ptr"} /\ t.e = <<>>
                  \/ t.k \in {"struct", "enum"} /\ t.n \notin decls
  IN UNION {If(Wrong(t), <<3, -1>>) : t \in b.types}

AddrViolations(b) ==
  UNION {If(\/ c.t.k # "ptr"
            \/ c.target \notin {"GLOBAL_VAR", "element of GLOBAL_VAR", "element of GLOBAL"},
            <<10, -1>>) : c \in b.addrs}

Verify(b) ==
  ModuleViolations(b) \cup IdViolations(b) \cup TypeViolations(b) \cup AddrViolations(b)
  \cup UNION {VerifyNode(b.mods[i], {}, NoFn) : i \in DOMAIN b.mods}
=============================================================================
