------------------------------ MODULE IrGraph ------------------------------
(***************************************************************************)
(* The IR graph as the builder makes it and the verifier walks it.  A node *)
(* has its kind, id, result type, operands (absent ones None, in the order *)
(* of the children of its kind), payload, trap code, span and cause facts, *)
(* and the place of the source it stands for.  A reference edge, such as   *)
(* the target of a break or the callee of a call, is a payload that names  *)
(* the node and carries the facts that are read through the edge.          *)
(***************************************************************************)
EXTENDS Integers, Sequences, SequencesExt, FiniteSetsExt

-----------------------------------------------------------------------------
(* Types: kind, element type, extent or declaration, and the field types   *)
(* and declaration kind of a named one.                                    *)

Ty(k, e, n, d) == [k |-> k, e |-> e, n |-> n, d |-> d]
Prim(k)      == Ty(k, <<>>, 0, <<>>)
NoType       == Prim("none")
PtrTo(t)     == Ty("ptr", <<t>>, 0, <<>>)
SliceOf(t)   == Ty("slice", <<t>>, 0, <<>>)
ArrayOf(t, n) == Ty("array", <<t>>, n, <<>>)
StructOf(id, fields) == Ty("struct", <<>>, id, fields)
EnumOf(id)   == Ty("enum", <<>>, id, <<>>)

SignedTypes == {"i8", "i16", "i32", "i64", "isize"}
IntTypes    == SignedTypes \cup {"u8", "u16", "u32", "u64", "usize"}
ScalarTypes == IntTypes \cup {"bool", "ptr", "enum"}
Sequential  == {"array", "slice", "str"}

\* The type of the elements of an array, a slice or a str.
ElemOf(t) == IF t.k \in {"array", "slice"} THEN t.e[1]
             ELSE IF t.k = "str" THEN Prim("u8") ELSE NoType
\* Is t a pointer to e, a type that exists?
Points(t, e) == t.k = "ptr" /\ e.k # "none" /\ t.e = <<e>>

-----------------------------------------------------------------------------
(* Nodes.                                                                  *)

\* What is known of a span and of a cause chain: the span is valid, each
\* link has a kind and a valid span, the root link lies in the node's file.
Sound == [span |-> TRUE, links |-> <<TRUE>>, root |-> TRUE]

Nd(k, id, t, a, x) ==
  [k |-> k, id |-> id, t |-> t, a |-> a, x |-> x, trap |-> "",
   src |-> <<>>, meta |-> Sound]
None == Nd("NONE", -1, NoType, <<>>, 0)
\* A parameter of a function: its name, type, slot, and whether its own span
\* is valid.
Param(name, t, slot) == [name |-> name, t |-> t, slot |-> slot, span |-> TRUE]
Trapping(n, code) == [n EXCEPT !.trap = code]
From(n, p) == [n EXCEPT !.src = p]

\* A constant, and the lack of one.
Const(c, t, v) == [c |-> c, t |-> t, v |-> v]
NoConst == Const("none", NoType, 0)

Literals == {"INT", "BOOL", "NULL", "STR", "ENUM_VAL"}
Arith    == {"ADD", "SUB", "MUL", "DIV", "MOD"}
Shifts   == {"SHL", "SHR"}
Bitwise2 == {"BAND", "BOR", "BXOR"}
Ordered  == {"LT", "LE", "GT", "GE"}
ValueKinds ==
  Literals \cup Arith \cup Shifts \cup Bitwise2 \cup Ordered
  \cup {"LOCAL", "GLOBAL", "FIELD_ADDR", "INDEX_ADDR", "DEREF", "LOAD", "NEG",
        "BNOT", "LNOT", "LAND", "LOR", "EQ", "NE", "SLICE_EQ", "SELECT", "CALL",
        "LEN", "PTR", "SLICE", "CAST", "WRAP", "PTR_ADD", "PTR_SUB", "PTR_DIFF"}
ExprKinds == ValueKinds \cup {"STORE", "ZERO"}
Terminators == {"RETURN", "BREAK", "CONTINUE", "CALL_TERM", "TRAP"}
StmtKinds ==
  Terminators \cup {"BLOCK", "LOCAL_DECL", "IF", "WHILE", "FOR", "SWITCH",
                    "CASE", "DEFAULT", "EXPR_STMT", "EMPTY"}
DeclKinds == {"STRUCT_DECL", "ENUM_DECL", "GLOBAL_CONST", "GLOBAL_VAR", "FUNCTION"}
Loops == {"WHILE", "FOR"}

\* The trap codes a kind may declare.
TrapCodes(k) ==
  CASE k = "INDEX_ADDR" -> {"R0807"}
    [] k = "DEREF" -> {"R0809", "R0811"}
    [] k \in {"ADD", "SUB", "MUL", "NEG"} -> {"R0802"}
    [] k \in {"DIV", "MOD"} -> {"R0803", "R0802"}
    [] k \in Shifts -> {"R0804"}
    [] k = "SLICE" -> {"R0807", "R0808"}
    [] k = "CAST" -> {"R0801", "R0806"}
    [] k \in {"PTR_ADD", "PTR_SUB"} -> {"R0816"}
    [] k = "PTR_DIFF" -> {"R0816", "R0810"}
    [] OTHER -> {}

RECURSIVE Lvalue(_)
\* Does the node denote a place?  An element does when its array or slice does.
Lvalue(n) ==
  \/ n.k \in {"LOCAL", "GLOBAL", "DEREF", "FIELD_ADDR"}
  \/ n.k = "INDEX_ADDR" /\ n.a[1].k # "NONE" /\ n.a[1].t.k \in {"array", "slice"}
     /\ Lvalue(n.a[1])

\* The type of what the place holds.
Held(n) == CASE n.k \in {"LOCAL", "GLOBAL", "DEREF"} -> n.t
             [] n.k \in {"FIELD_ADDR", "INDEX_ADDR"} /\ n.t.k = "ptr" -> n.t.e[1]
             [] OTHER -> NoType

\* The structural children of a node; reference edges are not followed.
Kids(n) == SelectSeq(n.a, LAMBDA c : c.k # "NONE")

RECURSIVE Below(_, _)
\* The ids of the nodes of the given kinds in a tree; those of all when empty.
Below(n, kinds) ==
  (IF kinds = {} \/ n.k \in kinds THEN {n.id} ELSE {})
  \cup UNION {Below(Kids(n)[i], kinds) : i \in DOMAIN Kids(n)}

-----------------------------------------------------------------------------
(* Does the end of a statement list stay out of reach?  The builder and the *)
(* verifier each have their own text of the two predicates.                *)

\* The condition of a loop, and its body.
LoopCond(n) == IF n.k = "WHILE" THEN n.a[1] ELSE n.a[2]
LoopBody(n) == Last(n.a)
\* A switch: its selector, its cases, and its default or None.
HasDefault(n) == Last(n.a).k # "NONE"
Arms(n) == SelectSeq(Tail(n.a), LAMBDA c : c.k # "NONE")

ConstTrue(c) == \/ c.k = "NONE"
                \/ c.k = "BOOL" /\ c.x.c = "bool" /\ c.x.v = 1
=============================================================================
