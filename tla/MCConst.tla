------------------------------ MODULE MCConst ------------------------------
(***************************************************************************)
(* The programs the constant passes are checked on: every arithmetic       *)
(* operator on boundary values of each integer type; a fixed set of        *)
(* declarations with one more expression, built from operands that         *)
(* evaluate, fail and are not constant; and enums and structs.             *)
(***************************************************************************)
EXTENDS ConstCheck

\* The entries of the evaluator and of the walkers: nothing is visited yet.
EvaluateEntry(env, e) == LET visited == {} IN const_eval_expr(env, e, visited)
ArithEntry(env, e) == LET l == locate_failure(env, e) IN l
TypeEntry(env, e) == LET visited == {} IN type_of_expr(env, e, visited)
RecEntry(env, e, fail) == LET l == rec_fail_classify(env, e, fail) IN l

T(p) == [k |-> "prim", p |-> p]
Named(s) == [k |-> "named", s |-> s]
PtrTo(t) == [k |-> "ptr", base |-> t]
ArrayOf(t, len) == [k |-> "array", base |-> t, len |-> len]
Num(t, v) == [k |-> "int", t |-> t, v |-> v, min |-> FALSE]
MinLit(t) == [k |-> "int", t |-> t, v |-> 2^(kPrims[t].width - 1), min |-> TRUE]
Un(op, e) == [k |-> "un", op |-> op, e |-> e]
Bin(op, l, r) == [k |-> "bin", op |-> op, l |-> l, r |-> r]
Id(s) == [k |-> "id", s |-> s]
Lit(t, v) == IF v >= 0 THEN Num(t, v)
             ELSE IF v = -(2^(kPrims[t].width - 1)) THEN Un("NEG", MinLit(t))
             ELSE Un("NEG", Num(t, -v))
Var(s, t, e) == [k |-> "var", s |-> s, type |-> t, init |-> e]
Const(s, t, e) == [k |-> "const", s |-> s, type |-> t, init |-> e]

\* Every value of the narrow types and those at the edges of the wide ones.
Literals == {Lit("i8", v) : v \in -(2^(NarrowBits - 1))..(2^(NarrowBits - 1) - 1)}
            \union {Lit("u8", v) : v \in 0..MaskOf(NarrowBits)}
            \union {Lit("i64", v) : v \in {INT64_MIN, -5, -1, 0, 2, 5, INT64_MAX}}
            \union {Lit("u64", v) : v \in {0, 1, 6, INT64_MAX + 1, UINT64_MAX}}
ArithOps == {"ADD", "SUB", "MUL", "DIV", "MOD", "BAND", "BXOR", "BOR", "SHL", "SHR", "LT", "EQ"}
ArithPrograms ==
  {<<Var("x", T("u8"), Bin(op, a, b))>> : op \in ArithOps, a \in Literals, b \in Literals}
  \union {<<Var("x", T("u8"), [k |-> k, t |-> T(p), e |-> a])>> :
            k \in {"cast", "wrap"}, p \in {"i8", "u8", "i64", "u64", "isize", "bool"}, a \in Literals}
  \union {<<Var("x", T("u8"), Un(op, a))>> : op \in {"PLUS", "NEG", "BNOT"}, a \in Literals}

\* The declarations around the expression under test.
Member(sym, name, value) == [sym |-> sym, name |-> name, value |-> value]
EnumDecl(s, under, ms) == [k |-> "enum", s |-> s, under |-> under, members |-> ms]
StructDecl(s, fs) == [k |-> "struct", s |-> s, fields |-> fs]
Field(n, t) == [name |-> n, type |-> t]
Text == [k |-> "str", bytes |-> <<"A", "C", "A">>]
Around ==
  <<EnumDecl("E", "i8", <<Member("E.a", "a", <<Num("i8", 2)>>), Member("E.b", "b", <<>>)>>),
    EnumDecl("F", "u8", <<Member("F.a", "a", <<>>), Member("F.b", "b", <<>>),
                          Member("F.c", "c", <<>>)>>),
    StructDecl("S", <<Field("f", T("i8")), Field("g", T("i64"))>>),
    Const("two", T("i8"), Num("i8", 2)),
    Const("str", T("str"), Text),
    Const("bad", T("i8"), Bin("DIV", Num("i8", 1), Num("i8", 0))),
    Const("nil", PtrTo(T("i8")), [k |-> "null"]),
    Const("wide", T("i64"), Num("i8", 3)),
    Var("arr", ArrayOf(T("i64"), Id("two")), [k |-> "array", es |-> <<Num("i64", 1)>>, count |-> <<Id("two")>>]),
    Var("g", T("i8"), Num("i8", 0))>>

Index(b, i) == [k |-> "index", b |-> b, i |-> i]
Leaves == {Num("i8", 0), Num("i8", 1), Lit("i8", -1), Num("u64", UINT64_MAX), Id("two"), Id("bad"), Id("nil"),
           Id("g"), Id("str"), Text, [k |-> "null"], [k |-> "bool", b |-> TRUE],
           [k |-> "member", s |-> "E.b", b |-> Id("E"), name |-> "b"],
           Un("ADDR", Id("g")), Un("ADDR", Index(Id("arr"), Num("i8", 1))),
           Bin("ADD", Num("i8", 3), Num("i8", 1)), [k |-> "sizeofT", t |-> Named("S")]}
Ints == {Num("i8", 0), Lit("i8", -1), Num("i8", 2), Id("bad"), Id("g"), Num("u64", UINT64_MAX)}
Bounds0 == {<<>>} \union {<<e>> : e \in Ints \union {Bin("SHL", Num("i8", 1), Num("i8", 3))}}
Targets == {T("i8"), T("u64"), T("bool"), T("str"), Named("E"), Named("F"), PtrTo(T("u8")), PtrTo(T("i8")),
            PtrTo(T("i64")), [k |-> "slice", base |-> T("u8")], Named("none")}
Ternary == [k |-> "ternary", a |-> Num("i8", 1), b |-> Num("u8", 1)]
Compounds ==
  {Bin(op, a, b) : op \in {"ADD", "SUB", "DIV", "SHL", "LT", "EQ", "LAND"}, a \in Leaves, b \in Leaves}
  \union {[k |-> k, t |-> t, e |-> a] : k \in {"cast", "wrap"}, t \in Targets, a \in Leaves}
  \union {[k |-> "slice", b |-> b, lo |-> lo, hi |-> hi] :
            b \in {Text, Id("str"), Id("arr"), Id("two"), Id("bad"), Id("g"), Num("i8", 1)},
            lo \in Bounds0, hi \in Bounds0}
  \union {[k |-> "slice", b |-> Text, lo |-> <<Num("i8", i)>>, hi |-> <<Num("i8", j)>>] :
            i \in 0..3, j \in 0..3}
  \union {Un("ADDR", Index(b, i)) : b \in {Id("arr"), Id("g"), Text}, i \in Ints}
  \union {Un("ADDR", Id(s)) : s \in {"two", "none"}}
  \union {Un(op, a) : op \in {"NEG", "NOT", "BNOT", "DEREF"}, a \in Leaves}
  \union {[k |-> "array", es |-> <<a>>, count |-> <<n>>] : a \in Leaves, n \in Ints}
  \union {[k |-> "array", es |-> <<a, b>>, count |-> <<>>] : a \in Ints, b \in Ints}
  \union {[k |-> "init", s |-> "S", es |-> <<a, b>>] : a \in Ints, b \in Ints}
  \union {[k |-> "sizeofE", e |-> e] : e \in Leaves \union {Ternary, Index(Id("arr"), Num("i8", 9)),
             [k |-> "member", s |-> "none", b |-> [k |-> "init", s |-> "S", es |-> <<>>], name |-> "g"],
             [k |-> "call", s |-> "f"], [k |-> "data", e |-> Text], [k |-> "len", e |-> Text]}}
  \union {[k |-> o, t |-> t] : o \in {"sizeofT", "alignof"},
            t \in Targets \union {T("void"), Named("S"), ArrayOf(T("i64"), Num("i8", 3)),
                                  ArrayOf(ArrayOf(T("i64"), Num("i8", 2)), Id("wide")),
                                  ArrayOf(T("i8"), Lit("i8", -1)), ArrayOf(T("i8"), Id("g"))}}
  \union {Ternary, [k |-> "paren", e |-> Bin("MUL", Bin("ADD", Num("i8", 3), Num("i8", 1)), Id("bad"))],
          [k |-> "cast", t |-> T("i8"), e |-> [k |-> "paren", e |-> Bin("SHR", Num("i8", 1), Num("i8", 3))]]}
NodePrograms == {Append(Around, Var("x", T("i8"), e)) : e \in Compounds}

\* Constants that refer to each other, in a ring or not.
CyclePrograms ==
  {<<Const("A", T("i8"), a), Const("B", T("i8"), b), Const("C", T("i8"), c)>> :
     a \in {Id("B"), Id("A"), Bin("ADD", Id("B"), Id("C"))},
     b \in {Id("C"), Id("A"), Num("i8", 1)}, c \in {Id("A"), Id("B"), Num("i8", 3)}}

MemberValues == {<<>>, <<Num("i8", 1)>>, <<Num("u64", UINT64_MAX)>>, <<Lit("i64", INT64_MAX)>>,
                 <<Lit("i64", INT64_MIN)>>, <<Bin("DIV", Num("i8", 1), Num("i8", 0))>>,
                 <<Bin("SHL", Num("i8", 1), Num("i8", 3))>>, <<Un("BNOT", Num("u8", 0))>>,
                 <<Bin("SHL", Num("i64", 1), Num("i8", 5))>>}
Enums(s, unders, values) ==
  {EnumDecl(s, u, <<Member(s \o ".a", "a", a), Member(s \o ".b", "b", b), Member(s \o ".c", "c", c)>>) :
     u \in unders, a \in values, b \in values, c \in {<<>>, <<Num("i8", 1)>>}}
FieldTypes == {T("i8"), T("i64"), T("void"), Named("E"), Named("G"), ArrayOf(T("i64"), Num("i8", 2)),
               ArrayOf(T("i8"), Id("two")), [k |-> "slice", base |-> T("u8")]}
Structs(s, types) == {StructDecl(s, <<Field("f", t), Field("g", u), Field("h", v)>>) :
                        t \in types, u \in types, v \in {T("i8"), T("i64")}}
LayoutPrograms ==
  {<<e>> : e \in Enums("E", {"i8", "u8", "i64", "u64"}, MemberValues)}
  \union {<<StructDecl("G", <<Field("x", t)>>), h, EnumDecl("E", "i64", <<Member("E.a", "a", v)>>)>> :
            t \in {T("i8"), ArrayOf(T("i8"), Id("two"))}, h \in Structs("H", FieldTypes),
            v \in {<<>>, <<Id("two")>>}}
  \union {<<EnumDecl("F", "u8", <<Member("F.a", "a", v), Member("F.b", "b", <<>>)>>), e>> :
            v \in {<<>>, <<Id("two")>>, <<Bin("DIV", Num("i8", 1), Num("i8", 0))>>},
            e \in Enums("E", {"i8", "u64"}, {<<>>, <<Num("u64", UINT64_MAX)>>, <<Id("two")>>,
                                            <<Bin("DIV", Num("i8", 1), Num("i8", 0))>>})}

Init == CheckInit /\ decls \in ArithPrograms \union NodePrograms \union CyclePrograms \union LayoutPrograms
PointerInit == CheckInit /\ decls \in NodePrograms
=============================================================================
