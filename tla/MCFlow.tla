------------------------------- MODULE MCFlow -------------------------------
(***************************************************************************)
(* A function body on its way through the semantic checks of statements,   *)
(* the IR builder and the verifier, and graphs with one fault each given   *)
(* to the verifier alone.                                                  *)
(***************************************************************************)
EXTENDS FlowRef, IrVerify

CONSTANTS
  Programs,   \* the families of inputs of the run
  MaxTrace,   \* the length of the longest trace compared
  Builder(_)  \* the IR builder: a function to its body

-----------------------------------------------------------------------------
(* Function bodies: a compound statement of short lists, alone or inside   *)
(* another, with or without a return behind it.                            *)

Do == S("do", "f", <<>>)
Ret(void) == S("ret", IF void THEN "-" ELSE "1", <<>>)
Brk == S("brk", "", <<>>)
Cont == S("cont", "", <<>>)
Stop == S("stop", "exit", <<>>)
Block(q) == S("block", "", q)
If1(c, q) == S("if", c, <<Block(q)>>)
IfElse(c, q, r) == S("if", c, <<Block(q), Block(r)>>)
While(c, q) == S("while", c, <<Block(q)>>)
For(i, c, t, q) == [S("for", c, <<Block(q)>>) EXCEPT !.init = i, !.step = t]
Case(l, q) == S("case", l, <<Block(q)>>)
Default(q) == S("default", "", <<Block(q)>>)
Switch(q) == S("switch", "", q)

\* Short lists: the empty one, each jump, alone and behind or before another.
Few(v) == {<<>>, <<Do>>, <<Ret(v)>>, <<Brk>>, <<Cont>>}
Short(v) == Few(v) \cup {<<Do, Ret(v)>>, <<Stop>>, <<Ret(v), Do>>, <<Brk, Do>>, <<Stop, Cont>>}
Odd(v) == {<<S("const", "", <<>>)>>, <<S("var", "1", <<>>), Do>>, <<S("var", "-", <<>>)>>,
           <<S("do", "e", <<>>), Ret(v)>>, <<S("empty", "", <<>>), Brk>>,
           <<S("var", "e", <<>>), S("stop", "report", <<>>)>>, <<Block(<<Ret(v)>>), Do>>}

Simple(v) ==
  {If1("c", q) : q \in Short(v)} \cup {IfElse("c", q, r) : q, r \in Few(v)}
  \cup {S("if", "c", <<Block(q), If1("c", r)>>) : q \in {<<>>, <<Ret(v)>>}, r \in Few(v)}
  \cup {S("if", "c", <<Block(<<>>), IfElse("c", q, <<Ret(v)>>)>>) : q \in Few(v)}
  \cup {While(c, q) : c \in {"c", "t"}, q \in Short(v)}
  \cup {Switch(<<Case("1", q)>>) : q \in Short(v)}
  \cup {Switch(<<Case("1", q), Default(r)>>) : q, r \in Few(v)}
  \cup {Block(q) : q \in Short(v)}

Rare(v) ==
  {Block(q) : q \in Odd(v)} \cup {Switch(<<Case("1", q), Default(<<Ret(v)>>)>>) : q \in Odd(v)}
  \cup {If1("e", q) : q \in Few(v)} \cup {While("e", q) : q \in Few(v)}
  \cup {For(i, c, t, q) : i \in {"-", "const", "var 1", "var -", "e"}, c \in {"-", "c"},
                          t \in {"-", "f"}, q \in {<<>>, <<Cont>>, <<Brk>>}}
  \cup {For("f", c, "e", <<Cont>>) : c \in {"t", "e"}}
  \cup {Switch(<<Case("1", <<Brk>>), x, y>>) :
          x, y \in {Case("1", <<Ret(v)>>), Case("2", <<Cont>>), Default(<<Ret(v)>>)}}

Behind(v) == {<<>>, <<Ret(v)>>, <<Brk>>, <<Cont>>}
Lists(v) == {<<s>> \o t : s \in Simple(v), t \in Behind(v)} \cup {<<s>> : s \in Rare(v)}
Around(v, q) == {While("t", q), If1("c", q), For("-", "c", "f", q),
                 Switch(<<Case("1", q), Default(<<Ret(v)>>)>>)}

Bodies2(v) == {<<s>> : s \in UNION {Around(v, q) : q \in Lists(v)}} \cup Lists(v)
Functions == UNION {{[void |-> v, body |-> Block(q \o t)] : q \in Bodies2(v), t \in {<<>>, <<Ret(v)>>}} :
                v \in BOOLEAN}

-----------------------------------------------------------------------------
(* Graphs with a fault of control flow.                                    *)

Jumps == {"BREAK", "CONTINUE"}
Constructs(n) == SetToSeq(UNION {{[id |-> i, k |-> k] : i \in Below(n, {k})} : k \in {"SWITCH", "WHILE", "FOR"}})

\* The node with one part dropped, misplaced or pointed elsewhere.
FaultsAt(n, constructs) ==
  CASE n.k = "BLOCK" /\ n.a # <<>> ->
         <<[n EXCEPT !.a = Front(@)], [n EXCEPT !.a = <<Last(@)>> \o @],
           [n EXCEPT !.a = Append(@, Nd("EMPTY", 90, NoType, <<>>, 0))]>>
    [] n.k = "IF" -> <<[n EXCEPT !.a[3] = None]>>
    [] n.k = "SWITCH" -> <<[n EXCEPT !.a[Len(n.a)] = None], [n EXCEPT !.a = <<@[1], Last(@)>>]>>
    [] n.k \in Jumps ->
         [i \in DOMAIN constructs |-> [n EXCEPT !.x = constructs[i]]]
         \o <<[n EXCEPT !.k = "BREAK"], [n EXCEPT !.k = "CONTINUE"], [n EXCEPT !.x.id = 91]>>
    [] n.k \in Loops /\ LoopCond(n).k = "BOOL" ->
         <<[n EXCEPT !.a[IF n.k = "FOR" THEN 2 ELSE 1] =
             Trapping(From(Nd("LOAD", 92, Bool, <<Nd("LOCAL", 93, Bool, <<>>, 0)>>, 0), n.src), "R0805")]>>
    [] OTHER -> <<>>

RECURSIVE FaultsIn(_, _)
FaultsIn(n, constructs) ==
  FaultsAt(n, constructs)
  \o FlattenSeq([i \in DOMAIN n.a |->
                   LET f == FaultsIn(n.a[i], constructs)
                   IN [j \in DOMAIN f |-> [n EXCEPT !.a[i] = f[j]]]])

FaultBodies ==
  {[void |-> v, body |-> Block(<<s, Ret(v)>>)] :
     v \in BOOLEAN, s \in {While("c", <<Switch(<<Case("1", <<Cont>>), Default(<<Brk>>)>>)>>),
                           While("t", <<While("c", <<Cont>>), Brk>>)}}
  \cup UNION {{[void |-> v, body |-> Block(<<s>>)] :
         s \in {IfElse("c", <<Do, Ret(v)>>, <<While("t", <<Cont>>)>>),
                Switch(<<Case("1", <<Ret(v)>>), Default(<<Stop>>)>>),
                While("t", <<While("c", <<Brk>>), Cont>>),
                While("t", <<Switch(<<Case("1", <<Brk>>), Default(<<Cont>>)>>), Cont>>),
                For("-", "-", "f", <<IfElse("c", <<Cont>>, <<Ret(v)>>)>>)}} : v \in BOOLEAN}

\* A body, and each body one fault away from it.
FaultyBodies(f) ==
  LET b == Builder(f).block IN <<b>> \o FaultsIn(b, Constructs(b))

-----------------------------------------------------------------------------
(* Value nodes, each with at most one operand, type or trap code replaced. *)

Usize == Prim("usize")
I8    == Prim("i8")
StructS == StructOf(3, <<I32, Bool>>)
SlotTypes == <<I32, Usize, Bool, PtrTo(I32), SliceOf(I32), ArrayOf(I32, 2), Prim("str"), StructS,
               EnumOf(4), I8>>
L(i) == Nd("LOCAL", i, SlotTypes[i], <<>>, i - 1)
Fn(ret) == [name |-> "app.f", ret |-> ret, noreturn |-> FALSE, params |-> <<>>,
            slots |-> [i \in DOMAIN SlotTypes |-> Slot("local", i - 1, SlotTypes[i])]]
Op(k, t, a, trap) == Trapping(Nd(k, 20, t, a, 0), trap)
Lit(k, t, c) == Nd(k, 20, t, <<>>, Const(c, t, 1))
Callee == [k |-> "FUNCTION", noreturn |-> FALSE, ret |-> I32,
           params |-> << Param("s", SliceOf(I32), 0) >>]

Each(set, op(_)) == LET q == SetToSeq(set) IN [i \in DOMAIN q |-> op(q[i])]

\* A well-formed node of every kind.
WellFormed ==
  <<Lit("INT", I32, "int"), Lit("BOOL", Bool, "bool"), Lit("STR", Prim("str"), "str"),
   Lit("ENUM_VAL", EnumOf(4), "enum"), Op("NULL", PtrTo(I32), <<>>, ""), L(1),
   Nd("GLOBAL", 20, I32, <<>>, [k |-> "GLOBAL_VAR", t |-> I32]),
   [Op("FIELD_ADDR", PtrTo(Bool), <<L(8)>>, "") EXCEPT !.x = 2],
   Op("INDEX_ADDR", PtrTo(I32), <<L(5), L(2)>>, "R0807"),
   Op("INDEX_ADDR", PtrTo(Prim("u8")), <<L(7), L(2)>>, "R0807"),
   Op("DEREF", I32, <<L(4)>>, "R0809"), Op("LOAD", I32, <<L(1)>>, ""), Op("LOAD", Bool, <<L(3)>>, "R0805"),
   Op("STORE", NoType, <<L(1), L(1)>>, ""), Op("ZERO", NoType, <<L(8)>>, ""),
   Op("NEG", I32, <<L(1)>>, "R0802"), Op("BNOT", I32, <<L(1)>>, ""), Op("LNOT", Bool, <<L(3)>>, ""),
   Op("SELECT", I32, <<L(3), L(1), L(1)>>, ""), Op("LEN", Usize, <<L(5)>>, ""),
   Op("PTR", PtrTo(I32), <<L(5)>>, ""), Op("SLICE", SliceOf(I32), <<L(6), L(2), None>>, "R0807"),
   Op("SLICE", Prim("str"), <<L(7), L(2), L(2)>>, "R0808"), Op("CAST", I8, <<L(1)>>, "R0801"),
   Op("WRAP", I8, <<L(1)>>, ""), Op("PTR_DIFF", Prim("isize"), <<L(4), L(4)>>, "R0816"),
   Op("SLICE_EQ", Bool, <<L(5), L(5)>>, ""), [Op("CALL", I32, <<L(5)>>, "") EXCEPT !.x = Callee],
   Nd("RETURN", 20, NoType, <<L(1)>>, 0), Nd("LOCAL_DECL", 20, NoType, <<L(1)>>, 0),
   Nd("TRAP", 20, NoType, <<>>, [code |-> "R0801", user |-> FALSE, known |-> TRUE, num |-> 0, top |-> 9])>>
  \o Each(Arith, LAMBDA k : Op(k, I32, <<L(1), L(1)>>, "R0802"))
  \o Each(Bitwise2, LAMBDA k : Op(k, I32, <<L(1), L(1)>>, ""))
  \o Each(Shifts, LAMBDA k : Op(k, I32, <<L(1), L(2)>>, "R0804"))
  \o Each(Ordered \cup {"EQ", "NE"}, LAMBDA k : Op(k, Bool, <<L(1), L(1)>>, ""))
  \o Each(Ordered \cup {"EQ", "NE"}, LAMBDA k : Op(k, Bool, <<L(7), L(7)>>, ""))
  \o Each({"LAND", "LOR"}, LAMBDA k : Op(k, Bool, <<L(3), L(3)>>, ""))
  \o Each({"PTR_ADD", "PTR_SUB"}, LAMBDA k : Op(k, PtrTo(I32), <<L(4), L(2)>>, "R0816"))

Fault(n, kind, at, good) == [n |-> n, kind |-> kind, at |-> at, good |-> good]
NodeFaults(n) ==
  FlattenSeq([i \in DOMAIN n.a |->
                [j \in 1 .. 11 |-> Fault([n EXCEPT !.a[i] = IF j = 11 THEN None ELSE L(j)], "operand", i, n)]])
  \o [j \in 1 .. 12 |-> Fault([n EXCEPT !.t = (SlotTypes \o <<NoType, Void>>)[j]], "type", 0, n)]
  \o Each({"", "R0801", "R0802", "R0804", "R0805", "R0807", "R0809"},
          LAMBDA c : Fault(Trapping(n, c), "trap", 0, n))
  \o Each({[Sound EXCEPT !.span = FALSE], [Sound EXCEPT !.links = <<>>],
           [Sound EXCEPT !.links = <<TRUE, FALSE>>], [Sound EXCEPT !.root = FALSE]},
          LAMBDA m : Fault([n EXCEPT !.meta = m], "meta", 0, n))

\* Other forms of a kind that section 5.3 of IR-CONTRACT allows as well: what
\* an operand, or the result, may be besides.
OperandForms(n, i) ==
  CASE n.k \in Shifts \cup {"PTR_ADD", "PTR_SUB"} /\ i = 2 -> IntTypes
    [] n.k = "LEN" -> Sequential
    [] n.k \in {"PTR", "INDEX_ADDR", "SLICE"} /\ i = 1 -> {"array", "slice"}
    [] n.k = "ZERO" -> {"struct", "array"}
    [] OTHER -> {}
ResultForms(n) == IF n.k = "NULL" THEN {"ptr"} ELSE {}

\* The implicit conversions of the language between the types above, and its
\* matrix of casts, both of its sections 11.1 and 11.2.
Widens(a, b) == a.k \in IntTypes /\ (a = b \/ (a = I8 /\ b = I32))
Casts(from, to) ==
  LET Either(A, B) == (from.k \in A /\ to.k \in B) \/ (from.k \in B /\ to.k \in A)
  IN \/ Either(IntTypes, IntTypes \cup {"bool"})
     \/ from.k \in IntTypes /\ to.k \in {"enum", "ptr"}
     \/ from.k = "enum" /\ to \in {I32, from}
     \/ from.k = "ptr" /\ to.k \in {"ptr", "usize"}
     \/ from = to /\ to.k = "bool"
Related(n) ==
  LET l == n.a[1].t
  IN CASE n.k \in Arith \cup Bitwise2 ->
            LET r == n.a[2].t IN n.t \in {l, r} /\ Widens(l, n.t) /\ Widens(r, n.t)
       [] n.k = "CAST" -> Casts(l, n.t)
       [] n.k = "WRAP" -> l.k \in IntTypes \cup {"enum"} /\ n.t.k \in IntTypes
       [] OTHER -> FALSE

\* The verifier never relates these types to each other.
Unrelated(n) ==
  LET ts == {n.t} \cup {n.a[i].t : i \in DOMAIN n.a}
  IN CASE n.k \in Arith \cup Bitwise2 -> \A t \in ts : t.k \in IntTypes
       [] n.k \in {"CAST", "WRAP"} -> \A t \in ts : t.k \notin {"none", "void"}
       [] OTHER -> FALSE

\* What was replaced is what the contract allows.
Allowed(f) ==
  LET Typing == f.kind \in {"operand", "type"}
  IN \/ f.n = f.good
     \/ Typing /\ Related(f.n)
     \/ f.kind = "operand" /\ f.n.a[f.at].t.k \in OperandForms(f.good, f.at)
                           /\ (f.good.a[1].t.k = "str" => f.good.k \notin {"INDEX_ADDR", "SLICE"})
     \/ f.kind = "operand" /\ f.good.k = "SLICE" /\ f.at > 1
                           /\ (f.n.a[f.at].k = "NONE" \/ f.n.a[f.at].t = Usize)
     \/ f.kind = "type" /\ f.n.t.k \in ResultForms(f.good)
     \/ f.kind = "trap" /\ (f.n.trap \in TrapCodes(f.good.k) \/ f.good.k = "TRAP")

-----------------------------------------------------------------------------
(* The fields of a struct of 4 bytes.                                      *)

Field(off, size) == [name |-> "f", t |-> I32, span |-> TRUE, off |-> off, size |-> size]
Layouts == {<<Field(o1, s1), Field(o2, s2), Field(o3, s3)>> :
              o1 \in {-1, 0, 1}, o2, o3 \in 0 .. 5, s1, s2, s3 \in 0 .. 2}

-----------------------------------------------------------------------------
(* Whole builds, sound or with one fault.                                  *)

Decl(k, id, x) == Nd(k, id, NoType, <<>>, x)
Rich ==
  LET v == Const("int", I32, 1)
      main == [Fn(I32) EXCEPT !.params = << Param("a", I32, 0) >>,
                              !.slots = << Slot("param", 0, I32), Slot("local", 1, I32) >>]
  IN [mods |-> << Nd("MODULE", 0, NoType,
        << Decl("IMPORT", 1, [name |-> "rt.proc"]),
           Decl("STRUCT_DECL", 3, [name |-> "S", size |-> 8, align |-> 4, fields |-> << Field(0, 4), Field(4, 4) >>]),
           Decl("ENUM_DECL", 4, [name |-> "E", under |-> I32, members |-> << [name |-> "A", span |-> TRUE] >>]),
           Decl("GLOBAL_CONST", 5, [name |-> "k", t |-> I32, value |-> v]),
           Decl("GLOBAL_VAR", 6, [name |-> "g", t |-> I32, value |-> v]),
           Nd("FUNCTION", 7, NoType, << Nd("BLOCK", 8, NoType, << Nd("RETURN", 9, NoType, << Nd("INT", 10, I32, <<>>, v) >>, 0) >>, 0) >>, main) >>,
        [name |-> "app", imports |-> 1]),
        Nd("MODULE", 2, NoType, <<>>, [name |-> "rt.proc", imports |-> 0]) >>,
      ids |-> [i \in 1 .. 11 |-> i - 1],
      types |-> {I32, StructOf(3, <<>>), EnumOf(4), ArrayOf(I32, 2), PtrTo(I32)},
      addrs |-> {[t |-> PtrTo(I32), target |-> "GLOBAL_VAR"]}]

DeclFaults ==
  LET With(i, x) == [Rich EXCEPT !.mods[1].a[i].x = x]
      Of(i) == Rich.mods[1].a[i].x
  IN <<With(1, [name |-> ""]), With(2, [Of(2) EXCEPT !.align = 0]), With(2, [Of(2) EXCEPT !.size = 7]),
      With(2, [Of(2) EXCEPT !.fields[2].off = 3]), With(2, [Of(2) EXCEPT !.fields[1].t = Void]),
      With(3, [Of(3) EXCEPT !.under = Bool]), With(3, [Of(3) EXCEPT !.members[1].span = FALSE]),
      With(4, [Of(4) EXCEPT !.value = NoConst]), With(5, [Of(5) EXCEPT !.t = Bool]),
      With(6, [Of(6) EXCEPT !.slots[1].kind = "local"]), With(6, [Of(6) EXCEPT !.slots[2].index = 2]),
      With(6, [Of(6) EXCEPT !.slots[2].kind = "param"]), With(6, [Of(6) EXCEPT !.slots[2].t = Void]),
      With(6, [Of(6) EXCEPT !.params[1].slot = 1]), With(6, [Of(6) EXCEPT !.params[1].span = FALSE]), With(6, [Of(6) EXCEPT !.slots = <<>>]),
      With(6, [Of(6) EXCEPT !.noreturn = TRUE]), With(6, [Of(6) EXCEPT !.ret = Bool]),
      With(6, [Of(6) EXCEPT !.ret = NoType]),
      [Rich EXCEPT !.mods[1].a[6].a[1] = None], [Rich EXCEPT !.mods[1].a[6].a[1].a = <<>>],
      [Rich EXCEPT !.mods[1].a[1] = Rich.mods[1].a[4]], [Rich EXCEPT !.mods[1].a[5].k = "EMPTY"],
      [Rich EXCEPT !.mods[2].x.name = "app"], [Rich EXCEPT !.mods[2].x.name = ""],
      [Rich EXCEPT !.mods[2].k = "BLOCK"], [Rich EXCEPT !.ids[3] = 1], [Rich EXCEPT !.ids[3] = 11],
      [Rich EXCEPT !.ids = Append(@, 11)], [Rich EXCEPT !.types = @ \cup {ArrayOf(I32, -1)}],
      [Rich EXCEPT !.types = @ \cup {Prim("ptr")}], [Rich EXCEPT !.types = @ \cup {StructOf(99, <<>>)}],
      [Rich EXCEPT !.addrs = {[t |-> I32, target |-> "GLOBAL_VAR"]}],
      [Rich EXCEPT !.addrs = {[t |-> PtrTo(I32), target |-> "GLOBAL_CONST"]}]>>

-----------------------------------------------------------------------------
VARIABLES input, stage, records, built, found
vars == <<input, stage, records, built, found>>

NotBuilt == [ok |-> FALSE]
In(fam, f) == [fam |-> fam, f |-> f]
InFamily ==
  \/ /\ "functions" \in Programs
     /\ \E f \in Functions : input = In("fn", f)
  \/ /\ "exits" \in Programs
     /\ \E q \in Bodies2(FALSE) : input = In("fn", [void |-> FALSE, body |-> Block(q)])
  \/ /\ "graphs" \in Programs
     /\ \/ \E f \in FaultBodies : \E g \in {FaultyBodies(f)} : \E i \in DOMAIN g :
             input = In("body", [void |-> f.void, block |-> g[i]])
        \/ \E w \in DOMAIN WellFormed : \E q \in {NodeFaults(WellFormed[w])} : \E i \in DOMAIN q :
             input = In("node", q[i])
        \/ \E i \in DOMAIN DeclFaults : input = In("build", [build |-> DeclFaults[i]])
        \/ input = In("build", [build |-> Rich])
        \/ \E q \in Layouts : input = In("struct", [fields |-> q])

Init == /\ InFamily
        /\ stage = "read"
        /\ records = <<>> /\ built = NotBuilt /\ found = {}

\* The semantic checks of the statements of a function.
Analyse == /\ stage = "read" /\ input.fam = "fn"
           /\ records' = Records(input.f)
           /\ stage' = IF records' = <<>> THEN "accepted" ELSE "rejected"
           /\ UNCHANGED <<input, built, found>>

\* The builder runs on what the checks accept.
Build == /\ stage = "accepted"
         /\ built' = Builder(input.f)
         /\ stage' = IF built'.ok THEN "built" ELSE "refused"
         /\ UNCHANGED <<input, records, found>>

VerifyBuilt == /\ stage = "built"
               /\ found' = Verify(Graph(built))
               /\ stage' = "verified"
               /\ UNCHANGED <<input, records, built>>

BodyFn(f) == [Fn(IF f.void THEN Void ELSE I32) EXCEPT !.slots = ParamSlots(MainParams), !.params = MainParams]
Findings(x) ==
  CASE x.fam = "body" -> VerifyNode(Nd("FUNCTION", 2, NoType, <<x.f.block>>, BodyFn(x.f)), {}, NoFn)
    [] x.fam = "node" -> VerifyNode(x.f.n, {}, Fn(I32))
    [] x.fam = "build" -> Verify(x.f.build)
    [] x.fam = "struct" ->
         VerifyNode(Decl("STRUCT_DECL", 3, [name |-> "S", size |-> 4, align |-> 1, fields |-> x.f.fields]), {}, NoFn)

\* A graph that did not come from the builder.
VerifyGraph == /\ stage = "read" /\ input.fam # "fn"
               /\ found' = Findings(input)
               /\ stage' = "verified"
               /\ UNCHANGED <<input, records, built>>

Next == Analyse \/ Build \/ VerifyBuilt \/ VerifyGraph
Spec == Init /\ [][Next]_vars

-----------------------------------------------------------------------------
(* Properties.                                                             *)

SourceRuns(f) == {[tr |-> r.tr, out |-> r.out] : r \in Run(f.body, <<>>, MaxTrace)}
GraphRuns(b)  == {[tr |-> r.tr, out |-> r.out] : r \in Exec(b, "do", MaxTrace)}

\* The IR of a function runs as its source does: the same events in the same
\* order, once per iteration where the source has them in a loop, jumps to
\* the construct the source means, and the same ends (map_stmt and the
\* refusals of lower_per_iteration).
MeaningKept == stage = "built" => SourceRuns(input.f) = GraphRuns(built.block)

NeedsEachRound(s) == \/ s.k = "while" /\ s.x = "e"
                     \/ s.k = "for" /\ "e" \in {s.x, s.step}
RECURSIVE Somewhere(_, _)
Somewhere(s, kinds) ==
  \/ "round" \in kinds /\ NeedsEachRound(s)
  \/ s.k \in kinds
  \/ \E i \in DOMAIN s.a : Somewhere(s.a[i], kinds)

\* The builder agrees with the checks before it and with the verifier after
\* it: what it builds verifies, and it refuses an accepted function only for
\* work to be done on each iteration, or for a tail that the verifier itself
\* would report, and nothing else of that graph.
BuilderAgrees ==
  /\ (stage = "verified" /\ input.fam = "fn") => found = {}
  /\ stage = "refused" => \/ Somewhere(input.f.body, {"round"})
                          \/ built.B.ok /\ Verify(Graph(built)) = {<<5, 2>>}

\* A statement reported as unreachable is never executed, whatever the
\* conditions are.
UnreachableTrue ==
  stage = "rejected" =>
    \A i \in DOMAIN records :
      records[i][1] = "E0417" =>
        \A r \in SourceRuns(input.f) : \A j \in DOMAIN r.tr : ~IsPrefix(records[i][2], r.tr[j][1])

\* May the function end without returning a value it should return?
FallsOff(f) == ~f.void /\ \E r \in SourceRuns(f) : r.out = "next"

\* Every path of a function with a result ends in a return or in a call that
\* does not return, when the function was accepted, built and verified.
EveryPathReturns == (stage = "verified" /\ input.fam = "fn") => ~FallsOff(input.f)

RECURSIVE HiddenBreak(_, _)
\* A break under an if or a block in a clause of a switch, or under an
\* "else if": the checks do not look there for it.
HiddenBreak(s, hidden) ==
  \/ s.k = "brk" /\ hidden
  \/ \E i \in DOMAIN s.a :
       CASE s.k \in {"case", "default"} ->
              LET q == s.a[1].a IN \E j \in DOMAIN q : q[j].k # "brk" /\ HiddenBreak(q[j], TRUE)
         [] s.k \in LoopKinds -> HiddenBreak(s.a[i], FALSE)
         [] s.k = "if" -> HiddenBreak(s.a[i], hidden \/ s.a[i].k = "if")
         [] OTHER -> HiddenBreak(s.a[i], hidden)

\* A function the checks accept never falls off its end, unless it hides a
\* break from them.
EndUnreached ==
  (stage = "accepted" /\ ~HiddenBreak(input.f.body, FALSE)) => ~FallsOff(input.f)

\* What the reachability checks say of a function is true of its runs: what
\* they call unreachable is never run, and what they let pass does not fall
\* off its end (stmt_reach.c).
ReachTrue == UnreachableTrue /\ EndUnreached

RECURSIVE OddBreaks(_, _, _)
\* The places of the breaks that go to another construct than the nearest one,
\* or stand neither directly in its body nor in a clause of it.
OddBreaks(n, nearest, direct) ==
  (IF n.k = "BREAK" /\ ~(direct /\ n.x.id = nearest) THEN {n.src} ELSE {})
  \cup UNION {CASE n.k \in Loops \cup {"SWITCH"} -> OddBreaks(n.a[i], n.id, TRUE)
                [] n.k \in {"CASE", "DEFAULT"} -> OddBreaks(n.a[i], nearest, TRUE)
                [] n.k = "BLOCK" -> OddBreaks(n.a[i], nearest, direct /\ n.a[i].k \notin {"BLOCK", "IF"})
                [] OTHER -> OddBreaks(n.a[i], nearest, FALSE) : i \in DOMAIN n.a}

\* Every jump of a body that verifies, wherever the body came from and
\* whichever construct the jump names, lands in a construct around it: no run
\* leaves the function by a break or a continue.  And a run that reaches the
\* end of a function with a result has taken a break that the verifier does
\* not look for: one past the nearest construct, or one under an if or in a
\* block of its own (verify_kind, block_terminates in ir_core.c).
VerifiedRuns ==
  (stage = "verified" /\ input.fam = "body" /\ found = {}) =>
    \A r \in GraphRuns(input.f.block) :
      /\ r.out \in {"ret", "stop", "cut", "next"}
      /\ (r.out = "next" /\ ~input.f.void) =>
           \E j \in DOMAIN r.tr : /\ r.tr[j][2] = "brk"
                                  /\ r.tr[j][1] \in OddBreaks(input.f.block, -1, FALSE)

\* A node or a build that the contract allows is not reported, and one with a
\* thing replaced that it does not allow is, unless all that is wrong is how
\* the types of the operands and of the result of integer arithmetic or of a
\* conversion go together.
FaultsReported ==
  stage = "verified" =>
    /\ input.fam = "node" =>
         /\ Allowed(input.f) => found = {}
         /\ found = {} => \/ Allowed(input.f)
                          \/ input.f.kind \in {"operand", "type"} /\ Unrelated(input.f.n)
    /\ input.fam = "build" => (found = {} <=> input.f.build = Rich)

\* The fields of a struct that verifies lie within it and share no byte.
VerifiedLayout ==
  (stage = "verified" /\ input.fam = "struct" /\ found = {}) =>
    LET q == input.f.fields
        Bytes(i) == q[i].off .. q[i].off + q[i].size - 1
    IN \A i \in DOMAIN q : Bytes(i) \subseteq 0 .. 3
                           /\ \A j \in DOMAIN q : i # j => Bytes(i) \cap Bytes(j) = {}

=============================================================================
