------------------------------ MODULE MCParse ------------------------------
(***************************************************************************)
(* Files for the parser: every short word over several alphabets, trees    *)
(* of a bounded grammar written out, the small ones cut short, and good    *)
(* files with a wrong statement or declaration put in.  The answer is      *)
(* held against Unparse, which writes a tree back as tokens.               *)
(***************************************************************************)
EXTENDS Parse, TLC

VARIABLE given      \* what the file was made of: [how, tree]

-----------------------------------------------------------------------------
(* Trees and their tokens                                                    *)

T(k, t, kids) == Node(k, t, kids, 0, 0)
None == Absent[1]
RECURSIVE Shape(_)
Shape(n) == T(n.k, n.t, [i \in DOMAIN n.kids |-> Shape(n.kids[i])])
RECURSIVE Nodes(_)
Nodes(n) == {n} \union UNION {Nodes(n.kids[i]) : i \in DOMAIN n.kids}

Join(seqs, sep) == FoldLeft(LAMBDA acc, s : IF acc = <<>> THEN s ELSE acc \o <<sep>> \o s, <<>>, seqs)
Dotted(names) == Join([i \in DOMAIN names |-> <<names[i]>>], ".")

RECURSIVE Unparse(_)
Unparse(n) ==
  LET K(i) == Unparse(n.kids[i])
      All == [i \in DOMAIN n.kids |-> K(i)]
      From(i, j) == SubSeq(All, i, j)
      Opt(lead, i) == IF n.kids[i] = None THEN <<>> ELSE lead \o K(i)
      Pub == SubSeq(n.t, 1, Len(n.t) - 1)
      Ident == <<Last(n.t)>>
  IN CASE n.k = "none" -> <<>>
       [] n.k \in {"lit", "ident", "tprim", "empty"} -> n.t
       [] n.k = "paren" -> <<"(">> \o K(1) \o <<")">>
       [] n.k = "list" -> <<"[">> \o Join(All, ",") \o <<"]">>
       [] n.k = "repeat" -> <<"[">> \o K(1) \o <<";">> \o K(2) \o <<"]">>
       [] n.k = "slice" -> K(1) \o <<"[">> \o K(2) \o <<"..">> \o K(3) \o <<"]">>
       [] n.k = "index" -> K(1) \o <<"[">> \o K(2) \o <<"]">>
       [] n.k = "call" -> K(1) \o <<"(">> \o Join(From(2, Len(All)), ",") \o <<")">>
       [] n.k = "init" -> K(1) \o <<"{">> \o Join(From(2, Len(All)), ",") \o <<"}">>
       [] n.k = "finit" -> n.t \o <<":">> \o K(1)
       [] n.k = "member" -> K(1) \o <<".">> \o n.t
       [] n.k = "arrow" -> K(1) \o <<"->">> \o n.t
       [] n.k \in {"sizeof type", "sizeof expr"} -> <<"sizeof", "(">> \o K(1) \o <<")">>
       [] n.k \in {"alignof", "len", "ptr"} -> <<n.k, "(">> \o K(1) \o <<")">>
       [] n.k \in {"cast", "wrap"} -> <<n.k, "<">> \o K(1) \o <<">", "(">> \o K(2) \o <<")">>
       [] n.k = "un" -> n.t \o K(1)
       [] n.k \in {"bin", "assign"} -> K(1) \o n.t \o K(2)
       [] n.k = "ternary" -> K(1) \o <<"?">> \o K(2) \o <<":">> \o K(3)
       [] n.k \in {"tnamed", "qname"} -> Dotted(n.t)
       [] n.k = "tptr" -> K(1) \o <<"*">>
       [] n.k = "tslice" -> K(1) \o <<"[", "]">>
       [] n.k = "tarray" -> K(1) \o <<"[">> \o K(2) \o <<"]">>
       [] n.k = "block" -> <<"{">> \o FlattenSeq(All) \o <<"}">>
       [] n.k \in {"var", "const"} -> Pub \o <<n.k>> \o Ident \o <<":">> \o K(1) \o Opt(<<"=">>, 2) \o <<";">>
       [] n.k = "if" -> <<"if", "(">> \o K(1) \o <<")">> \o K(2) \o Opt(<<"else">>, 3)
       [] n.k = "while" -> <<"while", "(">> \o K(1) \o <<")">> \o K(2)
       [] n.k = "for" -> <<"for", "(">> \o K(1) \o (IF n.kids[1].k \in {"var", "const"} THEN <<>> ELSE <<";">>)
                         \o K(2) \o <<";">> \o K(3) \o <<")">> \o K(4)
       [] n.k = "switch" -> <<"switch", "(">> \o K(1) \o <<")", "{">> \o FlattenSeq(From(2, Len(All))) \o <<"}">>
       [] n.k = "case" -> <<"case">> \o K(1) \o <<":">> \o K(2)
       [] n.k = "default" -> <<"default", ":">> \o K(1)
       [] n.k \in {"break", "continue"} -> <<n.k, ";">>
       [] n.k = "return" -> <<"return">> \o K(1) \o <<";">>
       [] n.k = "expr" -> K(1) \o <<";">>
       [] n.k \in {"module", "import"} -> <<n.k>> \o K(1) \o <<";">>
       [] n.k = "field" -> n.t \o <<":">> \o K(1) \o <<";">>
       [] n.k = "param" -> n.t \o <<":">> \o K(1)
       [] n.k = "struct" -> Pub \o <<"struct">> \o Ident \o <<"{">> \o FlattenSeq(All) \o <<"}">>
       [] n.k = "member decl" -> n.t \o Opt(<<"=">>, 1)
       [] n.k = "enum" -> Pub \o <<"enum">> \o Ident \o <<":">> \o K(1) \o <<"{">>
                          \o Join(From(2, Len(All)), ",") \o <<"}">>
       [] n.k = "fn" -> Pub \o <<"fn">> \o Ident \o <<"(">> \o Join(From(1, Len(All) - 2), ",")
                        \o <<")", "->">> \o K(Len(All) - 1) \o K(Len(All))

\* `pub` is part of a declaration and stands before its span.
Flags(n) == IF n.k \in {"struct", "enum", "fn", "var", "const"} THEN Len(n.t) - 1 ELSE 0
Spanned(n) == LET ts == Unparse(n) IN SubSeq(ts, Flags(n) + 1, Len(ts))

\* How tightly a node binds, from 0 (operands and postfixes) to 13.
Loose(n) == CASE n.k = "assign" -> 13
              [] n.k = "ternary" -> 12
              [] n.k = "bin" -> 1 + (CHOOSE l \in DOMAIN Levels : n.t[1] \in Levels[l])
              [] n.k \in {"un", "sizeof type", "sizeof expr", "alignof", "cast", "wrap", "len", "ptr"} -> 1
              [] OTHER -> 0
Bound(n, i) == CASE n.k = "bin" -> IF i = 1 THEN Loose(n) ELSE Loose(n) - 1
                 [] n.k = "un" -> 1
                 [] n.k = "ternary" -> <<11, 13, 12>>[i]
                 [] n.k = "assign" -> <<12, 13>>[i]
                 [] n.k \in {"index", "slice", "call", "init", "member", "arrow"} -> IF i = 1 THEN 0 ELSE 13
                 [] OTHER -> 13
Binds(n) == \A i \in DOMAIN n.kids : Loose(n.kids[i]) <= Bound(n, i)

-----------------------------------------------------------------------------
(* Words                                                                     *)

Words(alphabet, n) == {FlattenSeq(w) : w \in UNION {[1..k -> alphabet] : k \in 0..n}}
W1(set) == {<<x>> : x \in set}
InFn(body) == <<"fn", "f", "(", ")", "->", "void", "{">> \o body \o <<"}">>

ExprWords == {<<"const", "a", ":", "i8", "=">> \o w \o <<";">> : w \in
  Words(W1({"a", "1", "+", "*", "-", "(", ")", "[", "]", ",", "?", ":", "=", "{", "}", ".."}), 3)
  \union Words({<<"a">>, <<".">>, <<"->">>, <<"==">>, <<"<<">>, <<"&&">>, <<"cast", "<", "T", ">", "(">>,
                <<"sizeof", "(">>, <<"alignof", "(">>, <<"len", "(">>, <<")">>, <<"{">>, <<":">>, <<"}">>}, 3)}
TypeWords == {<<"var", "a", ":">> \o w \o <<";">> : w \in
  Words(W1({"a", "i8", ".", "*", "[", "]", "1", "="}), 4)}
StmtWords == {InFn(w) : w \in
  Words({<<"{">>, <<"}">>, <<";">>, <<"a", ";">>, <<"if", "(", "a", ")">>, <<"else">>, <<"while", "(", "a", ")">>,
         <<"return">>, <<"break">>, <<"switch", "(", "a", ")", "{">>, <<"case", "1", ":">>, <<"default", ":">>,
         <<"for", "(">>, <<")">>, <<"var", "a", ":", "i8">>, <<"=">>}, 3)}
HeadPieces == {<<"module", "a">>, <<"import", "a">>, <<".">>, <<";">>, <<"a">>, <<"pub">>}
FnPieces   == {<<"fn", "f", "(">>, <<"a", ":", "i8">>, <<")", "->", "i8">>, <<"}">>, <<"{">>, <<",">>, <<";">>}
DataPieces == {<<"struct", "T">>, <<"enum", "E", ":", "i8", "{">>, <<"a", ":", "i8">>, <<"a">>, <<"=">>,
               <<"}">>, <<"{">>, <<",">>}
TopWords == Words(HeadPieces, 4) \union Words(FnPieces, 4) \union Words(DataPieces, 4)
            \union Words(HeadPieces \union FnPieces \union DataPieces, 3)
ScopePieces == {<<"{">>, <<"}">>, <<"var", "T", ":", "i8", ";">>, <<"sizeof", "(", "T", ")", ";">>}
ScopeWords == {s \o InFn(w) \o t :
  s \in {<<>>, <<"struct", "T", "{", "}">>, <<"fn", "g", "(", "T", ":", "i8", ")", "->", "void", "{", "}">>},
  t \in {<<>>, <<"struct", "T", "{", "}">>},
  w \in Words(ScopePieces, 4)
        \union Words(ScopePieces \union
              {<<"for", "(", "var", "T", ":", "i8", "=", "sizeof", "(", "T", ")", ";", ";", ")", "{">>,
               <<"if", "(", "sizeof", "(", "T", ")", ")", "{">>, <<"var", "T">>}, 3)}

-----------------------------------------------------------------------------
(* Trees of a bounded grammar                                                *)

A == T("ident", <<"a">>, <<>>)
One == T("lit", <<"1">>, <<>>)
I8 == T("tprim", <<"i8">>, <<>>)
Empty == T("block", <<>>, <<>>)
\* One layer of expression over a set of operands.
Over(S) == {n \in
  {T("bin", <<op>>, <<x, y>>) : op \in {"*", "+", "<<", "<", "==", "&", "^", "|", "&&", "||"}, x \in S, y \in S}
  \union {T("un", <<op>>, <<x>>) : op \in {"-", "*", "&", "!"}, x \in S}
  \union {T("ternary", <<>>, <<x, y, z>>) : x \in S, y \in S, z \in S}
  \union {T("assign", <<op>>, <<x, y>>) : op \in {"=", "<<="}, x \in S, y \in S}
  \union {T(k, <<>>, <<x, y>>) : k \in {"index", "call", "list", "repeat"}, x \in S, y \in S}
  \union {T(k, <<>>, <<x>>) : k \in {"paren", "len", "call", "list"}, x \in S}
  \union {T("slice", <<>>, <<x, None, y>>) : x \in S, y \in S \union {None}}
  \union {T("slice", <<>>, <<x, y, z>>) : x \in S, y \in S, z \in {None, One}}
  \union {T(k, <<"a">>, <<x>>) : k \in {"member", "arrow"}, x \in S}
  \union {T("init", <<>>, <<x, T("finit", <<"a">>, <<y>>)>>) : x \in {A}, y \in S}
  \union {T("cast", <<>>, <<I8, x>>) : x \in S} : Binds(n)}
Exprs1 == Over({A, One})
Exprs2 == Over({A, T("bin", <<"*">>, <<A, A>>), T("bin", <<"+">>, <<A, A>>), T("bin", <<"-">>, <<A, A>>),
               T("un", <<"-">>, <<A>>), T("assign", <<"=">>, <<A, One>>), T("bin", <<"&&">>, <<A, A>>),
               T("ternary", <<>>, <<A, A, A>>), T("index", <<>>, <<A, One>>), T("bin", <<"<">>, <<A, A>>)})

Block(s) == T("block", <<>>, s)
Simple == {T("empty", <<";">>, <<>>), T("expr", <<>>, <<A>>), T("return", <<>>, <<None>>),
           T("return", <<>>, <<One>>), T("var", <<"T">>, <<I8, None>>), T("const", <<"a">>, <<I8, One>>),
           T("break", <<>>, <<>>)}
Compound(B) ==
  {T("if", <<>>, <<A, b, None>>) : b \in B} \union {T("if", <<>>, <<A, b, b2>>) : b \in B, b2 \in B}
  \union {T("while", <<>>, <<A, b>>) : b \in B} \union B
  \union {T("for", <<>>, <<i, x, y, b>>) : i \in {None, A, T("var", <<"a">>, <<I8, None>>)},
                                            x \in {None, A}, y \in {None, A}, b \in B}
  \union {T("switch", <<>>, <<A>> \o cs) : cs \in {<<>>} \union {<<T("case", <<>>, <<One, b>>)>> : b \in B}
             \union {<<T("case", <<>>, <<One, b>>), T("default", <<>>, <<b2>>)>> : b \in B, b2 \in B}}
  \union {T("if", <<>>, <<A, b, T("if", <<>>, <<One, b2, Empty>>)>>) : b \in B, b2 \in B}
Blocks1 == {Block(<<>>)} \union {Block(<<s>>) : s \in Simple}
Stmts1 == Compound(Blocks1)
Stmts2 == Compound({Block(<<s, T("expr", <<>>, <<A>>)>>) : s \in Compound({Empty})})
FnOf(params, b) == T("fn", <<"f">>, params \o <<I8, b>>)
Param(x) == T("param", <<x>>, <<I8>>)
Field(t) == T("field", <<"a">>, <<t>>)
TypeTrees == {I8, T("tnamed", <<"a", "T">>, <<>>), T("tptr", <<>>, <<I8>>), T("tslice", <<>>, <<T("tptr", <<>>, <<I8>>)>>),
              T("tarray", <<>>, <<T("tslice", <<>>, <<I8>>), One>>), T("tptr", <<>>, <<T("tarray", <<>>, <<I8, A>>)>>)}
Decls == {T("struct", p \o <<"T">>, fs) : p \in {<<>>, <<"pub">>},
                                          fs \in {<<>>} \union {<<Field(t)>> : t \in TypeTrees} \union {<<Field(I8), Field(I8)>>}}
         \union {T("enum", p \o <<"E">>, <<I8>> \o ms) : p \in {<<>>, <<"pub">>}, ms \in
               {<<T("member decl", <<"a">>, <<None>>)>>,
                <<T("member decl", <<"a">>, <<One>>), T("member decl", <<"T">>, <<None>>)>>}}
         \union {FnOf(ps, Empty) : ps \in {<<>>, <<Param("a")>>, <<Param("a"), Param("T")>>}}
         \union {T("const", p \o <<"a">>, <<t, One>>) : p \in {<<>>, <<"pub">>}, t \in TypeTrees}
         \union {T("var", <<"a">>, <<I8, e>>) : e \in {None, A}}
Q(k, names) == T(k, <<>>, <<T("qname", names, <<>>)>>)
File(m, is, ds) == T("file", <<>>, <<T("part", <<>>, m), T("part", <<>>, is), T("part", <<>>, ds)>>)
Heads == {<<<<>>, <<>>>>, <<<<Q("module", <<"a">>)>>, <<>>>>,
          <<<<Q("module", <<"a", "T">>)>>, <<Q("import", <<"T">>), Q("import", <<"a", "E">>)>>>>}
Of(e) == File(<<>>, <<>>, <<T("const", <<"a">>, <<I8, e>>)>>)
SmallTrees == {Of(e) : e \in Exprs1} \union {File(<<>>, <<>>, <<FnOf(<<>>, Block(<<s>>))>>) : s \in Stmts1}
              \union {File(h[1], h[2], ds) : h \in Heads, ds \in {<<>>} \union {<<d>> : d \in Decls}}
LargeTrees == {Of(e) : e \in Exprs2} \union {File(<<>>, <<>>, <<FnOf(<<>>, Block(<<s>>))>>) : s \in Stmts2}
FileTokens(f) == FlattenSeq([i \in 1..3 |-> FlattenSeq([j \in DOMAIN f.kids[i].kids |-> Unparse(f.kids[i].kids[j])])])

\* Bad statements and declarations, put between good ones.
S1 == T("expr", <<>>, <<A>>)
S2 == T("while", <<>>, <<A, Empty>>)
BadStmts == {<<"a", "a">>, <<")", "a", ";">>, <<"a", "(", ";">>, <<"1", "+", ";">>, <<"var", "1", ";">>,
             <<"var", "a", "i8", ";">>, <<"a", "[", "1", ";">>, <<"fn", ";">>, <<"cast", "(", ";">>, <<"if", ";">>, <<"a", "=", "]">>,
             <<"if", "(", "a", ")", ";">>, <<"for", "(", ";">>, <<"a", "{", "1", ";">>, <<"else", "a", ";">>}
BadDecls == {<<"a">>, <<")", ";">>, <<"pub", "a", ";">>, <<"fn", "f", "(", "1", ")">>, <<"module", "a", ";">>,
             <<"import", "a", ";">>, <<"struct", ";">>, <<"enum", "E", "{">>, <<"var", "a", ";">>, <<"const", "a", ":", "i8">>}
GoodDecl == T("var", <<"a">>, <<I8, None>>)
Rest == File(<<>>, <<>>, <<GoodDecl, FnOf(<<>>, Block(<<S1, S2>>)), GoodDecl>>)
Wrong == {Unparse(GoodDecl) \o InFn(Unparse(S1) \o bad \o Unparse(S2)) \o Unparse(GoodDecl) : bad \in BadStmts}
         \union {Unparse(GoodDecl) \o bad \o Unparse(FnOf(<<>>, Block(<<S1, S2>>))) \o Unparse(GoodDecl) : bad \in BadDecls}

NoTree == File(<<>>, <<>>, <<>>)
Start(ts, how, tree) == tokens = ts /\ given = [how |-> how, tree |-> tree] /\ ParseInit
MCInit ==
  \/ \E w \in ExprWords \union TypeWords \union StmtWords \union TopWords \union ScopeWords : Start(w, "word", NoTree)
  \/ \E f \in SmallTrees \union LargeTrees : Start(FileTokens(f), "tree", f)
  \/ \E f \in SmallTrees : \E w \in {FileTokens(f)} : \E n \in 0..(Len(w) - 1) :
       Start(SubSeq(w, 1, n), "cut", NoTree)
  \/ \E w \in Wrong : Start(w, "wrong", Rest)
MCNext == Next /\ UNCHANGED given

-----------------------------------------------------------------------------
(* Properties                                                                *)

Built == program.module \o program.imports \o program.decls
AllNodes == UNION {Nodes(Built[i]) : i \in DOMAIN Built}
Accepted == phase = "done" /\ c.recs = <<>>

\* The tokens without the commas that may stand before a closer.
Norm(s) == LET keep(i) == ~(s[i] = "," /\ i < Len(s) /\ s[i + 1] \in {"]", "}"})
           IN FlattenSeq([i \in DOMAIN s |-> IF keep(i) THEN <<s[i]>> ELSE <<>>])

\* A file that is accepted is the tree that was built: every node, written out
\* without a `pub` before it, is the tokens of its span, operators bind as their levels say, and nothing
\* of the file is outside the tree.
TreeExact == Accepted =>
  /\ \A n \in AllNodes : n.k # "none" => Spanned(n) = Norm(SubSeq(tokens, n.s, n.e - 1)) /\ Binds(n)
  /\ FlattenSeq([i \in DOMAIN Built |-> Unparse(Built[i])]) = Norm(tokens)

\* Whatever the grammar generates is accepted, and parsed back as it was.
EveryTreeParsed == phase = "done" /\ given.how = "tree" =>
  /\ c.recs = <<>>
  /\ LET S(seq) == [i \in DOMAIN seq |-> Shape(seq[i])]
     IN File(S(program.module), S(program.imports), S(program.decls)) = given.tree

\* The operand of sizeof is taken for a type when it is the name of a struct
\* or an enum of the file, unless a parameter or a local that is visible there
\* has that name.
RECURSIVE Misread(_, _, _)
RECURSIVE MisreadAll(_, _, _)
Declares(n) == IF n.k \in {"var", "const", "param"} THEN {Last(n.t)} ELSE {}
\* (a declaration is in scope in its own initializer)
MisreadAll(kids, locals, names) ==
  \E i \in DOMAIN kids :
    Misread(kids[i], locals \union UNION {Declares(kids[j]) : j \in 1..i}, names)
Misread(n, locals, names) ==
  \/ /\ n.k \in {"sizeof type", "sizeof expr"} /\ n.kids[1].k \in {"tnamed", "ident"}
     /\ (n.k = "sizeof type") # (n.kids[1].t[1] \in names \ locals)
  \/ MisreadAll(n.kids, locals, names)
SizeofResolved == Accepted =>
  LET names == {Last(program.decls[i].t) : i \in {j \in DOMAIN program.decls : program.decls[j].k \in {"struct", "enum"}}}
  IN \A i \in DOMAIN program.decls : ~Misread(program.decls[i], {}, names)

\* A file that ends too early is blamed where it ends, or on the construct
\* whose block or initializer is missing: never on what was right.
TruncationBlamed == phase = "done" /\ given.how = "cut" /\ c.recs # <<>> =>
  \/ c.recs[1].s = Len(tokens) + 1
  \/ /\ c.recs[1].e = Len(tokens) + 1
     /\ c.recs[1].code = "S0104" \/ tokens[c.recs[1].s] = "{"

\* What is wrong with one statement or declaration costs that one: the rest of
\* the file is built as if it had not been there.
RECURSIVE Within(_, _)
Within(part, whole) == IF part = <<>> THEN TRUE
  ELSE IF whole = <<>> THEN FALSE
  ELSE IF Head(part) = Head(whole) THEN Within(Tail(part), Tail(whole)) ELSE Within(part, Tail(whole))
Stmts_of(decls) == FlattenSeq([i \in DOMAIN decls |->
  IF decls[i].k = "fn" THEN [j \in DOMAIN Last(decls[i].kids).kids |-> Shape(Last(decls[i].kids).kids[j])] ELSE <<Shape(decls[i])>>])
RecoveryLocal == phase = "done" /\ given.how = "wrong" =>
  /\ c.recs # <<>>
  /\ Within(Stmts_of(given.tree.kids[3].kids), Stmts_of(program.decls))

\* The authoritative record is the first fault in the file: records come in the
\* order of the tokens they blame.
RecordsOrdered == \A i, j \in DOMAIN c.recs : i < j => c.recs[i].s <= c.recs[j].s

\* What is accepted is what the grammar generates, parsed back as it was.
ParseExact == TreeExact /\ EveryTreeParsed

\* A fault is blamed where it is and costs nothing behind it.
FaultsBlamed == RecoveryLocal /\ TruncationBlamed /\ RecordsOrdered

\* Every step consumes tokens or ends a part of the file, and no loop turns on
\* the spot.
Progress == ~c'.stuck /\ (c'.pos > c.pos \/ phase' # phase)
=============================================================================
