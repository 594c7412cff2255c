------------------------------- MODULE Parse -------------------------------
(***************************************************************************)
(* The parser (src/parse/parse.c): recursive descent over the tokens of a  *)
(* file, without backtracking, with recovery.  The state of the parser is  *)
(* a record c with the tokens, the position `pos` in them, the syntax      *)
(* records `recs`, the names of the file's types, the scopes of local      *)
(* value names, and `stuck`, set if a loop turns without consuming one.    *)
(* Every parse operator returns [ok, c, kids]: the nodes it built, or      *)
(* none.  A node is [k, t, kids, s, e]: its kind, its texts, its children  *)
(* and the tokens s .. e-1 that its span covers.                           *)
(* Allocations succeed.                                                    *)
(***************************************************************************)
EXTENDS Integers, Sequences, SequencesExt, FiniteSetsExt, Functions

CONSTANTS
  Idents, Literals,   \* the identifiers and literals of the programs
  Item(_, _, _)       \* the descent into an item of a construct: Nonterminal

VARIABLES
  tokens,   \* the tokens of the file, without the end of file
  c,        \* the state of the parser
  phase,    \* "module", "imports", "decls", "done"
  program   \* what has been built: [module, imports, decls]
vars == <<tokens, c, phase, program>>

EOF == "EOF"
IntTypes == {"i8", "i16", "i32", "i64", "u8", "u16", "u32", "u64", "isize", "usize"}
Prims == IntTypes \union {"void", "bool", "str"}
UnaryOps == {"-", "+", "!", "~", "*", "&"}
StmtStarts == {"{", "var", "const", "if", "while", "for", "switch", "break", "continue", "return"}
TopStarts == {"pub", "struct", "enum", "fn", "var", "const"}
KeywordForms == {"sizeof", "alignof", "cast", "wrap", "len", "ptr"}
ExprStarts == Idents \union Literals \union {"true", "false", "null"} \union KeywordForms
              \union {"(", "[", "{"} \union UnaryOps
AssignOps == {"=", "+=", "-=", "*=", "/=", "%=", "<<=", ">>=", "&=", "|=", "^="}
Levels == <<{"*", "/", "%"}, {"+", "-"}, {"<<", ">>"}, {"<", "<=", ">", ">="}, {"==", "!="},
            {"&"}, {"^"}, {"|"}, {"&&"}, {"||"}>>

TokAt(d, i) == IF i <= Len(d.tokens) THEN d.tokens[i] ELSE EOF
Tok(d) == TokAt(d, d.pos)
advance(d) == [d EXCEPT !.pos = IF @ <= Len(d.tokens) THEN @ + 1 ELSE @]

\* Only the first record of a file is authoritative.
report_syntax(d, code, s, e) ==
  [d EXCEPT !.recs = Append(@, [code |-> code, s |-> s, e |-> e, first |-> @ = <<>>])]
err_expected(d) == report_syntax(d, "S0101", d.pos, d.pos + 1)
err_unexpected(d) == report_syntax(d, "S0102", d.pos, d.pos + 1)

Ok(d, kids) == [ok |-> TRUE, c |-> d, kids |-> kids]
Ko(d) == [ok |-> FALSE, c |-> d, kids |-> <<>>]
Node(k, t, kids, s, e) == [k |-> k, t |-> t, kids |-> kids, s |-> s, e |-> e]
Absent == <<Node("none", <<>>, <<>>, 0, 0)>>
Leaf(d, k) == Ok(advance(d), <<Node(k, <<Tok(d)>>, <<>>, d.pos, d.pos + 1)>>)

expect_punct(d, p) == IF Tok(d) = p THEN Ok(advance(d), <<>>) ELSE Ko(err_expected(d))

\* The end of a brace group that opens at i, or the end of the file.
RECURSIVE BraceEnd(_, _)
BraceEnd(d, depth) ==
  LET next == [d EXCEPT !.pos = @ + 1]
  IN CASE Tok(d) = EOF -> d
       [] Tok(d) = "{" -> BraceEnd(next, depth + 1)
       [] Tok(d) = "}" -> IF depth = 1 THEN next ELSE BraceEnd(next, depth - 1)
       [] OTHER -> BraceEnd(next, depth)

consume_balanced_braces(d) == BraceEnd(d, 0)

-----------------------------------------------------------------------------
(* Recovery: the tokens at which each of them stops; a semicolon is consumed *)
(* except between the elements of a list.                                    *)

Skip(d, stops) == [d EXCEPT !.pos = CHOOSE j \in d.pos..(Len(d.tokens) + 1) :
                     /\ TokAt(d, j) \in stops \union {EOF}
                     /\ \A i \in d.pos..(j - 1) : TokAt(d, i) \notin stops]
\* Stops at the semicolon.
Bug_PastSemi(d) == d
PastSemi(d) == IF Tok(d) = ";" THEN advance(d) ELSE d

\* Runs over the statements that follow.
Bug_recover_statement(d) == PastSemi(Skip(d, {";", "}"}))
recover_statement(d) == PastSemi(Skip(d, {";", "}"} \union StmtStarts))
recover_top_level(d) == PastSemi(Skip(d, {";", "module", "import"} \union TopStarts))
recover_field(d) == PastSemi(Skip(d, {";", "}"}))
recover_list_sep(d, closer) == Skip(d, {",", closer})
recover_switch_clause(d) == PastSemi(Skip(d, {";", "}", "case", "default"}))
Recover(d, item) == CASE item = "<statement>" -> recover_statement(d)
                      [] item = "<field>" -> recover_field(d)
                      [] item = "<clause>" -> recover_switch_clause(d)

-----------------------------------------------------------------------------
(* The struct and enum names of the file, found before parsing, and the      *)
(* local values: together they tell whether the operand of sizeof is a type. *)

Depth(ts, i) == FoldLeft(LAMBDA n, t : IF t = "{" THEN n + 1
                                   ELSE IF t = "}" /\ n > 0 THEN n - 1 ELSE n,
                     0, SubSeq(ts, 1, i - 1))
prescan_type_names(ts) == {ts[i + 1] : i \in {j \in 1..(Len(ts) - 1) :
    ts[j] \in {"struct", "enum"} /\ ts[j + 1] \in Idents /\ Depth(ts, j) = 0}}

scope_push(d) == [d EXCEPT !.scopes = Append(@, {})]
scope_declare_value(d, name) ==
  IF d.scopes = <<>> THEN d ELSE [d EXCEPT !.scopes[Len(d.scopes)] = @ \union {name}]
\* Looks at the innermost scope only.
Bug_scope_is_visible_value(d, name) == d.scopes # <<>> /\ name \in Last(d.scopes)
scope_is_visible_value(d, name) == \E i \in DOMAIN d.scopes : name \in d.scopes[i]

sizeof_operand_is_type(d) ==
  \/ Tok(d) \in Prims
  \/ /\ Tok(d) \in Idents
     /\ ~scope_is_visible_value(d, Tok(d))
     /\ Tok(d) \in d.typeNames

-----------------------------------------------------------------------------
(* A construct is a sequence of items: a token that must be there, or a      *)
(* nonterminal in angle brackets.  s is where the construct starts.          *)

RECURSIVE Run(_, _, _)
Run(d, s, items) ==
  IF items = <<>> THEN Ok(d, <<>>)
  ELSE LET r == Item(d, s, Head(items))
           rest == Run(r.c, s, Tail(items))
       IN IF ~r.ok THEN r
          ELSE IF ~rest.ok THEN rest ELSE Ok(rest.c, r.kids \o rest.kids)

Make(d, s, k, t, kids, items) ==
  LET r == Run(d, s, items)
  IN IF r.ok THEN Ok(r.c, <<Node(k, t, kids \o r.kids, s, r.c.pos)>>) ELSE r

\* item { "," item } with, where it is allowed, a last comma before the closer.
RECURSIVE List(_, _, _, _)
List(d, item, closer, trailing) ==
  LET r == Item(d, d.pos, item)
      after == advance(r.c)
      rest == List(after, item, closer, trailing)
  IN IF ~r.ok \/ Tok(r.c) # "," THEN r
     ELSE IF trailing /\ Tok(after) = closer THEN Ok(after, r.kids)
     ELSE IF rest.ok THEN Ok(rest.c, r.kids \o rest.kids) ELSE rest

\* { item } up to the closing brace; what fails is dropped and skipped.
RECURSIVE Repeat(_, _)
Repeat(d, item) ==
  IF Tok(d) \in {"}", EOF} THEN Ok(d, <<>>)
  ELSE LET r == Item(d, d.pos, item)
           next == IF r.ok THEN r.c ELSE Recover(r.c, item)
           rest == Repeat(next, item)
       IN IF next.pos = d.pos THEN Ok([next EXCEPT !.stuck = TRUE], <<>>)
          ELSE Ok(rest.c, r.kids \o rest.kids)

\* The part behind a list: its closing brace.
Closed(r, k, t, kids, s) ==
  IF Tok(r.c) = "}" THEN Ok(advance(r.c), <<Node(k, t, kids \o r.kids, s, r.c.pos + 1)>>)
  ELSE Ko(err_expected(r.c))

Unless(d, stop) == IF Tok(d) = stop THEN Ok(d, Absent) ELSE Item(d, d.pos, "<expr>")

-----------------------------------------------------------------------------
(* Names and types                                                           *)

RECURSIVE Names(_)
Names(d) == IF Tok(d) \notin Idents THEN Ko(err_expected(d))
            ELSE LET after == advance(d)
                     rest == Names(advance(after))
                 IN IF Tok(after) # "." THEN Ok(after, <<Tok(d)>>)
                    ELSE IF rest.ok THEN Ok(rest.c, <<Tok(d)>> \o rest.kids) ELSE rest
parse_qualified_name(d) ==
  LET r == Names(d)
  IN IF r.ok THEN Ok(r.c, <<Node("qname", r.kids, <<>>, d.pos, r.c.pos)>>) ELSE r

RECURSIVE TypePostfix(_, _, _)
TypePostfix(d, s, base) ==
  LET next == CASE Tok(d) = "*" -> Make(advance(d), s, "tptr", <<>>, base, <<>>)
                [] Tok(d) = "[" /\ Tok(advance(d)) = "]" ->
                     Make(advance(advance(d)), s, "tslice", <<>>, base, <<>>)
                [] Tok(d) = "[" /\ Tok(advance(d)) # "]" ->
                     Make(advance(d), s, "tarray", <<>>, base, <<"<expr>", "]">>)
                [] OTHER -> Ok(d, base)
  IN IF ~next.ok \/ next.kids = base THEN next ELSE TypePostfix(next.c, s, next.kids)

parse_type(d) ==
  IF Tok(d) \in Idents
    THEN LET r == Names(d)
         IN IF r.ok THEN TypePostfix(r.c, d.pos, <<Node("tnamed", r.kids, <<>>, d.pos, r.c.pos)>>)
            ELSE r
  ELSE IF Tok(d) \in Prims
    THEN TypePostfix(advance(d), d.pos, Leaf(d, "tprim").kids)
  ELSE Ko(err_expected(d))

-----------------------------------------------------------------------------
(* Expressions                                                               *)

parse_array_literal(d) ==
  LET s == d.pos
      in == advance(d)
      first == Item(in, in.pos, "<expr>")
      list == List(in, "<expr>", "]", TRUE)
  IN IF Tok(in) = "]" THEN Make(in, s, "list", <<>>, <<>>, <<"]">>)
     ELSE IF ~first.ok THEN first
     ELSE IF Tok(first.c) = ";"
       THEN Make(advance(first.c), s, "repeat", <<>>, first.kids, <<"<expr>", "]">>)
     ELSE IF ~list.ok THEN list
     ELSE Make(list.c, s, "list", <<>>, list.kids, <<"]">>)

\* A brace where an operand is expected is an initializer without a type: its
\* whole group is consumed and blamed.
parse_primary(d) ==
  CASE Tok(d) \in Literals -> Leaf(d, "lit")
    [] Tok(d) \in Idents -> Leaf(d, "ident")
    [] Tok(d) \in {"true", "false", "null"} -> Leaf(d, "lit")
    [] Tok(d) = "(" -> Make(advance(d), d.pos, "paren", <<>>, <<>>, <<"<expr>", ")">>)
    [] Tok(d) = "[" -> parse_array_literal(d)
    [] Tok(d) = "{" -> LET after == consume_balanced_braces(d)
                       IN Ko(report_syntax(after, "S0101", d.pos, after.pos))
    [] OTHER -> Ko(err_expected(d))

parse_index_slice(d, base, s) ==
  LET lo == Item(d, d.pos, "<expr>")
  IN IF Tok(d) = ".."
       THEN Make(advance(d), s, "slice", <<>>, base \o Absent, <<"<expr unless ]>", "]">>)
     ELSE IF ~lo.ok THEN lo
     ELSE IF Tok(lo.c) = ".."
       THEN Make(advance(lo.c), s, "slice", <<>>, base \o lo.kids, <<"<expr unless ]>", "]">>)
     ELSE Make(lo.c, s, "index", <<>>, base \o lo.kids, <<"]">>)

\* The items of a bracketed list, unless it closes at once.
Enclosed(d, base, s, k, item, closer, trailing) ==
  LET list == IF Tok(d) = closer THEN Ok(d, <<>>) ELSE List(d, item, closer, trailing)
  IN IF list.ok THEN Make(list.c, s, k, <<>>, base \o list.kids, <<closer>>) ELSE list
parse_call(d, base, s) == Enclosed(d, base, s, "call", "<expr>", ")", FALSE)
parse_struct_init(d, base, s) == Enclosed(d, base, s, "init", "<field init>", "}", TRUE)

parse_member(d, base, s, k) ==
  IF Tok(d) \in Idents THEN Make(advance(d), s, k, <<Tok(d)>>, base, <<>>)
                       ELSE Ko(err_expected(d))

parse_field_init(d) ==
  IF Tok(d) \in Idents
    THEN Make(advance(d), d.pos, "finit", <<Tok(d)>>, <<>>, <<":", "<expr>">>)
    ELSE Ko(err_expected(d))

RECURSIVE Postfixes(_, _, _)
Postfixes(d, base, s) ==
  LET in == advance(d)
      next == CASE Tok(d) = "[" -> parse_index_slice(in, base, s)
                [] Tok(d) = "(" -> parse_call(in, base, s)
                [] Tok(d) = "." -> parse_member(in, base, s, "member")
                [] Tok(d) = "->" -> parse_member(in, base, s, "arrow")
                [] Tok(d) = "{" -> parse_struct_init(in, base, s)
  IN IF Tok(d) \notin {"[", "(", ".", "->", "{"} THEN Ok(d, base)
     ELSE IF next.ok THEN Postfixes(next.c, next.kids, s) ELSE next

parse_postfix(d) == LET r == parse_primary(d)
                    IN IF r.ok THEN Postfixes(r.c, r.kids, d.pos) ELSE r

parse_sizeof(d) ==
  LET open == expect_punct(advance(d), "(")
      type == sizeof_operand_is_type(open.c)
  IN IF ~open.ok THEN open
     ELSE Make(open.c, d.pos, IF type THEN "sizeof type" ELSE "sizeof expr", <<>>, <<>>,
               <<IF type THEN "<type>" ELSE "<expr>", ")">>)
parse_alignof(d) == Make(advance(d), d.pos, "alignof", <<>>, <<>>, <<"(", "<type>", ")">>)
parse_cast_wrap(d) ==
  Make(advance(d), d.pos, Tok(d), <<>>, <<>>, <<"<", "<type>", ">", "(", "<expr>", ")">>)
parse_len_ptr(d) == Make(advance(d), d.pos, Tok(d), <<>>, <<>>, <<"(", "<expr>", ")">>)

RECURSIVE parse_unary(_)
parse_unary(d) ==
  CASE Tok(d) = "sizeof" -> parse_sizeof(d)
    [] Tok(d) = "alignof" -> parse_alignof(d)
    [] Tok(d) \in {"cast", "wrap"} -> parse_cast_wrap(d)
    [] Tok(d) \in {"len", "ptr"} -> parse_len_ptr(d)
    [] Tok(d) \in UnaryOps -> LET r == parse_unary(advance(d))
                              IN IF r.ok THEN Make(r.c, d.pos, "un", <<Tok(d)>>, r.kids, <<>>) ELSE r
    [] OTHER -> parse_postfix(d)

\* The ten left-associative levels; below the first there are the unary ones.
RECURSIVE Binary(_, _)
RECURSIVE BinaryRest(_, _, _, _)
Binary(d, level) ==
  IF level = 0 THEN parse_unary(d)
  ELSE LET r == Binary(d, level - 1)
       IN IF r.ok THEN BinaryRest(r.c, r.kids, d.pos, level) ELSE r
\* Associates to the right.
Bug_BinaryRest(d, lhs, s, level) ==
  LET rhs == Binary(advance(d), level)
  IN IF Tok(d) \notin Levels[level] THEN Ok(d, lhs)
     ELSE IF rhs.ok THEN Make(rhs.c, s, "bin", <<Tok(d)>>, lhs \o rhs.kids, <<>>) ELSE rhs

BinaryRest(d, lhs, s, level) ==
  LET rhs == Binary(advance(d), level - 1)
      node == Make(rhs.c, s, "bin", <<Tok(d)>>, lhs \o rhs.kids, <<>>)
  IN IF Tok(d) \notin Levels[level] THEN Ok(d, lhs)
     ELSE IF rhs.ok THEN BinaryRest(node.c, node.kids, s, level) ELSE rhs

RECURSIVE parse_conditional(_)
parse_conditional(d) ==
  LET cond == Binary(d, Len(Levels))
      then == Run(advance(cond.c), d.pos, <<"<expr>", ":">>)
      els == parse_conditional(then.c)
  IN IF ~cond.ok \/ Tok(cond.c) # "?" THEN cond
     ELSE IF ~then.ok THEN then
     ELSE IF els.ok THEN Make(els.c, d.pos, "ternary", <<>>, cond.kids \o then.kids \o els.kids, <<>>)
     ELSE els

parse_assignment(d) ==
  LET target == parse_conditional(d)
  IN IF ~target.ok \/ Tok(target.c) \notin AssignOps THEN target
     ELSE Make(advance(target.c), d.pos, "assign", <<Tok(target.c)>>, target.kids, <<"<expr>">>)

-----------------------------------------------------------------------------
(* Statements.  A scope is left however its construct ends.                  *)

Leave(r, d) == [r EXCEPT !.c.scopes = d.scopes]

parse_block(d) ==
  IF Tok(d) # "{" THEN Ko(err_expected(d))
  ELSE Leave(Closed(Repeat(advance(scope_push(d)), "<statement>"), "block", <<>>, <<>>, d.pos), d)

\* A body must be a block: the head of the construct is blamed if it is not.
Body(d, s) == IF Tok(d) = "{" THEN parse_block(d)
              ELSE Ko(report_syntax(d, "S0104", s, d.pos))

\* var and const, local (with a scope) or global; only a const must have a value.
Variable(d, scoped, flags) ==
  LET name == advance(d)
      named == IF scoped THEN scope_declare_value(advance(name), Tok(name)) ELSE advance(name)
  IN IF Tok(name) \notin Idents THEN Ko(err_expected(name))
     ELSE Make(named, d.pos, Tok(d), flags \o <<Tok(name)>>, <<>>,
               <<":", "<type>">> \o (IF Tok(d) = "const" THEN <<"=", "<expr>">> ELSE <<"<init?>">>)
               \o <<";">>)
parse_local_var_decl(d) == Variable(d, TRUE, <<>>)

RECURSIVE parse_if(_)
parse_if(d) == Make(advance(d), d.pos, "if", <<>>, <<>>, <<"(", "<expr>", ")", "<body>", "<else?>">>)
Else(d) == IF Tok(d) # "else" THEN Ok(d, Absent)
           ELSE CASE Tok(advance(d)) = "if" -> parse_if(advance(d))
                  [] Tok(advance(d)) = "{" -> parse_block(advance(d))
                  [] OTHER -> Ko(err_expected(advance(d)))

parse_while(d) == Make(advance(d), d.pos, "while", <<>>, <<>>, <<"(", "<expr>", ")", "<body>">>)

ForInit(d) == CASE Tok(d) \in {"var", "const"} -> parse_local_var_decl(d)
                [] Tok(d) = ";" -> Ok(advance(d), Absent)
                [] OTHER -> Run(d, d.pos, <<"<expr>", ";">>)
parse_for(d) ==
  Leave(Make(scope_push(advance(d)), d.pos, "for", <<>>, <<>>,
             <<"(", "<for init>", "<expr unless ;>", ";", "<expr unless )>", ")", "<body>">>), d)

parse_switch(d) ==
  LET head == Run(advance(d), d.pos, <<"(", "<expr>", ")", "{">>)
  IN IF head.ok THEN Closed(Repeat(head.c, "<clause>"), "switch", <<>>, head.kids, d.pos) ELSE head

parse_switch_clause(d) ==
  CASE Tok(d) = "case" -> Make(advance(d), d.pos, "case", <<>>, <<>>, <<"<expr>", ":", "<body>">>)
    [] Tok(d) = "default" -> Make(advance(d), d.pos, "default", <<>>, <<>>, <<":", "<body>">>)
    [] OTHER -> Ko(err_expected(d))

parse_break_continue(d) == Make(advance(d), d.pos, Tok(d), <<>>, <<>>, <<";">>)
parse_return(d) ==
  LET after == advance(d)
  IN IF Tok(after) \in ExprStarts THEN Make(after, d.pos, "return", <<>>, <<>>, <<"<expr>", ";">>)
     ELSE Make(after, d.pos, "return", <<>>, Absent, <<";">>)
parse_expr_stmt(d) == Make(d, d.pos, "expr", <<>>, <<>>, <<"<expr>", ";">>)

parse_statement(d) ==
  CASE Tok(d) = "{" -> parse_block(d)
    [] Tok(d) = ";" -> Leaf(d, "empty")
    [] Tok(d) \in {"var", "const"} -> parse_local_var_decl(d)
    [] Tok(d) = "if" -> parse_if(d)
    [] Tok(d) = "while" -> parse_while(d)
    [] Tok(d) = "for" -> parse_for(d)
    [] Tok(d) = "switch" -> parse_switch(d)
    [] Tok(d) \in {"break", "continue"} -> parse_break_continue(d)
    [] Tok(d) = "return" -> parse_return(d)
    [] Tok(d) \in ExprStarts \ {"{"} -> parse_expr_stmt(d)
    [] OTHER -> Ko(err_unexpected(d))

-----------------------------------------------------------------------------
(* Declarations; flags is <<"pub">> behind that keyword, which the span of   *)
(* the declaration leaves out                                                *)

Qualified(d, k) == Make(advance(d), d.pos, k, <<>>, <<>>, <<"<qname>", ";">>)
parse_module_decl(d) == Qualified(d, "module")
parse_import(d) == Qualified(d, "import")

\* IDENT ":" type
NameAndType(d, k, items) ==
  IF Tok(d) \in Idents
    THEN Make(advance(d), d.pos, k, <<Tok(d)>>, <<>>, <<":", "<type>">> \o items)
    ELSE Ko(err_expected(d))
parse_field_decl(d) == NameAndType(d, "field", <<";">>)
parse_param(d) == LET r == NameAndType(d, "param", <<>>)
                  IN IF r.ok THEN [r EXCEPT !.c = scope_declare_value(@, Tok(d))] ELSE r

\* The name behind the keyword of a declaration, then the items.
Named(d, items) == IF Tok(advance(d)) \in Idents THEN Run(advance(advance(d)), d.pos, items)
                                                 ELSE Ko(err_expected(advance(d)))
DeclText(d, flags) == flags \o <<Tok(advance(d))>>

parse_struct_decl(d, flags) ==
  LET head == Named(d, <<"{">>)
  IN IF head.ok THEN Closed(Repeat(head.c, "<field>"), "struct", DeclText(d, flags), <<>>, d.pos)
     ELSE head

parse_enum_member(d) ==
  IF Tok(d) \in Idents THEN Make(advance(d), d.pos, "member decl", <<Tok(d)>>, <<>>, <<"<init?>">>)
                       ELSE Ko(err_expected(d))

\* A member that is not followed by a comma or the brace is kept, with a
\* record, and the next separator is looked for.
RECURSIVE Members(_)
Members(d) ==
  LET m == parse_enum_member(d)
      sep == IF m.ok THEN m.c ELSE recover_list_sep(m.c, "}")
      next == CASE Tok(sep) = "," -> advance(sep)
                [] Tok(sep) # "," /\ m.ok /\ Tok(sep) # "}" -> recover_list_sep(err_expected(sep), "}")
                [] OTHER -> sep
      rest == Members(next)
  IN IF Tok(d) \in {"}", EOF} THEN Ok(d, <<>>)
     ELSE IF next.pos = d.pos THEN Ok([next EXCEPT !.stuck = TRUE], <<>>)
     ELSE IF m.ok /\ Tok(sep) = "}" THEN m
     ELSE Ok(rest.c, m.kids \o rest.kids)

parse_enum_decl(d, flags) ==
  LET head == Named(d, <<":", "<int type>", "{">>)
  IN IF head.ok THEN Closed(Members(head.c), "enum", DeclText(d, flags), head.kids, d.pos)
     ELSE head

RECURSIVE Params(_)
Params(d) ==
  LET p == parse_param(d)
      sep == IF p.ok THEN p.c ELSE recover_list_sep(p.c, ")")
      rest == Params(advance(sep))
  IN IF Tok(sep) = "," THEN Ok(rest.c, p.kids \o rest.kids) ELSE Ok(sep, p.kids)

parse_fn_decl(d, flags) ==
  LET open == Named(d, <<"(">>)
      in == scope_push(open.c)
      params == IF Tok(in) = ")" THEN Ok(in, <<>>) ELSE Params(in)
  IN IF ~open.ok THEN open
     ELSE Leave(Make(params.c, d.pos, "fn", DeclText(d, flags), params.kids,
                     <<")", "->", "<type>", "<block>">>), d)

parse_global_var(d, flags) == Variable(d, FALSE, flags)

parse_top_level_decl(d0) ==
  LET flags == IF Tok(d0) = "pub" THEN <<"pub">> ELSE <<>>
      d == IF Tok(d0) = "pub" THEN advance(d0) ELSE d0
  IN CASE Tok(d) = "struct" -> parse_struct_decl(d, flags)
       [] Tok(d) = "enum" -> parse_enum_decl(d, flags)
       [] Tok(d) = "fn" -> parse_fn_decl(d, flags)
       [] Tok(d) \in {"var", "const"} -> parse_global_var(d, flags)
       [] OTHER -> Ko(err_expected(d))

\* Where the descent turns: every construct inside another is reached here.
Nonterminal(d, s, item) ==
  CASE item = "<expr>" -> parse_assignment(d)
    [] item = "<type>" -> parse_type(d)
    [] item = "<qname>" -> parse_qualified_name(d)
    [] item = "<int type>" -> IF Tok(d) \in IntTypes THEN Leaf(d, "tprim") ELSE Ko(err_expected(d))
    [] item = "<statement>" -> parse_statement(d)
    [] item = "<block>" -> parse_block(d)
    [] item = "<body>" -> Body(d, s)
    [] item = "<else?>" -> Else(d)
    [] item = "<init?>" -> IF Tok(d) = "=" THEN parse_assignment(advance(d)) ELSE Ok(d, Absent)
    [] item = "<for init>" -> ForInit(d)
    [] item = "<field>" -> parse_field_decl(d)
    [] item = "<field init>" -> parse_field_init(d)
    [] item = "<clause>" -> parse_switch_clause(d)
    [] item = "<expr unless ]>" -> Unless(d, "]")
    [] item = "<expr unless ;>" -> Unless(d, ";")
    [] item = "<expr unless )>" -> Unless(d, ")")
    [] OTHER -> expect_punct(d, item)

-----------------------------------------------------------------------------
(* parse_program                                                             *)

ParseInit ==
  /\ c = [tokens |-> tokens, pos |-> 1, typeNames |-> prescan_type_names(tokens),
          recs |-> <<>>, scopes |-> <<>>, stuck |-> FALSE]
  /\ phase = "module" /\ program = [module |-> <<>>, imports |-> <<>>, decls |-> <<>>]

\* The node of r joins the list; what failed is skipped, except the module.
Keep(r, part, skip) ==
  /\ program' = [program EXCEPT ![part] = @ \o r.kids]
  /\ c' = IF r.ok \/ ~skip THEN r.c ELSE recover_top_level(r.c)

ModuleDecl ==
  /\ phase = "module" /\ phase' = "imports"
  /\ IF Tok(c) = "module" THEN Keep(parse_module_decl(c), "module", FALSE)
                          ELSE UNCHANGED <<c, program>>
  /\ UNCHANGED tokens

Import ==
  /\ phase = "imports"
  /\ IF Tok(c) = "import" THEN Keep(parse_import(c), "imports", TRUE) /\ UNCHANGED phase
                          ELSE phase' = "decls" /\ UNCHANGED <<c, program>>
  /\ UNCHANGED tokens

\* The names and dots behind `module`, and the semicolon.
RECURSIVE NamesEnd(_, _)
NamesEnd(d, i) ==
  CASE TokAt(d, i) \notin Idents -> i
    [] TokAt(d, i) \in Idents /\ TokAt(d, i + 1) # "." -> i + 1
    [] OTHER -> IF TokAt(d, i + 2) \in Idents THEN NamesEnd(d, i + 2) ELSE i + 2

report_module_not_first ==
  /\ phase = "decls" /\ Tok(c) = "module"
  /\ LET after == PastSemi([c EXCEPT !.pos = NamesEnd(c, @ + 1)])
     IN c' = report_syntax(after, "S0103", c.pos, after.pos)
  /\ UNCHANGED <<tokens, phase, program>>

report_import_after_decls ==
  /\ phase = "decls" /\ Tok(c) = "import"
  /\ c' = PastSemi(Skip(err_unexpected(c), {";"}))
  /\ UNCHANGED <<tokens, phase, program>>

report_unexpected_run ==
  /\ phase = "decls" /\ Tok(c) \notin TopStarts \union {"module", "import", EOF}
  /\ LET after == Skip(c, TopStarts \union {"module", "import"})
     IN c' = report_syntax(after, "S0102", c.pos, after.pos)
  /\ UNCHANGED <<tokens, phase, program>>

TopLevelDecl ==
  /\ phase = "decls" /\ Tok(c) \in TopStarts
  /\ Keep(parse_top_level_decl(c), "decls", TRUE)
  /\ UNCHANGED <<tokens, phase>>

EndOfFile ==
  /\ phase = "decls" /\ Tok(c) = EOF
  /\ phase' = "done"
  /\ UNCHANGED <<tokens, c, program>>

Next == \/ ModuleDecl \/ Import \/ TopLevelDecl \/ EndOfFile
        \/ report_module_not_first \/ report_import_after_decls \/ report_unexpected_run
=============================================================================
