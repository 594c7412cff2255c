------------------------------ MODULE MCFront ------------------------------
(***************************************************************************)
(* The front end on small inputs: the loader, the lexer, the parser and    *)
(* the resolver of modules, each on inputs of its own (MCLoad, MCLex,      *)
(* MCParse, MCNameGraph).  A behaviour runs one stage, since what a stage  *)
(* hands to the next is its finished result; the variables of the others   *)
(* stay as they are before anything is found.                              *)
(***************************************************************************)
EXTENDS NameGraph, MCLoad, MCLex, TLC

CONSTANT Item(_, _, _)   \* the descent of the parser (Descend)

VARIABLES stage,
          c, phase, program, given   \* the parser, which shares the lexer's tokens

loadOnly  == <<raw, pc, i, starts, ctx, scan_records, scan_oom, load_status>>
lexOnly   == <<lex_pc, pos, lex_records, prev, lex_oom, leaked, lex_status>>
parseOnly == <<c, phase, program, given>>
frontVars == <<stage, loadOnly, text, lexOnly, tokens, parseOnly, vars>>

-----------------------------------------------------------------------------
(* Constants of the stages                                                 *)

\* The entries of kPuncts over  < > = - . / * ( )  in the order of the table.
PunctTable ==
  << <<60, 60, 61>>, <<62, 62, 61>>, <<45, 62>>, <<46, 46>>, <<60, 61>>, <<62, 61>>,
     <<61, 61>>, <<45, 61>>, <<42, 61>>, <<47, 61>>, <<60, 60>>, <<62, 62>>,
     <<40>>, <<41>>, <<46>>, <<42>>, <<45>>, <<47>>, <<60>>, <<62>>, <<61>> >>
TableEnds  == {14}
If == <<105, 102>>
KeywordTable == If :> FALSE
ScaledBits == [i8 |-> 2, i16 |-> 3, i32 |-> 4, word |-> 5]

Main  == <<"main">>
Names == {Main, <<"a">>, <<"a", "b">>, <<"c">>, <<"rt">>, <<"rt", "mem">>, <<"rt", "net">>}

Parser   == INSTANCE MCParse WITH Idents <- {"a", "f", "g", "T", "E"}, Literals <- {"1"}
Projects == INSTANCE MCNameGraph

\* The construct starts where it does, whatever it is reached through.
Descend(d, s, item) == LET start == s IN Parser!Nonterminal(d, start, item)

-----------------------------------------------------------------------------
Unused(v) == v = <<>>

LoadUnused  == Unused(raw) /\ Idle
ParseUnused == Unused(c) /\ Unused(phase) /\ Unused(program) /\ Unused(given)
NameUnused  == Unused(tree) /\ NameInit

FrontInit ==
  \/ stage = "load" /\ MCInit /\ LexInit /\ ParseUnused /\ NameUnused
  \/ stage = "lex" /\ MCLexInit /\ LoadUnused /\ ParseUnused /\ NameUnused
  \/ /\ stage = "parse" /\ Parser!MCInit
     /\ LoadUnused /\ Unused(text) /\ LexIdle /\ NameUnused
  \/ /\ stage = "name" /\ Projects!MCInit
     /\ LoadUnused /\ Unused(text) /\ LexInit /\ ParseUnused

FrontNext ==
  /\ UNCHANGED stage
  /\ \/ stage = "load" /\ LoadNext /\ UNCHANGED <<lexOnly, tokens, parseOnly, vars>>
     \/ stage = "lex" /\ LexNext /\ UNCHANGED <<loadOnly, parseOnly, vars>>
     \/ stage = "parse" /\ Parser!MCNext /\ UNCHANGED <<loadVars, lexOnly, vars>>
     \/ stage = "name" /\ Next /\ UNCHANGED <<loadVars, lexOnly, tokens, parseOnly>>

FrontSpec == FrontInit /\ [][FrontNext]_frontVars

-----------------------------------------------------------------------------
(* Properties.  SourceExact is that of MCLoad, LiteralsExact and           *)
(* TokensExact are those of MCLex, GraphSound and VerdictExact those of    *)
(* NameGraph; the other stages leave their variables as they are at the    *)
(* start.                                                                  *)

\* parse.c: what is accepted is what the grammar generates, and is parsed back
\* to the tree that was written.
ParseExact == stage = "parse" => Parser!ParseExact

\* parse.c: sizeof takes a name for a type exactly when it means one there.
SizeofResolved == stage = "parse" => Parser!SizeofResolved

\* parse.c: a fault is blamed where it is and costs nothing behind it.
FaultsBlamed == stage = "parse" => Parser!FaultsBlamed

\* lex.c and parse.c: the loops of both use up input with every turn.
Advances == [][/\ stage = "lex" => Advance
               /\ stage = "parse" => Parser!Progress]_frontVars
=============================================================================
