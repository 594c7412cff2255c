-------------------------------- MODULE Lex --------------------------------
(***************************************************************************)
(* The lexer (bootstrap/src/lex/lex.c): lex_run reads a loaded source      *)
(* token by token, keeps what the unary minus rule needs of the token      *)
(* before, and collects tokens and diagnostics; any allocation may fail.   *)
(***************************************************************************)
EXTENDS LexText

CONSTANTS Keywords,   \* kKeywords: keyword -> may it end an expression
          EndsExpr,   \* the punctuation that may end an expression
          MinusIndex, \* where Puncts holds the minus sign
          LexFailures, \* the kinds of allocation that may fail
          FailLen     \* bound: they fail on texts of at most so many bytes

VARIABLES lex_pc, pos, tokens, lex_records,
          prev,     \* prev_kind, prev_punct and prev_kw: may the last token end
                    \* an expression, and is it a unary minus
          lex_oom,
          leaked,   \* blocks nothing points to any more
          lex_status

lexVars == <<text, lex_pc, pos, tokens, lex_records, prev, lex_oom, leaked, lex_status>>

\* The lexer before it reads text.
LexIdle == /\ lex_pc = "trivia" /\ pos = 0 /\ lex_records = <<>>
           /\ prev = [ends |-> FALSE, unary_minus |-> FALSE]
           /\ lex_oom = FALSE /\ leaked = 0 /\ lex_status = "none"
LexInit == tokens = <<>> /\ LexIdle

-----------------------------------------------------------------------------
MayFail(kind) == kind \in LexFailures /\ Len(text) <= FailLen

\* scan_add_record for each finding.
Note(found) ==
  \/ lex_records' = lex_records \o found /\ UNCHANGED lex_oom
  \/ found # <<>> /\ MayFail("record") /\ lex_oom' = TRUE /\ UNCHANGED lex_records

SkipTrivia ==
  /\ lex_pc = "trivia" /\ ~ lex_oom
  /\ LET r == skip_trivia(pos)
     IN pos' = r.end /\ Note(r.found)
  /\ lex_pc' = "token"
  /\ UNCHANGED <<text, tokens, prev, leaked, lex_status>>

\* is_expr_ending: a brace does not.
is_expr_ending(token) ==
  CASE token.kind \in {"ident", "int", "str"} -> TRUE
    [] token.kind = "keyword" -> Keywords[token.name]
    [] token.kind = "punct" -> token.punct \in EndsExpr
    [] OTHER -> FALSE

IsMinus(token) == token.kind = "punct" /\ token.punct = MinusIndex

\* What a token owns beside its span.
Owns(token) ==
  IF token.kind = "ident" \/ (token.kind = "str" /\ token.bytes # <<>>) THEN 1 ELSE 0

Bug_Emit(token) ==
  /\ \E span \in {TRUE} \cup (IF MayFail("span") THEN {FALSE} ELSE {}) :
       /\ tokens' = Append(tokens, [token EXCEPT !.span = span])
       /\ lex_oom' = lex_oom
       /\ leaked' = leaked
  /\ prev' = [ends |-> is_expr_ending(token), unary_minus |-> IsMinus(token)]

\* make_token and scan_emit.  A span that cannot be allocated is missing from
\* the token; when the array cannot grow the token is dropped with all it owns.
Emit(token) ==
  /\ \E span \in {TRUE} \cup (IF MayFail("span") THEN {FALSE} ELSE {}) :
       \/ /\ ~ lex_oom'
          /\ tokens' = Append(tokens, [token EXCEPT !.span = span])
          /\ UNCHANGED leaked
       \/ /\ lex_oom'
          /\ leaked' = leaked + Owns(token) + (IF span THEN 2 ELSE 0)
          /\ UNCHANGED tokens
  /\ prev' = [ends |-> is_expr_ending(token),
              unary_minus |-> IsMinus(token) /\ ~ prev.ends]

\* The array of tokens grows, or not.
Grows == UNCHANGED lex_oom \/ (MayFail("tokens") /\ lex_oom' = TRUE)

\* The outcome r of one of the scan functions.
Scanned(r) ==
  /\ pos' = r.end
  /\ \/ r.token = <<>> /\ Note(r.found) /\ UNCHANGED <<tokens, prev, leaked>>
     \/ /\ r.token # <<>>
        /\ \/ lex_records' = lex_records \o r.found /\ Grows
           \/ r.found # <<>> /\ MayFail("record") /\ lex_oom' = TRUE /\ UNCHANGED lex_records
        /\ Emit(r.token[1])
  /\ lex_pc' = "trivia"
  /\ UNCHANGED <<text, lex_status>>

At(s) == lex_pc = "token" /\ ~ lex_oom /\ Have(pos) /\ B(pos) \in s

\* The scan's own buffer cannot be allocated: nothing is emitted.
Aborts == /\ lex_oom' = TRUE
          /\ UNCHANGED <<text, lex_pc, pos, tokens, lex_records, prev, leaked, lex_status>>

Identifier ==
  LET end  == RunEnd(pos, IdentBytes)
      name == SubSeq(text, pos + 1, end)
  IN IF name \in DOMAIN Keywords
     THEN Scanned(Token(end, [kind |-> "keyword", name |-> name,
                              start |-> pos, end |-> end, span |-> TRUE]))
     ELSE \/ MayFail("ident") /\ Aborts
          \/ Scanned(Token(end, [kind |-> "ident", start |-> pos, end |-> end,
                                     span |-> TRUE]))

ScanIdent   == At(Letters) /\ Identifier
ScanInteger == At(Digits) /\ Scanned(scan_integer(pos, prev.unary_minus))
ScanString  == /\ At({Quote})
               /\ \/ MayFail("bytes") /\ scan_string(pos).token # <<>> /\ Aborts
                  \/ Scanned(scan_string(pos))
ScanPunct   == /\ At(0 .. 255 \ (IdentBytes \cup {Quote}))
               /\ Scanned(scan_punct(pos))

\* The EOF token closes the stream, but for the check of oom behind it.
EndOfText ==
  /\ lex_pc = "token" /\ ~ lex_oom /\ ~ Have(pos)
  /\ Grows
  /\ Emit([kind |-> "eof", start |-> pos, end |-> pos, span |-> TRUE])
  /\ lex_pc' = "end"
  /\ UNCHANGED <<text, pos, lex_records, lex_status>>

\* lex_tokenize: what was collected is freed, or sorted by position and handed
\* out (two records at one position have one code).
LexFinish ==
  /\ \/ lex_oom /\ lex_pc # "done"
     \/ lex_pc = "end"
  /\ lex_pc' = "done"
  /\ IF lex_oom THEN /\ lex_status' = "LEX_OOM" /\ tokens' = <<>> /\ lex_records' = <<>>
     ELSE /\ lex_status' = (IF lex_records = <<>> THEN "LEX_OK" ELSE "LEX_DIAG_ERROR")
          /\ \E o \in Orders(lex_records) :
               lex_records' = [k \in DOMAIN lex_records |-> lex_records[o[k]]]
          /\ UNCHANGED tokens
  /\ UNCHANGED <<text, pos, prev, lex_oom, leaked>>

LexNext == \/ SkipTrivia \/ ScanIdent \/ ScanInteger \/ ScanString \/ ScanPunct
           \/ EndOfText \/ LexFinish

\* A text is any sequence of bytes; the loader hands on fewer.
LexSpec == text \in Seq(0 .. 255) /\ LexInit /\ [][LexNext]_lexVars
=============================================================================
