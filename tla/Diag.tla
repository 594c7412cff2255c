-------------------------------- MODULE Diag --------------------------------
(***************************************************************************)
(* Diagnostic records (bootstrap/src/diag): diag.c builds, validates and   *)
(* frees a record, diag_emit.c appends it to a buffer as one JSON line.    *)
(*                                                                         *)
(* Any allocation may fail.  heap counts the blocks malloc has handed out  *)
(* and free has not taken back: every action adds what it allocates and    *)
(* subtracts what it frees, as the code does.  Strings are abstracted to   *)
(* the values the code compares; a message is "plain" or holds a "control" *)
(* byte, which the emitter escapes.                                        *)
(***************************************************************************)
EXTENDS Integers, Sequences, FiniteSets

CONSTANTS Codes,       \* codes of the registry that are considered
          U32Max,      \* UINT32_MAX
          TrapCodes,   \* caller codes passed
          ExitCodes,   \* exit codes passed
          KvLists,     \* which of "related", "expected", "actual"
          MaxItems,    \* bound: entries a record gets, in all its lists
          MaxLines     \* bound: lines appended to the buffer

None == "none"

ASSUME DiagAssumption == None \notin Codes /\ IsFiniteSet(KvLists)

Unset == <<>>      \* no number; <<v>> when it is v

\* diag_code_lookup: the phase and the default severity of each code.
PhaseOf(code) == IF code = "AIC-L0001" THEN "lex" ELSE "trap"
SeverityOf(code) == "error"

VARIABLES rec,      \* the record, or NoRecord
          out,      \* the DiagBuf: its lines and the sticky flag
          heap,     \* blocks in use
          ret,      \* what the last call returned
          h_lost    \* history: recovery strings of freed records

vars == <<rec, out, heap, ret, h_lost>>

NoRecord == [exists |-> FALSE]
Lists    == KvLists \cup {"secondary", "causes", "corrections"}

\* diag_record_new: calloc, every field unset.
EmptyRecord ==
  [exists |-> TRUE, code |-> None, severity |-> None, phase |-> None,
   message |-> None, span |-> None, recovery |-> None,
   list |-> [l \in Lists |-> <<>>], array |-> [l \in Lists |-> FALSE],
   trap_code |-> Unset, exit_code |-> Unset]

Severities == {"error", "warning", "note"}
Phases     == {"lex", "trap"}
Recoveries == {"authoritative", "cascading", "recovery-derived"}

-----------------------------------------------------------------------------
(* Blocks of the heap                                                      *)

Str(s)   == IF s = None THEN 0 ELSE 1    \* an owned string
Span(s)  == IF s = None THEN 0 ELSE 2    \* a DiagSpan and its file name

\* The blocks of one list entry: two strings at most, and a span.
Entry(e) == Str(e.first) + Str(e.second) + Span(e.span)

Owned(b, s) == IF s = None THEN {} ELSE {b}
EntryBlocks(l, n, e) ==
  Owned(<<l, n, "first">>, e.first) \cup Owned(<<l, n, "second">>, e.second)
    \cup Owned(<<l, n, "span">>, e.span) \cup Owned(<<l, n, "file">>, e.span)

\* The lists: an array each, and what its entries own.
ListBlocks ==
  {<<l, 0, "array">> : l \in {l \in Lists : rec.array[l]}}
    \cup UNION {UNION {EntryBlocks(l, n, rec.list[l][n]) : n \in DOMAIN rec.list[l]} : l \in Lists}

\* A record and its fields, the lists apart.
FieldBlocks(r) ==
  1 + Str(r.code) + Str(r.severity) + Str(r.phase) + Str(r.message) + Span(r.span)
    + Str(r.recovery)

\* Everything the record reaches.
Reached == IF ~ rec.exists THEN 0 ELSE FieldBlocks(rec) + Cardinality(ListBlocks)

\* What diag_record_free releases: every field but the recovery string.
Freed == Reached - Str(rec.recovery)

-----------------------------------------------------------------------------
Returns(v) == ret' = v

Fails == Returns(FALSE) /\ UNCHANGED <<rec, out, heap, h_lost>>

\* A setter on success: field gets v, which takes so many blocks, and the old
\* value is freed.
Stores(field, v, blocks) ==
  /\ rec' = [rec EXCEPT ![field] = v]
  /\ heap' = heap + blocks * (Str(v) - Str(rec[field]))
  /\ Returns(TRUE)
  /\ UNCHANGED <<out, h_lost>>

diag_record_new ==
  /\ ~ rec.exists
  /\ rec' = EmptyRecord /\ heap' = heap + 1
  /\ Returns(TRUE)
  /\ UNCHANGED <<out, h_lost>>

diag_record_free ==
  /\ rec.exists
  /\ rec' = NoRecord
  /\ heap' = heap - Freed
  /\ h_lost' = h_lost + Str(rec.recovery)
  /\ Returns(TRUE)
  /\ UNCHANGED out

\* A setter of an existing record rejects its argument or runs out of memory.
SetterFails == rec.exists /\ Fails

Bug_SetCodeKeeps(code) ==
  /\ rec.exists /\ code \in Codes
  /\ rec' = [rec EXCEPT !.code = code, !.phase = PhaseOf(code),
                        !.severity = SeverityOf(code)]
  /\ heap' = heap + 3 - Str(rec.code)
  /\ Returns(TRUE)
  /\ UNCHANGED <<out, h_lost>>

\* The code sets phase and severity too.
diag_record_set_code(code) ==
  /\ rec.exists /\ code \in Codes
  /\ rec' = [rec EXCEPT !.code = code, !.phase = PhaseOf(code),
                        !.severity = SeverityOf(code)]
  /\ heap' = heap + 3 - Str(rec.code) - Str(rec.phase) - Str(rec.severity)
  /\ Returns(TRUE)
  /\ UNCHANGED <<out, h_lost>>

diag_record_set_severity(s) == rec.exists /\ Stores("severity", s, 1)
diag_record_set_phase(p)    == rec.exists /\ Stores("phase", p, 1)
diag_record_set_message(m)  == rec.exists /\ Stores("message", m, 1)

\* NULL clears the span, and the recovery marking.
diag_record_set_primary_span(s) == rec.exists /\ Stores("span", s, 2)
diag_record_set_recovery(r)     == rec.exists /\ Stores("recovery", r, 1)

\* A list gets an entry; its array is allocated with the first.
Adds(l, e) ==
  /\ rec' = [rec EXCEPT !.list[l] = Append(@, e), !.array[l] = TRUE]
  /\ heap' = heap + Entry(e) + (IF rec.array[l] THEN 0 ELSE 1)
  /\ Returns(TRUE)
  /\ UNCHANGED <<out, h_lost>>

Room == /\ rec.exists
        /\ Cardinality(UNION {{l} \X DOMAIN rec.list[l] : l \in Lists}) < MaxItems

diag_record_add_secondary_span ==
  /\ Room
  /\ Adds("secondary", [first |-> None, second |-> None, span |-> "span"])

\* rec_add_kv: a key with a string, or with a number.
rec_add_kv(l, value) ==
  /\ Room
  /\ Adds(l, [first |-> "key", second |-> value, span |-> None])

\* The span of a cause is cloned; a clone that fails is taken for a NULL span.
diag_record_add_cause(span) ==
  /\ Room
  /\ \E cloned \in {span, None} :
       Adds("causes", [first |-> "code", second |-> "message", span |-> cloned])

diag_record_add_correction(span) ==
  /\ Room
  /\ \E cloned \in {span, None} :
       Adds("corrections", [first |-> "replacement", second |-> None, span |-> cloned])

\* realloc has succeeded when a string of the entry fails: what the entry got
\* is freed, the array stays.
AddRollsBack(l) ==
  /\ l \in {"causes", "corrections"} /\ Room
  /\ rec' = [rec EXCEPT !.array[l] = TRUE]
  /\ heap' = heap + (IF rec.array[l] THEN 0 ELSE 1)
  /\ Returns(FALSE)
  /\ UNCHANGED <<out, h_lost>>

diag_record_set_trap_code(v) ==
  /\ rec.exists /\ v \in 0 .. U32Max
  /\ rec' = [rec EXCEPT !.trap_code = <<v>>]
  /\ Returns(TRUE)
  /\ UNCHANGED <<out, heap, h_lost>>

diag_record_set_exit_code(v) ==
  /\ rec.exists
  /\ rec' = [rec EXCEPT !.exit_code = <<v>>]
  /\ Returns(TRUE)
  /\ UNCHANGED <<out, heap, h_lost>>

-----------------------------------------------------------------------------
(* Trap records                                                            *)

DIAG_TRAP_EXIT_CODE == 70

\* diag_trap_record_ex, and diag_user_trap_record on top of it: a complete
\* record or nothing; a failure half way frees what was built.
TrapRecord(code, message, span, exit_code, trap_code) ==
  /\ ~ rec.exists
  /\ rec' = [EmptyRecord EXCEPT
       !.code = code, !.phase = "trap", !.severity = "error",
       !.message = message, !.span = span, !.recovery = "authoritative",
       !.exit_code = <<IF exit_code <= 0 THEN DIAG_TRAP_EXIT_CODE ELSE exit_code>>,
       !.trap_code = trap_code]
  /\ heap' = heap + 6 + Span(span)
  /\ Returns(TRUE)
  /\ UNCHANGED <<out, h_lost>>

diag_trap_record_ex(code, message, span, exit_code) ==
  /\ code \in Codes /\ PhaseOf(code) = "trap"
  /\ TrapRecord(code, message, span, exit_code, Unset)

diag_user_trap_record(caller_code, message, span) ==
  /\ caller_code \in 0 .. U32Max /\ "AIC-U0000" \in Codes
  /\ TrapRecord("AIC-U0000", message, span, DIAG_TRAP_EXIT_CODE, <<caller_code>>)

TrapRecordRefused == ~ rec.exists /\ Fails

-----------------------------------------------------------------------------
(* Validation and emission                                                 *)

\* diag_record_validate; set_code, set_severity, set_recovery and
\* set_trap_code let no other values in.
diag_record_validate ==
  /\ rec.exists
  /\ rec.code # None /\ rec.severity # None
  /\ rec.phase = PhaseOf(rec.code)
  /\ rec.message # None
  /\ rec.severity = "error" \/ rec.phase = "trap" => rec.recovery # None

\* A line is appended piece by piece: its head, the two hexadecimal digits of
\* an escaped control byte, its tail.  append_hex2 ignores what it is told.
Pieces  == IF rec.message = "control" THEN 1 .. 4 ELSE {1, 4}
Checked == {1, 4}

Bug_NotSticky(p, failing) == p \in failing

\* buf_reserve fails for piece p: the flag is up, or memory runs out at p.
Refused(p, failing) == out.oom \/ \E q \in failing : q <= p

\* The pieces tried: none after a checked one has failed.
Tried(failing) ==
  {p \in Pieces : \A q \in Pieces \cap Checked : q < p => ~ Refused(q, failing)}

diag_emit_record ==
  /\ Len(out.lines) < MaxLines
  /\ diag_record_validate
  /\ \E failing \in SUBSET Pieces :
       LET tried   == Tried(failing)
           written == {p \in tried : ~ Refused(p, failing)}
       IN /\ out' = [lines |-> IF written = {} THEN out.lines
                               ELSE Append(out.lines, [whole |-> written = Pieces]),
                     oom |-> out.oom \/ \E p \in tried : Refused(p, failing)]
          /\ Returns(\A p \in Pieces \cap Checked : p \in written)
  /\ UNCHANGED <<rec, heap, h_lost>>

\* An invalid record, or none: nothing is emitted.
EmitRefused == ~ diag_record_validate /\ Fails

-----------------------------------------------------------------------------
Init == /\ rec = NoRecord
        /\ out = [lines |-> <<>>, oom |-> FALSE]
        /\ heap = 0 /\ ret = TRUE /\ h_lost = 0

MaxLost == 1    \* bound: records with a recovery string that are freed

Next ==
  \/ diag_record_new
  \/ h_lost < MaxLost /\ diag_record_free
  \/ SetterFails
  \/ \E code \in Codes : diag_record_set_code(code)
  \/ \E s \in Severities : diag_record_set_severity(s)
  \/ \E p \in Phases : diag_record_set_phase(p)
  \/ \E m \in {"plain", "control"} : diag_record_set_message(m)
  \/ \E s \in {"span", None} : diag_record_set_primary_span(s)
  \/ \E r \in Recoveries \cup {None} : diag_record_set_recovery(r)
  \/ diag_record_add_secondary_span
  \/ \E l \in KvLists, value \in {"string", None} : rec_add_kv(l, value)
  \/ \E span \in {"span", None} : \/ diag_record_add_cause(span)
                                  \/ diag_record_add_correction(span)
  \/ \E l \in Lists : AddRollsBack(l)
  \/ \E v \in TrapCodes : diag_record_set_trap_code(v)
  \/ \E v \in ExitCodes : diag_record_set_exit_code(v)
  \/ \E code \in Codes, m \in {"plain", "control"}, s \in {"span", None}, v \in ExitCodes :
        diag_trap_record_ex(code, m, s, v)
  \/ \E v \in TrapCodes, m \in {"plain", "control"}, s \in {"span", None} :
        diag_user_trap_record(v, m, s)
  \/ TrapRecordRefused
  \/ diag_emit_record
  \/ EmitRefused

Spec == Init /\ [][Next]_vars

-----------------------------------------------------------------------------
(* Properties                                                              *)

\* The shape of the state.
Entries == [first : {"key", "code", "replacement", None},
            second : {"string", "message", None}, span : {"span", None}]
Records == [exists : {TRUE}, code : Codes \cup {None}, severity : Severities \cup {None},
            phase : Phases \cup {None}, message : {"plain", "control", None},
            span : {"span", None}, recovery : Recoveries \cup {None},
            list : [Lists -> Seq(Entries)], array : [Lists -> BOOLEAN],
            trap_code : {Unset} \cup {<<v>> : v \in 0 .. U32Max},
            exit_code : {Unset} \cup {<<v>> : v \in ExitCodes \cup {DIAG_TRAP_EXIT_CODE}}]

TypeOK ==
  /\ rec = NoRecord \/ rec \in Records
  /\ rec.exists => \A l \in Lists : rec.list[l] # <<>> => rec.array[l]
  /\ out.lines \in Seq([whole : BOOLEAN]) /\ out.oom \in BOOLEAN
  /\ heap \in Nat /\ h_lost \in Nat /\ ret \in BOOLEAN

\* Ownership: whatever allocations failed, the record keeps its shape and every
\* block in use is reached from it, but for the recovery strings of the records
\* that were freed.
BlocksReached == TypeOK /\ heap = Reached + h_lost

\* Contract 3, 4, 10: a record gets into the buffer only when the contract
\* allows it: a registered code in its own phase, with a recovery marking on
\* errors and on everything of the trap phase.
LinesValid ==
  [][out'.lines # out.lines =>
       /\ rec.exists
       /\ rec.code \in Codes /\ rec.phase = PhaseOf(rec.code)
       /\ rec.severity \in Severities
       /\ rec.recovery = None => rec.severity # "error" /\ rec.phase # "trap"
       /\ rec.trap_code # Unset => rec.trap_code[1] \in 0 .. U32Max]_vars

\* A buffer that reports no failure holds whole lines only, and diag_emit_record
\* answers true only for a line that is whole: nobody who checks either can
\* write a truncated JSON line.
LinesWhole ==
  /\ [](~ out.oom => \A k \in DOMAIN out.lines : out.lines[k].whole)
  /\ [][out'.lines # out.lines /\ ret' => out'.lines[Len(out'.lines)].whole]_vars

\* What diag_emit_record puts into a buffer is whole and allowed by the contract.
LinesSound == LinesValid /\ LinesWhole
=============================================================================
