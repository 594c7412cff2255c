------------------------------- MODULE Layout -------------------------------
(***************************************************************************)
(* types_layout_build (src/types/layout.c): every enum of the build is     *)
(* laid out first, then every struct, in source order; a declaration that  *)
(* needs an expression the pass cannot evaluate is skipped and marked, so  *)
(* that what refers to it is skipped too.                                  *)
(***************************************************************************)
EXTENDS Types, FiniteSets

VARIABLES
  decls,        \* the declarations of the program, in order
  phase,        \* "enums", "structs", then "laidout" or "unsupported"
  pos,          \* the next declaration of the phase
  build,        \* the layouts published and the symbols marked as skipped
  unevaluable,  \* LayoutCtx.unevaluable
  worst,        \* OK or UNEVALUABLE
  t0301         \* the records: pairs of an enum and the place of a member
lvars == <<decls, phase, pos, build, unevaluable, worst, t0301>>

LayoutInit ==
  /\ phase = "enums" /\ pos = 1
  /\ build = [structs |-> <<>>, enums |-> <<>>, skipped |-> {}]
  /\ unevaluable = FALSE /\ worst = "OK" /\ t0301 = {}

Kind == CASE phase = "enums" -> "enum" [] phase = "structs" -> "struct" [] OTHER -> "none"

Advance(to) ==
  /\ phase \in {"enums", "structs"} /\ pos > Len(decls)
  /\ phase' = (IF phase = "enums" THEN "structs" ELSE to)
  /\ pos' = 1
  /\ UNCHANGED <<decls, build, unevaluable, worst, t0301>>

PassOver ==
  /\ phase \in {"enums", "structs"} /\ pos <= Len(decls) /\ decls[pos].k # Kind
  /\ pos' = pos + 1
  /\ UNCHANGED <<decls, phase, build, unevaluable, worst, t0301>>

\* Published, or marked and skipped: the records of the members judged
\* before the doubt stay either way.
LayEnum ==
  /\ phase = "enums" /\ pos <= Len(decls) /\ decls[pos].k = "enum"
  /\ LET d == decls[pos]
         r == compute_enum(d, unevaluable)
     IN /\ unevaluable' = r.unevaluable
        /\ t0301' = t0301 \union {<<d.s, i>> : i \in r.records}
        /\ IF r.st = "OK"
             THEN /\ build' = [build EXCEPT !.enums = (d.s :> r.layout) @@ @]
                  /\ UNCHANGED worst
             ELSE /\ build' = [build EXCEPT !.skipped = @ \union {d.s}]
                  /\ worst' = "UNEVALUABLE"
  /\ pos' = pos + 1
  /\ UNCHANGED <<decls, phase>>

LayStruct ==
  /\ phase = "structs" /\ pos <= Len(decls) /\ decls[pos].k = "struct"
  /\ LET d == decls[pos]
         r == compute_struct(build, d)
     IN CASE r.st = "OK" ->
               /\ build' = [build EXCEPT !.structs = (d.s :> r.val) @@ @]
               /\ pos' = pos + 1 /\ UNCHANGED <<phase, unevaluable, worst, t0301>>
          [] r.st = "UNEVALUABLE" ->
               /\ build' = [build EXCEPT !.skipped = @ \union {d.s}]
               /\ unevaluable' = TRUE /\ worst' = "UNEVALUABLE"
               /\ pos' = pos + 1 /\ UNCHANGED <<phase, t0301>>
          [] OTHER ->      \* the whole build is dropped, its records too
               /\ build' = [structs |-> <<>>, enums |-> <<>>, skipped |-> {}]
               /\ phase' = "unsupported" /\ t0301' = {}
               /\ UNCHANGED <<pos, unevaluable, worst>>
  /\ UNCHANGED decls

LayoutStep == PassOver \/ LayEnum \/ LayStruct \/ Advance("laidout")

\* What the call returns once it is done.
LayoutStatus == IF phase = "unsupported" THEN "UNSUPPORTED"
                ELSE IF worst = "UNEVALUABLE" THEN "UNEVALUABLE"
                ELSE IF t0301 # {} THEN "DIAG_ERROR" ELSE "OK"

-----------------------------------------------------------------------------
DeclOf(s) == CHOOSE d \in {decls[i] : i \in DOMAIN decls} : d.k \in {"enum", "struct"} /\ d.s = s

\* The layout rules of structs: fields in order without overlap, each where
\* its alignment allows and no further than it must be, the size the smallest
\* multiple of the alignment that holds them, and fields and padding ranges
\* together covering every byte exactly once.
StructsTile ==
  \A s \in DOMAIN build.structs :
    LET ls == build.structs[s]
        pads == layout_struct_padding(ls)
        covers(x) ==
          Cardinality({i \in DOMAIN ls.fields :
                         ls.fields[i].offset <= x /\ x < ls.fields[i].offset + ls.fields[i].size})
          + Cardinality({i \in DOMAIN pads :
                         pads[i].offset <= x /\ x < pads[i].offset + pads[i].length})
    IN /\ \A x \in 0..(ls.size - 1) : covers(x) = 1
       /\ ls.align > 0 => ls.size % ls.align = 0
       /\ \A i \in DOMAIN ls.fields :
            LET f == ls.fields[i]
            IN f.align > 0 => f.offset % f.align = 0 /\ f.pad < f.align
       /\ ls.tail < ls.align

\* The value a member has by the rules, over all integers: its own
\* expression, or one more than the member before it.
RECURSIVE MemberValue(_, _)
MemberValue(d, i) ==
  IF d.members[i].value # <<>> THEN MathOf(layout_eval_int_expr(d.members[i].value[1]).val)
  ELSE IF i = 1 THEN 0 ELSE MemberValue(d, i - 1) + 1

InRange(v, p) == IF p.signed THEN v \in -(2^(p.width - 1))..(2^(p.width - 1) - 1)
                             ELSE v \in 0..MaskOf(p.width)

\* Whether the rules give member i a value the pass can know: its own
\* expression, or the member it continues from, is one it evaluates.
RECURSIVE Known(_, _)
Known(d, i) ==
  IF d.members[i].value # <<>> THEN layout_eval_int_expr(d.members[i].value[1]).st = "OK"
  ELSE i = 1 \/ Known(d, i - 1)

\* A member whose value can be known has that value when its enum is
\* published, and a record if and only if the underlying type cannot hold
\* it, through both ends of the host word and whatever the enums before it
\* left in the build's flag; a member whose value cannot be known has no
\* record, and its enum is missing from the build, or published in a build
\* that another enum is missing from (LayEnum asks the whole build's flag).
EnumsCount ==
  \A i \in DOMAIN decls : decls[i].k = "enum" /\ (phase \in {"structs", "laidout"} \/ (phase = "enums" /\ i < pos)) =>
    LET d == decls[i]
        guessed == {j \in DOMAIN d.members : ~Known(d, j)}
    IN /\ \A j \in DOMAIN d.members :
            (<<d.s, j>> \in t0301) <=>
              j \notin guessed /\ ~InRange(MemberValue(d, j), kPrims[d.under])
       /\ d.s \in DOMAIN build.enums =>
            /\ \A j \in DOMAIN d.members \ guessed :
                 LET m == build.enums[d.s].members[j]
                 IN IF m.overflow THEN MemberValue(d, j) > UINT64_MAX
                    ELSE MathOf(m.val) = MemberValue(d, j)
            /\ guessed # {} => \E k \in 1..(i - 1) :
                 decls[k].k = "enum" /\ decls[k].s \in build.skipped

\* What a skipped declaration touches is skipped: a struct is published only
\* if everything it holds by value is, and the caller is told UNEVALUABLE as
\* soon as anything is missing from the build.
SkipsSpread ==
  phase = "laidout" =>
    /\ \A i \in DOMAIN decls :
         decls[i].k = "struct" /\ decls[i].s \in DOMAIN build.structs =>
           \A j \in DOMAIN decls[i].fields :
             LET t == decls[i].fields[j].type
             IN t.k = "named" => t.s \notin build.skipped
    /\ LayoutStatus = "UNEVALUABLE" <=>
         \E i \in DOMAIN decls : decls[i].k \in {"enum", "struct"} /\
           decls[i].s \notin DOMAIN build.structs \union DOMAIN build.enums
=============================================================================
