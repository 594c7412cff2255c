----------------------------- MODULE StmtSema ------------------------------
(***************************************************************************)
(* The semantic checks of statements: missing initialisers, the entries of *)
(* switch statements, break and continue, returned values, the end of the  *)
(* function and unreachable statements.  Each check is a sequence of       *)
(* records <<code, place>>, the place being the path from the body of the  *)
(* function to the statement it blames (<<>> for the header).              *)
(*                                                                         *)
(* A statement is [k, x, a, init, step]: its kind, what its kind carries,  *)
(* the statements in it, and the rest of the header of a for.              *)
(*   block      a: its statements     if         x: condition, a: then, else *)
(*   while, for x: condition, a: body switch     a: clauses                *)
(*   case       x: label, a: body     ret        x: its value              *)
(*   do, var    x: expression         stop       x: the function called    *)
(*   brk, cont, const, empty, default                                      *)
(* An expression is its kind: "t" is the literal true, "-" is absent.      *)
(***************************************************************************)
EXTENDS Integers, Sequences, SequencesExt, FiniteSetsExt

S(k, x, a) == [k |-> k, x |-> x, a |-> a, init |-> "-", step |-> "-"]
LoopKinds == {"while", "for"}

\* The records of every element of a sequence, in order.
Gather(op(_), q) == FlattenSeq([i \in DOMAIN q |-> op(i)])

\* The bodies inside a statement, each with its place and the number of
\* loops and switches around it.
Bodies(s, p, l, w) ==
  LET Inner(i, dl, dw) == [s |-> s.a[i], p |-> Append(p, i), l |-> l + dl, w |-> w + dw]
  IN [i \in DOMAIN s.a |->
        CASE s.k \in LoopKinds -> Inner(i, 1, 0)
          [] s.k = "switch" -> [s |-> s.a[i].a[1], p |-> p \o <<i, 1>>, l |-> l, w |-> w + 1]
          [] OTHER -> Inner(i, 0, 0)]

\* A call of rt.proc.exit or rt.trap.report: it does not return.
NoreturnCall(s) == s.k = "stop"

-----------------------------------------------------------------------------
(* A variable without an initialiser, as a statement or in a for.          *)

RECURSIVE InitRecords(_, _)
InitRecords(s, p) ==
  (IF s.k = "var" /\ s.x = "-" THEN << <<"E0403", p>> >>
   ELSE IF s.k = "for" /\ s.init = "var -" THEN << <<"E0403", p>> >> ELSE <<>>)
  \o LET b == Bodies(s, p, 0, 0) IN Gather(LAMBDA i : InitRecords(b[i].s, b[i].p), b)

-----------------------------------------------------------------------------
(* Switch statements, break and continue.                                  *)

CaseTerminator(s, l) == \/ s.k \in {"brk", "ret"}
                        \/ s.k = "cont" /\ l > 0
                        \/ NoreturnCall(s)

\* The body of a clause must end in a terminator.
ClauseRecords(c, p, l) ==
  LET q == c.a[1].a
  IN IF q # <<>> /\ CaseTerminator(Last(q), l) THEN <<>> ELSE << <<"E0412", p>> >>

FirstWith(s, i) == CHOOSE j \in 1 .. i : /\ s.a[j].k = s.a[i].k /\ s.a[j].x = s.a[i].x
                                         /\ \A m \in 1 .. j - 1 : ~(s.a[m].k = s.a[i].k /\ s.a[m].x = s.a[i].x)

\* A label or a default met again is recorded at its first occurrence.
LabelRecords(s, p, i) ==
  LET j == FirstWith(s, i)
  IN IF j = i THEN <<>>
     ELSE << <<IF s.a[i].k = "case" THEN "E0413" ELSE "E0420", Append(p, j)>> >>

RECURSIVE CoreRecords(_, _, _, _)
CoreRecords(s, p, l, w) ==
  (CASE s.k = "switch" -> Gather(LAMBDA i : ClauseRecords(s.a[i], Append(p, i), l)
                                            \o LabelRecords(s, p, i), s.a)
     [] s.k = "brk" /\ l = 0 /\ w = 0 -> << <<"E0414", p>> >>
     [] s.k = "cont" /\ l = 0 -> << <<"E0414", p>> >>
     [] OTHER -> <<>>)
  \o LET b == Bodies(s, p, l, w)
     IN Gather(LAMBDA i : CoreRecords(b[i].s, b[i].p, b[i].l, b[i].w), b)

-----------------------------------------------------------------------------
(* Returned values.                                                        *)

RECURSIVE ReturnRecords(_, _, _)
ReturnRecords(s, p, void) ==
  (IF s.k = "ret" /\ (s.x # "-") = void THEN << <<"E0415", p>> >> ELSE <<>>)
  \o LET b == Bodies(s, p, 0, 0) IN Gather(LAMBDA i : ReturnRecords(b[i].s, b[i].p, void), b)

-----------------------------------------------------------------------------
(* May control pass a statement, and reach the end of a function?          *)

\* Does a statement of the list leave the loop by a break of its own?
RECURSIVE ExitingBreak(_)
ExitingBreak(q) ==
  \E i \in DOMAIN q : \/ q[i].k = "brk"
                      \/ q[i].k = "block" /\ ExitingBreak(q[i].a)
                      \/ q[i].k = "if" /\ \E j \in DOMAIN q[i].a :
                                            q[i].a[j].k = "block" /\ ExitingBreak(q[i].a[j].a)

\* The condition as written: parentheses are dropped, nothing is evaluated.
LoopMayFallPast(s) == (s.x \notin {"t", "-"}) \/ ExitingBreak(s.a[1].a)

RECURSIVE MayFallThrough(_, _, _)
MayFallThrough(s, l, w) ==
  LET List(q, w2) == \A i \in DOMAIN q : MayFallThrough(q[i], l, w2)
      Passes(c) == LET q == c.a[1].a
                   IN q = <<>> \/ Last(q).k = "brk" \/ List(q, w + 1)
  IN CASE s.k = "ret" -> FALSE
       [] s.k = "brk" -> l = 0 /\ w = 0
       [] s.k = "cont" -> l = 0
       [] s.k = "block" -> List(s.a, w)
       [] s.k = "if" -> Len(s.a) = 1 \/ \E i \in 1 .. 2 : MayFallThrough(s.a[i], l, w)
       [] s.k \in LoopKinds -> LoopMayFallPast(s)
       [] s.k = "switch" -> \/ \A i \in DOMAIN s.a : s.a[i].k # "default"
                            \/ \E i \in DOMAIN s.a : Passes(s.a[i])
       [] OTHER -> ~NoreturnCall(s)

\* The header of a function that is not void and may reach its end.
TailRecords(f) ==
  IF ~f.void /\ MayFallThrough(f.body, 0, 0) THEN << <<"E0416", <<>> >> >> ELSE <<>>

-----------------------------------------------------------------------------
(* Unreachable statements.                                                 *)

\* Mutant: an endless loop ends the block, whatever leaves it.
EndsBlockLoops(s, l, w) == s.k = "ret" \/ NoreturnCall(s) \/ (s.k = "while" /\ s.x = "t")

EndsBlock(s, l, w) == \/ s.k = "ret" \/ NoreturnCall(s)
                      \/ s.k = "brk" /\ (l > 0 \/ w > 0)
                      \/ s.k = "cont" /\ l > 0

\* In each block the first statement after a terminator; those that follow
\* it are not looked at.
RECURSIVE UnreachableRecords(_, _, _, _)
UnreachableRecords(s, p, l, w) ==
  LET b    == Bodies(s, p, l, w)
      Into(i) == UnreachableRecords(b[i].s, b[i].p, b[i].l, b[i].w)
      ends == {i \in DOMAIN s.a : s.k = "block" /\ EndsBlock(s.a[i], l, w)}
  IN IF ends = {} THEN Gather(Into, b)
     ELSE LET e == Min(ends)
          IN Gather(Into, SubSeq(b, 1, e))
             \o (IF e < Len(b) THEN << <<"E0417", Append(p, e + 1)>> >> ELSE <<>>)

ReachRecords(f) == TailRecords(f) \o UnreachableRecords(f.body, <<>>, 0, 0)

\* Every record of a function, check by check.
Records(f) == InitRecords(f.body, <<>>) \o CoreRecords(f.body, <<>>, 0, 0)
              \o ReachRecords(f) \o ReturnRecords(f.body, <<>>, f.void)
=============================================================================
