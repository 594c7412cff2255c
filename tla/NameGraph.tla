----------------------------- MODULE NameGraph -----------------------------
(***************************************************************************)
(* The module graph (bootstrap/src/name/name.c): name_resolve walks the    *)
(* imports of the entry module depth first, loads every file once, refuses *)
(* cycles and reserved names, and resolves the bodies of a module when its *)
(* imports are done.  The stack is the C stack of resolve_module together  *)
(* with c->stack and c->stack_imports.  The declarations inside a module   *)
(* are not modelled here: resolving its bodies is one step that succeeds.  *)
(***************************************************************************)
EXTENDS Integers, Sequences, SequencesExt, FiniteSets

CONSTANTS Name,      \* qualified names: sequences of parts
          Entry,     \* entry_module_name
          Failures   \* whether an allocation may fail: a subset of BOOLEAN

IsRt(n) == n[1] = "rt"
User    == {n \in Name : ~ IsRt(n)}

States == {"absent", "load", "lex", "parse", "ok"}
File   == [state : States, decl : Name, imports : Seq(Name)]

VARIABLES
  tree,       \* the project's files
  modules,    \* result->modules
  imports,    \* module->imports
  stack,      \* frames: the module, the import that led to it, the next import
  resolved,   \* history: modules whose resolve_module has returned, in order
  records,    \* c->records
  oom,        \* c->oom
  status,     \* "start", "running", "unwound", or the NameStatus returned
  failed      \* history: an allocation has failed

vars == <<tree, modules, imports, stack, resolved, records, oom, status, failed>>

Top      == stack[Len(stack)]
Path     == [k \in DOMAIN stack |-> stack[k].mod]
Frame(m, via) == [mod |-> m, via |-> via, next |-> 1]

\* A record: its code, the file of its primary span, the position of the import
\* it points at (0: the declaration or the text) and its secondary spans.
Record(code, m, at) == [code |-> code, mod |-> m, at |-> at, also |-> <<>>]

-----------------------------------------------------------------------------
\* Before name_resolve looks at the tree.
NameInit ==
  /\ modules = <<>> /\ imports = [n \in Name |-> <<>>]
  /\ stack = <<>> /\ resolved = <<>> /\ records = <<>>
  /\ oom = FALSE /\ status = "start" /\ failed = FALSE

\* new_name_record and rec_push: a record that cannot be had only sets c->oom.
Emits(r) ==
  \/ records' = Append(records, r) /\ UNCHANGED <<oom, failed>>
  \/ TRUE \in Failures /\ oom' = TRUE /\ failed' = TRUE /\ UNCHANGED records

Silent == UNCHANGED <<records, oom, failed>>

\* The checks of the entry's declaration, and the frame of the entry module.
name_resolve ==
  /\ status = "start" /\ status' = "running"
  /\ LET decl == tree[Entry].decl
     IN IF IsRt(decl) THEN Emits(Record("AIC-N0207", Entry, 0))
        ELSE IF decl # Entry THEN Emits(Record("AIC-N0205", Entry, 0))
        ELSE Silent
  /\ modules' = <<Entry>> /\ stack' = <<Frame(Entry, 0)>>
  /\ UNCHANGED <<tree, imports, resolved>>

\* The import statement resolve_module is at, and the name it imports.
AtImport == /\ status = "running" /\ stack # <<>>
            /\ Top.next <= Len(tree[Top.mod].imports)
Target   == tree[Top.mod].imports[Top.next]
Here(code) == Record(code, Top.mod, Top.next)

Advanced == [stack EXCEPT ![Len(stack)].next = @ + 1]

\* The import is done with: no module is added and no edge.
Passed == /\ stack' = Advanced
          /\ UNCHANGED <<tree, modules, imports, resolved, status>>

\* add_import_edge
WithEdge(m, n) == IF Contains(imports[m], n) THEN imports
                  ELSE [imports EXCEPT ![m] = Append(@, n)]

Known(n) == Contains(modules, n)

Bug_OnPath(n) == n = Top.mod

\* The target is on the current path: the import closes a cycle.
OnPath(n) == Contains(Path, n)

\* The compiler-provided modules: only the second part of the name is looked at.
InSurface(n) == Len(n) > 1 /\ n[2] \in {"mem", "io", "proc", "trap"}

ImportBareRt ==
  /\ AtImport /\ IsRt(Target) /\ Len(Target) = 1
  /\ Emits(Here("AIC-N0209")) /\ Passed

ImportReserved ==
  /\ AtImport /\ IsRt(Target) /\ Len(Target) > 1 /\ ~ InSurface(Target)
  /\ Emits(Here("AIC-N0208")) /\ Passed

ImportRuntime ==
  /\ AtImport /\ IsRt(Target) /\ InSurface(Target)
  /\ modules' = IF Known(Target) THEN modules ELSE Append(modules, Target)
  /\ imports' = WithEdge(Top.mod, Target)
  /\ stack' = Advanced /\ Silent
  /\ UNCHANGED <<tree, resolved, status>>

Bug_Cycle(found) ==
  [code |-> "AIC-N0206", mod |-> stack[found].mod,
   at   |-> IF found < Len(stack) THEN stack[found + 1].via ELSE Top.next,
   also |-> SubSeq(Path, found, Len(stack))]

\* emit_cycle: the record points at the import that leads from the first member
\* into the cycle and names the others; it does not point at the closing import.
Cycle(found) ==
  [code |-> "AIC-N0206", mod |-> stack[found].mod,
   at   |-> IF found < Len(stack) THEN stack[found + 1].via ELSE Top.next,
   also |-> SubSeq(Path, found + 1, Len(stack))]

\* What is left of s when all but n of its members are dropped.
Thinned(s, n) ==
  LET Picks == {f \in [1 .. n -> DOMAIN s] : \A j, k \in 1 .. n : j < k => f[j] < f[k]}
  IN {[k \in 1 .. n |-> s[f[k]]] : f \in Picks}

\* diag_record_add_secondary_span may fail for any member, and nobody looks.
Unnamed(r) ==
  /\ TRUE \in Failures
  /\ \E n \in 0 .. Len(r.also) - 1 : \E named \in Thinned(r.also, n) :
       records' = Append(records, [r EXCEPT !.also = named])
  /\ failed' = TRUE /\ UNCHANGED oom

ImportCycle ==
  /\ AtImport /\ ~ IsRt(Target) /\ OnPath(Target)
  /\ \E found \in DOMAIN stack :
       /\ stack[found].mod = Target
       /\ Emits(Cycle(found)) \/ Unnamed(Cycle(found))
  /\ Passed

ImportKnown ==
  /\ AtImport /\ ~ IsRt(Target) /\ ~ OnPath(Target) /\ Known(Target)
  /\ imports' = WithEdge(Top.mod, Target)
  /\ stack' = Advanced /\ Silent
  /\ UNCHANGED <<tree, modules, resolved, status>>

Fresh == AtImport /\ ~ IsRt(Target) /\ ~ OnPath(Target) /\ ~ Known(Target)
Found == tree[Target]

\* read_file_bytes also answers false when it gets no memory for the bytes.
ImportAbsent ==
  /\ Fresh
  /\ \/ Found.state = "absent" /\ Emits(Here("AIC-N0204"))
     \/ /\ TRUE \in Failures /\ failed' = TRUE
        /\ records' = Append(records, Here("AIC-N0204")) /\ UNCHANGED oom
  /\ Passed

\* The loader, the lexer or the parser rejects the file: its records are passed
\* on, and no module is registered.
ImportBroken ==
  /\ Fresh /\ Found.state \in {"load", "lex", "parse"}
  /\ Emits(Record(Found.state, Target, 0)) /\ Passed

ImportMisdeclared ==
  /\ Fresh /\ Found.state = "ok" /\ Found.decl # Target
  /\ Emits(Record(IF IsRt(Found.decl) THEN "AIC-N0207" ELSE "AIC-N0205", Target, 0))
  /\ Passed

ImportModule ==
  /\ Fresh /\ Found.state = "ok" /\ Found.decl = Target
  /\ modules' = Append(modules, Target)
  /\ imports' = WithEdge(Top.mod, Target)
  /\ stack' = Append(Advanced, Frame(Target, Top.next))
  /\ Silent /\ UNCHANGED <<tree, resolved, status>>

\* The imports of the module are done: its bodies are resolved and it returns.
ResolveBodies ==
  /\ status = "running" /\ stack # <<>>
  /\ Top.next > Len(tree[Top.mod].imports)
  /\ resolved' = Append(resolved, Top.mod) /\ stack' = Front(stack)
  /\ Silent /\ UNCHANGED <<tree, modules, imports, status>>

\* Any other allocation fails: false is returned through all frames.
Fail ==
  /\ status = "running" /\ stack # <<>> /\ TRUE \in Failures
  /\ failed' = TRUE /\ stack' = <<>> /\ status' = "unwound"
  /\ UNCHANGED <<tree, modules, imports, resolved, records, oom>>

Outcome == IF status = "unwound" \/ oom THEN "NAME_OOM"
           ELSE IF records # <<>> THEN "NAME_DIAG_ERROR" ELSE "NAME_OK"

\* The end of name_resolve: on NAME_OOM nothing is handed out.
Finish ==
  /\ status \in {"running", "unwound"} /\ stack = <<>>
  /\ status' = Outcome
  /\ IF Outcome = "NAME_OOM"
     THEN /\ modules' = <<>> /\ imports' = [n \in Name |-> <<>>]
          /\ records' = <<>> /\ resolved' = <<>>
     ELSE UNCHANGED <<modules, imports, records, resolved>>
  /\ UNCHANGED <<tree, stack, oom, failed>>

Next == \/ name_resolve \/ ImportBareRt \/ ImportReserved \/ ImportRuntime
        \/ ImportCycle \/ ImportKnown \/ ImportAbsent \/ ImportBroken
        \/ ImportMisdeclared \/ ImportModule \/ ResolveBodies \/ Fail \/ Finish

\* A project is any choice of files for the ordinary module names; the caller
\* has parsed the entry's.
Trees == {t \in [User -> File] : t[Entry].state = "ok"}

Spec == tree \in Trees /\ NameInit /\ [][Next]_vars

-----------------------------------------------------------------------------
(* Properties                                                              *)

\* The module table, the edges and the path fit together at every step: a module
\* is registered once and is on the path at most once; an edge leads to a
\* registered module that has been resolved before the importing one or that the
\* path has just entered, so the edges of the result never form a cycle, not even
\* after a rejected one, and bodies are resolved only behind their imports.
GraphSound ==
  /\ IsInjective(modules) /\ IsInjective(Path) /\ IsInjective(resolved)
  /\ stack # <<>> => stack[1].mod = Entry
  /\ \A k \in 1 .. Len(stack) - 1 : tree[stack[k].mod].imports[stack[k + 1].via] = stack[k + 1].mod
  /\ \A m, n \in Name : Contains(imports[m], n) /\ status # "unwound" =>
       /\ Known(m) /\ Known(n)
       /\ \/ IsRt(n)
          \/ \E k \in DOMAIN stack : k > 1 /\ stack[k - 1].mod = m /\ stack[k].mod = n
          \/ \E j \in DOMAIN resolved :
               /\ resolved[j] = n
               /\ \A i \in 1 .. j : resolved[i] # m

\* What a project should be told, read from its files alone.
Loads(n)   == n = Entry \/ (~ IsRt(n) /\ tree[n].state = "ok" /\ tree[n].decl = n)
Leads(S)   == {n \in Name : Loads(n) /\ \E m \in S : Contains(tree[m].imports, n)}
Reach(S)   == {n \in User : \A T \in SUBSET User :
                              S \subseteq T /\ Leads(T) \subseteq T => n \in T}
Reached    == Reach({Entry})
Cyclic     == \E m \in Reached : m \in Reach(Leads({m}))

ImportFault(n) ==
  IF IsRt(n) THEN IF Len(n) = 1 THEN "AIC-N0209"
                  ELSE IF InSurface(n) THEN "none" ELSE "AIC-N0208"
  ELSE IF n # Entry /\ tree[n].state = "absent" THEN "AIC-N0204" ELSE "none"

FileFault(n) ==
  IF tree[n].state = "absent" THEN "none"
  ELSE IF tree[n].state # "ok" THEN tree[n].state
  ELSE IF IsRt(tree[n].decl) THEN "AIC-N0207"
  ELSE IF tree[n].decl # n THEN "AIC-N0205" ELSE "none"

Statements == UNION {{m} \X DOMAIN tree[m].imports : m \in Reached}
Imported   == {n \in User : \E m \in Reached : Contains(tree[m].imports, n)}

Faults == {f \in {<<ImportFault(tree[s[1]].imports[s[2]]), s[1], s[2]>> : s \in Statements}
                 \cup {<<FileFault(n), n, 0>> : n \in Imported \cup {Entry}} : f[1] # "none"}

Returned == status \in {"NAME_OK", "NAME_DIAG_ERROR"}

\* A record of a cycle points at an import that leads into it, and the modules
\* it names close it; only a failed allocation leaves a member unnamed.
CyclesReal ==
  \A r \in ToSet(records) : r.code = "AIC-N0206" =>
    LET ring == <<r.mod>> \o r.also \o <<r.mod>>
    IN \/ /\ tree[r.mod].imports[r.at] = ring[2]
          /\ \A k \in 1 .. Len(ring) - 1 : Contains(tree[ring[k]].imports, ring[k + 1])
       \/ /\ failed
          /\ \A m \in ToSet(ring) : m \in Reach({tree[r.mod].imports[r.at]})

\* The records say what is wrong with the project (spec 6.5): a record of a cycle
\* is real at every step, and without a failed allocation those returned are
\* exactly the faults of the files that can be reached and a cycle is among them
\* exactly when there is one.
RecordsExact ==
  /\ CyclesReal
  /\ Returned /\ ~ failed =>
       /\ {<<r.code, r.mod, r.at>> : r \in {r \in ToSet(records) : r.code # "AIC-N0206"}} = Faults
       /\ Cyclic <=> \E r \in ToSet(records) : r.code = "AIC-N0206"

\* The depth-first order of spec 14.2, read from the files: each module but the
\* first is the first unlisted import of the latest module that has one.
ImportsOf(n) == IF IsRt(n) THEN <<>> ELSE tree[n].imports

Before(order, k)      == {order[j] : j \in 1 .. k}
Complete(order, l, k) == ToSet(ImportsOf(order[l])) \subseteq Before(order, k)
Leading(order, j, k)  == \E at \in DOMAIN ImportsOf(order[j]) :
                           /\ ImportsOf(order[j])[at] = order[k + 1]
                           /\ \A i \in 1 .. at - 1 : ImportsOf(order[j])[i] \in Before(order, k)

DepthFirst(order) ==
  /\ order # <<>> /\ order[1] = Entry /\ IsInjective(order)
  /\ \A l \in DOMAIN order : Complete(order, l, Len(order))
  /\ \A k \in 1 .. Len(order) - 1 : \E j \in 1 .. k :
       Leading(order, j, k) /\ \A l \in j + 1 .. k : Complete(order, l, k)

\* NAME_OK means that no allocation failed, no file reached is at fault, there is
\* no cycle, the modules are all that can be reached, in depth-first order, and
\* the edges are the imports as written.
AcceptedExact ==
  status = "NAME_OK" =>
    /\ ~ failed /\ Faults = {} /\ ~ Cyclic
    /\ DepthFirst(modules)
    /\ \A m \in User : Known(m) => ToSet(imports[m]) = ToSet(tree[m].imports)

\* name_resolve tells everything that is wrong and accepts what is right.
VerdictExact == RecordsExact /\ AcceptedExact
=============================================================================
