----------------------------- MODULE NameProofs -----------------------------
(***************************************************************************)
(* The module graph of name.c, for every project: any number of modules,   *)
(* any imports, any files at fault, any allocations that fail.             *)
(*                                                                         *)
(* GraphSound alone is not inductive: that an import of a known module off *)
(* the path adds an edge to one already resolved needs Partition, which    *)
(* says that a registered module is on the path or resolved, never both.   *)
(*                                                                         *)
(* VerdictExact speaks of the end.  The invariant that leads there keeps   *)
(* the account of what has been read so far: every module of the path is   *)
(* one that can be reached (Walked), every import the walk is past has     *)
(* been settled (Told), and every record is about a real fault (Truthful). *)
(***************************************************************************)
EXTENDS NameGraph, SequenceTheorems, WellFoundedInduction, TLAPS

EntryOrdinary == Entry \in User

Frames == [mod : User, via : Nat, next : Nat \ {0}]

TypeOK ==
  /\ tree \in [User -> File] /\ tree[Entry].state = "ok"
  /\ modules \in Seq(Name) /\ imports \in [Name -> Seq(Name)]
  /\ stack \in Seq(Frames) /\ resolved \in Seq(User)

Held(n) == \E k \in 1 .. Len(stack) : stack[k].mod = n
Done(n) == \E j \in 1 .. Len(resolved) : resolved[j] = n
Listed(n) == \E i \in 1 .. Len(modules) : modules[i] = n
Edge(m, n) == \E i \in 1 .. Len(imports[m]) : imports[m][i] = n

Fresh0 == status = "start" =>
  /\ stack = <<>> /\ modules = <<>> /\ resolved = <<>>
  /\ imports = [n \in Name |-> <<>>]

Partition == status = "running" => \A n \in Name :
  /\ Held(n) => Listed(n) /\ ~ Done(n)
  /\ Done(n) => Listed(n)
  /\ Listed(n) => IsRt(n) \/ Held(n) \/ Done(n)

Once ==
  /\ \A i, j \in 1 .. Len(modules) : modules[i] = modules[j] => i = j
  /\ \A i, j \in 1 .. Len(stack) : stack[i].mod = stack[j].mod => i = j
  /\ \A i, j \in 1 .. Len(resolved) : resolved[i] = resolved[j] => i = j

OnImports ==
  /\ stack # <<>> => stack[1].mod = Entry
  /\ \A k \in 1 .. Len(stack) - 1 :
       tree[stack[k].mod].imports[stack[k + 1].via] = stack[k + 1].mod

Led(m, n) == \E k \in 2 .. Len(stack) : stack[k - 1].mod = m /\ stack[k].mod = n
Behind(m, n) == \E j \in 1 .. Len(resolved) :
                  resolved[j] = n /\ \A i \in 1 .. j : resolved[i] # m

Edges == status # "unwound" => \A m, n \in Name : Edge(m, n) =>
           /\ Listed(m) /\ Listed(n)
           /\ IsRt(n) \/ Led(m, n) \/ Behind(m, n)

\* The inductive invariant.
IInv == TypeOK /\ Fresh0 /\ Partition /\ Once /\ OnImports /\ Edges

-----------------------------------------------------------------------------
\* The invariant gives the property.
LEMMA Implies == IInv => GraphSound
<1> SUFFICES ASSUME IInv PROVE GraphSound
  OBVIOUS
<1>1. /\ DOMAIN modules = 1 .. Len(modules) /\ DOMAIN stack = 1 .. Len(stack)
      /\ DOMAIN resolved = 1 .. Len(resolved)
  BY DEF IInv, TypeOK
<1>2. IsInjective(modules) /\ IsInjective(Path) /\ IsInjective(resolved)
  <2>1. DOMAIN Path = 1 .. Len(stack) /\ \A k \in 1 .. Len(stack) : Path[k] = stack[k].mod
    BY <1>1 DEF Path
  <2> QED
    BY <1>1, <2>1 DEF IInv, Once, IsInjective
<1>3. stack # <<>> => stack[1].mod = Entry
  BY DEF IInv, OnImports
<1>4. \A k \in 1 .. Len(stack) - 1 : tree[stack[k].mod].imports[stack[k + 1].via] = stack[k + 1].mod
  BY DEF IInv, OnImports
<1>5. ASSUME NEW m \in Name, NEW n \in Name, Contains(imports[m], n), status # "unwound"
      PROVE  /\ Known(m) /\ Known(n)
             /\ \/ IsRt(n)
                \/ \E k \in DOMAIN stack : k > 1 /\ stack[k - 1].mod = m /\ stack[k].mod = n
                \/ \E j \in DOMAIN resolved :
                     /\ resolved[j] = n
                     /\ \A i \in 1 .. j : resolved[i] # m
  <2>1. Edge(m, n)
    BY <1>5 DEF Contains, Edge
  <2>2. Listed(m) /\ Listed(n) /\ (IsRt(n) \/ Led(m, n) \/ Behind(m, n))
    BY <1>5, <2>1 DEF IInv, Edges
  <2>3. Known(m) /\ Known(n)
    BY <2>2 DEF Known, Contains, Listed
  <2>4. CASE Led(m, n)
    <3> PICK k \in 2 .. Len(stack) : stack[k - 1].mod = m /\ stack[k].mod = n
      BY <2>4 DEF Led
    <3> Len(stack) \in Nat
      BY DEF IInv, TypeOK
    <3> k \in DOMAIN stack /\ k > 1
      BY <1>1
    <3> QED
      BY <2>3
  <2>5. CASE Behind(m, n)
    BY <1>1, <2>3, <2>5 DEF Behind
  <2> QED
    BY <2>2, <2>3, <2>4, <2>5
<1> QED
  BY <1>2, <1>3, <1>4, <1>5 DEF GraphSound

-----------------------------------------------------------------------------
(* What the actions do to the tables                                       *)

\* Moving on to the next import changes neither the path nor what led to it.
LEMMA AdvancedPath ==
  ASSUME TypeOK, stack # <<>>
  PROVE  /\ Advanced \in Seq(Frames) /\ Len(Advanced) = Len(stack) /\ Advanced # <<>>
         /\ \A k \in 1 .. Len(stack) : /\ Advanced[k].mod = stack[k].mod
                                       /\ Advanced[k].via = stack[k].via
<1>1. Len(stack) \in Nat /\ DOMAIN stack = 1 .. Len(stack) /\ Len(stack) > 0
  BY DEF TypeOK
<1>2. \A k \in 1 .. Len(stack) : stack[k] \in Frames
  BY DEF TypeOK
<1>3. Advanced = [k \in 1 .. Len(stack) |->
                    IF k = Len(stack) THEN [stack[k] EXCEPT !.next = @ + 1] ELSE stack[k]]
  BY <1>1, <1>2 DEF Advanced
<1>4. \A k \in 1 .. Len(stack) :
        /\ Advanced[k] \in Frames
        /\ Advanced[k].mod = stack[k].mod /\ Advanced[k].via = stack[k].via
  BY <1>2, <1>3 DEF Frames
<1>5. Advanced \in Seq(Frames) /\ Len(Advanced) = Len(stack)
  BY <1>1, <1>3, <1>4
<1> QED
  BY <1>1, <1>4, <1>5

\* An edge is added once, and only that edge.
LEMMA EdgeAdded ==
  ASSUME TypeOK, NEW m \in Name, NEW n \in Name, imports' = WithEdge(m, n)
  PROVE  /\ imports' \in [Name -> Seq(Name)]
         /\ \A x, y \in Name : Edge(x, y)' => Edge(x, y) \/ (x = m /\ y = n)
<1>1. imports[m] \in Seq(Name) /\ DOMAIN imports = Name
  BY DEF TypeOK
<1>2. CASE Contains(imports[m], n)
  BY <1>2 DEF WithEdge, TypeOK, Edge
<1>3. CASE ~ Contains(imports[m], n)
  <2>1. imports' = [imports EXCEPT ![m] = Append(imports[m], n)]
    BY <1>3 DEF WithEdge
  <2>2. imports' \in [Name -> Seq(Name)]
    BY <1>1, <2>1 DEF TypeOK
  <2>3. ASSUME NEW x \in Name, NEW y \in Name, Edge(x, y)', ~ (x = m /\ y = n)
        PROVE  Edge(x, y)
    <3>1. CASE x = m
      <4>1. imports'[x] = Append(imports[m], n)
        BY <1>1, <2>1, <3>1
      <4>2. PICK i \in 1 .. Len(imports'[x]) : imports'[x][i] = y
        BY <2>3 DEF Edge
      <4>3. i \in 1 .. Len(imports[m]) /\ imports[m][i] = y
        BY <1>1, <2>3, <3>1, <4>1, <4>2
      <4> QED
        BY <3>1, <4>3 DEF Edge
    <3>2. CASE x # m
      <4>1. imports'[x] = imports[x]
        BY <1>1, <2>1, <3>2
      <4> QED
        BY <2>3, <4>1 DEF Edge
    <3> QED
      BY <3>1, <3>2
  <2> QED
    BY <2>2, <2>3
<1> QED
  BY <1>2, <1>3

\* A module registered for the first time.
LEMMA Enlisted ==
  ASSUME TypeOK, Once, NEW n \in Name, ~ Known(n), modules' = Append(modules, n)
  PROVE  /\ modules' \in Seq(Name)
         /\ \A x \in Name : Listed(x)' <=> Listed(x) \/ x = n
         /\ \A i, j \in 1 .. Len(modules') : modules'[i] = modules'[j] => i = j
<1>1. /\ modules' \in Seq(Name) /\ Len(modules') = Len(modules) + 1 /\ Len(modules) \in Nat
      /\ \A i \in 1 .. Len(modules) : modules'[i] = modules[i]
      /\ modules'[Len(modules) + 1] = n
  BY DEF TypeOK
<1>2. \A i \in 1 .. Len(modules) : modules[i] # n
  BY DEF Known, Contains
<1>3. \A x \in Name : Listed(x)' <=> Listed(x) \/ x = n
  BY <1>1 DEF Listed
<1>4. \A i, j \in 1 .. Len(modules') : modules'[i] = modules'[j] => i = j
  BY <1>1, <1>2 DEF Once
<1> QED
  BY <1>1, <1>3, <1>4

\* OnPath looks at the modules of the frames.
LEMMA PathHolds ==
  ASSUME TypeOK, NEW n
  PROVE  OnPath(n) <=> Held(n)
<1>1. DOMAIN stack = 1 .. Len(stack) /\ Len(stack) \in Nat
  BY DEF TypeOK
<1>2. Len(Path) = Len(stack) /\ \A k \in 1 .. Len(stack) : Path[k] = stack[k].mod
  <2>1. Path = [k \in 1 .. Len(stack) |-> stack[k].mod]
    BY <1>1 DEF Path
  <2> QED
    BY <1>1, <2>1
<1> QED
  BY <1>2 DEF OnPath, Contains, Held

\* The import at hand is of a module that is on the path.
LEMMA AtHand ==
  ASSUME TypeOK, AtImport
  PROVE  /\ Len(stack) \in Nat /\ Len(stack) > 0 /\ stack # <<>>
         /\ Top \in Frames /\ Top.mod \in User /\ Top.mod \in Name
         /\ Top.next \in Nat /\ Target \in Name
         /\ tree[Top.mod].imports[Top.next] = Target
         /\ status = "running" /\ Held(Top.mod)
<1>1. Len(stack) \in Nat /\ Len(stack) > 0 /\ stack # <<>> /\ status = "running"
  BY DEF AtImport, TypeOK
<1>2. Top = stack[Len(stack)] /\ Top \in Frames
  BY <1>1 DEF Top, TypeOK
<1>3. Top.mod \in User /\ Top.next \in Nat \ {0}
  BY <1>2 DEF Frames
<1>4. tree[Top.mod].imports \in Seq(Name)
  BY <1>3 DEF TypeOK, File
<1>5. Target \in Name
  BY <1>3, <1>4 DEF AtImport, Target
<1> QED
  BY <1>1, <1>2, <1>3, <1>5 DEF Target, Held, User

\* The path as the properties see it is the same once the import is done with.
LEMMA PathKept ==
  ASSUME TypeOK, Once, OnImports, stack # <<>>, stack' = Advanced, tree' = tree
  PROVE  /\ stack' \in Seq(Frames) /\ OnImports'
         /\ \A n \in Name : Held(n)' <=> Held(n)
         /\ \A m, n \in Name : Led(m, n) => Led(m, n)'
         /\ \A i, j \in 1 .. Len(stack') : stack'[i].mod = stack'[j].mod => i = j
<1>1. /\ stack' \in Seq(Frames) /\ Len(stack') = Len(stack)
      /\ \A k \in 1 .. Len(stack) : /\ stack'[k].mod = stack[k].mod
                                    /\ stack'[k].via = stack[k].via
  BY AdvancedPath
<1>2. Len(stack) \in Nat /\ Len(stack) > 0
  BY DEF TypeOK
<1>3. \A k \in 1 .. Len(stack) - 1 : k \in 1 .. Len(stack) /\ k + 1 \in 1 .. Len(stack)
  BY <1>2
<1>4. OnImports'
  BY <1>1, <1>2, <1>3 DEF OnImports
<1>5. \A n \in Name : Held(n)' <=> Held(n)
  BY <1>1 DEF Held
<1>6. \A m, n \in Name : Led(m, n) => Led(m, n)'
  BY <1>1, <1>2 DEF Led
<1>7. \A i, j \in 1 .. Len(stack') : stack'[i].mod = stack'[j].mod => i = j
  BY <1>1 DEF Once
<1> QED
  BY <1>1, <1>4, <1>5, <1>6, <1>7

\* An import that leaves the tables alone.
LEMMA PassedStep ==
  ASSUME IInv, AtImport, Passed
  PROVE  IInv'
<1> USE DEF IInv
<1>1. /\ stack # <<>> /\ status = "running" /\ stack' = Advanced
      /\ tree' = tree /\ modules' = modules /\ imports' = imports
      /\ resolved' = resolved /\ status' = status
  BY DEF AtImport, Passed
<1>2. /\ stack' \in Seq(Frames) /\ OnImports'
      /\ \A n \in Name : Held(n)' <=> Held(n)
      /\ \A m, n \in Name : Led(m, n) => Led(m, n)'
      /\ \A i, j \in 1 .. Len(stack') : stack'[i].mod = stack'[j].mod => i = j
  BY <1>1, PathKept
<1>3. TypeOK'
  BY <1>1, <1>2 DEF TypeOK
<1>4. Fresh0'
  BY <1>1 DEF Fresh0
<1>5. Partition'
  BY <1>1, <1>2 DEF Partition, Listed, Done
<1>6. Once'
  BY <1>1, <1>2 DEF Once
<1>7. Edges'
  BY <1>1, <1>2 DEF Edges, Edge, Listed, Behind
<1> QED
  BY <1>2, <1>3, <1>4, <1>5, <1>6, <1>7

\* An import of a compiler-provided module: the module may be new, and nothing
\* is walked.
LEMMA RuntimeStep ==
  ASSUME IInv, ImportRuntime
  PROVE  IInv'
<1> USE DEF IInv
<1>1. /\ stack # <<>> /\ status = "running" /\ stack' = Advanced
      /\ tree' = tree /\ resolved' = resolved /\ status' = status
      /\ imports' = WithEdge(Top.mod, Target) /\ IsRt(Target)
      /\ modules' = IF Known(Target) THEN modules ELSE Append(modules, Target)
  BY DEF ImportRuntime, AtImport
<1>2. Top.mod \in Name /\ Target \in Name /\ Held(Top.mod)
  BY AtHand DEF ImportRuntime
<1>3. /\ stack' \in Seq(Frames) /\ OnImports'
      /\ \A n \in Name : Held(n)' <=> Held(n)
      /\ \A m, n \in Name : Led(m, n) => Led(m, n)'
      /\ \A i, j \in 1 .. Len(stack') : stack'[i].mod = stack'[j].mod => i = j
  BY <1>1, PathKept
<1>4. /\ imports' \in [Name -> Seq(Name)]
      /\ \A x, y \in Name : Edge(x, y)' => Edge(x, y) \/ (x = Top.mod /\ y = Target)
  BY <1>1, <1>2, EdgeAdded
<1>5. /\ modules' \in Seq(Name)
      /\ \A n \in Name : Listed(n)' <=> Listed(n) \/ n = Target
      /\ \A i, j \in 1 .. Len(modules') : modules'[i] = modules'[j] => i = j
  <2>1. CASE Known(Target)
    BY <1>1, <2>1 DEF Known, Contains, Listed, TypeOK, Once
  <2>2. CASE ~ Known(Target)
    BY <1>1, <1>2, <2>2, Enlisted
  <2> QED
    BY <2>1, <2>2
<1>6. TypeOK'
  BY <1>1, <1>3, <1>4, <1>5 DEF TypeOK
<1>7. Fresh0'
  BY <1>1 DEF Fresh0
<1>8. Partition'
  BY <1>1, <1>3, <1>5 DEF Partition, Done
<1>9. Once'
  BY <1>1, <1>3, <1>5 DEF Once
<1>10. Edges'
  BY <1>1, <1>2, <1>3, <1>4, <1>5 DEF Edges, Behind, Partition
<1> QED
  BY <1>3, <1>6, <1>7, <1>8, <1>9, <1>10

\* A further import of a module that is done: its resolution is behind it, and
\* that of the importer is still to come.
LEMMA KnownStep ==
  ASSUME IInv, ImportKnown
  PROVE  IInv'
<1> USE DEF IInv
<1>1. /\ stack # <<>> /\ status = "running" /\ stack' = Advanced
      /\ tree' = tree /\ resolved' = resolved /\ status' = status
      /\ modules' = modules
      /\ imports' = WithEdge(Top.mod, Target)
      /\ ~ IsRt(Target) /\ ~ OnPath(Target) /\ Known(Target)
  BY DEF ImportKnown, AtImport
<1>2. Top.mod \in Name /\ Target \in Name /\ Held(Top.mod)
  BY AtHand DEF ImportKnown
<1>3. /\ stack' \in Seq(Frames) /\ OnImports'
      /\ \A n \in Name : Held(n)' <=> Held(n)
      /\ \A m, n \in Name : Led(m, n) => Led(m, n)'
      /\ \A i, j \in 1 .. Len(stack') : stack'[i].mod = stack'[j].mod => i = j
  BY <1>1, PathKept
<1>4. /\ imports' \in [Name -> Seq(Name)]
      /\ \A x, y \in Name : Edge(x, y)' => Edge(x, y) \/ (x = Top.mod /\ y = Target)
  BY <1>1, <1>2, EdgeAdded
<1>5. Listed(Target) /\ ~ Held(Target)
  BY <1>1, PathHolds DEF Known, Contains, Listed
<1>6. Done(Target) /\ ~ Done(Top.mod) /\ Listed(Top.mod)
  BY <1>1, <1>2, <1>5 DEF Partition
<1>7. Behind(Top.mod, Target)
  BY <1>6 DEF Done, Behind, TypeOK
<1>8. TypeOK'
  BY <1>1, <1>3, <1>4 DEF TypeOK
<1>9. Fresh0'
  BY <1>1 DEF Fresh0
<1>10. Partition'
  BY <1>1, <1>3 DEF Partition, Done, Listed
<1>11. Once'
  BY <1>1, <1>3 DEF Once
<1>12. Edges'
  <2>1. \A m, n \in Name : Behind(m, n)' <=> Behind(m, n)
    BY <1>1 DEF Behind
  <2>2. \A n \in Name : Listed(n)' <=> Listed(n)
    BY <1>1 DEF Listed
  <2>3. ASSUME NEW m \in Name, NEW n \in Name, Edge(m, n)'
        PROVE  Listed(m)' /\ Listed(n)' /\ (IsRt(n) \/ Led(m, n)' \/ Behind(m, n)')
    <3>1. CASE Edge(m, n)
      BY <1>1, <1>3, <2>1, <2>2, <3>1 DEF Edges
    <3>2. CASE m = Top.mod /\ n = Target
      BY <1>5, <1>6, <1>7, <2>1, <2>2, <3>2
    <3> QED
      BY <1>4, <2>3, <3>1, <3>2
  <2> QED
    BY <2>3 DEF Edges
<1> QED
  BY <1>3, <1>8, <1>9, <1>10, <1>11, <1>12

\* A module found and loaded is registered, entered, and led to by the import.
LEMMA ModuleStep ==
  ASSUME IInv, ImportModule
  PROVE  IInv'
<1> USE DEF IInv
<1>1. /\ stack # <<>> /\ status = "running" /\ ~ IsRt(Target) /\ ~ OnPath(Target) /\ ~ Known(Target)
      /\ stack' = Append(Advanced, Frame(Target, Top.next))
      /\ tree' = tree /\ resolved' = resolved /\ status' = status
      /\ modules' = Append(modules, Target)
      /\ imports' = WithEdge(Top.mod, Target)
  BY DEF ImportModule, Fresh, AtImport
<1>2. /\ Len(stack) \in Nat /\ Len(stack) > 0
      /\ Top.mod \in Name /\ Target \in Name /\ Target \in User /\ Top.next \in Nat
      /\ Held(Top.mod) /\ Top = stack[Len(stack)]
      /\ tree[Top.mod].imports[Top.next] = Target
  BY <1>1, AtHand DEF ImportModule, Fresh, User, Top
<1>3. /\ Advanced \in Seq(Frames) /\ Len(Advanced) = Len(stack)
      /\ \A k \in 1 .. Len(stack) : /\ Advanced[k].mod = stack[k].mod
                                    /\ Advanced[k].via = stack[k].via
  BY <1>1, AdvancedPath
<1>4. Frame(Target, Top.next) \in Frames
  BY <1>2 DEF Frame, Frames
<1>5. /\ stack' \in Seq(Frames) /\ Len(stack') = Len(stack) + 1
      /\ \A k \in 1 .. Len(stack) : stack'[k] = Advanced[k]
      /\ stack'[Len(stack) + 1] = Frame(Target, Top.next)
  BY <1>1, <1>3, <1>4
<1>6. /\ stack'[Len(stack) + 1].mod = Target /\ stack'[Len(stack) + 1].via = Top.next
      /\ \A k \in 1 .. Len(stack) : /\ stack'[k].mod = stack[k].mod
                                    /\ stack'[k].via = stack[k].via
  BY <1>3, <1>5 DEF Frame
<1>7. \A n \in Name : Held(n)' <=> Held(n) \/ n = Target
  BY <1>2, <1>5, <1>6 DEF Held
<1>8. ASSUME NEW m \in Name, NEW n \in Name, Led(m, n)
      PROVE  Led(m, n)'
  <2>1. PICK k \in 2 .. Len(stack) : stack[k - 1].mod = m /\ stack[k].mod = n
    BY <1>8 DEF Led
  <2>2. k \in 2 .. Len(stack') /\ k \in 1 .. Len(stack) /\ k - 1 \in 1 .. Len(stack)
    BY <1>2, <1>5
  <2>3. stack'[k - 1].mod = m /\ stack'[k].mod = n
    BY <1>6, <2>1, <2>2
  <2> QED
    BY <2>2, <2>3 DEF Led
<1>9. ASSUME NEW m \in Name, NEW n \in Name, m = Top.mod, n = Target
      PROVE  Led(m, n)'
  <2>1. PICK k \in 2 .. Len(stack') : k = Len(stack) + 1
    BY <1>2, <1>5
  <2>2. k - 1 = Len(stack) /\ k - 1 \in 1 .. Len(stack)
    BY <1>2, <2>1
  <2>3. stack'[k - 1].mod = m /\ stack'[k].mod = n
    BY <1>2, <1>6, <1>9, <2>1, <2>2
  <2> QED
    BY <2>3 DEF Led
<1>10. ~ Held(Target) /\ ~ Listed(Target)
  BY <1>1, PathHolds DEF Known, Contains, Listed
<1>11. /\ imports' \in [Name -> Seq(Name)]
       /\ \A x, y \in Name : Edge(x, y)' => Edge(x, y) \/ (x = Top.mod /\ y = Target)
  BY <1>1, <1>2, EdgeAdded
<1>12. /\ modules' \in Seq(Name)
       /\ \A n \in Name : Listed(n)' <=> Listed(n) \/ n = Target
       /\ \A i, j \in 1 .. Len(modules') : modules'[i] = modules'[j] => i = j
  BY <1>1, <1>2, Enlisted
<1>13. TypeOK'
  BY <1>1, <1>5, <1>11, <1>12 DEF TypeOK
<1>14. Fresh0'
  BY <1>1 DEF Fresh0
<1>15. Partition'
  <2>1. ~ Done(Target)
    BY <1>1, <1>2, <1>10 DEF Partition
  <2>2. \A n \in Name : Done(n)' <=> Done(n)
    BY <1>1 DEF Done
  <2> QED
    BY <1>1, <1>7, <1>12, <2>1, <2>2 DEF Partition
<1>16. \A i, j \in 1 .. Len(stack') : stack'[i].mod = stack'[j].mod => i = j
  BY <1>2, <1>5, <1>6, <1>10 DEF Once, Held
<1>17. Once'
  BY <1>1, <1>12, <1>16 DEF Once
<1>18. OnImports'
  <2>1. stack'[1].mod = Entry
    BY <1>1, <1>2, <1>6 DEF OnImports
  <2>2. ASSUME NEW k \in 1 .. Len(stack') - 1
        PROVE  tree'[stack'[k].mod].imports[stack'[k + 1].via] = stack'[k + 1].mod
    <3>1. CASE k < Len(stack)
      BY <1>1, <1>2, <1>5, <1>6, <3>1 DEF OnImports
    <3>2. CASE k = Len(stack)
      BY <1>1, <1>2, <1>6, <3>2
    <3> DEFINE l == Len(stack)
    <3>3. l \in Nat /\ k \in 1 .. (l + 1) - 1
      BY <1>2, <1>5
    <3> HIDE DEF l
    <3>4. k < l \/ k = l
      BY <3>3
    <3> QED
      BY <3>1, <3>2, <3>4 DEF l
  <2> QED
    BY <2>1, <2>2 DEF OnImports
<1>19. Edges'
  <2>1. \A m, n \in Name : Behind(m, n)' <=> Behind(m, n)
    BY <1>1 DEF Behind
  <2>2. ASSUME NEW m \in Name, NEW n \in Name, Edge(m, n)'
        PROVE  Listed(m)' /\ Listed(n)' /\ (IsRt(n) \/ Led(m, n)' \/ Behind(m, n)')
    <3>1. CASE Edge(m, n)
      BY <1>1, <1>8, <1>12, <2>1, <3>1 DEF Edges
    <3>2. CASE m = Top.mod /\ n = Target
      <4>1. Listed(Top.mod)
        BY <1>1, <1>2 DEF Partition
      <4> QED
        BY <1>2, <1>9, <1>12, <3>2, <4>1
    <3> QED
      BY <1>11, <2>2, <3>1, <3>2
  <2> QED
    BY <2>2 DEF Edges
<1> QED
  BY <1>13, <1>14, <1>15, <1>17, <1>18, <1>19

\* A module whose imports are done leaves the path; the edge that led to it now
\* lies behind its resolution, and its importer is still to be resolved.
LEMMA BodiesStep ==
  ASSUME IInv, ResolveBodies
  PROVE  IInv'
<1> USE DEF IInv
<1> DEFINE m0 == Top.mod
           l  == Len(stack)
<1>1. /\ stack # <<>> /\ status = "running" /\ stack' = Front(stack)
      /\ resolved' = Append(resolved, m0)
      /\ tree' = tree /\ modules' = modules /\ imports' = imports /\ status' = status
  BY DEF ResolveBodies
<1>2. l \in Nat /\ l > 0 /\ m0 = stack[l].mod /\ Top \in Frames
  BY <1>1 DEF TypeOK, Top
<1>3. m0 \in User /\ m0 \in Name
  BY <1>2 DEF Frames, User
<1>4. /\ stack' \in Seq(Frames) /\ Len(stack') = l - 1
      /\ \A k \in 1 .. l - 1 : stack'[k] = stack[k]
  <2>1. stack' = SubSeq(stack, 1, l - 1) /\ stack \in Seq(Frames)
    BY <1>1 DEF Front, TypeOK
  <2>2. \A k \in 1 .. l - 1 : stack[k] \in Frames
    BY <1>2, <2>1
  <2> HIDE DEF l
  <2> QED
    BY <1>2, <2>1, <2>2, SubSeqProperties
<1>5. /\ resolved' \in Seq(User) /\ Len(resolved) \in Nat /\ Len(resolved') = Len(resolved) + 1
      /\ \A j \in 1 .. Len(resolved) : resolved'[j] = resolved[j]
      /\ resolved'[Len(resolved) + 1] = m0
  BY <1>1, <1>3 DEF TypeOK
<1>6. \A n \in Name : Held(n)' <=> Held(n) /\ n # m0
  BY <1>2, <1>4 DEF Held, Once
<1>7. \A n \in Name : Done(n)' <=> Done(n) \/ n = m0
  BY <1>5 DEF Done
<1>8. Held(m0) /\ ~ Done(m0)
  BY <1>1, <1>2, <1>3 DEF Held, Partition
<1>9. \A n \in Name : Listed(n)' <=> Listed(n)
  BY <1>1 DEF Listed
<1>10. TypeOK'
  BY <1>1, <1>4, <1>5 DEF TypeOK
<1>11. Fresh0'
  BY <1>1 DEF Fresh0
<1>12. Partition'
  BY <1>1, <1>3, <1>6, <1>7, <1>8, <1>9 DEF Partition
<1>13. Once'
  BY <1>1, <1>2, <1>4, <1>5, <1>8, SMTT(40) DEF Once, Done
<1>14. OnImports'
  <2>1. stack' # <<>> => stack'[1].mod = Entry
    BY <1>1, <1>2, <1>4, SMTT(40) DEF OnImports
  <2>2. ASSUME NEW k \in 1 .. Len(stack') - 1
        PROVE  tree'[stack'[k].mod].imports[stack'[k + 1].via] = stack'[k + 1].mod
    <3>1. k \in 1 .. l - 1 /\ k + 1 \in 1 .. l - 1
      BY <1>2, <1>4
    <3>2. stack'[k] = stack[k] /\ stack'[k + 1] = stack[k + 1]
      BY <1>4, <3>1
    <3> QED
      BY <1>1, <1>2, <3>1, <3>2 DEF OnImports
  <2> QED
    BY <2>1, <2>2 DEF OnImports
<1>15. ASSUME NEW m \in Name, NEW n \in Name, Behind(m, n)
       PROVE  Behind(m, n)'
  <2>1. PICK j \in 1 .. Len(resolved) : resolved[j] = n /\ \A i \in 1 .. j : resolved[i] # m
    BY <1>15 DEF Behind
  <2>2. j \in 1 .. Len(resolved') /\ resolved'[j] = n /\ \A i \in 1 .. j : resolved'[i] # m
    BY <1>5, <2>1
  <2> QED
    BY <2>2 DEF Behind
<1>16. ASSUME NEW m \in Name, NEW n \in Name, Led(m, n)
       PROVE  Led(m, n)' \/ Behind(m, n)'
  <2>1. PICK k \in 2 .. l : stack[k - 1].mod = m /\ stack[k].mod = n
    BY <1>16 DEF Led
  <2>2. CASE k < l
    BY <1>2, <1>4, <2>1, <2>2 DEF Led
  <2>3. CASE k = l
    <3>1. n = m0 /\ m # m0
      BY <1>2, <2>1, <2>3 DEF Once
    <3>2. Held(m)
      BY <1>2, <2>1 DEF Held
    <3>3. ~ Done(m)
      BY <1>1, <3>2 DEF Partition
    <3>4. \A i \in 1 .. Len(resolved) + 1 : resolved'[i] # m
      BY <1>5, <3>1, <3>3 DEF Done
    <3> QED
      BY <1>5, <3>1, <3>4 DEF Behind
  <2>4. k < l \/ k = l
    <3> HIDE DEF l
    <3> QED
      BY <1>2
  <2> QED
    BY <2>2, <2>3, <2>4
<1>17. Edges'
  <2>1. \A m, n \in Name : Edge(m, n)' <=> Edge(m, n)
    BY <1>1 DEF Edge
  <2> QED
    BY <1>1, <1>9, <1>15, <1>16, <2>1 DEF Edges
<1> QED
  BY <1>10, <1>11, <1>12, <1>13, <1>14, <1>17

-----------------------------------------------------------------------------
(* The ends of a resolution                                                *)

LEMMA StartStep ==
  ASSUME EntryOrdinary, IInv, name_resolve
  PROVE  IInv'
<1> USE DEF IInv
<1>1. /\ status = "start" /\ status' = "running"
      /\ modules' = <<Entry>> /\ stack' = <<Frame(Entry, 0)>>
      /\ tree' = tree /\ imports' = imports /\ resolved' = resolved
  BY DEF name_resolve
<1>2. resolved = <<>> /\ imports = [n \in Name |-> <<>>]
  BY <1>1 DEF Fresh0
<1>3. Entry \in User /\ Entry \in Name
  BY DEF EntryOrdinary, User
<1>4. Frame(Entry, 0) \in Frames /\ Frame(Entry, 0).mod = Entry
  BY <1>3 DEF Frame, Frames
<1>5. stack' \in Seq(Frames) /\ Len(stack') = 1 /\ stack'[1].mod = Entry
  BY <1>1, <1>4
<1>6. modules' \in Seq(Name) /\ Len(modules') = 1 /\ modules'[1] = Entry
  BY <1>1, <1>3
<1>7. TypeOK' /\ Fresh0' /\ OnImports' /\ Once'
  BY <1>1, <1>2, <1>5, <1>6 DEF TypeOK, Fresh0, OnImports, Once
<1>8. Partition'
  BY <1>1, <1>2, <1>5, <1>6 DEF Partition, Held, Done, Listed
<1>9. Edges'
  BY <1>1, <1>2 DEF Edges, Edge
<1> QED
  BY <1>7, <1>8, <1>9

\* A failed allocation abandons the path; what is left is thrown away.
LEMMA FailStep ==
  ASSUME IInv, Fail
  PROVE  IInv'
<1> USE DEF IInv
<1>1. /\ stack' = <<>> /\ status' = "unwound"
      /\ tree' = tree /\ modules' = modules /\ imports' = imports /\ resolved' = resolved
  BY DEF Fail
<1>2. TypeOK' /\ Fresh0' /\ OnImports' /\ Once'
  BY <1>1 DEF TypeOK, Fresh0, OnImports, Once
<1> QED
  BY <1>1, <1>2 DEF Partition, Edges

LEMMA FinishStep ==
  ASSUME IInv, Finish
  PROVE  IInv'
<1> USE DEF IInv
<1>1. /\ status \in {"running", "unwound"} /\ stack = <<>> /\ stack' = stack /\ tree' = tree
      /\ status' = Outcome
  BY DEF Finish
<1>2. Outcome \in {"NAME_OK", "NAME_DIAG_ERROR", "NAME_OOM"}
  BY DEF Outcome
<1>3. CASE Outcome = "NAME_OOM"
  <2>1. modules' = <<>> /\ imports' = [n \in Name |-> <<>>] /\ resolved' = <<>>
    BY <1>3 DEF Finish
  <2> QED
    BY <1>1, <1>3, <2>1 DEF TypeOK, Fresh0, Partition, Once, OnImports, Edges, Edge
<1>4. CASE Outcome # "NAME_OOM"
  <2>1. modules' = modules /\ imports' = imports /\ resolved' = resolved
    BY <1>4 DEF Finish
  <2>2. status = "running"
    BY <1>1, <1>4 DEF Outcome
  <2>3. TypeOK' /\ Fresh0' /\ Partition' /\ Once' /\ OnImports'
    BY <1>1, <1>2, <2>1 DEF TypeOK, Fresh0, Partition, Once, OnImports
  <2>4. Edges'
    BY <1>1, <2>1, <2>2 DEF Edges, Edge, Listed, Led, Behind
  <2> QED
    BY <2>3, <2>4
<1> QED
  BY <1>3, <1>4

-----------------------------------------------------------------------------
LEMMA InitInv == tree \in Trees /\ NameInit => IInv
<1> SUFFICES ASSUME tree \in Trees, NameInit PROVE IInv
  OBVIOUS
<1>1. /\ modules = <<>> /\ imports = [n \in Name |-> <<>>] /\ stack = <<>>
      /\ resolved = <<>> /\ status = "start"
  BY DEF NameInit
<1> QED
  BY <1>1 DEF Trees, IInv, TypeOK, Fresh0, Partition, Once, OnImports, Edges, Edge

LEMMA StepInv == ASSUME EntryOrdinary, IInv, [Next]_vars PROVE IInv'
<1>1. CASE name_resolve
  BY <1>1, StartStep
<1>2. CASE ImportBareRt
  BY <1>2, PassedStep DEF ImportBareRt
<1>3. CASE ImportReserved
  BY <1>3, PassedStep DEF ImportReserved
<1>4. CASE ImportRuntime
  BY <1>4, RuntimeStep
<1>5. CASE ImportCycle
  BY <1>5, PassedStep DEF ImportCycle
<1>6. CASE ImportKnown
  BY <1>6, KnownStep
<1>7. CASE ImportAbsent
  BY <1>7, PassedStep DEF ImportAbsent, Fresh
<1>8. CASE ImportBroken
  BY <1>8, PassedStep DEF ImportBroken, Fresh
<1>9. CASE ImportMisdeclared
  BY <1>9, PassedStep DEF ImportMisdeclared, Fresh
<1>10. CASE ImportModule
  BY <1>10, ModuleStep
<1>11. CASE ResolveBodies
  BY <1>11, BodiesStep
<1>12. CASE Fail
  BY <1>12, FailStep
<1>13. CASE Finish
  BY <1>13, FinishStep
<1>14. CASE UNCHANGED vars
  BY <1>14 DEF IInv, TypeOK, Fresh0, Partition, Once, OnImports, Edges, Held, Done,
               Listed, Edge, Led, Behind, vars
<1> QED
  BY <1>1, <1>2, <1>3, <1>4, <1>5, <1>6, <1>7, <1>8, <1>9, <1>10, <1>11, <1>12,
     <1>13, <1>14 DEF Next

\* The inductive invariant of name_resolve holds for every project.
THEOREM Invariance == ASSUME EntryOrdinary PROVE Spec => []IInv
<1>1. tree \in Trees /\ NameInit => IInv
  BY InitInv
<1>2. IInv /\ [Next]_vars => IInv'
  BY StepInv
<1> QED
  BY <1>1, <1>2, PTL DEF Spec

\* The module table, the edges and the path of name.c fit together at every
\* step, whatever the project looks like and whichever allocations fail.
THEOREM GraphSoundHolds == ASSUME EntryOrdinary PROVE Spec => []GraphSound
<1> QED
  BY Implies, Invariance, PTL

-----------------------------------------------------------------------------
(* What is told                                                            *)

Codes   == States \cup {"AIC-N0204", "AIC-N0205", "AIC-N0206", "AIC-N0207",
                        "AIC-N0208", "AIC-N0209"}
Records == [code : Codes, mod : User, at : Nat, also : Seq(User)]

Shape ==
  /\ records \in Seq(Records) /\ failed \in BOOLEAN /\ oom \in BOOLEAN
  /\ status \in {"start", "running", "unwound", "NAME_OK", "NAME_DIAG_ERROR", "NAME_OOM"}
  /\ status = "start" => records = <<>> /\ ~ failed

\* Every frame but the first was entered at an import of the one below it.
Entered == \A k \in 1 .. Len(stack) - 1 :
             stack[k + 1].via \in 1 .. Len(tree[stack[k].mod].imports)

\* Only modules that can be reached and that load are walked.
Walked == \A n \in Name : Held(n) \/ Done(n) => n \in Reached /\ Loads(n)

\* A record of code c about the position at of the module m.
Recorded(c, m, at) == \E r \in ToSet(records) : r.code = c /\ r.mod = m /\ r.at = at
Circular == \E r \in ToSet(records) : r.code = "AIC-N0206"

\* A record of a cycle names a cycle of modules that can be reached.
Around(r)  == <<r.mod>> \o r.also \o <<r.mod>>
Closed(r)  == /\ tree[r.mod].imports[r.at] = Around(r)[2]
              /\ \A k \in 1 .. Len(Around(r)) - 1 :
                   Contains(tree[Around(r)[k]].imports, Around(r)[k + 1])
Within(r)  == \A m \in ToSet(Around(r)) : m \in Reach({tree[r.mod].imports[r.at]})
Ring(r)    == Closed(r) \/ (failed /\ Within(r))

Meant(r) ==
  /\ r.code = "AIC-N0206" => Ring(r) /\ Cyclic
  /\ r.code # "AIC-N0206" /\ ~ failed => <<r.code, r.mod, r.at>> \in Faults
Truthful == \A r \in ToSet(records) : Meant(r)

\* The walk is past the import at position j of the module m.
Past(m, j) == Done(m) \/ \E k \in 1 .. Len(stack) : stack[k].mod = m /\ j < stack[k].next

Blamed(n, m, j) ==
  /\ ImportFault(n) # "none" => Recorded(ImportFault(n), m, j)
  /\ n \in User /\ FileFault(n) # "none" => Recorded(FileFault(n), n, 0)
Joined(n, m) ==
  (IsRt(n) /\ InSurface(n)) \/ (~ IsRt(n) /\ Loads(n)) => Listed(n) /\ (Edge(m, n) \/ Circular)

Told == status = "running" /\ ~ failed =>
  /\ FileFault(Entry) # "none" => Recorded(FileFault(Entry), Entry, 0)
  /\ \A m \in User : \A j \in 1 .. Len(tree[m].imports) :
       Past(m, j) => Blamed(tree[m].imports[j], m, j) /\ Joined(tree[m].imports[j], m)

Written == \A m, n \in Name : Edge(m, n) => m \in User /\ Contains(tree[m].imports, n)

\* The path is in the order of the module table, which is depth first.
Foremost == status = "running" => modules # <<>> /\ modules[1] = Entry
InOrder  == status = "running" =>
  \A a, b \in 1 .. Len(stack) : \A i, j \in 1 .. Len(modules) :
    stack[a].mod = modules[i] /\ stack[b].mod = modules[j] /\ i < j => a < b
Ordered  == status = "running" /\ ~ failed /\ records = <<>> =>
  \A k \in 1 .. Len(modules) - 1 : \E j \in 1 .. k :
    Leading(modules, j, k) /\ \A l \in j + 1 .. k : Complete(modules, l, k)

\* Without a failed allocation and without a record nothing has gone wrong.
Seen == status \in {"running", "NAME_OK"} /\ failed => oom \/ records # <<>>

-----------------------------------------------------------------------------
(* Reachability                                                            *)

\* Only modules that have a file are led to.
LEMMA LeadsOrdinary ==
  ASSUME EntryOrdinary, NEW S
  PROVE  Leads(S) \subseteq User
BY DEF EntryOrdinary, Leads, Loads, User

\* Reach(S) is the least set with S that the imports do not leave.
LEMMA ReachLeast ==
  ASSUME EntryOrdinary, NEW S \in SUBSET User
  PROVE  /\ Reach(S) \in SUBSET User /\ S \subseteq Reach(S)
         /\ Leads(Reach(S)) \subseteq Reach(S)
         /\ \A T \in SUBSET User : S \subseteq T /\ Leads(T) \subseteq T => Reach(S) \subseteq T
<1>1. Reach(S) \in SUBSET User /\ S \subseteq Reach(S)
  BY DEF Reach
<1>2. \A T \in SUBSET User : S \subseteq T /\ Leads(T) \subseteq T => Reach(S) \subseteq T
  BY DEF Reach
<1>3. ASSUME NEW n \in Leads(Reach(S)), NEW T \in SUBSET User,
             S \subseteq T, Leads(T) \subseteq T
      PROVE  n \in T
  <2>1. Reach(S) \subseteq T
    BY <1>2, <1>3
  <2>2. n \in Leads(T)
    BY <2>1 DEF Leads
  <2> QED
    BY <1>3, <2>2
<1>4. Leads(Reach(S)) \subseteq Reach(S)
  <2>1. \A n \in Leads(Reach(S)) : n \in User
    BY LeadsOrdinary
  <2> QED
    BY <1>3, <2>1 DEF Reach
<1> QED
  BY <1>1, <1>2, <1>4

\* The files stay as they are, and so does all that is read from them.
LEMMA FilesStay ==
  ASSUME tree' = tree
  PROVE  /\ Reached' = Reached /\ Cyclic' = Cyclic /\ Faults' = Faults
         /\ \A n : /\ Loads(n)' = Loads(n) /\ FileFault(n)' = FileFault(n)
                   /\ ImportFault(n)' = ImportFault(n)
         /\ \A S : Reach(S)' = Reach(S)
<1>1. \A n : /\ Loads(n)' = Loads(n) /\ FileFault(n)' = FileFault(n)
             /\ ImportFault(n)' = ImportFault(n)
  BY DEF Loads, FileFault, ImportFault
<1>2. \A S : Leads(S)' = Leads(S)
  BY <1>1 DEF Leads
<1>3. \A S : Reach(S)' = Reach(S)
  BY <1>2 DEF Reach
<1>4. Reached' = Reached /\ Cyclic' = Cyclic
  BY <1>2, <1>3 DEF Reached, Cyclic
<1>5. Faults' = Faults
  <2>1. Statements' = Statements /\ Imported' = Imported
    BY <1>4 DEF Statements, Imported
  <2> QED
    BY <1>1, <2>1 DEF Faults
<1> QED
  BY <1>1, <1>3, <1>4, <1>5

\* An import of a module that can be reached leads to one if that loads.
LEMMA ReachedOn ==
  ASSUME EntryOrdinary, TypeOK, NEW m \in Reached, NEW j \in 1 .. Len(tree[m].imports),
         Loads(tree[m].imports[j])
  PROVE  tree[m].imports[j] \in Reached
<1>1. m \in User /\ Leads(Reached) \subseteq Reached
  BY ReachLeast DEF Reached, EntryOrdinary
<1>2. tree[m].imports \in Seq(Name)
  BY <1>1 DEF TypeOK, File
<1>3. tree[m].imports[j] \in Leads(Reached)
  BY <1>2 DEF Leads, Contains
<1> QED
  BY <1>1, <1>3

\* The path from one of its modules to another follows imports.
LEMMA PathReaches ==
  ASSUME EntryOrdinary, TypeOK, OnImports, Entered, Walked,
         NEW S \in SUBSET User, NEW T \in SUBSET User, S \subseteq T, Leads(T) \subseteq T,
         NEW a \in 1 .. Len(stack), stack[a].mod \in T, NEW b \in a .. Len(stack)
  PROVE  stack[b].mod \in T
<1> DEFINE Off == {k \in Nat : k \in a .. Len(stack) /\ stack[k].mod \notin T}
<1>1. Len(stack) \in Nat /\ a \in Nat /\ b \in Nat
  BY DEF TypeOK
<1>2. CASE Off = {}
  BY <1>1, <1>2
<1>3. CASE Off # {}
  <2>1. PICK k \in Off : \A m \in Off : ~ (<<m, k>> \in OpToRel(<, Nat))
    <3>1. Off \in SUBSET Nat
      OBVIOUS
    <3> HIDE DEF Off
    <3> QED
      BY <1>3, <3>1, WFMin, NatLessThanWellFounded
  <2>2. \A m \in Off : ~ (m < k)
    BY <2>1 DEF OpToRel
  <2>3. k \in Nat /\ a < k /\ k <= Len(stack) /\ stack[k].mod \notin T
    BY <1>1
  <2> DEFINE p == k - 1
  <2>4. /\ p \in 1 .. Len(stack) - 1 /\ p + 1 = k /\ p \in 1 .. Len(stack)
        /\ p \in Nat /\ a <= p /\ p < k
    BY <1>1, <2>3
  <2>5. stack[p].mod \in T
    BY <2>2, <2>4
  <2>6. /\ tree[stack[p].mod].imports[stack[k].via] = stack[k].mod
        /\ stack[k].via \in 1 .. Len(tree[stack[p].mod].imports)
    BY <2>4 DEF OnImports, Entered
  <2>7. stack[k] \in Frames
    BY <1>1, <2>3 DEF TypeOK
  <2>8. stack[k].mod \in Name /\ Loads(stack[k].mod)
    BY <1>1, <2>3, <2>7 DEF Walked, Held, Frames, User
  <2>9. stack[k].mod \in Leads(T)
    BY <2>5, <2>6, <2>8 DEF Leads, Contains
  <2> QED
    BY <2>3, <2>9
<1> QED
  BY <1>2, <1>3

-----------------------------------------------------------------------------
(* Cycles                                                                  *)

\* The names of a record of a cycle, in a row.
LEMMA Rows ==
  ASSUME NEW r \in Records
  PROVE  /\ Around(r) \in Seq(User) /\ Len(Around(r)) = Len(r.also) + 2
         /\ Around(r)[1] = r.mod /\ Around(r)[Len(r.also) + 2] = r.mod
         /\ \A k \in 1 .. Len(r.also) : Around(r)[k + 1] = r.also[k]
         /\ Len(r.also) \in Nat
<1> DEFINE one == <<r.mod>> two == one \o r.also
<1>1. /\ one \in Seq(User) /\ Len(one) = 1 /\ one[1] = r.mod
      /\ r.also \in Seq(User) /\ Len(r.also) \in Nat
  BY DEF Records
<1> HIDE DEF one
<1>2. /\ two \in Seq(User) /\ Len(two) = 1 + Len(r.also)
      /\ \A i \in 1 .. 1 + Len(r.also) : two[i] = IF i <= 1 THEN one[i] ELSE r.also[i - 1]
  <2>1. /\ two \in Seq(User) /\ Len(two) = Len(one) + Len(r.also)
        /\ \A i \in 1 .. Len(one) + Len(r.also) :
             two[i] = IF i <= Len(one) THEN one[i] ELSE r.also[i - Len(one)]
    BY <1>1, ConcatProperties, Zenon
  <2> HIDE DEF two
  <2> QED
    BY <1>1, <2>1
<1> HIDE DEF two
<1>3. /\ two \o one \in Seq(User) /\ Len(two \o one) = Len(two) + 1
      /\ \A i \in 1 .. Len(two) + 1 :
           (two \o one)[i] = IF i <= Len(two) THEN two[i] ELSE one[i - Len(two)]
  <2>1. /\ two \o one \in Seq(User) /\ Len(two \o one) = Len(two) + Len(one)
        /\ \A i \in 1 .. Len(two) + Len(one) :
             (two \o one)[i] = IF i <= Len(two) THEN two[i] ELSE one[i - Len(two)]
    BY <1>1, <1>2, ConcatProperties
  <2> QED
    BY <1>1, <2>1
<1>4. Around(r) = two \o one
  BY DEF Around, one, two
<1> DEFINE n == Len(r.also)
<1> HIDE DEF n
<1>5. n \in Nat /\ Len(two) = n + 1 /\ Len(r.also) = n
  BY <1>1, <1>2 DEF n
<1>6. Around(r)[1] = r.mod
  BY <1>1, <1>2, <1>3, <1>4, <1>5
<1>7. Around(r)[n + 2] = r.mod
  BY <1>1, <1>3, <1>4, <1>5
<1>8. \A k \in 1 .. n : Around(r)[k + 1] = r.also[k]
  BY <1>2, <1>3, <1>4, <1>5
<1> QED
  BY <1>1, <1>3, <1>4, <1>5, <1>6, <1>7, <1>8

\* The record of the cycle that an import of a module on the path closes.
LEMMA CycleRead ==
  ASSUME IInv, Entered, AtImport, NEW found \in 1 .. Len(stack), stack[found].mod = Target,
         NEW r, r = Cycle(found)
  PROVE  /\ r \in Records /\ r.code = "AIC-N0206" /\ r.mod = Target
         /\ Len(r.also) = Len(stack) - found
         /\ \A k \in 1 .. Len(stack) - found : r.also[k] = stack[found + k].mod
         /\ r.at \in 1 .. Len(tree[Target].imports)
         /\ tree[Target].imports[r.at] = IF found < Len(stack) THEN stack[found + 1].mod ELSE Target
<1> DEFINE l == Len(stack)
           also == SubSeq(Path, found + 1, l)
<1>1. /\ l \in Nat /\ found \in Nat /\ found <= l /\ found >= 1
      /\ DOMAIN stack = 1 .. l /\ stack \in Seq(Frames)
  BY DEF IInv, TypeOK
<1>2. \A k \in 1 .. l : stack[k] \in Frames
  BY <1>1
<1>3. Path = [k \in 1 .. l |-> stack[k].mod]
  BY <1>1 DEF Path
<1>4. \A k \in found + 1 .. l : Path[k] \in User /\ Path[k] = stack[k].mod
  BY <1>1, <1>2, <1>3 DEF Frames
<1>5. /\ also \in Seq(User) /\ Len(also) = l - found
      /\ \A k \in 1 .. l - found : also[k] = Path[found + k]
  <2>1. found + 1 \in Int /\ l \in Int
    BY <1>1
  <2>2. /\ also \in Seq(User)
        /\ Len(also) = IF found + 1 <= l THEN l - (found + 1) + 1 ELSE 0
        /\ \A i \in 1 .. l - (found + 1) + 1 : also[i] = Path[found + 1 + i - 1]
    <3> HIDE DEF l
    <3> QED
      BY SMTT(40), <1>4, <2>1, SubSeqProperties
  <2> HIDE DEF also, l
  <2> QED
    BY <1>1, <2>2
<1>6. \A k \in 1 .. l - found : also[k] = stack[found + k].mod
  <2> SUFFICES ASSUME NEW k \in 1 .. l - found PROVE also[k] = stack[found + k].mod
    OBVIOUS
  <2>1. found + k \in found + 1 .. l
    BY <1>1
  <2> HIDE DEF also
  <2> QED
    BY <1>4, <1>5, <2>1
<1>7. /\ r.code = "AIC-N0206" /\ r.mod = Target /\ r.also = also
      /\ r.at = IF found < l THEN stack[found + 1].via ELSE Top.next
      /\ r = [code |-> r.code, mod |-> r.mod, at |-> r.at, also |-> r.also]
  BY DEF Cycle
<1>8. /\ r.at \in 1 .. Len(tree[Target].imports)
      /\ tree[Target].imports[r.at] = IF found < l THEN stack[found + 1].mod ELSE Target
  <2>1. CASE found < l
    <3>1. found \in 1 .. l - 1
      BY <1>1, <2>1
    <3>2. /\ stack[found + 1].via \in 1 .. Len(tree[stack[found].mod].imports)
          /\ tree[stack[found].mod].imports[stack[found + 1].via] = stack[found + 1].mod
      BY <3>1 DEF Entered, IInv, OnImports
    <3> QED
      BY <1>7, <2>1, <3>2
  <2>2. CASE found = l
    <3>1. Top = stack[l] /\ Top.mod = Target
      BY <1>1, <2>2 DEF Top
    <3>2. Top.next \in Nat \ {0} /\ Top.next <= Len(tree[Top.mod].imports)
      BY <1>1, <1>2, <3>1 DEF Frames, AtImport
    <3>3. tree[Top.mod].imports[Top.next] = Target
      BY DEF Target
    <3>4. tree[Top.mod].imports \in Seq(Name)
      BY AtHand DEF IInv, TypeOK, File
    <3> QED
      BY <1>7, <2>2, <3>1, <3>2, <3>3, <3>4
  <2> HIDE DEF l
  <2>3. found < l \/ found = l
    BY <1>1
  <2> QED
    BY <2>1, <2>2, <2>3
<1>9. r \in Records
  <2>1. Target \in User
    BY <1>2 DEF Frames
  <2>2. r.at \in Nat /\ r.code \in Codes
    BY <1>7, <1>8 DEF Codes
  <2> QED
    BY <1>5, <1>7, <2>1, <2>2 DEF Records
<1> QED
  BY <1>5, <1>6, <1>7, <1>8, <1>9

\* It goes all the way around ...
LEMMA CycleCloses ==
  ASSUME IInv, Entered, AtImport, NEW found \in 1 .. Len(stack), stack[found].mod = Target
  PROVE  Closed(Cycle(found))
<1> DEFINE r == Cycle(found) l == Len(stack) n == Len(stack) - found
<1>1. /\ l \in Nat /\ n \in Nat /\ found \in Nat /\ n = l - found /\ found >= 1
      /\ r \in Records /\ r.mod = Target /\ Len(r.also) = n
      /\ \A k \in 1 .. n : r.also[k] = stack[found + k].mod
      /\ tree[Target].imports[r.at] = IF found < l THEN stack[found + 1].mod ELSE Target
  <2>1. l \in Nat /\ n \in Nat /\ found \in Nat /\ n = l - found /\ found >= 1
    BY DEF IInv, TypeOK
  <2>2. /\ r \in Records /\ r.mod = Target /\ Len(r.also) = n
        /\ \A k \in 1 .. n : r.also[k] = stack[found + k].mod
        /\ tree[Target].imports[r.at] = IF found < l THEN stack[found + 1].mod ELSE Target
    BY CycleRead
  <2> QED
    BY <2>1, <2>2
<1>2. /\ Len(Around(r)) = n + 2 /\ Around(r)[1] = Target /\ Around(r)[n + 2] = Target
      /\ \A k \in 1 .. n : Around(r)[k + 1] = r.also[k]
  <2> HIDE DEF r, n
  <2> QED
    BY <1>1, Rows
<1> HIDE DEF r, l, n
<1>3. \A k \in 1 .. n : Around(r)[k + 1] = stack[found + k].mod
  BY <1>1, <1>2
<1>4. ASSUME NEW k \in 1 .. n + 1
      PROVE  Around(r)[k] = stack[found + k - 1].mod
  <2>1. CASE k = 1
    BY <1>1, <1>2, <2>1
  <2>2. CASE k # 1
    <3>1. k - 1 \in 1 .. n /\ k - 1 + 1 = k /\ found + (k - 1) = found + k - 1
      BY <1>1, <2>2
    <3> QED
      BY <1>3, <3>1
  <2> QED
    BY <2>1, <2>2
<1>5. tree[r.mod].imports[r.at] = Around(r)[2]
  <2>1. CASE n = 0
    BY <1>1, <1>2, <2>1
  <2>2. CASE n # 0
    <3>1. 1 \in 1 .. n /\ found < l
      BY <1>1, <2>2
    <3>2. Around(r)[1 + 1] = stack[found + 1].mod
      BY <1>3, <3>1
    <3> QED
      BY <1>1, <3>1, <3>2
  <2> QED
    BY <2>1, <2>2
<1>6. ASSUME NEW k \in 1 .. n + 1
      PROVE  Contains(tree[Around(r)[k]].imports, Around(r)[k + 1])
  <2>1. CASE k = n + 1
    <3>1. Around(r)[k] = Top.mod /\ Around(r)[k + 1] = Target
      BY <1>1, <1>2, <1>4, <2>1 DEF Top, l
    <3>2. Top.next \in 1 .. Len(tree[Top.mod].imports) /\ tree[Top.mod].imports[Top.next] = Target
      BY AtHand DEF IInv, AtImport, Frames
    <3> QED
      BY <3>1, <3>2 DEF Contains
  <2>2. CASE k # n + 1
    <3> DEFINE p == found + k - 1
    <3>1. k \in 1 .. n /\ p \in 1 .. l - 1 /\ p + 1 = found + k
      BY <1>1, <2>2
    <3>2. /\ stack[p + 1].via \in 1 .. Len(tree[stack[p].mod].imports)
          /\ tree[stack[p].mod].imports[stack[p + 1].via] = stack[p + 1].mod
      BY <3>1 DEF Entered, IInv, OnImports, l
    <3>3. Around(r)[k] = stack[p].mod /\ Around(r)[k + 1] = stack[p + 1].mod
      BY <1>3, <1>4, <3>1
    <3> QED
      BY <3>2, <3>3 DEF Contains
  <2> QED
    BY <2>1, <2>2
<1>7. \A k \in 1 .. Len(Around(r)) - 1 : k \in 1 .. n + 1
  BY <1>1, <1>2
<1>8. Closed(r)
  BY <1>5, <1>6, <1>7 DEF Closed
<1> QED
  BY <1>8 DEF r

\* ... and from the import it points at all of its modules can be reached.
LEMMA CycleReaches ==
  ASSUME EntryOrdinary, IInv, Entered, Walked, AtImport,
         NEW found \in 1 .. Len(stack), stack[found].mod = Target,
         NEW first, first = tree[Target].imports[Cycle(found).at]
  PROVE  /\ \A b \in found .. Len(stack) : stack[b].mod \in Reach({first})
         /\ first \in User /\ first \in Leads({Target}) /\ Cyclic
<1> DEFINE r == Cycle(found) l == Len(stack)
<1>1. /\ l \in Nat /\ found \in Nat
      /\ r.at \in 1 .. Len(tree[Target].imports)
      /\ first = IF found < l THEN stack[found + 1].mod ELSE Target
  <2>1. l \in Nat /\ found \in Nat
    BY DEF IInv, TypeOK
  <2>2. /\ r.at \in 1 .. Len(tree[Target].imports)
        /\ first = IF found < l THEN stack[found + 1].mod ELSE Target
    BY CycleRead
  <2> QED
    BY <2>1, <2>2
<1>2. \A b \in 1 .. l : /\ stack[b].mod \in User /\ stack[b].mod \in Name
                        /\ stack[b].mod \in Reached /\ Loads(stack[b].mod)
  <2> SUFFICES ASSUME NEW b \in 1 .. l
               PROVE  /\ stack[b].mod \in User /\ stack[b].mod \in Name
                      /\ stack[b].mod \in Reached /\ Loads(stack[b].mod)
    OBVIOUS
  <2>1. stack[b] \in Frames
    BY DEF IInv, TypeOK
  <2>2. stack[b].mod \in User /\ stack[b].mod \in Name
    BY <2>1 DEF Frames, User
  <2> QED
    BY <2>2 DEF Walked, Held
<1> HIDE DEF r, l
<1>3. first \in User /\ Loads(first) /\ first \in Name
  <2>1. CASE found < l
    BY <1>1, <1>2, <2>1
  <2>2. CASE ~ (found < l)
    BY <1>1, <1>2, <2>2 DEF l
  <2> QED
    BY <2>1, <2>2
<1>4. first \in Leads({Target})
  BY <1>1, <1>3 DEF Leads, Contains, r
<1>5. ASSUME NEW T \in SUBSET User, first \in T, Leads(T) \subseteq T
      PROVE  \A b \in found .. l : stack[b].mod \in T
  <2>1. CASE found < l
    <3>1. found + 1 \in 1 .. l /\ stack[found + 1].mod \in T
      BY <1>1, <1>5, <2>1
    <3>2. \A b \in found + 1 .. l : stack[b].mod \in T
      BY <1>3, <1>5, <3>1, PathReaches DEF IInv, l
    <3>3. stack[l].mod \in T
      BY <1>1, <2>1, <3>2
    <3>4. /\ Top.next \in 1 .. Len(tree[Top.mod].imports)
          /\ tree[Top.mod].imports[Top.next] = Target /\ Top = stack[l]
      BY AtHand DEF IInv, AtImport, Frames, Top, l
    <3>5. Target \in Leads(T)
      BY <1>2, <3>3, <3>4 DEF Leads, Contains, l
    <3>6. stack[found].mod \in T
      BY <1>5, <3>5
    <3>7. \A b \in found .. l : b = found \/ b \in found + 1 .. l
      BY <1>1
    <3> QED
      BY <3>2, <3>6, <3>7
  <2>2. CASE ~ (found < l)
    <3>1. \A b \in found .. l : b = found
      BY <1>1, <2>2
    <3> QED
      BY <1>1, <1>5, <2>2, <3>1
  <2> QED
    BY <2>1, <2>2
<1>6. \A b \in found .. l : stack[b].mod \in Reach({first})
  <2> SUFFICES ASSUME NEW b \in found .. l PROVE stack[b].mod \in Reach({first})
    OBVIOUS
  <2>1. b \in 1 .. l
    BY <1>1
  <2>2. \A T \in SUBSET User : {first} \subseteq T /\ Leads(T) \subseteq T => stack[b].mod \in T
    BY <1>5
  <2>3. stack[b].mod \in User
    BY <1>2, <2>1
  <2> QED
    BY <2>2, <2>3 DEF Reach
<1>7. Cyclic
  <2>1. found \in 1 .. l /\ found \in found .. l
    BY <1>1 DEF l
  <2>2. Target \in Reached /\ Target \in Reach({first}) /\ Target \in User
    BY <1>2, <1>6, <2>1
  <2>3. Leads({Target}) \in SUBSET User
    BY LeadsOrdinary
  <2>4. Reach({first}) \subseteq Reach(Leads({Target}))
    <3>1. /\ Reach(Leads({Target})) \in SUBSET User
          /\ Leads({Target}) \subseteq Reach(Leads({Target}))
          /\ Leads(Reach(Leads({Target}))) \subseteq Reach(Leads({Target}))
      BY <2>3, ReachLeast
    <3>2. \A T \in SUBSET User : {first} \subseteq T /\ Leads(T) \subseteq T => Reach({first}) \subseteq T
      BY <1>3, ReachLeast
    <3> QED
      BY ZenonT(60), <1>4, <3>1, <3>2
  <2> QED
    BY <2>2, <2>4 DEF Cyclic
<1> QED
  BY <1>3, <1>4, <1>6, <1>7 DEF l

\* A record of the cycle that leaves some of its members out names only members.
LEMMA CycleNames ==
  ASSUME EntryOrdinary, IInv, Entered, Walked, AtImport,
         NEW found \in 1 .. Len(stack), stack[found].mod = Target,
         NEW r \in Records, r.mod = Target, r.at = Cycle(found).at,
         \A i \in 1 .. Len(r.also) : \E k \in 1 .. Len(Cycle(found).also) :
           r.also[i] = Cycle(found).also[k]
  PROVE  Within(r)
<1> DEFINE first == tree[Target].imports[Cycle(found).at] l == Len(stack)
<1>1. \A b \in found .. l : stack[b].mod \in Reach({first})
  BY CycleReaches
<1>2. /\ l \in Nat /\ found \in Nat
      /\ Len(Cycle(found).also) = l - found
      /\ \A k \in 1 .. l - found : Cycle(found).also[k] = stack[found + k].mod
  <2>1. l \in Nat /\ found \in Nat
    BY DEF IInv, TypeOK
  <2>2. /\ Len(Cycle(found).also) = l - found
        /\ \A k \in 1 .. l - found : Cycle(found).also[k] = stack[found + k].mod
    BY CycleRead
  <2> QED
    BY <2>1, <2>2
<1> HIDE DEF first, l
<1>3. \A k \in 1 .. Len(Cycle(found).also) : Cycle(found).also[k] \in Reach({first})
  <2> SUFFICES ASSUME NEW k \in 1 .. l - found PROVE Cycle(found).also[k] \in Reach({first})
    BY <1>2
  <2>1. found + k \in found .. l
    BY <1>2
  <2> QED
    BY <1>1, <1>2, <2>1
<1>4. Target \in Reach({first})
  <2>1. found \in found .. l
    BY <1>2 DEF l
  <2> QED
    BY <1>1, <2>1
<1>5. ASSUME NEW m \in ToSet(Around(r)) PROVE m \in Reach({first})
  <2>1. PICK i \in 1 .. Len(r.also) + 2 : Around(r)[i] = m
    BY <1>5, Rows DEF ToSet
  <2>2. CASE i = 1 \/ i = Len(r.also) + 2
    BY <1>4, <2>1, <2>2, Rows
  <2>3. CASE ~ (i = 1 \/ i = Len(r.also) + 2)
    <3>1. Len(r.also) \in Nat
      BY Rows
    <3>2. i - 1 \in 1 .. Len(r.also) /\ i - 1 + 1 = i
      BY <2>3, <3>1
    <3>3. m = r.also[i - 1]
      BY <2>1, <3>2, Rows
    <3> QED
      BY <1>3, <3>2, <3>3
  <2> QED
    BY <2>2, <2>3
<1> QED
  BY <1>5 DEF Within, first

-----------------------------------------------------------------------------
(* What the actions do to the records                                      *)

\* At most one record is added, and one that cannot be had is a failure seen.
Adds(r) ==
  /\ records' \in Seq(Records) /\ oom' \in BOOLEAN /\ failed' \in BOOLEAN
  /\ (failed => failed') /\ (oom => oom')
  /\ ToSet(records') \subseteq ToSet(records) \cup {r}
  /\ ToSet(records) \subseteq ToSet(records')
  /\ ~ failed' => r \in ToSet(records')
  /\ failed' => failed \/ oom' \/ records' # <<>>
  /\ records # <<>> => records' # <<>>

\* What Append does to the members of a sequence.
LEMMA Appended ==
  ASSUME NEW S, NEW s \in Seq(S), NEW r \in S
  PROVE  /\ Append(s, r) \in Seq(S) /\ Append(s, r) # <<>>
         /\ ToSet(Append(s, r)) = ToSet(s) \cup {r}
<1>1. /\ Append(s, r) \in Seq(S) /\ Len(Append(s, r)) = Len(s) + 1 /\ Len(s) \in Nat
      /\ \A i \in 1 .. Len(s) : Append(s, r)[i] = s[i]
      /\ Append(s, r)[Len(s) + 1] = r
  OBVIOUS
<1>2. /\ DOMAIN s = 1 .. Len(s) /\ DOMAIN Append(s, r) = 1 .. Len(s) + 1
  BY <1>1
<1>3. ToSet(Append(s, r)) = ToSet(s) \cup {r}
  BY <1>1, <1>2 DEF ToSet
<1> QED
  BY <1>1, <1>3

\* rec_push appends the record or, out of memory, nothing.
LEMMA EmitsAdds ==
  ASSUME Shape, NEW r \in Records, Emits(r)
  PROVE  Adds(r)
<1>1. records \in Seq(Records) /\ oom \in BOOLEAN /\ failed \in BOOLEAN
  BY DEF Shape
<1>2. CASE records' = Append(records, r) /\ UNCHANGED <<oom, failed>>
  BY <1>1, <1>2, Appended DEF Adds
<1>3. CASE oom' = TRUE /\ failed' = TRUE /\ UNCHANGED records
  BY <1>1, <1>3 DEF Adds
<1> QED
  BY <1>2, <1>3 DEF Emits

\* What a record says stays so.
LEMMA MeantStays ==
  ASSUME tree' = tree, failed => failed', NEW r, Meant(r)
  PROVE  Meant(r)'
<1>1. Cyclic' = Cyclic /\ Faults' = Faults /\ \A S : Reach(S)' = Reach(S)
  BY FilesStay
<1>2. Closed(r)' = Closed(r) /\ Within(r)' = Within(r)
  BY <1>1 DEF Closed, Within, Around
<1> QED
  BY <1>1, <1>2 DEF Meant, Ring

\* A step that adds at most one record, and a true one, leaves true records.
LEMMA TrueAdded ==
  ASSUME Truthful, tree' = tree, NEW r, Adds(r), Meant(r)'
  PROVE  Truthful'
<1> SUFFICES ASSUME NEW e \in ToSet(records') PROVE Meant(e)'
  BY DEF Truthful
<1>1. CASE e = r
  BY <1>1
<1>2. CASE e # r
  <2>1. e \in ToSet(records) /\ Meant(e)
    BY <1>2 DEF Adds, Truthful
  <2> QED
    BY <2>1, MeantStays DEF Adds
<1> QED
  BY <1>1, <1>2

\* No step but the last takes a record back.
LEMMA RecordedStays ==
  ASSUME NEW r, Adds(r) \/ UNCHANGED records
  PROVE  /\ \A c, m, at : Recorded(c, m, at) => Recorded(c, m, at)'
         /\ Circular => Circular'
BY DEF Recorded, Circular, Adds

-----------------------------------------------------------------------------
(* What the actions do to the path                                         *)

\* Moving on to the next import.
LEMMA NextImport ==
  ASSUME IInv, AtImport, stack' = Advanced, tree' = tree, resolved' = resolved
  PROVE  /\ \A n : Held(n)' = Held(n) /\ Done(n)' = Done(n)
         /\ \A m : \A j \in Nat : Past(m, j)' => Past(m, j) \/ (m = Top.mod /\ j = Top.next)
         /\ Entered => Entered'
<1> DEFINE l == Len(stack)
<1>1. /\ Len(stack') = l /\ l \in Nat /\ l > 0
      /\ \A k \in 1 .. l : stack'[k].mod = stack[k].mod /\ stack'[k].via = stack[k].via
  BY AdvancedPath DEF IInv, TypeOK, AtImport
<1>2. \A k \in 1 .. l : stack[k] \in Frames
  BY DEF IInv, TypeOK
<1>3. stack' = [stack EXCEPT ![l].next = @ + 1] /\ DOMAIN stack = 1 .. l
  BY DEF Advanced, IInv, TypeOK
<1>4. stack'[l].next = Top.next + 1 /\ Top = stack[l] /\ Top.next \in Nat
  BY <1>1, <1>2, <1>3 DEF Frames, Top
<1>5. \A k \in 1 .. l : k # l => stack'[k] = stack[k]
  BY <1>3
<1> HIDE DEF l
<1>6. \A n : Held(n)' = Held(n) /\ Done(n)' = Done(n)
  BY <1>1 DEF Held, Done, l
<1>7. ASSUME NEW m, NEW j \in Nat, Past(m, j)', ~ Past(m, j)
      PROVE  m = Top.mod /\ j = Top.next
  <2>1. ~ Done(m)'
    BY <1>6, <1>7 DEF Past
  <2>2. PICK k \in 1 .. l : stack'[k].mod = m /\ j < stack'[k].next
    BY <1>1, <1>7, <2>1 DEF Past
  <2>3. stack[k].mod = m /\ ~ (j < stack[k].next)
    BY <1>1, <1>7, <2>2 DEF Past, l
  <2>4. k = l
    BY <1>5, <2>2, <2>3
  <2> QED
    BY <1>4, <2>2, <2>3, <2>4
<1>8. Entered => Entered'
  BY <1>1 DEF Entered, l
<1> QED
  BY <1>6, <1>7, <1>8

\* Entering a module.
LEMMA EnterModule ==
  ASSUME IInv, ImportModule
  PROVE  /\ Len(stack') = Len(stack) + 1 /\ Len(stack) \in Nat
         /\ \A k \in 1 .. Len(stack) : stack'[k].mod = stack[k].mod
         /\ stack'[Len(stack) + 1].mod = Target
         /\ \A n : Done(n)' = Done(n)
         /\ \A n : Held(n)' <=> Held(n) \/ n = Target
         /\ \A m : \A j \in Nat \ {0} : Past(m, j)' => Past(m, j) \/ (m = Top.mod /\ j = Top.next)
         /\ Entered => Entered'
<1> DEFINE l == Len(stack) fr == Frame(Target, Top.next)
<1>1. /\ AtImport /\ ~ IsRt(Target) /\ stack # <<>>
      /\ stack' = Append(Advanced, fr) /\ tree' = tree /\ resolved' = resolved
  BY DEF ImportModule, Fresh, AtImport
<1>2. /\ Advanced \in Seq(Frames) /\ Len(Advanced) = l /\ l \in Nat /\ l > 0
      /\ \A k \in 1 .. l : Advanced[k].mod = stack[k].mod /\ Advanced[k].via = stack[k].via
  BY <1>1, AdvancedPath DEF IInv, TypeOK
<1>3. fr.mod = Target /\ fr.via = Top.next /\ fr.next = 1
  BY DEF Frame
<1>4. \A k \in 1 .. l : stack[k] \in Frames
  BY DEF IInv, TypeOK
<1>5. Advanced = [stack EXCEPT ![l].next = @ + 1] /\ DOMAIN stack = 1 .. l
  BY DEF Advanced, IInv, TypeOK
<1>6. Advanced[l].next = Top.next + 1 /\ Top = stack[l] /\ Top.next \in Nat \ {0}
  BY <1>2, <1>4, <1>5 DEF Frames, Top
<1>7. \A k \in 1 .. l : k # l => Advanced[k] = stack[k]
  BY <1>5
<1> HIDE DEF l, fr
<1>8. /\ Len(stack') = l + 1 /\ stack'[l + 1] = fr
      /\ \A k \in 1 .. l : stack'[k] = Advanced[k]
  BY <1>1, <1>2, <1>3
<1>9. \A n : Done(n)' = Done(n)
  BY <1>1 DEF Done
<1>10. \A n : Held(n)' <=> Held(n) \/ n = Target
  <2>1. ASSUME NEW n, Held(n)', n # Target
        PROVE  Held(n)
    <3>1. PICK k \in 1 .. l + 1 : stack'[k].mod = n
      BY <1>8, <2>1 DEF Held
    <3>2. k \in 1 .. l
      BY <1>2, <1>3, <1>8, <2>1, <3>1
    <3> QED
      BY <1>2, <1>8, <3>1, <3>2 DEF Held, l
  <2>2. ASSUME NEW n, Held(n)
        PROVE  Held(n)'
    <3>1. PICK k \in 1 .. l : stack[k].mod = n
      BY <2>2 DEF Held, l
    <3>2. k \in 1 .. l + 1 /\ stack'[k].mod = n
      BY <1>2, <1>8, <3>1
    <3> QED
      BY <1>8, <3>2 DEF Held
  <2>3. ASSUME NEW n, n = Target
        PROVE  Held(n)'
    <3>1. l + 1 \in 1 .. Len(stack') /\ stack'[l + 1].mod = n
      BY <1>2, <1>3, <1>8, <2>3
    <3> QED
      BY <3>1 DEF Held
  <2> QED
    BY <2>1, <2>2, <2>3
<1>11. ASSUME NEW m, NEW j \in Nat \ {0}, Past(m, j)', ~ Past(m, j)
       PROVE  m = Top.mod /\ j = Top.next
  <2>1. ~ Done(m)'
    BY <1>9, <1>11 DEF Past
  <2>2. PICK k \in 1 .. l + 1 : stack'[k].mod = m /\ j < stack'[k].next
    BY <1>8, <1>11, <2>1 DEF Past
  <2>3. k # l + 1
    BY <1>3, <1>8, <2>2
  <2>4. k \in 1 .. l /\ Advanced[k].mod = m /\ j < Advanced[k].next
    BY <1>2, <1>8, <2>2, <2>3
  <2>5. stack[k].mod = m /\ ~ (j < stack[k].next)
    BY <1>2, <1>11, <2>4 DEF Past, l
  <2>6. k = l
    BY <1>7, <2>4, <2>5
  <2> QED
    BY <1>6, <2>4, <2>5, <2>6
<1>12. ASSUME Entered PROVE Entered'
  <2> SUFFICES ASSUME NEW k \in 1 .. l
               PROVE  stack'[k + 1].via \in 1 .. Len(tree[stack'[k].mod].imports)
    BY <1>1, <1>2, <1>8 DEF Entered
  <2>1. CASE k = l
    <3>1. Top.next \in 1 .. Len(tree[Top.mod].imports)
      BY <1>1, <1>6, AtHand, SMTT(40) DEF AtImport, IInv, TypeOK, File
    <3> QED
      BY <1>2, <1>3, <1>6, <1>8, <2>1, <3>1
  <2>2. CASE k # l
    <3>1. k \in 1 .. l - 1 /\ k + 1 \in 1 .. l
      BY <1>2, <2>2
    <3> QED
      BY <1>2, <1>8, <1>12, <3>1 DEF Entered, l
  <2> QED
    BY <2>1, <2>2
<1>13. stack'[l + 1].mod = Target /\ \A k \in 1 .. l : stack'[k].mod = stack[k].mod
  BY <1>2, <1>3, <1>8
<1> QED
  BY <1>2, <1>8, <1>9, <1>10, <1>11, <1>12, <1>13 DEF l

\* Leaving a module whose imports are done.
LEMMA LeaveModule ==
  ASSUME IInv, ResolveBodies
  PROVE  /\ \A n : Done(n)' <=> Done(n) \/ n = Top.mod
         /\ \A n : Held(n)' => Held(n)
         /\ Held(Top.mod) /\ Top.mod \in User
         /\ \A m : \A j \in 1 .. Len(tree[m].imports) : Past(m, j)' => Past(m, j)
         /\ Len(stack') = Len(stack) - 1 /\ Len(stack) \in Nat
         /\ \A k \in 1 .. Len(stack) - 1 : stack'[k] = stack[k]
         /\ Entered => Entered'
<1> DEFINE l == Len(stack)
<1>1. /\ stack # <<>> /\ stack' = Front(stack) /\ resolved' = Append(resolved, Top.mod)
      /\ tree' = tree /\ Top.next > Len(tree[Top.mod].imports)
  BY DEF ResolveBodies
<1>2. l \in Nat /\ l > 0 /\ Top = stack[l] /\ Top \in Frames
  BY <1>1 DEF IInv, TypeOK, Top
<1>3. Top.mod \in User /\ Held(Top.mod)
  BY <1>2 DEF Frames, Held
<1>4. Len(stack') = l - 1 /\ \A k \in 1 .. l - 1 : stack'[k] = stack[k]
  <2>1. stack' = SubSeq(stack, 1, l - 1) /\ stack \in Seq(Frames)
    BY <1>1 DEF Front, IInv, TypeOK
  <2>2. \A k \in 1 .. l - 1 : stack[k] \in Frames
    BY <1>2, <2>1
  <2> HIDE DEF l
  <2> QED
    BY <1>2, <2>1, <2>2, SubSeqProperties
<1>5. /\ Len(resolved) \in Nat /\ Len(resolved') = Len(resolved) + 1
      /\ \A j \in 1 .. Len(resolved) : resolved'[j] = resolved[j]
      /\ resolved'[Len(resolved) + 1] = Top.mod
  BY <1>1, <1>3 DEF IInv, TypeOK
<1>6. \A n : Done(n)' <=> Done(n) \/ n = Top.mod
  BY <1>5 DEF Done
<1> HIDE DEF l
<1>7. \A k \in 1 .. l - 1 : k \in 1 .. l
  BY <1>2
<1>8. \A n : Held(n)' => Held(n)
  BY <1>4, <1>7 DEF Held, l
<1>9. ASSUME NEW m, NEW j \in 1 .. Len(tree[m].imports), Past(m, j)'
      PROVE  Past(m, j)
  <2>1. CASE Done(m)' /\ ~ Done(m)
    <3>1. m = Top.mod
      BY <1>6, <2>1
    <3>2. l \in 1 .. l /\ stack[l].mod = m /\ j < stack[l].next
      <4>1. Top.next \in Nat /\ tree[Top.mod].imports \in Seq(Name)
        BY <1>2, <1>3 DEF Frames, IInv, TypeOK, File
      <4> QED
        BY <1>1, <1>2, <3>1, <4>1
    <3> QED
      BY <3>2 DEF Past, l
  <2>2. CASE Done(m)
    BY <2>2 DEF Past
  <2>3. CASE ~ Done(m)'
    BY <1>4, <1>7, <1>9, <2>3 DEF Past, l
  <2> QED
    BY <2>1, <2>2, <2>3
<1>10. ASSUME Entered PROVE Entered'
  <2> SUFFICES ASSUME NEW k \in 1 .. l - 1 - 1
               PROVE  stack'[k + 1].via \in 1 .. Len(tree[stack'[k].mod].imports)
    BY <1>1, <1>4 DEF Entered
  <2>1. k \in 1 .. l - 1 /\ k + 1 \in 1 .. l - 1
    BY <1>2
  <2> QED
    BY <1>4, <1>10, <2>1 DEF Entered, l
<1> QED
  BY <1>2, <1>3, <1>4, <1>6, <1>8, <1>9, <1>10 DEF l

\* The steps that stay in the module and move on to its next import.
Onward == /\ AtImport /\ stack' = Advanced
          /\ UNCHANGED <<tree, resolved, status>>

\* What a step can be to the path: the start, an import passed, a module
\* entered, one resolved, or the end.
LEMMA Kinds ==
  ASSUME [Next]_vars
  PROVE  /\ tree' = tree
         /\ \/ name_resolve \/ Onward \/ ImportModule \/ ResolveBodies
            \/ Fail \/ Finish \/ UNCHANGED vars
<1>1. CASE \/ ImportBareRt \/ ImportReserved \/ ImportCycle
           \/ ImportAbsent \/ ImportBroken \/ ImportMisdeclared
  BY <1>1 DEF ImportBareRt, ImportReserved, ImportCycle, ImportAbsent, ImportBroken,
              ImportMisdeclared, Fresh, Passed, Onward
<1>2. CASE ImportRuntime \/ ImportKnown
  BY <1>2 DEF ImportRuntime, ImportKnown, Onward
<1>3. CASE \/ name_resolve \/ ImportModule \/ ResolveBodies \/ Fail \/ Finish \/ UNCHANGED vars
  BY <1>3 DEF name_resolve, ImportModule, ResolveBodies, Fail, Finish, vars
<1> QED
  BY <1>1, <1>2, <1>3 DEF Next

\* The entry module can be reached, and so can what the path imports.
LEMMA Arrived ==
  ASSUME EntryOrdinary, IInv, Walked
  PROVE  /\ Entry \in Reached /\ Loads(Entry) /\ Reached \in SUBSET User
         /\ AtImport => Top.mod \in Reached
         /\ AtImport /\ Loads(Target) => Target \in Reached
<1>1. Entry \in Reached /\ Reached \in SUBSET User
  BY ReachLeast DEF EntryOrdinary, Reached
<1>2. Loads(Entry)
  BY DEF Loads
<1>3. AtImport => Top.mod \in Reached
  BY AtHand DEF IInv, Walked
<1>4. ASSUME AtImport, Loads(Target) PROVE Target \in Reached
  <2>1. Top.next \in 1 .. Len(tree[Top.mod].imports) /\ tree[Top.mod].imports[Top.next] = Target
    BY <1>4, AtHand DEF IInv, AtImport, Frames, TypeOK, File
  <2> QED
    BY <1>3, <1>4, <2>1, ReachedOn DEF IInv
<1> QED
  BY <1>1, <1>2, <1>3, <1>4

\* resolve_module enters only modules that a listed import leads to.
LEMMA WalkedStep ==
  ASSUME EntryOrdinary, IInv, Walked, [Next]_vars
  PROVE  Walked'
<1>1. tree' = tree
  BY Kinds
<1>2. Reached' = Reached /\ \A n : Loads(n)' = Loads(n)
  BY <1>1, FilesStay
<1> SUFFICES ASSUME NEW n \in Name, Held(n)' \/ Done(n)' PROVE n \in Reached /\ Loads(n)
  BY <1>2 DEF Walked
<1>3. CASE name_resolve
  <2>1. Len(stack') = 1 /\ stack'[1].mod = Entry /\ resolved' = <<>>
    BY <1>3 DEF name_resolve, Frame, IInv, Fresh0
  <2>2. n = Entry
    BY <2>1 DEF Held, Done
  <2> QED
    BY <2>2, Arrived
<1>4. CASE Onward
  BY <1>4, NextImport DEF Onward, Walked
<1>5. CASE ImportModule
  <2>1. Held(n) \/ Done(n) \/ n = Target
    BY <1>5, EnterModule
  <2>2. Loads(Target) /\ AtImport
    BY <1>5 DEF ImportModule, Fresh, Found, Loads
  <2> QED
    BY <2>1, <2>2, Arrived DEF Walked
<1>6. CASE ResolveBodies
  BY <1>6, LeaveModule DEF Walked
<1>7. CASE Fail \/ Finish
  <2>1. stack' = <<>> /\ (resolved' = resolved \/ resolved' = <<>>)
    BY <1>7 DEF Fail, Finish
  <2>2. Done(n)
    BY <2>1 DEF Held, Done
  <2> QED
    BY <2>2 DEF Walked
<1>8. CASE UNCHANGED vars
  BY <1>8 DEF vars, Held, Done, Walked
<1> QED
  BY <1>3, <1>4, <1>5, <1>6, <1>7, <1>8, Kinds

\* load_and_resolve_import enters a module at the import at hand.
LEMMA EnteredStep ==
  ASSUME IInv, Entered, [Next]_vars
  PROVE  Entered'
<1>1. CASE name_resolve \/ Fail \/ Finish
  <2>1. stack' = <<>> \/ stack' = <<Frame(Entry, 0)>>
    BY <1>1 DEF name_resolve, Fail, Finish
  <2>2. Len(stack') \in 0 .. 1
    BY <2>1
  <2>3. \A n \in 0 .. 1 : 1 .. n - 1 = {}
    OBVIOUS
  <2> QED
    BY <2>2, <2>3 DEF Entered
<1>2. CASE Onward
  BY <1>2, NextImport DEF Onward
<1>3. CASE ImportModule
  BY <1>3, EnterModule
<1>4. CASE ResolveBodies
  BY <1>4, LeaveModule
<1>5. CASE UNCHANGED vars
  BY <1>5 DEF vars, Entered
<1> QED
  BY <1>1, <1>2, <1>3, <1>4, <1>5, Kinds

-----------------------------------------------------------------------------
(* Faults                                                                  *)

\* The faults, one by one.
LEMMA FaultsRead ==
         \A c, m, at : <<c, m, at>> \in Faults <=>
           /\ c # "none"
           /\ \/ /\ m \in Reached /\ at \in DOMAIN tree[m].imports
                 /\ c = ImportFault(tree[m].imports[at])
              \/ m \in Imported \cup {Entry} /\ at = 0 /\ c = FileFault(m)
<1> SUFFICES ASSUME NEW c, NEW m, NEW at
             PROVE  <<c, m, at>> \in Faults <=>
                      /\ c # "none"
                      /\ \/ /\ m \in Reached /\ at \in DOMAIN tree[m].imports
                            /\ c = ImportFault(tree[m].imports[at])
                         \/ m \in Imported \cup {Entry} /\ at = 0 /\ c = FileFault(m)
  OBVIOUS
<1>1. <<m, at>> \in Statements <=> m \in Reached /\ at \in DOMAIN tree[m].imports
  BY DEF Statements
<1>2. \A s \in Statements : s = <<s[1], s[2]>>
  BY DEF Statements
<1>3. <<c, m, at>> \in {<<ImportFault(tree[s[1]].imports[s[2]]), s[1], s[2]>> : s \in Statements}
        <=> <<m, at>> \in Statements /\ c = ImportFault(tree[m].imports[at])
  BY <1>2
<1>4. <<c, m, at>> \in {<<FileFault(n), n, 0>> : n \in Imported \cup {Entry}}
        <=> m \in Imported \cup {Entry} /\ at = 0 /\ c = FileFault(m)
  OBVIOUS
<1>5. <<c, m, at>> \in Faults <=>
        /\ c # "none"
        /\ \/ <<c, m, at>> \in {<<ImportFault(tree[s[1]].imports[s[2]]), s[1], s[2]>> : s \in Statements}
           \/ <<c, m, at>> \in {<<FileFault(n), n, 0>> : n \in Imported \cup {Entry}}
  BY DEF Faults
<1> QED
  BY <1>1, <1>3, <1>4, <1>5

\* What is wrong with the import at hand, or with the file it names, is a fault.
LEMMA AtFault ==
  ASSUME EntryOrdinary, IInv, Walked, AtImport
  PROVE  /\ ImportFault(Target) # "none" => <<ImportFault(Target), Top.mod, Top.next>> \in Faults
         /\ Target \in User /\ FileFault(Target) # "none" =>
              <<FileFault(Target), Target, 0>> \in Faults
         /\ FileFault(Entry) # "none" => <<FileFault(Entry), Entry, 0>> \in Faults
<1>1. Top.mod \in Reached
  BY Arrived
<1>2. /\ Top.next \in 1 .. Len(tree[Top.mod].imports) /\ tree[Top.mod].imports[Top.next] = Target
      /\ tree[Top.mod].imports \in Seq(Name)
  BY AtHand, SMTT(40) DEF IInv, AtImport, Frames, TypeOK, File
<1>3. Target \in User => Target \in Imported
  BY <1>1, <1>2 DEF Imported, Contains
<1> QED
  BY <1>1, <1>2, <1>3, FaultsRead

\* A record made at an import that is not about a cycle.
LEMMA Blaming ==
  ASSUME Shape, tree' = tree, NEW r \in Records, Adds(r), r.code # "AIC-N0206",
         failed' \/ <<r.code, r.mod, r.at>> \in Faults
  PROVE  Meant(r)'
<1>1. Faults' = Faults
  BY FilesStay
<1> QED
  BY <1>1 DEF Meant

\* A record at the import at hand is one of that import.
LEMMA HereRecord ==
  ASSUME IInv, AtImport, NEW c \in Codes
  PROVE  /\ Here(c) \in Records /\ Here(c).code = c
         /\ Here(c).mod = Top.mod /\ Here(c).at = Top.next
BY AtHand DEF IInv, Here, Record, Records

\* A record at a file is one of that file.
LEMMA FileRecord ==
  ASSUME NEW n \in User, NEW c \in Codes
  PROVE  /\ Record(c, n, 0) \in Records /\ Record(c, n, 0).code = c
         /\ Record(c, n, 0).mod = n /\ Record(c, n, 0).at = 0
BY DEF Record, Records

\* The record r tells what there is to tell about the import at hand.
Tells(r) ==
  /\ ImportFault(Target) # "none" =>
       r.code = ImportFault(Target) /\ r.mod = Top.mod /\ r.at = Top.next
  /\ Target \in User /\ FileFault(Target) # "none" =>
       \/ r.code = FileFault(Target) /\ r.mod = Target /\ r.at = 0
       \/ OnPath(Target)
  /\ (IsRt(Target) /\ InSurface(Target)) \/ (~ IsRt(Target) /\ Loads(Target)) =>
       r.code = "AIC-N0206" /\ OnPath(Target)

Telling == \E r \in Records : Adds(r) /\ Meant(r)' /\ (~ failed' => Tells(r))

\* AIC-N0208 and AIC-N0209 are told of the imports they are about.
LEMMA RuntimeTells ==
  ASSUME EntryOrdinary, IInv, Shape, Walked, ImportBareRt \/ ImportReserved
  PROVE  Telling
<1>0. Len(Target) = 1 => ~ InSurface(Target)
  BY DEF InSurface
<1>1. /\ AtImport /\ IsRt(Target) /\ tree' = tree
      /\ Emits(Here(ImportFault(Target))) /\ ImportFault(Target) \in Codes
      /\ ImportFault(Target) # "none" /\ ImportFault(Target) # "AIC-N0206" /\ ~ InSurface(Target)
  <2>1. CASE ImportBareRt
    BY <1>0, <2>1 DEF ImportBareRt, Passed, ImportFault, Codes
  <2>2. CASE ImportReserved
    <3>1. Len(Target) # 1
      <4> DEFINE l == Len(Target)
      <4>1. l > 1
        BY <2>2 DEF ImportReserved
      <4> HIDE DEF l
      <4>2. l # 1
        BY <4>1
      <4> QED
        BY <4>2 DEF l
    <3> QED
      BY <2>2, <3>1 DEF ImportReserved, Passed, ImportFault, Codes
  <2> QED
    BY <2>1, <2>2
<1>2. Target \notin User
  BY <1>1 DEF User
<1> DEFINE r == Here(ImportFault(Target))
<1>3. /\ r \in Records /\ r.code = ImportFault(Target)
      /\ r.mod = Top.mod /\ r.at = Top.next
  BY <1>1, HereRecord
<1>4. PICK e \in Records : e = r
  BY <1>3
<1> HIDE DEF r
<1>5. Adds(e)
  BY <1>1, <1>4, EmitsAdds DEF r
<1>6. <<e.code, e.mod, e.at>> \in Faults
  BY <1>1, <1>3, <1>4, AtFault
<1>7. Meant(e)'
  BY <1>1, <1>3, <1>4, <1>5, <1>6, Blaming
<1>8. Tells(e)
  BY <1>1, <1>2, <1>3, <1>4 DEF Tells
<1> QED
  BY <1>5, <1>7, <1>8 DEF Telling

\* The target of an import that is off the path is not the entry module.
LEMMA NotEntry ==
  ASSUME IInv, Fresh
  PROVE  /\ AtImport /\ ~ IsRt(Target) /\ ~ OnPath(Target) /\ Target \in User
         /\ Target # Entry /\ Found = tree[Target] /\ Found \in File
<1>1. AtImport /\ ~ IsRt(Target) /\ ~ OnPath(Target) /\ Target \in User
  BY AtHand DEF Fresh, User, IInv
<1>2. OnPath(Entry)
  BY <1>1, AtHand, PathHolds DEF IInv, OnImports, Held
<1>3. Found = tree[Target] /\ Found \in File
  BY <1>1 DEF Found, IInv, TypeOK
<1> QED
  BY <1>1, <1>2, <1>3

\* AIC-N0204 is told of an import without a file.
LEMMA AbsentTells ==
  ASSUME EntryOrdinary, IInv, Shape, Walked, ImportAbsent
  PROVE  Telling
<1>1. /\ Fresh /\ AtImport /\ tree' = tree /\ ~ IsRt(Target) /\ Target \in User /\ Target # Entry
      /\ Found = tree[Target]
  BY NotEntry DEF ImportAbsent, Passed
<1>2. PICK r \in Records : /\ r = Here("AIC-N0204") /\ r.code = "AIC-N0204"
                           /\ r.mod = Top.mod /\ r.at = Top.next
  BY <1>1, HereRecord DEF Codes
<1>3. ~ failed' => Found.state = "absent"
  BY DEF ImportAbsent
<1>4. Adds(r)
  <2>1. CASE Emits(Here("AIC-N0204"))
    BY <1>2, <2>1, EmitsAdds
  <2>2. CASE /\ failed' = TRUE /\ records' = Append(records, Here("AIC-N0204"))
             /\ UNCHANGED oom
    <3>1. records \in Seq(Records) /\ oom \in BOOLEAN
      BY DEF Shape
    <3>2. /\ records' \in Seq(Records) /\ records' # <<>>
          /\ ToSet(records') = ToSet(records) \cup {r}
      BY <1>2, <2>2, <3>1, Appended
    <3> QED
      BY <2>2, <3>1, <3>2 DEF Adds
  <2> QED
    BY <2>1, <2>2 DEF ImportAbsent
<1>5. Found.state = "absent" =>
        /\ ImportFault(Target) = "AIC-N0204" /\ FileFault(Target) = "none" /\ ~ Loads(Target)
  BY <1>1 DEF ImportFault, FileFault, Loads
<1>6. ~ failed' => <<r.code, r.mod, r.at>> \in Faults
  BY <1>1, <1>2, <1>3, <1>5, AtFault
<1>7. Meant(r)'
  BY <1>1, <1>2, <1>4, <1>6, Blaming
<1>8. ~ failed' => Tells(r)
  BY <1>1, <1>2, <1>3, <1>5 DEF Tells
<1> QED
  BY <1>4, <1>7, <1>8 DEF Telling

\* A file that does not load, or declares another name, is told of.
LEMMA FileTells ==
  ASSUME EntryOrdinary, IInv, Shape, Walked, ImportBroken \/ ImportMisdeclared
  PROVE  Telling
<1> DEFINE c == FileFault(Target)
<1>1. /\ Fresh /\ AtImport /\ tree' = tree /\ ~ IsRt(Target) /\ Target \in User /\ Target # Entry
      /\ Found = tree[Target] /\ Found \in File
  BY NotEntry DEF ImportBroken, ImportMisdeclared, Passed
<1>2. /\ Emits(Record(c, Target, 0)) /\ c \in Codes /\ c # "none" /\ c # "AIC-N0206"
      /\ ImportFault(Target) = "none" /\ ~ Loads(Target)
  <2>1. CASE ImportBroken
    <3>1. Found.state \in {"load", "lex", "parse"} /\ Emits(Record(Found.state, Target, 0))
      BY <2>1 DEF ImportBroken
    <3>2. c = Found.state
      BY <1>1, <3>1 DEF FileFault
    <3> HIDE DEF c
    <3> QED
      BY <1>1, <3>1, <3>2 DEF Codes, States, ImportFault, Loads
  <2>2. CASE ImportMisdeclared
    <3>1. /\ Found.state = "ok" /\ Found.decl # Target
          /\ Emits(Record(IF IsRt(Found.decl) THEN "AIC-N0207" ELSE "AIC-N0205", Target, 0))
      BY <2>2 DEF ImportMisdeclared
    <3>2. c = IF IsRt(Found.decl) THEN "AIC-N0207" ELSE "AIC-N0205"
      BY <1>1, <3>1 DEF FileFault
    <3> HIDE DEF c
    <3> QED
      BY <1>1, <3>1, <3>2 DEF Codes, ImportFault, Loads
  <2> QED
    BY <2>1, <2>2
<1>3. c = FileFault(Target)
  OBVIOUS
<1> HIDE DEF c
<1>4. PICK r \in Records : /\ r = Record(c, Target, 0) /\ r.code = c
                           /\ r.mod = Target /\ r.at = 0
  BY <1>1, <1>2, FileRecord
<1>5. Adds(r)
  BY <1>2, <1>4, EmitsAdds
<1>6. <<r.code, r.mod, r.at>> \in Faults
  BY <1>1, <1>2, <1>3, <1>4, AtFault
<1>7. Meant(r)'
  BY <1>1, <1>2, <1>4, <1>5, <1>6, Blaming
<1>8. Tells(r)
  BY <1>1, <1>2, <1>3, <1>4 DEF Tells
<1> QED
  BY <1>5, <1>7, <1>8 DEF Telling

\* A cycle is told with all its members or, after a failure, with some.
LEMMA CycleTells ==
  ASSUME EntryOrdinary, IInv, Shape, Entered, Walked, ImportCycle
  PROVE  Telling
<1>1. AtImport /\ ~ IsRt(Target) /\ OnPath(Target) /\ tree' = tree
  BY DEF ImportCycle, Passed
<1>2. Held(Target) /\ Target \in Name
  BY <1>1, PathHolds, AtHand DEF IInv
<1>3. Target \in User /\ Loads(Target)
  BY <1>1, <1>2 DEF User, Walked
<1>4. PICK found \in 1 .. Len(stack) : /\ stack[found].mod = Target
                                       /\ Emits(Cycle(found)) \/ Unnamed(Cycle(found))
  BY DEF ImportCycle, IInv, TypeOK
<1>5. PICK c \in Records : /\ c = Cycle(found) /\ c.code = "AIC-N0206" /\ c.mod = Target
  BY <1>1, <1>4, CycleRead
<1>6. Cyclic /\ Cyclic'
  <2>1. PICK first : first = tree[Target].imports[Cycle(found).at]
    OBVIOUS
  <2>2. Cyclic
    BY <1>1, <1>4, <2>1, CycleReaches
  <2> QED
    BY <1>1, <2>2, FilesStay
<1>7. ImportFault(Target) = "none"
  BY <1>1, <1>3 DEF ImportFault, Loads
<1>8. \A r : r.code = "AIC-N0206" => Tells(r)
  BY <1>1, <1>7 DEF Tells
<1>9. ASSUME NEW r \in Records, Adds(r), r.code = "AIC-N0206", Closed(r) \/ (failed' /\ Within(r))
      PROVE  Telling
  <2>1. \A S : Reach(S)' = Reach(S)
    BY <1>1, FilesStay
  <2>2. Closed(r)' = Closed(r) /\ Within(r)' = Within(r)
    BY <1>1, <2>1 DEF Closed, Within, Around
  <2>3. Meant(r)'
    BY <1>6, <1>9, <2>2 DEF Meant, Ring
  <2> QED
    BY <1>8, <1>9, <2>3 DEF Telling
<1>10. CASE Emits(Cycle(found))
  <2>1. Adds(c)
    BY <1>5, <1>10, EmitsAdds
  <2>2. Closed(c)
    BY <1>1, <1>4, <1>5, CycleCloses
  <2> QED
    BY <1>5, <1>9, <2>1, <2>2
<1>11. CASE Unnamed(Cycle(found))
  <2>1. PICK n \in 0 .. Len(c.also) - 1 : \E named \in Thinned(c.also, n) :
          records' = Append(records, [c EXCEPT !.also = named])
    BY <1>5, <1>11 DEF Unnamed
  <2>2. PICK named \in Thinned(c.also, n) : records' = Append(records, [c EXCEPT !.also = named])
    BY <2>1
  <2>3. PICK f \in [1 .. n -> DOMAIN c.also] : named = [k \in 1 .. n |-> c.also[f[k]]]
    BY <2>2 DEF Thinned
  <2>4. c.also \in Seq(User) /\ DOMAIN c.also = 1 .. Len(c.also) /\ n \in Nat
    <3>1. c.also \in Seq(User)
      BY DEF Records
    <3> QED
      BY <3>1
  <2>5. /\ named \in Seq(User) /\ Len(named) = n
        /\ \A i \in 1 .. n : f[i] \in 1 .. Len(c.also) /\ named[i] = c.also[f[i]]
    <3>1. \A i \in 1 .. n : f[i] \in 1 .. Len(c.also) /\ c.also[f[i]] \in User
      BY <2>3, <2>4
    <3>2. \A i \in 1 .. n : named[i] = c.also[f[i]]
      BY <2>3
    <3>3. named \in Seq(User) /\ Len(named) = n
      BY <2>3, <2>4, <3>1
    <3> QED
      BY <3>1, <3>2, <3>3
  <2> DEFINE e == [c EXCEPT !.also = named]
  <2>6. /\ e \in Records /\ e.code = "AIC-N0206" /\ e.mod = Target /\ e.at = Cycle(found).at
        /\ e.also = named
    BY <1>5, <2>5 DEF Records
  <2>7. PICK r \in Records : r = e
    BY <2>6
  <2> HIDE DEF e
  <2>8. \A i \in 1 .. Len(r.also) : \E k \in 1 .. Len(Cycle(found).also) :
          r.also[i] = Cycle(found).also[k]
    BY <1>5, <2>5, <2>6, <2>7
  <2>9. Within(r)
    BY <1>1, <1>4, <2>6, <2>7, <2>8, CycleNames
  <2>10. failed' = TRUE /\ oom' = oom /\ records' = Append(records, r)
    BY <1>11, <2>2, <2>7 DEF Unnamed, e
  <2>11. Adds(r)
    <3>1. records \in Seq(Records) /\ oom \in BOOLEAN
      BY DEF Shape
    <3>2. /\ records' \in Seq(Records) /\ records' # <<>>
          /\ ToSet(records') = ToSet(records) \cup {r}
      BY <2>10, <3>1, Appended
    <3> QED
      BY <2>10, <3>1, <3>2 DEF Adds
  <2> QED
    BY <1>9, <2>6, <2>7, <2>9, <2>10, <2>11
<1> QED
  BY <1>4, <1>10, <1>11

\* What is wrong with the entry's declaration is told first.
LEMMA StartTells ==
  ASSUME EntryOrdinary, IInv, Shape, Walked, name_resolve
  PROVE  \/ Silent /\ FileFault(Entry) = "none"
         \/ \E r \in Records : /\ Adds(r) /\ Meant(r)'
                               /\ r.code = FileFault(Entry) /\ r.mod = Entry /\ r.at = 0
<1> DEFINE c == FileFault(Entry)
<1>1. /\ tree[Entry].state = "ok" /\ tree' = tree /\ Entry \in User
      /\ IF IsRt(tree[Entry].decl) THEN Emits(Record("AIC-N0207", Entry, 0))
         ELSE IF tree[Entry].decl # Entry THEN Emits(Record("AIC-N0205", Entry, 0))
         ELSE Silent
  BY DEF name_resolve, IInv, TypeOK, EntryOrdinary
<1>2. c = IF IsRt(tree[Entry].decl) THEN "AIC-N0207"
          ELSE IF tree[Entry].decl # Entry THEN "AIC-N0205" ELSE "none"
  BY <1>1 DEF FileFault
<1> HIDE DEF c
<1>3. CASE c = "none"
  BY <1>1, <1>2, <1>3 DEF c
<1>4. CASE c # "none"
  <2>1. Emits(Record(c, Entry, 0)) /\ c \in Codes /\ c # "AIC-N0206"
    BY <1>1, <1>2, <1>4 DEF Codes
  <2>2. PICK r \in Records : /\ r = Record(c, Entry, 0) /\ r.code = c
                             /\ r.mod = Entry /\ r.at = 0
    BY <1>1, <2>1, FileRecord
  <2>3. Adds(r)
    BY <2>1, <2>2, EmitsAdds
  <2>4. <<r.code, r.mod, r.at>> \in Faults
    BY <1>4, <2>2, FaultsRead DEF c
  <2>5. Meant(r)'
    BY <1>1, <2>1, <2>2, <2>3, <2>4, Blaming
  <2> QED
    BY <2>2, <2>3, <2>5 DEF c
<1> QED
  BY <1>3, <1>4

\* The imports that are told about, and those that are not.
LEMMA OnwardTells ==
  ASSUME EntryOrdinary, IInv, Shape, Entered, Walked, Onward, [Next]_vars
  PROVE  \/ Telling /\ UNCHANGED <<modules, imports>>
         \/ ImportRuntime \/ ImportKnown
<1>1. stack' # stack
  <2>1. AtImport /\ stack' = Advanced /\ Top = stack[Len(stack)] /\ stack # <<>>
    BY DEF Onward, Top, AtImport
  <2>2. Len(stack) \in 1 .. Len(stack) /\ Top.next \in Nat /\ DOMAIN stack = 1 .. Len(stack)
        /\ Top \in Frames
    BY <2>1, AtHand DEF IInv, TypeOK
  <2>3. stack'[Len(stack)].next = Top.next + 1
    BY <2>1, <2>2 DEF Advanced, Frames
  <2> QED
    BY <2>1, <2>2, <2>3
<1>2. Len(stack') = Len(stack) /\ Len(stack) > 0 /\ Len(stack) \in Nat
  BY AdvancedPath, AtHand DEF Onward, IInv
<1>3. ~ (UNCHANGED vars) /\ ~ name_resolve /\ ~ Fail /\ ~ Finish
  BY <1>1, <1>2 DEF vars, name_resolve, Fail, Finish, Onward, AtImport
<1>4. ~ ImportModule
  BY <1>2, EnterModule
<1>5. ~ ResolveBodies
  BY <1>2, LeaveModule
<1>6. CASE ImportBareRt \/ ImportReserved
  BY <1>6, RuntimeTells DEF ImportBareRt, ImportReserved, Passed
<1>7. CASE ImportCycle
  BY <1>7, CycleTells DEF ImportCycle, Passed
<1>8. CASE ImportAbsent
  BY <1>8, AbsentTells DEF ImportAbsent, Passed
<1>9. CASE ImportBroken \/ ImportMisdeclared
  BY <1>9, FileTells DEF ImportBroken, ImportMisdeclared, Passed
<1> QED
  BY <1>3, <1>4, <1>5, <1>6, <1>7, <1>8, <1>9 DEF Next

\* What a step does to the records.
LEMMA RecordSteps ==
  ASSUME EntryOrdinary, IInv, Shape, Entered, Walked, [Next]_vars
  PROVE  \/ \E r \in Records : Adds(r) /\ Meant(r)'
         \/ UNCHANGED <<records, oom, failed>>
         \/ Fail
         \/ Finish
<1>1. CASE name_resolve
  BY <1>1, StartTells DEF Silent
<1>2. CASE Onward
  BY <1>2, OnwardTells DEF Telling, ImportRuntime, ImportKnown, Silent
<1>3. CASE ImportModule \/ ResolveBodies \/ UNCHANGED vars
  BY <1>3 DEF ImportModule, ResolveBodies, Silent, vars
<1> QED
  BY <1>1, <1>2, <1>3, Kinds

\* Whatever is recorded is real.
LEMMA TruthfulStep ==
  ASSUME EntryOrdinary, IInv, Shape, Entered, Walked, Truthful, [Next]_vars
  PROVE  Truthful'
<1>1. tree' = tree
  BY Kinds
<1>2. ASSUME NEW r \in Records, Adds(r), Meant(r)'
      PROVE  Truthful'
  BY <1>1, <1>2, TrueAdded
<1>3. ASSUME records' = records, failed => failed'
      PROVE  Truthful'
  BY <1>1, <1>3, MeantStays DEF Truthful
<1>4. ASSUME records' = <<>>
      PROVE  Truthful'
  BY <1>4 DEF Truthful, ToSet
<1>5. Finish => records' = <<>> \/ (records' = records /\ failed' = failed)
  BY DEF Finish
<1>6. Fail => records' = records /\ failed' = TRUE
  BY DEF Fail
<1> QED
  BY <1>2, <1>3, <1>4, <1>5, <1>6, RecordSteps

\* The records, the flags and the status keep their types.
LEMMA ShapeStep ==
  ASSUME EntryOrdinary, IInv, Shape, Entered, Walked, [Next]_vars
  PROVE  Shape'
<1>1. records' \in Seq(Records) /\ failed' \in BOOLEAN /\ oom' \in BOOLEAN
  <2>1. Finish => /\ records' = <<>> \/ records' = records
                  /\ failed' = failed /\ oom' = oom
    BY DEF Finish
  <2>2. Fail => records' = records /\ failed' = TRUE /\ oom' = oom
    BY DEF Fail
  <2>3. records \in Seq(Records) /\ failed \in BOOLEAN /\ oom \in BOOLEAN /\ <<>> \in Seq(Records)
    BY DEF Shape
  <2>4. CASE \E r \in Records : Adds(r)
    BY <2>4 DEF Adds
  <2>5. CASE UNCHANGED <<records, oom, failed>>
    BY <2>3, <2>5
  <2>6. CASE Fail
    BY <2>2, <2>3, <2>6
  <2>7. CASE Finish
    BY <2>1, <2>3, <2>7
  <2> QED
    BY <2>4, <2>5, <2>6, <2>7, RecordSteps
<1>2. \/ status' = "running" \/ UNCHANGED vars \/ status' = "unwound"
      \/ status' \in {"NAME_OK", "NAME_DIAG_ERROR", "NAME_OOM"}
  <2>1. Onward => status' = "running"
    BY DEF Onward, AtImport
  <2>2. ImportModule => status' = "running"
    BY DEF ImportModule, Fresh, AtImport
  <2>3. Finish => status' \in {"NAME_OK", "NAME_DIAG_ERROR", "NAME_OOM"}
    BY DEF Finish, Outcome
  <2> QED
    BY <2>1, <2>2, <2>3, Kinds DEF name_resolve, ResolveBodies, Fail
<1> QED
  BY <1>1, <1>2 DEF Shape, vars

-----------------------------------------------------------------------------
(* What the actions do to the edges                                        *)

\* An edge that is there stays, and the new one is there.
LEMMA EdgesStay ==
  ASSUME TypeOK, NEW m \in Name, NEW n \in Name, imports' = WithEdge(m, n)
  PROVE  \A x, y \in Name : Edge(x, y) \/ (x = m /\ y = n) => Edge(x, y)'
<1>1. imports[m] \in Seq(Name) /\ DOMAIN imports = Name
  BY DEF TypeOK
<1>2. CASE Contains(imports[m], n)
  BY <1>2 DEF WithEdge, Edge, Contains
<1>3. CASE ~ Contains(imports[m], n)
  <2>1. imports' = [imports EXCEPT ![m] = Append(imports[m], n)]
    BY <1>3 DEF WithEdge
  <2> DEFINE l == Len(imports[m])
  <2>2. /\ imports'[m] = Append(imports[m], n) /\ l \in Nat
        /\ Len(imports'[m]) = l + 1 /\ imports'[m][l + 1] = n
        /\ \A i \in 1 .. l : imports'[m][i] = imports[m][i]
    BY <1>1, <2>1
  <2>3. \A x \in Name : x # m => imports'[x] = imports[x]
    BY <1>1, <2>1
  <2>4. ASSUME NEW x \in Name, NEW y \in Name, Edge(x, y)
        PROVE  Edge(x, y)'
    <3>1. CASE x = m
      <4>1. PICK i \in 1 .. l : imports[m][i] = y
        BY <2>4, <3>1 DEF Edge
      <4>2. i \in 1 .. l + 1 /\ imports'[m][i] = y
        BY <2>2, <4>1
      <4> QED
        BY <2>2, <3>1, <4>2 DEF Edge
    <3>2. CASE x # m
      BY <2>3, <2>4, <3>2 DEF Edge
    <3> QED
      BY <3>1, <3>2
  <2>5. Edge(m, n)'
    <3>1. l + 1 \in 1 .. Len(imports'[m])
      BY <2>2
    <3> HIDE DEF l
    <3> QED
      BY <2>2, <3>1 DEF Edge
  <2> QED
    BY <2>4, <2>5
<1> QED
  BY <1>2, <1>3

\* A module that is registered stays so, and the new one is.
LEMMA ListedStays ==
  ASSUME TypeOK, Once, NEW n \in Name,
         modules' = Append(modules, n) \/ (modules' = modules /\ Known(n))
  PROVE  \A x \in Name : Listed(x) \/ x = n => Listed(x)'
<1>1. CASE modules' = modules /\ Known(n)
  BY <1>1 DEF Listed, Known, Contains
<1>2. CASE modules' = Append(modules, n)
  <2>1. /\ Len(modules') = Len(modules) + 1 /\ Len(modules) \in Nat
        /\ \A i \in 1 .. Len(modules) : modules'[i] = modules[i]
        /\ modules'[Len(modules) + 1] = n
    BY <1>2 DEF TypeOK
  <2> QED
    BY <2>1 DEF Listed
<1> QED
  BY <1>1, <1>2

\* Every edge follows an import statement.
LEMMA WrittenStep ==
  ASSUME EntryOrdinary, IInv, Shape, Entered, Walked, Written, [Next]_vars
  PROVE  Written'
<1>1. tree' = tree
  BY Kinds
<1>2. ASSUME imports' = imports PROVE Written'
  BY <1>1, <1>2 DEF Written, Edge
<1>3. ASSUME imports' = [n \in Name |-> <<>>] PROVE Written'
  BY <1>3 DEF Written, Edge
<1>4. ASSUME AtImport, imports' = WithEdge(Top.mod, Target)
      PROVE  Written'
  <2>1. /\ Top.mod \in User /\ Top.mod \in Name /\ Target \in Name
        /\ Top.next \in Nat \ {0} /\ tree[Top.mod].imports[Top.next] = Target
        /\ tree[Top.mod].imports \in Seq(Name)
    BY <1>4, AtHand DEF IInv, Frames, TypeOK, File
  <2>2. Contains(tree[Top.mod].imports, Target)
    BY <1>4, <2>1 DEF Contains, AtImport
  <2>3. \A x, y \in Name : Edge(x, y)' => Edge(x, y) \/ (x = Top.mod /\ y = Target)
    BY <1>4, <2>1, EdgeAdded DEF IInv
  <2> QED
    BY <1>1, <2>1, <2>2, <2>3 DEF Written
<1>5. CASE Onward
  BY <1>2, <1>4, <1>5, OnwardTells DEF ImportRuntime, ImportKnown
<1>6. CASE ImportModule
  BY <1>4, <1>6 DEF ImportModule, Fresh
<1>7. CASE name_resolve \/ ResolveBodies \/ Fail \/ UNCHANGED vars
  BY <1>2, <1>7 DEF name_resolve, ResolveBodies, Fail, vars
<1>8. CASE Finish
  BY <1>2, <1>3, <1>8 DEF Finish
<1> QED
  BY <1>5, <1>6, <1>7, <1>8, Kinds

-----------------------------------------------------------------------------
(* The account of the imports behind the walk                              *)

\* Nothing that has been told is forgotten.
LEMMA ToldGrows ==
  ASSUME EntryOrdinary, TypeOK, Told, tree' = tree, status = "running", failed => failed',
         \A c, m, at : Recorded(c, m, at) => Recorded(c, m, at)',
         Circular => Circular',
         \A n \in Name : Listed(n) => Listed(n)',
         \A m, n \in Name : Edge(m, n) => Edge(m, n)',
         \A m \in User : \A j \in 1 .. Len(tree[m].imports) : Past(m, j)' /\ ~ failed' =>
           \/ Past(m, j)
           \/ \A n : n = tree[m].imports[j] => Blamed(n, m, j)' /\ Joined(n, m)'
  PROVE  Told'
<1> SUFFICES ASSUME ~ failed'
             PROVE  /\ FileFault(Entry)' # "none" => Recorded(FileFault(Entry), Entry, 0)'
                    /\ \A m \in User : \A j \in 1 .. Len(tree'[m].imports) : Past(m, j)' =>
                         Blamed(tree[m].imports[j], m, j)' /\ Joined(tree[m].imports[j], m)'
  BY DEF Told
<1>1. \A n : /\ Loads(n)' = Loads(n) /\ FileFault(n)' = FileFault(n)
             /\ ImportFault(n)' = ImportFault(n)
  BY FilesStay
<1>2. FileFault(Entry)' # "none" => Recorded(FileFault(Entry), Entry, 0)'
  BY <1>1 DEF Told
<1>3. ASSUME NEW m \in User, NEW j \in 1 .. Len(tree[m].imports), Past(m, j)', NEW n,
             n = tree[m].imports[j]
      PROVE  Blamed(n, m, j)' /\ Joined(n, m)'
  <2>1. CASE Past(m, j)
    <3>1. m \in Name /\ n \in Name /\ Blamed(n, m, j) /\ Joined(n, m)
      BY <1>3, <2>1 DEF Told, TypeOK, File, User
    <3>2. Blamed(n, m, j)'
      BY <1>1, <3>1 DEF Blamed
    <3>3. Joined(n, m)'
      BY <1>1, <3>1 DEF Joined
    <3> QED
      BY <3>2, <3>3
  <2>2. CASE ~ Past(m, j)
    BY <1>3, <2>2
  <2> QED
    BY <2>1, <2>2
<1>4. ASSUME NEW m \in User, NEW j \in 1 .. Len(tree[m].imports), Past(m, j)'
      PROVE  Blamed(tree[m].imports[j], m, j)' /\ Joined(tree[m].imports[j], m)'
  <2>1. PICK n : n = tree[m].imports[j]
    OBVIOUS
  <2> QED
    BY <1>3, <1>4, <2>1
<1> QED
  BY <1>2, <1>4

\* A module that loads is not at fault, unless it is the entry module.
LEMMA LoadsClean ==
  ASSUME NEW n, Loads(n), n # Entry
  PROVE  ImportFault(n) = "none" /\ FileFault(n) = "none" /\ ~ IsRt(n)
BY DEF Loads, ImportFault, FileFault

\* While imports are read, the entry is on the path.
LEMMA EntryOnPath ==
  ASSUME IInv, AtImport
  PROVE  OnPath(Entry)
BY AtHand, PathHolds DEF IInv, OnImports, Held

\* Passing an import settles it: what is wrong with it has been told, and it is
\* listed and led to when nothing is.
LEMMA ToldOnward ==
  ASSUME EntryOrdinary, IInv, Shape, Entered, Walked, Told, Onward, [Next]_vars
  PROVE  Told'
<1>1. /\ AtImport /\ stack' = Advanced /\ tree' = tree /\ resolved' = resolved
      /\ status = "running"
  BY DEF Onward, AtImport
<1>2. \A m : \A j \in Nat : Past(m, j)' => Past(m, j) \/ (m = Top.mod /\ j = Top.next)
  BY <1>1, NextImport
<1>3. PICK n, o, k : n = Target /\ o = Top.mod /\ k = Top.next
  OBVIOUS
<1>4. n \in Name /\ o \in User /\ o \in Name /\ k \in Nat
  BY <1>1, <1>3, AtHand DEF IInv
<1>5. \A x : /\ Loads(x)' = Loads(x) /\ FileFault(x)' = FileFault(x)
             /\ ImportFault(x)' = ImportFault(x)
  BY <1>1, FilesStay
<1>6. ASSUME failed => failed',
             \A c, m, at : Recorded(c, m, at) => Recorded(c, m, at)',
             Circular => Circular',
             \A x \in Name : Listed(x) => Listed(x)',
             \A x, y \in Name : Edge(x, y) => Edge(x, y)',
             ~ failed' => Blamed(n, o, k)' /\ Joined(n, o)'
      PROVE  Told'
  <2>1. ASSUME NEW m \in User, NEW j \in 1 .. Len(tree[m].imports), Past(m, j)', ~ failed',
               ~ Past(m, j), NEW x, x = tree[m].imports[j]
        PROVE  Blamed(x, m, j)' /\ Joined(x, m)'
    <3>1. m = o /\ j = k
      BY <1>2, <1>3, <2>1
    <3>2. x = n
      BY <1>1, <1>3, <2>1, <3>1, AtHand DEF IInv
    <3> QED
      BY <1>6, <2>1, <3>1, <3>2
  <2> QED
    BY <1>1, <1>6, <2>1, ToldGrows DEF IInv
<1>7. ASSUME Telling, UNCHANGED <<modules, imports>>
      PROVE  Told'
  <2>1. PICK r \in Records : Adds(r) /\ Meant(r)' /\ (~ failed' => Tells(r))
    BY <1>7 DEF Telling
  <2>2. /\ \A c, m, at : Recorded(c, m, at) => Recorded(c, m, at)'
        /\ (Circular => Circular') /\ (failed => failed')
    BY <2>1, RecordedStays DEF Adds
  <2>3. /\ \A x \in Name : Listed(x) => Listed(x)'
        /\ \A x, y \in Name : Edge(x, y) => Edge(x, y)'
    BY <1>7 DEF Listed, Edge
  <2>4. ASSUME ~ failed' PROVE Blamed(n, o, k)'
    <3>1. Tells(r) /\ r \in ToSet(records')
      BY <2>1, <2>4 DEF Adds
    <3>2. ImportFault(n) # "none" => Recorded(ImportFault(n), o, k)'
      BY <1>3, <1>5, <3>1 DEF Tells, Recorded
    <3>3. ASSUME n \in User, FileFault(n) # "none", OnPath(n)
          PROVE  n = Entry
      BY <1>1, <1>4, <3>3, PathHolds, LoadsClean DEF IInv, Walked
    <3>4. FileFault(Entry) # "none" => Recorded(FileFault(Entry), Entry, 0)'
      <4>1. FileFault(Entry) # "none" => Recorded(FileFault(Entry), Entry, 0)
        <5>1. ~ failed
          BY <2>2, <2>4
        <5> QED
          BY <1>1, <5>1 DEF Told
      <4>2. PICK c, e : c = FileFault(Entry) /\ e = Entry
        OBVIOUS
      <4> QED
        BY <1>5, <2>2, <4>1, <4>2
    <3>5. n \in User /\ FileFault(n) # "none" => Recorded(FileFault(n), n, 0)'
      <4>1. CASE OnPath(n)
        BY <3>3, <3>4, <4>1
      <4>2. CASE ~ OnPath(n)
        BY <1>3, <1>5, <3>1, <4>2 DEF Tells, Recorded
      <4> QED
        BY <4>1, <4>2
    <3> QED
      BY <1>5, <3>2, <3>5 DEF Blamed
  <2>5. ASSUME ~ failed' PROVE Joined(n, o)'
    <3>1. Tells(r) /\ r \in ToSet(records')
      BY <2>1, <2>5 DEF Adds
    <3>2. r.code = "AIC-N0206" => Circular'
      BY <3>1 DEF Circular
    <3>3. OnPath(n) => Listed(n)'
      BY <1>1, <1>4, <2>3, PathHolds DEF IInv, Partition
    <3> QED
      BY <1>3, <1>5, <3>1, <3>2, <3>3 DEF Joined, Tells
  <2>6. ~ failed' => Blamed(n, o, k)' /\ Joined(n, o)'
    BY <2>4, <2>5
  <2> QED
    BY <1>6, <2>2, <2>3, <2>6
<1>8. ASSUME Silent, imports' = WithEdge(Top.mod, Target),
             modules' = Append(modules, Target) \/ (modules' = modules /\ Known(Target)),
             ImportFault(n) = "none", n \in User => FileFault(n) = "none"
      PROVE  Told'
  <2>1. imports' = WithEdge(o, n)
    BY <1>3, <1>8
  <2>2. \A x, y \in Name : Edge(x, y) \/ (x = o /\ y = n) => Edge(x, y)'
    BY <1>4, <2>1, EdgesStay DEF IInv
  <2>3. \A x \in Name : Listed(x) \/ x = n => Listed(x)'
    BY <1>3, <1>4, <1>8, ListedStays DEF IInv
  <2>4. Blamed(n, o, k)' /\ Joined(n, o)'
    BY <1>4, <1>5, <1>8, <2>2, <2>3 DEF Blamed, Joined
  <2>5. records' = records /\ failed' = failed
    BY <1>8 DEF Silent
  <2> QED
    BY <1>6, <2>2, <2>3, <2>4, <2>5, RecordedStays
<1>9. CASE ImportRuntime
  <2>1. /\ Silent /\ imports' = WithEdge(Top.mod, Target) /\ IsRt(n) /\ InSurface(n)
        /\ modules' = Append(modules, Target) \/ (modules' = modules /\ Known(Target))
    BY <1>3, <1>9 DEF ImportRuntime
  <2>2. ImportFault(n) = "none" /\ n \notin User
    <3> DEFINE l == Len(n)
    <3>0. l > 1
      BY <2>1 DEF InSurface
    <3> HIDE DEF l
    <3>1. l # 1
      BY <3>0
    <3> USE DEF l
    <3> QED
      BY <2>1, <3>1 DEF ImportFault, User
  <2> QED
    BY <1>8, <2>1, <2>2
<1>10. CASE ImportKnown
  <2>1. /\ Silent /\ imports' = WithEdge(Top.mod, Target) /\ ~ IsRt(n)
        /\ ~ OnPath(n) /\ Known(n) /\ modules' = modules
    BY <1>3, <1>10 DEF ImportKnown
  <2>2. Listed(n) /\ ~ Held(n)
    BY <1>4, <2>1, PathHolds DEF Known, Contains, Listed, IInv
  <2>3. Done(n)
    BY <1>1, <1>4, <2>1, <2>2 DEF IInv, Partition
  <2>4. Loads(n) /\ n # Entry
    BY <1>1, <1>4, <2>1, <2>3, EntryOnPath DEF Walked
  <2> QED
    BY <1>3, <1>8, <2>1, <2>4, LoadsClean
<1> QED
  BY <1>7, <1>9, <1>10, OnwardTells

\* Every import the walk is past stays settled.
LEMMA ToldStep ==
  ASSUME EntryOrdinary, IInv, Shape, Entered, Walked, Told, [Next]_vars
  PROVE  Told'
<1>1. tree' = tree
  BY Kinds
<1>2. CASE name_resolve
  <2>1. Len(stack') = 1 /\ stack'[1].next = 1 /\ resolved' = <<>>
    BY <1>2 DEF name_resolve, Frame, IInv, Fresh0
  <2>2. \A m : \A j \in Nat \ {0} : ~ Past(m, j)'
    BY <2>1 DEF Past, Done
  <2>3. ASSUME ~ failed', FileFault(Entry)' # "none"
        PROVE  Recorded(FileFault(Entry), Entry, 0)'
    <3>1. PICK c, e : c = FileFault(Entry) /\ e = Entry
      OBVIOUS
    <3>2. FileFault(Entry)' = c /\ c # "none"
      BY <1>1, <2>3, <3>1, FilesStay
    <3>3. Recorded(c, e, 0)'
      BY <1>2, <2>3, <3>1, <3>2, StartTells DEF Adds, Recorded
    <3> QED
      BY <3>1, <3>2, <3>3
  <2> QED
    BY <1>1, <2>2, <2>3 DEF Told
<1>3. CASE Onward
  BY <1>3, ToldOnward
<1>4. CASE ImportModule
  <2>1. /\ Fresh /\ AtImport /\ status = "running" /\ Silent
        /\ imports' = WithEdge(Top.mod, Target) /\ modules' = Append(modules, Target)
        /\ Found.state = "ok" /\ Found.decl = Target
    BY <1>4 DEF ImportModule, Fresh, AtImport
  <2>2. PICK n, o, k : n = Target /\ o = Top.mod /\ k = Top.next
    OBVIOUS
  <2>3. n \in Name /\ o \in User /\ o \in Name /\ k \in Nat
    BY <2>1, <2>2, AtHand DEF IInv
  <2>4. Loads(n) /\ n # Entry
    BY <2>1, <2>2, NotEntry DEF Loads
  <2>5. ImportFault(n)' = "none" /\ FileFault(n)' = "none"
    BY <1>1, <2>4, LoadsClean, FilesStay
  <2>6. \A x, y \in Name : Edge(x, y) \/ (x = o /\ y = n) => Edge(x, y)'
    BY <2>1, <2>2, <2>3, EdgesStay DEF IInv
  <2>7. \A x \in Name : Listed(x) \/ x = n => Listed(x)'
    BY <2>1, <2>2, <2>3, ListedStays DEF IInv
  <2>8. Blamed(n, o, k)' /\ Joined(n, o)'
    BY <2>3, <2>5, <2>6, <2>7 DEF Blamed, Joined
  <2>9. ASSUME NEW m \in User, NEW j \in 1 .. Len(tree[m].imports), Past(m, j)',
               ~ Past(m, j), NEW x, x = tree[m].imports[j]
        PROVE  Blamed(x, m, j)' /\ Joined(x, m)'
    <3>1. j \in Nat \ {0}
      BY DEF IInv, TypeOK, File
    <3>2. m = o /\ j = k
      BY <1>4, <2>2, <2>9, <3>1, EnterModule
    <3>3. x = n
      BY <2>1, <2>2, <2>9, <3>2, AtHand DEF IInv
    <3> QED
      BY <2>8, <3>2, <3>3
  <2>10. records' = records /\ failed' = failed
    BY <2>1 DEF Silent
  <2> QED
    BY <1>1, <2>1, <2>6, <2>7, <2>9, <2>10, RecordedStays, ToldGrows DEF IInv
<1>5. CASE ResolveBodies
  <2>1. status = "running" /\ UNCHANGED <<records, failed, modules, imports>>
    BY <1>5 DEF ResolveBodies, Silent
  <2>2. \A m : \A j \in 1 .. Len(tree[m].imports) : Past(m, j)' => Past(m, j)
    BY <1>5, LeaveModule
  <2>3. /\ \A x \in Name : Listed(x) => Listed(x)'
        /\ \A x, y \in Name : Edge(x, y) => Edge(x, y)'
    BY <2>1 DEF Listed, Edge
  <2> QED
    BY <1>1, <2>1, <2>2, <2>3, RecordedStays, ToldGrows DEF IInv
<1>6. CASE Fail \/ Finish
  <2>1. status' # "running"
    BY <1>6 DEF Fail, Finish, Outcome
  <2> QED
    BY <2>1 DEF Told
<1>7. CASE UNCHANGED vars
  BY <1>7 DEF vars, Told, Recorded, Past, Blamed, Joined, Listed, Edge, Circular,
              ImportFault, FileFault, Loads, Done
<1> QED
  BY <1>2, <1>3, <1>4, <1>5, <1>6, <1>7, Kinds

\* NAME_OK is not answered behind a failed allocation.
LEMMA SeenStep ==
  ASSUME EntryOrdinary, IInv, Shape, Entered, Walked, Seen, [Next]_vars
  PROVE  Seen'
<1>1. CASE Fail
  BY <1>1 DEF Fail, Seen
<1>2. CASE Finish
  <2>1. ASSUME status' = "NAME_OK" PROVE ~ failed'
    <3>1. Outcome = "NAME_OK" /\ failed' = failed /\ status \in {"running", "unwound"}
      BY <1>2, <2>1 DEF Finish
    <3> QED
      BY <3>1 DEF Outcome, Seen
  <2>2. status' # "running"
    BY <1>2 DEF Finish, Outcome
  <2> QED
    BY <2>1, <2>2 DEF Seen
<1>3. ASSUME status' \in {"running", "NAME_OK"}, ~ Fail, ~ Finish
      PROVE  status \in {"start", "running", "NAME_OK"}
  <2>1. Onward \/ ImportModule => status = "running"
    BY DEF Onward, ImportModule, Fresh, AtImport
  <2> QED
    BY <1>3, <2>1, Kinds DEF name_resolve, ResolveBodies, vars
<1>4. status = "start" => ~ failed
  BY DEF Shape
<1>5. CASE ~ Fail /\ ~ Finish /\ \E r \in Records : Adds(r)
  BY <1>3, <1>4, <1>5 DEF Seen, Adds
<1>6. CASE ~ Fail /\ ~ Finish /\ UNCHANGED <<records, oom, failed>>
  BY <1>3, <1>4, <1>6 DEF Seen
<1> QED
  BY <1>1, <1>2, <1>5, <1>6, RecordSteps


-----------------------------------------------------------------------------
(* The order of the module table                                           *)

\* As long as nothing has gone wrong, an import the walk is past names a module
\* that is registered, and the edge is there.
LEMMA Settled ==
  ASSUME TypeOK, Told, status = "running", ~ failed,
         NEW m \in User, NEW j \in 1 .. Len(tree[m].imports), Past(m, j),
         NEW n, n = tree[m].imports[j], ImportFault(n) = "none",
         n \in User => FileFault(n) = "none"
  PROVE  Listed(n) /\ (Edge(m, n) \/ Circular) /\ n \in Name /\ (n \in User => Loads(n))
<1>1. n \in Name /\ Joined(n, m)
  BY DEF Told, TypeOK, File
<1>2. CASE IsRt(n)
  <2>1. InSurface(n) /\ n \notin User
    BY <1>2 DEF ImportFault, User
  <2> QED
    BY <1>1, <1>2, <2>1 DEF Joined
<1>3. CASE ~ IsRt(n)
  <2>1. n \in User /\ tree[n] \in File
    BY <1>1, <1>3 DEF User, TypeOK
  <2>2. n = Entry \/ tree[n].state # "absent"
    BY <1>3 DEF ImportFault
  <2>3. Loads(n)
    BY <1>3, <2>1, <2>2 DEF FileFault, Loads, File, States
  <2> QED
    BY <1>1, <1>3, <2>3 DEF Joined
<1> QED
  BY <1>2, <1>3

\* Where nothing is told, a settled import is listed, led to and loads.
LEMMA SettledQuiet ==
  ASSUME TypeOK, Told, status = "running", ~ failed, records = <<>>,
         NEW m \in User, NEW j \in 1 .. Len(tree[m].imports), Past(m, j),
         NEW n, n = tree[m].imports[j]
  PROVE  Listed(n) /\ Edge(m, n) /\ n \in Name /\ (n \in User => Loads(n))
<1>1. ToSet(records) = {}
  BY DEF ToSet
<1>2. ~ Circular /\ \A c, o, at : ~ Recorded(c, o, at)
  BY <1>1 DEF Circular, Recorded
<1>3. ImportFault(n) = "none" /\ (n \in User => FileFault(n) = "none")
  BY <1>2 DEF Told, Blamed
<1> QED
  BY <1>2, <1>3, Settled

\* A module that is done is complete.
LEMMA DoneComplete ==
  ASSUME TypeOK, Told, status = "running", ~ failed, records = <<>>,
         NEW l \in 1 .. Len(modules), IsRt(modules[l]) \/ Done(modules[l])
  PROVE  Complete(modules, l, Len(modules))
<1>1. CASE IsRt(modules[l])
  BY <1>1 DEF Complete, ImportsOf, ToSet
<1>2. CASE ~ IsRt(modules[l])
  <2>1. PICK m : m = modules[l]
    OBVIOUS
  <2>2. m \in User /\ ImportsOf(m) = tree[m].imports /\ tree[m].imports \in Seq(Name)
    BY <1>2, <2>1 DEF TypeOK, User, File, ImportsOf
  <2>3. ASSUME NEW j \in 1 .. Len(tree[m].imports), NEW n, n = tree[m].imports[j]
        PROVE  n \in Before(modules, Len(modules))
    <3>1. Past(m, j)
      BY <1>2, <2>1 DEF Past
    <3>2. Listed(n)
      BY <2>2, <2>3, <3>1, SettledQuiet
    <3> QED
      BY <3>2 DEF Listed, Before
  <2>4. ToSet(tree[m].imports) \subseteq Before(modules, Len(modules))
    BY <2>2, <2>3 DEF ToSet
  <2> QED
    BY <2>1, <2>2, <2>4 DEF Complete
<1> QED
  BY <1>1, <1>2

\* What has been said of the first modules stays true when one is added.
LEMMA OrderStays ==
  ASSUME TypeOK, Ordered, tree' = tree, NEW n, modules' = Append(modules, n),
         status = "running", ~ failed, records = <<>>, NEW k \in 1 .. Len(modules) - 1
  PROVE  \E j \in 1 .. k : /\ Leading(modules, j, k)'
                           /\ \A l \in j + 1 .. k : Complete(modules, l, k)'
<1>1. /\ Len(modules) \in Nat /\ \A i \in 1 .. Len(modules) : modules'[i] = modules[i]
  BY DEF TypeOK
<1>2. \A i \in 1 .. k + 1 : modules'[i] = modules[i]
  BY <1>1
<1>3. Before(modules, k)' = Before(modules, k)
  BY <1>2 DEF Before
<1>4. \A x : ImportsOf(x)' = ImportsOf(x)
  BY DEF ImportsOf
<1>5. PICK j \in 1 .. k : Leading(modules, j, k) /\ \A l \in j + 1 .. k : Complete(modules, l, k)
  BY DEF Ordered
<1>6. modules'[j] = modules[j] /\ modules'[k + 1] = modules[k + 1] /\ k \in Nat
  BY <1>2
<1>7. Leading(modules, j, k)'
  BY <1>3, <1>4, <1>5, <1>6 DEF Leading
<1>8. ASSUME NEW l \in j + 1 .. k PROVE Complete(modules, l, k)'
  <2>1. Complete(modules, l, k) /\ modules'[l] = modules[l]
    BY <1>2, <1>5
  <2> QED
    BY <1>3, <1>4, <2>1 DEF Complete
<1> QED
  BY <1>5, <1>7, <1>8

\* A module that is added is the first unlisted import of the module on top of
\* the path, and all that was listed after that one is complete.
LEMMA NextInOrder ==
  ASSUME EntryOrdinary, IInv, Told, InOrder, AtImport, modules' = Append(modules, Target),
         tree' = tree, ~ failed, records = <<>>, NEW L, L = Len(modules)
  PROVE  \E j \in 1 .. L : /\ Leading(modules, j, L)'
                           /\ \A l \in j + 1 .. L : Complete(modules, l, L)'
<1>1. PICK o, k, n : o = Top.mod /\ k = Top.next /\ n = Target
  OBVIOUS
<1>2. /\ o \in User /\ o \in Name /\ k \in Nat \ {0} /\ n \in Name /\ tree[o].imports[k] = n
      /\ k \in 1 .. Len(tree[o].imports) /\ tree[o].imports \in Seq(Name)
      /\ status = "running" /\ Held(o) /\ Len(stack) \in Nat /\ Len(stack) > 0
  BY <1>1, AtHand, SMTT(40) DEF IInv, AtImport, Frames, TypeOK, File
<1>3. /\ L \in Nat /\ Len(modules') = L + 1 /\ modules'[L + 1] = n
      /\ \A i \in 1 .. L : modules'[i] = modules[i]
  BY <1>1 DEF IInv, TypeOK
<1>4. Before(modules, L)' = Before(modules, L)
  BY <1>3 DEF Before
<1>5. \A x : ImportsOf(x)' = ImportsOf(x)
  BY DEF ImportsOf
<1>6. PICK j \in 1 .. L : modules[j] = o
  BY <1>2 DEF IInv, Partition, Listed
<1>7. Leading(modules, j, L)'
  <2>1. ImportsOf(o) = tree[o].imports
    BY <1>2 DEF ImportsOf, User
  <2>2. ASSUME NEW i \in 1 .. k - 1 PROVE tree[o].imports[i] \in Before(modules, L)
    <3>1. i \in 1 .. Len(tree[o].imports) /\ i < k
      BY <1>2
    <3>2. Past(o, i)
      <4>1. Len(stack) \in 1 .. Len(stack) /\ stack[Len(stack)].mod = o /\ i < stack[Len(stack)].next
        BY <1>1, <1>2, <3>1 DEF Top
      <4> QED
        BY <4>1 DEF Past
    <3>3. PICK x : x = tree[o].imports[i]
      OBVIOUS
    <3>4. Listed(x)
      BY <1>2, <3>1, <3>2, <3>3, SettledQuiet DEF IInv
    <3> QED
      BY <3>3, <3>4 DEF Listed, Before
  <2>3. modules'[j] = o /\ k \in DOMAIN tree[o].imports
    BY <1>2, <1>3, <1>6
  <2> QED
    BY <1>2, <1>3, <1>4, <1>5, <2>1, <2>2, <2>3 DEF Leading
<1>8. ASSUME NEW l \in j + 1 .. L PROVE Complete(modules, l, L)'
  <2>1. l \in 1 .. L /\ j < l /\ j \in 1 .. L
    BY <1>3, <1>6
  <2>2. modules[l] \in Name /\ Listed(modules[l])
    BY <1>3, <2>1 DEF IInv, TypeOK, Listed
  <2>3. ~ Held(modules[l])
    <3> SUFFICES ASSUME NEW b \in 1 .. Len(stack), stack[b].mod = modules[l] PROVE FALSE
      BY DEF Held
    <3>1. /\ Len(stack) \in 1 .. Len(stack) /\ stack[Len(stack)].mod = modules[j]
      BY <1>1, <1>2, <1>6 DEF Top
    <3>2. Len(stack) < b
      BY <1>2, <2>1, <3>1 DEF InOrder
    <3> QED
      BY <1>2, <3>2
  <2>4. IsRt(modules[l]) \/ Done(modules[l])
    BY <1>2, <2>2, <2>3 DEF IInv, Partition
  <2>5. Complete(modules, l, L)
    BY <1>2, <2>1, <2>4, DoneComplete DEF IInv
  <2>6. modules'[l] = modules[l]
    BY <1>3, <2>1
  <2> QED
    BY <1>4, <1>5, <2>5, <2>6 DEF Complete
<1> QED
  BY <1>6, <1>7, <1>8

\* Adding a module keeps the table in depth-first order.
LEMMA OrderGrows ==
  ASSUME EntryOrdinary, IInv, Told, InOrder, Ordered, AtImport,
         modules' = Append(modules, Target), tree' = tree,
         records' = records, failed' = failed
  PROVE  Ordered'
<1> SUFFICES ASSUME ~ failed, records = <<>>, NEW k \in 1 .. Len(modules') - 1
             PROVE  \E j \in 1 .. k : /\ Leading(modules, j, k)'
                                      /\ \A l \in j + 1 .. k : Complete(modules, l, k)'
  BY DEF Ordered
<1>1. Len(modules) \in Nat /\ Len(modules') = Len(modules) + 1 /\ status = "running"
  BY DEF IInv, TypeOK, AtImport
<1>2. CASE k = Len(modules)
  BY <1>2, NextInOrder
<1>3. CASE k # Len(modules)
  <2> DEFINE l == Len(modules)
  <2>0. l \in Nat /\ k \in 1 .. (l + 1) - 1 /\ k # l
    BY <1>1, <1>3
  <2> HIDE DEF l
  <2>1. k \in 1 .. l - 1
    BY <2>0
  <2> USE DEF l
  <2>2. PICK n : n = Target
    OBVIOUS
  <2> QED
    BY <1>1, <2>1, <2>2, OrderStays DEF IInv
<1> QED
  BY <1>2, <1>3

\* module_by_fqn_internal appends in depth-first order.
LEMMA OrderedStep ==
  ASSUME EntryOrdinary, IInv, Shape, Entered, Walked, Told, InOrder, Ordered, [Next]_vars
  PROVE  Ordered'
<1>1. tree' = tree
  BY Kinds
<1>2. ASSUME modules' = modules, status = "running",
             failed => failed', records # <<>> => records' # <<>>
      PROVE  Ordered'
  <2>1. \A x : ImportsOf(x)' = ImportsOf(x)
    BY <1>1 DEF ImportsOf
  <2>2. \A l, k : Complete(modules, l, k)' = Complete(modules, l, k)
    BY <1>2, <2>1 DEF Complete, Before
  <2>3. \A j, k : Leading(modules, j, k)' = Leading(modules, j, k)
    BY <1>2, <2>1 DEF Leading, Before
  <2> QED
    BY <1>2, <2>2, <2>3 DEF Ordered
<1>3. CASE name_resolve
  <2>1. Len(modules') = 1
    BY <1>3 DEF name_resolve
  <2> QED
    BY <2>1 DEF Ordered
<1>4. CASE Onward
  <2>1. status = "running" /\ AtImport
    BY <1>4 DEF Onward, AtImport
  <2>2. CASE Telling /\ UNCHANGED <<modules, imports>>
    BY <1>2, <2>1, <2>2 DEF Telling, Adds
  <2>3. CASE ImportRuntime \/ ImportKnown
    <3>1. records' = records /\ failed' = failed
      BY <2>3 DEF ImportRuntime, ImportKnown, Silent
    <3>2. modules' = modules \/ modules' = Append(modules, Target)
      BY <2>3 DEF ImportRuntime, ImportKnown
    <3> QED
      BY <1>1, <1>2, <2>1, <3>1, <3>2, OrderGrows
  <2> QED
    BY <1>4, <2>2, <2>3, OnwardTells
<1>5. CASE ImportModule
  BY <1>1, <1>5, OrderGrows DEF ImportModule, Fresh, Silent
<1>6. CASE ResolveBodies
  BY <1>2, <1>6 DEF ResolveBodies, Silent
<1>7. CASE Fail \/ Finish
  <2>1. status' # "running"
    BY <1>7 DEF Fail, Finish, Outcome
  <2> QED
    BY <2>1 DEF Ordered
<1>8. CASE UNCHANGED vars
  <2>1. CASE status = "running"
    BY <1>2, <1>8, <2>1 DEF vars
  <2>2. CASE status # "running"
    BY <1>8, <2>2 DEF vars, Ordered
  <2> QED
    BY <2>1, <2>2
<1> QED
  BY <1>3, <1>4, <1>5, <1>6, <1>7, <1>8, Kinds

\* The entry is registered first.
LEMMA ForemostStep ==
  ASSUME EntryOrdinary, IInv, Shape, Entered, Walked, Foremost, [Next]_vars
  PROVE  Foremost'
<1>1. CASE name_resolve
  BY <1>1 DEF name_resolve, Foremost
<1>2. CASE status = "running" /\ (modules' = modules \/ modules' = Append(modules, Target))
  <2>1. Len(modules) \in Nat /\ modules # <<>> /\ modules[1] = Entry /\ modules \in Seq(Name)
    BY <1>2 DEF Foremost, IInv, TypeOK
  <2>2. Len(modules) > 0
    BY <2>1
  <2>3. modules' # <<>> /\ modules'[1] = modules[1]
    BY <1>2, <2>1, <2>2
  <2> QED
    BY <2>1, <2>3 DEF Foremost
<1>3. CASE Onward
  BY <1>2, <1>3, OnwardTells DEF Onward, AtImport, ImportRuntime, ImportKnown
<1>4. CASE ImportModule
  BY <1>2, <1>4 DEF ImportModule, Fresh, AtImport
<1>5. CASE ResolveBodies
  BY <1>2, <1>5 DEF ResolveBodies
<1>6. CASE Fail \/ Finish
  BY <1>6 DEF Fail, Finish, Outcome, Foremost
<1>7. CASE UNCHANGED vars
  BY <1>7 DEF vars, Foremost
<1> QED
  BY <1>1, <1>3, <1>4, <1>5, <1>6, <1>7, Kinds

\* A module is registered when the path enters it, behind those under it.
LEMMA InOrderStep ==
  ASSUME EntryOrdinary, IInv, Shape, Entered, Walked, InOrder, [Next]_vars
  PROVE  InOrder'
<1> DEFINE l == Len(stack) L == Len(modules)
<1>1. /\ l \in Nat /\ L \in Nat
      /\ \A k \in 1 .. l : stack[k].mod \in User
  <2>1. \A k \in 1 .. l : stack[k] \in Frames
    BY DEF IInv, TypeOK
  <2> QED
    BY <2>1 DEF Frames, IInv, TypeOK
<1>2. ASSUME status = "running", modules' = modules, Len(stack') \in Nat, Len(stack') <= l,
             \A k \in 1 .. Len(stack') : stack'[k].mod = stack[k].mod
      PROVE  InOrder'
  <2>1. \A k \in 1 .. Len(stack') : k \in 1 .. l
    BY <1>1, <1>2
  <2> HIDE DEF l, L
  <2> QED
    BY <1>2, <2>1 DEF InOrder, l
<1>3. CASE name_resolve
  <2>1. Len(stack') = 1 /\ Len(modules') = 1
    BY <1>3 DEF name_resolve
  <2> QED
    BY <2>1 DEF InOrder
<1>4. CASE Onward
  <2>1. /\ status = "running" /\ Len(stack') = l
        /\ \A k \in 1 .. l : stack'[k].mod = stack[k].mod
    BY <1>4, AdvancedPath DEF Onward, AtImport, IInv
  <2>2. CASE modules' = modules
    BY <1>1, <1>2, <2>1, <2>2
  <2>3. CASE modules' = Append(modules, Target) /\ IsRt(Target)
    <3>1. /\ Len(modules') = L + 1 /\ modules'[L + 1] = Target
          /\ \A k \in 1 .. L : modules'[k] = modules[k]
      BY <1>1, <2>3 DEF IInv, TypeOK
    <3> HIDE DEF l, L
    <3> SUFFICES ASSUME NEW a \in 1 .. l, NEW b \in 1 .. l, NEW i \in 1 .. L + 1, NEW j \in 1 .. L + 1,
                        stack[a].mod = modules'[i], stack[b].mod = modules'[j], i < j
                 PROVE  a < b
      BY <2>1, <3>1 DEF InOrder
    <3>2. j # L + 1
      BY <1>1, <2>3, <3>1 DEF User
    <3>3. i \in 1 .. L /\ j \in 1 .. L
      BY <1>1, <3>2
    <3> QED
      BY <2>1, <3>1, <3>3 DEF InOrder, l, L
  <2> QED
    BY <1>4, <2>2, <2>3, OnwardTells DEF ImportRuntime, ImportKnown
<1>5. CASE ImportModule
  <2>1. /\ status = "running" /\ modules' = Append(modules, Target) /\ ~ Known(Target)
    BY <1>5 DEF ImportModule, Fresh, AtImport
  <2>2. /\ Len(stack') = l + 1 /\ stack'[l + 1].mod = Target
        /\ \A k \in 1 .. l : stack'[k].mod = stack[k].mod
    BY <1>5, EnterModule
  <2>3. /\ Len(modules') = L + 1 /\ modules'[L + 1] = Target
        /\ \A k \in 1 .. L : modules'[k] = modules[k]
    BY <1>1, <2>1 DEF IInv, TypeOK
  <2>4. \A k \in 1 .. L : modules[k] # Target
    BY <2>1 DEF Known, Contains
  <2>5. \A k \in 1 .. l : stack[k].mod # Target
    <3> SUFFICES ASSUME NEW k \in 1 .. l, stack[k].mod = Target PROVE FALSE
      OBVIOUS
    <3>1. Held(stack[k].mod) /\ stack[k].mod \in Name
      BY <1>1 DEF Held, User
    <3>2. Listed(stack[k].mod)
      BY <2>1, <3>1 DEF IInv, Partition
    <3> QED
      BY <2>4, <3>2 DEF Listed
  <2> HIDE DEF l, L
  <2> SUFFICES ASSUME NEW a \in 1 .. l + 1, NEW b \in 1 .. l + 1,
                      NEW i \in 1 .. L + 1, NEW j \in 1 .. L + 1,
                      stack'[a].mod = modules'[i], stack'[b].mod = modules'[j], i < j
               PROVE  a < b
    BY <2>2, <2>3 DEF InOrder
  <2>6. i \in 1 .. L
    BY <1>1
  <2>7. a \in 1 .. l
    BY <1>1, <2>2, <2>3, <2>4, <2>6
  <2>8. CASE b = l + 1
    BY <1>1, <2>7, <2>8
  <2>9. CASE b # l + 1
    <3>1. b \in 1 .. l
      BY <1>1, <2>9
    <3>2. j \in 1 .. L
      BY <1>1, <2>2, <2>3, <2>5, <3>1
    <3> QED
      BY <2>1, <2>2, <2>3, <2>6, <2>7, <3>1, <3>2 DEF InOrder, l, L
  <2> QED
    BY <2>8, <2>9
<1>6. CASE ResolveBodies
  <2>1. /\ status = "running" /\ modules' = modules /\ Len(stack') = l - 1
        /\ \A k \in 1 .. l - 1 : stack'[k] = stack[k]
    BY <1>6, LeaveModule DEF ResolveBodies
  <2>2. l > 0
    BY <1>1, <1>6 DEF ResolveBodies, IInv, TypeOK
  <2> HIDE DEF l
  <2> QED
    BY <1>1, <1>2, <2>1, <2>2
<1>7. CASE Fail \/ Finish
  BY <1>7 DEF Fail, Finish, Outcome, InOrder
<1>8. CASE UNCHANGED vars
  BY <1>8 DEF vars, InOrder
<1> QED
  BY <1>3, <1>4, <1>5, <1>6, <1>7, <1>8, Kinds

-----------------------------------------------------------------------------
(* The end of name_resolve                                                 *)

\* The walk has come back from the entry module, and no allocation has failed.
Ended == status = "running" /\ stack = <<>> /\ ~ failed

\* A module that is registered is done, and all that can be reached is.
LEMMA AllDone ==
  ASSUME EntryOrdinary, IInv, Walked, Told, Foremost, Ended
  PROVE  /\ \A n \in Name : Listed(n) => IsRt(n) \/ Done(n)
         /\ \A n \in Reached : Done(n)
<1>1. \A n \in Name : Listed(n) => IsRt(n) \/ Done(n)
  BY DEF Ended, IInv, Partition, Held
<1> DEFINE T == {n \in User : Done(n)}
<1>2. Entry \in T
  <2>1. Len(modules) \in Nat /\ modules # <<>> /\ modules[1] = Entry /\ modules \in Seq(Name)
    BY DEF Ended, Foremost, IInv, TypeOK
  <2>2. Listed(Entry)
    BY <2>1 DEF Listed
  <2> QED
    BY <1>1, <2>2 DEF EntryOrdinary, User
<1>3. ASSUME NEW n \in Leads(T) PROVE n \in T
  <2>1. n \in User /\ n \in Name /\ ~ IsRt(n) /\ Loads(n)
    BY LeadsOrdinary DEF Leads, User
  <2>2. PICK m \in User : Done(m) /\ Contains(tree[m].imports, n)
    BY DEF Leads
  <2>3. PICK j \in 1 .. Len(tree[m].imports) : tree[m].imports[j] = n
    BY <2>2 DEF Contains
  <2>4. Past(m, j)
    BY <2>2 DEF Past
  <2>5. Joined(n, m)
    BY <2>3, <2>4 DEF Ended, Told
  <2> QED
    BY <1>1, <2>1, <2>5 DEF Joined
<1>4. Reached \subseteq T
  <2>1. T \in SUBSET User /\ {Entry} \subseteq T /\ {Entry} \in SUBSET User /\ Leads(T) \subseteq T
    BY <1>2, <1>3
  <2> HIDE DEF T
  <2> QED
    BY <2>1, ReachLeast DEF Reached
<1> QED
  BY <1>1, <1>4

\* All faults are told, and nothing else.
LEMMA FaultsTold ==
  ASSUME EntryOrdinary, IInv, Shape, Walked, Truthful, Told, Foremost, Ended
  PROVE  {<<r.code, r.mod, r.at>> : r \in {r \in ToSet(records) : r.code # "AIC-N0206"}} = Faults
<1> DEFINE Tellings == {<<r.code, r.mod, r.at>> : r \in {r \in ToSet(records) : r.code # "AIC-N0206"}}
<1>1. Tellings \subseteq Faults
  BY DEF Truthful, Meant, Ended
<1>2. ASSUME NEW c, NEW m, NEW at, Recorded(c, m, at), c # "AIC-N0206"
      PROVE  <<c, m, at>> \in Tellings
  BY <1>2 DEF Recorded
<1>3. \A n \in Reached : n \in User /\ Done(n) /\ tree[n].imports \in Seq(Name)
  <2>1. Reached \in SUBSET User /\ \A n \in Reached : Done(n)
    BY AllDone, Arrived
  <2> QED
    BY <2>1 DEF IInv, TypeOK, File
<1>4. ASSUME NEW m \in Reached, NEW j \in 1 .. Len(tree[m].imports), NEW n,
             n = tree[m].imports[j]
      PROVE  Blamed(n, m, j)
  BY <1>3, <1>4 DEF Past, Told, Ended
<1>5. \A n : ImportFault(n) # "AIC-N0206"
  BY DEF ImportFault
<1>6. \A n \in User : FileFault(n) # "AIC-N0206"
  <2> SUFFICES ASSUME NEW n \in User PROVE FileFault(n) # "AIC-N0206"
    OBVIOUS
  <2>1. tree[n].state \in States
    BY DEF IInv, TypeOK, File
  <2> QED
    BY <2>1 DEF FileFault, States
<1>7. ASSUME NEW c, NEW m, NEW at, <<c, m, at>> \in Faults
      PROVE  <<c, m, at>> \in Tellings
  <2>1. /\ c # "none"
        /\ \/ /\ m \in Reached /\ at \in DOMAIN tree[m].imports
              /\ c = ImportFault(tree[m].imports[at])
           \/ m \in Imported \cup {Entry} /\ at = 0 /\ c = FileFault(m)
    BY <1>7, FaultsRead
  <2>2. CASE m \in Reached /\ at \in DOMAIN tree[m].imports /\ c = ImportFault(tree[m].imports[at])
    <3>1. PICK n : n = tree[m].imports[at]
      OBVIOUS
    <3>2. at \in 1 .. Len(tree[m].imports)
      BY <1>3, <2>2
    <3>3. Blamed(n, m, at)
      BY <1>4, <2>2, <3>1, <3>2
    <3>4. Recorded(c, m, at) /\ c # "AIC-N0206"
      BY <1>5, <2>1, <2>2, <3>1, <3>3 DEF Blamed
    <3> QED
      BY <1>2, <3>4
  <2>3. CASE m \in Imported /\ at = 0 /\ c = FileFault(m)
    <3>1. PICK o \in Reached : m \in User /\ Contains(tree[o].imports, m)
      BY <2>3 DEF Imported
    <3>2. PICK j \in 1 .. Len(tree[o].imports) : tree[o].imports[j] = m
      BY <3>1 DEF Contains
    <3>3. Blamed(m, o, j)
      BY <1>4, <3>2
    <3>4. Recorded(c, m, at) /\ c # "AIC-N0206"
      BY <1>6, <2>1, <2>3, <3>1, <3>3 DEF Blamed
    <3> QED
      BY <1>2, <3>4
  <2>4. CASE m = Entry /\ at = 0 /\ c = FileFault(m)
    <3>1. Recorded(c, m, at) /\ c # "AIC-N0206"
      BY <1>6, <2>1, <2>4 DEF Told, Ended, EntryOrdinary
    <3> QED
      BY <1>2, <3>1
  <2> QED
    BY <2>1, <2>2, <2>3, <2>4
<1>8. \A f \in Faults : f = <<f[1], f[2], f[3]>>
  BY DEF Faults
<1>9. Faults \subseteq Tellings
  <2> SUFFICES ASSUME NEW f \in Faults PROVE f \in Tellings
    OBVIOUS
  <2>1. <<f[1], f[2], f[3]>> \in Faults
    BY <1>8
  <2>2. <<f[1], f[2], f[3]>> \in Tellings
    BY <1>7, <2>1
  <2> QED
    BY <1>8, <2>2
<1> QED
  BY <1>1, <1>9

\* Without a record of a cycle every import lies behind the importer, so there
\* is none.
LEMMA NoCycle ==
  ASSUME EntryOrdinary, IInv, Walked, Told, Foremost, Ended, ~ Circular
  PROVE  ~ Cyclic
<1> SUFFICES ASSUME NEW m \in Reached, m \in Reach(Leads({m})) PROVE FALSE
  BY DEF Cyclic
<1>1. /\ Reached \in SUBSET User /\ m \in User /\ m \in Name
      /\ \A n \in Reached : Done(n)
  BY AllDone, Arrived DEF User
<1>2. ASSUME NEW o \in User, Done(o), NEW n \in Leads({o})
      PROVE  n \in User /\ Behind(o, n)
  <2>1. n \in User /\ n \in Name /\ ~ IsRt(n) /\ Loads(n) /\ Contains(tree[o].imports, n)
    BY <1>2, LeadsOrdinary DEF Leads, User
  <2>2. PICK j \in 1 .. Len(tree[o].imports) : tree[o].imports[j] = n
    BY <2>1 DEF Contains
  <2>3. Past(o, j)
    BY <1>2 DEF Past
  <2>4. Joined(n, o)
    BY <2>2, <2>3 DEF Ended, Told
  <2>5. Edge(o, n)
    BY <2>1, <2>4 DEF Joined
  <2>6. ~ Led(o, n)
    BY DEF Led, Ended
  <2> QED
    BY <2>1, <2>5, <2>6 DEF IInv, Edges, Ended, User
<1> DEFINE T == {n \in User : Behind(m, n)}
<1>3. Leads({m}) \subseteq T
  BY <1>1, <1>2
<1>4. ASSUME NEW x \in Leads(T) PROVE x \in T
  <2>1. PICK n \in T : x \in Leads({n})
    BY DEF Leads
  <2>2. PICK j \in 1 .. Len(resolved) : resolved[j] = n /\ \A i \in 1 .. j : resolved[i] # m
    BY DEF Behind
  <2>3. x \in User /\ Behind(n, x)
    BY <1>2, <2>1, <2>2 DEF Done
  <2>4. PICK k \in 1 .. Len(resolved) : resolved[k] = x /\ \A i \in 1 .. k : resolved[i] # n
    BY <2>3 DEF Behind
  <2>5. Len(resolved) \in Nat
    BY DEF IInv, TypeOK
  <2>6. k < j
    BY <2>2, <2>4, <2>5
  <2>7. \A i \in 1 .. k : resolved[i] # m
    BY <2>2, <2>5, <2>6
  <2> QED
    BY <2>3, <2>4, <2>7 DEF Behind
<1>5. Reach(Leads({m})) \subseteq T
  <2>1. /\ T \in SUBSET User /\ Leads({m}) \subseteq T /\ Leads({m}) \in SUBSET User
        /\ Leads(T) \subseteq T
    BY <1>3, <1>4, LeadsOrdinary
  <2> HIDE DEF T
  <2> QED
    BY <2>1, ReachLeast
<1>6. Behind(m, m)
  BY <1>5
<1> QED
  <2>1. PICK j \in 1 .. Len(resolved) : resolved[j] = m /\ \A i \in 1 .. j : resolved[i] # m
    BY <1>6 DEF Behind
  <2>2. Len(resolved) \in Nat
    BY DEF IInv, TypeOK
  <2> QED
    BY <2>1, <2>2

\* With no record at all the module table is complete, in order and connected.
LEMMA QuietEnd ==
  ASSUME EntryOrdinary, IInv, Shape, Walked, Truthful, Told, Written, Foremost, Ordered,
         Ended, records = <<>>
  PROVE  /\ Faults = {} /\ ~ Cyclic /\ DepthFirst(modules)
         /\ \A m \in User : Known(m) => ToSet(imports[m]) = ToSet(tree[m].imports)
<1>1. ToSet(records) = {}
  BY DEF ToSet
<1>2. Faults = {}
  BY <1>1, FaultsTold
<1>3. ~ Cyclic
  BY <1>1, NoCycle DEF Circular
<1>4. DepthFirst(modules)
  <2>1. modules # <<>> /\ modules[1] = Entry /\ DOMAIN modules = 1 .. Len(modules)
    BY DEF Foremost, Ended, IInv, TypeOK
  <2>2. IsInjective(modules)
    BY <2>1 DEF IsInjective, IInv, Once
  <2>3. ASSUME NEW l \in DOMAIN modules PROVE Complete(modules, l, Len(modules))
    <3>1. modules[l] \in Name /\ Listed(modules[l])
      BY <2>1 DEF IInv, TypeOK, Listed
    <3>2. IsRt(modules[l]) \/ Done(modules[l])
      BY <3>1, AllDone
    <3> QED
      BY <2>1, <3>2, DoneComplete DEF Ended, IInv
  <2>4. \A k \in 1 .. Len(modules) - 1 : \E j \in 1 .. k :
          Leading(modules, j, k) /\ \A l \in j + 1 .. k : Complete(modules, l, k)
    BY DEF Ordered, Ended
  <2> QED
    BY <2>1, <2>2, <2>3, <2>4 DEF DepthFirst
<1>5. ASSUME NEW m \in User, Known(m)
      PROVE  ToSet(imports[m]) = ToSet(tree[m].imports)
  <2>1. /\ m \in Name /\ imports[m] \in Seq(Name) /\ tree[m].imports \in Seq(Name)
        /\ ~ IsRt(m)
    BY DEF IInv, TypeOK, File, User
  <2>2. /\ DOMAIN imports[m] = 1 .. Len(imports[m])
        /\ DOMAIN tree[m].imports = 1 .. Len(tree[m].imports)
    BY <2>1
  <2>3. Done(m)
    BY <1>5, <2>1, AllDone DEF Known, Contains, Listed
  <2>4. ASSUME NEW n \in ToSet(imports[m]) PROVE n \in ToSet(tree[m].imports)
    <3>1. Edge(m, n) /\ n \in Name
      BY <2>1, <2>2 DEF ToSet, Edge
    <3>2. Contains(tree[m].imports, n)
      BY <2>1, <3>1 DEF Written
    <3> QED
      BY <2>2, <3>2 DEF Contains, ToSet
  <2>5. ASSUME NEW n \in ToSet(tree[m].imports) PROVE n \in ToSet(imports[m])
    <3>1. PICK j \in 1 .. Len(tree[m].imports) : n = tree[m].imports[j]
      BY <2>2 DEF ToSet
    <3>2. Past(m, j)
      BY <2>3 DEF Past
    <3>3. Edge(m, n)
      BY <3>1, <3>2, SettledQuiet DEF Ended, IInv
    <3> QED
      BY <2>2, <3>3 DEF Edge, ToSet
  <2> QED
    BY <2>4, <2>5
<1> QED
  BY <1>2, <1>3, <1>4, <1>5

\* The records of cycles are real because all records are true.
LEMMA CyclesAreReal == Truthful => CyclesReal
<1> SUFFICES ASSUME Truthful, NEW r \in ToSet(records), r.code = "AIC-N0206"
             PROVE  LET ring == <<r.mod>> \o r.also \o <<r.mod>>
                    IN \/ /\ tree[r.mod].imports[r.at] = ring[2]
                          /\ \A k \in 1 .. Len(ring) - 1 : Contains(tree[ring[k]].imports, ring[k + 1])
                       \/ /\ failed
                          /\ \A m \in ToSet(ring) : m \in Reach({tree[r.mod].imports[r.at]})
  BY DEF CyclesReal
<1>1. Ring(r)
  BY DEF Truthful, Meant
<1> QED
  BY <1>1 DEF Ring, Closed, Within, Around

VInv == /\ Shape /\ Entered /\ Walked /\ Truthful /\ Told /\ Written
        /\ Foremost /\ InOrder /\ Ordered /\ Seen
        /\ status \notin {"start", "running", "unwound"} => VerdictExact

\* The invariant gives the verdict: before the end only its cycles are claimed.
LEMMA VerdictGiven ==
  ASSUME IInv, VInv
  PROVE  VerdictExact
<1>1. CASE status \notin {"start", "running", "unwound"}
  BY <1>1 DEF VInv
<1>2. CASE status \in {"start", "running", "unwound"}
  BY <1>2, CyclesAreReal DEF VInv, VerdictExact, RecordsExact, AcceptedExact, Returned
<1> QED
  BY <1>1, <1>2

\* What is handed out, or that nothing is.
LEMMA FinishVerdict ==
  ASSUME EntryOrdinary, IInv, VInv, CyclesReal', Finish
  PROVE  VerdictExact'
<1> USE DEF VInv
<1>1. /\ status \in {"running", "unwound"} /\ stack = <<>> /\ tree' = tree
      /\ status' = Outcome /\ oom' = oom /\ failed' = failed
  BY DEF Finish
<1>2. CASE Outcome = "NAME_OOM"
  BY <1>1, <1>2 DEF VerdictExact, RecordsExact, AcceptedExact, Returned
<1>3. CASE Outcome # "NAME_OOM"
  <2>1. UNCHANGED <<modules, imports, records, resolved>> /\ status = "running" /\ ~ oom
    BY <1>1, <1>3 DEF Finish, Outcome
  <2>2. Faults' = Faults /\ Cyclic' = Cyclic
    BY <1>1, FilesStay
  <2>3. ~ failed => Ended
    BY <1>1, <2>1 DEF Ended
  <2>4. RecordsExact'
    <3> SUFFICES ASSUME ~ failed
                 PROVE  /\ {<<r.code, r.mod, r.at>> :
                              r \in {r \in ToSet(records) : r.code # "AIC-N0206"}} = Faults
                        /\ Cyclic <=> \E r \in ToSet(records) : r.code = "AIC-N0206"
      BY <1>1, <2>1, <2>2 DEF RecordsExact
    <3>1. Circular => Cyclic
      BY DEF Truthful, Meant, Circular
    <3>2. ~ Circular => ~ Cyclic
      BY <2>3, NoCycle
    <3> QED
      BY <2>3, <3>1, <3>2, FaultsTold DEF Circular
  <2>5. AcceptedExact'
    <3> SUFFICES ASSUME status' = "NAME_OK"
                 PROVE  /\ ~ failed /\ Faults = {} /\ ~ Cyclic
                        /\ DepthFirst(modules)'
                        /\ \A m \in User : Known(m)' => ToSet(imports[m]) = ToSet(tree[m].imports)
      BY <1>1, <2>1, <2>2 DEF AcceptedExact
    <3>1. records = <<>>
      BY <1>1 DEF Outcome
    <3>2. ~ failed
      BY <2>1, <3>1 DEF Seen
    <3>3. /\ Faults = {} /\ ~ Cyclic /\ DepthFirst(modules)
          /\ \A m \in User : Known(m) => ToSet(imports[m]) = ToSet(tree[m].imports)
      BY <2>3, <3>1, <3>2, QuietEnd
    <3>4. DepthFirst(modules)'
      <4>1. \A x : ImportsOf(x)' = ImportsOf(x)
        BY <1>1 DEF ImportsOf
      <4>2. \A l, k : Complete(modules, l, k)' = Complete(modules, l, k)
        BY <2>1, <4>1 DEF Complete, Before
      <4>3. \A j, k : Leading(modules, j, k)' = Leading(modules, j, k)
        BY <2>1, <4>1 DEF Leading, Before
      <4> QED
        BY <2>1, <3>3, <4>2, <4>3 DEF DepthFirst
    <3>5. \A m : Known(m)' = Known(m)
      BY <2>1 DEF Known
    <3> QED
      BY <3>2, <3>3, <3>4, <3>5
  <2> QED
    BY <2>4, <2>5 DEF VerdictExact
<1> QED
  BY <1>2, <1>3

\* Nothing happens after the end.
LEMMA VerdictStep ==
  ASSUME EntryOrdinary, IInv, VInv, CyclesReal', [Next]_vars,
         status' \notin {"start", "running", "unwound"}
  PROVE  VerdictExact'
<1>1. CASE Finish
  BY <1>1, FinishVerdict
<1>2. CASE UNCHANGED vars
  <2>1. VerdictExact /\ tree' = tree
    BY <1>2 DEF VInv, vars
  <2>2. /\ Faults' = Faults /\ Cyclic' = Cyclic
    BY <2>1, FilesStay
  <2>3. \A x : ImportsOf(x)' = ImportsOf(x)
    BY <2>1 DEF ImportsOf
  <2>4. \A l, k : Complete(modules, l, k)' = Complete(modules, l, k)
    BY <1>2, <2>3 DEF Complete, Before, vars
  <2>5. \A j, k : Leading(modules, j, k)' = Leading(modules, j, k)
    BY <1>2, <2>3 DEF Leading, Before, vars
  <2>6. DepthFirst(modules)' = DepthFirst(modules)
    BY <1>2, <2>4, <2>5 DEF DepthFirst, vars
  <2> QED
    BY <1>2, <2>1, <2>2, <2>6 DEF VerdictExact, RecordsExact, AcceptedExact, Returned, Known, vars
<1>3. Onward => status' = "running"
  BY DEF Onward, AtImport
<1>4. ImportModule => status' = "running"
  BY DEF ImportModule, Fresh, AtImport
<1> QED
  BY <1>1, <1>2, <1>3, <1>4, Kinds DEF name_resolve, ResolveBodies, Fail

-----------------------------------------------------------------------------
LEMMA VerdictInit == EntryOrdinary /\ tree \in Trees /\ NameInit => VInv
<1> SUFFICES ASSUME EntryOrdinary, tree \in Trees, NameInit PROVE VInv
  OBVIOUS
<1>1. /\ modules = <<>> /\ imports = [n \in Name |-> <<>>] /\ stack = <<>> /\ resolved = <<>>
      /\ records = <<>> /\ oom = FALSE /\ failed = FALSE /\ status = "start"
  BY DEF NameInit
<1>2. Shape /\ Entered /\ Walked
  <2>1. Shape
    <3>1. records \in Seq(Records) /\ records = <<>> /\ status = "start"
      BY <1>1
    <3>2. failed \in BOOLEAN /\ oom \in BOOLEAN /\ ~ failed
      BY <1>1, Zenon
    <3> QED
      BY <3>1, <3>2 DEF Shape
  <2>2. Entered
    BY <1>1 DEF Entered
  <2>3. Walked
    BY <1>1 DEF Walked, Held, Done
  <2> QED
    BY <2>1, <2>2, <2>3
<1>3. Truthful /\ Written
  BY <1>1 DEF Truthful, ToSet, Written, Edge
<1> QED
  BY <1>1, <1>2, <1>3 DEF VInv, Told, Foremost, InOrder, Ordered, Seen

\* Every step keeps the account.
LEMMA VInvStep ==
  ASSUME EntryOrdinary, IInv, VInv, [Next]_vars, CyclesReal'
  PROVE  VInv'
<1>1. Shape' /\ Entered' /\ Walked' /\ Truthful' /\ Told' /\ Written'
  BY ShapeStep, EnteredStep, WalkedStep, TruthfulStep, ToldStep, WrittenStep DEF VInv
<1>2. Foremost' /\ InOrder' /\ Ordered' /\ Seen'
  BY ForemostStep, InOrderStep, OrderedStep, SeenStep DEF VInv
<1>3. status' \notin {"start", "running", "unwound"} => VerdictExact'
  BY VerdictStep
<1> QED
  BY <1>1, <1>2, <1>3 DEF VInv

\* The records of name_resolve are exactly the faults of the project, whatever it
\* looks like, and what it accepts is complete and in depth-first order; when
\* allocations fail, the records of cycles are still real and nothing is accepted.
THEOREM VerdictExactHolds == ASSUME EntryOrdinary PROVE Spec => []VerdictExact
<1>1. tree \in Trees /\ NameInit => VInv
  BY VerdictInit
<1>2. ASSUME IInv, VInv, [Next]_vars PROVE VInv'
  <2>1. Truthful'
    BY <1>2, TruthfulStep DEF VInv
  <2>2. CyclesReal'
    BY <2>1, CyclesAreReal, PTL
  <2> QED
    BY <1>2, <2>2, VInvStep
<1>3. IInv /\ VInv => VerdictExact
  BY VerdictGiven
<1> QED
  BY <1>1, <1>2, <1>3, Invariance, PTL DEF Spec
=============================================================================
