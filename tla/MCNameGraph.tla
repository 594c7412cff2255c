---------------------------- MODULE MCNameGraph ----------------------------
(* Projects of up to four modules for NameGraph.                           *)
EXTENDS NameGraph

main == <<"main">>
a    == <<"a">>
b    == <<"a", "b">>
c    == <<"c">>
rt   == <<"rt">>
mem  == <<"rt", "mem">>
net  == <<"rt", "net">>

UserNames == {main, a, b, c}

Lists(S, n) == UNION {[1 .. k -> S] : k \in 0 .. n}

Good(n, list) == [state |-> "ok", decl |-> n, imports |-> list]
Bad(state)    == [state |-> state, decl |-> c, imports |-> <<>>]
Named(n)      == [state |-> "ok", decl |-> n, imports |-> <<>>]
Absent        == Bad("absent")

Project(m, x, y, z) ==
  [n \in UserNames |-> IF n = main THEN m ELSE IF n = a THEN x ELSE IF n = b THEN y ELSE z]

\* Every graph of three modules, two with up to two imports and one with one.
Graphs == {Project(Good(main, l), Good(a, x), Good(b, y), Absent) :
             l, x \in Lists({main, a, b}, 2), y \in Lists({main, a, b}, 1)}

\* Paths that part and meet: four modules, three of them with one import.
Diamonds == {Project(Good(main, l), Good(a, x), Good(b, y), Good(c, z)) :
               l \in Lists({a, b, c}, 2), x, y \in Lists({main, a, b, c}, 1),
               z \in Lists({main, a, b}, 1)}

\* Files at fault, behind one another.
Faulty(n) == {Bad("absent"), Bad("load"), Bad("lex"), Bad("parse"), Named(c), Named(mem)}
             \cup {Good(n, l) : l \in Lists({main, a, b}, 1)}
Broken == {Project(Good(main, l), x, y, Absent) :
             l \in Lists({a, b}, 2), x \in Faulty(a), y \in Faulty(b)}

\* Reserved names, and an entry whose declaration is not what the manifest says.
Reserved == {Project([state |-> "ok", decl |-> d, imports |-> l], Good(a, x), Absent, Absent) :
               d \in {main, a, mem}, l \in Lists({a, rt, mem, net}, 2),
               x \in Lists({main, mem, net}, 1)}

MCInit ==
  /\ \/ tree \in Graphs \/ tree \in Diamonds \/ tree \in Broken \/ tree \in Reserved
  /\ NameInit
=============================================================================
