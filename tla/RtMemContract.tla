--------------------------- MODULE RtMemContract ---------------------------
(***************************************************************************)
(* What rt.mem promises a program (spec 15.1, 12.8): it owns disjoint      *)
(* aligned blocks of the sizes it asked for, zero at first, whose bytes    *)
(* nobody but its own copies and fills changes, until it releases them; a  *)
(* trap may end the process.  How blocks are found, what a released block  *)
(* holds and when an allocation fails is not said: an allocation that      *)
(* returns null is a stuttering step.                                      *)
(***************************************************************************)
EXTENDS Integers

CONSTANTS RegionAddr,  \* the addresses of the controlled region
          Alignment, Counts, Lengths, Byte, Zero

VARIABLES owned,    \* the blocks the program owns
          bytes,    \* what their bytes hold
          trapped   \* the process was ended by a release trap

Span(p, n) == p .. p + n - 1

Init == owned = {} /\ bytes = [a \in {} |-> Zero] /\ trapped = FALSE

Obtain(p, count) ==
  /\ ~ trapped
  /\ count > 0
  /\ p % Alignment = 0
  /\ Span(p, count) \subseteq RegionAddr
  /\ Span(p, count) \cap DOMAIN bytes = {}
  /\ owned' = owned \cup {[addr |-> p, size |-> count]}
  /\ bytes' = [a \in DOMAIN bytes \cup Span(p, count) |->
                 IF a \in Span(p, count) THEN Zero ELSE bytes[a]]
  /\ UNCHANGED trapped

GiveBack(b) ==
  /\ ~ trapped
  /\ owned' = owned \ {b}
  /\ bytes' = [a \in DOMAIN bytes \ Span(b.addr, b.size) |-> bytes[a]]
  /\ UNCHANGED trapped

\* A copy or a fill of count bytes at dst, as far as owned bytes are concerned.
Store(dst, count) ==
  /\ ~ trapped
  /\ bytes' \in [DOMAIN bytes -> Byte]
  /\ \A a \in DOMAIN bytes \ Span(dst, count) : bytes'[a] = bytes[a]
  /\ UNCHANGED <<owned, trapped>>

Trap ==
  /\ ~ trapped
  /\ trapped' = TRUE
  /\ UNCHANGED <<owned, bytes>>

Next == \/ \E p \in RegionAddr, count \in Counts : Obtain(p, count)
        \/ \E b \in owned : GiveBack(b)
        \/ \E dst \in RegionAddr, count \in Lengths : Store(dst, count)
        \/ Trap

Spec == Init /\ [][Next]_<<owned, bytes, trapped>>
=============================================================================
