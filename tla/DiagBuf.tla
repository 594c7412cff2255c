------------------------------ MODULE DiagBuf ------------------------------
(***************************************************************************)
(* The growing buffer of the diagnostics (bootstrap/src/diag/diag_emit.c): *)
(* buf_reserve and buf_append_n, with size_t arithmetic as wide as SizeMax *)
(* says.  The loop that doubles the capacity takes one step a turn.        *)
(***************************************************************************)
EXTENDS Integers

CONSTANTS SizeMax,     \* the largest size_t
          FirstCap,    \* 256: the capacity of the first block
          Lengths      \* lengths that are appended

ASSUME DiagBufAssumption ==
  /\ SizeMax \in Nat /\ FirstCap \in 1 .. SizeMax /\ Lengths \subseteq 0 .. SizeMax

VARIABLES len, cap, oom,   \* the DiagBuf; data is a block of cap bytes
          loop             \* the reservation under way, or Idle

bufVars == <<len, cap, oom, loop>>

Idle == [on |-> FALSE, extra |-> 0, need |-> 0, cap |-> 0]

\* size_t arithmetic: a result is off by one modulus at most.
Wrap(x) == IF x < 0 THEN x + SizeMax + 1
           ELSE IF x > SizeMax THEN x - (SizeMax + 1) ELSE x

BufInit == len = 0 /\ cap = 0 /\ oom = FALSE /\ loop = Idle

-----------------------------------------------------------------------------
Bug_TooLong(extra) == extra > Wrap(SizeMax - len)

\* The guard of buf_reserve against a sum that does not fit.
TooLong(extra) == extra > Wrap(Wrap(SizeMax - len) - 1)

Need(extra) == Wrap(Wrap(len + extra) + 1)

\* buf_append_n of extra bytes fails at once.
Refuse(extra) ==
  /\ ~ loop.on
  /\ oom \/ TooLong(extra)
  /\ oom' = TRUE
  /\ UNCHANGED <<len, cap, loop>>

Roomy(extra) == Need(extra) <= cap

\* There is room: copy, and write the terminator behind.
Write(extra) ==
  /\ ~ loop.on /\ ~ oom /\ ~ TooLong(extra) /\ Roomy(extra)
  /\ len' = Wrap(len + extra)
  /\ UNCHANGED <<cap, oom, loop>>

Grow(extra) ==
  /\ ~ loop.on /\ ~ oom /\ ~ TooLong(extra) /\ ~ Roomy(extra)
  /\ loop' = [on |-> TRUE, extra |-> extra, need |-> Need(extra),
              cap |-> IF cap # 0 THEN cap ELSE FirstCap]
  /\ UNCHANGED <<len, cap, oom>>

Bug_Double ==
  /\ loop.on /\ loop.cap < loop.need
  /\ loop' = [loop EXCEPT !.cap = Wrap(loop.cap * 2)]
  /\ UNCHANGED <<len, cap, oom>>

\* One turn of the loop; at the upper half the need itself is taken.
Double ==
  /\ loop.on /\ loop.cap < loop.need
  /\ loop' = [loop EXCEPT !.cap = IF loop.cap > SizeMax \div 2 THEN loop.need
                                  ELSE Wrap(loop.cap * 2)]
  /\ UNCHANGED <<len, cap, oom>>

\* realloc, then the copy.
Reallocate ==
  /\ loop.on /\ loop.cap >= loop.need
  /\ \/ cap' = loop.cap /\ len' = Wrap(len + loop.extra) /\ UNCHANGED oom
     \/ oom' = TRUE /\ UNCHANGED <<len, cap>>
  /\ loop' = Idle

\* diag_buf_free.
Free ==
  /\ ~ loop.on
  /\ len' = 0 /\ cap' = 0 /\ oom' = FALSE
  /\ UNCHANGED loop

BufNext == \/ \E extra \in Lengths : Refuse(extra) \/ Write(extra) \/ Grow(extra)
           \/ Double \/ Reallocate \/ Free

BufSpec == BufInit /\ [][BufNext]_bufVars /\ WF_bufVars(Double \/ Reallocate)

-----------------------------------------------------------------------------
(* Properties                                                              *)

Sizes == 0 .. SizeMax

\* The shape of the state.
BufTypeOK ==
  /\ len \in Sizes /\ cap \in Sizes /\ oom \in BOOLEAN
  /\ loop \in [on : BOOLEAN, extra : Sizes, need : Sizes, cap : Sizes]
  /\ loop.on => loop.cap # 0

\* The bytes and the terminator behind them lie in the block.
TerminatorInside == cap # 0 => len < cap

\* Nothing is ever lost: an append adds exactly its bytes, the block never
\* shrinks, and a reservation asks for room for all it will write.
AppendsWhole ==
  [][/\ len' # len /\ len' # 0 =>
          /\ len' < cap' /\ cap <= cap'
          /\ \E extra \in Lengths : len' = len + extra
     /\ loop'.on => loop'.need = len + loop'.extra + 1]_bufVars

\* The loop ends, however close the need is to the largest size_t.
LoopEnds == loop.on ~> ~ loop.on
=============================================================================
