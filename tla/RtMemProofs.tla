---------------------------- MODULE RtMemProofs ----------------------------
(***************************************************************************)
(* The safety of the allocator of RtMem, for every region size, alignment, *)
(* page size, registry capacity and program.                               *)
(*                                                                         *)
(* None of RtMem's safety invariants is inductive: that owned blocks are   *)
(* apart survives the reuse of a block only because the FREE entries and   *)
(* the reuse stack describe blocks that are apart from the owned ones too, *)
(* although the stack keeps blocks the registry has forgotten and the      *)
(* registry keeps blocks the stack had no room for.  IInv says how the two *)
(* and the bump pointer fit together.                                      *)
(***************************************************************************)
EXTENDS RtMem, FiniteSetTheorems, WellFoundedInduction, TLAPS

InUse(i) == s_registry[i].state # UNUSED

\* Block b is not empty and was carved from the region below the bump.
Carved(b) == /\ b.size > 0
             /\ Base <= b.addr
             /\ b.addr + b.size <= Base + s_region_used

\* The bump stays inside the committed pages, the pages inside the region.
BoundsOK == /\ s_region_used <= s_region_committed
            /\ s_region_committed <= RegionSize
            /\ s_region_used > 0 => s_region_base = Base

\* The blocks of the registry, owned or released, are carved and apart.
RegistryOK ==
  /\ \A i \in Slots : InUse(i) => Carved(s_registry[i])
  /\ \A i, j \in Slots :
       InUse(i) /\ InUse(j) /\ i # j => Apart(s_registry[i], s_registry[j])

\* b is block i of the registry, released, or shares no byte with it.
SameOrApart(b, i) ==
  \/ Apart(b, s_registry[i])
  \/ /\ s_registry[i].state = FREE
     /\ b.addr = s_registry[i].addr /\ b.size = s_registry[i].size

\* The blocks of a stack are carved, apart from each other, and each is a FREE
\* block of the registry or apart from everything in it.
Tracks(stack) ==
  /\ \A k \in DOMAIN stack : Carved(stack[k])
  /\ \A k, m \in DOMAIN stack : k # m => Apart(stack[k], stack[m])
  /\ \A k \in DOMAIN stack, i \in Slots : InUse(i) => SameOrApart(stack[k], i)
StackOK == Tracks(s_stack)

\* The history knows every FREE block, and no owned one.
ReleasedOK ==
  /\ \A b \in h_released : Carved(b)
  /\ \A i \in Slots : s_registry[i].state = FREE =>
       [addr |-> s_registry[i].addr, size |-> s_registry[i].size] \in h_released
  /\ \A i \in Slots, b \in h_released : IsLive(i) => b.addr # s_registry[i].addr

\* The inductive invariant.
IInv == /\ TypeOK /\ BoundsOK /\ RegistryOK /\ StackOK /\ ReleasedOK
        /\ CountsExact /\ TrapJustified

-----------------------------------------------------------------------------
(* Arithmetic of rt_mem_align_up                                           *)

LEMMA ModRange == ASSUME NEW x \in Nat, NEW a \in Nat \ {0}
                  PROVE  x % a \in 0 .. a - 1
  BY SMT

LEMMA DivMod == ASSUME NEW x \in Nat, NEW a \in Nat \ {0}
                PROVE  x \div a \in Nat /\ x = a * (x \div a) + (x % a)
  BY SMT

\* Rounding up yields a number that is not smaller.
LEMMA AlignUpGe ==
  ASSUME NEW v \in Nat, NEW a \in Nat \ {0}
  PROVE  rt_mem_align_up(v, a) \in Nat /\ v <= rt_mem_align_up(v, a)
<1> DEFINE x == v + (a - 1)
<1>1. x \in Nat
  OBVIOUS
<1>2. x % a \in 0 .. a - 1
  BY <1>1, ModRange
<1> QED
  BY <1>1, <1>2 DEF rt_mem_align_up

\* Rounding up does not pass a multiple: the pages a block needs are in the
\* region when the block is.
LEMMA AlignUpLe ==
  ASSUME NEW v \in Nat, NEW a \in Nat \ {0}, NEW r \in Nat, r % a = 0, v <= r
  PROVE  rt_mem_align_up(v, a) <= r
<1> DEFINE x == v + (a - 1)
           q == x \div a
           k == r \div a
<1>1. x \in Nat
  OBVIOUS
<1>2. q \in Nat /\ x = a * q + (x % a)
  BY <1>1, DivMod
<1>3. k \in Nat /\ r = a * k
  BY DivMod, ModRange
<1>4. x % a \in 0 .. a - 1
  BY <1>1, ModRange
<1>5. a * q \in Nat /\ a * k \in Nat
  BY <1>2, <1>3
<1>6. rt_mem_align_up(v, a) = a * q
  BY <1>2, <1>4, <1>5 DEF rt_mem_align_up
<1>7. CASE q <= k
  <2>1. a * q <= a * k
    BY <1>2, <1>3, <1>7
  <2> QED
    BY <2>1, <1>3, <1>6
<1>8. CASE q >= k + 1
  <2>1. a * q >= a * (k + 1)
    BY <1>2, <1>3, <1>8
  <2>2. a * (k + 1) = a * k + a
    BY <1>3
  <2>3. a * q <= r + a - 1
    BY <1>2, <1>4, <1>5
  <2> QED
    BY <2>1, <2>2, <2>3, <1>3, <1>5
<1> QED
  BY <1>2, <1>3, <1>7, <1>8

\* A scan over slots stops somewhere if anything is to be found.
LEMMA LeastNat ==
  ASSUME NEW T \in SUBSET Nat, T # {}
  PROVE  \E j \in T : \A k \in T : j <= k
<1>1. PICK j \in T : \A k \in T : ~ (<<k, j>> \in OpToRel(<, Nat))
  BY WFMin, NatLessThanWellFounded
<1>2. \A k \in T : ~ (k < j)
  BY <1>1 DEF OpToRel
<1> QED
  BY <1>2

-----------------------------------------------------------------------------
(* The reuse stack without one entry                                       *)

\* Its entries are entries of the stack, different ones at different places.
LEMMA ShiftedEntries ==
  ASSUME NEW s \in Seq(Freed), NEW i \in DOMAIN s
  PROVE  /\ Shifted(s, i) \in Seq(Freed) /\ Len(Shifted(s, i)) <= Len(s)
         /\ DOMAIN Shifted(s, i) = 1 .. Len(s) - 1
         /\ \A k \in 1 .. Len(s) - 1 :
              /\ (IF k < i THEN k ELSE k + 1) \in DOMAIN s
              /\ Shifted(s, i)[k] = s[IF k < i THEN k ELSE k + 1]
<1>1. Len(s) \in Nat /\ DOMAIN s = 1 .. Len(s) /\ \A k \in 1 .. Len(s) : s[k] \in Freed
  OBVIOUS
<1>2. Len(s) - 1 \in Nat
  BY <1>1
<1>3. \A k \in 1 .. Len(s) - 1 : (IF k < i THEN k ELSE k + 1) \in 1 .. Len(s)
  BY <1>1
<1>4. \A k \in 1 .. Len(s) - 1 :
        (IF k < i THEN s[k] ELSE s[k + 1]) = s[IF k < i THEN k ELSE k + 1]
  OBVIOUS
<1>5. Shifted(s, i) \in [1 .. Len(s) - 1 -> Freed]
  BY <1>1, <1>3, <1>4 DEF Shifted
<1>6. Shifted(s, i) \in Seq(Freed)
  BY <1>2, <1>5
<1> QED
  BY <1>1, <1>3, <1>4, <1>6 DEF Shifted

\* What Tracks says of the stack it says of the stack without an entry.
LEMMA ShiftedTracks ==
  ASSUME s_stack \in Seq(Freed), StackOK, NEW i \in DOMAIN s_stack
  PROVE  Tracks(Shifted(s_stack, i))
<1> DEFINE t == Shifted(s_stack, i)
           f(k) == IF k < i THEN k ELSE k + 1
<1>1. /\ DOMAIN t = 1 .. Len(s_stack) - 1
      /\ \A k \in DOMAIN t : f(k) \in DOMAIN s_stack /\ t[k] = s_stack[f(k)]
  BY ShiftedEntries
<1>2. i \in Int
  OBVIOUS
<1>3. \A k, m \in DOMAIN t : k # m => f(k) # f(m)
  BY <1>1, <1>2
<1> HIDE DEF t, f
<1>4. Tracks(t)
  BY <1>1, <1>3 DEF StackOK, Tracks
<1> QED
  BY <1>4 DEF t

\* Whether or not a refused entry was dropped.
LEMMA NoReuseTracks ==
  ASSUME s_stack \in Seq(Freed), StackOK, NEW count, NoReuse(count)
  PROVE  /\ s_stack' \in Seq(Freed) /\ Tracks(s_stack')
         /\ Len(s_stack') <= Len(s_stack)
<1>1. CASE UNCHANGED s_stack
  BY <1>1 DEF StackOK, Tracks
<1>2. CASE \E i \in DOMAIN s_stack : s_stack' = Shifted(s_stack, i)
  BY <1>2, ShiftedEntries, ShiftedTracks
<1> QED
  BY <1>1, <1>2 DEF NoReuse

-----------------------------------------------------------------------------
(* Steps that leave the blocks where they are                              *)

\* A step that changes no block keeps the invariant: it may drop an entry of
\* the stack, commit pages, write bytes and register the packages.
LEMMA QuietStep ==
  ASSUME IInv,
         UNCHANGED <<registryVars, s_region_used, h_released, processVars>>,
         s_region_base' \in {s_region_base, Base},
         s_region_committed' \in Nat,
         s_region_committed <= s_region_committed',
         s_region_committed' <= RegionSize,
         s_stack' \in Seq(Freed), Tracks(s_stack'), Len(s_stack') <= Len(s_stack),
         mem' \in [RegionAddr -> Byte],
         hooks' \in BOOLEAN, handler' \in BOOLEAN, ret' \in Nat
  PROVE  IInv'
<1> USE DEF IInv, registryVars, processVars
<1>0. Len(s_stack') <= Capacity
  <2>1. Len(s_stack) \in Nat /\ Len(s_stack') \in Nat /\ Len(s_stack) <= Capacity
    BY DEF TypeOK
  <2> QED
    BY <2>1, SizesAssumption
<1>1. TypeOK'
  BY <1>0 DEF TypeOK
<1>2. BoundsOK'
  BY SizesAssumption DEF BoundsOK, TypeOK
<1>3. RegistryOK'
  BY DEF RegistryOK, InUse, Carved, Apart
<1>4. StackOK'
  BY DEF StackOK, Tracks, InUse, Carved, Apart, SameOrApart
<1>5. ReleasedOK'
  BY DEF ReleasedOK, Carved, IsLive
<1>6. CountsExact'
  BY DEF CountsExact
<1>7. TrapJustified'
  BY DEF TrapJustified, IsLive
<1> QED
  BY <1>1, <1>2, <1>3, <1>4, <1>5, <1>6, <1>7

\* The pages a block needs lie in the region when the block does.
LEMMA NeedFits ==
  ASSUME TypeOK, NEW count \in Counts, Aligned + count <= RegionSize
  PROVE  /\ Aligned \in Nat /\ s_region_used <= Aligned
         /\ Need(count) \in Nat /\ Aligned + count <= Need(count)
         /\ Need(count) <= RegionSize
<1>1. Aligned \in Nat /\ s_region_used <= Aligned
  BY SizesAssumption, AlignUpGe DEF TypeOK, Aligned
<1>2. Aligned + count \in Nat
  BY <1>1, SizesAssumption
<1> QED
  BY <1>1, <1>2, SizesAssumption, GranularityAssumption, AlignUpGe, AlignUpLe
     DEF Need

\* rt_mem_region_commit keeps the committed bytes inside the region.
LEMMA CommitBounds ==
  ASSUME TypeOK, BoundsOK, NEW count \in Counts, Aligned + count <= RegionSize,
         Committed(Need(count))
  PROVE  /\ s_region_committed' \in Nat
         /\ s_region_committed <= s_region_committed'
         /\ s_region_committed' <= RegionSize
         /\ Aligned + count <= s_region_committed'
<1>1. Need(count) \in Nat /\ Aligned \in Nat /\ Aligned + count <= Need(count)
      /\ Need(count) <= RegionSize
  BY NeedFits
<1> QED
  BY <1>1, SizesAssumption DEF Committed, TypeOK, BoundsOK

\* The ways rt_mem_alloc_bytes returns NULL.
LEMMA FailedAllocStep ==
  ASSUME IInv, NEW count \in Counts,
         \/ AllocRefused(count)   \/ AllocNoRegion(count)
         \/ AllocExhausted(count) \/ AllocNoCommit(count)
         \/ AllocNoSlot(count)
  PROVE  IInv'
<1> USE DEF registryVars, regionVars, packageVars, processVars, Returns, NULL
<1>0. /\ TypeOK /\ BoundsOK /\ StackOK /\ s_stack \in Seq(Freed)
      /\ s_region_base \in {NULL, Base}
      /\ s_region_committed \in Nat /\ s_region_committed <= RegionSize
      /\ mem \in [RegionAddr -> Byte] /\ hooks \in BOOLEAN /\ handler \in BOOLEAN
  BY DEF IInv, TypeOK, BoundsOK
<1>1. CASE AllocRefused(count)
  <2>1. Tracks(s_stack')
    BY <1>0, <1>1 DEF AllocRefused, StackOK, Tracks
  <2> QED
    BY <1>0, <1>1, <2>1, QuietStep DEF AllocRefused
<1>2. CASE AllocNoRegion(count)
  <2>1. /\ s_stack' \in Seq(Freed) /\ Tracks(s_stack')
        /\ Len(s_stack') <= Len(s_stack)
    BY <1>0, <1>2, NoReuseTracks DEF AllocNoRegion
  <2> QED
    BY <1>0, <1>2, <2>1, QuietStep DEF AllocNoRegion
<1>3. CASE AllocExhausted(count)
  <2>1. /\ s_stack' \in Seq(Freed) /\ Tracks(s_stack')
        /\ Len(s_stack') <= Len(s_stack)
    BY <1>0, <1>3, NoReuseTracks DEF AllocExhausted
  <2> QED
    BY <1>0, <1>3, <2>1, QuietStep DEF AllocExhausted
<1>4. CASE AllocNoCommit(count)
  <2>1. /\ s_stack' \in Seq(Freed) /\ Tracks(s_stack')
        /\ Len(s_stack') <= Len(s_stack)
    BY <1>0, <1>4, NoReuseTracks DEF AllocNoCommit
  <2> QED
    BY <1>0, <1>4, <2>1, QuietStep DEF AllocNoCommit
<1>5. CASE AllocNoSlot(count)
  <2>1. /\ s_stack' \in Seq(Freed) /\ Tracks(s_stack')
        /\ Len(s_stack') <= Len(s_stack)
    BY <1>0, <1>5, NoReuseTracks DEF AllocNoSlot
  <2>2. /\ s_region_committed' \in Nat
        /\ s_region_committed <= s_region_committed'
        /\ s_region_committed' <= RegionSize
    BY <1>0, <1>5, CommitBounds DEF AllocNoSlot
  <2> QED
    BY <1>0, <1>5, <2>1, <2>2, QuietStep DEF AllocNoSlot
<1> QED
  BY <1>1, <1>2, <1>3, <1>4, <1>5

\* Copies, fills and registrations.
LEMMA ProgramStep ==
  ASSUME IInv,
         \/ \E dst \in RegionAddr, src \in RegionAddr, count \in Lengths :
              rt_mem_copy(dst, src, count)
         \/ \E dst \in RegionAddr, value \in Byte, count \in Lengths :
              rt_mem_fill(dst, value, count)
         \/ rt_mem_reuse_init \/ rt_mem_trap_init
  PROVE  IInv'
<1> USE DEF registryVars, regionVars, packageVars, processVars, Returns, NULL
<1>0. /\ TypeOK /\ BoundsOK /\ StackOK /\ s_stack \in Seq(Freed)
      /\ s_region_base \in {NULL, Base}
      /\ s_region_committed \in Nat /\ s_region_committed <= RegionSize
      /\ mem \in [RegionAddr -> Byte] /\ hooks \in BOOLEAN /\ handler \in BOOLEAN
  BY DEF IInv, TypeOK, BoundsOK
<1>1. ASSUME NEW dst \in RegionAddr, NEW src \in RegionAddr,
             NEW count \in Lengths, rt_mem_copy(dst, src, count)
      PROVE  IInv'
  <2>1. /\ UNCHANGED <<registryVars, regionVars, packageVars, processVars,
                       s_stack, h_released>>
        /\ ret' = NULL
    BY <1>1 DEF rt_mem_copy, Writes
  <2>2. ASSUME NEW a \in Span(dst, count)
        PROVE  src + (a - dst) \in RegionAddr
    <3>1. src + (a - dst) \in Span(src, count)
      BY <1>1, <2>2, SizesAssumption DEF Span, RegionAddr
    <3>2. src + (a - dst) \in Base .. Base + s_region_committed - 1
      BY <1>1, <3>1 DEF rt_mem_copy
    <3> QED
      BY <3>2, <1>0, SizesAssumption DEF RegionAddr
  <2>3. mem' \in [RegionAddr -> Byte]
    BY <1>0, <1>1, <2>2 DEF rt_mem_copy, Writes
  <2>4. Tracks(s_stack')
    BY <1>0, <2>1 DEF StackOK, Tracks
  <2> QED
    BY <1>0, <2>1, <2>3, <2>4, QuietStep
<1>2. ASSUME NEW dst \in RegionAddr, NEW value \in Byte, NEW count \in Lengths,
             rt_mem_fill(dst, value, count)
      PROVE  IInv'
  <2>1. /\ UNCHANGED <<registryVars, regionVars, packageVars, processVars,
                       s_stack, h_released>>
        /\ ret' = NULL
    BY <1>2 DEF rt_mem_fill, Writes
  <2>2. mem' \in [RegionAddr -> Byte]
    BY <1>0, <1>2 DEF rt_mem_fill, Writes
  <2>3. Tracks(s_stack')
    BY <1>0, <2>1 DEF StackOK, Tracks
  <2> QED
    BY <1>0, <2>1, <2>2, <2>3, QuietStep
<1>3. CASE rt_mem_reuse_init
  <2>1. Tracks(s_stack') /\ hooks' \in BOOLEAN
    BY <1>0, <1>3 DEF StackOK, Tracks, rt_mem_reuse_init
  <2> QED
    BY <1>0, <1>3, <2>1, QuietStep DEF rt_mem_reuse_init
<1>4. CASE rt_mem_trap_init
  <2>1. Tracks(s_stack') /\ handler' \in BOOLEAN
    BY <1>0, <1>4 DEF StackOK, Tracks, rt_mem_trap_init
  <2> QED
    BY <1>0, <1>4, <2>1, QuietStep DEF rt_mem_trap_init
<1> QED
  BY <1>1, <1>2, <1>3, <1>4

\* A release that changes no block: NULL, or a bad pointer with or without trap.
LEMMA IdleReleaseStep ==
  ASSUME IInv, NEW p \in Pointer,
         DeallocNull(p) \/ DeallocDouble(p) \/ DeallocInvalid(p)
  PROVE  IInv'
<1> USE DEF registryVars, regionVars, packageVars, processVars, Returns, NULL
<1>0. /\ TypeOK /\ BoundsOK /\ StackOK /\ RegistryOK /\ ReleasedOK
      /\ CountsExact /\ TrapJustified
  BY DEF IInv
<1>1. UNCHANGED <<registryVars, regionVars, packageVars, s_stack, mem, h_released>>
      /\ ret' = NULL
  BY DEF DeallocNull, DeallocDouble, DeallocInvalid, BadRelease
<1>2. /\ BoundsOK' /\ RegistryOK' /\ StackOK' /\ ReleasedOK' /\ CountsExact'
  BY <1>0, <1>1 DEF BoundsOK, RegistryOK, StackOK, Tracks, SameOrApart, ReleasedOK,
                    CountsExact, InUse, Carved, Apart, IsLive
<1>3. p \in Nat
  BY SizesAssumption DEF Pointer
<1>4. CASE UNCHANGED processVars
  <2>1. TypeOK'
    BY <1>0, <1>1, <1>4 DEF TypeOK
  <2>2. TrapJustified'
    BY <1>0, <1>1, <1>4 DEF TrapJustified, IsLive
  <2> QED
    BY <1>2, <2>1, <2>2 DEF IInv
<1>5. CASE DeallocDouble(p) /\ ~ UNCHANGED processVars
  <2>1. /\ exit_code' = TrapExit
        /\ stderr' \in {[code |-> "AIC-R0812", addr |-> p], NoRecord}
    BY <1>5 DEF DeallocDouble, BadRelease
  <2>2. PICK slot \in Slots : Hit(slot, p) /\ s_registry[slot].state = FREE
    BY <1>5 DEF DeallocDouble
  <2>3. \E b \in h_released : b.addr = p
    BY <1>0, <2>2 DEF ReleasedOK, Hit
  <2>4. ~ \E i \in Slots : IsLive(i) /\ s_registry[i].addr = p
    BY <1>0, <2>3 DEF ReleasedOK
  <2>5. TrapJustified'
    BY <1>1, <2>1, <2>3, <2>4 DEF TrapJustified, IsLive
  <2>6. TypeOK'
    BY <1>0, <1>1, <1>3, <2>1 DEF TypeOK, NoRecord
  <2> QED
    BY <1>2, <2>5, <2>6 DEF IInv
<1>6. CASE DeallocInvalid(p) /\ ~ UNCHANGED processVars
  <2>1. /\ exit_code' = TrapExit
        /\ stderr' \in {[code |-> "AIC-R0813", addr |-> p], NoRecord}
    BY <1>6 DEF DeallocInvalid, BadRelease
  <2>2. ~ \E i \in Slots : IsLive(i) /\ s_registry[i].addr = p
    <3> SUFFICES ASSUME NEW i \in Slots, IsLive(i), s_registry[i].addr = p
                 PROVE  FALSE
      OBVIOUS
    <3> DEFINE At == {j \in Slots : s_registry[j].addr = p /\ s_registry[j].state # UNUSED}
    <3>1. i \in At
      BY DEF IsLive, LIVE, UNUSED
    <3>2. At \in SUBSET Nat /\ At # {}
      BY <3>1 DEF Slots
    <3>3. PICK j \in At : \A k \in At : j <= k
      <4> HIDE DEF At
      <4> QED
        BY <3>2, LeastNat
    <3>4. j \in Slots /\ \A k \in 0 .. j - 1 : k \in Slots /\ k \notin At
      BY <3>2, <3>3, SizesAssumption DEF Slots
    <3>5. Hit(j, p)
      BY <3>3, <3>4 DEF Hit
    <3> QED
      BY <1>6, <3>4, <3>5 DEF DeallocInvalid
  <2>3. TrapJustified'
    BY <1>1, <2>1, <2>2 DEF TrapJustified, IsLive, NoRecord
  <2>4. TypeOK'
    BY <1>0, <1>1, <1>3, <2>1 DEF TypeOK, NoRecord
  <2> QED
    BY <1>2, <2>3, <2>4 DEF IInv
<1> QED
  BY <1>4, <1>5, <1>6 DEF DeallocNull

-----------------------------------------------------------------------------
(* Steps that hand out or take back a block                                *)

LiveSlots == {i \in Slots : s_registry[i].state = LIVE}
FreeSlots == {i \in Slots : s_registry[i].state = FREE}

LEMMA SlotsFinite == IsFiniteSet(LiveSlots) /\ IsFiniteSet(FreeSlots)
<1>1. IsFiniteSet(Slots)
  BY FS_Interval, SizesAssumption DEF Slots
<1>2. LiveSlots \in SUBSET Slots /\ FreeSlots \in SUBSET Slots
  BY DEF LiveSlots, FreeSlots
<1> QED
  BY <1>1, <1>2, FS_Subset

\* The counters follow when an owned block is released.
LEMMA CountRelease ==
  ASSUME CountsExact, s_registry \in [Slots -> Entry], NEW slot \in Slots,
         s_registry[slot].state = LIVE,
         s_registry' = [s_registry EXCEPT ![slot].state = FREE],
         s_live_count' = s_live_count - 1, s_free_count' = s_free_count + 1
  PROVE  CountsExact'
<1>1. LiveSlots' = LiveSlots \ {slot} /\ FreeSlots' = FreeSlots \cup {slot}
  BY DEF LiveSlots, FreeSlots, LIVE, FREE, Entry
<1>2. slot \in LiveSlots /\ slot \notin FreeSlots
  BY DEF LiveSlots, FreeSlots, LIVE, FREE
<1>3. /\ Cardinality(LiveSlots \ {slot}) = Cardinality(LiveSlots) - 1
      /\ Cardinality(FreeSlots \cup {slot}) = Cardinality(FreeSlots) + 1
  BY <1>2, SlotsFinite, FS_AddElement, FS_RemoveElement
<1> QED
  BY <1>1, <1>3 DEF CountsExact, LiveSlots, FreeSlots

\* ... and when a slot that is not LIVE becomes LIVE, FREE or UNUSED before.
LEMMA CountObtain ==
  ASSUME CountsExact, s_registry \in [Slots -> Entry], NEW slot \in Slots,
         s_registry[slot].state # LIVE,
         NEW e \in Entry, e.state = LIVE,
         s_registry' = [s_registry EXCEPT ![slot] = e],
         s_live_count' = s_live_count + 1,
         s_free_count' = IF s_registry[slot].state = FREE
                           THEN s_free_count - 1 ELSE s_free_count
  PROVE  CountsExact'
<1>1. LiveSlots' = LiveSlots \cup {slot} /\ FreeSlots' = FreeSlots \ {slot}
  BY DEF LiveSlots, FreeSlots, LIVE, FREE
<1>2. slot \notin LiveSlots /\ (slot \in FreeSlots <=> s_registry[slot].state = FREE)
  BY DEF LiveSlots, FreeSlots
<1>3. /\ Cardinality(LiveSlots \cup {slot}) = Cardinality(LiveSlots) + 1
      /\ Cardinality(FreeSlots \ {slot}) =
           IF slot \in FreeSlots THEN Cardinality(FreeSlots) - 1
                                 ELSE Cardinality(FreeSlots)
  BY <1>2, SlotsFinite, FS_AddElement, FS_RemoveElement
<1> QED
  BY <1>1, <1>2, <1>3 DEF CountsExact, LiveSlots, FreeSlots

\* No record has been written while the process runs, so a step that does not
\* write one keeps TrapJustified.
LEMMA NoTrapStep ==
  ASSUME TrapJustified, exit_code = Running, UNCHANGED processVars
  PROVE  TrapJustified'
  BY DEF TrapJustified, processVars, Running, TrapExit, NoRecord

LEMMA DeallocLiveStep ==
  ASSUME IInv, NEW p \in Pointer, DeallocLive(p)
  PROVE  IInv'
<1> USE DEF regionVars, packageVars, processVars, Returns, NULL
<1>0. /\ TypeOK /\ BoundsOK /\ StackOK /\ RegistryOK /\ ReleasedOK
      /\ CountsExact /\ TrapJustified
  BY DEF IInv
<1>1. PICK slot \in Slots :
        /\ Hit(slot, p) /\ s_registry[slot].state = LIVE
        /\ s_registry' = [s_registry EXCEPT ![slot].state = FREE]
        /\ \/ hooks /\ rt_mem_reuse_on_release(p, s_registry[slot].size)
           \/ ~ hooks /\ UNCHANGED <<mem, s_stack>>
        /\ h_released' = h_released \cup
                           {[addr |-> p, size |-> s_registry[slot].size]}
  BY DEF DeallocLive
<1>2. /\ UNCHANGED <<regionVars, packageVars, processVars>>
      /\ ret' = NULL /\ exit_code = Running
      /\ s_live_count' = s_live_count - 1 /\ s_free_count' = s_free_count + 1
  BY DEF DeallocLive
<1> DEFINE b == [addr |-> p, size |-> s_registry[slot].size]
<1>3. /\ s_registry \in [Slots -> Entry] /\ s_registry[slot].addr = p
      /\ b \in Freed /\ s_stack \in Seq(Freed) /\ p \in Nat
  BY <1>0, <1>1, SizesAssumption DEF TypeOK, Hit, Entry, Freed, Pointer
<1>4. \A i \in Slots : /\ s_registry'[i].addr = s_registry[i].addr
                       /\ s_registry'[i].size = s_registry[i].size
                       /\ s_registry'[i].state = IF i = slot THEN FREE
                                                 ELSE s_registry[i].state
  BY <1>1, <1>3 DEF Entry
<1>5. s_registry' \in [Slots -> Entry]
  BY <1>1, <1>3 DEF Entry
<1>6. \/ s_stack' = s_stack
      \/ s_stack' = Append(s_stack, b)
  BY <1>1 DEF rt_mem_reuse_on_release
<1>7. s_stack' \in Seq(Freed) /\ Len(s_stack') <= Capacity
  <2>1. /\ Len(s_stack) \in Nat /\ Len(s_stack) <= Capacity
        /\ s_stack' = s_stack \/ (Len(s_stack) < Capacity /\ s_stack' = Append(s_stack, b))
    BY <1>0, <1>1 DEF TypeOK, rt_mem_reuse_on_release
  <2> QED
    BY <1>3, <1>6, <2>1, SizesAssumption
<1>8. mem' \in [RegionAddr -> Byte]
  BY <1>0, <1>1, ByteAssumption DEF TypeOK, rt_mem_reuse_on_release, Filled
<1>9. TypeOK'
  BY <1>0, <1>1, <1>2, <1>3, <1>5, <1>7, <1>8 DEF TypeOK
<1>10. BoundsOK'
  BY <1>0, <1>2 DEF BoundsOK
<1>11. InUse(slot) /\ \A i \in Slots : InUse(i)' <=> InUse(i)
  BY <1>1, <1>4 DEF InUse, LIVE, FREE, UNUSED
<1>12. RegistryOK'
  BY <1>0, <1>2, <1>4, <1>11 DEF RegistryOK, Carved, Apart
\* A stack entry with the bytes of this block would need it to be FREE already.
<1>13. \A k \in DOMAIN s_stack : Apart(s_stack[k], b)
  BY <1>0, <1>1, <1>3, <1>11 DEF StackOK, Tracks, SameOrApart, Apart, LIVE, FREE
<1>14. /\ Carved(b)
       /\ \A i \in Slots : InUse(i) /\ i # slot => Apart(b, s_registry[i])
  BY <1>0, <1>3, <1>11 DEF RegistryOK, Carved, Apart
<1>15. StackOK'
  <2> DEFINE Good(c) ==
        /\ Carved(c)
        /\ \A i \in Slots : InUse(i) =>
             \/ Apart(c, s_registry[i])
             \/ /\ s_registry'[i].state = FREE
                /\ c.addr = s_registry[i].addr /\ c.size = s_registry[i].size
  <2>1. \A k \in DOMAIN s_stack : Good(s_stack[k])
    BY <1>0, <1>4 DEF StackOK, Tracks, SameOrApart
  <2>2. Good(b)
    BY <1>3, <1>4, <1>14
  <2>3. \A k \in DOMAIN s_stack' : s_stack'[k] = b \/
                                  (k \in DOMAIN s_stack /\ s_stack'[k] = s_stack[k])
    BY <1>3, <1>6
  <2>4. \A k \in DOMAIN s_stack' : Good(s_stack'[k])
    <3> HIDE DEF Good, b
    <3> QED
      BY <2>1, <2>2, <2>3
  <2>5. \A k, m \in DOMAIN s_stack' : k # m => Apart(s_stack'[k], s_stack'[m])
    <3>1. \A k, m \in DOMAIN s_stack : k # m => Apart(s_stack[k], s_stack[m])
      BY <1>0 DEF StackOK, Tracks
    <3>2. CASE s_stack' = s_stack
      BY <3>1, <3>2
    <3>3. CASE s_stack' = Append(s_stack, b)
      <4>1. \A k, m \in DOMAIN s_stack' : k # m =>
              \/ /\ k \in DOMAIN s_stack /\ s_stack'[k] = s_stack[k]
                 /\ m \in DOMAIN s_stack /\ s_stack'[m] = s_stack[m]
              \/ /\ k \in DOMAIN s_stack /\ s_stack'[k] = s_stack[k]
                 /\ s_stack'[m] = b
              \/ /\ m \in DOMAIN s_stack /\ s_stack'[m] = s_stack[m]
                 /\ s_stack'[k] = b
        BY <1>3, <3>3
      <4>2. \A k \in DOMAIN s_stack : Apart(b, s_stack[k])
        BY <1>13 DEF Apart
      <4> HIDE DEF b
      <4> QED
        BY <1>13, <3>1, <4>1, <4>2
    <3> QED
      BY <1>6, <3>2, <3>3
  <2>6. ASSUME NEW k \in DOMAIN s_stack'
        PROVE  /\ Carved(s_stack[k])'
               /\ \A i \in Slots : InUse(i)' => SameOrApart(s_stack[k], i)'
    BY <1>2, <1>4, <1>11, <2>4 DEF Carved, SameOrApart, Apart
  <2> QED
    BY <2>5, <2>6 DEF StackOK, Tracks, Apart
<1>16. ReleasedOK'
  <2>1. \A c \in h_released' : Carved(c)'
    BY <1>0, <1>1, <1>2, <1>14 DEF ReleasedOK, Carved
  <2>2. \A i \in Slots : s_registry'[i].state = FREE =>
          [addr |-> s_registry'[i].addr, size |-> s_registry'[i].size] \in h_released'
    BY <1>0, <1>1, <1>3, <1>4 DEF ReleasedOK
  <2>3. ASSUME NEW i \in Slots, NEW c \in h_released', s_registry'[i].state = LIVE
        PROVE  c.addr # s_registry'[i].addr
    <3>1. i # slot /\ s_registry[i].state = LIVE
      BY <1>4, <2>3 DEF LIVE, FREE
    <3>2. CASE c \in h_released
      BY <1>0, <1>4, <3>1, <3>2 DEF ReleasedOK, IsLive
    <3>3. CASE c = b
      <4>1. InUse(i) /\ s_registry[i] \in Entry
        BY <1>3, <3>1 DEF InUse, LIVE, UNUSED
      <4>2. Apart(b, s_registry[i]) /\ s_registry[i].size > 0 /\ b.size > 0
        BY <1>0, <1>14, <3>1, <4>1 DEF RegistryOK, Carved
      <4>3. b.addr # s_registry[i].addr
        <5> HIDE DEF b
        <5> QED
          BY <1>3, <4>1, <4>2 DEF Apart, Entry, Freed
      <4> QED
        BY <1>4, <3>3, <4>3
    <3> QED
      BY <1>1, <3>2, <3>3
  <2> QED
    BY <2>1, <2>2, <2>3 DEF ReleasedOK, IsLive
<1>17. CountsExact'
  BY <1>0, <1>1, <1>2, <1>3, CountRelease
<1>18. TrapJustified'
  BY <1>0, <1>2, NoTrapStep
<1> QED
  BY <1>9, <1>10, <1>12, <1>15, <1>16, <1>17, <1>18 DEF IInv

LEMMA AllocReusedStep ==
  ASSUME IInv, NEW count \in Counts, AllocReused(count)
  PROVE  IInv'
<1> USE DEF regionVars, packageVars, processVars, Returns
<1>0. /\ TypeOK /\ BoundsOK /\ StackOK /\ RegistryOK /\ ReleasedOK
      /\ CountsExact /\ TrapJustified
  BY DEF IInv
<1>1. PICK n \in DOMAIN s_stack, slot \in Slots :
        /\ Activated(slot, s_stack[n].addr, count)
        /\ s_stack' = Shifted(s_stack, n)
        /\ s_registry' = [s_registry EXCEPT ![slot].state = LIVE]
        /\ mem' = [a \in RegionAddr |->
                     IF a \in Span(s_stack[n].addr, count) THEN Zero ELSE mem[a]]
        /\ ret' = s_stack[n].addr /\ exit_code = Running
        /\ h_released' = {b \in h_released : b.addr # s_stack[n].addr}
  BY DEF AllocReused, Filled
<1>2. /\ UNCHANGED <<regionVars, packageVars, processVars>>
      /\ s_live_count' = s_live_count + 1 /\ s_free_count' = s_free_count - 1
  BY DEF AllocReused
<1> DEFINE p == s_stack[n].addr
<1>3. /\ s_registry \in [Slots -> Entry] /\ s_stack \in Seq(Freed)
      /\ s_stack[n] \in Freed /\ s_registry[slot].state = FREE
      /\ s_registry[slot].addr = p
  BY <1>0, <1>1 DEF TypeOK, Activated
<1>4. \A i \in Slots : /\ s_registry'[i].addr = s_registry[i].addr
                       /\ s_registry'[i].size = s_registry[i].size
                       /\ s_registry'[i].state = IF i = slot THEN LIVE
                                                 ELSE s_registry[i].state
  BY <1>1, <1>3 DEF Entry
<1>5. s_registry' \in [Slots -> Entry]
  BY <1>1, <1>3 DEF Entry
<1>6. /\ s_stack' \in Seq(Freed)
      /\ DOMAIN s_stack' = 1 .. Len(s_stack) - 1
      /\ \A k \in DOMAIN s_stack' :
           \E m \in DOMAIN s_stack : m # n /\ s_stack'[k] = s_stack[m]
  <2> DEFINE f(k) == IF k < n THEN k ELSE k + 1
  <2>1. /\ s_stack' \in Seq(Freed)
        /\ DOMAIN s_stack' = 1 .. Len(s_stack) - 1
        /\ \A k \in DOMAIN s_stack' :
             f(k) \in DOMAIN s_stack /\ s_stack'[k] = s_stack[f(k)]
    BY <1>1, <1>3, ShiftedEntries
  <2>2. \A k \in DOMAIN s_stack' : f(k) # n
    BY <1>3, <2>1
  <2> HIDE DEF f
  <2> QED
    BY <2>1, <2>2
<1>7. TypeOK'
  <2>1. mem' \in [RegionAddr -> Byte]
    BY <1>0, <1>1, ByteAssumption DEF TypeOK
  <2>2. h_released' \subseteq Freed /\ ret' \in Nat
    BY <1>0, <1>1, <1>3 DEF TypeOK, Freed
  <2>3. Len(s_stack') <= Capacity
    <3>1. /\ Len(s_stack) \in Nat /\ Len(s_stack') \in Nat
          /\ Len(s_stack) <= Capacity /\ Len(s_stack') <= Len(s_stack)
      BY <1>0, <1>1, <1>3, ShiftedEntries DEF TypeOK
    <3> QED
      BY <3>1, SizesAssumption
  <2> QED
    BY <1>0, <1>2, <1>5, <1>6, <2>1, <2>2, <2>3 DEF TypeOK
<1>8. BoundsOK'
  BY <1>0, <1>2 DEF BoundsOK
<1>9. InUse(slot) /\ \A i \in Slots : InUse(i)' <=> InUse(i)
  BY <1>3, <1>4 DEF InUse, LIVE, FREE, UNUSED
<1>10. RegistryOK'
  BY <1>0, <1>2, <1>4, <1>9 DEF RegistryOK, Carved, Apart
\* The popped entry is the slot's block: two non-empty blocks at one address
\* are not apart.  So every other entry of the stack is apart from the slot's.
<1>11. s_stack[n].size = s_registry[slot].size /\ s_registry[slot].size > 0
  <2>1. SameOrApart(s_stack[n], slot) /\ s_stack[n].size > 0
    BY <1>0, <1>9 DEF StackOK, Tracks, Carved
  <2>2. s_registry[slot].size > 0
    BY <1>0, <1>9 DEF RegistryOK, Carved
  <2>3. s_stack[n].addr \in Nat /\ s_stack[n].size \in Nat /\ s_registry[slot].size \in Nat
    BY <1>3 DEF Entry, Freed
  <2> QED
    BY <1>3, <2>1, <2>2, <2>3 DEF SameOrApart, Apart
<1>12. \A m \in DOMAIN s_stack : m # n => Apart(s_stack[m], s_registry[slot])
  BY <1>0, <1>3, <1>11 DEF StackOK, Tracks, Apart
<1>13. StackOK'
  <2>1. Tracks(s_stack')
    BY <1>0, <1>1, <1>3, ShiftedTracks
  <2>2. ASSUME NEW k \in DOMAIN s_stack', NEW i \in Slots, InUse(i)
        PROVE  SameOrApart(s_stack[k], i)'
    <3>1. SameOrApart(s_stack'[k], i)
      BY <2>1, <2>2 DEF Tracks
    <3>2. PICK m \in DOMAIN s_stack : m # n /\ s_stack'[k] = s_stack[m]
      BY <1>6
    <3>3. i = slot => Apart(s_stack'[k], s_registry[i])
      BY <1>12, <3>2
    <3> QED
      BY <1>4, <3>1, <3>3 DEF SameOrApart, Apart
  <2> QED
    BY <1>2, <1>9, <2>1, <2>2 DEF StackOK, Tracks, Carved, Apart
<1>14. ReleasedOK'
  <2>1. ASSUME NEW i \in Slots, s_registry'[i].state = FREE
        PROVE  [addr |-> s_registry'[i].addr, size |-> s_registry'[i].size]
                 \in h_released'
    <3>1. i # slot /\ s_registry[i].state = FREE
      BY <1>4, <2>1 DEF LIVE, FREE
    <3>2. s_registry[i].addr # p
      BY <1>0, <1>3, <1>9, <3>1, SizesAssumption
         DEF RegistryOK, Carved, Apart, InUse, FREE, UNUSED, Entry
    <3> QED
      BY <1>0, <1>1, <1>4, <3>1, <3>2 DEF ReleasedOK
  <2>2. \A i \in Slots, c \in h_released' :
          s_registry'[i].state = LIVE => c.addr # s_registry'[i].addr
    BY <1>0, <1>1, <1>3, <1>4 DEF ReleasedOK, IsLive
  <2>3. \A c \in h_released' : Carved(c)'
    BY <1>0, <1>1, <1>2 DEF ReleasedOK, Carved
  <2> QED
    BY <2>1, <2>2, <2>3 DEF ReleasedOK, IsLive
<1>15. CountsExact'
  <2> DEFINE e == [s_registry[slot] EXCEPT !.state = LIVE]
  <2>1. e \in Entry /\ e.state = LIVE /\ s_registry' = [s_registry EXCEPT ![slot] = e]
    BY <1>1, <1>3 DEF Entry
  <2>2. s_registry[slot].state # LIVE
    BY <1>3 DEF LIVE, FREE
  <2> HIDE DEF e
  <2> QED
    BY <1>0, <1>2, <1>3, <2>1, <2>2, CountObtain
<1>16. TrapJustified'
  BY <1>0, <1>1, <1>2, NoTrapStep
<1> QED
  BY <1>7, <1>8, <1>10, <1>13, <1>14, <1>15, <1>16 DEF IInv

LEMMA AllocFreshStep ==
  ASSUME IInv, NEW count \in Counts, AllocFresh(count)
  PROVE  IInv'
<1> USE DEF packageVars, processVars, Returns
<1>0. /\ TypeOK /\ BoundsOK /\ StackOK /\ RegistryOK /\ ReleasedOK
      /\ CountsExact /\ TrapJustified
  BY DEF IInv
<1> DEFINE e == [addr |-> Base + Aligned, size |-> count, state |-> LIVE]
<1>1. PICK slot \in Slots :
        /\ s_registry[slot].state # LIVE
        /\ s_free_count' = IF s_registry[slot].state = FREE
                             THEN s_free_count - 1 ELSE s_free_count
        /\ s_registry' = [s_registry EXCEPT ![slot] = e]
  BY DEF AllocFresh, FirstNotLive, Recycled
<1>2. /\ NoReuse(count) /\ s_region_base' = Base
      /\ Aligned + count <= RegionSize /\ Committed(Need(count))
      /\ s_live_count' = s_live_count + 1
      /\ s_region_used' = Aligned + count
      /\ ret' = Base + Aligned /\ exit_code = Running
      /\ UNCHANGED <<packageVars, processVars, mem, h_released>>
      /\ count # 0
  BY DEF AllocFresh, Possible, Bump
<1>3. /\ Aligned \in Nat /\ s_region_used <= Aligned /\ count \in Nat
      /\ s_region_committed' \in Nat
      /\ s_region_committed' <= RegionSize
      /\ Aligned + count <= s_region_committed'
  BY <1>0, <1>2, NeedFits, CommitBounds, SizesAssumption
<1>4. /\ s_registry \in [Slots -> Entry] /\ s_region_used \in Nat
      /\ s_stack' \in Seq(Freed) /\ Tracks(s_stack')
      /\ Len(s_stack') <= Capacity
  BY <1>0, <1>2, NoReuseTracks, SizesAssumption DEF TypeOK
<1>5. e \in Entry /\ s_registry' \in [Slots -> Entry]
  BY <1>1, <1>3, <1>4, SizesAssumption DEF Entry
<1>6. \A i \in Slots : s_registry'[i] = IF i = slot THEN e ELSE s_registry[i]
  BY <1>1, <1>4
\* Whatever was carved before the step ends where the new block starts at most.
<1>7. /\ e.size > 0 /\ Base <= e.addr /\ e.addr + e.size <= Base + s_region_used'
      /\ e.addr \in Nat /\ e.size \in Nat /\ s_region_used <= s_region_used'
      /\ s_region_used' \in Nat /\ Base + s_region_used <= e.addr
  BY <1>2, <1>3, <1>4, SizesAssumption DEF Carved
<1> HIDE DEF e
<1>8. TypeOK'
  <2>1. s_region_used' \in Nat /\ ret' \in Nat
    BY <1>2, <1>3, SizesAssumption
  <2>2. s_free_count' \in Int /\ s_live_count' \in Int
    BY <1>0, <1>1, <1>2 DEF TypeOK
  <2> QED
    BY <1>0, <1>2, <1>3, <1>4, <1>5, <2>1, <2>2 DEF TypeOK
<1>9. BoundsOK'
  BY <1>2, <1>3 DEF BoundsOK
<1>10. RegistryOK'
  <2>1. ASSUME NEW i \in Slots, i # slot, InUse(i)
        PROVE  /\ s_registry'[i] = s_registry[i]
               /\ s_registry[i].addr \in Nat /\ s_registry[i].size \in Nat
               /\ s_registry[i].size > 0 /\ Base <= s_registry[i].addr
               /\ s_registry[i].addr + s_registry[i].size <= e.addr
               /\ s_registry[i].addr + s_registry[i].size <= Base + s_region_used'
    <3>1. Carved(s_registry[i]) /\ s_registry[i] \in Entry
      BY <1>0, <1>4, <2>1 DEF RegistryOK
    <3> QED
      BY <1>4, <1>6, <1>7, <2>1, <3>1, SizesAssumption, SMTT(40) DEF Carved, Entry
  <2>2. \A i \in Slots : InUse(i)' => Carved(s_registry[i])'
    BY <1>6, <1>7, <2>1 DEF Carved, InUse
  <2>3. \A i, j \in Slots : InUse(i)' /\ InUse(j)' /\ i # j =>
          Apart(s_registry'[i], s_registry'[j])
    <3>1. \A i, j \in Slots : i # slot /\ j # slot /\ InUse(i) /\ InUse(j) /\ i # j =>
            Apart(s_registry[i], s_registry[j])
      BY <1>0 DEF RegistryOK
    <3>2. \A i \in Slots : i # slot /\ InUse(i) =>
            Apart(s_registry[i], e) /\ Apart(e, s_registry[i])
      BY <2>1 DEF Apart
    <3> QED
      BY <1>6, <3>1, <3>2 DEF InUse
  <2> QED
    BY <2>2, <2>3 DEF RegistryOK, Apart
<1>11. StackOK'
  <2>1. ASSUME NEW k \in DOMAIN s_stack'
        PROVE  /\ Carved(s_stack[k])'
               /\ Apart(s_stack'[k], e)
    <3>1. Carved(s_stack'[k]) /\ s_stack'[k] \in Freed
      BY <1>4 DEF Tracks
    <3> QED
      BY <1>4, <1>7, <3>1, SizesAssumption, SMTT(40) DEF Carved, Freed, Apart
  <2>2. ASSUME NEW k \in DOMAIN s_stack', NEW i \in Slots, InUse(i)'
        PROVE  SameOrApart(s_stack[k], i)'
    <3>1. CASE i = slot
      BY <1>6, <2>1, <3>1 DEF SameOrApart, Apart
    <3>2. CASE i # slot
      BY <1>4, <1>6, <2>2, <3>2 DEF Tracks, SameOrApart, Apart, InUse
    <3> QED
      BY <3>1, <3>2
  <2> QED
    BY <1>4, <2>1, <2>2 DEF StackOK, Tracks, Apart
<1>12. ReleasedOK'
  <2>1. \A c \in h_released' : Carved(c)' /\ c.addr # e.addr
    <3> SUFFICES ASSUME NEW c \in h_released
                 PROVE  /\ c.size > 0 /\ Base <= c.addr
                        /\ c.addr + c.size <= Base + s_region_used'
                        /\ c.addr # e.addr
      BY <1>2 DEF Carved
    <3>1. Carved(c) /\ c \in Freed
      BY <1>0 DEF ReleasedOK, TypeOK
    <3> QED
      BY <1>4, <1>7, <3>1, SizesAssumption DEF Carved, Freed
  <2>2. e.state = LIVE
    BY DEF e
  <2> QED
    BY <1>0, <1>2, <1>6, <2>1, <2>2 DEF ReleasedOK, IsLive, LIVE, FREE
<1>13. CountsExact'
  BY <1>0, <1>1, <1>2, <1>4, <1>5, CountObtain DEF e
<1>14. TrapJustified'
  BY <1>0, <1>2, NoTrapStep
<1> QED
  BY <1>8, <1>9, <1>10, <1>11, <1>12, <1>13, <1>14 DEF IInv

-----------------------------------------------------------------------------
(* The invariant, and what it gives                                        *)

LEMMA InitIInv == Init => IInv
<1> SUFFICES ASSUME Init PROVE IInv
  OBVIOUS
<1>1. TypeOK
  <2>1. /\ s_registry \in [Slots -> Entry] /\ mem \in [RegionAddr -> Byte]
        /\ stderr \in [code : {"none", "AIC-R0812", "AIC-R0813"}, addr : Nat]
    BY ByteAssumption DEF Init, Entry, NoEntry, NULL, NoRecord
  <2>2. s_stack \in Seq(Freed) /\ Len(s_stack) <= Capacity
    BY SizesAssumption DEF Init
  <2>3. /\ s_live_count \in Int /\ s_free_count \in Int
        /\ s_region_base \in {NULL, Base}
        /\ s_region_used \in Nat /\ s_region_committed \in Nat
        /\ ret \in Nat /\ exit_code \in {Running, TrapExit}
        /\ h_released \subseteq Freed
    BY DEF Init, NULL
  <2>4. hooks \in BOOLEAN /\ handler \in BOOLEAN
    BY DEF Init
  <2> QED
    BY <2>1, <2>2, <2>3, <2>4 DEF TypeOK
<1>2. BoundsOK /\ RegistryOK /\ StackOK /\ ReleasedOK /\ TrapJustified
  BY SizesAssumption DEF Init, BoundsOK, RegistryOK, StackOK, Tracks, ReleasedOK,
     TrapJustified, InUse, NoEntry, FREE, UNUSED, LIVE, IsLive
<1>3. CountsExact
  <2>1. LiveSlots = {} /\ FreeSlots = {}
    BY DEF Init, LiveSlots, FreeSlots, NoEntry, LIVE, FREE, UNUSED
  <2> QED
    BY <2>1, FS_EmptySet DEF Init, CountsExact, LiveSlots, FreeSlots
<1> QED
  BY <1>1, <1>2, <1>3 DEF IInv

LEMMA StutterIInv == IInv /\ UNCHANGED vars => IInv'
  BY DEF IInv, vars, registryVars, regionVars, packageVars, processVars, TypeOK,
     BoundsOK, RegistryOK, StackOK, Tracks, SameOrApart, ReleasedOK, CountsExact,
     TrapJustified, InUse, Carved, Apart, IsLive

LEMMA NextIInv == IInv /\ [Next]_vars => IInv'
<1> SUFFICES ASSUME IInv, [Next]_vars PROVE IInv'
  OBVIOUS
<1>1. ASSUME NEW count \in Counts, rt_mem_alloc_bytes(count) PROVE IInv'
  BY <1>1, FailedAllocStep, AllocReusedStep, AllocFreshStep DEF rt_mem_alloc_bytes
<1>2. ASSUME NEW p \in Pointer, rt_mem_dealloc_bytes(p) PROVE IInv'
  BY <1>2, IdleReleaseStep, DeallocLiveStep DEF rt_mem_dealloc_bytes
<1> QED
  BY <1>1, <1>2, ProgramStep, StutterIInv DEF Next

THEOREM Invariance == Spec => []IInv
  BY InitIInv, NextIInv, PTL DEF Spec

\* rt_mem_core_alloc never hands out bytes twice: owned blocks are apart, for
\* every sequence of allocations, releases, recycled slots and reuses.
THEOREM LiveApartHolds == Spec => []LiveApart
<1>1. IInv => LiveApart
  BY DEF IInv, RegistryOK, LiveApart, InUse, IsLive, LIVE, UNUSED
<1> QED
  BY <1>1, Invariance, PTL

\* Owned blocks never leave the committed part of the region.
THEOREM LiveInsideHolds == Spec => []LiveInside
<1>1. IInv => LiveInside
  <2> SUFFICES ASSUME IInv PROVE LiveInside
    OBVIOUS
  <2>1. ASSUME NEW i \in Slots, IsLive(i)
        PROVE  Carved(s_registry[i]) /\ s_registry[i] \in Entry
    BY <2>1 DEF IInv, TypeOK, RegistryOK, InUse, IsLive, LIVE, UNUSED
  <2>2. ASSUME NEW i \in Slots, IsLive(i)
        PROVE  s_region_used > 0
    BY <2>1, <2>2, SizesAssumption DEF IInv, TypeOK, Carved, Entry
  <2> QED
    BY <2>1, <2>2 DEF IInv, BoundsOK, LiveInside, Carved
<1> QED
  BY <1>1, Invariance, PTL

\* No pointer on the reuse stack can alias an owned block.
THEOREM TrackedApartHolds == Spec => []TrackedApart
<1>1. IInv => TrackedApart
  BY DEF IInv, StackOK, Tracks, SameOrApart, TrackedApart, InUse, IsLive, LIVE,
     FREE, UNUSED
<1> QED
  BY <1>1, Invariance, PTL

\* The counters of rt_mem_reg_live_count and rt_mem_reg_free_count are exact.
THEOREM CountsExactHolds == Spec => []CountsExact
<1>1. IInv => CountsExact
  BY DEF IInv
<1> QED
  BY <1>1, Invariance, PTL

\* rt_mem_alloc.c and rt_mem_reuse.c: registry, region, counters and reuse
\* stack agree after any sequence of calls.
THEOREM RegistrySoundHolds == Spec => []RegistrySound
  BY LiveApartHolds, LiveInsideHolds, CountsExactHolds, TrackedApartHolds, PTL
     DEF RegistrySound

\* A release trap always names a pointer that is not an owned block, and
\* AIC-R0812 one that was released before.
THEOREM TrapJustifiedHolds == Spec => []TrapJustified
<1>1. IInv => TrapJustified
  BY DEF IInv
<1> QED
  BY <1>1, Invariance, PTL

\* Types are kept, the counters included.
THEOREM TypeCorrect == Spec => []TypeOK
<1>1. IInv => TypeOK
  BY DEF IInv
<1> QED
  BY <1>1, Invariance, PTL

-----------------------------------------------------------------------------
(* What a step may never do                                                *)

\* Releasing or handing out a block changes its entry.
LEMMA StateChanges ==
  ASSUME TypeOK, NEW slot \in Slots, NEW state, NEW b,
         \/ s_registry' = [s_registry EXCEPT ![slot].state = state]
         \/ s_registry' = [s_registry EXCEPT ![slot] = b] /\ b.state = state,
         s_registry[slot].state # state
  PROVE  s_registry' # s_registry
<1>1. s_registry'[slot].state = state
  BY DEF TypeOK, Entry
<1> QED
  BY <1>1

\* The calls that leave the registry as it is.
IdleCall ==
  \/ \E count \in Counts :
       \/ AllocRefused(count)   \/ AllocNoRegion(count)
       \/ AllocExhausted(count) \/ AllocNoCommit(count)
       \/ AllocNoSlot(count)
  \/ \E p \in Pointer : DeallocNull(p) \/ DeallocDouble(p) \/ DeallocInvalid(p)
  \/ \E dst \in RegionAddr, src \in RegionAddr, count \in Lengths :
       rt_mem_copy(dst, src, count)
  \/ \E dst \in RegionAddr, value \in Byte, count \in Lengths :
       rt_mem_fill(dst, value, count)
  \/ rt_mem_reuse_init \/ rt_mem_trap_init

LEMMA IdleKeeps ==
  ASSUME IdleCall
  PROVE  UNCHANGED <<registryVars, s_region_used, h_released>>
  BY DEF IdleCall, AllocRefused, AllocNoRegion, AllocExhausted, AllocNoCommit,
     AllocNoSlot, DeallocNull, DeallocDouble, DeallocInvalid, BadRelease,
     rt_mem_copy, rt_mem_fill, Writes, rt_mem_reuse_init, rt_mem_trap_init,
     registryVars, regionVars

LEMMA NextCalls ==
  Next => \/ IdleCall
          \/ \E count \in Counts : AllocReused(count) \/ AllocFresh(count)
          \/ \E p \in Pointer : DeallocLive(p)
  BY DEF Next, IdleCall, rt_mem_alloc_bytes, rt_mem_dealloc_bytes

LEMMA NextNoLeak == IInv /\ [Next]_vars => NoLeak
<1> SUFFICES ASSUME IInv, [Next]_vars, s_registry' = s_registry
             PROVE  UNCHANGED <<s_region_used, s_live_count, s_free_count, h_released>>
  BY DEF NoLeak
<1>0. TypeOK
  BY DEF IInv
<1>1. CASE IdleCall
  BY <1>1, IdleKeeps DEF registryVars
<1>2. ASSUME NEW count \in Counts, AllocReused(count) PROVE FALSE
  <2>1. PICK slot \in Slots : /\ s_registry[slot].state = FREE
                              /\ s_registry' = [s_registry EXCEPT ![slot].state = LIVE]
    BY <1>2 DEF AllocReused, Activated
  <2> QED
    BY <1>0, <2>1, StateChanges DEF LIVE, FREE
<1>3. ASSUME NEW count \in Counts, AllocFresh(count) PROVE FALSE
  <2> DEFINE b == [addr |-> Base + Aligned, size |-> count, state |-> LIVE]
  <2>1. PICK slot \in Slots : /\ s_registry[slot].state # LIVE
                              /\ s_registry' = [s_registry EXCEPT ![slot] = b]
    BY <1>3 DEF AllocFresh, FirstNotLive
  <2>2. b.state = LIVE
    OBVIOUS
  <2> QED
    BY <1>0, <2>1, <2>2, StateChanges
<1>4. ASSUME NEW p \in Pointer, DeallocLive(p) PROVE FALSE
  <2>1. PICK slot \in Slots : /\ s_registry[slot].state = LIVE
                              /\ s_registry' = [s_registry EXCEPT ![slot].state = FREE]
    BY <1>4 DEF DeallocLive
  <2> QED
    BY <1>0, <2>1, StateChanges DEF LIVE, FREE
<1>5. CASE UNCHANGED vars
  BY <1>5 DEF vars, registryVars, regionVars
<1> QED
  BY <1>1, <1>2, <1>3, <1>4, <1>5, NextCalls

\* memset changes nothing outside the block it is given.
LEMMA FilledApart ==
  ASSUME NEW b \in Entry, NEW p \in Nat, NEW n \in Nat, NEW value,
         \/ b.addr + b.size <= p \/ p + n <= b.addr,
         NEW a \in Span(b.addr, b.size), a \in RegionAddr
  PROVE  Filled(p, n, value)[a] = mem[a]
<1>1. a \notin Span(p, n)
  BY DEF Span, Entry
<1> QED
  BY <1>1 DEF Filled

\* The bytes of an owned block are bytes of the region.
LEMMA OwnedInRegion ==
  ASSUME IInv, NEW i \in Slots, IsLive(i),
         NEW a \in Span(s_registry[i].addr, s_registry[i].size)
  PROVE  a \in RegionAddr
<1>1. Carved(s_registry[i]) /\ s_registry[i] \in Entry
  BY DEF IInv, RegistryOK, InUse, IsLive, LIVE, UNUSED, TypeOK
<1>2. /\ s_region_used \in Nat /\ s_region_committed \in Nat
      /\ s_region_used <= s_region_committed
      /\ s_region_committed <= RegionSize
  BY DEF IInv, TypeOK, BoundsOK
<1> QED
  BY <1>1, <1>2, SizesAssumption DEF Carved, Entry, Span, RegionAddr

LEMMA NextKeepsOwned == IInv /\ [Next]_vars => KeepsOwned
<1> SUFFICES ASSUME IInv, [Next]_vars,
                    NEW i \in Slots, IsLive(i), s_registry'[i].state = LIVE
             PROVE  /\ s_registry'[i] = s_registry[i]
                    /\ s_registry' # s_registry =>
                         \A a \in Span(s_registry[i].addr, s_registry[i].size) :
                           mem'[a] = mem[a]
  BY DEF KeepsOwned
<1>0. /\ TypeOK /\ RegistryOK /\ s_registry \in [Slots -> Entry]
      /\ s_registry[i].state = LIVE
  BY DEF IInv, TypeOK, IsLive
<1>a. ASSUME NEW j \in Slots, j # i, InUse(j), NEW value
      PROVE  \A a \in Span(s_registry[i].addr, s_registry[i].size) :
               Filled(s_registry[j].addr, s_registry[j].size, value)[a] = mem[a]
  <2>1. Apart(s_registry[i], s_registry[j])
    BY <1>0, <1>a DEF RegistryOK, InUse, LIVE, UNUSED
  <2>2. s_registry[i] \in Entry /\ s_registry[j] \in Entry
    BY <1>0
  <2>3. s_registry[j].addr \in Nat /\ s_registry[j].size \in Nat
    BY <2>2 DEF Entry
  <2> QED
    BY <2>1, <2>2, <2>3, FilledApart, OwnedInRegion DEF Apart
<1>1. CASE IdleCall
  BY <1>1, IdleKeeps DEF registryVars
<1>2. ASSUME NEW count \in Counts, AllocReused(count)
      PROVE  /\ s_registry'[i] = s_registry[i]
             /\ \A a \in Span(s_registry[i].addr, s_registry[i].size) :
                  mem'[a] = mem[a]
  <2>1. PICK slot \in Slots :
          /\ s_registry[slot].state = FREE /\ s_registry[slot].size = count
          /\ s_registry' = [s_registry EXCEPT ![slot].state = LIVE]
          /\ mem' = Filled(s_registry[slot].addr, count, Zero)
    BY <1>2 DEF AllocReused, Activated
  <2>2. slot # i /\ InUse(slot)
    BY <1>0, <2>1 DEF InUse, FREE, LIVE, UNUSED
  <2>3. s_registry'[i] = s_registry[i]
    BY <1>0, <2>1, <2>2
  <2> QED
    BY <1>a, <2>1, <2>2, <2>3
<1>3. ASSUME NEW count \in Counts, AllocFresh(count)
      PROVE  s_registry'[i] = s_registry[i] /\ mem' = mem
  <2> DEFINE b == [addr |-> Base + Aligned, size |-> count, state |-> LIVE]
  <2>1. PICK slot \in Slots : /\ s_registry[slot].state # LIVE
                              /\ s_registry' = [s_registry EXCEPT ![slot] = b]
    BY <1>3 DEF AllocFresh, FirstNotLive
  <2>2. slot # i
    BY <1>0, <2>1
  <2> QED
    BY <1>0, <1>3, <2>1, <2>2 DEF AllocFresh
<1>4. ASSUME NEW p \in Pointer, DeallocLive(p)
      PROVE  /\ s_registry'[i] = s_registry[i]
             /\ \A a \in Span(s_registry[i].addr, s_registry[i].size) :
                  mem'[a] = mem[a]
  <2>1. PICK slot \in Slots :
          /\ s_registry[slot].addr = p /\ s_registry[slot].state = LIVE
          /\ s_registry' = [s_registry EXCEPT ![slot].state = FREE]
          /\ \/ mem' = Filled(p, s_registry[slot].size, Poison)
             \/ mem' = mem
    BY <1>4 DEF DeallocLive, Hit, rt_mem_reuse_on_release
  <2>2. slot # i /\ InUse(slot)
    <3>1. s_registry'[slot].state = FREE
      BY <1>0, <2>1 DEF Entry
    <3> QED
      BY <2>1, <3>1 DEF InUse, FREE, LIVE, UNUSED
  <2>3. s_registry'[i] = s_registry[i]
    BY <1>0, <2>1, <2>2
  <2> QED
    BY <1>a, <2>1, <2>2, <2>3
<1>5. CASE UNCHANGED vars
  BY <1>5 DEF vars, registryVars
<1> QED
  BY <1>1, <1>2, <1>3, <1>4, <1>5, NextCalls

\* The bytes of a block on the reuse stack are bytes of the region.
LEMMA TrackedInRegion ==
  ASSUME IInv, NEW k \in DOMAIN s_stack,
         NEW a \in Span(s_stack[k].addr, s_stack[k].size)
  PROVE  a \in RegionAddr
<1>1. Carved(s_stack[k]) /\ s_stack[k] \in Freed
  BY DEF IInv, StackOK, Tracks, TypeOK
<1>2. /\ s_region_used \in Nat /\ s_region_committed \in Nat
      /\ s_region_used <= s_region_committed
      /\ s_region_committed <= RegionSize
  BY DEF IInv, TypeOK, BoundsOK
<1> QED
  BY <1>1, <1>2, SizesAssumption DEF Carved, Freed, Span, RegionAddr

\* memset on a block that is apart from a tracked one leaves its bytes alone.
LEMMA FilledOffStack ==
  ASSUME IInv, NEW k \in DOMAIN s_stack, NEW p \in Nat, NEW n \in Nat, NEW value,
         Apart(s_stack[k], [addr |-> p, size |-> n]),
         NEW a \in Span(s_stack[k].addr, s_stack[k].size)
  PROVE  Filled(p, n, value)[a] = mem[a]
<1>1. s_stack[k].addr \in Nat /\ s_stack[k].size \in Nat
  <2>1. s_stack[k] \in Freed
    BY DEF IInv, TypeOK
  <2> QED
    BY <2>1 DEF Freed
<1>2. a \notin Span(p, n)
  BY <1>1 DEF Apart, Span
<1> QED
  BY <1>2, TrackedInRegion DEF Filled

LEMMA NextPoisonKept == IInv /\ [Next]_vars => PoisonKept
<1> SUFFICES ASSUME IInv, [Next]_vars, s_registry' # s_registry,
                    NEW k \in DOMAIN s_stack',
                    NEW a \in Span(s_stack'[k].addr, s_stack'[k].size)
             PROVE  \/ mem'[a] = Poison
                    \/ /\ mem'[a] = mem[a]
                       /\ \E m \in DOMAIN s_stack : s_stack[m] = s_stack'[k]
  BY DEF PoisonKept
<1>0. /\ s_stack \in Seq(Freed) /\ StackOK /\ s_registry \in [Slots -> Entry]
      /\ DOMAIN s_stack = 1 .. Len(s_stack)
  BY DEF IInv, TypeOK
<1>1. CASE IdleCall
  BY <1>1, IdleKeeps DEF registryVars
<1>2. ASSUME NEW count \in Counts, AllocReused(count)
      PROVE  mem'[a] = mem[a] /\ \E m \in DOMAIN s_stack : s_stack[m] = s_stack'[k]
  <2>1. PICK i \in DOMAIN s_stack :
          /\ s_stack[i].size = count /\ s_stack' = Shifted(s_stack, i)
          /\ mem' = Filled(s_stack[i].addr, count, Zero)
    BY <1>2 DEF AllocReused, Found
  <2> DEFINE m == IF k < i THEN k ELSE k + 1
  <2>2. m \in DOMAIN s_stack /\ s_stack'[k] = s_stack[m] /\ k \in 1 .. Len(s_stack) - 1
    BY <1>0, <2>1, ShiftedEntries
  <2>3. m # i
    BY <1>0, <2>2
  <2>4. Apart(s_stack[m], s_stack[i])
    BY <1>0, <2>2, <2>3 DEF StackOK, Tracks
  <2>5. Apart(s_stack[m], [addr |-> s_stack[i].addr, size |-> count])
    BY <2>1, <2>4 DEF Apart
  <2>6. s_stack[i] \in Freed
    BY <1>0
  <2>7. s_stack[i].addr \in Nat /\ count \in Nat
    BY <2>1, <2>6 DEF Freed
  <2> QED
    BY <2>1, <2>2, <2>5, <2>7, FilledOffStack
<1>3. ASSUME NEW count \in Counts, AllocFresh(count)
      PROVE  mem'[a] = mem[a] /\ \E m \in DOMAIN s_stack : s_stack[m] = s_stack'[k]
  <2>1. mem' = mem /\ NoReuse(count)
    BY <1>3 DEF AllocFresh
  <2>2. CASE s_stack' = s_stack
    BY <2>1, <2>2
  <2>3. ASSUME NEW i \in DOMAIN s_stack, s_stack' = Shifted(s_stack, i)
        PROVE  \E m \in DOMAIN s_stack : s_stack[m] = s_stack'[k]
    <3>1. k \in 1 .. Len(s_stack) - 1
      BY <1>0, <2>3, ShiftedEntries
    <3> QED
      BY ZenonT(60), <1>0, <2>3, <3>1, ShiftedEntries
  <2> QED
    BY <2>1, <2>2, <2>3 DEF NoReuse
<1>4. ASSUME NEW p \in Pointer, DeallocLive(p)
      PROVE  \/ mem'[a] = Poison
             \/ /\ mem'[a] = mem[a]
                /\ \E m \in DOMAIN s_stack : s_stack[m] = s_stack'[k]
  <2>1. PICK slot \in Slots :
          /\ s_registry[slot].addr = p /\ s_registry[slot].state = LIVE
          /\ \/ rt_mem_reuse_on_release(p, s_registry[slot].size)
             \/ UNCHANGED <<mem, s_stack>>
    BY <1>4 DEF DeallocLive, Hit
  <2> DEFINE n == s_registry[slot].size
  <2>2. CASE UNCHANGED <<mem, s_stack>>
    BY <2>2
  <2>3. CASE rt_mem_reuse_on_release(p, n)
    <3>1. mem' = Filled(p, n, Poison)
      BY <2>3 DEF rt_mem_reuse_on_release
    <3>2. s_registry[slot] \in Entry
      BY <1>0
    <3>3. p \in Nat /\ n \in Nat
      BY <2>1, <3>2 DEF Entry
    <3>4. ASSUME k \in DOMAIN s_stack, s_stack'[k] = s_stack[k] PROVE mem'[a] = mem[a]
      <4>1. InUse(slot) /\ s_registry[slot].state # FREE
        BY <2>1 DEF InUse, LIVE, UNUSED, FREE
      <4>2. Apart(s_stack[k], s_registry[slot])
        BY <1>0, <3>4, <4>1 DEF StackOK, Tracks, SameOrApart
      <4>3. Apart(s_stack[k], [addr |-> p, size |-> n])
        BY <2>1, <4>2 DEF Apart
      <4> QED
        BY <3>1, <3>3, <3>4, <4>3, FilledOffStack
    <3>5. ASSUME s_stack'[k] = [addr |-> p, size |-> n] PROVE mem'[a] = Poison
      <4>1. a \in Span(p, n)
        BY <3>5
      <4>2. a \in RegionAddr
        BY <2>1, <4>1, OwnedInRegion DEF IsLive
      <4> QED
        BY <3>1, <4>1, <4>2 DEF Filled
    <3>6. \/ k \in DOMAIN s_stack /\ s_stack'[k] = s_stack[k]
          \/ s_stack'[k] = [addr |-> p, size |-> n]
      <4>1. CASE s_stack' = s_stack
        BY <4>1
      <4>2. CASE s_stack' = Append(s_stack, [addr |-> p, size |-> n])
        BY <1>0, <4>2
      <4> QED
        BY <2>3, <4>1, <4>2 DEF rt_mem_reuse_on_release
    <3> QED
      BY <3>4, <3>5, <3>6
  <2> QED
    BY <2>1, <2>2, <2>3
<1>5. CASE UNCHANGED vars
  BY <1>5 DEF vars, registryVars
<1> QED
  BY <1>1, <1>2, <1>3, <1>4, <1>5, NextCalls

\* rt_mem_core_alloc: a step that changes no registry entry takes no bytes of
\* the region and moves no counter, for every way a call can fail.
THEOREM FailureTakesNothingHolds == Spec => FailureTakesNothing
  BY Invariance, NextNoLeak, PTL DEF Spec, FailureTakesNothing

\* Poisoning at release and zeroing at reuse never reach a byte of a block the
\* program owns, and no call moves or resizes one.
THEOREM OwnedUndisturbedHolds == Spec => OwnedUndisturbed
  BY Invariance, NextKeepsOwned, PTL DEF Spec, OwnedUndisturbed

\* A block enters the reuse stack poisoned in every byte (ADR-004), and no later
\* allocation or release writes to it while it waits there.
THEOREM TrackedPoisonedHolds == Spec => TrackedPoisoned
  BY Invariance, NextPoisonKept, PTL DEF Spec, TrackedPoisoned

-----------------------------------------------------------------------------
(* The contract                                                            *)

\* What the contract needs beyond IInv: a program that stays below the bump
\* leaves the pages above it as MEM_COMMIT made them, and blocks are aligned.
FreshZero == \A a \in RegionAddr : a >= Base + s_region_used => mem[a] = Zero
BlocksAligned == \A i \in Slots : InUse(i) => s_registry[i].addr % Alignment = 0

CInv == IInv /\ FreshZero /\ BlocksAligned

\* Multiples have no remainder.
LEMMA MultipleMod ==
  ASSUME NEW q \in Nat, NEW a \in Nat \ {0}
  PROVE  (a * q) % a = 0
<1> DEFINE x == a * q
           d == x \div a
           r == x % a
<1>1. x \in Nat
  OBVIOUS
<1>2. d \in Nat /\ x = a * d + r /\ r \in 0 .. a - 1
  BY <1>1, DivMod, ModRange
<1>3. CASE q >= d + 1
  <2>1. a * q >= a * (d + 1)
    BY <1>2, <1>3
  <2>2. a * (d + 1) = a * d + a
    BY <1>2
  <2>3. a * d \in Nat
    BY <1>2
  <2> QED
    BY <1>2, <2>1, <2>2, <2>3
<1>4. CASE q <= d
  <2>1. a * q <= a * d
    BY <1>2, <1>4
  <2>2. a * d \in Nat
    BY <1>2
  <2> QED
    BY <1>2, <2>1, <2>2
<1> QED
  BY <1>2, <1>3, <1>4

\* The start of a fresh block is aligned.
LEMMA FreshAligned ==
  ASSUME TypeOK
  PROVE  (Base + Aligned) % Alignment = 0
<1> DEFINE x == s_region_used + (Alignment - 1)
           q == x \div Alignment
           k == Base \div Alignment
<1>1. s_region_used \in Nat /\ Alignment \in Nat \ {0} /\ Base \in Nat /\ x \in Nat
  BY SizesAssumption DEF TypeOK
<1>2. q \in Nat /\ x = Alignment * q + (x % Alignment)
  BY <1>1, DivMod
<1>3. k \in Nat /\ Base = Alignment * k
  <2>1. k \in Nat /\ Base = Alignment * k + (Base % Alignment)
    BY <1>1, DivMod
  <2>2. Base % Alignment = 0 /\ Alignment * k \in Nat
    BY <1>1, <2>1, GranularityAssumption
  <2> QED
    BY <2>1, <2>2
<1>4. x % Alignment \in 0 .. Alignment - 1
  BY <1>1, ModRange
<1>5. Alignment * q \in Nat
  BY <1>1, <1>2
<1>6. Aligned = Alignment * q
  BY <1>2, <1>4, <1>5 DEF Aligned, rt_mem_align_up
<1>7. Base + Aligned = Alignment * (k + q)
  BY <1>1, <1>2, <1>3, <1>6
<1> HIDE DEF q, k
<1>8. k + q \in Nat
  BY <1>2, <1>3
<1> QED
  BY <1>1, <1>7, <1>8, MultipleMod

LEMMA CInvStep ==
  ASSUME Discipline = "carved", CInv, [Next]_vars
  PROVE  CInv'
<1>0. IInv /\ IInv' /\ TypeOK /\ s_region_used \in Nat /\ s_registry \in [Slots -> Entry]
      /\ mem \in [RegionAddr -> Byte]
  BY NextIInv DEF CInv, IInv, TypeOK
<1> USE DEF CInv
<1>a. ASSUME NEW p \in Nat, NEW n \in Nat, NEW value, p + n <= Base + s_region_used,
             mem' = Filled(p, n, value), s_region_used' = s_region_used
      PROVE  FreshZero'
  BY <1>0, <1>a, SizesAssumption DEF FreshZero, Filled, Span, RegionAddr
<1>b. ASSUME UNCHANGED s_registry
      PROVE  BlocksAligned'
  BY <1>b DEF BlocksAligned, InUse
<1>1. CASE IdleCall
  <2>1. UNCHANGED <<s_registry, s_region_used>>
    BY <1>1, IdleKeeps DEF registryVars
  <2>2. CASE mem' = mem
    BY <1>0, <1>b, <2>1, <2>2 DEF FreshZero
  <2>3. ASSUME NEW dst, NEW count, NEW new, Writes(dst, count, new)
        PROVE  FreshZero'
    BY <1>0, <2>1, <2>3, SizesAssumption DEF Writes, Writable, FreshZero, RegionAddr
  <2>4. FreshZero'
    BY <1>1, <2>2, <2>3 DEF IdleCall, AllocRefused, AllocNoRegion, AllocExhausted,
       AllocNoCommit, AllocNoSlot, DeallocNull, DeallocDouble, DeallocInvalid, BadRelease,
       rt_mem_copy, rt_mem_fill, rt_mem_reuse_init, rt_mem_trap_init
  <2> QED
    BY <1>0, <1>b, <2>1, <2>4
<1>2. ASSUME NEW count \in Counts, AllocReused(count)
      PROVE  CInv'
  <2>1. PICK slot \in Slots :
          /\ s_registry[slot].state = FREE /\ s_registry[slot].size = count
          /\ s_registry' = [s_registry EXCEPT ![slot].state = LIVE]
          /\ mem' = Filled(s_registry[slot].addr, count, Zero)
    BY <1>2 DEF AllocReused, Activated
  <2>2. s_region_used' = s_region_used
    BY <1>2 DEF AllocReused, regionVars
  <2>3. Carved(s_registry[slot]) /\ s_registry[slot] \in Entry
    BY <1>0, <2>1 DEF IInv, RegistryOK, InUse, FREE, UNUSED
  <2>4. FreshZero'
    BY <1>a, <2>1, <2>2, <2>3 DEF Carved, Entry
  <2>5. BlocksAligned'
    BY <1>0, <2>1 DEF BlocksAligned, InUse, Entry, FREE, UNUSED
  <2> QED
    BY <1>0, <2>4, <2>5
<1>3. ASSUME NEW count \in Counts, AllocFresh(count)
      PROVE  CInv'
  <2> DEFINE e == [addr |-> Base + Aligned, size |-> count, state |-> LIVE]
  <2>1. PICK slot \in Slots : s_registry' = [s_registry EXCEPT ![slot] = e]
    BY <1>3 DEF AllocFresh
  <2>2. mem' = mem /\ s_region_used' = Aligned + count /\ Aligned + count <= RegionSize
    BY <1>3 DEF AllocFresh, Bump
  <2>3. Aligned \in Nat /\ s_region_used <= Aligned /\ count \in Nat
    BY <1>0, <2>2, NeedFits, SizesAssumption
  <2>4. FreshZero'
    BY <1>0, <2>2, <2>3, SizesAssumption DEF FreshZero, RegionAddr
  <2>5. e.addr % Alignment = 0
    BY <1>0, FreshAligned
  <2> HIDE DEF e
  <2>6. BlocksAligned'
    BY <1>0, <2>1, <2>5 DEF BlocksAligned, InUse
  <2> QED
    BY <1>0, <2>4, <2>6
<1>4. ASSUME NEW p \in Pointer, DeallocLive(p)
      PROVE  CInv'
  <2>1. PICK slot \in Slots :
          /\ s_registry[slot].addr = p /\ s_registry[slot].state = LIVE
          /\ s_registry' = [s_registry EXCEPT ![slot].state = FREE]
          /\ \/ mem' = Filled(p, s_registry[slot].size, Poison)
             \/ mem' = mem
    BY <1>4 DEF DeallocLive, Hit, rt_mem_reuse_on_release
  <2>2. s_region_used' = s_region_used
    BY <1>4 DEF DeallocLive, regionVars
  <2>3. Carved(s_registry[slot]) /\ s_registry[slot] \in Entry
    BY <1>0, <2>1 DEF IInv, RegistryOK, InUse, LIVE, UNUSED
  <2>4. ASSUME mem' = mem PROVE FreshZero'
    BY <1>0, <2>2, <2>4 DEF FreshZero
  <2>5. ASSUME mem' = Filled(p, s_registry[slot].size, Poison) PROVE FreshZero'
    BY <1>a, <2>1, <2>2, <2>3, <2>5 DEF Carved, Entry
  <2>6. BlocksAligned'
    BY <1>0, <2>1 DEF BlocksAligned, InUse, Entry, LIVE, UNUSED
  <2> QED
    BY <1>0, <2>1, <2>4, <2>5, <2>6
<1>5. CASE UNCHANGED vars
  BY <1>0, <1>5, <1>b DEF vars, registryVars, regionVars, FreshZero
<1> QED
  BY <1>1, <1>2, <1>3, <1>4, <1>5, NextCalls

LEMMA CInvInit == Init => CInv
  BY InitIInv DEF Init, CInv, FreshZero, BlocksAligned, InUse, NoEntry, UNUSED

-----------------------------------------------------------------------------
(* What the program owns, before and after a step                          *)

LEMMA OwnedAre ==
  OwnedBytes = {a \in RegionAddr : \E i \in Slots :
                  IsLive(i) /\ a \in Span(s_registry[i].addr, s_registry[i].size)}
<1> DEFINE Rec(i) == [addr |-> s_registry[i].addr, size |-> s_registry[i].size]
<1>1. \A a : (\E b \in OwnedBlocks : a \in Span(b.addr, b.size))
         <=> \E i \in Slots : IsLive(i) /\ a \in Span(s_registry[i].addr, s_registry[i].size)
  <2>1. OwnedBlocks = {Rec(i) : i \in {j \in Slots : IsLive(j)}}
    BY DEF OwnedBlocks
  <2>2. \A i : Rec(i).addr = s_registry[i].addr /\ Rec(i).size = s_registry[i].size
    OBVIOUS
  <2> HIDE DEF Rec
  <2> QED
    BY <2>1, <2>2
<1> QED
  BY <1>1 DEF OwnedBytes

\* A block handed out: the slot becomes LIVE, the other blocks stay.
LEMMA ObtainMaps ==
  ASSUME IInv, NEW slot \in Slots, NEW p \in RegionAddr, NEW count \in Counts,
         exit_code = Running, exit_code' = exit_code, count > 0,
         p % Alignment = 0, Span(p, count) \subseteq RegionAddr,
         Span(p, count) \cap OwnedBytes = {},
         s_registry[slot].state # LIVE,
         \A i \in Slots : i # slot => s_registry'[i] = s_registry[i],
         s_registry'[slot] = [addr |-> p, size |-> count, state |-> LIVE],
         \A a \in OwnedBytes : mem'[a] = mem[a],
         \A a \in Span(p, count) : mem'[a] = Zero
  PROVE  Contract!Obtain(p, count)
<1>1. OwnedBlocks' = OwnedBlocks \cup {[addr |-> p, size |-> count]}
  BY DEF OwnedBlocks, IsLive
<1>2. OwnedBytes' = OwnedBytes \cup Span(p, count)
  <2> DEFINE b == [addr |-> p, size |-> count]
  <2>1. b.addr = p /\ b.size = count /\ OwnedBlocks' = OwnedBlocks \cup {b}
    BY <1>1
  <2> HIDE DEF b
  <2>2. OwnedBytes' = {a \in RegionAddr : \E c \in OwnedBlocks \cup {b} : a \in Span(c.addr, c.size)}
    BY <2>1 DEF OwnedBytes
  <2> QED
    BY <2>1, <2>2 DEF OwnedBytes
<1>3. [a \in OwnedBytes |-> mem[a]]'
        = [a \in OwnedBytes \cup Span(p, count) |->
             IF a \in Span(p, count) THEN Zero ELSE [x \in OwnedBytes |-> mem[x]][a]]
  BY <1>2
<1> QED
  BY <1>1, <1>3 DEF Contract!Obtain, Contract!Span, Span

\* A block taken back: the slot is LIVE no more, the other blocks stay.
LEMMA GiveBackMaps ==
  ASSUME IInv, NEW slot \in Slots, exit_code = Running, exit_code' = exit_code,
         IsLive(slot), s_registry'[slot].state # LIVE,
         \A i \in Slots : i # slot => s_registry'[i] = s_registry[i],
         \A i \in Slots : i # slot /\ IsLive(i) =>
           \A a \in Span(s_registry[i].addr, s_registry[i].size) : mem'[a] = mem[a]
  PROVE  \E b \in OwnedBlocks : Contract!GiveBack(b)
<1> DEFINE Rec(i) == [addr |-> s_registry[i].addr, size |-> s_registry[i].size]
           b == Rec(slot)
<1>0. \A i \in Slots : s_registry[i] \in Entry
  BY DEF IInv, TypeOK
<1>1. \A i \in Slots : IsLive(i) => Carved(s_registry[i])
  BY DEF IInv, RegistryOK, InUse, IsLive, LIVE, UNUSED
<1>2. \A i \in Slots : IsLive(i) /\ i # slot => Apart(s_registry[i], s_registry[slot])
  BY DEF IInv, RegistryOK, InUse, IsLive, LIVE, UNUSED
<1>3. \A i \in Slots : IsLive(i) /\ i # slot =>
        /\ Rec(i) # b
        /\ Span(s_registry[i].addr, s_registry[i].size) \cap Span(b.addr, b.size) = {}
  BY <1>0, <1>1, <1>2 DEF Apart, Carved, Span, Entry
<1>4. \A i \in Slots : IsLive(i)' <=> IsLive(i) /\ i # slot
  BY DEF IsLive
<1>5. OwnedBlocks = {Rec(i) : i \in {j \in Slots : IsLive(j)}} /\ b \in OwnedBlocks
  BY DEF OwnedBlocks
<1>6. OwnedBlocks' = {Rec(i) : i \in {j \in Slots : IsLive(j) /\ j # slot}}
  BY <1>4 DEF OwnedBlocks
<1>7. OwnedBlocks' = OwnedBlocks \ {b}
  BY <1>3, <1>5, <1>6
<1>8. OwnedBytes' = OwnedBytes \ Span(b.addr, b.size)
  <2>1. OwnedBytes' = {a \in RegionAddr : \E i \in Slots :
          IsLive(i) /\ i # slot /\ a \in Span(s_registry[i].addr, s_registry[i].size)}
    <3>1. OwnedBytes' = {a \in RegionAddr : \E c \in OwnedBlocks' : a \in Span(c.addr, c.size)}
      BY DEF OwnedBytes
    <3>2. \A i : Rec(i).addr = s_registry[i].addr /\ Rec(i).size = s_registry[i].size
      OBVIOUS
    <3>3. \A a : (\E c \in OwnedBlocks' : a \in Span(c.addr, c.size))
             <=> \E i \in Slots : /\ IsLive(i) /\ i # slot
                                 /\ a \in Span(s_registry[i].addr, s_registry[i].size)
      <4> HIDE DEF Rec
      <4> QED
        BY <1>6, <3>2
    <3> QED
      BY <3>1, <3>3
  <2> QED
    BY <1>3, <2>1, OwnedAre
<1>9. \A a \in OwnedBytes' : a \in OwnedBytes /\ mem'[a] = mem[a]
  <2> SUFFICES ASSUME NEW a \in OwnedBytes'
               PROVE  a \in OwnedBytes /\ mem'[a] = mem[a]
    OBVIOUS
  <2>1. PICK i \in Slots : IsLive(i) /\ a \in Span(s_registry[i].addr, s_registry[i].size)
    BY <1>8, OwnedAre
  <2>2. i # slot
    BY <1>8, <2>1
  <2> QED
    BY <1>8, <2>1, <2>2
<1>10. [a \in OwnedBytes |-> mem[a]]'
         = [a \in OwnedBytes \ Span(b.addr, b.size) |-> [x \in OwnedBytes |-> mem[x]][a]]
  BY <1>8, <1>9
<1> HIDE DEF b
<1> QED
  BY <1>5, <1>7, <1>10 DEF Contract!GiveBack, Contract!Span, Span

LEMMA ReusedMaps ==
  ASSUME CInv, NEW count \in Counts, AllocReused(count)
  PROVE  Contract!Obtain(ret', count)
<1>0. /\ IInv /\ TypeOK /\ RegistryOK /\ BlocksAligned /\ s_registry \in [Slots -> Entry]
      /\ count \in Nat /\ count > 0
  BY SizesAssumption, SMTT(40) DEF CInv, IInv, TypeOK, AllocReused, Possible
<1>1. PICK slot \in Slots :
        /\ s_registry[slot].state = FREE /\ s_registry[slot].size = count
        /\ s_registry' = [s_registry EXCEPT ![slot].state = LIVE]
        /\ mem' = Filled(s_registry[slot].addr, count, Zero)
        /\ ret' = s_registry[slot].addr /\ exit_code = Running
  BY DEF AllocReused, Activated, Returns
<1>2. exit_code' = exit_code
  BY DEF AllocReused, processVars
<1> DEFINE p == s_registry[slot].addr
<1>3. /\ Carved(s_registry[slot]) /\ InUse(slot) /\ p \in Nat /\ p % Alignment = 0
      /\ s_registry[slot] \in Entry
  BY <1>0, <1>1 DEF RegistryOK, InUse, FREE, UNUSED, Entry, BlocksAligned
<1>4. p \in RegionAddr /\ Span(p, count) \subseteq RegionAddr
  <2>1. Base <= p /\ p + count <= Base + s_region_used
    BY <1>1, <1>3 DEF Carved
  <2>2. /\ s_region_used \in Nat /\ s_region_committed \in Nat
        /\ s_region_used <= s_region_committed /\ s_region_committed <= RegionSize
    BY <1>0 DEF IInv, BoundsOK, TypeOK
  <2>3. p \in Nat
    BY <1>3
  <2> HIDE DEF p
  <2> QED
    BY <1>0, <2>1, <2>2, <2>3, SizesAssumption DEF RegionAddr, Span
<1>5. ASSUME NEW i \in Slots, IsLive(i)
      PROVE  Span(s_registry[i].addr, s_registry[i].size) \cap Span(p, count) = {}
  <2>1. i # slot /\ InUse(i)
    BY <1>1, <1>5 DEF IsLive, InUse, LIVE, FREE, UNUSED
  <2>2. Apart(s_registry[i], s_registry[slot]) /\ s_registry[i] \in Entry
    BY <1>0, <1>3, <2>1 DEF RegistryOK
  <2> QED
    BY <1>0, <1>1, <1>3, <2>2 DEF Apart, Span, Entry
<1>6. Span(p, count) \cap OwnedBytes = {}
  BY <1>5, OwnedAre
<1>7. \A a \in RegionAddr : mem'[a] = IF a \in Span(p, count) THEN Zero ELSE mem[a]
  BY <1>1 DEF Filled
<1>8. (\A a \in OwnedBytes : mem'[a] = mem[a]) /\ \A a \in Span(p, count) : mem'[a] = Zero
  BY <1>4, <1>6, <1>7 DEF OwnedBytes
<1>9. /\ s_registry'[slot] = [addr |-> p, size |-> count, state |-> LIVE]
      /\ \A i \in Slots : i # slot => s_registry'[i] = s_registry[i]
      /\ s_registry[slot].state # LIVE
  BY <1>0, <1>1, <1>3 DEF Entry, LIVE, FREE
<1> HIDE DEF p
<1>10. Contract!Obtain(p, count)
  BY <1>0, <1>1, <1>2, <1>3, <1>4, <1>6, <1>8, <1>9, ObtainMaps
<1> QED
  BY <1>1, <1>10 DEF p

LEMMA FreshMaps ==
  ASSUME CInv, NEW count \in Counts, AllocFresh(count)
  PROVE  Contract!Obtain(ret', count)
<1>0. /\ IInv /\ TypeOK /\ RegistryOK /\ FreshZero /\ s_registry \in [Slots -> Entry]
      /\ count \in Nat /\ count > 0 /\ s_region_used \in Nat
  BY SizesAssumption DEF CInv, IInv, TypeOK, AllocFresh, Possible
<1> DEFINE p == Base + Aligned
           e == [addr |-> p, size |-> count, state |-> LIVE]
<1>1. PICK slot \in Slots :
        s_registry[slot].state # LIVE /\ s_registry' = [s_registry EXCEPT ![slot] = e]
  BY DEF AllocFresh, FirstNotLive
<1>2. /\ ret' = p /\ exit_code = Running /\ exit_code' = exit_code /\ mem' = mem
      /\ Aligned + count <= RegionSize
  BY DEF AllocFresh, Returns, processVars
<1>3. Aligned \in Nat /\ s_region_used <= Aligned
  BY <1>0, <1>2, NeedFits
<1>4. /\ p \in RegionAddr /\ Span(p, count) \subseteq RegionAddr /\ p \in Nat
      /\ Base + s_region_used <= p
  BY <1>0, <1>2, <1>3, SizesAssumption DEF RegionAddr, Span
<1>5. p % Alignment = 0
  BY <1>0, FreshAligned
<1> HIDE DEF p
<1>6. ASSUME NEW i \in Slots, IsLive(i)
      PROVE  Span(s_registry[i].addr, s_registry[i].size) \cap Span(p, count) = {}
  <2>1. Carved(s_registry[i]) /\ s_registry[i] \in Entry
    BY <1>0, <1>6 DEF RegistryOK, InUse, IsLive, LIVE, UNUSED
  <2> QED
    BY <1>0, <1>4, <2>1, SizesAssumption DEF Carved, Span, Entry
<1>7. Span(p, count) \cap OwnedBytes = {}
  BY <1>6, OwnedAre
<1>8. \A a \in Span(p, count) : a \in RegionAddr /\ a >= Base + s_region_used
  BY <1>0, <1>4, SizesAssumption DEF Span
<1>9. \A a \in Span(p, count) : mem'[a] = Zero
  BY <1>0, <1>2, <1>8 DEF FreshZero
<1>10. /\ s_registry'[slot] = e
       /\ \A i \in Slots : i # slot => s_registry'[i] = s_registry[i]
  BY <1>0, <1>1
<1>11. Contract!Obtain(p, count)
  BY <1>0, <1>1, <1>2, <1>4, <1>5, <1>7, <1>9, <1>10, ObtainMaps
<1> QED
  BY <1>2, <1>11

LEMMA ReleaseMaps ==
  ASSUME CInv, NEW p \in Pointer, DeallocLive(p)
  PROVE  \E b \in OwnedBlocks : Contract!GiveBack(b)
<1>0. IInv /\ s_registry \in [Slots -> Entry] /\ RegistryOK
  BY DEF CInv, IInv, TypeOK
<1>1. PICK slot \in Slots :
        /\ s_registry[slot].addr = p /\ s_registry[slot].state = LIVE
        /\ s_registry' = [s_registry EXCEPT ![slot].state = FREE]
        /\ \/ mem' = Filled(p, s_registry[slot].size, Poison)
           \/ mem' = mem
  BY DEF DeallocLive, Hit, rt_mem_reuse_on_release
<1>2. exit_code = Running /\ exit_code' = exit_code
  BY DEF DeallocLive, Returns, processVars
<1>3. /\ IsLive(slot) /\ s_registry'[slot].state # LIVE
      /\ \A i \in Slots : i # slot => s_registry'[i] = s_registry[i]
  BY <1>0, <1>1 DEF IsLive, Entry, LIVE, FREE
<1>4. ASSUME NEW i \in Slots, i # slot, IsLive(i),
             NEW a \in Span(s_registry[i].addr, s_registry[i].size)
      PROVE  mem'[a] = mem[a]
  <2>1. Apart(s_registry[i], s_registry[slot])
    BY <1>0, <1>3, <1>4 DEF RegistryOK, InUse, IsLive, LIVE, UNUSED
  <2>2. /\ s_registry[i] \in Entry /\ s_registry[slot].addr \in Nat
        /\ s_registry[slot].size \in Nat
    BY <1>0 DEF Entry
  <2>3. a \in RegionAddr
    BY <1>0, <1>4, OwnedInRegion
  <2> QED
    BY <1>1, <1>4, <2>1, <2>2, <2>3, FilledApart DEF Apart
<1> QED
  BY <1>0, <1>2, <1>3, <1>4, GiveBackMaps

\* Copies and fills are stores, as far as owned bytes are concerned.
LEMMA WritesMaps ==
  ASSUME CInv, CInv', NEW dst, NEW count, NEW new, Writes(dst, count, new)
  PROVE  Contract!Store(dst, count)
<1>1. /\ s_registry' = s_registry /\ exit_code' = exit_code /\ exit_code = Running
      /\ \A a \in RegionAddr : a \notin Span(dst, count) => mem'[a] = mem[a]
  BY DEF Writes, Returns, registryVars, processVars
<1>2. mem' \in [RegionAddr -> Byte]
  BY DEF CInv, IInv, TypeOK
<1>3. OwnedBlocks' = OwnedBlocks
  BY <1>1 DEF OwnedBlocks, IsLive
<1>4. OwnedBytes' = OwnedBytes /\ OwnedBytes \subseteq RegionAddr
  BY <1>3 DEF OwnedBytes
<1>5. [a \in OwnedBytes |-> mem[a]]' = [a \in OwnedBytes |-> mem'[a]]
  BY <1>4
<1> QED
  BY <1>1, <1>2, <1>3, <1>4, <1>5 DEF Contract!Store, Contract!Span, Span

\* The bytes of the program's blocks, as the contract sees them.
Mapped == [a \in OwnedBytes |-> mem[a]]

LEMMA SameMapped ==
  ASSUME UNCHANGED <<s_registry, mem>>
  PROVE  OwnedBlocks' = OwnedBlocks /\ Mapped' = Mapped
<1>1. OwnedBlocks' = OwnedBlocks
  BY DEF OwnedBlocks, IsLive
<1>2. OwnedBytes' = OwnedBytes
  BY <1>1 DEF OwnedBytes
<1> QED
  BY <1>1, <1>2 DEF Mapped

\* A call that hands out, takes back and writes nothing, except that it may trap.
LEMMA IdleMaps ==
  ASSUME UNCHANGED <<s_registry, mem>>, exit_code \in {Running, TrapExit},
         \/ exit_code' = exit_code
         \/ exit_code = Running /\ exit_code' = TrapExit
  PROVE  Contract!Trap \/ UNCHANGED <<OwnedBlocks, Mapped, exit_code # Running>>
<1>1. OwnedBlocks' = OwnedBlocks /\ Mapped' = Mapped
  BY SameMapped
<1>2. CASE exit_code' = exit_code
  BY <1>1, <1>2
<1>3. CASE exit_code = Running /\ exit_code' = TrapExit
  <2>1. ~ (exit_code # Running) /\ (exit_code # Running)' = TRUE
    BY <1>3 DEF Running, TrapExit
  <2> QED
    BY <1>1, <2>1 DEF Contract!Trap, Mapped
<1> QED
  BY <1>2, <1>3

LEMMA StepMaps ==
  ASSUME CInv, CInv', Next
  PROVE  Contract!Next \/ UNCHANGED <<OwnedBlocks, Mapped, exit_code # Running>>
<1>0. IInv /\ exit_code \in {Running, TrapExit}
  BY DEF CInv, IInv, TypeOK
<1>1. ASSUME NEW count \in Counts, AllocReused(count) \/ AllocFresh(count)
      PROVE  Contract!Next
  <2>1. Contract!Obtain(ret', count)
    BY <1>1, ReusedMaps, FreshMaps
  <2>2. ret' \in RegionAddr
    <3>1. CASE AllocFresh(count)
      <4>1. ret' = Base + Aligned /\ Aligned + count <= RegionSize /\ count # 0
        BY <3>1 DEF AllocFresh, Returns, Possible
      <4>2. Aligned \in Nat /\ count \in Nat
        BY <1>0, <4>1, NeedFits, SizesAssumption DEF IInv
      <4> QED
        BY <4>1, <4>2, SizesAssumption DEF RegionAddr
    <3>2. CASE AllocReused(count)
      <4>1. PICK slot \in Slots : s_registry[slot].state = FREE /\ ret' = s_registry[slot].addr
        BY <3>2 DEF AllocReused, Activated, Returns
      <4>2. Carved(s_registry[slot]) /\ s_registry[slot] \in Entry
        BY <1>0, <4>1 DEF IInv, TypeOK, RegistryOK, InUse, FREE, UNUSED
      <4> QED
        BY <1>0, <4>1, <4>2, SizesAssumption DEF IInv, TypeOK, BoundsOK, Carved, Entry, RegionAddr
    <3> QED
      BY <1>1, <3>1, <3>2
  <2> QED
    BY <2>1, <2>2 DEF Contract!Next
<1>2. ASSUME NEW p \in Pointer, DeallocLive(p)
      PROVE  Contract!Next
  BY <1>2, ReleaseMaps DEF Contract!Next
<1>3. ASSUME IdleCall
      PROVE  Contract!Next \/ UNCHANGED <<OwnedBlocks, Mapped, exit_code # Running>>
  <2>1. ASSUME NEW dst \in RegionAddr, NEW count \in Lengths, NEW new, Writes(dst, count, new)
        PROVE  Contract!Next
    BY <2>1, WritesMaps DEF Contract!Next
  <2>2. CASE \E dst \in RegionAddr, src \in RegionAddr, count \in Lengths :
               rt_mem_copy(dst, src, count)
    BY <2>1, <2>2 DEF rt_mem_copy
  <2>3. CASE \E dst \in RegionAddr, value \in Byte, count \in Lengths :
               rt_mem_fill(dst, value, count)
    BY <2>1, <2>3 DEF rt_mem_fill
  <2>4. CASE \/ \E count \in Counts :
                  \/ AllocRefused(count)   \/ AllocNoRegion(count)
                  \/ AllocExhausted(count) \/ AllocNoCommit(count)
                  \/ AllocNoSlot(count)
             \/ \E p \in Pointer : DeallocNull(p) \/ DeallocDouble(p) \/ DeallocInvalid(p)
             \/ rt_mem_reuse_init \/ rt_mem_trap_init
    <3>1. /\ s_registry' = s_registry /\ mem' = mem
          /\ exit_code' = exit_code \/ (exit_code = Running /\ exit_code' = TrapExit)
      BY <2>4 DEF AllocRefused, AllocNoRegion, AllocExhausted, AllocNoCommit, AllocNoSlot,
         DeallocNull, DeallocDouble, DeallocInvalid, BadRelease, rt_mem_reuse_init,
         rt_mem_trap_init, registryVars, processVars, Returns
    <3>2. Contract!Trap \/ UNCHANGED <<OwnedBlocks, Mapped, exit_code # Running>>
      BY <1>0, <3>1, IdleMaps
    <3> QED
      BY <3>2 DEF Contract!Next
  <2> QED
    BY <1>3, <2>2, <2>3, <2>4 DEF IdleCall
<1> QED
  BY <1>1, <1>2, <1>3, NextCalls

LEMMA InitMaps == Init => Contract!Init
<1> SUFFICES ASSUME Init PROVE Contract!Init
  OBVIOUS
<1>1. \A i \in Slots : ~ IsLive(i)
  BY DEF Init, IsLive, NoEntry, UNUSED, LIVE
<1>2. OwnedBlocks = {}
  BY <1>1 DEF OwnedBlocks
<1>3. OwnedBytes = {}
  BY <1>2 DEF OwnedBytes
<1>4. [a \in OwnedBytes |-> mem[a]] = [a \in {} |-> Zero]
  BY <1>3
<1>5. (exit_code # Running) = FALSE
  BY DEF Init
<1> QED
  BY <1>2, <1>4, <1>5 DEF Contract!Init

\* A program that writes only below the bump sees nothing but what the contract
\* of rt.mem allows, with recycling, reuse and poisoning hidden: its blocks are
\* aligned, its own, and read as zero when they are handed out.
THEOREM ImplementsContractHolds ==
  ASSUME Discipline = "carved" PROVE Spec => ImplementsContract
<1>1. Init => CInv /\ Contract!Init
  BY CInvInit, InitMaps
<1>2. CInv /\ [Next]_vars => CInv'
  BY CInvStep
<1>3. CInv /\ CInv' /\ [Next]_vars
        => [Contract!Next]_<<OwnedBlocks, [a \in OwnedBytes |-> mem[a]], exit_code # Running>>
  <2> SUFFICES ASSUME CInv, CInv', [Next]_vars
               PROVE  [Contract!Next]_<<OwnedBlocks, [a \in OwnedBytes |-> mem[a]], exit_code # Running>>
    OBVIOUS
  <2>1. CASE Next
    BY <2>1, StepMaps DEF Mapped
  <2>2. CASE UNCHANGED vars
    <3>1. UNCHANGED <<s_registry, mem, exit_code>>
      BY <2>2 DEF vars, registryVars, processVars
    <3> QED
      BY <3>1, SameMapped DEF Mapped
  <2> QED
    BY <2>1, <2>2
<1> QED
  BY <1>1, <1>2, <1>3, PTL DEF Spec, ImplementsContract, Contract!Spec
=============================================================================
