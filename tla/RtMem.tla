------------------------------- MODULE RtMem -------------------------------
(***************************************************************************)
(* The allocator of the Stage-0 runtime (bootstrap/runtime/rt_mem):        *)
(*   rt_mem_alloc.c  region, bump pointer, allocation registry             *)
(*   rt_mem_reuse.c  exact-fit reuse stack and 0xDD poisoning              *)
(*   rt_mem_api.c    alloc_bytes, dealloc_bytes, copy, fill                *)
(*   rt_mem_trap.c   release traps AIC-R0812 / AIC-R0813, exit code 70     *)
(*                                                                         *)
(* An address is a natural number as uintptr_t is, and NULL is 0.  The     *)
(* region base is what VirtualAlloc returns: one value, fixed by the OS.   *)
(* The runtime is single-threaded, so one call is one step.  The reuse and *)
(* trap packages are registered by calls nothing orders, so registration   *)
(* is an action that may happen at any time.                               *)
(***************************************************************************)
EXTENDS Integers, Sequences, FiniteSets

CONSTANTS RegionSize,   \* RT_MEM_REGION_SIZE
          Alignment,    \* RT_MEM_ALIGNMENT
          PageSize,     \* s_page_size, from GetSystemInfo
          Capacity,     \* RT_MEM_REGISTRY_CAPACITY, also the stack's
          Base,         \* the address MEM_RESERVE yields
          Counts,       \* the byte counts the program asks alloc_bytes for
          Lengths,      \* the byte counts it passes to copy and fill
          Byte,         \* byte values told apart: zero, poison and others
          Zero, Poison, \* 0x00 and 0xDD
          Discipline    \* which bytes the program writes: see Writable

ASSUME SizesAssumption ==
  /\ RegionSize \in Nat \ {0} /\ Alignment \in Nat \ {0}
  /\ PageSize \in Nat \ {0}   /\ Capacity \in Nat \ {0}
  /\ Base \in Nat \ {0}
  /\ Counts \subseteq Nat      /\ Lengths \subseteq Nat

\* 64 MiB is a whole number of pages; MEM_RESERVE answers on a 64 KiB boundary.
ASSUME GranularityAssumption ==
  /\ RegionSize % PageSize = 0
  /\ Base % Alignment = 0

ASSUME ByteAssumption == Zero \in Byte /\ Poison \in Byte /\ Zero # Poison

ASSUME DisciplineAssumption == Discipline \in {"carved", "committed"}

VARIABLES
  s_registry,          \* Slots -> [addr, size, state]
  s_live_count,
  s_free_count,
  s_region_base,       \* NULL until the first allocation reserves the region
  s_region_used,       \* bump offset
  s_region_committed,  \* committed bytes from the base
  hooks,               \* both reuse hooks are registered (rt_mem_reuse_init)
  handler,             \* the release-status handler is registered
  s_stack,             \* released blocks, oldest first
  mem,                 \* the bytes of the region
  ret,                 \* what the call just made returned (NULL if void)
  exit_code,           \* Running, or the code the process ended with
  stderr,              \* the trap record written, or NoRecord
  h_released           \* history: blocks released and not handed out again

registryVars == <<s_registry, s_live_count, s_free_count>>
regionVars   == <<s_region_base, s_region_used, s_region_committed>>
packageVars  == <<hooks, handler>>
processVars  == <<exit_code, stderr>>

vars == <<registryVars, regionVars, packageVars, processVars, s_stack, mem, ret,
          h_released>>

NULL     == 0
Running  == -1
TrapExit == 70
NoRecord == [code |-> "none", addr |-> NULL]

UNUSED == "UNUSED"
LIVE   == "LIVE"
FREE   == "FREE"

Slots      == 0 .. Capacity - 1
RegionAddr == Base .. Base + RegionSize - 1
Entry      == [addr : Nat, size : Nat, state : {UNUSED, LIVE, FREE}]
Freed      == [addr : Nat, size : Nat]
NoEntry    == [addr |-> NULL, size |-> 0, state |-> UNUSED]

\* The addresses of the block of n bytes at p.
Span(p, n) == p .. p + n - 1

-----------------------------------------------------------------------------
(* rt_mem_alloc.c, rt_mem_reuse.c: helpers                                 *)

\* v rounded up to a multiple of a; x & ~(a - 1) is x - x % a for a power of 2.
rt_mem_align_up(v, a) == (v + (a - 1)) - ((v + (a - 1)) % a)

Bug_NotRemoved(s, i) == s

\* The stack without its i-th entry: the shift loop of rt_mem_reuse_lookup.
Shifted(s, i) == [k \in 1 .. Len(s) - 1 |-> IF k < i THEN s[k] ELSE s[k + 1]]

\* i is the entry rt_mem_reuse_lookup(count) finds, scanning from the top.
Found(i, count) == /\ s_stack[i].size = count
                   /\ \A k \in i + 1 .. Len(s_stack) : s_stack[k].size # count

\* slot is the FREE entry at addr that rt_mem_registry_activate finds and takes.
Activated(slot, addr, count) ==
  /\ s_registry[slot].state = FREE /\ s_registry[slot].addr = addr
  /\ \A j \in 0 .. slot - 1 :
        ~ (s_registry[j].state = FREE /\ s_registry[j].addr = addr)
  /\ s_registry[slot].size = count

\* The lookup is not registered or finds nothing, or the core refuses what it
\* found; the lookup has dropped the refused entry from the stack all the same.
NoReuse(count) ==
  \/ /\ ~ (hooks /\ \E i \in DOMAIN s_stack : s_stack[i].size = count)
     /\ UNCHANGED s_stack
  \/ /\ hooks
     /\ \E i \in DOMAIN s_stack :
          /\ Found(i, count)
          /\ ~ \E slot \in Slots : Activated(slot, s_stack[i].addr, count)
          /\ s_stack' = Shifted(s_stack, i)

\* slot is the first entry that is not LIVE.
FirstNotLive(slot) == /\ s_registry[slot].state # LIVE
                      /\ \A j \in 0 .. slot - 1 : s_registry[j].state = LIVE

\* rt_mem_region_commit(need) when VirtualAlloc grants the pages.
Committed(need) ==
  s_region_committed' =
     IF need <= s_region_committed THEN s_region_committed ELSE need

\* Where the next fresh block starts.
Aligned == rt_mem_align_up(s_region_used, Alignment)

\* Where it ends, which is the next bump, and how far it needs pages.
Bump(count) == Aligned + count
Need(count) == rt_mem_align_up(Aligned + count, PageSize)

\* Taking a FREE slot for a fresh block leaves one FREE entry less.
Recycled(slot) ==
  s_free_count' = IF s_registry[slot].state = FREE THEN s_free_count - 1
                                                   ELSE s_free_count

Bug_NoMemset(p, n, value) == mem
Bug_FillShort(p, n, value) == [mem EXCEPT ![p] = value]
Bug_FillPast(p, n, value) ==
  [a \in RegionAddr |-> IF a \in p .. p + n THEN value ELSE mem[a]]

\* memset(p, value, n)
Filled(p, n, value) ==
  [a \in RegionAddr |-> IF a \in Span(p, n) THEN value ELSE mem[a]]

-----------------------------------------------------------------------------
\* A call that a running process makes and that returns v.
Returns(v) == exit_code = Running /\ ret' = v

(* rt_mem_alloc_bytes = rt_mem_core_alloc, one action per way it returns   *)

\* A zero-size or impossible request: NULL before any state is touched.
AllocRefused(count) ==
  /\ count = 0 \/ count > RegionSize
  /\ Returns(NULL)
  /\ UNCHANGED <<registryVars, regionVars, packageVars, processVars, s_stack,
                 mem, h_released>>

Possible(count) == count # 0 /\ count <= RegionSize

\* The lookup yields a FREE block of the exact size: LIVE again and re-zeroed.
AllocReused(count) ==
  /\ Possible(count) /\ hooks
  /\ \E i \in DOMAIN s_stack, slot \in Slots :
       /\ Found(i, count)
       /\ Activated(slot, s_stack[i].addr, count)
       /\ s_stack' = Shifted(s_stack, i)
       /\ s_registry' = [s_registry EXCEPT ![slot].state = LIVE]
       /\ mem' = Filled(s_stack[i].addr, count, Zero)
       /\ Returns(s_stack[i].addr)
       /\ h_released' = {b \in h_released : b.addr # s_stack[i].addr}
  /\ s_free_count' = s_free_count - 1
  /\ s_live_count' = s_live_count + 1
  /\ UNCHANGED <<regionVars, packageVars, processVars>>

\* MEM_RESERVE fails (the region is asked for again by the next call).
AllocNoRegion(count) ==
  /\ Possible(count) /\ NoReuse(count)
  /\ s_region_base = NULL
  /\ Returns(NULL)
  /\ UNCHANGED <<registryVars, regionVars, packageVars, processVars, mem,
                 h_released>>

\* The bump allocator has no room left.
AllocExhausted(count) ==
  /\ Possible(count) /\ NoReuse(count)
  /\ s_region_base' = Base
  /\ Aligned + count > RegionSize
  /\ Returns(NULL)
  /\ UNCHANGED <<registryVars, s_region_used, s_region_committed, packageVars,
                 processVars, mem, h_released>>

\* MEM_COMMIT fails.
AllocNoCommit(count) ==
  /\ Possible(count) /\ NoReuse(count)
  /\ s_region_base' = Base
  /\ Aligned + count <= RegionSize
  /\ Need(count) > s_region_committed
  /\ Returns(NULL)
  /\ UNCHANGED <<registryVars, s_region_used, s_region_committed, packageVars,
                 processVars, mem, h_released>>

\* Every slot is LIVE: NULL, after the pages have been committed.
AllocNoSlot(count) ==
  /\ Possible(count) /\ NoReuse(count)
  /\ s_region_base' = Base
  /\ Aligned + count <= RegionSize
  /\ Committed(Need(count))
  /\ \A slot \in Slots : s_registry[slot].state = LIVE
  /\ Returns(NULL)
  /\ UNCHANGED <<registryVars, s_region_used, packageVars, processVars, mem,
                 h_released>>

\* A fresh block; its registry slot may be the one of a released block.
AllocFresh(count) ==
  /\ Possible(count) /\ NoReuse(count)
  /\ s_region_base' = Base
  /\ Aligned + count <= RegionSize
  /\ Committed(Need(count))
  /\ \E slot \in Slots :
       /\ FirstNotLive(slot)
       /\ Recycled(slot)
       /\ s_registry' = [s_registry EXCEPT
            ![slot] = [addr |-> Base + Aligned, size |-> count, state |-> LIVE]]
  /\ s_live_count' = s_live_count + 1
  /\ s_region_used' = Bump(count)
  /\ Returns(Base + Aligned)
  /\ UNCHANGED <<packageVars, processVars, mem, h_released>>

rt_mem_alloc_bytes(count) ==
  \/ AllocRefused(count)   \/ AllocReused(count)
  \/ AllocNoRegion(count)  \/ AllocExhausted(count)
  \/ AllocNoCommit(count)  \/ AllocNoSlot(count)
  \/ AllocFresh(count)

-----------------------------------------------------------------------------
(* rt_mem_dealloc_bytes = rt_mem_core_release and the status handler       *)

\* slot is where the scan for p stops: the first entry at p that is in use.
Hit(slot, p) ==
  /\ s_registry[slot].addr = p /\ s_registry[slot].state # UNUSED
  /\ \A j \in 0 .. slot - 1 :
        ~ (s_registry[j].addr = p /\ s_registry[j].state # UNUSED)

\* rt_mem_reuse_on_release: poison the block, then track it if there is room.
rt_mem_reuse_on_release(p, size) ==
  /\ mem' = Filled(p, size, Poison)
  /\ s_stack' = IF Len(s_stack) < Capacity
                  THEN Append(s_stack, [addr |-> p, size |-> size])
                  ELSE s_stack

DeallocLive(p) ==
  /\ p # NULL
  /\ \E slot \in Slots :
       /\ Hit(slot, p) /\ s_registry[slot].state = LIVE
       /\ s_registry' = [s_registry EXCEPT ![slot].state = FREE]
       /\ \/ hooks /\ rt_mem_reuse_on_release(p, s_registry[slot].size)
          \/ ~ hooks /\ UNCHANGED <<mem, s_stack>>
       /\ h_released' = h_released \cup
                          {[addr |-> p, size |-> s_registry[slot].size]}
  /\ s_live_count' = s_live_count - 1
  /\ s_free_count' = s_free_count + 1
  /\ Returns(NULL)
  /\ UNCHANGED <<regionVars, packageVars, processVars>>

\* rt_mem_trap_release_status: the record, if memory suffices to build it, and
\* exit(70) in any case.  Without the handler a bad release is ignored.
BadRelease(code, p) ==
  /\ \/ /\ handler
        /\ stderr' \in {[code |-> code, addr |-> p], NoRecord}
        /\ exit_code' = TrapExit
     \/ /\ ~ handler
        /\ UNCHANGED processVars
  /\ Returns(NULL)
  /\ UNCHANGED <<registryVars, regionVars, packageVars, s_stack, mem,
                 h_released>>

\* RT_MEM_REL_DOUBLE: the entry found is FREE.
DeallocDouble(p) ==
  /\ p # NULL
  /\ \E slot \in Slots : Hit(slot, p) /\ s_registry[slot].state = FREE
  /\ BadRelease("AIC-R0812", p)

Bug_InvalidAsDouble(p) ==
  /\ p # NULL
  /\ ~ \E slot \in Slots : Hit(slot, p)
  /\ BadRelease("AIC-R0812", p)

\* RT_MEM_REL_INVALID: no entry starts at p.
DeallocInvalid(p) ==
  /\ p # NULL
  /\ ~ \E slot \in Slots : Hit(slot, p)
  /\ BadRelease("AIC-R0813", p)

DeallocNull(p) ==
  /\ p = NULL
  /\ Returns(NULL)
  /\ UNCHANGED <<registryVars, regionVars, packageVars, processVars, s_stack,
                 mem, h_released>>

rt_mem_dealloc_bytes(p) == \/ DeallocNull(p)   \/ DeallocLive(p)
                           \/ DeallocDouble(p) \/ DeallocInvalid(p)

-----------------------------------------------------------------------------
(* rt_mem_copy, rt_mem_fill.  They check nothing: which bytes the caller   *)
(* passes is its own affair, and Discipline says which it does.            *)

\* rt_mem_api.h asks only for "accessible bytes": "committed".  "carved" is a
\* program that stays below the bump (it may use released blocks and padding).
Writable(a) ==
  CASE Discipline = "committed" -> a < Base + s_region_committed
    [] Discipline = "carved"    -> a < Base + s_region_used

\* The bytes of the block of count bytes at dst become those of new.
Writes(dst, count, new) ==
  /\ Span(dst, count) \subseteq RegionAddr
  /\ \A a \in Span(dst, count) : Writable(a)
  /\ mem' = [a \in RegionAddr |->
               IF a \in Span(dst, count) THEN new[a] ELSE mem[a]]
  /\ Returns(NULL)
  /\ UNCHANGED <<registryVars, regionVars, packageVars, processVars, s_stack,
                 h_released>>

\* memmove: the bytes read are those before the step, overlap or not.
rt_mem_copy(dst, src, count) ==
  /\ Span(src, count) \subseteq Base .. Base + s_region_committed - 1
  /\ Writes(dst, count, [a \in Span(dst, count) |-> mem[src + (a - dst)]])

rt_mem_fill(dst, value, count) ==
  Writes(dst, count, [a \in Span(dst, count) |-> value])

-----------------------------------------------------------------------------
(* Registration                                                            *)

rt_mem_reuse_init ==
  /\ hooks' = TRUE /\ Returns(NULL)
  /\ UNCHANGED <<registryVars, regionVars, handler, processVars, s_stack, mem,
                 h_released>>

rt_mem_trap_init ==
  /\ handler' = TRUE /\ Returns(NULL)
  /\ UNCHANGED <<registryVars, regionVars, hooks, processVars, s_stack, mem,
                 h_released>>

-----------------------------------------------------------------------------
Init ==
  /\ s_registry = [slot \in Slots |-> NoEntry]
  /\ s_live_count = 0 /\ s_free_count = 0
  /\ s_region_base = NULL /\ s_region_used = 0 /\ s_region_committed = 0
  /\ hooks = FALSE /\ handler = FALSE
  /\ s_stack = <<>>
  /\ mem = [a \in RegionAddr |-> Zero]  \* what MEM_COMMIT makes of a fresh page
  /\ ret = NULL
  /\ exit_code = Running /\ stderr = NoRecord
  /\ h_released = {}

\* Pointers the program may pass: NULL, any of the region, one past either end.
Pointer == {NULL} \cup (Base - 1 .. Base + RegionSize)

\* A process that has exited makes no more calls.
Next == \/ \E count \in Counts : rt_mem_alloc_bytes(count)
        \/ \E p \in Pointer : rt_mem_dealloc_bytes(p)
        \/ \E dst \in RegionAddr, src \in RegionAddr, count \in Lengths :
             rt_mem_copy(dst, src, count)
        \/ \E dst \in RegionAddr, value \in Byte, count \in Lengths :
             rt_mem_fill(dst, value, count)
        \/ rt_mem_reuse_init
        \/ rt_mem_trap_init

Spec == Init /\ [][Next]_vars

-----------------------------------------------------------------------------
(* Properties                                                              *)

\* Type correctness of the allocator's static variables.
TypeOK ==
  /\ s_registry \in [Slots -> Entry]
  /\ s_live_count \in Int /\ s_free_count \in Int
  /\ s_region_base \in {NULL, Base}
  /\ s_region_used \in Nat /\ s_region_committed \in Nat
  /\ hooks \in BOOLEAN /\ handler \in BOOLEAN
  /\ s_stack \in Seq(Freed) /\ Len(s_stack) <= Capacity
  /\ mem \in [RegionAddr -> Byte]
  /\ ret \in Nat
  /\ exit_code \in {Running, TrapExit}
  /\ stderr \in [code : {"none", "AIC-R0812", "AIC-R0813"}, addr : Nat]
  /\ h_released \subseteq Freed

IsLive(slot) == s_registry[slot].state = LIVE

\* Blocks b and c share no byte.
Apart(b, c) == b.addr + b.size <= c.addr \/ c.addr + c.size <= b.addr

\* No two blocks owned by the program overlap, whatever mix of fresh, recycled
\* and reused blocks rt_mem_core_alloc has handed out.
LiveApart ==
  \A i, j \in Slots :
    IsLive(i) /\ IsLive(j) /\ i # j => Apart(s_registry[i], s_registry[j])

\* Every owned block is not empty and lies inside the committed pages of the
\* region, below the bump (rt_mem_alloc.h: the allocator never returns an
\* address outside the region).
LiveInside ==
  /\ s_region_used <= s_region_committed
  /\ s_region_committed <= RegionSize
  /\ \A i \in Slots : IsLive(i) =>
       /\ s_region_base = Base
       /\ s_registry[i].size > 0
       /\ Base <= s_registry[i].addr
       /\ s_registry[i].addr + s_registry[i].size <= Base + s_region_used

\* s_live_count and s_free_count are the numbers of LIVE and FREE entries,
\* through recycling of FREE slots and through reuse: neither wraps below 0.
CountsExact ==
  /\ s_live_count = Cardinality({i \in Slots : s_registry[i].state = LIVE})
  /\ s_free_count = Cardinality({i \in Slots : s_registry[i].state = FREE})

\* A block on the reuse stack is nobody's: it shares no byte with an owned
\* block nor with another block of the stack, so the pointer a lookup pops can
\* never alias a live allocation, not even when its slot has been recycled.
TrackedApart ==
  /\ \A k \in DOMAIN s_stack, i \in Slots :
       IsLive(i) => Apart(s_stack[k], s_registry[i])
  /\ \A k, m \in DOMAIN s_stack : k # m => Apart(s_stack[k], s_stack[m])

\* The registry, the region, the counters and the reuse stack agree, whatever
\* was recycled, reused or refused on the way.
RegistrySound == LiveApart /\ LiveInside /\ CountsExact /\ TrackedApart

\* A block enters the reuse stack with every byte 0xDD (ADR-004: poisoned before
\* it is eligible), and no later allocation or release touches its bytes while
\* it waits there: only the program itself could write them.
PoisonKept ==
  s_registry' # s_registry =>
    \A k \in DOMAIN s_stack' :
      \A a \in Span(s_stack'[k].addr, s_stack'[k].size) :
        \/ mem'[a] = Poison
        \/ /\ mem'[a] = mem[a]
           /\ \E m \in DOMAIN s_stack : s_stack[m] = s_stack'[k]
TrackedPoisoned == [][PoisonKept]_vars

\* An owned block keeps its place, and a call that changes the registry (an
\* allocation or a release) changes no byte of a block owned before and after:
\* poisoning and re-zeroing stay inside the block they are meant for.
KeepsOwned ==
  \A i \in Slots :
    IsLive(i) /\ s_registry'[i].state = LIVE =>
      /\ s_registry'[i] = s_registry[i]
      /\ s_registry' # s_registry =>
           \A a \in Span(s_registry[i].addr, s_registry[i].size) :
             mem'[a] = mem[a]
OwnedUndisturbed == [][KeepsOwned]_vars

\* A failing call of rt_mem_alloc_bytes takes nothing: a step that changes no
\* registry entry leaves the bump, the counters and the blocks owed alone (what
\* it may keep is the reservation and the pages it committed).
NoLeak ==
  s_registry' = s_registry =>
    UNCHANGED <<s_region_used, s_live_count, s_free_count, h_released>>
FailureTakesNothing == [][NoLeak]_vars

\* A release trap is justified: AIC-R0812 names the start of a block that was
\* released and not handed out since, and neither trap names a block the program
\* still owns.
TrapJustified ==
  stderr # NoRecord =>
    /\ exit_code = TrapExit
    /\ ~ \E i \in Slots : IsLive(i) /\ s_registry[i].addr = stderr.addr
    /\ stderr.code = "AIC-R0812" => \E b \in h_released : b.addr = stderr.addr

-----------------------------------------------------------------------------
(* The allocator implements its contract                                   *)

OwnedBlocks == {[addr |-> s_registry[i].addr, size |-> s_registry[i].size] :
                  i \in {j \in Slots : IsLive(j)}}
OwnedBytes  == {a \in RegionAddr : \E b \in OwnedBlocks : a \in Span(b.addr, b.size)}

Contract == INSTANCE RtMemContract
              WITH owned <- OwnedBlocks, bytes <- [a \in OwnedBytes |-> mem[a]],
                   trapped <- exit_code # Running

\* Every allocation, release, copy, fill and trap of the allocator is a step
\* its contract allows, with recycling, reuse and poisoning hidden: a block the
\* program gets is aligned, shares no byte with one it owns and reads as zero,
\* whatever was written where before.
ImplementsContract == Contract!Spec
=============================================================================
