-------------------------------- MODULE RtIo --------------------------------
(***************************************************************************)
(* File I/O of the Stage-0 runtime (bootstrap/runtime/rt_io):              *)
(*   rt_io_core.c   handle table, open, read, write, close, AIC-R0807      *)
(*   rt_io_stdio.c  stdin/stdout/stderr, invalid-handle trap AIC-R0814     *)
(*                                                                         *)
(* A runtime handle indexes a table of OS handles; 0 is no handle.  The    *)
(* operating system is modelled as far as the runtime relies on it: OS     *)
(* handle values are reused once closed, an open OS handle has a position  *)
(* of its own, and every call may fail.  A buffer is abstracted to one     *)
(* byte value repeated; a path is a file, or "bad" (too long, empty or not *)
(* UTF-8).  The runtime is single-threaded, so one call is one step.       *)
(***************************************************************************)
EXTENDS Integers, Sequences, FiniteSets

CONSTANTS Capacity,              \* RT_IO_TABLE_CAPACITY
          OSHandle,              \* values CreateFileW can answer, positive
          Files,                 \* names of files on the disk
          MaxLen,                \* bound: bytes a file can hold
          Byte,                  \* byte values, 0 among them
          Lengths,               \* the lengths and counts programs pass
          DwordMax,              \* the largest count one OS call takes
          StdIn, StdOut, StdErr  \* what GetStdHandle answers: an OS handle,
                                 \* NULL or INVALID_HANDLE_VALUE

NULL    == 0
INVALID_HANDLE_VALUE == 65535    \* (HANDLE) -1, in 16 bits
Streams == {"stdin", "stdout", "stderr"}
Std     == [stdin |-> StdIn, stdout |-> StdOut, stderr |-> StdErr]

ASSUME RtIoAssumption ==
  /\ Capacity \in Nat \ {0} /\ MaxLen \in Nat /\ DwordMax \in Nat \ {0}
  /\ OSHandle \subseteq Nat \ {NULL, INVALID_HANDLE_VALUE}
  /\ Byte \subseteq Nat /\ 0 \in Byte /\ Lengths \subseteq Nat
  /\ Files \cap (Streams \cup {"bad", "closed", "lost", "unbuilt", ""}) = {}
  /\ \A s \in Streams : Std[s] \in OSHandle \cup {NULL, INVALID_HANDLE_VALUE}

VARIABLES
  s_handles,     \* slot -> OS handle, or NULL: free
  s_open_count,
  handler,       \* the invalid-handle handler is registered
  s_cache,       \* stream -> cached runtime handle, 0: not yet registered
  os,            \* OS handle -> what it is open on, where, and how
  exists, data,  \* the files on the disk and their bytes
  ret,           \* what the call just made returned (0 if void)
  seen,          \* the bytes it stored into the caller's buffer
  exit_code,     \* Running, or the code the process ended with
  trap           \* the trap record: code, arguments, where it was written

tableVars   == <<s_handles, s_open_count>>
fileVars    == <<exists, data>>
processVars == <<exit_code, trap>>

vars == <<tableVars, handler, s_cache, os, fileVars, ret, seen, processVars>>

Running  == -1
TrapExit == 70
NoTrap   == [code |-> "", handle |-> 0, buf_len |-> 0, count |-> 0, dest |-> ""]

Slots   == 1 .. Capacity
Handles == 0 .. Capacity + 1    \* what a program may pass as a handle
Modes   == 0 .. 4               \* 4 stands for every invalid mode
Closed  == [on |-> "closed", pos |-> 0, mode |-> 0]
Object  == [on : Files \cup Streams \cup {"closed"}, pos : 0 .. MaxLen, mode : 0 .. 3]
Bytes   == UNION {[1 .. n -> Byte] : n \in 0 .. MaxLen}

Least(a, b) == IF a < b THEN a ELSE b

\* The device behind a standard OS handle (two streams may share one).
Device(h) == CHOOSE s \in Streams : Std[s] = h

-----------------------------------------------------------------------------
(* Helpers                                                                 *)

Valid(handle) == handle \in Slots /\ s_handles[handle] # NULL

\* rt_io_table_first_free() = slot
FirstFree(slot) == /\ s_handles[slot] = NULL
                   /\ \A i \in 1 .. slot - 1 : s_handles[i] # NULL
TableFull == \A i \in Slots : s_handles[i] # NULL

Enter(slot, h) == /\ s_handles' = [s_handles EXCEPT ![slot] = h]
                  /\ s_open_count' = s_open_count + 1

CanRead(o)  == o.mode \in {0, 3}
CanWrite(o) == o.mode \in {1, 2, 3}
Truncates(mode) == mode \in {1, 3}

\* CreateFileW succeeds on f: the file may be created and truncated.
CreateFileW(mode, f) ==
  /\ mode = 0 => f \in exists
  /\ exists' = exists \cup {f}
  /\ data' = IF Truncates(mode) THEN [data EXCEPT ![f] = <<>>] ELSE data

\* What a fresh OS handle on f is: SetFilePointerEx moves an append handle.
Fresh(mode, f) ==
  [on |-> f, mode |-> mode, pos |-> IF mode = 2 THEN Len(data[f]) ELSE 0]

\* The DWORD an OS call is asked for.
Want(count) == Least(count, DwordMax)

\* bytes with k copies of b stored at offset pos, the gap before it zero.
Stored(bytes, pos, k, b) ==
  LET last == IF pos + k > Len(bytes) THEN pos + k ELSE Len(bytes)
  IN [i \in 1 .. last |-> IF i \in pos + 1 .. pos + k THEN b
                          ELSE IF i <= Len(bytes) THEN bytes[i] ELSE 0]

-----------------------------------------------------------------------------
\* A call that a running process makes; it returns v and stored bs.
Returns(v, bs) == exit_code = Running /\ ret' = v /\ seen' = bs

(* rt_io_open                                                              *)

\* An invalid mode or path, or CreateFileW answers INVALID_HANDLE_VALUE.
OpenFails(mode, path) ==
  /\ Returns(0, <<>>)
  /\ UNCHANGED <<tableVars, handler, s_cache, os, fileVars, processVars>>

\* SetFilePointerEx fails: the OS handle is closed again.
OpenUnpositioned(f) ==
  /\ \E h \in OSHandle : os[h] = Closed
  /\ CreateFileW(2, f)
  /\ Returns(0, <<>>)
  /\ UNCHANGED <<tableVars, handler, s_cache, os, processVars>>

Bug_OpenLeaks(mode, f) ==
  /\ mode \in 0 .. 3 /\ TableFull
  /\ \E h \in OSHandle : /\ os[h] = Closed
                         /\ os' = [os EXCEPT ![h] = Fresh(mode, f)]
  /\ CreateFileW(mode, f)
  /\ Returns(0, <<>>)
  /\ UNCHANGED <<tableVars, handler, s_cache, processVars>>

\* No slot: the OS handle is closed again, the file stays created/truncated.
OpenTableFull(mode, f) ==
  /\ mode \in 0 .. 3 /\ TableFull
  /\ \E h \in OSHandle : os[h] = Closed
  /\ CreateFileW(mode, f)
  /\ Returns(0, <<>>)
  /\ UNCHANGED <<tableVars, handler, s_cache, os, processVars>>

Opened(mode, f) ==
  /\ mode \in 0 .. 3
  /\ \E h \in OSHandle, slot \in Slots :
       /\ os[h] = Closed
       /\ FirstFree(slot)
       /\ CreateFileW(mode, f)
       /\ os' = [os EXCEPT ![h] = Fresh(mode, f)]
       /\ Enter(slot, h)
       /\ Returns(slot, <<>>)
  /\ UNCHANGED <<handler, s_cache, processVars>>

(* Invalid handles: the default no-op, or the registered handler           *)

InvalidIgnored(handle) ==
  /\ ~ Valid(handle) /\ ~ handler
  /\ Returns(0, <<>>)
  /\ UNCHANGED <<tableVars, handler, s_cache, os, fileVars, processVars>>

\* Where the C library's stderr stream, bound at startup to the OS handle of
\* standard error, takes the record when it is written.
RecordGoesTo == IF Std["stderr"] \in OSHandle /\ CanWrite(os[Std["stderr"]])
                  THEN os[Std["stderr"]].on ELSE "lost"

\* A trap: the record is written to stderr unless it cannot be built (out of
\* memory), and the process ends with code 70 in both cases.
Trap(code, handle, buf_len, count) ==
  /\ exit_code = Running
  /\ exit_code' = TrapExit
  /\ \E dest \in {RecordGoesTo, "unbuilt"} :
       trap' = [code |-> code, handle |-> handle, buf_len |-> buf_len,
                count |-> count, dest |-> dest]
  /\ UNCHANGED <<tableVars, handler, s_cache, os, fileVars, ret, seen>>

\* rt_io_stdio_invalid_handle: read, write or close on an invalid handle.
TrapInvalid(handle) ==
  /\ ~ Valid(handle) /\ handler
  /\ Trap("AIC-R0814", handle, 0, 0)

(* rt_io_read                                                              *)

Bug_BufferOrder(handle, buf_len, count) ==
  /\ count > buf_len
  /\ Trap("AIC-R0807", handle, buf_len, count)

\* rt_io_trap_read_buf
ReadTooSmall(handle, buf_len, count) ==
  /\ Valid(handle)
  /\ count > buf_len
  /\ Trap("AIC-R0807", handle, buf_len, count)

\* Nothing asked for, end of file, or ReadFile fails.
ReadNothing(handle, buf_len, count) ==
  /\ Valid(handle) /\ count <= buf_len
  /\ Returns(0, <<>>)
  /\ UNCHANGED <<tableVars, handler, s_cache, os, fileVars, processVars>>

\* The OS handle h after k bytes more have been read or written.
Advanced(h, k) == [os EXCEPT ![h].pos = @ + k]

ReadFile(handle, buf_len, count) ==
  /\ Valid(handle) /\ count <= buf_len /\ count > 0
  /\ LET h == s_handles[handle]
         o == os[h]
         k == Least(Want(count), Len(data[o.on]) - o.pos)
     IN /\ o.on \in Files /\ CanRead(o) /\ k > 0
        /\ os' = Advanced(h, k)
        /\ Returns(k, SubSeq(data[o.on], o.pos + 1, o.pos + k))
  /\ UNCHANGED <<tableVars, handler, s_cache, fileVars, processVars>>

\* A console or pipe hands over what it has.
ReadDevice(handle, buf_len, count) ==
  /\ Valid(handle) /\ count <= buf_len
  /\ os[s_handles[handle]].on \in Streams
  /\ \E k \in 1 .. Want(count), b \in Byte : Returns(k, [i \in 1 .. k |-> b])
  /\ UNCHANGED <<tableVars, handler, s_cache, os, fileVars, processVars>>

(* rt_io_write                                                             *)

\* effective: never past the source slice
Effective(buf_len, count) == Least(count, buf_len)

\* Nothing to write, or WriteFile fails.
WriteNothing(handle, buf_len, count) ==
  /\ Valid(handle)
  /\ Returns(0, <<>>)
  /\ UNCHANGED <<tableVars, handler, s_cache, os, fileVars, processVars>>

\* MaxLen bounds the file: a full disk makes WriteFile fail.
WriteFile(handle, buf_len, count, b) ==
  /\ Valid(handle)
  /\ LET h == s_handles[handle]
         o == os[h]
         k == Want(Effective(buf_len, count))
     IN /\ o.on \in Files /\ CanWrite(o) /\ k > 0 /\ o.pos + k <= MaxLen
        /\ data' = [data EXCEPT ![o.on] = Stored(@, o.pos, k, b)]
        /\ os' = Advanced(h, k)
        /\ Returns(k, <<>>)
  /\ UNCHANGED <<tableVars, handler, s_cache, exists, processVars>>

WriteDevice(handle, buf_len, count) ==
  /\ Valid(handle)
  /\ os[s_handles[handle]].on \in Streams
  /\ \E k \in 1 .. Want(Effective(buf_len, count)) : Returns(k, <<>>)
  /\ UNCHANGED <<tableVars, handler, s_cache, os, fileVars, processVars>>

(* rt_io_close                                                             *)

\* CloseHandle's answer is ignored; it fails on a handle already closed.
rt_io_close(handle) ==
  /\ Valid(handle)
  /\ os' = [os EXCEPT ![s_handles[handle]] = Closed]
  /\ s_handles' = [s_handles EXCEPT ![handle] = NULL]
  /\ s_open_count' = s_open_count - 1
  /\ Returns(0, <<>>)
  /\ UNCHANGED <<handler, s_cache, fileVars, processVars>>

(* rt_io_stdio.c: registration and the standard streams                    *)

rt_io_stdio_init ==
  /\ handler' = TRUE
  /\ Returns(0, <<>>)
  /\ UNCHANGED <<tableVars, s_cache, os, fileVars, processVars>>

\* The cached runtime handle.
StreamCached(s) ==
  /\ s_cache[s] # 0
  /\ Returns(s_cache[s], <<>>)
  /\ UNCHANGED <<tableVars, handler, s_cache, os, fileVars, processVars>>

\* No OS handle, or no slot: 0, which is not cached.
StreamRefused(s) ==
  /\ s_cache[s] = 0
  /\ Std[s] \in {NULL, INVALID_HANDLE_VALUE} \/ TableFull
  /\ Returns(0, <<>>)
  /\ UNCHANGED <<tableVars, handler, s_cache, os, fileVars, processVars>>

\* rt_io_core_register_handle(GetStdHandle(s)), cached.
StreamRegistered(s) ==
  /\ s_cache[s] = 0
  /\ Std[s] \in OSHandle
  /\ \E slot \in Slots :
       /\ FirstFree(slot)
       /\ Enter(slot, Std[s])
       /\ s_cache' = [s_cache EXCEPT ![s] = slot]
       /\ Returns(slot, <<>>)
  /\ UNCHANGED <<handler, os, fileVars, processVars>>

-----------------------------------------------------------------------------
Init ==
  /\ s_handles = [i \in Slots |-> NULL]
  /\ s_open_count = 0
  /\ handler = FALSE
  /\ s_cache = [s \in Streams |-> 0]
  /\ os = [h \in OSHandle |->
             IF \E s \in Streams : Std[s] = h
               THEN [on |-> Device(h), pos |-> 0, mode |-> 3] ELSE Closed]
  /\ exists = {} /\ data = [f \in Files |-> <<>>]
  /\ ret = 0 /\ seen = <<>>
  /\ exit_code = Running /\ trap = NoTrap

rt_io_open(mode, path) ==
  \/ OpenFails(mode, path)
  \/ path \in Files /\ mode = 2 /\ OpenUnpositioned(path)
  \/ path \in Files /\ OpenTableFull(mode, path)
  \/ path \in Files /\ Opened(mode, path)

rt_io_read(handle, buf_len, count) ==
  \/ ReadTooSmall(handle, buf_len, count)
  \/ ReadNothing(handle, buf_len, count)
  \/ ReadFile(handle, buf_len, count)
  \/ ReadDevice(handle, buf_len, count)

rt_io_write(handle, buf_len, count) ==
  \/ WriteNothing(handle, buf_len, count)
  \/ \E b \in Byte \ {0} : WriteFile(handle, buf_len, count, b)
  \/ WriteDevice(handle, buf_len, count)

rt_io_stdio_register_stream(s) ==
  StreamCached(s) \/ StreamRefused(s) \/ StreamRegistered(s)

Next ==
  \/ \E mode \in Modes, path \in Files \cup {"bad"} : rt_io_open(mode, path)
  \/ \E handle \in Handles, buf_len, count \in Lengths :
        rt_io_read(handle, buf_len, count) \/ rt_io_write(handle, buf_len, count)
  \/ \E handle \in Handles : \/ rt_io_close(handle)
                             \/ InvalidIgnored(handle)
                             \/ TrapInvalid(handle)
  \/ \E s \in Streams : rt_io_stdio_register_stream(s)
  \/ rt_io_stdio_init

Spec == Init /\ [][Next]_vars

-----------------------------------------------------------------------------
(* Properties                                                              *)

Occupied == {i \in Slots : s_handles[i] # NULL}

\* The shape of the state; the counter is the number of occupied slots.
TypeOK ==
  /\ s_handles \in [Slots -> OSHandle \cup {NULL}]
  /\ s_open_count = Cardinality(Occupied)
  /\ handler \in BOOLEAN
  /\ s_cache \in [Streams -> 0 .. Capacity]
  /\ os \in [OSHandle -> Object]
  /\ exists \subseteq Files /\ data \in [Files -> Bytes]
  /\ ret \in Nat /\ seen \in Seq(Byte)
  /\ exit_code \in {Running, TrapExit}

\* Ownership of OS handles: an occupied slot refers to an OS handle that is
\* open, and to one no other slot refers to, so that closing a runtime handle
\* never closes what another one stands for; and no OS handle leaks on any
\* failure path: one that is open is in the table, or is a standard handle the
\* program has not asked for.  The counter is the number of occupied slots.
HandlesOwned ==
  /\ TypeOK
  /\ \A i \in Occupied : os[s_handles[i]] # Closed
  /\ \A i, j \in Occupied : s_handles[i] = s_handles[j] => i = j
  /\ \A h \in OSHandle : os[h] # Closed =>
       \/ \E i \in Occupied : s_handles[i] = h
       \/ \E s \in Streams : Std[s] = h /\ s_cache[s] = 0

-----------------------------------------------------------------------------
(* The handle table implements the contract of rt.io                       *)

Contract == INSTANCE RtIoContract
              WITH handles <- [i \in Slots |-> IF s_handles[i] = NULL THEN Closed
                                               ELSE os[s_handles[i]]],
                   answered <- s_cache, registered <- handler,
                   ended <- exit_code # Running,
                   report <- [code |-> trap.code, handle |-> trap.handle,
                              buf_len |-> trap.buf_len, count |-> trap.count]

\* Whatever the OS does, a program sees what the contract allows: its handles
\* stand for independent open files, though OS handle values and slots are
\* reused; and a trap blames a handle that stands for nothing, or a buffer too
\* small behind one that stands for something, a call with both defects
\* included.
ImplementsContract == Contract!Spec

-----------------------------------------------------------------------------
(* What the documentation says and the code does not do                    *)

\* ADR-005: "a nonzero return value denotes a successfully registered, usable
\* runtime-managed handle for the corresponding OS standard stream".  The cache
\* survives the close of the handle it holds.
StreamCallAnswersStream ==
  [][\A s \in Streams :
       rt_io_stdio_register_stream(s) /\ ret' # 0
         => /\ s_handles'[ret'] = Std[s]
            /\ os'[Std[s]].on = s]_vars
=============================================================================
