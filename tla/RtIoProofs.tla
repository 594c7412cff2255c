----------------------------- MODULE RtIoProofs -----------------------------
(***************************************************************************)
(* The safety of the handles of RtIo and their contract, for every         *)
(* capacity of the table, set of OS handles, files and programs.           *)
(*                                                                         *)
(* That no two slots share an OS handle and that none leaks is not         *)
(* inductive: a stream is entered with whatever OS handle GetStdHandle     *)
(* answers.  Owned adds that a stream not asked for yet is still open and  *)
(* untouched, and in no slot.                                              *)
(*                                                                         *)
(* The theorems assume that the process was given a different OS handle    *)
(* for each standard stream; the runtime does not look, and with a shared  *)
(* one a close takes both streams away.                                    *)
(***************************************************************************)
EXTENDS RtIo, FiniteSetTheorems, TLAPS

StreamsApart ==
  \A s, t \in Streams : Std[s] \in OSHandle /\ Std[s] = Std[t] => s = t

Untouched(s) == [on |-> s, pos |-> 0, mode |-> 3]

OccupiedOpen == \A i \in Slots : s_handles[i] # NULL => os[s_handles[i]] # Closed
OneSlotEach  == \A i, j \in Slots :
                  s_handles[i] # NULL /\ s_handles[i] = s_handles[j] => i = j
NoneLeaks    == \A h \in OSHandle : os[h] # Closed =>
                  \/ \E i \in Slots : s_handles[i] = h
                  \/ \E s \in Streams : Std[s] = h /\ s_cache[s] = 0
StreamsWait  == \A s \in Streams : s_cache[s] = 0 /\ Std[s] \in OSHandle =>
                  /\ os[Std[s]] = Untouched(s)
                  /\ \A i \in Slots : s_handles[i] # Std[s]

Owned == OccupiedOpen /\ OneSlotEach /\ NoneLeaks /\ StreamsWait

\* The inductive invariant.
IInv == TypeOK /\ Owned

-----------------------------------------------------------------------------
(* Facts about the data                                                    *)

\* What the assumption says of names and values that must not be confused.
LEMMA Names ==
  /\ NULL \notin OSHandle
  /\ "closed" \notin Files /\ "closed" \notin Streams
  /\ Files \cap Streams = {}
  /\ \A s \in Streams : Std[s] \in OSHandle \cup {NULL, INVALID_HANDLE_VALUE}
  /\ MaxLen \in Nat /\ 0 \in Byte /\ Byte \subseteq Nat /\ Capacity \in Nat \ {0}
  /\ DwordMax \in Nat \ {0} /\ Lengths \subseteq Nat
<1>1. /\ OSHandle \subseteq Nat \ {NULL, INVALID_HANDLE_VALUE}
      /\ Files \cap (Streams \cup {"bad", "closed", "lost", "unbuilt", ""}) = {}
      /\ \A s \in Streams : Std[s] \in OSHandle \cup {NULL, INVALID_HANDLE_VALUE}
      /\ MaxLen \in Nat /\ 0 \in Byte /\ Byte \subseteq Nat /\ Capacity \in Nat \ {0}
      /\ DwordMax \in Nat \ {0} /\ Lengths \subseteq Nat
  BY RtIoAssumption DEF RtIoAssumption
<1>2. "closed" \notin Streams
  BY DEF Streams
<1> QED
  BY <1>1, <1>2

\* Contents of a file are a sequence of at most MaxLen bytes.
LEMMA BytesAreSeq ==
  ASSUME NEW b \in Bytes
  PROVE  b \in Seq(Byte) /\ Len(b) \in 0 .. MaxLen /\ DOMAIN b = 1 .. Len(b)
<1>1. PICK n \in 0 .. MaxLen : b \in [1 .. n -> Byte]
  BY DEF Bytes
<1>2. n \in Nat
  BY <1>1, Names
<1>3. b \in Seq(Byte) /\ Len(b) = n
  BY <1>1, <1>2
<1> QED
  BY <1>1, <1>3

LEMMA NoBytes == <<>> \in Bytes /\ <<>> \in Seq(Byte)
<1>1. 0 \in 0 .. MaxLen
  BY Names
<1>2. <<>> \in [1 .. 0 -> Byte]
  OBVIOUS
<1> QED
  BY <1>1, <1>2 DEF Bytes

\* A write leaves a file whose bytes are those written in their place, and
\* the old ones elsewhere; nothing is cut off.
LEMMA StoredBytes ==
  ASSUME NEW d \in Bytes, NEW p \in Nat, NEW k \in Nat, p + k <= MaxLen, NEW b \in Byte
  PROVE  /\ Stored(d, p, k, b) \in Bytes
         /\ Len(Stored(d, p, k, b)) >= Len(d)
         /\ \A n \in 1 .. Len(d) : n \notin p + 1 .. p + k => Stored(d, p, k, b)[n] = d[n]
<1> DEFINE last == IF p + k > Len(d) THEN p + k ELSE Len(d)
<1>1. d \in Seq(Byte) /\ Len(d) \in 0 .. MaxLen /\ DOMAIN d = 1 .. Len(d)
  BY BytesAreSeq
<1>2. MaxLen \in Nat /\ 0 \in Byte
  BY Names
<1>3. last \in 0 .. MaxLen /\ last >= Len(d)
  BY <1>1, <1>2
<1>4. \A i \in 1 .. last : (IF i \in p + 1 .. p + k THEN b
                            ELSE IF i <= Len(d) THEN d[i] ELSE 0) \in Byte
  BY <1>1, <1>2
<1>5. Stored(d, p, k, b) = [i \in 1 .. last |-> IF i \in p + 1 .. p + k THEN b
                              ELSE IF i <= Len(d) THEN d[i] ELSE 0]
  BY DEF Stored
<1>6. Stored(d, p, k, b) \in [1 .. last -> Byte]
  BY <1>4, <1>5
<1>7. Stored(d, p, k, b) \in Bytes
  BY <1>3, <1>6 DEF Bytes
<1>8. Len(Stored(d, p, k, b)) = last
  <2>1. DOMAIN Stored(d, p, k, b) = 1 .. last /\ last \in Nat
    BY <1>2, <1>3, <1>6
  <2> HIDE DEF last
  <2> QED
    BY <2>1
<1>9. \A n \in 1 .. Len(d) : n \notin p + 1 .. p + k => Stored(d, p, k, b)[n] = d[n]
  BY <1>1, <1>3, <1>5
<1> QED
  BY <1>3, <1>7, <1>8, <1>9

\* The model's write is the contract's.
LEMMA StoredIsWritten ==
  ASSUME NEW d \in Bytes, NEW p \in Nat, NEW k \in Nat, NEW b
  PROVE  Stored(d, p, k, b) = Contract!Written(d, p, k, b)
<1>1. Len(d) \in Nat /\ DOMAIN d = 1 .. Len(d)
  BY BytesAreSeq
<1> DEFINE last == IF p + k > Len(d) THEN p + k ELSE Len(d)
<1>2. last = (IF p + k < Len(d) THEN Len(d) ELSE p + k)
  BY <1>1
<1>3. \A i \in 1 .. last : (i <= Len(d)) <=> (i \in DOMAIN d)
  BY <1>1
<1>4. [i \in 1 .. last |-> IF i \in p + 1 .. p + k THEN b ELSE IF i <= Len(d) THEN d[i] ELSE 0]
       = [i \in 1 .. last |-> IF i \in p + 1 .. p + k THEN b ELSE IF i \in DOMAIN d THEN d[i] ELSE 0]
  BY SMTT(40), <1>3
<1> QED
  BY <1>2, <1>4 DEF Stored, Contract!Written

-----------------------------------------------------------------------------
(* What a step does to the table and the operating system                  *)

\* Neither the table nor what is open changes.
Still == UNCHANGED <<tableVars, s_cache, os>>

\* k bytes of a file are read or written through slot i.
Moves(i, k) == /\ Valid(i) /\ k \in Nat
               /\ os[s_handles[i]].on \in Files
               /\ os[s_handles[i]].pos + k <= MaxLen
               /\ os' = Advanced(s_handles[i], k)
               /\ UNCHANGED <<tableVars, s_cache>>

\* The bytes a read moves end inside the file, those of a write on the disk.
LEMMA ReadMoves ==
  ASSUME TypeOK, NEW i \in Handles, NEW b \in Lengths, NEW c \in Lengths, ReadFile(i, b, c)
  PROVE  /\ \E k \in Nat : Moves(i, k)
         /\ ret' \in Nat /\ seen' \in Seq(Byte)
         /\ exit_code = Running /\ UNCHANGED <<exists, data, exit_code, trap, handler>>
<1> DEFINE h == s_handles[i]
           d == data[os[h].on]
           p == os[h].pos
           k == Least(Want(c), Len(d) - p)
<1>1. h \in OSHandle /\ os[h] \in Object
  BY DEF TypeOK, ReadFile, Valid
<1>2. os[h].on \in Files /\ d \in Bytes /\ p \in 0 .. MaxLen
  BY <1>1 DEF TypeOK, ReadFile, Object
<1>3. d \in Seq(Byte) /\ Len(d) \in 0 .. MaxLen
  BY <1>2, BytesAreSeq
<1>4. Want(c) \in Nat
  BY Names DEF Want, Least
<1>5. k \in Nat /\ p + k <= Len(d)
  <2>1. k > 0
    BY DEF ReadFile
  <2>2. Len(d) - p \in Int
    BY SMTT(40), <1>2, <1>3, Names
  <2>3. k \in Int /\ k <= Len(d) - p
    BY <1>4, <2>2 DEF Least
  <2> HIDE DEF k, d, p
  <2> QED
    BY <1>2, <1>3, <2>1, <2>3, Names
<1>6. p + k <= MaxLen /\ p + 1 \in 1 .. Len(d) + 1
  <2> HIDE DEF k, d, p
  <2> QED
    BY <1>2, <1>3, <1>5, Names
<1>7. Moves(i, k)
  BY <1>2, <1>5, <1>6 DEF ReadFile, Moves, tableVars
<1>8. ret' = k /\ seen' = SubSeq(d, p + 1, p + k)
  BY DEF ReadFile, Returns
<1>9. SubSeq(d, p + 1, p + k) \in Seq(Byte)
  BY SMTT(40), <1>2, <1>3, <1>5, <1>6
<1> QED
  BY <1>5, <1>7, <1>8, <1>9 DEF ReadFile, Returns, fileVars, processVars

LEMMA WriteMoves ==
  ASSUME TypeOK, NEW i \in Handles, NEW n \in Lengths, NEW c \in Lengths, NEW b \in Byte \ {0},
         WriteFile(i, n, c, b)
  PROVE  /\ \E k \in Nat : Moves(i, k)
         /\ ret' \in Nat /\ seen' \in Seq(Byte) /\ data' \in [Files -> Bytes]
         /\ exit_code = Running /\ UNCHANGED <<exists, exit_code, trap, handler>>
<1> DEFINE h == s_handles[i]
           f == os[h].on
           p == os[h].pos
           k == Want(Effective(n, c))
<1>1. h \in OSHandle /\ os[h] \in Object
  BY DEF TypeOK, WriteFile, Valid
<1>2. f \in Files /\ data[f] \in Bytes /\ p \in 0 .. MaxLen
  BY <1>1 DEF TypeOK, WriteFile, Object
<1>3. Effective(n, c) \in Nat
  BY Names DEF Effective, Least
<1>4. k \in Nat /\ p + k <= MaxLen
  BY <1>3, Names DEF Want, Least, WriteFile
<1>5. Moves(i, k)
  BY <1>2, <1>4 DEF WriteFile, Moves, tableVars
<1>6. Stored(data[f], p, k, b) \in Bytes
  BY <1>2, <1>4, StoredBytes
<1>7. data' = [data EXCEPT ![f] = Stored(data[f], p, k, b)]
  BY DEF WriteFile
<1>8. data' \in [Files -> Bytes]
  BY <1>6, <1>7 DEF TypeOK
<1>9. ret' = k /\ seen' = <<>> /\ exit_code = Running
  BY DEF WriteFile, Returns
<1> QED
  BY <1>4, <1>5, <1>8, <1>9, NoBytes DEF WriteFile, processVars

\* What CreateFileW leaves on the disk.
LEMMA CreatedFiles ==
  ASSUME TypeOK, NEW f \in Files, NEW mode \in 0 .. 3, CreateFileW(mode, f)
  PROVE  exists' \subseteq Files /\ data' \in [Files -> Bytes]
  BY NoBytes DEF TypeOK, CreateFileW

\* Every step is one of five: nothing about the table changes, an OS handle
\* moves on, a file or a stream is entered, or a handle is closed.
Enters == \E mode \in 0 .. 3, f \in Files : Opened(mode, f)
Closes == \E i \in Handles : rt_io_close(i)
Registers == \E s \in Streams : StreamRegistered(s)
StepKind == Still \/ (\E i \in Slots, k \in Nat : Moves(i, k)) \/ Enters \/ Closes \/ Registers

LEMMA Kinds ==
  ASSUME TypeOK, Next
  PROVE  StepKind
<1>1. CASE \E mode \in Modes, path \in Files \cup {"bad"} : rt_io_open(mode, path)
  <2>1. PICK mode \in Modes, path \in Files \cup {"bad"} : rt_io_open(mode, path)
    BY <1>1
  <2>2. CASE path \in Files /\ Opened(mode, path)
    BY <2>2 DEF Opened, StepKind, Enters
  <2>3. CASE \/ OpenFails(mode, path)
             \/ OpenUnpositioned(path) \/ OpenTableFull(mode, path)
    BY <2>3 DEF OpenFails, OpenUnpositioned, OpenTableFull, StepKind, Still
  <2> QED
    BY <2>1, <2>2, <2>3 DEF rt_io_open
<1>2. CASE \E i \in Handles, n \in Lengths, c \in Lengths : rt_io_read(i, n, c)
  <2>1. PICK i \in Handles, n \in Lengths, c \in Lengths : rt_io_read(i, n, c)
    BY <1>2
  <2>2. CASE ReadFile(i, n, c)
    BY <2>2, ReadMoves DEF Moves, Valid, StepKind
  <2>3. CASE ReadTooSmall(i, n, c) \/ ReadNothing(i, n, c) \/ ReadDevice(i, n, c)
    BY <2>3 DEF ReadTooSmall, ReadNothing, ReadDevice, Trap, StepKind, Still
  <2> QED
    BY <2>1, <2>2, <2>3 DEF rt_io_read
<1>3. CASE \E i \in Handles, n \in Lengths, c \in Lengths : rt_io_write(i, n, c)
  <2>1. PICK i \in Handles, n \in Lengths, c \in Lengths : rt_io_write(i, n, c)
    BY <1>3
  <2>2. CASE \E b \in Byte \ {0} : WriteFile(i, n, c, b)
    BY <2>2, WriteMoves DEF Moves, Valid, StepKind
  <2>3. CASE WriteNothing(i, n, c) \/ WriteDevice(i, n, c)
    BY <2>3 DEF WriteNothing, WriteDevice, StepKind, Still
  <2> QED
    BY <2>1, <2>2, <2>3 DEF rt_io_write
<1>4. CASE \E i \in Handles : rt_io_close(i) \/ InvalidIgnored(i) \/ TrapInvalid(i)
  BY <1>4 DEF InvalidIgnored, TrapInvalid, Trap, StepKind, Still, Closes
<1>5. CASE \E s \in Streams : rt_io_stdio_register_stream(s)
  BY <1>5 DEF rt_io_stdio_register_stream, StreamCached, StreamRefused, StepKind, Still, Registers
<1>6. CASE rt_io_stdio_init
  BY <1>6 DEF rt_io_stdio_init, StepKind, Still
<1> QED
  BY <1>1, <1>2, <1>3, <1>4, <1>5, <1>6 DEF Next

-----------------------------------------------------------------------------
(* The shape of the state                                                  *)

TableOK == /\ s_handles \in [Slots -> OSHandle \cup {NULL}]
           /\ s_open_count = Cardinality(Occupied)
           /\ s_cache \in [Streams -> 0 .. Capacity]
           /\ os \in [OSHandle -> Object]
RestOK == /\ handler \in BOOLEAN
          /\ exists \subseteq Files /\ data \in [Files -> Bytes]
          /\ ret \in Nat /\ seen \in Seq(Byte)
          /\ exit_code \in {Running, TrapExit}

LEMMA TypeParts == TypeOK <=> TableOK /\ RestOK
  BY DEF TypeOK, TableOK, RestOK

LEMMA OccupiedFinite == IsFiniteSet(Occupied) /\ IsFiniteSet(Slots)
<1>1. IsFiniteSet(Slots)
  BY FS_Interval, Names DEF Slots
<1> QED
  BY <1>1, FS_Subset DEF Occupied

\* A slot more, a slot less: the counter follows.
LEMMA EnterCounts ==
  ASSUME TableOK, NEW slot \in Slots, NEW h \in OSHandle, FirstFree(slot), Enter(slot, h)
  PROVE  s_handles' \in [Slots -> OSHandle \cup {NULL}] /\ s_open_count' = Cardinality(Occupied')
<1>1. s_handles' = [s_handles EXCEPT ![slot] = h] /\ s_open_count' = s_open_count + 1
  BY DEF Enter
<1>2. s_handles' \in [Slots -> OSHandle \cup {NULL}]
  BY <1>1 DEF TableOK
<1>3. Occupied' = Occupied \cup {slot} /\ slot \notin Occupied
  BY <1>1, Names DEF TableOK, Occupied, FirstFree
<1>4. Cardinality(Occupied') = Cardinality(Occupied) + 1
  BY <1>3, OccupiedFinite, FS_AddElement
<1> QED
  BY <1>1, <1>2, <1>4 DEF TableOK

LEMMA CloseCounts ==
  ASSUME TableOK, NEW i \in Handles, rt_io_close(i)
  PROVE  s_handles' \in [Slots -> OSHandle \cup {NULL}] /\ s_open_count' = Cardinality(Occupied')
<1>1. i \in Occupied /\ i \in Slots
  BY DEF rt_io_close, Valid, Occupied
<1>2. s_handles' = [s_handles EXCEPT ![i] = NULL] /\ s_open_count' = s_open_count - 1
  BY DEF rt_io_close
<1>3. s_handles' \in [Slots -> OSHandle \cup {NULL}]
  BY <1>2 DEF TableOK
<1>4. Occupied' = Occupied \ {i}
  BY <1>1, <1>2 DEF TableOK, Occupied
<1>5. Cardinality(Occupied') = Cardinality(Occupied) - 1
  BY <1>1, <1>4, OccupiedFinite, FS_RemoveElement
<1> QED
  BY <1>2, <1>3, <1>5 DEF TableOK

\* A file just opened, at its start or at its end.
LEMMA FreshObject ==
  ASSUME TypeOK, NEW mode \in 0 .. 3, NEW f \in Files
  PROVE  Fresh(mode, f) \in Object /\ Fresh(mode, f).on = f
<1>1. data[f] \in Bytes
  BY DEF TypeOK
<1>2. (IF mode = 2 THEN Len(data[f]) ELSE 0) \in 0 .. MaxLen
  BY <1>1, BytesAreSeq, Names
<1> QED
  BY <1>2 DEF Fresh, Object

LEMMA ClosedObject == Closed \in Object
  BY Names DEF Closed, Object

LEMMA TableStep ==
  ASSUME TypeOK, Next
  PROVE  TableOK'
<1> USE TypeParts
<1>1. CASE Still
  BY <1>1 DEF Still, tableVars, TableOK, Occupied
<1>2. ASSUME NEW i \in Slots, NEW k \in Nat, Moves(i, k)
      PROVE  TableOK'
  <2> DEFINE h == s_handles[i]
  <2>1. h \in OSHandle /\ os[h] \in Object
    BY <1>2 DEF Moves, Valid, TableOK
  <2>2. os' = [os EXCEPT ![h] = [os[h] EXCEPT !.pos = os[h].pos + k]]
    BY <1>2, <2>1 DEF Moves, Advanced, TableOK
  <2>3. os[h].pos + k \in 0 .. MaxLen
    BY <1>2, <2>1, Names DEF Moves, Object
  <2>4. [os[h] EXCEPT !.pos = os[h].pos + k] \in Object
    BY <2>1, <2>3 DEF Object
  <2>5. os' \in [OSHandle -> Object]
    BY <2>1, <2>2, <2>4 DEF TableOK
  <2> QED
    BY <1>2, <2>5 DEF Moves, tableVars, TableOK, Occupied
<1>3. CASE Enters
  <2>1. PICK mode \in 0 .. 3, f \in Files : Opened(mode, f)
    BY <1>3 DEF Enters
  <2>2. PICK h \in OSHandle, slot \in Slots :
          FirstFree(slot) /\ os' = [os EXCEPT ![h] = Fresh(mode, f)] /\ Enter(slot, h)
    BY <2>1 DEF Opened
  <2>3. os' \in [OSHandle -> Object]
    BY <2>2, FreshObject DEF TableOK
  <2>4. s_cache' = s_cache
    BY <2>1 DEF Opened
  <2> QED
    BY <2>2, <2>3, <2>4, EnterCounts DEF TableOK
<1>4. CASE Closes
  <2>1. PICK i \in Handles : rt_io_close(i)
    BY <1>4 DEF Closes
  <2>2. os' = [os EXCEPT ![s_handles[i]] = Closed] /\ s_cache' = s_cache
    BY <2>1 DEF rt_io_close
  <2>3. os' \in [OSHandle -> Object]
    BY <2>2, ClosedObject DEF TableOK
  <2> QED
    BY <2>1, <2>2, <2>3, CloseCounts DEF TableOK
<1>5. CASE Registers
  <2>1. PICK s \in Streams : StreamRegistered(s)
    BY <1>5 DEF Registers
  <2>2. PICK slot \in Slots :
          FirstFree(slot) /\ Enter(slot, Std[s]) /\ s_cache' = [s_cache EXCEPT ![s] = slot]
    BY <2>1 DEF StreamRegistered
  <2>3. Std[s] \in OSHandle /\ os' = os
    BY <2>1 DEF StreamRegistered
  <2>4. s_cache' \in [Streams -> 0 .. Capacity]
    BY <2>2, Names DEF TableOK, Slots
  <2> QED
    BY <2>2, <2>3, <2>4, EnterCounts DEF TableOK
<1> QED
  BY Kinds, <1>1, <1>2, <1>3, <1>4, <1>5 DEF StepKind

LEMMA RestStep ==
  ASSUME TypeOK, Next
  PROVE  RestOK'
<1> USE TypeParts
<1>0. RestOK
  OBVIOUS
<1>1. CASE \E mode \in Modes, path \in Files \cup {"bad"} : rt_io_open(mode, path)
  <2>1. PICK mode \in Modes, path \in Files \cup {"bad"} : rt_io_open(mode, path)
    BY <1>1
  <2>2. CASE OpenFails(mode, path)
    BY <1>0, <2>2, NoBytes DEF OpenFails, Returns, RestOK, fileVars, processVars
  <2>3. CASE path \in Files /\ mode = 2 /\ OpenUnpositioned(path)
    BY <1>0, <2>3, NoBytes, CreatedFiles DEF OpenUnpositioned, Returns, RestOK, processVars
  <2>4. CASE path \in Files /\ OpenTableFull(mode, path)
    BY <1>0, <2>4, NoBytes, CreatedFiles DEF OpenTableFull, Returns, RestOK, processVars
  <2>5. CASE path \in Files /\ Opened(mode, path)
    <3>1. PICK slot \in Slots : CreateFileW(mode, path) /\ Returns(slot, <<>>)
      BY <2>5 DEF Opened
    <3>2. slot \in Nat /\ mode \in 0 .. 3
      BY <2>5, Names DEF Slots, Opened
    <3>3. exists' \subseteq Files /\ data' \in [Files -> Bytes]
      BY <2>5, <3>1, <3>2, CreatedFiles
    <3> QED
      BY <1>0, <2>5, <3>1, <3>2, <3>3, NoBytes DEF Opened, Returns, RestOK, processVars
  <2> QED
    BY <2>1, <2>2, <2>3, <2>4, <2>5 DEF rt_io_open
<1>2. CASE \E i \in Handles, n \in Lengths, c \in Lengths : rt_io_read(i, n, c)
  <2>1. PICK i \in Handles, n \in Lengths, c \in Lengths : rt_io_read(i, n, c)
    BY <1>2
  <2>2. CASE ReadFile(i, n, c)
    BY <1>0, <2>2, ReadMoves DEF RestOK
  <2>3. CASE ReadTooSmall(i, n, c)
    BY <1>0, <2>3 DEF ReadTooSmall, Trap, RestOK, fileVars
  <2>4. CASE ReadNothing(i, n, c)
    BY <1>0, <2>4, NoBytes DEF ReadNothing, Returns, RestOK, fileVars, processVars
  <2>5. CASE ReadDevice(i, n, c)
    <3>1. PICK k \in 1 .. Want(c), b \in Byte : Returns(k, [x \in 1 .. k |-> b])
      BY <2>5 DEF ReadDevice
    <3>2. Want(c) \in Nat
      BY Names DEF Want, Least
    <3>3. k \in Nat /\ [x \in 1 .. k |-> b] \in Seq(Byte)
      BY <3>2
    <3> QED
      BY <1>0, <2>5, <3>1, <3>3 DEF ReadDevice, Returns, RestOK, fileVars, processVars
  <2> QED
    BY <2>1, <2>2, <2>3, <2>4, <2>5 DEF rt_io_read
<1>3. CASE \E i \in Handles, n \in Lengths, c \in Lengths : rt_io_write(i, n, c)
  <2>1. PICK i \in Handles, n \in Lengths, c \in Lengths : rt_io_write(i, n, c)
    BY <1>3
  <2>2. CASE \E b \in Byte \ {0} : WriteFile(i, n, c, b)
    BY <1>0, <2>2, WriteMoves DEF RestOK
  <2>3. CASE WriteNothing(i, n, c)
    BY <1>0, <2>3, NoBytes DEF WriteNothing, Returns, RestOK, fileVars, processVars
  <2>4. CASE WriteDevice(i, n, c)
    <3>1. PICK k \in 1 .. Want(Effective(n, c)) : Returns(k, <<>>)
      BY <2>4 DEF WriteDevice
    <3>2. Want(Effective(n, c)) \in Nat
      BY Names DEF Want, Effective, Least
    <3>3. k \in Nat
      BY <3>2
    <3> QED
      BY <1>0, <2>4, <3>1, <3>3, NoBytes DEF WriteDevice, Returns, RestOK, fileVars, processVars
  <2> QED
    BY <2>1, <2>2, <2>3, <2>4 DEF rt_io_write
<1>4. CASE \E i \in Handles : rt_io_close(i) \/ InvalidIgnored(i) \/ TrapInvalid(i)
  <2>1. PICK i \in Handles : rt_io_close(i) \/ InvalidIgnored(i) \/ TrapInvalid(i)
    BY <1>4
  <2>2. CASE rt_io_close(i)
    BY <1>0, <2>2, NoBytes DEF rt_io_close, Returns, RestOK, fileVars, processVars
  <2>3. CASE InvalidIgnored(i)
    BY <1>0, <2>3, NoBytes DEF InvalidIgnored, Returns, RestOK, fileVars, processVars
  <2>4. CASE TrapInvalid(i)
    BY <1>0, <2>4 DEF TrapInvalid, Trap, RestOK, fileVars
  <2> QED
    BY <2>1, <2>2, <2>3, <2>4
<1>5. CASE \E s \in Streams : rt_io_stdio_register_stream(s)
  <2>1. PICK s \in Streams : rt_io_stdio_register_stream(s)
    BY <1>5
  <2>2. UNCHANGED <<handler, exists, data, exit_code>>
    BY <2>1 DEF rt_io_stdio_register_stream, StreamCached, StreamRefused, StreamRegistered,
                fileVars, processVars
  <2>3. \E v \in 0 .. Capacity : Returns(v, <<>>)
    BY <2>1, Names DEF rt_io_stdio_register_stream, StreamCached, StreamRefused, StreamRegistered,
                       TableOK, Slots
  <2> QED
    BY <1>0, <2>2, <2>3, Names, NoBytes DEF Returns, RestOK
<1>6. CASE rt_io_stdio_init
  BY <1>0, <1>6, NoBytes DEF rt_io_stdio_init, Returns, RestOK, fileVars, processVars
<1> QED
  BY <1>1, <1>2, <1>3, <1>4, <1>5, <1>6 DEF Next

-----------------------------------------------------------------------------
(* Ownership of OS handles                                                 *)

LEMMA UntouchedOpen ==
  ASSUME NEW s \in Streams
  PROVE  Untouched(s) # Closed
<1>1. Untouched(s).on = s /\ Closed.on = "closed"
  BY DEF Untouched, Closed
<1> QED
  BY <1>1, Names

\* An OS handle that is entered was in no slot: a closed one because slots
\* refer to open ones, a stream's because it waits.
LEMMA OwnedStep ==
  ASSUME StreamsApart, TypeOK, Owned, Next
  PROVE  Owned'
<1> USE DEF TypeOK
<1>1. CASE Still
  BY <1>1 DEF Still, tableVars, Owned, OccupiedOpen, OneSlotEach, NoneLeaks, StreamsWait
<1>2. ASSUME NEW i \in Slots, NEW k \in Nat, Moves(i, k)
      PROVE  Owned'
  <2> DEFINE h == s_handles[i]
  <2>1. h \in OSHandle /\ h # NULL /\ os[h].on \in Files /\ s_handles' = s_handles /\ s_cache' = s_cache
    BY <1>2 DEF Moves, Valid, tableVars
  <2>2. os' = [os EXCEPT ![h] = [os[h] EXCEPT !.pos = os[h].pos + k]]
    BY <1>2, <2>1 DEF Moves, Advanced
  <2>3. os[h] \in Object /\ os'[h].on = os[h].on /\ os[h] # Closed /\ os'[h] # Closed
    BY <2>1, <2>2, Names DEF Object, Closed
  <2>4. \A g \in OSHandle : g # h => os'[g] = os[g]
    BY <2>1, <2>2
  <2>5. OccupiedOpen'
    BY <2>1, <2>3, <2>4 DEF Owned, OccupiedOpen
  <2>6. OneSlotEach'
    BY <2>1 DEF Owned, OneSlotEach
  <2>7. NoneLeaks'
    BY <2>1, <2>3, <2>4 DEF Owned, NoneLeaks
  <2>8. StreamsWait'
    BY <2>1, <2>4 DEF Owned, StreamsWait, Untouched
  <2> QED
    BY <2>5, <2>6, <2>7, <2>8 DEF Owned
<1>3. CASE Enters
  <2>1. PICK mode \in 0 .. 3, f \in Files : Opened(mode, f)
    BY <1>3 DEF Enters
  <2>2. PICK h \in OSHandle, slot \in Slots :
          /\ os[h] = Closed /\ FirstFree(slot)
          /\ os' = [os EXCEPT ![h] = Fresh(mode, f)] /\ Enter(slot, h)
    BY <2>1 DEF Opened
  <2>3. s_handles' = [s_handles EXCEPT ![slot] = h] /\ s_cache' = s_cache /\ s_handles[slot] = NULL
    BY <2>1, <2>2 DEF Opened, Enter, FirstFree
  <2>4. os'[h] # Closed /\ \A g \in OSHandle : g # h => os'[g] = os[g]
    BY <2>2, FreshObject, Names DEF Closed
  <2>5. h # NULL /\ \A i \in Slots : s_handles[i] # h
    BY <2>2, Names DEF Owned, OccupiedOpen
  <2>6. OccupiedOpen'
    BY <2>3, <2>4, <2>5 DEF Owned, OccupiedOpen
  <2>7. OneSlotEach'
    BY <2>3, <2>5 DEF Owned, OneSlotEach
  <2>8. NoneLeaks'
    BY <2>3, <2>4, <2>5, Names DEF Owned, NoneLeaks
  <2>9. StreamsWait'
    <3>1. \A s \in Streams : s_cache[s] = 0 /\ Std[s] \in OSHandle => Std[s] # h
      BY <2>2, UntouchedOpen DEF Owned, StreamsWait
    <3> QED
      BY <2>3, <2>4, <3>1 DEF Owned, StreamsWait, Untouched
  <2> QED
    BY <2>6, <2>7, <2>8, <2>9 DEF Owned
<1>4. CASE Closes
  <2>1. PICK i \in Slots : i \in Handles /\ rt_io_close(i)
    BY <1>4 DEF Closes, rt_io_close, Valid
  <2> DEFINE h == s_handles[i]
  <2>2. /\ h \in OSHandle /\ h # NULL /\ s_cache' = s_cache
        /\ os' = [os EXCEPT ![h] = Closed] /\ s_handles' = [s_handles EXCEPT ![i] = NULL]
    BY <2>1 DEF rt_io_close, Valid
  <2>3. \A j \in Slots : j # i => s_handles[j] # h
    BY <2>2 DEF Owned, OneSlotEach
  <2>4. OccupiedOpen'
    BY <2>2, <2>3 DEF Owned, OccupiedOpen
  <2>5. OneSlotEach'
    BY <2>2 DEF Owned, OneSlotEach
  <2>6. NoneLeaks'
    BY <2>2, <2>3 DEF Owned, NoneLeaks
  <2>7. StreamsWait'
    BY <2>2, Names DEF Owned, StreamsWait, Untouched
  <2> QED
    BY <2>4, <2>5, <2>6, <2>7 DEF Owned
<1>5. CASE Registers
  <2>1. PICK s \in Streams : StreamRegistered(s)
    BY <1>5 DEF Registers
  <2>2. PICK slot \in Slots :
          FirstFree(slot) /\ Enter(slot, Std[s]) /\ s_cache' = [s_cache EXCEPT ![s] = slot]
    BY <2>1 DEF StreamRegistered
  <2> DEFINE h == Std[s]
  <2>3. /\ h \in OSHandle /\ h # NULL /\ os' = os /\ s_cache[s] = 0 /\ slot # 0
        /\ s_handles' = [s_handles EXCEPT ![slot] = h] /\ s_handles[slot] = NULL
    BY <2>1, <2>2, Names DEF StreamRegistered, Enter, FirstFree, Slots
  <2>4. os[h] # Closed /\ \A i \in Slots : s_handles[i] # h
    BY <2>3, UntouchedOpen DEF Owned, StreamsWait
  <2>5. OccupiedOpen'
    BY <2>3, <2>4 DEF Owned, OccupiedOpen
  <2>6. OneSlotEach'
    BY <2>3, <2>4 DEF Owned, OneSlotEach
  <2>7. NoneLeaks'
    <3> SUFFICES ASSUME NEW g \in OSHandle, os[g] # Closed
                 PROVE  \/ \E i \in Slots : s_handles'[i] = g
                        \/ \E t \in Streams : Std[t] = g /\ s_cache'[t] = 0
      BY <2>3 DEF NoneLeaks
    <3>1. CASE g = h
      BY <2>3, <3>1
    <3>2. CASE g # h
      <4>1. ASSUME NEW i \in Slots, s_handles[i] = g
            PROVE  s_handles'[i] = g
        BY <2>3, <4>1, Names
      <4>2. ASSUME NEW t \in Streams, Std[t] = g, s_cache[t] = 0
            PROVE  s_cache'[t] = 0
        BY <2>2, <3>2, <4>2
      <4> QED
        BY <4>1, <4>2 DEF Owned, NoneLeaks
    <3> QED
      BY <3>1, <3>2
  <2>8. StreamsWait'
    <3> SUFFICES ASSUME NEW t \in Streams, s_cache'[t] = 0, Std[t] \in OSHandle
                 PROVE  os[Std[t]] = Untouched(t) /\ \A i \in Slots : s_handles'[i] # Std[t]
      BY <2>3 DEF StreamsWait, Untouched
    <3>1. t # s /\ s_cache[t] = 0
      BY <2>2, <2>3
    <3>2. Std[t] # h
      BY <2>3, <3>1 DEF StreamsApart
    <3> QED
      BY <2>3, <3>1, <3>2 DEF Owned, StreamsWait
  <2> QED
    BY <2>5, <2>6, <2>7, <2>8 DEF Owned
<1> QED
  BY Kinds, <1>1, <1>2, <1>3, <1>4, <1>5 DEF StepKind

LEMMA RunningOrNot == Running # TrapExit
  BY DEF Running, TrapExit

-----------------------------------------------------------------------------
(* The invariant                                                           *)

LEMMA Start ==
  ASSUME StreamsApart, Init
  PROVE  IInv
<1>1. TypeOK
  <2>1. s_handles \in [Slots -> OSHandle \cup {NULL}] /\ Occupied = {}
    BY DEF Init, Occupied
  <2>2. s_open_count = Cardinality(Occupied)
    BY <2>1, FS_EmptySet DEF Init
  <2>3. \A h \in OSHandle : \A s \in Streams : [on |-> s, pos |-> 0, mode |-> 3] \in Object
    BY Names DEF Object
  <2>4. \A h \in OSHandle : (\E s \in Streams : Std[s] = h) => Device(h) \in Streams
    BY DEF Device
  <2>5. os \in [OSHandle -> Object]
    BY <2>3, <2>4, ClosedObject DEF Init
  <2>6. s_cache \in [Streams -> 0 .. Capacity]
    BY Names DEF Init
  <2>7. data \in [Files -> Bytes] /\ seen \in Seq(Byte)
    BY NoBytes DEF Init
  <2> QED
    BY <2>1, <2>2, <2>5, <2>6, <2>7 DEF Init, TypeOK, Running
<1>2. \A s \in Streams : Std[s] \in OSHandle => os[Std[s]] = Untouched(s)
  <2> SUFFICES ASSUME NEW s \in Streams, Std[s] \in OSHandle
               PROVE  os[Std[s]] = Untouched(s)
    OBVIOUS
  <2>1. Device(Std[s]) \in Streams /\ Std[Device(Std[s])] = Std[s]
    BY DEF Device
  <2>2. Device(Std[s]) = s
    BY <2>1 DEF StreamsApart
  <2> QED
    BY <2>2 DEF Init, Untouched
<1>3. Owned
  <2>1. OccupiedOpen /\ OneSlotEach
    BY DEF Init, OccupiedOpen, OneSlotEach
  <2>2. NoneLeaks
    BY DEF Init, NoneLeaks
  <2>3. StreamsWait
    BY <1>2, Names DEF Init, StreamsWait
  <2> QED
    BY <2>1, <2>2, <2>3 DEF Owned
<1> QED
  BY <1>1, <1>3 DEF IInv

LEMMA Stutter == ASSUME IInv, UNCHANGED vars PROVE IInv'
<1>1. /\ s_handles' = s_handles /\ s_open_count' = s_open_count /\ handler' = handler
      /\ s_cache' = s_cache /\ os' = os /\ exists' = exists /\ data' = data
      /\ ret' = ret /\ seen' = seen /\ exit_code' = exit_code /\ trap' = trap
  BY DEF vars, tableVars, fileVars, processVars
<1>2. TypeOK'
  BY <1>1 DEF IInv, TypeOK, Occupied
<1>3. Owned'
  BY <1>1 DEF IInv, Owned, OccupiedOpen, OneSlotEach, NoneLeaks, StreamsWait
<1> QED
  BY <1>2, <1>3 DEF IInv

LEMMA Step ==
  ASSUME StreamsApart, IInv, [Next]_vars
  PROVE  IInv'
<1>1. CASE Next
  BY <1>1, TableStep, RestStep, OwnedStep, TypeParts
     DEF IInv, TypeOK, TableOK, RestOK, Occupied
<1>2. CASE UNCHANGED vars
  BY <1>2, Stutter
<1> QED
  BY <1>1, <1>2

\* The inductive invariant of rt.io's table and cache.
THEOREM Invariance == ASSUME StreamsApart PROVE Spec => []IInv
<1>1. Init => IInv
  BY Start
<1>2. IInv /\ [Next]_vars => IInv'
  BY Step
<1> QED
  BY <1>1, <1>2, PTL DEF Spec

\* Runtime handles own their OS handles: none is shared, closed behind its
\* slot, or lost when rt_io_open fails half way.
THEOREM HandlesOwnedHolds == ASSUME StreamsApart PROVE Spec => []HandlesOwned
<1>1. ASSUME IInv
      PROVE  HandlesOwned
  <2>1. \A i \in Occupied : os[s_handles[i]] # Closed
    BY <1>1 DEF IInv, Owned, OccupiedOpen, Occupied
  <2>2. \A i, j \in Occupied : s_handles[i] = s_handles[j] => i = j
    BY <1>1 DEF IInv, Owned, OneSlotEach, Occupied
  <2>3. \A h \in OSHandle, i \in Slots : s_handles[i] = h => i \in Occupied
    BY Names DEF Occupied
  <2>4. \A h \in OSHandle : os[h] # Closed =>
          \/ \E i \in Occupied : s_handles[i] = h
          \/ \E s \in Streams : Std[s] = h /\ s_cache[s] = 0
    BY <1>1, <2>3 DEF IInv, Owned, NoneLeaks
  <2> QED
    BY <1>1, <2>1, <2>2, <2>4 DEF IInv, HandlesOwned
<1> QED
  BY <1>1, Invariance, PTL

-----------------------------------------------------------------------------
(* The table implements the contract                                       *)

\* What a program's handles stand for: the mapping of Contract.
Mapped == [i \in Slots |-> IF s_handles[i] = NULL THEN Closed ELSE os[s_handles[i]]]

Report == [code |-> trap.code, handle |-> trap.handle,
           buf_len |-> trap.buf_len, count |-> trap.count]

LEMMA StillMaps ==
  ASSUME Still
  PROVE  Mapped' = Mapped /\ s_cache' = s_cache
  BY DEF Still, tableVars, Mapped

LEMMA ZeroStep ==
  ASSUME Returns(0, <<>>), Still, UNCHANGED <<exists, data, exit_code, trap, handler>>
  PROVE  Contract!Zero
<1>1. Mapped' = Mapped /\ s_cache' = s_cache
  BY StillMaps
<1> QED
  BY <1>1 DEF Contract!Zero, Contract!Returns, Contract!Answers, Returns, Mapped

LEMMA TrapMaps ==
  ASSUME NEW code, NEW i, NEW n, NEW c, Trap(code, i, n, c)
  PROVE  Contract!Trap(code, i, n, c) /\ UNCHANGED Mapped
<1>1. Still
  BY DEF Trap, Still
<1>2. Mapped' = Mapped /\ s_cache' = s_cache
  BY <1>1, StillMaps
<1>3. exit_code = Running /\ exit_code' # Running
  BY RunningOrNot DEF Trap
<1>4. /\ trap'.code = code /\ trap'.handle = i /\ trap'.buf_len = n /\ trap'.count = c
      /\ UNCHANGED <<exists, data, handler, ret, seen>>
  BY DEF Trap, fileVars
<1> QED
  BY <1>2, <1>3, <1>4 DEF Contract!Trap, Mapped

\* Which trap a call meets depends on whether its handle stands for something.
LEMMA BadHandleMaps ==
  ASSUME TypeOK, Owned, NEW i \in Handles, TrapInvalid(i)
  PROVE  Contract!BadHandle(i)
<1>1. handler /\ (i \notin Slots \/ s_handles[i] = NULL) /\ Trap("AIC-R0814", i, 0, 0)
  BY DEF TrapInvalid, Valid
<1>2. Contract!Trap("AIC-R0814", i, 0, 0)
  BY <1>1, TrapMaps
<1>3. i \notin Slots \/ Mapped[i] = Closed
  BY <1>1 DEF Mapped
<1> QED
  BY <1>1, <1>2, <1>3 DEF Contract!BadHandle, Contract!Closed, Closed, Mapped

LEMMA TooSmallMaps ==
  ASSUME TypeOK, Owned, NEW i \in Handles, NEW n \in Lengths, NEW c \in Lengths,
         ReadTooSmall(i, n, c)
  PROVE  i \in Slots /\ Contract!TooSmall(i, n, c)
<1>1. /\ i \in Slots /\ s_handles[i] # NULL /\ c > n
      /\ Trap("AIC-R0807", i, n, c)
  BY DEF ReadTooSmall, Valid
<1>2. Contract!Trap("AIC-R0807", i, n, c)
  BY <1>1, TrapMaps
<1>3. Mapped[i] # Closed
  BY <1>1 DEF Mapped, Owned, OccupiedOpen
<1> QED
  BY <1>1, <1>2, <1>3 DEF Contract!TooSmall, Contract!Closed, Closed, Mapped

\* One OS handle changes: one runtime handle stands for something else.
LEMMA MovesMaps ==
  ASSUME TypeOK, Owned, NEW i \in Slots, NEW k \in Nat, Moves(i, k)
  PROVE  /\ Mapped[i] = os[s_handles[i]] /\ s_cache' = s_cache
         /\ Mapped' = [Mapped EXCEPT ![i].pos = @ + k]
<1> DEFINE h == s_handles[i]
<1>1. h \in OSHandle /\ h # NULL /\ s_handles' = s_handles /\ s_cache' = s_cache
  BY DEF Moves, Valid, tableVars, TypeOK
<1>2. os' = [os EXCEPT ![h] = [os[h] EXCEPT !.pos = os[h].pos + k]]
  BY <1>1 DEF Moves, Advanced, TypeOK
<1>3. \A j \in Slots : j # i => s_handles[j] # h
  BY <1>1 DEF Owned, OneSlotEach
<1>4. Mapped[i] = os[h]
  BY <1>1 DEF Mapped
<1>5. \A j \in Slots : Mapped'[j] = IF j = i THEN [os[h] EXCEPT !.pos = os[h].pos + k] ELSE Mapped[j]
  BY <1>1, <1>2, <1>3 DEF Mapped, TypeOK
<1>6. Mapped' = [j \in Slots |-> Mapped'[j]] /\ Mapped = [j \in Slots |-> Mapped[j]]
  BY DEF Mapped
<1> QED
  BY <1>1, <1>4, <1>5, <1>6

LEMMA EntersMaps ==
  ASSUME TypeOK, Owned, NEW h \in OSHandle, NEW slot \in Slots, FirstFree(slot),
         Enter(slot, h), \A i \in Slots : s_handles[i] # h,
         \A g \in OSHandle : g # h => os'[g] = os[g]
  PROVE  Mapped[slot] = Closed /\ Mapped' = [Mapped EXCEPT ![slot] = os'[h]]
<1>1. s_handles' = [s_handles EXCEPT ![slot] = h] /\ s_handles[slot] = NULL /\ h # NULL
  BY Names DEF Enter, FirstFree
<1>2. Mapped[slot] = Closed
  BY <1>1 DEF Mapped
<1>3. \A j \in Slots : Mapped'[j] = IF j = slot THEN os'[h] ELSE Mapped[j]
  BY <1>1 DEF Mapped, TypeOK
<1>4. Mapped' = [j \in Slots |-> Mapped'[j]] /\ Mapped = [j \in Slots |-> Mapped[j]]
  BY DEF Mapped
<1> QED
  BY <1>2, <1>3, <1>4

LEMMA OpenMaps ==
  ASSUME TypeOK, Owned, NEW mode \in 0 .. 3, NEW f \in Files, Opened(mode, f)
  PROVE  \E i \in Slots : Contract!Open(mode, f, i)
<1>1. PICK h \in OSHandle, slot \in Slots :
        /\ os[h] = Closed /\ FirstFree(slot) /\ CreateFileW(mode, f)
        /\ os' = [os EXCEPT ![h] = Fresh(mode, f)]
        /\ Enter(slot, h) /\ Returns(slot, <<>>)
  BY DEF Opened
<1>2. \A i \in Slots : s_handles[i] # h
  BY <1>1, Names DEF Owned, OccupiedOpen
<1>3. os'[h] = Fresh(mode, f) /\ \A g \in OSHandle : g # h => os'[g] = os[g]
  BY <1>1 DEF TypeOK
<1>4. Mapped[slot] = Closed /\ Mapped' = [Mapped EXCEPT ![slot] = Fresh(mode, f)]
  BY <1>1, <1>2, <1>3, EntersMaps
<1>5. Contract!Prepare(mode, f)
  BY <1>1 DEF CreateFileW, Truncates, Contract!Prepare
<1>6. Contract!Returns(slot, <<>>)
  BY <1>1 DEF Contract!Returns, Contract!Answers, Returns, Opened, processVars
<1>7. s_cache' = s_cache
  BY DEF Opened
<1> QED
  BY <1>4, <1>5, <1>6, <1>7 DEF Contract!Open, Contract!Closed, Mapped, Fresh, Closed

LEMMA OpenFailsMaps ==
  ASSUME NEW mode \in 0 .. 3, NEW f \in Files,
         OpenTableFull(mode, f) \/ (mode = 2 /\ OpenUnpositioned(f))
  PROVE  Contract!OpenFails(mode, f)
<1>1. CreateFileW(mode, f) /\ Returns(0, <<>>) /\ Still /\ UNCHANGED <<exit_code, trap, handler>>
  BY DEF OpenTableFull, OpenUnpositioned, Still, processVars
<1>2. Mapped' = Mapped /\ s_cache' = s_cache
  BY <1>1, StillMaps
<1>3. Contract!Prepare(mode, f) /\ Contract!Returns(0, <<>>)
  BY <1>1, SMTT(40) DEF CreateFileW, Truncates, Contract!Prepare, Contract!Returns, Contract!Answers, Returns
<1> QED
  BY <1>2, <1>3 DEF Contract!OpenFails, Mapped

LEMMA ReadFileMaps ==
  ASSUME TypeOK, Owned, NEW i \in Handles, NEW n \in Lengths, NEW c \in Lengths, ReadFile(i, n, c)
  PROVE  i \in Slots /\ Contract!Read(i, n, c)
<1> DEFINE o == os[s_handles[i]]
           d == data[o.on]
           k == Least(Want(c), Len(d) - o.pos)
<1>1. /\ i \in Slots /\ s_handles[i] \in OSHandle /\ c <= n
      /\ o.on \in Files /\ o.mode \in {0, 3} /\ k > 0
      /\ Returns(k, SubSeq(d, o.pos + 1, o.pos + k)) /\ os' = Advanced(s_handles[i], k)
      /\ UNCHANGED <<tableVars, s_cache, exists, data, exit_code, trap, handler>>
  BY DEF ReadFile, Valid, CanRead, TypeOK, fileVars, processVars
<1>2. d \in Bytes /\ o.pos \in 0 .. MaxLen
  BY <1>1 DEF TypeOK, Object
<1>3. Len(d) \in Nat /\ o.pos \in Nat
  BY <1>2, BytesAreSeq, Names
<1>4. c \in Nat /\ Want(c) \in Nat /\ Want(c) <= c
  BY Names DEF Want, Least
<1>5. k \in Nat /\ k <= c /\ o.pos + k <= Len(d)
  <2>1. Len(d) - o.pos \in Int
    BY <1>3
  <2>2. k \in Int /\ k <= Want(c) /\ k <= Len(d) - o.pos
    BY <1>4, <2>1 DEF Least
  <2> HIDE DEF k, d, o
  <2> QED
    BY <1>1, <1>3, <1>4, <2>2
<1>6. k \in 1 .. c
  <2> HIDE DEF k
  <2> QED
    BY <1>1, <1>4, <1>5
<1>7. Moves(i, k)
  <2>1. Valid(i)
    BY DEF ReadFile
  <2>2. o.pos + k <= MaxLen
    <3>1. Len(d) \in 0 .. MaxLen
      BY <1>2, BytesAreSeq
    <3> HIDE DEF k, d, o
    <3> QED
      BY <1>3, <1>5, <3>1, Names
  <2> QED
    BY <1>1, <1>5, <2>1, <2>2 DEF Moves
<1>8. Mapped[i] = o /\ Mapped' = [Mapped EXCEPT ![i].pos = @ + k]
  BY <1>1, <1>5, <1>7, MovesMaps
<1>9. Contract!Returns(k, SubSeq(d, o.pos + 1, o.pos + k))
  BY <1>1 DEF Contract!Returns, Contract!Answers, Returns
<1> HIDE DEF k
<1> QED
  BY <1>1, <1>5, <1>6, <1>8, <1>9 DEF Contract!Read, Mapped

LEMMA WriteFileMaps ==
  ASSUME TypeOK, Owned, NEW i \in Handles, NEW n \in Lengths, NEW c \in Lengths,
         NEW b \in Byte \ {0}, WriteFile(i, n, c, b)
  PROVE  i \in Slots /\ Contract!Write(i, n, c, b)
<1> DEFINE o == os[s_handles[i]]
           k == Want(Effective(n, c))
<1>1. /\ i \in Slots /\ s_handles[i] \in OSHandle /\ Valid(i)
      /\ o.on \in Files /\ o.mode \in {1, 2, 3} /\ k > 0 /\ o.pos + k <= MaxLen
      /\ Returns(k, <<>>) /\ os' = Advanced(s_handles[i], k)
      /\ data' = [data EXCEPT ![o.on] = Stored(data[o.on], o.pos, k, b)]
      /\ UNCHANGED <<tableVars, s_cache, exists, exit_code, trap, handler>>
  BY DEF WriteFile, Valid, CanWrite, TypeOK, processVars
<1>2. data[o.on] \in Bytes /\ o.pos \in Nat
  BY <1>1, Names DEF TypeOK, Object
<1>3. k \in Nat /\ k <= Contract!Min2(c, n)
  BY Names DEF Want, Effective, Least, Contract!Min2
<1>4. k \in 1 .. Contract!Min2(c, n)
  <2>1. Contract!Min2(c, n) \in Nat
    BY Names DEF Contract!Min2
  <2> HIDE DEF k
  <2> QED
    BY <1>1, <1>3, <2>1
<1>5. Moves(i, k)
  BY <1>1, <1>3 DEF Moves
<1>6. Mapped[i] = o /\ Mapped' = [Mapped EXCEPT ![i].pos = @ + k]
  BY <1>1, <1>3, <1>5, MovesMaps
<1>7. data' = [data EXCEPT ![o.on] = Contract!Written(data[o.on], o.pos, k, b)]
  BY <1>1, <1>2, <1>3, StoredIsWritten
<1>8. Contract!Returns(k, <<>>)
  BY <1>1 DEF Contract!Returns, Contract!Answers, Returns
<1>9. o.on \in Files /\ o.mode # 0 /\ UNCHANGED <<s_cache, exists>>
  BY <1>1
<1> HIDE DEF k, o
<1>10. /\ k \in 1 .. Contract!Min2(c, n) /\ Contract!Returns(k, <<>>)
       /\ IF Mapped[i].on \in Files
            THEN /\ Mapped[i].mode # 0
                 /\ data' = [data EXCEPT ![Mapped[i].on] = Contract!Written(@, Mapped[i].pos, k, b)]
                 /\ Mapped' = [Mapped EXCEPT ![i].pos = @ + k]
            ELSE Mapped[i].on \in Streams /\ UNCHANGED <<Mapped, data>>
  BY <1>4, <1>6, <1>7, <1>8, <1>9
<1> QED
  BY <1>1, <1>9, <1>10 DEF Contract!Write, Mapped

LEMMA CloseMaps ==
  ASSUME TypeOK, Owned, NEW i \in Handles, rt_io_close(i)
  PROVE  i \in Slots /\ Contract!Close(i)
<1> DEFINE h == s_handles[i]
<1>1. /\ i \in Slots /\ h \in OSHandle /\ h # NULL
      /\ os' = [os EXCEPT ![h] = Closed] /\ s_handles' = [s_handles EXCEPT ![i] = NULL]
      /\ Returns(0, <<>>) /\ UNCHANGED <<s_cache, exists, data, exit_code, trap, handler>>
  BY DEF rt_io_close, Valid, TypeOK, fileVars, processVars
<1>2. \A j \in Slots : j # i => s_handles[j] # h
  BY <1>1 DEF Owned, OneSlotEach
<1>3. Mapped[i] # Closed
  BY <1>1 DEF Mapped, Owned, OccupiedOpen
<1>4. \A j \in Slots : Mapped'[j] = IF j = i THEN Closed ELSE Mapped[j]
  BY <1>1, <1>2 DEF Mapped, TypeOK
<1>5. Mapped' = [j \in Slots |-> Mapped'[j]] /\ Mapped = [j \in Slots |-> Mapped[j]]
  BY DEF Mapped
<1>6. Mapped' = [Mapped EXCEPT ![i] = Closed]
  BY <1>1, <1>4, <1>5
<1>7. Contract!Returns(0, <<>>)
  BY <1>1 DEF Contract!Returns, Contract!Answers, Returns
<1> QED
  BY <1>1, <1>3, <1>6, <1>7 DEF Contract!Close, Contract!Closed, Mapped, Closed

LEMMA StreamMaps ==
  ASSUME TypeOK, Owned, NEW s \in Streams, StreamRegistered(s)
  PROVE  \E i \in Slots : Contract!Stream(s, i)
<1>1. PICK slot \in Slots :
        /\ FirstFree(slot) /\ Enter(slot, Std[s]) /\ Returns(slot, <<>>)
        /\ s_cache' = [s_cache EXCEPT ![s] = slot]
  BY DEF StreamRegistered
<1>2. Std[s] \in OSHandle /\ os' = os /\ s_cache[s] = 0 /\ UNCHANGED <<exists, data, exit_code, trap, handler>>
  BY DEF StreamRegistered, fileVars, processVars
<1>3. os[Std[s]] = Untouched(s) /\ \A i \in Slots : s_handles[i] # Std[s]
  BY <1>2 DEF Owned, StreamsWait
<1>4. Mapped[slot] = Closed /\ Mapped' = [Mapped EXCEPT ![slot] = Untouched(s)]
  BY <1>1, <1>2, <1>3, EntersMaps
<1>5. Contract!Returns(slot, <<>>)
  BY <1>1, <1>2 DEF Contract!Returns, Contract!Answers, Returns
<1> QED
  BY <1>1, <1>2, <1>4, <1>5 DEF Contract!Stream, Contract!Closed, Mapped, Untouched, Closed

\* A console or a pipe is read or written: nothing but the answer changes.
LEMMA DeviceMaps ==
  ASSUME TypeOK, NEW i \in Handles, NEW n \in Lengths, NEW c \in Lengths,
         ReadDevice(i, n, c) \/ WriteDevice(i, n, c)
  PROVE  i \in Slots /\ (Contract!Read(i, n, c) \/ \E b \in Byte : Contract!Write(i, n, c, b))
<1>1. /\ i \in Slots /\ s_handles[i] # NULL /\ os[s_handles[i]].on \in Streams
      /\ Still /\ UNCHANGED <<exists, data, exit_code, trap, handler>>
  BY DEF ReadDevice, WriteDevice, Valid, Still, fileVars, processVars
<1>2. Mapped' = Mapped /\ s_cache' = s_cache /\ Mapped[i] = os[s_handles[i]]
  BY <1>1, StillMaps DEF Mapped
<1>3. Mapped[i].on \in Streams /\ Mapped[i].on \notin Files
  BY <1>1, <1>2, Names
<1>4. CASE ReadDevice(i, n, c)
  <2>1. PICK k \in 1 .. Want(c), b \in Byte : Returns(k, [x \in 1 .. k |-> b])
    BY <1>4 DEF ReadDevice
  <2>2. k \in 1 .. c /\ c <= n
    BY <1>4, Names DEF Want, Least, ReadDevice
  <2>3. Contract!Returns(k, [x \in 1 .. k |-> b])
    BY <1>1, <2>1 DEF Contract!Returns, Contract!Answers, Returns
  <2>4. Contract!Read(i, n, c)
    BY <1>1, <1>2, <1>3, <2>2, <2>3 DEF Contract!Read, Mapped
  <2> QED
    BY <1>1, <2>4
<1>5. CASE WriteDevice(i, n, c)
  <2>1. PICK k \in 1 .. Want(Effective(n, c)) : Returns(k, <<>>)
    BY <1>5 DEF WriteDevice
  <2>2. k \in 1 .. Contract!Min2(c, n)
    BY Names DEF Want, Effective, Least, Contract!Min2
  <2>3. Contract!Returns(k, <<>>)
    BY <1>1, <2>1 DEF Contract!Returns, Contract!Answers, Returns
  <2>4. Contract!Write(i, n, c, 0)
    BY <1>1, <1>2, <1>3, <2>2, <2>3 DEF Contract!Write, Mapped
  <2> QED
    BY <1>1, <2>4, Names
<1> QED
  BY <1>4, <1>5

LEMMA OpenCallMaps ==
  ASSUME TypeOK, Owned, NEW mode \in Modes, NEW path, rt_io_open(mode, path)
  PROVE  Contract!Next
<1>1. CASE OpenFails(mode, path)
  <2>1. Returns(0, <<>>) /\ Still /\ UNCHANGED <<exists, data, exit_code, trap, handler>>
    BY <1>1 DEF OpenFails, Still, fileVars, processVars
  <2> QED
    BY <2>1, ZeroStep DEF Contract!Next
<1>2. CASE path \in Files /\ (OpenTableFull(mode, path) \/ (mode = 2 /\ OpenUnpositioned(path)))
  <2>1. mode \in 0 .. 3
    BY <1>2 DEF OpenTableFull
  <2>2. Contract!OpenFails(mode, path)
    BY <1>2, <2>1, OpenFailsMaps
  <2> QED
    BY <1>2, <2>1, <2>2 DEF Contract!Next
<1>3. CASE path \in Files /\ Opened(mode, path)
  <2>1. mode \in 0 .. 3
    BY <1>3 DEF Opened
  <2>2. \E i \in Slots : Contract!Open(mode, path, i)
    BY <1>3, <2>1, OpenMaps
  <2> QED
    BY <1>3, <2>1, <2>2 DEF Contract!Next
<1> QED
  BY <1>1, <1>2, <1>3 DEF rt_io_open

LEMMA ReadCallMaps ==
  ASSUME TypeOK, Owned, NEW i \in Handles, NEW n \in Lengths, NEW c \in Lengths, rt_io_read(i, n, c)
  PROVE  Contract!Next
<1>1. CASE ReadTooSmall(i, n, c)
  BY <1>1, TooSmallMaps DEF Contract!Next
<1>2. CASE ReadNothing(i, n, c)
  <2>1. Returns(0, <<>>) /\ Still /\ UNCHANGED <<exists, data, exit_code, trap, handler>>
    BY <1>2 DEF ReadNothing, Still, fileVars, processVars
  <2> QED
    BY <2>1, ZeroStep DEF Contract!Next
<1>3. CASE ReadFile(i, n, c)
  BY <1>3, ReadFileMaps DEF Contract!Next
<1>4. CASE ReadDevice(i, n, c)
  BY <1>4, DeviceMaps DEF Contract!Next
<1> QED
  BY <1>1, <1>2, <1>3, <1>4 DEF rt_io_read

LEMMA WriteCallMaps ==
  ASSUME TypeOK, Owned, NEW i \in Handles, NEW n \in Lengths, NEW c \in Lengths, rt_io_write(i, n, c)
  PROVE  Contract!Next
<1>1. CASE WriteNothing(i, n, c)
  <2>1. Returns(0, <<>>) /\ Still /\ UNCHANGED <<exists, data, exit_code, trap, handler>>
    BY <1>1 DEF WriteNothing, Still, fileVars, processVars
  <2> QED
    BY <2>1, ZeroStep DEF Contract!Next
<1>2. CASE \E b \in Byte \ {0} : WriteFile(i, n, c, b)
  <2>1. PICK b \in Byte \ {0} : WriteFile(i, n, c, b)
    BY <1>2
  <2>2. i \in Slots /\ Contract!Write(i, n, c, b)
    BY <2>1, WriteFileMaps
  <2> QED
    BY <2>2 DEF Contract!Next
<1>3. CASE WriteDevice(i, n, c)
  BY <1>3, DeviceMaps DEF Contract!Next
<1> QED
  BY <1>1, <1>2, <1>3 DEF rt_io_write

LEMMA StreamCallMaps ==
  ASSUME TypeOK, Owned, NEW s \in Streams, rt_io_stdio_register_stream(s)
  PROVE  Contract!Next
<1>1. CASE StreamCached(s)
  <2>1. Still /\ s_cache[s] # 0 /\ Returns(s_cache[s], <<>>) /\ UNCHANGED <<exists, data, exit_code, trap, handler>>
    BY <1>1 DEF StreamCached, Still, fileVars, processVars
  <2>2. Mapped' = Mapped /\ s_cache' = s_cache
    BY <2>1, StillMaps
  <2>3. Contract!StreamAgain(s)
    BY <2>1, <2>2 DEF Contract!StreamAgain, Contract!Returns, Contract!Answers, Returns, Mapped
  <2> QED
    BY <2>3 DEF Contract!Next
<1>2. CASE StreamRefused(s)
  <2>1. Returns(0, <<>>) /\ Still /\ UNCHANGED <<exists, data, exit_code, trap, handler>>
    BY <1>2 DEF StreamRefused, Still, fileVars, processVars
  <2> QED
    BY <2>1, ZeroStep DEF Contract!Next
<1>3. CASE StreamRegistered(s)
  <2>1. \E i \in Slots : Contract!Stream(s, i)
    BY <1>3, StreamMaps
  <2> QED
    BY <2>1 DEF Contract!Next
<1> QED
  BY <1>1, <1>2, <1>3 DEF rt_io_stdio_register_stream

\* Every step of the runtime is a step of the contract.
LEMMA StepMaps == ASSUME TypeOK, Owned, Next PROVE Contract!Next
<1>1. CASE \E mode \in Modes, path \in Files \cup {"bad"} : rt_io_open(mode, path)
  BY <1>1, OpenCallMaps
<1>2. CASE \E i \in Handles, n, c \in Lengths : rt_io_read(i, n, c) \/ rt_io_write(i, n, c)
  BY <1>2, ReadCallMaps, WriteCallMaps
<1>3. CASE \E i \in Handles : rt_io_close(i)
  BY <1>3, CloseMaps DEF Contract!Next
<1>4. CASE \E i \in Handles : InvalidIgnored(i)
  <2>1. Returns(0, <<>>) /\ Still /\ UNCHANGED <<exists, data, exit_code, trap, handler>>
    BY <1>4 DEF InvalidIgnored, Still, fileVars, processVars
  <2> QED
    BY <2>1, ZeroStep DEF Contract!Next
<1>5. CASE \E i \in Handles : TrapInvalid(i)
  BY <1>5, BadHandleMaps DEF Contract!Next
<1>6. CASE \E s \in Streams : rt_io_stdio_register_stream(s)
  BY <1>6, StreamCallMaps
<1>7. CASE rt_io_stdio_init
  <2>1. /\ Returns(0, <<>>) /\ Still /\ handler' = TRUE
        /\ UNCHANGED <<exists, data, exit_code, trap>>
    BY <1>7 DEF rt_io_stdio_init, Still, fileVars, processVars
  <2>2. Mapped' = Mapped /\ s_cache' = s_cache
    BY <2>1, StillMaps
  <2>3. Contract!Register
    BY <2>1, <2>2 DEF Contract!Register, Contract!Answers, Returns, Mapped
  <2> QED
    BY <2>3 DEF Contract!Next
<1> QED
  BY <1>1, <1>2, <1>3, <1>4, <1>5, <1>6, <1>7 DEF Next

LEMMA InitMaps == ASSUME Init PROVE Contract!Init
<1>1. Mapped = [i \in Slots |-> Contract!Closed]
  BY DEF Init, Contract!Closed, Closed, Mapped
<1>2. (exit_code # Running) = FALSE
  BY DEF Init
<1>3. Report = Contract!NoReport
  BY DEF Init, NoTrap, Contract!NoReport, Report
<1> QED
  BY <1>1, <1>2, <1>3 DEF Init, Contract!Init, Mapped, Report

\* Whatever the operating system does, a program sees what the contract of
\* rt.io allows: its handles stand for independent open files and streams
\* (rt_io_core.c, rt_io_stdio.c).
THEOREM ImplementsContractHolds == ASSUME StreamsApart PROVE Spec => ImplementsContract
<1>1. Init => Contract!Init
  BY InitMaps
<1>2. IInv /\ [Next]_vars
        => [Contract!Next]_<<[i \in Slots |-> IF s_handles[i] = NULL THEN Closed ELSE os[s_handles[i]]],
                             exists, data, s_cache, ret, seen, handler, exit_code # Running,
                             Report>>
  <2> SUFFICES ASSUME IInv, [Next]_vars
               PROVE  [Contract!Next]_<<[i \in Slots |-> IF s_handles[i] = NULL THEN Closed ELSE os[s_handles[i]]],
                             exists, data, s_cache, ret, seen, handler, exit_code # Running,
                             Report>>
    OBVIOUS
  <2>1. CASE Next
    BY <2>1, StepMaps DEF IInv
  <2>2. CASE UNCHANGED vars
    <3>1. Still /\ UNCHANGED <<exists, data, ret, seen, exit_code, trap, handler>>
      BY <2>2 DEF vars, Still, fileVars, processVars
    <3>2. Mapped' = Mapped /\ s_cache' = s_cache
      BY <3>1, StillMaps
    <3> QED
      BY <3>1, <3>2 DEF Mapped, Report
  <2> QED
    BY <2>1, <2>2
<1> QED
  BY <1>1, <1>2, Invariance, PTL DEF Spec, ImplementsContract, Contract!Spec, Report
=============================================================================
