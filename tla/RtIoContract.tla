---------------------------- MODULE RtIoContract ----------------------------
(***************************************************************************)
(* What rt.io promises a program (spec 15.2, ADR-005): a handle stands for *)
(* one open file or stream with a position of its own, from the call that  *)
(* answers it to the call that closes it.  A read yields the bytes of that *)
(* file at that position, a write puts bytes there, both may move fewer    *)
(* bytes than asked for, and a failed call answers 0.  A trap ends the     *)
(* process and blames what the caller got wrong: AIC-R0814 a value that    *)
(* stands for nothing, once the program has asked for that report,         *)
(* AIC-R0807 an open handle and a buffer too small, never the other way    *)
(* round.  There is no table, no OS handle and no order of slots here.     *)
(***************************************************************************)
EXTENDS Integers, Sequences

CONSTANTS Slots,    \* the handle values
          Handles,  \* what a program may pass as one
          Files, Streams, Byte, Lengths

VARIABLES handles,        \* handle -> what it stands for, or Closed
          exists, data,   \* the files and their bytes
          answered,       \* stream -> the handle first answered for it, or 0
          ret, seen,      \* what the last call returned and stored
          registered,     \* invalid handles are reported
          ended,          \* the process was ended by a trap
          report          \* what the trap said

Closed == [on |-> "closed", pos |-> 0, mode |-> 0]

Min2(a, b) == IF a < b THEN a ELSE b

NoReport == [code |-> "", handle |-> 0, buf_len |-> 0, count |-> 0]

Answers(v, bs) == /\ ~ ended /\ ended' = FALSE /\ ret' = v /\ seen' = bs
                  /\ UNCHANGED report

Returns(v, bs) == Answers(v, bs) /\ UNCHANGED registered

Init == /\ handles = [i \in Slots |-> Closed]
        /\ exists = {} /\ data = [f \in Files |-> <<>>]
        /\ answered = [s \in Streams |-> 0]
        /\ ret = 0 /\ seen = <<>>
        /\ registered = FALSE /\ ended = FALSE /\ report = NoReport

\* Any call may fail, and a call that reports nothing answers 0.
Zero == Returns(0, <<>>) /\ UNCHANGED <<handles, exists, data, answered>>

\* An open, even one that fails at last, may create or truncate the file.
Prepare(mode, f) ==
  /\ mode = 0 => f \in exists
  /\ exists' = exists \cup {f}
  /\ data' = IF mode \in {1, 3} THEN [data EXCEPT ![f] = <<>>] ELSE data

OpenFails(mode, f) ==
  Prepare(mode, f) /\ Returns(0, <<>>) /\ UNCHANGED <<handles, answered>>

Open(mode, f, i) ==
  /\ handles[i] = Closed
  /\ Prepare(mode, f)
  /\ handles' = [handles EXCEPT ![i] =
       [on |-> f, mode |-> mode, pos |-> IF mode = 2 THEN Len(data[f]) ELSE 0]]
  /\ Returns(i, <<>>)
  /\ UNCHANGED answered

Read(i, buf_len, count) ==
  LET o == handles[i]
  IN /\ count <= buf_len
     /\ \E k \in 1 .. count :
          IF o.on \in Files
            THEN /\ o.mode \in {0, 3} /\ o.pos + k <= Len(data[o.on])
                 /\ Returns(k, SubSeq(data[o.on], o.pos + 1, o.pos + k))
                 /\ handles' = [handles EXCEPT ![i].pos = @ + k]
            ELSE /\ o.on \in Streams
                 /\ \E b \in Byte : Returns(k, [n \in 1 .. k |-> b])
                 /\ UNCHANGED handles
     /\ UNCHANGED <<exists, data, answered>>

\* Bytes after the write: b at the k places written, zero in a gap before
\* them, what was there elsewhere.
Written(bytes, pos, k, b) ==
  LET Place(n) == n \in pos + 1 .. pos + k
  IN [n \in 1 .. (IF pos + k < Len(bytes) THEN Len(bytes) ELSE pos + k) |->
        IF Place(n) THEN b ELSE IF n \in DOMAIN bytes THEN bytes[n] ELSE 0]

Write(i, buf_len, count, b) ==
  LET o == handles[i]
  IN /\ \E k \in 1 .. Min2(count, buf_len) :
          /\ Returns(k, <<>>)
          /\ IF o.on \in Files
               THEN /\ o.mode # 0
                    /\ data' = [data EXCEPT ![o.on] = Written(@, o.pos, k, b)]
                    /\ handles' = [handles EXCEPT ![i].pos = @ + k]
               ELSE o.on \in Streams /\ UNCHANGED <<handles, data>>
     /\ UNCHANGED <<exists, answered>>

Close(i) == /\ handles[i] # Closed
            /\ handles' = [handles EXCEPT ![i] = Closed]
            /\ Returns(0, <<>>)
            /\ UNCHANGED <<exists, data, answered>>

\* A stream is given one handle, once; later calls answer the same number,
\* even if the program has closed it or opened a file there since.
Stream(s, i) ==
  /\ answered[s] = 0 /\ handles[i] = Closed
  /\ handles' = [handles EXCEPT ![i] = [on |-> s, mode |-> 3, pos |-> 0]]
  /\ answered' = [answered EXCEPT ![s] = i]
  /\ Returns(i, <<>>)
  /\ UNCHANGED <<exists, data>>

StreamAgain(s) == /\ answered[s] # 0
                  /\ Returns(answered[s], <<>>)
                  /\ UNCHANGED <<handles, exists, data, answered>>

Register == /\ registered' = TRUE
            /\ Answers(0, <<>>)
            /\ UNCHANGED <<handles, exists, data, answered>>

Trap(code, i, buf_len, count) ==
  /\ ~ ended /\ ended' = TRUE
  /\ report' = [code |-> code, handle |-> i, buf_len |-> buf_len, count |-> count]
  /\ UNCHANGED <<handles, exists, data, answered, registered, ret, seen>>

\* No operation but a read looks at the buffer before it moves bytes.
BadHandle(i) == /\ registered /\ (i \notin Slots \/ handles[i] = Closed)
                /\ Trap("AIC-R0814", i, 0, 0)

TooSmall(i, buf_len, count) == /\ handles[i] # Closed /\ count > buf_len
                               /\ Trap("AIC-R0807", i, buf_len, count)

Next ==
  \/ Zero \/ Register \/ \E i \in Handles : BadHandle(i)
  \/ \E mode \in 0 .. 3, f \in Files :
        OpenFails(mode, f) \/ \E i \in Slots : Open(mode, f, i)
  \/ \E i \in Slots, buf_len, count \in Lengths :
        \/ TooSmall(i, buf_len, count)
        \/ Read(i, buf_len, count)
        \/ \E b \in Byte : Write(i, buf_len, count, b)
  \/ \E i \in Slots : Close(i)
  \/ \E s \in Streams : StreamAgain(s) \/ \E i \in Slots : Stream(s, i)

Spec == Init /\ [][Next]_<<handles, exists, data, answered, ret, seen,
                           registered, ended, report>>
=============================================================================
