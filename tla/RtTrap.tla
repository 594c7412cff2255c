------------------------------- MODULE RtTrap -------------------------------
(***************************************************************************)
(* rt.trap.report of the Stage-0 runtime (bootstrap/runtime/rt_trap): the  *)
(* message is copied into a static buffer that keeps what earlier calls    *)
(* left in it, and the record is built from the buffer as a C string.      *)
(* rt_trap_format may be called any number of times (the tests do), a      *)
(* report ends the process.                                                *)
(***************************************************************************)
EXTENDS Integers, Sequences, SequenceTheorems, WellFoundedInduction, TLAPS

CONSTANTS MaxMessage,   \* RT_TRAP_MAX_MESSAGE_BYTES
          Char,         \* message bytes other than NUL
          Messages,     \* the messages passed
          Codes,        \* user trap codes
          MaxRecords    \* bound: the records a caller collects

Nul == "NUL"

VARIABLES s_message_buf,  \* index 0 .. MaxMessage - 1
          out,            \* the records of the caller's DiagBuf
          passed,         \* history: the messages they were built from
          exit_code, stderr

trapVars == <<s_message_buf, out, passed, exit_code, stderr>>

Running  == -1
TrapExit == 70
Index    == 0 .. MaxMessage - 1

Least(a, b) == IF a < b THEN a ELSE b

\* n: what fits beside the terminator.
Bounded(message) == Least(Len(message), MaxMessage - 1)

\* Where the copy loop stops: at the bound or at the first NUL.
CopyEnd(message) ==
  CHOOSE k \in 0 .. Bounded(message) :
    /\ \A j \in 1 .. k : message[j] # Nul
    /\ k < Bounded(message) => message[k + 1] = Nul

Bug_Unterminated(message) ==
  [k \in Index |-> IF k < CopyEnd(message) THEN message[k + 1] ELSE s_message_buf[k]]

\* rt_trap_copy_message: the bytes behind the terminator stay as they were.
Copied(message) ==
  [k \in Index |-> IF k < CopyEnd(message) THEN message[k + 1]
                   ELSE IF k = CopyEnd(message) THEN Nul ELSE s_message_buf[k]]

\* The C string in the buffer b; "overrun" when nothing in it ends the string.
CString(b) ==
  IF \A k \in Index : b[k] # Nul THEN <<"overrun">>
  ELSE LET n == CHOOSE k \in Index : b[k] = Nul /\ \A j \in 0 .. k - 1 : b[j] # Nul
       IN [k \in 1 .. n |-> b[k - 1]]

Record(code, b) == [code |-> "AIC-U0000", trap_code |-> code, message |-> CString(b)]

\* rt_trap_format; the record may not be built (out of memory).
rt_trap_format(code, message) ==
  /\ exit_code = Running
  /\ s_message_buf' = Copied(message)
  /\ \/ out' = Append(out, Record(code, s_message_buf')) /\ passed' = Append(passed, message)
     \/ UNCHANGED <<out, passed>>
  /\ UNCHANGED <<exit_code, stderr>>

\* rt_trap_report
rt_trap_report(code, message) ==
  /\ exit_code = Running
  /\ s_message_buf' = Copied(message)
  /\ exit_code' = TrapExit
  /\ \/ stderr' = <<Record(code, s_message_buf')>> /\ passed' = Append(passed, message)
     \/ UNCHANGED <<stderr, passed>>
  /\ UNCHANGED out

TrapInit ==
  /\ s_message_buf = [k \in Index |-> Nul]
  /\ out = <<>> /\ passed = <<>> /\ exit_code = Running /\ stderr = <<>>

TrapNext == \E code \in Codes, message \in Messages :
              \/ Len(out) < MaxRecords /\ rt_trap_format(code, message)
              \/ rt_trap_report(code, message)

TrapSpec == TrapInit /\ [][TrapNext]_trapVars

-----------------------------------------------------------------------------
(* Properties                                                              *)

\* The longest prefix of message without a NUL that fits.
Said(message) ==
  LET Fits(k) == /\ k <= Len(message) /\ k < MaxMessage
                 /\ Nul \notin {message[j] : j \in 1 .. k}
      n == CHOOSE k \in 0 .. MaxMessage : Fits(k) /\ ~ Fits(k + 1)
  IN SubSeq(message, 1, n)

\* The static buffer always ends in a NUL, and every record says the message it
\* was built from, cut at the first NUL or at the bound, and nothing of an
\* earlier, longer message.
MessagesFaithful ==
  LET records == out \o stderr
  IN /\ s_message_buf \in [Index -> Char \cup {Nul}]
     /\ \E k \in Index : s_message_buf[k] = Nul
     /\ Len(records) = Len(passed)
     /\ \A k \in DOMAIN records : records[k].message = Said(passed[k])

-----------------------------------------------------------------------------
(* Proof, for every bound on messages and every list of calls              *)

Text  == Char \cup {Nul}
Sized == MaxMessage \in Nat \ {0} /\ Messages \subseteq Seq(Text) /\ Nul \notin Char

\* k is where the copy loop stops.
Stops(message, k) == /\ k \in 0 .. Bounded(message)
                     /\ \A j \in 1 .. k : message[j] # Nul
                     /\ k < Bounded(message) => message[k + 1] = Nul

\* The copy loop stops, inside the buffer.
LEMMA CopyStops ==
  ASSUME Sized, NEW message \in Seq(Text)
  PROVE  Stops(message, CopyEnd(message)) /\ CopyEnd(message) \in Index
<1> DEFINE n == Bounded(message)
           Ends == {k \in 0 .. n : k < n => message[k + 1] = Nul}
<1>1. n \in Nat /\ n <= MaxMessage - 1 /\ n <= Len(message)
  BY DEF Sized, Bounded, Least
<1>2. Ends \in SUBSET Nat /\ n \in Ends
  BY <1>1
<1>3. PICK k \in Ends : \A i \in Ends : ~ (<<i, k>> \in OpToRel(<, Nat))
  <2> HIDE DEF Ends
  <2> QED
    BY <1>2, WFMin, NatLessThanWellFounded
<1>4. \A i \in Ends : ~ (i < k)
  BY <1>2, <1>3 DEF OpToRel
<1>5. ASSUME NEW j \in 1 .. k
      PROVE  message[j] # Nul
  <2>0. k \in 0 .. n
    BY <1>3
  <2> HIDE DEF Ends, n
  <2>1. j - 1 \in 0 .. n /\ j - 1 < k /\ j - 1 + 1 = j
    BY <1>1, <2>0
  <2>2. j - 1 \notin Ends
    BY <1>4, <2>1
  <2> QED
    BY <2>1, <2>2 DEF Ends
<1>6. Stops(message, k)
  BY <1>3, <1>5 DEF Stops
<1>7. CopyEnd(message) = CHOOSE i \in 0 .. n : Stops(message, i)
  BY DEF CopyEnd, Stops
<1>8. Stops(message, CopyEnd(message))
  <2> HIDE DEF n
  <2>1. k \in 0 .. n
    BY <1>6 DEF Stops, n
  <2> QED
    BY <1>6, <1>7, <2>1
<1> QED
  BY <1>1, <1>8 DEF Stops, Index, Sized

\* What is read back from the buffer is what should be said of the message,
\* whatever the buffer held before.
LEMMA CopiedSaid ==
  ASSUME Sized, NEW message \in Seq(Text), s_message_buf \in [Index -> Text]
  PROVE  /\ CString(Copied(message)) = Said(message) /\ Said(message) \in Seq(Text)
         /\ Copied(message) \in [Index -> Text]
         /\ \E k \in Index : Copied(message)[k] = Nul
<1> DEFINE b == Copied(message)
           n == CopyEnd(message)
<1>1. Stops(message, n) /\ n \in Index
  BY CopyStops
<1>2. /\ n \in Nat /\ n <= Len(message) /\ n < MaxMessage /\ Len(message) \in Nat
      /\ MaxMessage \in Nat
  BY <1>1 DEF Stops, Bounded, Least, Sized, Index
<1>3. \A k \in Index : b[k] = IF k < n THEN message[k + 1]
                              ELSE IF k = n THEN Nul ELSE s_message_buf[k]
  BY DEF Copied
<1>4. \A k \in 1 .. n : message[k] \in Text /\ message[k] # Nul
  BY <1>1, <1>2 DEF Stops
<1>5. b \in [Index -> Text]
  <2>1. ASSUME NEW k \in Index
        PROVE  b[k] \in Text
    <3>1. CASE k < n
      <4>1. k + 1 \in 1 .. n
        BY <1>2, <3>1 DEF Index
      <4> QED
        BY <1>3, <1>4, <3>1, <4>1
    <3>2. CASE ~ (k < n)
      BY <1>3, <3>2 DEF Text
    <3> QED
      BY <3>1, <3>2
  <2> QED
    BY <2>1 DEF Copied
<1>6. b[n] = Nul /\ n \in Index
  BY <1>1, <1>3, <1>2
<1>7. \A k \in 0 .. n - 1 : b[k] = message[k + 1] /\ b[k] # Nul
  <2> SUFFICES ASSUME NEW k \in 0 .. n - 1
               PROVE  b[k] = message[k + 1] /\ b[k] # Nul
    OBVIOUS
  <2>1. k \in Index /\ k < n /\ k + 1 \in 1 .. n
    BY <1>2 DEF Index
  <2> QED
    BY <1>3, <1>4, <2>1
<1>8. \A k \in Index : b[k] = Nul /\ (\A j \in 0 .. k - 1 : b[j] # Nul) => k = n
  <2> SUFFICES ASSUME NEW k \in Index, b[k] = Nul, \A j \in 0 .. k - 1 : b[j] # Nul
               PROVE  k = n
    OBVIOUS
  <2>1. ~ (k < n)
    BY <1>2, <1>7 DEF Index
  <2>2. ~ (n < k)
    BY <1>2, <1>6 DEF Index
  <2> QED
    BY <1>2, <2>1, <2>2 DEF Index
<1> HIDE DEF b, n
<1>9. CString(b) = [k \in 1 .. n |-> message[k]]
  <2>1. (CHOOSE k \in Index : b[k] = Nul /\ \A j \in 0 .. k - 1 : b[j] # Nul) = n
    BY <1>6, <1>7, <1>8
  <2>2. CString(b) = [k \in 1 .. n |-> b[k - 1]]
    BY <1>6, <2>1 DEF CString
  <2>3. \A k \in 1 .. n : b[k - 1] = message[k]
    BY <1>2, <1>7
  <2> QED
    BY <2>2, <2>3
<1> DEFINE Fits(k) == /\ k <= Len(message) /\ k < MaxMessage
                      /\ Nul \notin {message[j] : j \in 1 .. k}
<1>10. Fits(n) /\ ~ Fits(n + 1)
  <2>1. Fits(n)
    BY <1>2, <1>4
  <2>2. CASE n < Bounded(message)
    <3>1. message[n + 1] = Nul /\ n + 1 \in 1 .. n + 1
      BY <1>1, <1>2, <2>2 DEF Stops
    <3> QED
      BY <2>1, <3>1
  <2>3. CASE n = Bounded(message)
    BY <1>2, <2>1, <2>3 DEF Bounded, Least
  <2> QED
    BY <1>1, <2>2, <2>3, <1>2 DEF Stops, Bounded, Least
<1>11. \A k \in 0 .. MaxMessage : Fits(k) /\ ~ Fits(k + 1) => k = n
  <2> SUFFICES ASSUME NEW k \in 0 .. MaxMessage, Fits(k), ~ Fits(k + 1)
               PROVE  k = n
    OBVIOUS
  <2>1. ASSUME NEW i \in Nat, NEW l \in Nat, i <= l, Fits(l)
        PROVE  Fits(i)
    BY <1>2, <2>1
  <2>2. ~ (k < n)
    <3> SUFFICES ASSUME k < n PROVE FALSE
      OBVIOUS
    <3>1. k + 1 \in Nat /\ k + 1 <= n
      BY <1>2
    <3> QED
      BY <1>2, <1>10, <2>1, <3>1
  <2>3. ~ (n < k)
    <3> SUFFICES ASSUME n < k PROVE FALSE
      OBVIOUS
    <3>1. n + 1 \in Nat /\ n + 1 <= k /\ k \in Nat
      BY <1>2
    <3> QED
      BY <1>10, <2>1, <3>1
  <2> QED
    BY <1>2, <2>2, <2>3
<1>12. Said(message) = SubSeq(message, 1, n)
  <2>1. n \in 0 .. MaxMessage
    BY <1>2
  <2>2. (CHOOSE k \in 0 .. MaxMessage : Fits(k) /\ ~ Fits(k + 1)) = n
    <3> HIDE DEF Fits
    <3> QED
      BY <1>10, <1>11, <2>1
  <2> QED
    BY <2>2 DEF Said
<1>13. /\ SubSeq(message, 1, n) = [k \in 1 .. n |-> message[k]]
       /\ SubSeq(message, 1, n) \in Seq(Text)
  BY <1>2, <1>4, SubSeqProperties
<1> QED
  BY <1>5, <1>6, <1>9, <1>12, <1>13 DEF b

-----------------------------------------------------------------------------
(* The steps                                                               *)

Rec     == [code : {"AIC-U0000"}, trap_code : Codes, message : Seq(Text)]
Records == out \o stderr

\* The inductive invariant: MessagesFaithful, and nothing is on stderr before
\* the process ends.
IInv ==
  /\ s_message_buf \in [Index -> Text] /\ \E k \in Index : s_message_buf[k] = Nul
  /\ out \in Seq(Rec) /\ stderr \in Seq(Rec) /\ passed \in Seq(Messages)
  /\ exit_code = Running => stderr = <<>>
  /\ Len(Records) = Len(passed)
  /\ \A k \in 1 .. Len(Records) : Records[k].message = Said(passed[k])

\* A record of the message just copied joins the others.
LEMMA Recorded ==
  ASSUME Sized, IInv, NEW code \in Codes, NEW message \in Messages,
         exit_code = Running, s_message_buf' = Copied(message),
         \/ out' = Append(out, Record(code, s_message_buf')) /\ stderr' = stderr
         \/ out' = out /\ stderr' = <<Record(code, s_message_buf')>> /\ exit_code' = TrapExit,
         passed' = Append(passed, message), exit_code' \in {exit_code, TrapExit}
  PROVE  IInv'
<1> DEFINE r == Record(code, s_message_buf')
<1>1. message \in Seq(Text)
  BY DEF Sized
<1>2. /\ CString(s_message_buf') = Said(message) /\ Said(message) \in Seq(Text)
      /\ s_message_buf' \in [Index -> Text] /\ \E k \in Index : s_message_buf'[k] = Nul
  BY <1>1, CopiedSaid DEF IInv
<1>3. r \in Rec /\ r.message = Said(message)
  BY <1>2 DEF Record, Rec
<1> HIDE DEF r
<1>4. /\ out \in Seq(Rec) /\ stderr = <<>> /\ passed \in Seq(Messages)
      /\ Records = out /\ Len(out) \in Nat /\ Len(out) = Len(passed)
      /\ \A k \in 1 .. Len(out) : out[k].message = Said(passed[k])
  <2>1. out \in Seq(Rec) /\ stderr = <<>> /\ passed \in Seq(Messages)
    BY DEF IInv
  <2>2. Records = out
    BY <2>1 DEF Records
  <2> QED
    BY <2>1, <2>2 DEF IInv
<1>5. /\ out' \in Seq(Rec) /\ stderr' \in Seq(Rec)
      /\ Records' = Append(out, r)
      /\ exit_code' = Running => stderr' = <<>>
  <2>1. CASE out' = Append(out, r) /\ stderr' = stderr
    BY <1>3, <1>4, <2>1 DEF Records
  <2>2. CASE out' = out /\ stderr' = <<r>> /\ exit_code' = TrapExit
    <3>1. stderr' \in Seq(Rec) /\ out \o <<r>> = Append(out, r)
      BY <1>3, <1>4, <2>2
    <3> QED
      BY <1>4, <2>2, <3>1 DEF Records, Running, TrapExit
  <2> QED
    BY <2>1, <2>2 DEF r
<1>6. passed' \in Seq(Messages) /\ Len(passed') = Len(out) + 1
      /\ passed'[Len(out) + 1] = message
      /\ \A k \in 1 .. Len(out) : passed'[k] = passed[k]
  BY <1>4
<1>7. /\ Len(Append(out, r)) = Len(out) + 1 /\ Append(out, r)[Len(out) + 1] = r
      /\ \A k \in 1 .. Len(out) : Append(out, r)[k] = out[k]
  BY <1>3, <1>4
<1>8. \A k \in 1 .. Len(out) + 1 : Append(out, r)[k].message = Said(passed'[k])
  <2> SUFFICES ASSUME NEW k \in 1 .. Len(out) + 1
               PROVE  Append(out, r)[k].message = Said(passed'[k])
    OBVIOUS
  <2>1. CASE k = Len(out) + 1
    BY <1>3, <1>6, <1>7, <2>1
  <2>2. CASE k # Len(out) + 1
    <3>1. k \in 1 .. Len(out)
      BY <1>4, <2>2
    <3> QED
      BY <1>4, <1>6, <1>7, <3>1
  <2> QED
    BY <2>1, <2>2
<1>9. Len(Records') = Len(passed')
  BY <1>5, <1>6, <1>7
<1>10. \A k \in 1 .. Len(Records') : Records'[k].message = Said(passed'[k])
  BY <1>5, <1>7, <1>8
<1> QED
  BY <1>2, <1>5, <1>6, <1>9, <1>10 DEF IInv

\* The record could not be built: the buffer is overwritten all the same.
LEMMA Unrecorded ==
  ASSUME Sized, IInv, NEW message \in Messages, exit_code = Running,
         s_message_buf' = Copied(message), UNCHANGED <<out, passed, stderr>>
  PROVE  IInv'
<1>1. /\ s_message_buf' \in [Index -> Text] /\ \E k \in Index : s_message_buf'[k] = Nul
  BY CopiedSaid DEF IInv, Sized
<1> QED
  BY <1>1 DEF IInv, Records

\* Every step keeps the invariant.
LEMMA NextInv == ASSUME Sized, IInv, [TrapNext]_trapVars PROVE IInv'
<1>1. ASSUME NEW code \in Codes, NEW message \in Messages, rt_trap_format(code, message)
      PROVE  IInv'
  BY <1>1, Recorded, Unrecorded DEF rt_trap_format
<1>2. ASSUME NEW code \in Codes, NEW message \in Messages, rt_trap_report(code, message)
      PROVE  IInv'
  BY <1>2, Recorded, Unrecorded DEF rt_trap_report
<1>3. CASE UNCHANGED trapVars
  BY <1>3 DEF trapVars, IInv, Records
<1> QED
  BY <1>1, <1>2, <1>3 DEF TrapNext

\* The buffer starts as zeroes.
LEMMA InitInv == ASSUME Sized, TrapInit PROVE IInv
<1>a. MaxMessage \in Nat /\ MaxMessage # 0
  BY DEF Sized
<1>1. Index # {} /\ 0 \in Index
  BY <1>a DEF Index
<1>2. Records = <<>> /\ Len(Records) = 0
  BY DEF TrapInit, Records
<1> QED
  BY <1>1, <1>2 DEF TrapInit, IInv, Text

\* rt_trap.c: for every bound on messages and every list of calls, the buffer
\* ends in a NUL and each record says its message, cut at the first NUL or at the
\* bound, and nothing of an earlier, longer one.
THEOREM MessagesFaithfulHolds == ASSUME Sized PROVE TrapSpec => []MessagesFaithful
<1>1. TrapInit => IInv
  BY InitInv
<1>2. IInv /\ [TrapNext]_trapVars => IInv'
  BY NextInv
<1>3. IInv => MessagesFaithful
  <2> SUFFICES ASSUME IInv PROVE MessagesFaithful
    OBVIOUS
  <2>1. Records \in Seq(Rec) /\ DOMAIN Records = 1 .. Len(Records)
    BY DEF IInv, Records
  <2> QED
    BY <2>1 DEF IInv, MessagesFaithful, Records, Text
<1> QED
  BY <1>1, <1>2, <1>3, PTL DEF TrapSpec
=============================================================================
