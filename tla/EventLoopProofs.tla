-------------------------- MODULE EventLoopProofs --------------------------
(***************************************************************************)
(* Theorems about the event loop of module EventLoop: the messages of the  *)
(* blocking I/O helpers (Io) arrive whole, for messages and pipes of any   *)
(* length, cut by reads and writes in any way; and the reads of the        *)
(* callbacks do not block, for any number of events and timers.            *)
(***************************************************************************)
EXTENDS EventLoop, Integers, FiniteSetTheorems, SequenceTheorems, TLAPS

Byte == 1..MessageLen

\* The number of bytes of the current message that have been written.
Sent == MessageLen - unsent

\* After the whole message the next one begins.
Wrap(n) == IF n = MessageLen THEN 0 ELSE n

IoTypes ==
  /\ pipe \in Seq(Byte) /\ got \in Seq(Byte)
  /\ unsent \in 0..MessageLen
  /\ sending \in BOOLEAN /\ receiving \in BOOLEAN /\ writerOpen \in BOOLEAN
  /\ torn \in BOOLEAN
  /\ received \in {"none", "ok", "error"}
  /\ sending => writerOpen /\ unsent > 0
  /\ ~sending /\ writerOpen => unsent = 0

\* A byte of the pipe is followed by those of its message and by the first
\* one of the next message.
Consecutive ==
  \A i, j \in 1..Len(pipe) : i <= j =>
    /\ pipe[i] + (j - i) <= MessageLen => pipe[j] = pipe[i] + (j - i)
    /\ pipe[i] + (j - i) = MessageLen + 1 => pipe[j] = 1

\* The last byte in the pipe is the last that was written.
EndsWithSent == writerOpen /\ Len(pipe) > 0 => Wrap(pipe[Len(pipe)]) = Wrap(Sent)

\* What a call of ae_io_read_all leaves behind: a whole message, or nothing,
\* or what came before the end of the stream.
Ended ==
  \/ /\ received = "ok"
     /\ \/ Len(got) = MessageLen
        \/ eof = "set" /\ ~writerOpen /\ Len(pipe) = 0
  \/ received \in {"none", "error"} /\ Len(got) = 0

\* The reader is where the pipe begins.
Following ==
  /\ Len(got) <= MessageLen
  /\ \A i \in 1..Len(got) : got[i] = i
  /\ receiving => eof # "set" /\ Len(got) < MessageLen
  /\ ~receiving => Ended
  /\ Len(pipe) > 0 => pipe[1] = Wrap(Len(got)) + 1
  /\ writerOpen /\ Len(pipe) = 0 => Wrap(Len(got)) = Wrap(Sent)

IoInv == IoTypes /\ Consecutive /\ EndsWithSent /\ (torn \/ Following)

IoStep ==
  \/ WriteAll \/ WriteSome \/ WriteFails \/ CloseWriter
  \/ ReadAll \/ ReadSome \/ ReadEnd \/ ReadFails

----------------------------------------------------------------------------
(* The steps of the writer. *)

\* A write appends the next bytes of the message.
LEMMA WriteAppends ==
  ASSUME IoTypes, WriteSome
  PROVE  \E k \in 1..unsent :
           /\ pipe' \in Seq(Byte) /\ Len(pipe') = Len(pipe) + k
           /\ \A i \in 1..Len(pipe) : pipe'[i] = pipe[i]
           /\ \A i \in Len(pipe)+1..Len(pipe)+k : pipe'[i] = Sent + (i - Len(pipe))
           /\ unsent' = unsent - k
<1>1. PICK k \in 1..unsent : /\ pipe' = pipe \o NextBytes(k)
                             /\ unsent' = unsent - k
  BY DEF WriteSome
<1>2. MessageLen \in Nat /\ unsent \in 0..MessageLen /\ k \in 1..MessageLen
  BY MessageAssumption DEF IoTypes
<1>3. NextBytes(k) \in Seq(Byte) /\ Len(NextBytes(k)) = k
  BY <1>2 DEF NextBytes, Byte
<1>4. \A i \in 1..k : NextBytes(k)[i] = Sent + i
  BY <1>2 DEF NextBytes, Sent
<1>5. Len(pipe) \in Nat
  BY DEF IoTypes
<1>6. /\ pipe' \in Seq(Byte) /\ Len(pipe') = Len(pipe) + k
      /\ \A i \in 1..Len(pipe)+k : pipe'[i] = IF i <= Len(pipe) THEN pipe[i]
                                               ELSE NextBytes(k)[i - Len(pipe)]
  BY <1>1, <1>3, ConcatProperties DEF IoTypes
<1>7. \A i \in 1..Len(pipe) : pipe'[i] = pipe[i]
  BY <1>2, <1>5, <1>6
<1>8. \A i \in Len(pipe)+1..Len(pipe)+k : pipe'[i] = Sent + (i - Len(pipe))
  BY <1>2, <1>4, <1>5, <1>6
<1> QED
  BY <1>1, <1>6, <1>7, <1>8

LEMMA WriteKeepsOrder ==
  ASSUME IoInv, WriteSome
  PROVE  IoInv'
<1>0. IoTypes /\ Consecutive /\ EndsWithSent /\ (torn \/ Following)
  BY DEF IoInv
<1>1. PICK k \in 1..unsent :
           /\ pipe' \in Seq(Byte) /\ Len(pipe') = Len(pipe) + k
           /\ \A i \in 1..Len(pipe) : pipe'[i] = pipe[i]
           /\ \A i \in Len(pipe)+1..Len(pipe)+k : pipe'[i] = Sent + (i - Len(pipe))
           /\ unsent' = unsent - k
  BY <1>0, WriteAppends
<1>2. /\ MessageLen \in Nat \ {0} /\ unsent \in 1..MessageLen /\ k \in 1..MessageLen
      /\ Len(pipe) \in Nat /\ writerOpen
  BY <1>0, MessageAssumption DEF IoTypes, WriteSome
<1>3. /\ Sent \in 0..MessageLen-1 /\ Sent + k <= MessageLen
      /\ Sent' = Sent + k
  BY <1>1, <1>2 DEF Sent
<1>4. \A i \in 1..Len(pipe) : pipe[i] \in Byte
  BY <1>0 DEF IoTypes
<1>5. IoTypes'
  <2>1. unsent' \in 0..MessageLen /\ sending' = (unsent' > 0)
    BY <1>1, <1>2 DEF WriteSome
  <2>2. UNCHANGED <<writerOpen, receiving, got, received, torn>> /\ writerOpen
    BY <1>2 DEF WriteSome
  <2>3. sending' \in BOOLEAN /\ (sending' => unsent' > 0)
                              /\ (~sending' => unsent' = 0)
    <3>1. unsent' \in Nat /\ (unsent' > 0) \in BOOLEAN
      BY <1>2, <2>1
    <3>2. sending' \in BOOLEAN
      BY <2>1, <3>1
    <3>3. sending' <=> unsent' > 0
      BY <2>1
    <3> QED
      BY <3>1, <3>2, <3>3
  <2> QED
    BY <1>0, <1>1, <2>1, <2>2, <2>3 DEF IoTypes
<1>6. Consecutive'
  <2> SUFFICES ASSUME NEW i \in 1..Len(pipe)+k, NEW j \in 1..Len(pipe)+k, i <= j
               PROVE  /\ pipe'[i] + (j - i) <= MessageLen =>
                           pipe'[j] = pipe'[i] + (j - i)
                      /\ pipe'[i] + (j - i) = MessageLen + 1 => pipe'[j] = 1
    BY <1>1 DEF Consecutive
  <2>1. CASE j <= Len(pipe)
    BY <1>0, <1>1, <1>2, <2>1 DEF Consecutive
  <2>2. CASE i > Len(pipe)
    <3>1. pipe'[i] = Sent + (i - Len(pipe)) /\ pipe'[j] = Sent + (j - Len(pipe))
      BY <1>1, <1>2, <2>2
    <3> QED
      BY <1>2, <1>3, <3>1
  <2>3. CASE i <= Len(pipe) /\ j > Len(pipe)
    <3> DEFINE n == Len(pipe)
    <3>1. /\ pipe'[i] = pipe[i] /\ pipe[i] \in Byte
          /\ pipe'[j] = Sent + (j - n)
      BY <1>1, <1>2, <1>4, <2>3
    <3>2. /\ pipe[i] + (n - i) <= MessageLen => pipe[n] = pipe[i] + (n - i)
      BY <1>0, <1>2, <2>3 DEF Consecutive
    <3>3. Wrap(pipe[n]) = Sent
      BY <1>0, <1>2, <1>3, <2>3 DEF EndsWithSent, Wrap
    <3> QED
      BY <1>2, <1>3, <2>3, <3>1, <3>2, <3>3 DEF Wrap, Byte
  <2> QED
    BY <1>2, <2>1, <2>2, <2>3
<1>7. EndsWithSent'
  <2>1. pipe'[Len(pipe) + k] = Sent + k
    BY <1>1, <1>2
  <2> QED
    BY <1>1, <1>3, <2>1 DEF EndsWithSent, Wrap
<1>8. torn' \/ Following'
  <2>1. CASE torn
    BY <2>1 DEF WriteSome
  <2>2. CASE Following
    <3>1. pipe'[1] = Wrap(Len(got)) + 1
      <4>1. CASE Len(pipe) > 0
        BY <1>1, <1>2, <2>2, <4>1 DEF Following
      <4>2. CASE Len(pipe) = 0
        BY <1>1, <1>2, <1>3, <2>2, <4>2 DEF Following, Wrap
      <4> QED
        BY <1>2, <4>1, <4>2
    <3>2. UNCHANGED <<got, receiving, received, eof, writerOpen, torn>>
      BY DEF WriteSome
    <3>3. ~receiving => Ended'
      BY <1>2, <2>2, <3>2 DEF Following, Ended
    <3> QED
      BY <1>1, <1>2, <2>2, <3>1, <3>2, <3>3 DEF Following, Wrap
  <2> QED
    BY <1>0, <2>1, <2>2
<1> QED
  BY <1>5, <1>6, <1>7, <1>8 DEF IoInv

\* The other steps of the writer leave the pipe alone.
LEMMA WriterKeepsOrder ==
  ASSUME IoInv, WriteAll \/ WriteFails \/ CloseWriter
  PROVE  IoInv'
<1>0. IoTypes /\ Consecutive /\ EndsWithSent /\ (torn \/ Following)
  BY DEF IoInv
<1>1. UNCHANGED <<pipe, got, receiving, received, eof, torn>>
  BY DEF WriteAll, WriteFails, CloseWriter
<1>2. MessageLen \in Nat \ {0} /\ unsent \in 0..MessageLen /\ Len(pipe) \in Nat
  BY <1>0, MessageAssumption DEF IoTypes
<1>3. writerOpen' => writerOpen /\ Wrap(Sent') = Wrap(Sent)
  BY <1>0, <1>2 DEF IoTypes, WriteAll, WriteFails, CloseWriter, Wrap, Sent
<1>4. IoTypes'
  <2>1. CASE WriteAll
    BY <1>0, <1>2, <2>1 DEF IoTypes, WriteAll
  <2>2. CASE WriteFails
    BY <1>0, <2>2 DEF IoTypes, WriteFails
  <2>3. CASE CloseWriter
    BY <1>0, <2>3 DEF IoTypes, CloseWriter
  <2> QED
    BY <2>1, <2>2, <2>3
<1>5. Consecutive'
  BY <1>0, <1>1 DEF Consecutive
<1>6. EndsWithSent'
  BY <1>0, <1>1, <1>3 DEF EndsWithSent, Wrap
<1>7. Ended => Ended'
  BY <1>1, <1>3, <1>4 DEF Ended, IoTypes
<1>8. torn' \/ Following'
  BY <1>0, <1>1, <1>3, <1>7 DEF Following, Wrap
<1> QED
  BY <1>4, <1>5, <1>6, <1>8 DEF IoInv

----------------------------------------------------------------------------
(* The steps of the reader. *)

\* A read takes bytes from the front of the pipe.
LEMMA ReadTakes ==
  ASSUME IoTypes, ReadSome
  PROVE  \E k \in 1..Len(pipe) :
           /\ Len(got) + k <= MessageLen
           /\ got' \in Seq(Byte) /\ Len(got') = Len(got) + k
           /\ \A i \in 1..Len(got) : got'[i] = got[i]
           /\ \A i \in Len(got)+1..Len(got)+k : got'[i] = pipe[i - Len(got)]
           /\ pipe' \in Seq(Byte) /\ Len(pipe') = Len(pipe) - k
           /\ \A i \in 1..Len(pipe)-k : pipe'[i] = pipe[i + k]
<1>1. PICK k \in 1..Len(pipe) :
        /\ Len(got) + k <= MessageLen
        /\ got' = got \o SubSeq(pipe, 1, k)
        /\ pipe' = SubSeq(pipe, k + 1, Len(pipe))
  BY DEF ReadSome
<1>2. Len(pipe) \in Nat /\ Len(got) \in Nat /\ k \in 1..Len(pipe)
  BY DEF IoTypes
<1>3. \A i \in 1..Len(pipe) : pipe[i] \in Byte
  BY DEF IoTypes
<1>4. /\ SubSeq(pipe, 1, k) \in Seq(Byte) /\ Len(SubSeq(pipe, 1, k)) = k
      /\ \A i \in 1..k : SubSeq(pipe, 1, k)[i] = pipe[i]
  <2>1. \A i \in 1..k : pipe[i] \in Byte
    BY <1>2, <1>3
  <2>2. /\ SubSeq(pipe, 1, k) \in Seq(Byte)
        /\ Len(SubSeq(pipe, 1, k)) = IF 1 <= k THEN k - 1 + 1 ELSE 0
        /\ \A i \in 1..k-1+1 : SubSeq(pipe, 1, k)[i] = pipe[1 + i - 1]
    BY <1>2, <2>1, SubSeqProperties
  <2> QED
    BY <1>2, <2>2
<1>5. /\ pipe' \in Seq(Byte) /\ Len(pipe') = Len(pipe) - k
      /\ \A i \in 1..Len(pipe)-k : pipe'[i] = pipe[i + k]
  <2>1. \A i \in k+1..Len(pipe) : pipe[i] \in Byte
    BY <1>2, <1>3
  <2>2. /\ pipe' \in Seq(Byte)
        /\ Len(pipe') = IF k + 1 <= Len(pipe) THEN Len(pipe) - (k + 1) + 1 ELSE 0
        /\ \A i \in 1..Len(pipe)-(k+1)+1 : pipe'[i] = pipe[k + 1 + i - 1]
    <3> DEFINE n == Len(pipe)
    <3>1. k + 1 \in Int /\ n \in Int
      BY <1>2
    <3> QED
      BY <1>1, <2>1, <3>1, SubSeqProperties
  <2>3. (IF k + 1 <= Len(pipe) THEN Len(pipe) - (k + 1) + 1 ELSE 0) = Len(pipe) - k
    BY <1>2
  <2>4. ASSUME NEW i \in 1..Len(pipe)-k PROVE pipe'[i] = pipe[i + k]
    <3>1. i \in 1..Len(pipe)-(k+1)+1 /\ k + 1 + i - 1 = i + k
      BY <1>2
    <3> QED
      BY <2>2, <3>1
  <2> QED
    BY <2>2, <2>3, <2>4
<1>6. /\ got' \in Seq(Byte) /\ Len(got') = Len(got) + k
      /\ \A i \in 1..Len(got)+k : got'[i] = IF i <= Len(got) THEN got[i]
                                             ELSE SubSeq(pipe, 1, k)[i - Len(got)]
  BY <1>1, <1>4, ConcatProperties DEF IoTypes
<1>7. \A i \in 1..Len(got) : got'[i] = got[i]
  BY <1>2, <1>6
<1>8. \A i \in Len(got)+1..Len(got)+k : got'[i] = pipe[i - Len(got)]
  BY <1>2, <1>4, <1>6
<1> QED
  BY <1>1, <1>5, <1>6, <1>7, <1>8

LEMMA ReadKeepsOrder ==
  ASSUME IoInv, ReadSome
  PROVE  IoInv'
<1>0. IoTypes /\ Consecutive /\ EndsWithSent /\ (torn \/ Following)
  BY DEF IoInv
<1>1. PICK k \in 1..Len(pipe) :
           /\ Len(got) + k <= MessageLen
           /\ got' \in Seq(Byte) /\ Len(got') = Len(got) + k
           /\ \A i \in 1..Len(got) : got'[i] = got[i]
           /\ \A i \in Len(got)+1..Len(got)+k : got'[i] = pipe[i - Len(got)]
           /\ pipe' \in Seq(Byte) /\ Len(pipe') = Len(pipe) - k
           /\ \A i \in 1..Len(pipe)-k : pipe'[i] = pipe[i + k]
  BY <1>0, ReadTakes
<1>2. /\ MessageLen \in Nat \ {0} /\ Len(pipe) \in Nat /\ Len(got) \in Nat
      /\ k \in 1..Len(pipe) /\ receiving
      /\ UNCHANGED <<writerOpen, sending, unsent, eof, torn>>
  BY <1>0, MessageAssumption DEF IoTypes, ReadSome
<1>3. Sent' = Sent /\ (Len(pipe') > 0 => pipe'[Len(pipe')] = pipe[Len(pipe)])
  <2>1. Sent' = Sent
    BY <1>2 DEF Sent
  <2>2. Len(pipe') > 0 => pipe'[Len(pipe')] = pipe[Len(pipe) - k + k]
    BY <1>1, <1>2
  <2> QED
    BY <1>2, <2>1, <2>2
<1>4. IoTypes'
  <2>1. receiving' = (eof # "set" /\ Len(got') < MessageLen)
        /\ received' = IF receiving' THEN received ELSE "ok"
    BY DEF ReadSome
  <2>2. receiving' \in BOOLEAN
    BY <2>1
  <2>3. received' \in {"none", "ok", "error"}
    BY <1>0, <2>1 DEF IoTypes
  <2> QED
    BY <1>0, <1>1, <1>2, <2>2, <2>3 DEF IoTypes
<1>5. Consecutive'
  <2> SUFFICES ASSUME NEW i \in 1..Len(pipe)-k, NEW j \in 1..Len(pipe)-k, i <= j
               PROVE  /\ pipe'[i] + (j - i) <= MessageLen =>
                           pipe'[j] = pipe'[i] + (j - i)
                      /\ pipe'[i] + (j - i) = MessageLen + 1 => pipe'[j] = 1
    BY <1>1 DEF Consecutive
  <2>1. pipe'[i] = pipe[i + k] /\ pipe'[j] = pipe[j + k]
    BY <1>1
  <2>2. i + k \in 1..Len(pipe) /\ j + k \in 1..Len(pipe) /\ i + k <= j + k
        /\ (j + k) - (i + k) = j - i
    BY <1>2
  <2> QED
    BY <1>0, <2>1, <2>2 DEF Consecutive
<1>6. EndsWithSent'
  BY <1>0, <1>1, <1>2, <1>3 DEF EndsWithSent, Wrap
<1>7. torn' \/ Following'
  <2>1. CASE torn
    BY <1>2, <2>1
  <2>2. CASE Following
    <3>1. /\ Len(got) < MessageLen /\ eof # "set"
          /\ pipe[1] = Len(got) + 1
      BY <1>2, <2>2 DEF Following, Wrap
    <3>2. \A j \in 1..Len(pipe) :
            /\ Len(got) + j <= MessageLen => pipe[j] = Len(got) + j
            /\ Len(got) + j = MessageLen + 1 => pipe[j] = 1
      <4> SUFFICES ASSUME NEW j \in 1..Len(pipe)
                   PROVE  /\ Len(got) + j <= MessageLen => pipe[j] = Len(got) + j
                          /\ Len(got) + j = MessageLen + 1 => pipe[j] = 1
        OBVIOUS
      <4>1. /\ pipe[1] + (j - 1) <= MessageLen => pipe[j] = pipe[1] + (j - 1)
            /\ pipe[1] + (j - 1) = MessageLen + 1 => pipe[j] = 1
        BY <1>0, <1>2 DEF Consecutive
      <4> QED
        BY <1>2, <3>1, <4>1
    <3>3. \A i \in 1..Len(got') : got'[i] = i
      <4> SUFFICES ASSUME NEW i \in 1..Len(got)+k PROVE got'[i] = i
        BY <1>1
      <4>1. CASE i <= Len(got)
        BY <1>1, <1>2, <2>2, <4>1 DEF Following
      <4>2. CASE i > Len(got)
        <5>1. got'[i] = pipe[i - Len(got)] /\ i - Len(got) \in 1..Len(pipe)
          BY <1>1, <1>2, <4>2
        <5>2. Len(got) + (i - Len(got)) = i /\ i <= MessageLen
          BY <1>1, <1>2
        <5> QED
          BY <3>2, <5>1, <5>2
      <4> QED
        BY <1>2, <4>1, <4>2
    <3>4. Len(pipe') > 0 => pipe'[1] = Wrap(Len(got')) + 1
      <4> SUFFICES ASSUME k + 1 <= Len(pipe)
                   PROVE  pipe'[1] = Wrap(Len(got) + k) + 1
        BY <1>1, <1>2
      <4>1. pipe'[1] = pipe[k + 1] /\ k + 1 \in 1..Len(pipe)
        BY <1>1, <1>2
      <4>2. CASE Len(got) + k = MessageLen
        <5>1. Len(got) + (k + 1) = MessageLen + 1
          BY <1>2, <4>2
        <5> QED
          BY <3>2, <4>1, <4>2, <5>1 DEF Wrap
      <4>3. CASE Len(got) + k < MessageLen
        <5>1. Len(got) + (k + 1) <= MessageLen
          BY <1>2, <4>3
        <5>2. pipe[k + 1] = Len(got) + (k + 1)
          BY <3>2, <4>1, <5>1
        <5> QED
          BY <1>2, <4>1, <4>3, <5>2 DEF Wrap
      <4> QED
        BY <1>1, <1>2, <4>2, <4>3
    <3>5. writerOpen' /\ Len(pipe') = 0 => Wrap(Len(got')) = Wrap(Sent')
      <4> SUFFICES ASSUME writerOpen, k = Len(pipe)
                   PROVE  Wrap(Len(got')) = Wrap(Sent)
        BY <1>1, <1>2, <1>3 DEF Wrap
      <4>1. pipe[Len(pipe)] = Len(got')
        BY <1>1, <1>2, <3>2
      <4> QED
        BY <1>0, <1>2, <4>1 DEF EndsWithSent
    <3>6. /\ receiving' = (Len(got') < MessageLen)
          /\ received' = IF receiving' THEN received ELSE "ok"
      BY <3>1 DEF ReadSome
    <3>7. ~receiving' => Ended'
      <4> SUFFICES ASSUME ~receiving' PROVE Ended'
        OBVIOUS
      <4>1. received' = "ok" /\ ~(Len(got') < MessageLen)
        BY <3>6
      <4>2. Len(got') = MessageLen
        <5>1. Len(got') \in Nat /\ Len(got') <= MessageLen
          BY <1>1, <1>2
        <5> QED
          BY <1>2, <4>1, <5>1
      <4> QED
        BY <4>1, <4>2 DEF Ended
    <3>8. Following'
      BY <1>1, <1>2, <3>1, <3>3, <3>4, <3>5, <3>6, <3>7 DEF Following
    <3> QED
      BY <3>8
  <2> QED
    BY <1>0, <2>1, <2>2
<1> QED
  BY <1>4, <1>5, <1>6, <1>7 DEF IoInv

\* The other steps of the reader leave the pipe and the writer alone.
LEMMA ReaderKeepsOrder ==
  ASSUME IoInv, "set" \notin EofFlags, ReadAll \/ ReadEnd \/ ReadFails
  PROVE  IoInv'
<1>0. IoTypes /\ Consecutive /\ EndsWithSent /\ (torn \/ Following)
  BY DEF IoInv
<1>1. UNCHANGED <<pipe, writerOpen, sending, unsent>> /\ Sent' = Sent
  BY DEF ReadAll, ReadEnd, ReadFails, Sent
<1>2. /\ MessageLen \in Nat \ {0} /\ unsent \in 0..MessageLen
      /\ Len(pipe) \in Nat /\ Len(got) \in Nat
  BY <1>0, MessageAssumption DEF IoTypes
<1>3. Consecutive' /\ EndsWithSent'
  BY <1>0, <1>1 DEF Consecutive, EndsWithSent, Wrap
<1>4. CASE ReadAll
  <2>1. /\ got' = <<>> /\ receiving' = TRUE /\ received' = "none" /\ torn' = torn
        /\ eof' # "set" /\ ~receiving
    BY <1>4 DEF ReadAll
  <2>2. Len(got') = 0 /\ got' \in Seq(Byte)
    BY <2>1
  <2>3. IoTypes'
    BY <1>0, <1>1, <2>1, <2>2 DEF IoTypes
  <2>4. CASE Following
    <3>1. Ended
      BY <2>1, <2>4 DEF Following
    <3>2. Len(pipe) > 0 \/ writerOpen => Wrap(Len(got)) = 0
      BY <1>2, <3>1 DEF Ended, Wrap
    <3>3. Len(pipe') > 0 => pipe'[1] = Wrap(0) + 1
      BY <1>1, <1>2, <2>4, <3>2 DEF Following, Wrap
    <3>4. writerOpen' /\ Len(pipe') = 0 => Wrap(0) = Wrap(Sent')
      BY <1>1, <1>2, <2>4, <3>2 DEF Following, Wrap
    <3> QED
      BY <1>2, <1>3, <2>1, <2>2, <2>3, <3>3, <3>4 DEF Following, IoInv
  <2> QED
    BY <1>0, <1>3, <2>1, <2>3, <2>4 DEF IoInv
<1>5. CASE ReadEnd
  <2>1. /\ receiving /\ Len(pipe) = 0 /\ ~writerOpen
        /\ UNCHANGED <<got, torn>>
        /\ eof' = IF eof = "null" THEN eof ELSE "set"
        /\ receiving' = (eof = "null")
        /\ received' = IF receiving' THEN received ELSE "ok"
    BY <1>5 DEF ReadEnd
  <2>2. IoTypes'
    <3>1. receiving' \in BOOLEAN /\ received' \in {"none", "ok", "error"}
      BY <1>0, <2>1 DEF IoTypes
    <3> QED
      BY <1>0, <1>1, <2>1, <3>1 DEF IoTypes
  <2>3. receiving' => eof' # "set"
    BY <2>1
  <2>4. ~receiving' => Ended'
    BY <1>1, <2>1 DEF Ended
  <2>5. CASE Following
    <3>1. Following'
      BY <1>1, <1>2, <2>1, <2>3, <2>4, <2>5 DEF Following
    <3> QED
      BY <1>3, <2>2, <3>1 DEF IoInv
  <2> QED
    BY <1>0, <1>3, <2>1, <2>2, <2>5 DEF IoInv
<1>6. CASE ReadFails
  <2>1. /\ receiving' = FALSE /\ received' = "error"
        /\ torn' = (torn \/ got # <<>>) /\ UNCHANGED <<got, eof>>
    BY <1>6 DEF ReadFails
  <2>2. torn' \in BOOLEAN
    BY <2>1
  <2>3. IoTypes'
    BY <1>0, <1>1, <2>1, <2>2 DEF IoTypes
  <2>4. CASE ~torn'
    <3>1. Following /\ got = <<>> /\ Len(got) = 0
      BY <1>0, <2>1, <2>4
    <3>2. Following'
      BY <1>1, <1>2, <2>1, <3>1 DEF Following, Ended, Wrap
    <3> QED
      BY <1>3, <2>3, <3>2 DEF IoInv
  <2> QED
    BY <1>3, <2>3, <2>4 DEF IoInv
<1> QED
  BY <1>4, <1>5, <1>6

----------------------------------------------------------------------------
(* The loop. *)

\* What the loop and the second thread do to the pipe are the steps of Io.
LEMMA LoopTakesIoSteps == [LoopNext]_loopVars => IoStep \/ UNCHANGED ioVars
<1> SUFFICES ASSUME [LoopNext]_loopVars PROVE IoStep \/ UNCHANGED ioVars
  OBVIOUS
<1>1. CASE LoopSteps
  BY <1>1 DEF LoopSteps, Wait, Dispatch, CallbackStarts, CallbackReturns,
              ReadEvent, ReadTimer, ReadMessage, PipeHangsUp, IoStep
<1>2. CASE WriterSteps \/ WriterSends \/ Interrupted
  BY <1>2 DEF WriterSteps, EventWrite, WriterSends, Interrupted, IoStep
<1>3. CASE \E e \in Events : WriterBegins(e)
  BY <1>3 DEF WriterBegins
<1>4. CASE \E fd \in Fds : Open(fd) \/ Add(fd) \/ Rm(fd) \/ Close(fd)
  BY <1>4 DEF Open, Add, Rm, Close
<1>5. ASSUME NEW t \in Timers, NEW i, NEW n, TimerSet(t, i, n)
      PROVE  UNCHANGED ioVars
  BY <1>5 DEF TimerSet
<1>6. ASSUME NEW t \in Timers,
             \/ Expire(t) \/ TimerStop(t)
             \/ \E i, n \in BOOLEAN : TimerEvery(t, i, n)
             \/ \E n \in BOOLEAN : TimerSingleShot(t, n)
      PROVE  UNCHANGED ioVars
  BY <1>5, <1>6 DEF Expire, TimerStop, TimerEvery, TimerSingleShot
<1>7. CASE UNCHANGED loopVars
  BY <1>7 DEF loopVars
<1> QED
  BY <1>1, <1>2, <1>3, <1>4, <1>6, <1>7 DEF LoopNext

LEMMA IoInitInv == IoInit => IoInv
<1> SUFFICES ASSUME IoInit PROVE IoInv
  OBVIOUS
<1>1. Len(pipe) = 0 /\ Len(got) = 0 /\ pipe \in Seq(Byte) /\ got \in Seq(Byte)
  BY DEF IoInit
<1>2. MessageLen \in Nat \ {0} /\ unsent = 0
  BY MessageAssumption DEF IoInit
<1>3. IoTypes
  <2>1. unsent \in 0..MessageLen
    BY <1>2
  <2>2. /\ sending = FALSE /\ receiving = FALSE /\ writerOpen = TRUE /\ torn = FALSE
        /\ received = "none"
    BY DEF IoInit
  <2> QED
    BY <1>1, <1>2, <2>1, <2>2, Zenon DEF IoTypes
<1>4. Following
  BY <1>1, <1>2 DEF IoInit, Following, Ended, Wrap, Sent
<1> QED
  BY <1>1, <1>3, <1>4 DEF IoInv, Consecutive, EndsWithSent

\* A message that has been received without an error is whole and in order,
\* unless the stream has ended: for messages and pipes of every length, if
\* the caller passes a flag that is clear or none.
THEOREM MessagesArriveWhole ==
  ASSUME "set" \notin EofFlags
  PROVE  LoopSpec => []MessagesWhole
<1>1. LoopInit => IoInv
  BY IoInitInv DEF LoopInit
<1>2. IoInv /\ [LoopNext]_loopVars => IoInv'
  <2> SUFFICES ASSUME IoInv, [LoopNext]_loopVars PROVE IoInv'
    OBVIOUS
  <2>1. CASE UNCHANGED ioVars
    BY <2>1 DEF ioVars, IoInv, IoTypes, Consecutive, EndsWithSent, Following,
                Ended, Wrap, Sent
  <2>2. CASE IoStep
    BY <2>2, WriteKeepsOrder, WriterKeepsOrder, ReadKeepsOrder, ReaderKeepsOrder
       DEF IoStep
  <2> QED
    BY <2>1, <2>2, LoopTakesIoSteps
<1>3. IoInv => MessagesWhole
  <2> SUFFICES ASSUME IoInv, ~receiving, received = "ok", ~torn
               PROVE  /\ got = [i \in 1..Len(got) |-> i]
                      /\ Len(got) = MessageLen \/ (eof = "set" /\ ~writerOpen)
    BY DEF MessagesWhole
  <2>1. Following /\ Ended /\ got \in Seq(Byte)
    BY DEF IoInv, Following, IoTypes
  <2>2. got \in [1..Len(got) -> Byte]
    BY <2>1, LenProperties
  <2>3. got = [i \in 1..Len(got) |-> i]
    BY <2>1, <2>2 DEF Following
  <2> QED
    BY <2>1, <2>3 DEF Ended
<1> QED
  BY <1>1, <1>2, <1>3, PTL DEF LoopSpec

----------------------------------------------------------------------------
(* Reads that do not block. *)

\* An open descriptor that a read would not wait for.
Fresh(fd) == fd \in open /\ Ready(fd) # {}

\* The fields of a timer.
TimerFields == [armed : BOOLEAN, periodic : BOOLEAN, expired : BOOLEAN]

LoopTypes ==
  /\ MuxTypeOK
  /\ value \in [Events -> Nat]
  /\ timer \in [Timers -> TimerFields]

\* Where the loop thread is.  A callback for reading comes first.
PlaceInv ==
  /\ pc \in {"app", "dispatch", "callback"}
  /\ pc = "app" => batch = {} /\ cur = {} /\ todo = {}
  /\ todo \subseteq {"read", "hangup"}
  /\ which \in {{}, {"read"}, {"hangup"}, {"done"}}
  /\ pc = "callback" <=> which # {}
  /\ which # {} => "read" \notin todo
  /\ receiving => which = {"read"} /\ Pipe \in Own

\* The events that have been copied out are of different descriptors.
BatchInv ==
  /\ \A c, d \in cur : c = d
  /\ \A b, c \in batch : b.fd = c.fd => b = c
  /\ \A b \in batch : b.fd \notin Own

\* What was ready when it was copied out is ready until its callback has
\* read it, and open.
FreshInv ==
  /\ Registered \subseteq open
  /\ \A b \in batch : b.fd # Pipe => Fresh(b.fd)
  /\ "read" \in todo \cup which => \A fd \in Own \ {Pipe} : Fresh(fd)

LoopInv == LoopTypes /\ CountIsRegistered /\ PlaceInv /\ BatchInv /\ FreshInv

\* The part of it that is about the counter holds by itself.
CountInv ==
  /\ reg \in [Fds -> Objs \cup {Absent}] /\ count \in Nat
  /\ CountIsRegistered

\* What the steps of the second thread and of the kernel, and the setup of
\* descriptors, leave alone.
Aside == UNCHANGED <<pc, batch, cur, todo, which, receiving>>

----------------------------------------------------------------------------
(* What is registered. *)

LEMMA RegisteredIsFinite ==
  IsFiniteSet(Registered) /\ Cardinality(Registered) \in Nat
<1>1. IsFiniteSet(Registered)
  BY FdsAssumption, FS_Subset DEF Registered
<1> QED
  BY <1>1, FS_CardinalityType

\* A descriptor that is added was not registered, and one that is removed
\* is counted off only if it was.
LEMMA AddCounts ==
  ASSUME CountInv, NEW fd \in Fds \ Registered, MuxCtl("ADD", fd, fd)
  PROVE  /\ reg' \in [Fds -> Objs \cup {Absent}] /\ CountIsRegistered'
         /\ count' \in Nat /\ Registered' = Registered \cup {fd}
         /\ fd \in open
<1>1. /\ reg' = [reg EXCEPT ![fd] = fd] /\ count' = count + 1 /\ fd \in open
      /\ reg \in [Fds -> Objs \cup {Absent}] /\ count = Cardinality(Registered)
      /\ fd \in Objs
  BY LoopAssumption DEF MuxCtl, CountInv, CountIsRegistered
<1>2. Registered' = Registered \cup {fd}
  BY <1>1, AbsentAssumption DEF Registered
<1>3. Cardinality(Registered \cup {fd}) = Cardinality(Registered) + 1
  BY RegisteredIsFinite, FS_AddElement
<1> QED
  BY <1>1, <1>2, <1>3, RegisteredIsFinite DEF CountIsRegistered

LEMMA RmCounts ==
  ASSUME CountInv, NEW fd \in Fds, MuxRm(fd)
  PROVE  /\ reg' \in [Fds -> Objs \cup {Absent}] /\ CountIsRegistered'
         /\ count' \in Nat /\ Registered' \subseteq Registered
<1>1. /\ reg \in [Fds -> Objs \cup {Absent}] /\ count \in Nat
      /\ count = Cardinality(Registered)
  BY DEF CountInv, CountIsRegistered
<1>2. CASE fd \in open /\ fd \in Registered
  <2>1. reg' = [reg EXCEPT ![fd] = Absent] /\ count' = count - 1
    BY <1>2 DEF MuxRm
  <2>2. Registered' = Registered \ {fd}
    BY <1>1, <2>1 DEF Registered
  <2>3. Cardinality(Registered \ {fd}) = Cardinality(Registered) - 1
    BY <1>2, RegisteredIsFinite, FS_RemoveElement
  <2>4. Cardinality(Registered') \in Nat
    BY <2>2, RegisteredIsFinite, FS_Subset, FS_CardinalityType
  <2> QED
    BY <1>1, <2>1, <2>2, <2>3, <2>4 DEF CountIsRegistered
<1>3. CASE ~(fd \in open /\ fd \in Registered)
  <2>1. UNCHANGED <<reg, count>>
    BY <1>3 DEF MuxRm
  <2> QED
    BY <1>1, <2>1 DEF CountIsRegistered, Registered
<1> QED
  BY <1>2, <1>3

\* Nothing is counted when a descriptor is closed: it is not registered.
LEMMA CloseCounts ==
  ASSUME CountInv, NEW fd \in Fds, Close(fd)
  PROVE  /\ reg' \in [Fds -> Objs \cup {Absent}] /\ CountIsRegistered'
         /\ Registered' = Registered /\ open' = open \ {fd} /\ fd \notin Registered
<1>1. /\ fd \notin Registered /\ open' = open \ {fd}
      /\ reg' = [reg EXCEPT ![fd] = Absent] /\ count' = count
      /\ reg \in [Fds -> Objs \cup {Absent}] /\ count = Cardinality(Registered)
  BY DEF Close, CloseDescriptor, CountInv, CountIsRegistered
<1>2. Registered' = Registered
  BY <1>1 DEF Registered
<1> QED
  BY <1>1, <1>2 DEF CountIsRegistered

----------------------------------------------------------------------------
(* What is ready. *)

LEMMA ReadyOfOthers ==
  ASSUME NEW fd \in Fds \ {Pipe}
  PROVE  /\ fd \in Events \cup Timers
         /\ Ready(fd) \subseteq {"read"}
         /\ fd \in Events => (Ready(fd) # {} <=> value[fd] > 0)
         /\ fd \in Timers => (Ready(fd) # {} <=> timer[fd].expired)
         /\ fd \in Timers => fd \notin Events
BY LoopAssumption DEF Ready

LEMMA FreshKept ==
  ASSUME NEW fd \in Fds \ {Pipe}, Fresh(fd), fd \in open',
         fd \in Events => (value[fd] > 0 => value'[fd] > 0),
         fd \in Timers => (timer[fd].expired => timer'[fd].expired)
  PROVE  Fresh(fd)'
<1>1. /\ fd \in Events => (Ready(fd)' # {} <=> value'[fd] > 0)
      /\ fd \in Timers => (Ready(fd)' # {} <=> timer'[fd].expired)
  BY LoopAssumption DEF Ready
<1>2. Ready(fd)' # {}
  BY <1>1, ReadyOfOthers DEF Fresh
<1> QED
  BY <1>2 DEF Fresh

----------------------------------------------------------------------------
(* Steps that leave the place of the loop thread alone. *)

\* Such a step may spoil what is ready only where the loop thread runs code
\* that uses the descriptor, and there no callback waits for it.
LEMMA AsideKeeps ==
  ASSUME ~Meddles, LoopInv, Aside, (Registered \subseteq open)',
         \A fd \in Fds \ {Pipe} : Fresh(fd) => Fresh(fd)' \/ MayUse(fd)
  PROVE  PlaceInv' /\ BatchInv' /\ FreshInv'
<1>0. PlaceInv /\ BatchInv /\ FreshInv /\ LoopTypes
  BY DEF LoopInv
<1>1. UNCHANGED <<pc, batch, cur, todo, which, receiving>> /\ Own' = Own
  BY DEF Aside, Own
<1>2. PlaceInv'
  BY <1>0, <1>1 DEF PlaceInv
<1>3. BatchInv'
  BY <1>0, <1>1 DEF BatchInv
<1>4. ASSUME NEW b \in batch, b.fd # Pipe PROVE Fresh(b.fd)'
  <2>1. Fresh(b.fd) /\ b.fd \notin Own
    BY <1>0, <1>4 DEF FreshInv, BatchInv
  <2>2. b.fd \in Fds
    BY <1>0 DEF LoopTypes, MuxTypeOK, Event
  <2>3. ~MayUse(b.fd)
    <3>1. pc # "app"
      BY <1>0 DEF PlaceInv
    <3> QED
      BY <2>1, <3>1 DEF MayUse
  <2> QED
    BY <1>4, <2>1, <2>2, <2>3
<1>5. ASSUME "read" \in todo \cup which, NEW fd \in Own \ {Pipe} PROVE Fresh(fd)'
  <2>1. Fresh(fd)
    BY <1>0, <1>5 DEF FreshInv
  <2>2. fd \in Fds
    BY <1>0 DEF LoopTypes, MuxTypeOK, Event, Own
  <2>3. ~MayUse(fd)
    <3>1. pc # "app"
      BY <1>0, <1>5 DEF PlaceInv
    <3>2. which # {"done"}
      BY <1>0, <1>5 DEF PlaceInv
    <3> QED
      BY <3>1, <3>2 DEF MayUse
  <2> QED
    BY <2>1, <2>2, <2>3
<1>6. FreshInv'
  BY <1>1, <1>4, <1>5 DEF FreshInv
<1> QED
  BY <1>2, <1>3, <1>6

LEMMA SetupKeepsInv ==
  ASSUME ~Meddles, LoopInv, NEW fd \in Fds,
         Open(fd) \/ Add(fd) \/ Rm(fd) \/ Close(fd)
  PROVE  LoopInv'
<1>0. LoopTypes /\ MuxTypeOK /\ CountIsRegistered /\ Registered \subseteq open
  BY DEF LoopInv, LoopTypes, FreshInv
<1>1. Aside
  BY DEF Open, Add, Rm, Close, ioVars, Aside
<1>2. UNCHANGED <<pc, batch, cur, todo>>
  BY <1>1 DEF Aside
<1>3. /\ reg' \in [Fds -> Objs \cup {Absent}] /\ count' \in Nat
      /\ open' \subseteq Fds
      /\ CountIsRegistered' /\ (Registered \subseteq open)'
  <2>1. CASE Open(fd)
    <3>1. UNCHANGED <<reg, count>> /\ open' = open \cup {fd}
      BY <2>1 DEF Open
    <3>2. Registered' = Registered
      BY <3>1 DEF Registered
    <3> QED
      BY <1>0, <3>1, <3>2 DEF MuxTypeOK, CountIsRegistered
  <2>2. CASE Add(fd)
    <3>1. fd \in Fds \ Registered /\ MuxCtl("ADD", fd, fd) /\ open' = open
      BY <2>2 DEF Add
    <3> QED
      BY <1>0, <3>1, AddCounts DEF MuxTypeOK, CountInv
  <2>3. CASE Rm(fd)
    <3>1. MuxRm(fd) /\ open' = open
      BY <2>3 DEF Rm
    <3> QED
      BY <1>0, <3>1, RmCounts DEF MuxTypeOK, CountInv
  <2>4. CASE Close(fd)
    <3>1. count' = count
      BY <2>4 DEF Close
    <3>2. /\ reg' \in [Fds -> Objs \cup {Absent}] /\ CountIsRegistered'
          /\ Registered' = Registered /\ open' = open \ {fd} /\ fd \notin Registered
      BY <1>0, <2>4, CloseCounts DEF MuxTypeOK, CountInv
    <3> QED
      BY <1>0, <3>1, <3>2 DEF MuxTypeOK
  <2> QED
    BY <2>1, <2>2, <2>3, <2>4
<1>4. /\ value' \in [Events -> Nat] /\ timer' \in [Timers -> TimerFields]
      /\ \A g \in Fds \ {Pipe} : Fresh(g) => Fresh(g)' \/ MayUse(g)
  <2>1. CASE Close(fd)
    <3>1. /\ value' = [e \in Events |-> IF e = fd THEN 0 ELSE value[e]]
          /\ timer' = [t \in Timers |-> IF t = fd THEN Stopped ELSE timer[t]]
          /\ MayUse(fd) /\ open' = open \ {fd}
      BY <2>1 DEF Close, CloseDescriptor
    <3>2. value' \in [Events -> Nat]
      BY <1>0, <3>1 DEF LoopTypes
    <3>3. Stopped \in TimerFields
      BY DEF Stopped, TimerFields
    <3>4. timer' \in [Timers -> TimerFields]
      BY <1>0, <3>1, <3>3 DEF LoopTypes
    <3>5. ASSUME NEW g \in Fds \ {Pipe}, Fresh(g), g # fd PROVE Fresh(g)'
      <4>1. g \in open'
        BY <3>1, <3>5 DEF Fresh
      <4>2. g \in Events => value'[g] = value[g]
        BY <3>1, <3>5
      <4>3. g \in Timers => timer'[g] = timer[g]
        BY <3>1, <3>5
      <4> QED
        BY <3>5, <4>1, <4>2, <4>3, FreshKept
    <3> QED
      BY <3>1, <3>2, <3>4, <3>5
  <2>2. CASE Open(fd) \/ Add(fd) \/ Rm(fd)
    <3>1. UNCHANGED <<value, timer>> /\ open \subseteq open'
      BY <2>2 DEF Open, Add, Rm
    <3>2. ASSUME NEW g \in Fds \ {Pipe}, Fresh(g) PROVE Fresh(g)'
      <4>1. g \in open'
        BY <3>1, <3>2 DEF Fresh
      <4> QED
        BY <3>1, <3>2, <4>1, FreshKept
    <3> QED
      BY <1>0, <3>1, <3>2 DEF LoopTypes
  <2> QED
    BY <2>1, <2>2
<1>5. LoopTypes'
  BY <1>0, <1>2, <1>3, <1>4 DEF LoopTypes, MuxTypeOK
<1> QED
  BY <1>1, <1>3, <1>4, <1>5, AsideKeeps DEF LoopInv

\* A timer is set only where the loop thread may use it, and the kernel only
\* makes it ready.
LEMMA TimersKeepInv ==
  ASSUME ~Meddles, LoopInv, NEW t \in Timers,
         \/ Expire(t)
         \/ \E i, n \in BOOLEAN : TimerSet(t, i, n)
  PROVE  LoopInv'
<1>0. LoopTypes /\ MuxTypeOK /\ CountIsRegistered /\ Registered \subseteq open
  BY DEF LoopInv, LoopTypes, FreshInv
<1>1. UNCHANGED <<open, reg, count, pc, batch, cur, todo, which, receiving, value>>
  BY DEF Expire, TimerSet, muxVars, ioVars
<1>2. Aside /\ CountIsRegistered' /\ (Registered \subseteq open)' /\ MuxTypeOK'
  BY <1>0, <1>1 DEF Aside, CountIsRegistered, Registered, MuxTypeOK
<1>3. /\ timer' \in [Timers -> TimerFields]
      /\ \A g \in Timers \ {t} : timer'[g] = timer[g]
      /\ timer'[t].expired \/ MayUse(t)
  <2>1. timer \in [Timers -> TimerFields]
    BY <1>0 DEF LoopTypes
  <2>2. CASE Expire(t)
    <3>1. timer' = [timer EXCEPT ![t].expired = TRUE, ![t].armed = timer[t].periodic]
      BY <2>2 DEF Expire
    <3>2. timer[t] \in TimerFields
      BY <2>1
    <3>3. [timer[t] EXCEPT !.expired = TRUE, !.armed = timer[t].periodic] \in TimerFields
      BY <3>2 DEF TimerFields
    <3>4. timer' = [timer EXCEPT ![t] =
                      [timer[t] EXCEPT !.expired = TRUE, !.armed = timer[t].periodic]]
      BY <2>1, <3>1
    <3>5. timer'[t].expired
      BY <2>1, <3>2, <3>4 DEF TimerFields
    <3> QED
      BY <2>1, <3>3, <3>4, <3>5
  <2>3. ASSUME NEW i \in BOOLEAN, NEW n \in BOOLEAN, TimerSet(t, i, n)
        PROVE  /\ timer' \in [Timers -> TimerFields]
               /\ \A g \in Timers \ {t} : timer'[g] = timer[g]
               /\ MayUse(t)
    <3>1. /\ timer' = [timer EXCEPT ![t] = [armed |-> n, expired |-> FALSE,
                                            periodic |-> n /\ i]]
          /\ MayUse(t)
      BY <2>3 DEF TimerSet
    <3>2. [armed |-> n, expired |-> FALSE, periodic |-> n /\ i] \in TimerFields
      BY DEF TimerFields
    <3> QED
      BY <2>1, <3>1, <3>2
  <2> QED
    BY <2>2, <2>3
<1>4. LoopTypes'
  BY <1>0, <1>1, <1>2, <1>3 DEF LoopTypes
<1>5. ASSUME NEW g \in Fds \ {Pipe}, Fresh(g) PROVE Fresh(g)' \/ MayUse(g)
  <2>1. g \in open' /\ value' = value
    BY <1>1, <1>5 DEF Fresh
  <2>2. CASE g = t /\ MayUse(t)
    BY <2>2
  <2>3. CASE ~(g = t /\ MayUse(t))
    <3>1. g \in Timers => (timer[g].expired => timer'[g].expired)
      BY <1>3, <2>3
    <3> QED
      BY <1>5, <2>1, <3>1, FreshKept
  <2> QED
    BY <2>2, <2>3
<1> QED
  BY <1>2, <1>4, <1>5, AsideKeeps DEF LoopInv

\* The second thread only makes events ready.
LEMMA WritersKeepInv ==
  ASSUME ~Meddles, LoopInv,
         \/ WriterSteps \/ WriterSends
         \/ \E e \in Events : WriterBegins(e)
         \/ WriteFails /\ UNCHANGED <<muxVars, value, timer, which, writing>>
  PROVE  LoopInv'
<1>0. LoopTypes /\ MuxTypeOK /\ CountIsRegistered /\ Registered \subseteq open
  BY DEF LoopInv, LoopTypes, FreshInv
<1>1. UNCHANGED <<open, reg, count, pc, batch, cur, todo, which, receiving, timer>>
  BY DEF WriterSteps, WriterSends, WriterBegins, WriteFails, WriteAll, WriteSome,
         CloseWriter, EventWrite, muxVars, ioVars
<1>2. Aside /\ CountIsRegistered' /\ (Registered \subseteq open)' /\ MuxTypeOK'
  BY <1>0, <1>1 DEF Aside, CountIsRegistered, Registered, MuxTypeOK
<1>3. /\ value' \in [Events -> Nat]
      /\ \A e \in Events : value[e] > 0 => value'[e] > 0
  <2>1. value \in [Events -> Nat]
    BY <1>0 DEF LoopTypes
  <2>2. CASE EventWrite
    <3>1. PICK e \in writing : value' = [value EXCEPT ![e] = @ + 1]
      BY <2>2 DEF EventWrite
    <3>2. \A g \in Events : value'[g] = IF g = e THEN value[g] + 1 ELSE value[g]
      BY <2>1, <3>1
    <3>3. value' \in [Events -> Nat]
      <4>1. \A g \in Events : value[g] \in Nat /\ value'[g] \in Nat
        BY <2>1, <3>2
      <4>2. value' = [g \in Events |-> value'[g]]
        BY <2>1, <3>1
      <4> QED
        BY <4>1, <4>2
    <3> QED
      BY <2>1, <3>2, <3>3
  <2>3. CASE ~EventWrite
    <3>1. value' = value
      BY <2>3 DEF WriterSteps, WriterSends, WriterBegins
    <3> QED
      BY <2>1, <3>1
  <2> QED
    BY <2>2, <2>3
<1>4. LoopTypes'
  BY <1>0, <1>1, <1>2, <1>3 DEF LoopTypes
<1>5. ASSUME NEW g \in Fds \ {Pipe}, Fresh(g) PROVE Fresh(g)'
  <2>1. g \in open' /\ timer' = timer
    BY <1>1, <1>5 DEF Fresh
  <2> QED
    BY <1>3, <1>5, <2>1, FreshKept
<1> QED
  BY <1>2, <1>4, <1>5, AsideKeeps DEF LoopInv

----------------------------------------------------------------------------
(* The steps of the loop. *)

\* Those of ae_mux_wait change nothing that makes a descriptor ready.
LEMMA LoopKeepsReadiness ==
  ASSUME LoopInv, UNCHANGED <<open, reg, count, value, timer>>
  PROVE  /\ CountIsRegistered'
         /\ Registered' = Registered /\ (Registered \subseteq open)'
         /\ \A fd \in Fds \ {Pipe} : Fresh(fd) => Fresh(fd)'
<1>1. Registered' = Registered /\ Registered \subseteq open /\ CountIsRegistered
  BY DEF Registered, LoopInv, FreshInv
<1>2. ASSUME NEW fd \in Fds \ {Pipe}, Fresh(fd) PROVE Fresh(fd)'
  <2>1. fd \in open'
    BY <1>2 DEF Fresh
  <2> QED
    BY <1>2, <2>1, FreshKept
<1> QED
  BY <1>1, <1>2 DEF CountIsRegistered

\* What is copied out is registered, so open, and ready.
LEMMA WaitKeepsInv ==
  ASSUME LoopInv, Wait
  PROVE  LoopInv'
<1>0. LoopTypes /\ MuxTypeOK /\ PlaceInv /\ BatchInv /\ FreshInv
  BY DEF LoopInv, LoopTypes
<1> DEFINE copy(fd) == [fd |-> fd, obj |-> reg[fd],
                        conds |-> Ready(fd) \cap Reportable(reg[fd])]
           ready == {fd \in Registered : Ready(fd) # {}}
<1>1. /\ pc = "app" /\ pc' = "dispatch" /\ UNCHANGED <<cur, todo>>
      /\ batch' \subseteq {copy(fd) : fd \in ready}
      /\ UNCHANGED <<open, reg, count, value, timer, which, receiving>>
  BY DEF Wait, WaitReturns, ioVars
<1>2. /\ CountIsRegistered' /\ (Registered \subseteq open)'
      /\ \A fd \in Fds \ {Pipe} : Fresh(fd) => Fresh(fd)'
  BY <1>1, LoopKeepsReadiness
<1>3. \A fd \in Registered : copy(fd) \in Event
  <2> SUFFICES ASSUME NEW fd \in Registered PROVE copy(fd) \in Event
    OBVIOUS
  <2>1. fd \in Fds /\ reg[fd] \in Objs
    BY <1>0 DEF MuxTypeOK, Registered
  <2>2. Reportable(reg[fd]) \subseteq Kinds
    BY <2>1, HandlersAssumption DEF Reportable, EventFlags, Kinds
  <2> QED
    BY <2>1, <2>2 DEF Event
<1>4. \A b \in batch' : b \in Event /\ b = copy(b.fd) /\ b.fd \in Registered
                                                      /\ Ready(b.fd) # {}
  <2> SUFFICES ASSUME NEW b \in batch'
               PROVE  b \in Event /\ b = copy(b.fd) /\ b.fd \in Registered
                                                    /\ Ready(b.fd) # {}
    OBVIOUS
  <2>1. PICK fd \in ready : b = copy(fd)
    BY <1>1
  <2>2. b.fd = fd
    BY <2>1
  <2>3. fd \in Registered /\ Ready(fd) # {}
    OBVIOUS
  <2> QED
    BY <1>3, <2>1, <2>2, <2>3
<1>5. cur = {} /\ todo = {} /\ which = {} /\ ~receiving
  BY <1>0, <1>1 DEF PlaceInv
<1>6. LoopTypes'
  BY <1>0, <1>1, <1>4 DEF LoopTypes, MuxTypeOK
<1>7. PlaceInv'
  BY <1>1, <1>5 DEF PlaceInv
<1>8. BatchInv'
  <2>1. cur' = {} /\ Own' = {}
    BY <1>1, <1>5 DEF Own
  <2>2. \A b, c \in batch' : b.fd = c.fd => b = c
    BY <1>4
  <2> QED
    BY <2>1, <2>2 DEF BatchInv
<1>9. FreshInv'
  <2>1. ASSUME NEW b \in batch', b.fd # Pipe PROVE Fresh(b.fd)'
    <3>1. b.fd \in Registered /\ Ready(b.fd) # {}
      BY <1>4
    <3>2. b.fd \in Fds \ {Pipe}
      BY <2>1, <3>1 DEF Registered
    <3>3. Fresh(b.fd)
      BY <1>0, <3>1 DEF Fresh, FreshInv
    <3> QED
      BY <1>2, <3>2, <3>3
  <2>2. "read" \notin todo' \cup which'
    BY <1>1, <1>5
  <2> QED
    BY <1>2, <2>1, <2>2 DEF FreshInv
<1> QED
  BY <1>2, <1>6, <1>7, <1>8, <1>9 DEF LoopInv

LEMMA DispatchKeepsInv ==
  ASSUME LoopInv, Dispatch
  PROVE  LoopInv'
<1>0. LoopTypes /\ MuxTypeOK /\ PlaceInv /\ BatchInv /\ FreshInv
  BY DEF LoopInv, LoopTypes
<1>1. /\ pc = "dispatch" /\ todo = {}
      /\ UNCHANGED <<open, reg, count, value, timer, which, receiving>>
  BY DEF Dispatch, DispatchEvent, WaitEnds, ioVars
<1>2. /\ CountIsRegistered' /\ (Registered \subseteq open)'
      /\ \A fd \in Fds \ {Pipe} : Fresh(fd) => Fresh(fd)'
  BY <1>1, LoopKeepsReadiness
<1>3. which = {} /\ ~receiving
  BY <1>0, <1>1 DEF PlaceInv
<1>4. CASE WaitEnds
  <2>1. pc' = "app" /\ cur' = {} /\ batch' = {} /\ todo' = {} /\ Own' = {}
    BY <1>4 DEF WaitEnds, Own
  <2>2. LoopTypes'
    BY <1>0, <1>1, <2>1 DEF LoopTypes, MuxTypeOK
  <2>3. PlaceInv'
    BY <1>1, <1>3, <2>1 DEF PlaceInv
  <2>4. BatchInv' /\ FreshInv'
    BY <1>1, <1>2, <1>3, <2>1 DEF BatchInv, FreshInv
  <2> QED
    BY <1>2, <2>2, <2>3, <2>4 DEF LoopInv
<1>5. CASE DispatchEvent
  <2>1. PICK ev \in batch :
          /\ batch' = batch \ {ev} /\ cur' = {ev}
          /\ todo' = ev.conds \cap HandlersOf[ev.obj]
    BY <1>5 DEF DispatchEvent
  <2>2. pc' = "dispatch" /\ Own' = {ev.fd} /\ ev \in Event
    BY <1>0, <1>1, <1>5, <2>1 DEF DispatchEvent, Own, MuxTypeOK
  <2>3. todo' \subseteq {"read", "hangup"} /\ todo' \subseteq Kinds
    <3>1. ev.obj \in Fds
      BY <2>2, LoopAssumption DEF Event
    <3>2. HandlersOf[ev.obj] \in {{"read"}, {"read", "hangup"}}
      BY <3>1, LoopAssumption
    <3> QED
      BY <2>1, <3>2 DEF Kinds
  <2>4. LoopTypes'
    BY <1>0, <1>1, <2>1, <2>2, <2>3 DEF LoopTypes, MuxTypeOK
  <2>5. PlaceInv'
    BY <1>1, <1>3, <2>2, <2>3 DEF PlaceInv
  <2>6. BatchInv'
    BY <1>0, <2>1, <2>2 DEF BatchInv
  <2>7. FreshInv'
    <3>1. \A b \in batch : b.fd # Pipe => Fresh(b.fd)'
      <4> SUFFICES ASSUME NEW b \in batch, b.fd # Pipe PROVE Fresh(b.fd)'
        OBVIOUS
      <4>1. b.fd \in Fds \ {Pipe}
        BY <1>0 DEF MuxTypeOK, Event
      <4>2. Fresh(b.fd)
        BY <1>0 DEF FreshInv
      <4> QED
        BY <1>2, <4>1, <4>2
    <3>2. \A b \in batch' : b.fd # Pipe => Fresh(b.fd)'
      BY <2>1, <3>1
    <3>3. \A fd \in Own' \ {Pipe} : Fresh(fd)'
      BY <2>2, <3>1
    <3> QED
      BY <1>2, <3>2, <3>3 DEF FreshInv
  <2> QED
    BY <1>2, <2>4, <2>5, <2>6, <2>7 DEF LoopInv
<1> QED
  BY <1>4, <1>5 DEF Dispatch

\* The callback for reading is the first one of its event.
LEMMA CallbackKeepsInv ==
  ASSUME LoopInv, CallbackStarts \/ CallbackReturns
  PROVE  LoopInv'
<1>0. LoopTypes /\ MuxTypeOK /\ PlaceInv /\ BatchInv /\ FreshInv
  BY DEF LoopInv, LoopTypes
<1>1. UNCHANGED <<open, reg, count, batch, cur, value, timer, receiving>>
  BY DEF CallbackStarts, CallbackReturns, ioVars
<1>2. /\ CountIsRegistered' /\ (Registered \subseteq open)'
      /\ \A fd \in Fds \ {Pipe} : Fresh(fd) => Fresh(fd)'
  BY <1>1, LoopKeepsReadiness
<1>3. Own' = Own
  BY <1>1 DEF Own
<1>4. /\ pc' \in {"dispatch", "callback"} /\ todo' \subseteq todo
      /\ ~receiving
      /\ "read" \in todo' \cup which' => "read" \in todo
      /\ which' \in {{}, {"read"}, {"hangup"}}
      /\ pc' = "callback" <=> which' # {}
      /\ which' # {} => "read" \notin todo'
  <2>1. CASE CallbackStarts
    <3>1. PICK k \in todo : NextCallback(k) /\ which' = {k}
      BY <2>1 DEF CallbackStarts
    <3>2. /\ pc = "dispatch" /\ pc' = "callback" /\ todo' = todo \ {k}
          /\ \A j \in todo : Rank[k] <= Rank[j]
      BY <2>1, <3>1 DEF NextCallback, CallbackStarts
    <3>3. k \in {"read", "hangup"} /\ todo \subseteq {"read", "hangup"}
      BY <1>0 DEF PlaceInv
    <3>4. "read" \in todo => k = "read"
      <4>1. Rank["hangup"] = 3 /\ Rank["read"] = 1
        BY DEF Rank
      <4> QED
        BY <3>2, <3>3, <4>1
    <3>5. which = {} /\ ~receiving
      BY <1>0, <3>2 DEF PlaceInv
    <3> QED
      BY <3>1, <3>2, <3>3, <3>4, <3>5
  <2>2. CASE CallbackReturns
    <3>1. /\ pc' = "dispatch" /\ which = {"done"} /\ which' = {} /\ todo' = todo
      BY <2>2 DEF CallbackReturns
    <3> QED
      BY <1>0, <3>1 DEF PlaceInv
  <2> QED
    BY <2>1, <2>2
<1>5. LoopTypes'
  BY <1>0, <1>1, <1>4 DEF LoopTypes, MuxTypeOK
<1>6. PlaceInv'
  BY <1>0, <1>1, <1>4 DEF PlaceInv
<1>7. BatchInv'
  BY <1>0, <1>1, <1>3 DEF BatchInv
<1>8. FreshInv'
  <2>1. ASSUME NEW b \in batch, b.fd # Pipe PROVE Fresh(b.fd)'
    <3>1. b.fd \in Fds \ {Pipe} /\ Fresh(b.fd)
      BY <1>0, <2>1 DEF MuxTypeOK, Event, FreshInv
    <3> QED
      BY <1>2, <3>1
  <2>2. ASSUME "read" \in todo' \cup which', NEW fd \in Own \ {Pipe} PROVE Fresh(fd)'
    <3>1. fd \in Fds \ {Pipe}
      BY <1>0 DEF MuxTypeOK, Event, Own
    <3>2. Fresh(fd)
      BY <1>0, <1>4, <2>2 DEF FreshInv
    <3> QED
      BY <1>2, <3>1, <3>2
  <2> QED
    BY <1>1, <1>2, <1>3, <2>1, <2>2 DEF FreshInv
<1> QED
  BY <1>2, <1>5, <1>6, <1>7, <1>8 DEF LoopInv

----------------------------------------------------------------------------
(* The callbacks. *)

\* A callback takes what made its own descriptor ready, and is done with it.
LEMMA ReadsKeepPlace ==
  ASSUME LoopInv, pc = "callback", UNCHANGED <<pc, batch, cur, todo>>,
         which' \in {{"read"}, {"done"}},
         which' = {"read"} => which = {"read"},
         receiving' => which' = {"read"} /\ Pipe \in Own,
         (Registered \subseteq open)',
         \A fd \in Fds \ {Pipe} :
           Fresh(fd) => Fresh(fd)' \/ (fd \in Own /\ which' = {"done"})
  PROVE  PlaceInv' /\ BatchInv' /\ FreshInv'
<1>0. LoopTypes /\ MuxTypeOK /\ PlaceInv /\ BatchInv /\ FreshInv
  BY DEF LoopInv, LoopTypes
<1>1. Own' = Own
  BY DEF Own
<1>2. "read" \notin todo
  BY <1>0 DEF PlaceInv
<1>3. PlaceInv'
  BY <1>0, <1>1, <1>2 DEF PlaceInv
<1>4. BatchInv'
  BY <1>0, <1>1 DEF BatchInv
<1>5. ASSUME NEW b \in batch, b.fd # Pipe PROVE Fresh(b.fd)'
  <2>1. b.fd \in Fds \ {Pipe} /\ Fresh(b.fd) /\ b.fd \notin Own
    BY <1>0, <1>5 DEF MuxTypeOK, Event, FreshInv, BatchInv
  <2> QED
    BY <2>1
<1>6. ASSUME "read" \in todo' \cup which', NEW fd \in Own \ {Pipe} PROVE Fresh(fd)'
  <2>1. which' = {"read"} /\ which = {"read"}
    BY <1>2, <1>6
  <2>2. fd \in Fds \ {Pipe}
    BY <1>0 DEF MuxTypeOK, Event, Own
  <2>3. Fresh(fd)
    BY <1>0, <2>1 DEF FreshInv
  <2> QED
    BY <2>1, <2>2, <2>3
<1>7. FreshInv'
  BY <1>1, <1>5, <1>6 DEF FreshInv
<1> QED
  BY <1>3, <1>4, <1>7

\* The callback of an event or a timer is not the one that reads the pipe.
LEMMA OwnIsOne ==
  ASSUME LoopInv, NEW fd \in Own
  PROVE  \A g \in Own : g = fd
BY DEF LoopInv, BatchInv, Own

LEMMA ReadsKeepInv ==
  ASSUME LoopInv,
         \/ \E e \in Events : ReadEvent(e)
         \/ \E t \in Timers : ReadTimer(t)
  PROVE  LoopInv'
<1>0. LoopTypes /\ MuxTypeOK /\ PlaceInv /\ CountIsRegistered /\ Registered \subseteq open
  BY DEF LoopInv, LoopTypes, FreshInv
<1>1. /\ UNCHANGED <<open, reg, count, pc, batch, cur, todo, receiving>>
      /\ pc = "callback" /\ which' = {"done"}
  BY DEF ReadEvent, ReadTimer, muxVars, ioVars
<1>2. CountIsRegistered' /\ (Registered \subseteq open)' /\ MuxTypeOK'
  BY <1>0, <1>1 DEF CountIsRegistered, Registered, MuxTypeOK
<1>3. PICK own \in Own :
        /\ own \in Events \cup Timers
        /\ \A g \in Events \ {own} : value'[g] = value[g]
        /\ \A g \in Timers \ {own} : timer'[g] = timer[g]
        /\ value' \in [Events -> Nat] /\ timer' \in [Timers -> TimerFields]
  <2>1. value \in [Events -> Nat] /\ timer \in [Timers -> TimerFields]
    BY <1>0 DEF LoopTypes
  <2>2. ASSUME NEW e \in Events, ReadEvent(e)
        PROVE  /\ e \in Own
               /\ \A g \in Events \ {e} : value'[g] = value[g]
               /\ timer' = timer
               /\ value' \in [Events -> Nat]
    <3>1. e \in Own /\ value' = [value EXCEPT ![e] = 0] /\ timer' = timer
      BY <2>2 DEF ReadEvent
    <3> QED
      BY <2>1, <3>1
  <2>3. ASSUME NEW t \in Timers, ReadTimer(t)
        PROVE  /\ t \in Own
               /\ \A g \in Timers \ {t} : timer'[g] = timer[g]
               /\ value' = value
               /\ timer' \in [Timers -> TimerFields]
    <3>1. t \in Own /\ timer' = [timer EXCEPT ![t].expired = FALSE] /\ value' = value
      BY <2>3 DEF ReadTimer
    <3>2. [timer[t] EXCEPT !.expired = FALSE] \in TimerFields
      BY <2>1 DEF TimerFields
    <3>3. timer' = [timer EXCEPT ![t] = [timer[t] EXCEPT !.expired = FALSE]]
      BY <2>1, <3>1
    <3> QED
      BY <2>1, <3>1, <3>2, <3>3
  <2> QED
    BY <2>1, <2>2, <2>3
<1>4. ~receiving
  <2>1. own # Pipe
    BY <1>3, LoopAssumption
  <2>2. Pipe \notin Own
    BY <1>3, <2>1, OwnIsOne
  <2> QED
    BY <1>0, <2>2 DEF PlaceInv
<1>5. ASSUME NEW g \in Fds \ {Pipe}, Fresh(g), g # own PROVE Fresh(g)'
  <2>1. g \in open'
    BY <1>1, <1>5 DEF Fresh
  <2>2. g \in Events => value'[g] = value[g]
    BY <1>3, <1>5
  <2>3. g \in Timers => timer'[g] = timer[g]
    BY <1>3, <1>5
  <2> QED
    BY <1>5, <2>1, <2>2, <2>3, FreshKept
<1>6. \A g \in Fds \ {Pipe} : Fresh(g) => Fresh(g)' \/ (g \in Own /\ which' = {"done"})
  BY <1>1, <1>3, <1>5
<1>7. ~receiving'
  BY <1>1, <1>4
<1>8. PlaceInv' /\ BatchInv' /\ FreshInv'
  BY <1>1, <1>2, <1>6, <1>7, ReadsKeepPlace
<1>9. LoopTypes'
  BY <1>2, <1>3 DEF LoopTypes
<1> QED
  BY <1>2, <1>8, <1>9 DEF LoopInv

LEMMA PipeKeepsInv ==
  ASSUME LoopInv,
         \/ ReadMessage \/ PipeHangsUp
         \/ ReadFails /\ which' = {"done"} /\ UNCHANGED <<muxVars, value, timer, writing>>
  PROVE  LoopInv'
<1>0. LoopTypes /\ MuxTypeOK /\ PlaceInv /\ CountIsRegistered /\ Registered \subseteq open
  BY DEF LoopInv, LoopTypes, FreshInv
<1>1. UNCHANGED <<open, pc, batch, cur, todo, value, timer>>
  BY DEF ReadMessage, PipeHangsUp, muxVars
<1>2. /\ pc = "callback" /\ which' \in {{"read"}, {"done"}}
      /\ which' = {"read"} => which = {"read"}
      /\ receiving' => which' = {"read"} /\ Pipe \in Own
  <2>1. CASE ReadMessage
    <3>1. pc = "callback" /\ which = {"read"} /\ Pipe \in Own
      BY <2>1 DEF ReadMessage
    <3>2. which' = which \/ (which' = {"done"} /\ ~receiving')
      BY <2>1 DEF ReadMessage
    <3> QED
      BY <3>1, <3>2
  <2>2. CASE PipeHangsUp
    <3>1. pc = "callback" /\ which = {"hangup"} /\ which' = {"done"}
                          /\ receiving' = receiving
      BY <2>2 DEF PipeHangsUp, ioVars
    <3>2. ~receiving
      BY <1>0, <3>1 DEF PlaceInv
    <3> QED
      BY <3>1, <3>2
  <2>3. CASE ReadFails /\ which' = {"done"}
    <3>1. receiving /\ ~receiving'
      BY <2>3 DEF ReadFails
    <3>2. which = {"read"}
      BY <1>0, <3>1 DEF PlaceInv
    <3>3. pc = "callback"
      BY <1>0, <3>2 DEF PlaceInv
    <3> QED
      BY <2>3, <3>1, <3>3
  <2> QED
    BY <2>1, <2>2, <2>3
<1>3. /\ reg' \in [Fds -> Objs \cup {Absent}] /\ count' \in Nat
      /\ CountIsRegistered' /\ Registered' \subseteq Registered
  <2>1. CASE PipeHangsUp
    <3>1. Pipe \in Fds /\ MuxRm(Pipe)
      BY <2>1, LoopAssumption DEF PipeHangsUp
    <3> QED
      BY <1>0, <3>1, RmCounts DEF MuxTypeOK, CountInv
  <2>2. CASE ~PipeHangsUp
    <3>1. UNCHANGED <<reg, count>>
      BY <2>2 DEF ReadMessage, muxVars
    <3> QED
      BY <1>0, <3>1 DEF MuxTypeOK, CountIsRegistered, Registered
  <2> QED
    BY <2>1, <2>2
<1>4. (Registered \subseteq open)'
  BY <1>0, <1>1, <1>3
<1>5. LoopTypes'
  BY <1>0, <1>1, <1>3 DEF LoopTypes, MuxTypeOK
<1>6. ASSUME NEW g \in Fds \ {Pipe}, Fresh(g) PROVE Fresh(g)'
  <2>1. g \in open'
    BY <1>1, <1>6 DEF Fresh
  <2> QED
    BY <1>1, <1>6, <2>1, FreshKept
<1>7. PlaceInv' /\ BatchInv' /\ FreshInv'
  BY <1>1, <1>2, <1>4, <1>6, ReadsKeepPlace
<1> QED
  BY <1>3, <1>5, <1>7 DEF LoopInv

----------------------------------------------------------------------------
(* The theorems. *)

LEMMA LoopInitInv == LoopInit => LoopInv
<1> SUFFICES ASSUME LoopInit PROVE LoopInv
  OBVIOUS
<1>1. /\ open = {} /\ reg = [fd \in Fds |-> Absent] /\ count = 0 /\ pc = "app"
      /\ batch = {} /\ cur = {} /\ todo = {} /\ which = {}
      /\ value = [e \in Events |-> 0] /\ timer = [t \in Timers |-> Stopped]
      /\ receiving = FALSE
  BY DEF LoopInit, MuxInit, IoInit
<1>2. Registered = {}
  BY <1>1 DEF Registered
<1>3. Stopped \in TimerFields
  BY DEF Stopped, TimerFields
<1>4. LoopTypes
  BY <1>1, <1>3 DEF LoopTypes, MuxTypeOK
<1>5. CountIsRegistered
  BY <1>1, <1>2, FS_EmptySet DEF CountIsRegistered
<1>6. PlaceInv
  BY <1>1 DEF PlaceInv
<1>7. BatchInv /\ FreshInv
  BY <1>1, <1>2 DEF BatchInv, FreshInv
<1> QED
  BY <1>4, <1>5, <1>6, <1>7 DEF LoopInv

LEMMA LoopKeepsInv ==
  ASSUME ~Meddles, LoopInv, [LoopNext]_loopVars
  PROVE  LoopInv'
<1>1. CASE LoopSteps
  BY <1>1, WaitKeepsInv, DispatchKeepsInv, CallbackKeepsInv, ReadsKeepInv,
     PipeKeepsInv DEF LoopSteps
<1>2. CASE WriterSteps \/ WriterSends \/ \E e \in Events : WriterBegins(e)
  BY <1>2, WritersKeepInv
<1>3. CASE Interrupted
  BY <1>3, WritersKeepInv, PipeKeepsInv DEF Interrupted
<1>4. CASE \E fd \in Fds : Open(fd) \/ Add(fd) \/ Rm(fd) \/ Close(fd)
  BY <1>4, SetupKeepsInv
<1>5. CASE \E t \in Timers :
             \/ Expire(t) \/ TimerStop(t)
             \/ MayStart(t) /\ \E i, n \in BOOLEAN : TimerEvery(t, i, n)
             \/ MayStart(t) /\ \E n \in BOOLEAN : TimerSingleShot(t, n)
  <2>1. PICK t \in Timers :
             \/ Expire(t) \/ TimerStop(t)
             \/ \E i, n \in BOOLEAN : TimerEvery(t, i, n)
             \/ \E n \in BOOLEAN : TimerSingleShot(t, n)
    BY <1>5
  <2>2. CASE Expire(t)
    BY <2>2, TimersKeepInv
  <2>3. CASE ~Expire(t)
    <3>1. \E i, n \in BOOLEAN : TimerSet(t, i, n)
      <4>1. CASE TimerStop(t)
        BY <4>1 DEF TimerStop
      <4>2. ASSUME NEW i \in BOOLEAN, NEW n \in BOOLEAN, TimerEvery(t, i, n)
            PROVE  \E j, m \in BOOLEAN : TimerSet(t, j, m)
        <5>1. TimerSet(t, i, n \/ i) /\ (n \/ i) \in BOOLEAN
          BY <4>2 DEF TimerEvery
        <5> QED
          BY <5>1
      <4>3. ASSUME NEW n \in BOOLEAN, TimerSingleShot(t, n)
            PROVE  \E j, m \in BOOLEAN : TimerSet(t, j, m)
        BY <4>3 DEF TimerSingleShot
      <4> QED
        BY <2>1, <2>3, <4>1, <4>2, <4>3
    <3> QED
      BY <3>1, TimersKeepInv
  <2> QED
    BY <2>2, <2>3
<1>6. CASE UNCHANGED loopVars
  <2>1. UNCHANGED <<open, reg, count, pc, batch, cur, todo, value, timer, which,
                    receiving>>
    BY <1>6 DEF loopVars, muxVars, ioVars
  <2>2. /\ CountIsRegistered' /\ (Registered \subseteq open)'
        /\ \A fd \in Fds \ {Pipe} : Fresh(fd) => Fresh(fd)'
    BY <2>1, LoopKeepsReadiness
  <2>3. LoopTypes'
    BY <2>1 DEF LoopInv, LoopTypes, MuxTypeOK
  <2> QED
    BY <2>1, <2>2, <2>3, AsideKeeps DEF LoopInv, Aside
<1> QED
  BY <1>1, <1>2, <1>3, <1>4, <1>5, <1>6 DEF LoopNext

\* A callback that is about to read its event or timer never waits for it,
\* however many events, timers and handlers there are and whatever the second
\* thread and the kernel do meanwhile; if no callback touches a descriptor
\* that is not its own.
THEOREM LoopReadsNeverBlock ==
  ASSUME ~Meddles
  PROVE  LoopSpec => []LoopNeverBlocks
<1>1. LoopInit => LoopInv
  BY LoopInitInv
<1>2. LoopInv /\ [LoopNext]_loopVars => LoopInv'
  BY LoopKeepsInv
<1>3. LoopInv => LoopNeverBlocks
  BY DEF LoopInv, FreshInv, LoopNeverBlocks, Fresh
<1> QED
  BY <1>1, <1>2, <1>3, PTL DEF LoopSpec

\* The counter of the multiplexer is the number of registered descriptors in
\* the loop too, also when callbacks remove and close the descriptors of
\* others.
THEOREM LoopCountsRegistered == LoopSpec => []CountIsRegistered
<1>1. LoopInit => CountInv
  BY LoopInitInv DEF LoopInv, LoopTypes, MuxTypeOK, CountInv
<1>2. CountInv /\ [LoopNext]_loopVars => CountInv'
  <2> SUFFICES ASSUME CountInv, [LoopNext]_loopVars PROVE CountInv'
    OBVIOUS
  <2>1. CASE UNCHANGED <<reg, count>>
    BY <2>1 DEF CountInv, CountIsRegistered, Registered
  <2>2. ASSUME NEW fd \in Fds, Add(fd) PROVE CountInv'
    <3>1. fd \in Fds \ Registered /\ MuxCtl("ADD", fd, fd)
      BY <2>2 DEF Add
    <3> QED
      BY <3>1, AddCounts DEF CountInv
  <2>3. ASSUME NEW fd \in Fds, MuxRm(fd) PROVE CountInv'
    BY <2>3, RmCounts DEF CountInv
  <2>4. ASSUME NEW fd \in Fds, Close(fd) PROVE CountInv'
    <3>1. count' = count
      BY <2>4 DEF Close
    <3> QED
      BY <2>4, <3>1, CloseCounts DEF CountInv
  <2>5. \/ UNCHANGED <<reg, count>>
        \/ \E fd \in Fds : Add(fd) \/ MuxRm(fd) \/ Close(fd)
    <3>1. ASSUME LoopSteps PROVE UNCHANGED <<reg, count>> \/ MuxRm(Pipe)
      BY <3>1 DEF LoopSteps, Wait, Dispatch, DispatchEvent, WaitEnds, CallbackStarts,
                  CallbackReturns, ReadEvent, ReadTimer, ReadMessage, PipeHangsUp,
                  muxVars
    <3>2. ASSUME WriterSteps \/ WriterSends \/ Interrupted
                 \/ \E e \in Events : WriterBegins(e)
          PROVE  UNCHANGED <<reg, count>>
      BY <3>2 DEF WriterSteps, WriterSends, Interrupted, WriterBegins, EventWrite,
                  muxVars
    <3>3. ASSUME NEW fd \in Fds, Open(fd) \/ Add(fd) \/ Rm(fd) \/ Close(fd)
          PROVE  UNCHANGED <<reg, count>> \/ Add(fd) \/ MuxRm(fd) \/ Close(fd)
      BY <3>3 DEF Open, Rm
    <3>4. ASSUME NEW t \in Timers,
                 \/ Expire(t) \/ TimerStop(t)
                 \/ MayStart(t) /\ \E i, n \in BOOLEAN : TimerEvery(t, i, n)
                 \/ MayStart(t) /\ \E n \in BOOLEAN : TimerSingleShot(t, n)
          PROVE  UNCHANGED <<reg, count>>
      BY <3>4 DEF Expire, TimerStop, TimerEvery, TimerSingleShot, TimerSet, muxVars
    <3>5. Pipe \in Fds
      BY LoopAssumption
    <3>6. CASE UNCHANGED loopVars
      BY <3>6 DEF loopVars, muxVars
    <3> QED
      BY <3>1, <3>2, <3>3, <3>4, <3>5, <3>6 DEF LoopNext
  <2> QED
    BY <2>1, <2>2, <2>3, <2>4, <2>5
<1>3. CountInv => CountIsRegistered
  BY DEF CountInv
<1> QED
  BY <1>1, <1>2, <1>3, PTL DEF LoopSpec

=============================================================================
