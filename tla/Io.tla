--------------------------------- MODULE Io ---------------------------------
(***************************************************************************)
(* The blocking I/O helpers of libae/io.c on a pipe: one thread sends      *)
(* messages with ae_io_write_all, another receives them with               *)
(* ae_io_read_all.  A read or write moves as many bytes as the kernel      *)
(* likes, and a signal may interrupt it.                                   *)
(*                                                                         *)
(* The bytes of a message are numbered from 1.                             *)
(***************************************************************************)
EXTENDS Naturals, Sequences

CONSTANTS
  MessageLen,   \* bytes in a message, the buf_len of both calls
  PipeSize,     \* bytes the pipe holds
  EofFlags,     \* what is passed as out_was_eof: "null", "clear" or "set"
  Interrupts    \* are signals caught?

ASSUME MessageAssumption ==
  /\ MessageLen \in Nat \ {0} /\ PipeSize \in Nat \ {0}
  /\ EofFlags \subseteq {"null", "clear", "set"} /\ Interrupts \in BOOLEAN

VARIABLES
  pipe,       \* the bytes in it
  writerOpen, \* the writing end is open
  sending,    \* the thread is in ae_io_write_all
  unsent,     \* buf_len of ae_io_write_all
  receiving,  \* the thread is in ae_io_read_all
  got,        \* what ae_io_read_all has put into the buffer
  eof,        \* *out_was_eof, or "null"
  received,   \* how the last ae_io_read_all ended
  torn        \* a read has failed in the middle of a message

ioVars == <<pipe, writerOpen, sending, unsent, receiving, got, eof, received,
            torn>>

IoInit ==
  /\ pipe = <<>> /\ writerOpen = TRUE
  /\ sending = FALSE /\ unsent = 0
  /\ receiving = FALSE /\ got = <<>> /\ eof = "clear" /\ received = "none"
  /\ torn = FALSE

IoTypeOK ==
  /\ Len(pipe) <= PipeSize /\ Len(got) <= MessageLen
  /\ unsent \in 0..MessageLen
  /\ sending \in BOOLEAN /\ receiving \in BOOLEAN /\ writerOpen \in BOOLEAN
  /\ eof \in {"null", "clear", "set"}
  /\ received \in {"none", "ok", "error"}

\* The next k bytes of the message being sent.
NextBytes(k) == [i \in 1..k |-> MessageLen - unsent + i]

WriteAll ==
  /\ writerOpen /\ ~sending
  /\ sending' = TRUE /\ unsent' = MessageLen
  /\ UNCHANGED <<pipe, writerOpen, receiving, got, eof, received, torn>>

\* One write(2); the call ends when nothing is left.
WriteSome ==
  /\ sending /\ Len(pipe) < PipeSize
  /\ \E k \in 1..unsent :
       /\ Len(pipe) + k <= PipeSize
       /\ pipe' = pipe \o NextBytes(k)
       /\ unsent' = unsent - k
  /\ sending' = (unsent' > 0)
  /\ UNCHANGED <<writerOpen, receiving, got, eof, received, torn>>

\* The caller of a call that failed does not learn how much was sent; it
\* closes the pipe.
WriteFails ==
  /\ sending /\ Interrupts
  /\ sending' = FALSE /\ writerOpen' = FALSE
  /\ UNCHANGED <<pipe, unsent, receiving, got, eof, received, torn>>

CloseWriter ==
  /\ writerOpen /\ ~sending
  /\ writerOpen' = FALSE
  /\ UNCHANGED <<pipe, sending, unsent, receiving, got, eof, received, torn>>

ReadAll ==
  /\ ~receiving
  /\ receiving' = TRUE /\ got' = <<>>
  /\ eof' \in EofFlags
  /\ received' = "none"
  /\ UNCHANGED <<pipe, writerOpen, sending, unsent, torn>>

\* Mutant of ReadSome: one read(2) is made.
ReadOnce ==
  /\ receiving /\ pipe # <<>>
  /\ \E k \in 1..Len(pipe) :
       /\ Len(got) + k <= MessageLen
       /\ got' = got \o SubSeq(pipe, 1, k)
       /\ pipe' = SubSeq(pipe, k + 1, Len(pipe))
  /\ receiving' = FALSE
  /\ received' = "ok"
  /\ UNCHANGED <<writerOpen, sending, unsent, eof, torn>>

\* One read(2).  The flag is looked at after every read, whoever set it.
ReadSome ==
  /\ receiving /\ pipe # <<>>
  /\ \E k \in 1..Len(pipe) :
       /\ Len(got) + k <= MessageLen
       /\ got' = got \o SubSeq(pipe, 1, k)
       /\ pipe' = SubSeq(pipe, k + 1, Len(pipe))
  /\ receiving' = (eof # "set" /\ Len(got') < MessageLen)
  /\ received' = IF receiving' THEN received ELSE "ok"
  /\ UNCHANGED <<writerOpen, sending, unsent, eof, torn>>

\* Mutant of ReadEnd: the flag is not looked at.
ReadEndUnseen ==
  /\ receiving /\ pipe = <<>> /\ ~writerOpen
  /\ eof' = IF eof = "null" THEN eof ELSE "set"
  /\ UNCHANGED <<pipe, writerOpen, sending, unsent, receiving, got, received,
                 torn>>

\* Nothing is left to read: the flag is set, if there is one, and ends the
\* call; without one it reads again, and again.
ReadEnd ==
  /\ receiving /\ pipe = <<>> /\ ~writerOpen
  /\ eof' = IF eof = "null" THEN eof ELSE "set"
  /\ receiving' = (eof = "null")
  /\ received' = IF receiving' THEN received ELSE "ok"
  /\ UNCHANGED <<pipe, writerOpen, sending, unsent, got, torn>>

\* What was read before the failure is lost to the caller.
ReadFails ==
  /\ receiving /\ Interrupts
  /\ receiving' = FALSE /\ received' = "error"
  /\ torn' = (torn \/ got # <<>>)
  /\ UNCHANGED <<pipe, writerOpen, sending, unsent, got, eof>>

----------------------------------------------------------------------------

\* A call of ae_io_read_all that succeeds has received the bytes of one
\* message from its first, in their order and all of them, however the kernel
\* cut the reads and writes; only the end of the stream, and the flag says so,
\* may cut it short.  A read that failed in the middle of a message ends this.
MessagesWhole ==
  ~receiving /\ received = "ok" /\ ~torn =>
    /\ got = [i \in 1..Len(got) |-> i]
    /\ Len(got) = MessageLen \/ (eof = "set" /\ ~writerOpen)

=============================================================================
