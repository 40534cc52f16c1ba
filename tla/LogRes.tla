------------------------------- MODULE LogRes -------------------------------
(***************************************************************************)
(* Result objects (libae/res.c, libae/str.c) and the logger that reports   *)
(* them (libae/log.c, libae/ae.c).  Threads collect messages in result     *)
(* objects of their own and log them through the one logger, whose buffer  *)
(* they share under its lock; a logger's handler may be installed.         *)
(*                                                                         *)
(* A message is the number of its ae_res_add since the object was cleared, *)
(* so that later messages have greater numbers.                            *)
(* Of the text only the messages that are complete in it are kept.         *)
(***************************************************************************)
EXTENDS Naturals, Sequences, FiniteSets

CONSTANTS
  Threads,
  Reporters,    \* the threads with a result object; the others only log
  Handlers,     \* for ae_global_init, each to be called with its own context
  Chatty,       \* the handlers that log themselves, at level "DEBUG"
  None,         \* NULL
  Size,         \* 4000 in the code: sizeof of ae_res_msg_t.msg
  LogRoom,      \* what of that the buffer of the logger has room for
  CountWidth,   \* 256 in the code: the values of ae_res_msg_t.count
  Lengths,      \* of messages
  MaxAdds,      \* bound: messages added between two clears
  Masks,        \* values of the logger's mask
  LogLevels,    \* levels of what is logged without a result object
  InstallLate   \* whether ae_global_init may run while threads log

Levels == {"TRACE", "DEBUG", "INFO", "WARN", "ERR"}

ASSUME SizeAssumption ==
  /\ Size \in Nat \ {0} /\ LogRoom \in Nat /\ CountWidth \in Nat \ {0}
  /\ Lengths \subseteq Nat /\ MaxAdds \in Nat
  /\ Reporters \subseteq Threads /\ Chatty \subseteq Handlers
  /\ None \notin Threads \cup Handlers /\ LogLevels \subseteq Levels

ERR == 1  WARN == 2  INFO == 3
Types     == {ERR, WARN, INFO}
LevelOf   == <<"ERR", "WARN", "INFO">>

VARIABLES
  res,      \* per reporter: the mask, and per type count, head and text
  added,    \* per reporter and type: the messages added since the last clear,
            \* each with the length of the text up to it
  mask,     \* of the logger
  handler, ctx, installing,
  owner,    \* of the logger's lock
  buf,      \* the logger's buffer
  pc, call, \* per thread: where it is, and the message it logs
  todo,     \* per thread: the types ae_log_res has still to look at
  got       \* per thread: what its call has put out

resVars == <<res, added>>
logVars == <<mask, handler, ctx, installing, owner, buf>>
vars    == <<resVars, logVars, pc, call, todo, got>>

NoCall == [level |-> "DEBUG", text |-> <<>>]
Empty  == [count |-> 0, head |-> 0, text |-> <<>>]

Init ==
  /\ res = [t \in Reporters |-> [mask |-> {}, msg |-> [y \in Types |-> Empty]]]
  /\ added = [t \in Reporters |-> [y \in Types |-> <<>>]]
  /\ mask \in Masks
  /\ handler = None /\ ctx = None /\ installing = None
  /\ owner = None /\ buf = <<>>
  /\ pc = [t \in Threads |-> "idle"]
  /\ call = [t \in Threads |-> NoCall]
  /\ todo = [t \in Threads |-> <<>>]
  /\ got = [t \in Threads |-> <<>>]

TypeOK ==
  /\ \A t \in Reporters, y \in Types :
       LET m == res[t].msg[y]
       IN  /\ m.count \in 0..(CountWidth - 1) /\ m.head \in 0..Size
           /\ \A k \in DOMAIN m.text : m.text[k].end \in 0..m.head
  /\ handler \in Handlers \cup {None} /\ ctx \in Handlers \cup {None}
  /\ installing \in Handlers \cup {None} /\ owner \in Threads \cup {None}
  /\ pc \in [Threads -> {"idle", "lock", "format", "test", "call", "syslog",
                         "unlock", "next", "reported", "stuck", "crashed"}]

----------------------------------------------------------------------------
(* Result objects. *)

Adds(t) == Len(added[t][ERR]) + Len(added[t][WARN]) + Len(added[t][INFO])

\* The text that all messages of a type would make, with a newline between.
Total(s) == IF s = <<>> THEN 0 ELSE s[Len(s)].upto

\* Mutants of Added: the newline is not subtracted from what remains; a
\* message that is cut is not counted.
AddedBeyond(m, id, n) ==
  LET head == m.head + (IF m.count > 0 THEN 1 ELSE 0)
      fits == n < Size - m.head
  IN  IF m.head = Size THEN m
      ELSE [count |-> (m.count + 1) % CountWidth,
            head |-> IF fits THEN head + n ELSE head,
            text |-> IF fits THEN Append(m.text, [id |-> id, end |-> head + n])
                     ELSE m.text]
AddedUncounted(m, id, n) ==
  LET head == m.head + (IF m.count > 0 THEN 1 ELSE 0)
      fits == n < Size - head
  IN  IF m.head = Size THEN m
      ELSE [count |-> IF fits THEN (m.count + 1) % CountWidth ELSE m.count,
            head |-> IF fits THEN head + n ELSE head,
            text |-> IF fits THEN Append(m.text, [id |-> id, end |-> head + n])
                     ELSE m.text]

\* ae_res_msg_addv and ae_str_printv: a newline, then the message.  One that
\* has no room is cut and does not move the head, so that the next message is
\* written over it.
Added(m, id, n) ==
  LET head == m.head + (IF m.count > 0 THEN 1 ELSE 0)
      fits == n < Size - head
  IN  IF m.head = Size THEN m
      ELSE [count |-> (m.count + 1) % CountWidth,
            head |-> IF fits THEN head + n ELSE head,
            text |-> IF fits THEN Append(m.text, [id |-> id, end |-> head + n])
                     ELSE m.text]

\* With the newline in the last byte, the terminator is written behind the
\* buffer, where the count of the next type is.
RunsOver(m) == m.count > 0 /\ m.head = Size - 1

\* ae_res_add.
ResAdd(t, y, n) ==
  /\ pc[t] = "idle" /\ Adds(t) < MaxAdds
  /\ LET m  == res[t].msg[y]
         id == Adds(t) + 1
     IN  /\ res' = [res EXCEPT ![t] =
              [mask |-> @.mask \cup {y},
               msg  |-> [x \in Types |->
                 IF x = y THEN Added(m, id, n)
                 ELSE IF x = y + 1 /\ RunsOver(m) THEN [@.msg[x] EXCEPT !.count = 0]
                 ELSE @.msg[x]]]]
         /\ added' = [added EXCEPT ![t][y] =
              Append(@, [id |-> id, upto |-> IF @ = <<>> THEN n ELSE Total(@) + 1 + n])]
  /\ UNCHANGED <<logVars, pc, call, todo, got>>

\* ae_res_clear leaves the mask, ae_res_init does not.
Clear(t, m) ==
  /\ pc[t] = "idle"
  /\ res' = [res EXCEPT ![t] = [mask |-> m, msg |-> [y \in Types |-> Empty]]]
  /\ added' = [added EXCEPT ![t] = [y \in Types |-> <<>>]]
  /\ UNCHANGED <<logVars, pc, call, todo, got>>

ResClear(t) == Clear(t, res[t].mask)
ResInit(t)  == Clear(t, {})

----------------------------------------------------------------------------
(* The logger. *)

Goes(t, where) == pc' = [pc EXCEPT ![t] = where]

MayBegin(t) == pc[t] = "idle" /\ (InstallLate \/ installing = None)

\* ae_log; a masked message goes no further.
Log(t, level) ==
  /\ MayBegin(t) /\ level \in mask
  /\ call' = [call EXCEPT ![t] = [level |-> level, text |-> <<>>]]
  /\ Goes(t, "lock")
  /\ UNCHANGED <<resVars, logVars, todo, got>>

\* ae_log_res.
LogRes(t) ==
  /\ MayBegin(t)
  /\ todo' = [todo EXCEPT ![t] = <<INFO, WARN, ERR>>]
  /\ Goes(t, "next")
  /\ UNCHANGED <<resVars, logVars, call, got>>

LogNextType(t) ==
  /\ pc[t] = "next" /\ todo[t] # <<>>
  /\ LET y == Head(todo[t])
         m == res[t].msg[y]
     IN  IF m.count # 0 /\ LevelOf[y] \in mask
         THEN /\ call' = [call EXCEPT ![t] = [level |-> LevelOf[y], text |-> m.text]]
              /\ Goes(t, "lock")
         ELSE UNCHANGED <<call, pc>>
  /\ todo' = [todo EXCEPT ![t] = Tail(@)]
  /\ UNCHANGED <<resVars, logVars, got>>

LogResEnds(t) ==
  /\ pc[t] = "next" /\ todo[t] = <<>>
  /\ Goes(t, "reported")
  /\ UNCHANGED <<resVars, logVars, call, todo, got>>

Return(t) ==
  /\ pc[t] = "reported"
  /\ Goes(t, "idle")
  /\ got' = [got EXCEPT ![t] = <<>>]
  /\ UNCHANGED <<resVars, logVars, call, todo>>

\* Mutant of Lock: the lock is not waited for.
LockAnyway(t) ==
  /\ pc[t] = "lock"
  /\ owner' = t /\ Goes(t, "format")
  /\ UNCHANGED <<resVars, mask, handler, ctx, installing, buf, call, todo, got>>

Lock(t) ==
  /\ pc[t] = "lock" /\ owner = None
  /\ owner' = t /\ Goes(t, "format")
  /\ UNCHANGED <<resVars, mask, handler, ctx, installing, buf, call, todo, got>>

\* What a text is cut to: the messages that end within the room there is.
Cut(text) ==
  SubSeq(text, 1, Cardinality({k \in DOMAIN text : text[k].end <= LogRoom}))

\* The level and the message are written into the shared buffer, as far as
\* there is room.
Format(t) ==
  /\ pc[t] = "format"
  /\ buf' = [call[t] EXCEPT !.text = Cut(@)]
  /\ Goes(t, "test")
  /\ UNCHANGED <<resVars, mask, handler, ctx, installing, owner, call, todo, got>>

\* Mutant of TestHandler: without a handler the logger waits for one.
TestHandlerAgain(t) ==
  /\ pc[t] = "test"
  /\ Goes(t, IF handler # None THEN "call" ELSE "format")
  /\ UNCHANGED <<resVars, logVars, call, todo, got>>

TestHandler(t) ==
  /\ pc[t] = "test"
  /\ Goes(t, IF handler # None THEN "call" ELSE "syslog")
  /\ UNCHANGED <<resVars, logVars, call, todo, got>>

PutsOut(t, to, with) ==
  got' = [got EXCEPT ![t] = Append(@, [level |-> buf.level, text |-> buf.text,
                                       to |-> to, ctx |-> with])]

\* The handler is called with the lock held: one that logs waits for itself.
CallHandler(t) ==
  /\ pc[t] = "call"
  /\ IF handler = None THEN Goes(t, "crashed") /\ UNCHANGED got
     ELSE IF handler \in Chatty /\ "DEBUG" \in mask
          THEN Goes(t, "stuck") /\ UNCHANGED got
          ELSE PutsOut(t, handler, ctx) /\ Goes(t, "unlock")
  /\ UNCHANGED <<resVars, logVars, call, todo>>

Syslog(t) ==
  /\ pc[t] = "syslog"
  /\ PutsOut(t, None, None) /\ Goes(t, "unlock")
  /\ UNCHANGED <<resVars, logVars, call, todo>>

\* The rest of ae_log_res, or the end of ae_log.
AfterLog(t) ==
  /\ Goes(t, IF t \in Reporters THEN "next" ELSE "idle")
  /\ got' = IF t \in Reporters THEN got ELSE [got EXCEPT ![t] = <<>>]
  /\ call' = [call EXCEPT ![t] = NoCall]

Unlock(t) ==
  /\ pc[t] = "unlock"
  /\ owner' = None
  /\ AfterLog(t)
  /\ UNCHANGED <<resVars, mask, handler, ctx, installing, buf, todo>>

\* ae_global_init sets the handler, then the context, without the lock.
InstallHandler(h) ==
  /\ installing = None
  /\ InstallLate \/ \A t \in Threads : pc[t] = "idle"
  /\ handler' = h /\ installing' = h
  /\ UNCHANGED <<resVars, mask, ctx, owner, buf, pc, call, todo, got>>

InstallCtx ==
  /\ installing # None
  /\ ctx' = installing /\ installing' = None
  /\ UNCHANGED <<resVars, mask, handler, owner, buf, pc, call, todo, got>>

\* ae_global_init without a handler takes away the one there is; the context
\* is of no use then.
RemoveHandler ==
  /\ installing = None
  /\ InstallLate \/ \A t \in Threads : pc[t] = "idle"
  /\ handler' = None /\ ctx' = None
  /\ UNCHANGED <<resVars, mask, installing, owner, buf, pc, call, todo, got>>

\* The steps inside the library, and those that begin a call.
Inside(t) ==
  \/ LogNextType(t) \/ LogResEnds(t) \/ Return(t)
  \/ Lock(t) \/ Format(t) \/ TestHandler(t) \/ CallHandler(t) \/ Syslog(t)
  \/ Unlock(t)

Begins(t) ==
  \/ t \in Reporters /\ \/ \E y \in Types, n \in Lengths : ResAdd(t, y, n)
                        \/ ResClear(t) \/ ResInit(t) \/ LogRes(t)
  \/ t \notin Reporters /\ \E l \in LogLevels : Log(t, l)

Next ==
  \/ \E t \in Threads : Inside(t) \/ Begins(t)
  \/ \E h \in Handlers : InstallHandler(h)
  \/ InstallCtx \/ RemoveHandler

Spec == Init /\ [][Next]_vars /\ \A t \in Threads : WF_vars(Inside(t))

----------------------------------------------------------------------------

Ids(s) == [k \in DOMAIN s |-> s[k].id]

\* A type's messages have been neither too long nor too many.
Fits(t, y, room) ==
  Len(added[t][y]) < CountWidth /\ Total(added[t][y]) <= room

\* A type's buffer has run over.
RanOver(t, y) == y \in Types /\ res[t].msg[y].head = Size

\* Messages that together have room are all in the text, in their order; a
\* text that could not hold all still has some of them, in their order; and no
\* message that is in it takes the place of the terminator.
MessagesKept ==
  \A t \in Reporters, y \in Types :
    LET text == res[t].msg[y].text
    IN  /\ Fits(t, y, Size - 1) => Ids(text) = Ids(added[t][y])
        /\ \A k, l \in DOMAIN text : k < l => text[k].id < text[l].id
        /\ \A k \in DOMAIN text :
             /\ \E l \in DOMAIN added[t][y] : added[t][y][l].id = text[k].id
             /\ text[k].end < Size

\* A type that has messages does not read as empty, unless they were as many
\* as the counter has values, or the buffer of the type before it ran over.
CountedIfAdded ==
  \A t \in Reporters, y \in Types :
    /\ added[t][y] # <<>> /\ res[t].msg[y].count = 0
    => Len(added[t][y]) >= CountWidth \/ RanOver(t, y - 1)

\* Every report is put out in the order info, warning, error, whatever other
\* threads log at the same time; a type whose messages have room in the
\* buffer of the logger, once and with all of them if there are any and it is
\* not masked.
ReportArrives ==
  \A t \in Reporters : pc[t] = "reported" =>
    /\ \A k, l \in DOMAIN got[t] : k < l =>
         \E y, z \in Types : /\ y > z /\ got[t][k].level = LevelOf[y]
                             /\ got[t][l].level = LevelOf[z]
    /\ \A y \in Types :
         Fits(t, y, LogRoom) /\ LogRoom < Size /\ ~RanOver(t, y - 1) =>
           LET out == {k \in DOMAIN got[t] : got[t][k].level = LevelOf[y]}
           IN  IF added[t][y] = <<>> \/ LevelOf[y] \notin mask THEN out = {}
               ELSE \E k \in out : /\ out = {k}
                                   /\ Ids(got[t][k].text) = Ids(added[t][y])

\* A handler is called with the context that was installed with it.
HandlerGetsItsContext ==
  \A t \in Threads : \A k \in DOMAIN got[t] : got[t][k].to = got[t][k].ctx

\* The handler that is called is there: nobody has taken it away since the
\* test.
HandlerIsThere == \A t \in Threads : pc[t] # "crashed"

\* The lock of the logger is always released again.
LockIsReleased == \A t \in Threads : owner = t ~> owner # t

\* "what type of messages have been logged" (ae/res.h, mask): a bit of the
\* mask says that there is a message of the type.
MaskMeansMessages ==
  \A t \in Reporters : \A y \in res[t].mask : added[t][y] # <<>>

\* "number of messages in msg" (ae/res.h, count).
CountIsNumber ==
  \A t \in Reporters, y \in Types : res[t].msg[y].count = Len(added[t][y])

----------------------------------------------------------------------------
(* The priorities of syslog, as numbers: less is more severe. *)

SyslogOf(level) ==
  [TRACE |-> 4, DEBUG |-> 7, INFO |-> 6, WARN |-> 4, ERR |-> 3][level]

\* "the corresponding syslog logging level" (ae/log.h): what is less severe
\* to the library is not more severe to syslog.
SeverityOrdered ==
  LET order == <<"TRACE", "DEBUG", "INFO", "WARN", "ERR">>
  IN  \A k, l \in DOMAIN order :
        k < l => SyslogOf(order[k]) >= SyslogOf(order[l])

=============================================================================
