------------------------------- MODULE Server -------------------------------
(***************************************************************************)
(* The stream server of libae/server.c on top of the event multiplexer of  *)
(* module Mux, after ae_server_listen: peers connect, send and hang up     *)
(* while the event loop of test/server.c calls ae_mux_wait and the         *)
(* server's callbacks accept, read and remove clients.                     *)
(*                                                                         *)
(* A client c stands for what ae_server_on_server_read allocates for it:   *)
(* the ae_mux_event_t (which is never freed, so it keeps its descriptor    *)
(* number in fdOf) and the two-pointer context `pair', which               *)
(* ae_server_client_rm frees.  Descriptor numbers are reused, lowest first.*)
(***************************************************************************)
EXTENDS Naturals, FiniteSets, Sequences

CONSTANTS
  Fds,          \* the process's descriptor numbers
  ListenFd,     \* the listening socket's
  Conns,        \* connections peers may make
  Listener,     \* the ae_mux_event_t of the listening socket
  Absent,       \* "no object", as in Mux
  NoFd,         \* "no descriptor yet"
  ClientKinds,  \* which of on_client_read and on_client_write are not NULL
  HasRm,        \* is on_client_rm not NULL?
  Replies,      \* do the application's callbacks send to the client?
  AddMayFail    \* may epoll_ctl refuse a new client (ENOSPC, ENOMEM)?

ASSUME ServerAssumption ==
  /\ Fds \subseteq Nat /\ IsFiniteSet(Fds)
  /\ ListenFd \in Fds /\ NoFd \notin Fds
  /\ \A fd \in Fds : ListenFd <= fd
  /\ Listener \notin Conns /\ Absent \notin Conns \cup {Listener}
  /\ ClientKinds \subseteq {"read", "write"}
  /\ HasRm \in BOOLEAN /\ Replies \in BOOLEAN /\ AddMayFail \in BOOLEAN

VARIABLES
  open, reg, count, pc, batch, cur, todo,   \* see Mux
  conn,     \* the server's side: "away", "queued", "served", "closed"
  sock,     \* what the kernel holds for the connection: see Flags
  backlog,  \* connections waiting to be accepted
  fdOf,     \* member fd of the client's ae_mux_event_t
  pair,     \* the client's context: "none", "live", "freed", "misused"
  removals  \* calls of on_client_rm for the client

srvVars  == <<conn, sock, backlog, fdOf, pair, removals>>
loopVars == <<open, reg, count, pc, batch, cur, todo>>
vars     == <<loopVars, srvVars>>

\* ae_server_cfg and s_server_handlers: the callbacks of each object.
ServerHandlers ==
  [d \in Conns \cup {Listener} |->
     IF d = Listener THEN {"read", "write", "hangup", "priority", "error"}
     ELSE ClientKinds \cup {"hangup", "error"}]

INSTANCE Mux WITH Objs <- Conns \cup {Listener}, HandlersOf <- ServerHandlers

\* rx: bytes to read; gone: the peer has closed; unread: bytes the peer has
\* not read; err: the peer closed before it had read everything.
Flags == {"rx", "gone", "unread", "err"}

TypeOK ==
  /\ MuxTypeOK
  /\ conn \in [Conns -> {"away", "queued", "served", "closed"}]
  /\ sock \in [Conns -> SUBSET Flags]
  /\ backlog \in Seq(Conns)
  /\ fdOf \in [Conns -> Fds \cup {NoFd}]
  /\ pair \in [Conns -> {"none", "live", "freed", "misused"}]
  /\ removals \in [Conns -> Nat]

NoClients ==
  /\ conn = [c \in Conns |-> "away"]
  /\ sock = [c \in Conns |-> {}]
  /\ backlog = <<>>
  /\ fdOf = [c \in Conns |-> NoFd]
  /\ pair = [c \in Conns |-> "none"]
  /\ removals = [c \in Conns |-> 0]

\* ae_mux_init, ae_server_init, _cfg, _bind_unix and _listen have succeeded.
Init ==
  /\ open = {ListenFd}
  /\ reg = [fd \in Fds |-> IF fd = ListenFd THEN Listener ELSE Absent]
  /\ count = 1
  /\ pc = "app" /\ batch = {} /\ cur = {} /\ todo = {}
  /\ NoClients

----------------------------------------------------------------------------
(* The peers. *)

Established(c) == conn[c] \in {"queued", "served"} /\ "gone" \notin sock[c]

Connect(c) ==
  /\ conn[c] = "away"
  /\ conn' = [conn EXCEPT ![c] = "queued"]
  /\ backlog' = Append(backlog, c)
  /\ UNCHANGED <<loopVars, sock, fdOf, pair, removals>>

Send(c) ==
  /\ Established(c)
  /\ sock' = [sock EXCEPT ![c] = @ \cup {"rx"}]
  /\ UNCHANGED <<loopVars, conn, backlog, fdOf, pair, removals>>

PeerReads(c) ==
  /\ Established(c) /\ "unread" \in sock[c]
  /\ sock' = [sock EXCEPT ![c] = @ \ {"unread"}]
  /\ UNCHANGED <<loopVars, conn, backlog, fdOf, pair, removals>>

\* A peer that closes with bytes unread resets the connection.
HangUp(c) ==
  /\ Established(c)
  /\ sock' = [sock EXCEPT ![c] =
                (@ \ {"unread"}) \cup {"gone"}
                  \cup IF "unread" \in @ THEN {"err"} ELSE {}]
  /\ UNCHANGED <<loopVars, conn, backlog, fdOf, pair, removals>>

Peers == \E c \in Conns : Connect(c) \/ Send(c) \/ PeerReads(c) \/ HangUp(c)

----------------------------------------------------------------------------
(* The event loop. *)

\* What holds on the socket of an object; end of file is readable too.
Condition(d) ==
  IF d = Listener
  THEN IF backlog = <<>> THEN {} ELSE {"read"}
  ELSE {"write"}
       \cup (IF sock[d] \cap {"rx", "gone"} # {} THEN {"read"} ELSE {})
       \cup (IF "gone" \in sock[d] THEN {"hangup"} ELSE {})
       \cup (IF "err" \in sock[d] THEN {"error"} ELSE {})

ReadyEvents ==
  {[fd |-> fd, obj |-> reg[fd],
    conds |-> Condition(reg[fd]) \cap Reportable(reg[fd])] :
      fd \in {f \in Registered : Condition(reg[f]) \cap Reportable(reg[f]) # {}}}

Wait ==
  /\ WaitReturns(ReadyEvents, FALSE)
  /\ UNCHANGED <<open, reg, count, srvVars>>

\* Callback k of object d runs: the mux has chosen it.
Runs(d, k) == NextCallback(k) /\ \E ev \in cur : ev.obj = d

----------------------------------------------------------------------------
(* ae_server_on_server_read. *)

Free     == Fds \ open
LowestFd == CHOOSE fd \in Free : \A g \in Free : fd <= g

\* Mutants of RegisterClient: the registration is not counted, or the
\* listening descriptor is passed, not the client's.
RegisterUncounted(fd, c) ==
  \/ reg' = [reg EXCEPT ![fd] = c] /\ UNCHANGED count
  \/ AddMayFail /\ UNCHANGED <<reg, count>>

RegisterAtListener(fd, c) ==
  \/ reg' = [reg EXCEPT ![ListenFd] = c] /\ count' = count + 1
  \/ AddMayFail /\ UNCHANGED <<reg, count>>

\* ae_mux_add.  Its failure is logged; the descriptor and the context stay.
RegisterClient(fd, c) ==
  \/ reg' = [reg EXCEPT ![fd] = c] /\ count' = count + 1
  \/ AddMayFail /\ UNCHANGED <<reg, count>>

\* accept4 takes the head of the backlog, on_client_add agrees, and the
\* client is registered.
AcceptClient ==
  /\ Runs(Listener, "read")
  /\ backlog # <<>> /\ Free # {}
  /\ LET c == Head(backlog) IN
       /\ open' = open \cup {LowestFd}
       /\ conn' = [conn EXCEPT ![c] = "served"]
       /\ fdOf' = [fdOf EXCEPT ![c] = LowestFd]
       /\ pair' = [pair EXCEPT ![c] = "live"]
       /\ RegisterClient(LowestFd, c)
  /\ backlog' = Tail(backlog)
  /\ UNCHANGED <<pc, batch, cur, sock, removals>>

\* on_client_add refuses the client and it is closed; or accept4 itself
\* closes the connection it has already taken, because `len' was never
\* initialised and holds a negative number.
AcceptDrops ==
  /\ Runs(Listener, "read")
  /\ backlog # <<>> /\ Free # {}
  /\ conn' = [conn EXCEPT ![Head(backlog)] = "closed"]
  /\ backlog' = Tail(backlog)
  /\ UNCHANGED <<open, reg, count, pc, batch, cur, sock, fdOf, pair, removals>>

\* EMFILE: the connection stays where it is.
AcceptFails ==
  /\ Runs(Listener, "read")
  /\ backlog # <<>> /\ Free = {}
  /\ UNCHANGED <<open, reg, count, pc, batch, cur, srvVars>>

----------------------------------------------------------------------------
(* The client's callbacks. *)

\* What the application sends before the callback returns.
Answer(flags) ==
  IF Replies /\ "gone" \notin flags THEN {{}, {"unread"}} ELSE {{}}

\* ae_server_on_client_read, with an on_client_read that reads once.  A
\* read that finds no bytes collects the socket's pending error instead.
ClientRead(c) ==
  /\ Runs(c, "read") /\ pair[c] = "live"
  /\ \E answer \in Answer(sock[c]) :
       sock' = [sock EXCEPT ![c] =
                  (@ \ {IF "rx" \in @ THEN "rx" ELSE "err"}) \cup answer]
  /\ UNCHANGED <<open, reg, count, pc, batch, cur, conn, backlog, fdOf, pair,
                 removals>>

\* ae_server_on_client_write.
ClientWrite(c) ==
  /\ Runs(c, "write") /\ pair[c] = "live"
  /\ \E answer \in Answer(sock[c]) :
       sock' = [sock EXCEPT ![c] = @ \cup answer]
  /\ UNCHANGED <<open, reg, count, pc, batch, cur, conn, backlog, fdOf, pair,
                 removals>>

\* Mutant of Remove: the descriptor is not closed.
RemoveWithoutClose(c) ==
  /\ removals' = [removals EXCEPT ![c] = @ + 1]
  /\ MuxRm(fdOf[c]) /\ UNCHANGED open
  /\ pair' = [pair EXCEPT ![c] = "freed"]
  /\ conn' = [conn EXCEPT ![c] = "closed"]

\* The application is told, then ae_mux_rm, close and free.
Remove(c) ==
  /\ removals' = [removals EXCEPT ![c] = @ + 1]
  /\ MuxRm(fdOf[c])
  /\ open' = open \ {fdOf[c]}
  /\ pair' = [pair EXCEPT ![c] = "freed"]
  /\ conn' = [conn EXCEPT ![c] = "closed"]

\* ae_server_client_rm, from the hangup and from the error callback; without
\* an on_client_rm nothing is removed at all.
ClientRm(c) ==
  /\ \E k \in {"hangup", "error"} : Runs(c, k)
  /\ pair[c] = "live"
  /\ IF HasRm THEN Remove(c)
     ELSE UNCHANGED <<open, reg, count, conn, pair, removals>>
  /\ UNCHANGED <<pc, batch, cur, sock, backlog, fdOf>>

\* Every client callback reads the context first; if it has been freed, the
\* behaviour is undefined and the model of the thread stops there.
UseFreedContext(c) ==
  /\ pc = "dispatch" /\ todo # {}
  /\ \E ev \in cur : ev.obj = c
  /\ pair[c] # "live"
  /\ pair' = [pair EXCEPT ![c] = "misused"]
  /\ UNCHANGED <<loopVars, conn, sock, backlog, fdOf, removals>>

Callbacks ==
  \/ AcceptClient \/ AcceptDrops \/ AcceptFails
  \/ \E c \in Conns : ClientRead(c) \/ ClientWrite(c) \/ ClientRm(c)
                        \/ UseFreedContext(c)

Loop ==
  \/ Wait
  \/ DispatchEvent /\ UNCHANGED srvVars
  \/ Callbacks
  \/ WaitEnds /\ UNCHANGED srvVars

Next == Peers \/ Loop

\* The thread of the event loop keeps running; the peers do as they like.
Spec == Init /\ [][Next]_vars /\ WF_vars(Loop)

----------------------------------------------------------------------------

Served == {c \in Conns : conn[c] = "served"}

\* Beside the listener's, the open descriptors are one for each served
\* client, whose context is allocated; nobody else's context is, and a
\* client's descriptor reports to no other client.
ClientsOwnTheirFds ==
  /\ open \ {ListenFd} = {fdOf[c] : c \in Served}
  /\ Cardinality(open \ {ListenFd}) = Cardinality(Served)
  /\ \A c \in Conns : pair[c] = "live" <=> c \in Served
  /\ \A c \in Served : reg[fdOf[c]] \in {c, Absent}

\* Descriptors are closed and reused in the middle of a batch; still every
\* event waiting in the batch is for the object its descriptor had when it
\* was reported, and a client's event finds its context allocated.
PendingEventsLive ==
  \A ev \in batch :
    /\ reg[ev.fd] = ev.obj
    /\ ev.obj # Listener => pair[ev.obj] = "live" /\ fdOf[ev.obj] = ev.fd

\* The listening socket blocks: the server calls accept4 on it only while
\* there is a connection to take.
AcceptNeverBlocks ==
  (\E ev \in batch \cup cur :
     ev.obj = Listener /\ (ev \in batch \/ "read" \in todo))
  => backlog # <<>>

\* "ctx the context pointer that was registered with the fd/event"
\* (ae/mux.h, ae_mux_cb_t): a callback finds the context it was registered
\* with, and a client is removed once.
ContextIsLive ==
  \A c \in Conns : pair[c] # "misused" /\ removals[c] <= 1

\* A client that has hung up is removed and its descriptor closed, as long as
\* no client that was reset has been removed twice, which ends all.
HangUpIsReaped ==
  \A c \in Conns :
    (conn[c] = "served" /\ "gone" \in sock[c]) ~>
    (conn[c] = "closed" \/ ~ContextIsLive)

\* Every descriptor is used up by a client that is still there.
TableFull ==
  /\ Cardinality(Served) = Cardinality(Fds \ {ListenFd})
  /\ \A c \in Served : "gone" \notin sock[c]

\* A connection does not stay in the backlog, unless the descriptors are
\* used up by clients that are still there, or that same end has come.
BacklogDrains ==
  \A c \in Conns :
    conn[c] = "queued" ~> (conn[c] # "queued" \/ TableFull \/ ~ContextIsLive)

=============================================================================
