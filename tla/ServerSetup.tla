---------------------------- MODULE ServerSetup ----------------------------
(***************************************************************************)
(* The stream server of module Server with its setup and teardown: between *)
(* two waits the application calls ae_server_init, _bind_unix (or          *)
(* _bind_seqpacket), _listen and _uninit, while clients that were accepted *)
(* earlier are still connected.  Any of the calls may fail.                *)
(*                                                                         *)
(* The descriptor of a new socket is the lowest free one, which is         *)
(* ListenFd: only the server's socket ever has it.                         *)
(***************************************************************************)
EXTENDS Server

CONSTANT MaxSetups   \* bound on the calls of ae_server_init and _listen

ASSUME MaxSetupsAssumption == MaxSetups \in Nat \ {0}

VARIABLES
  serverFd,  \* self->server_event.fd; NoFd is -1
  socket,    \* the socket behind it: "none", "open", "bound", "listening"
  ready,     \* the last ae_server_listen has returned true
  setups     \* calls of ae_server_init and, if they succeed, _listen

setupVars == <<serverFd, socket, ready, setups>>
allVars   == <<vars, setupVars>>

SetupTypeOK ==
  /\ TypeOK
  /\ serverFd \in {NoFd, ListenFd}
  /\ socket \in {"none", "open", "bound", "listening"}
  /\ ready \in BOOLEAN
  /\ setups \in 0..MaxSetups

\* ae_mux_init and the first ae_server_init and _cfg have been called.
SetupInit ==
  /\ MuxInit /\ NoClients
  /\ serverFd = NoFd /\ socket = "none" /\ ready = FALSE
  /\ setups = 0

----------------------------------------------------------------------------

\* ae_server_init and ae_server_cfg for another start.  A socket that is open
\* would be lost: the application has called ae_server_uninit.
ServerInit ==
  /\ pc = "app" /\ socket = "none" /\ setups < MaxSetups
  /\ serverFd' = NoFd
  /\ setups' = setups + 1
  /\ UNCHANGED <<vars, socket, ready>>

\* Mutant of ServerBind: a socket that is open is no obstacle.
ServerBindAnew ==
  /\ pc = "app" /\ Free # {}
  /\ serverFd' = LowestFd
  /\ open' = open \cup {LowestFd}
  /\ socket' \in {"open", "bound"}
  /\ UNCHANGED <<reg, count, pc, batch, cur, todo, srvVars, ready, setups>>

\* ae_server_bind_unix, _bind_seqpacket: the socket stays open when bind(2)
\* fails, because the path is in use for example.
ServerBind ==
  /\ pc = "app" /\ serverFd = NoFd /\ Free # {}
  /\ serverFd' = LowestFd
  /\ open' = open \cup {LowestFd}
  /\ socket' \in {"open", "bound"}
  /\ UNCHANGED <<reg, count, pc, batch, cur, todo, srvVars, ready, setups>>

\* The same: a descriptor from before, closed or not, or none to be had.
BindRefused ==
  /\ pc = "app" /\ (serverFd # NoFd \/ Free = {})
  /\ UNCHANGED allVars

\* ae_server_listen, also when it is called once more: the ADD is then
\* turned into a MOD.  When ae_mux_add fails the socket listens all the same.
ServerListen ==
  /\ pc = "app" /\ socket \in {"bound", "listening"} /\ setups < MaxSetups
  /\ socket' = "listening"
  /\ setups' = setups + 1
  /\ \/ MuxCtl("ADD", serverFd, Listener) /\ ready' = TRUE
     \/ AddMayFail /\ UNCHANGED <<reg, count>> /\ ready' = FALSE
  /\ UNCHANGED <<open, pc, batch, cur, todo, srvVars, serverFd>>

\* The socket is not bound or there is none.
ListenRefused ==
  /\ pc = "app" /\ socket \in {"none", "open"}
  /\ ready' = FALSE
  /\ UNCHANGED <<vars, serverFd, socket, setups>>

\* Mutant of ServerUninit: clients would be forgotten with the backlog.
ServerUninitAll ==
  /\ pc = "app" /\ serverFd # NoFd
  /\ CloseDescriptor(serverFd)
  /\ conn' = [c \in Conns |-> IF conn[c] = "away" THEN "away" ELSE "closed"]
  /\ backlog' = <<>>
  /\ socket' = "none" /\ ready' = FALSE
  /\ UNCHANGED <<count, pc, batch, cur, todo, sock, fdOf, pair, removals,
                 serverFd, setups>>

\* ae_server_uninit closes the socket and keeps its number; the multiplexer
\* is not told and goes on counting it.  Waiting connections are reset,
\* accepted clients stay.
ServerUninit ==
  /\ pc = "app" /\ serverFd # NoFd
  /\ CloseDescriptor(serverFd)
  /\ conn' = [c \in Conns |-> IF conn[c] = "queued" THEN "closed" ELSE conn[c]]
  /\ backlog' = <<>>
  /\ socket' = "none" /\ ready' = FALSE
  /\ UNCHANGED <<count, pc, batch, cur, todo, sock, fdOf, pair, removals,
                 serverFd, setups>>

PeersOfSocket ==
  \E c \in Conns :
    \/ socket = "listening" /\ Connect(c)
    \/ Send(c) \/ PeerReads(c) \/ HangUp(c)

SetupNext ==
  \/ ServerInit \/ ServerBind \/ BindRefused \/ ServerListen \/ ListenRefused
  \/ ServerUninit
  \/ PeersOfSocket /\ UNCHANGED setupVars
  \/ Loop /\ UNCHANGED setupVars

SetupSpec == SetupInit /\ [][SetupNext]_allVars

----------------------------------------------------------------------------

\* A server whose ae_server_listen has returned true answers: its socket is
\* open, listens, and is the one the multiplexer reports to it, whatever was
\* set up, failed or was torn down before.
ReadyServerIsHeard ==
  ready => /\ socket = "listening" /\ serverFd \in open
           /\ reg[serverFd] = Listener

\* A connection waits only where somebody will accept it.
BacklogIsHeard == backlog # <<>> => reg[ListenFd] = Listener

\* A call of ae_server_bind_unix that has failed may be made again.
BindMayBeRetried == socket = "open" => serverFd = NoFd

=============================================================================
