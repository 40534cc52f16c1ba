---------------------------- MODULE ServerProofs ----------------------------
(***************************************************************************)
(* Theorems about the stream server with its setup and teardown            *)
(* (ServerSetup): for any number of descriptors, connections and starts.   *)
(***************************************************************************)
EXTENDS ServerSetup, FiniteSetTheorems, SequenceTheorems, WellFoundedInduction,
        TLAPS

Objects == Conns \cup {Listener}

SrvTypes ==
  /\ open \subseteq Fds
  /\ reg \in [Fds -> Objects \cup {Absent}]
  /\ conn \in [Conns -> {"away", "queued", "served", "closed"}]
  /\ fdOf \in [Conns -> Fds \cup {NoFd}]
  /\ pair \in [Conns -> {"none", "live", "freed", "misused"}]
  /\ backlog \in Seq(Conns)
  /\ \A ev \in batch \cup cur : ev.fd \in Fds /\ ev.obj \in Objects
  /\ serverFd \in {NoFd, ListenFd}

\* The listening descriptor is open as long as there is a socket.
SocketInv ==
  /\ socket # "none" <=> ListenFd \in open
  /\ socket # "none" => serverFd = ListenFd

\* The backlog holds connections that wait, each of them once.
BacklogInv ==
  /\ \A n \in 1..Len(backlog) : conn[backlog[n]] = "queued"
  /\ \A n, m \in 1..Len(backlog) : backlog[n] = backlog[m] => n = m

\* A served client has a descriptor of its own.
OwnerInv ==
  /\ \A c \in Conns : pair[c] = "live" <=> conn[c] = "served"
  /\ \A c \in Conns : conn[c] = "served" => fdOf[c] \in open \ {ListenFd}
  /\ \A c, d \in Conns :
       conn[c] = "served" /\ conn[d] = "served" /\ fdOf[c] = fdOf[d] => c = d
  /\ \A fd \in open \ {ListenFd} : \E c \in Conns : conn[c] = "served" /\ fdOf[c] = fd

\* What is registered is open and belongs to the object it is registered for.
RegInv ==
  /\ \A fd \in Fds : reg[fd] = Listener => fd = ListenFd /\ fd \in open
  /\ \A fd \in Fds, c \in Conns : reg[fd] = c => conn[c] = "served" /\ fdOf[c] = fd

\* The events of a batch are for different objects, and what has been
\* dispatched is not among them.
BatchInv ==
  /\ pc = "app" => batch = {} /\ cur = {}
  /\ \A ev \in batch : reg[ev.fd] = ev.obj
  /\ \A e, f \in batch : e.fd = f.fd => e = f
  /\ \A e \in batch, g \in cur : e.obj # g.obj
  /\ \A ev \in cur : ev.obj = Listener => ListenFd \in open
  /\ AcceptNeverBlocks

SetupInv ==
  /\ SrvTypes /\ SocketInv /\ BacklogInv /\ OwnerInv /\ RegInv /\ BatchInv
  /\ ReadyServerIsHeard

----------------------------------------------------------------------------

\* A new descriptor is free, and no free one is lower.
LEMMA LowestIsFree ==
  ASSUME open \subseteq Fds, Free # {}
  PROVE  LowestFd \in Fds \ open /\ \A g \in Fds \ open : LowestFd <= g
<1>1. Free \subseteq Nat
  BY ServerAssumption DEF Free
<1>2. IsWellFoundedOn({ss \in Nat \X Nat : ss[1] < ss[2]}, Nat)
  BY NatLessThanWellFounded DEF OpToRel
<1>3. PICK x \in Free :
        \A y \in Free : ~(<<y, x>> \in {ss \in Nat \X Nat : ss[1] < ss[2]})
  BY <1>1, <1>2, WFMin
<1>4. ASSUME NEW y \in Free PROVE x <= y
  <2>1. x \in Nat /\ y \in Nat
    BY <1>1
  <2>2. <<y, x>> \in Nat \X Nat /\ <<y, x>>[1] = y /\ <<y, x>>[2] = x
    BY <2>1
  <2>3. ~(y < x)
    BY <1>3, <2>2
  <2> QED
    BY <2>1, <2>3
<1> QED
  BY <1>4 DEF LowestFd, Free

\* It is the listening socket's when that is free.
LEMMA LowestIsListenFd ==
  ASSUME open \subseteq Fds, ListenFd \notin open
  PROVE  LowestFd = ListenFd
<1>1. LowestFd \in Fds /\ LowestFd <= ListenFd
  BY LowestIsFree, ServerAssumption DEF Free
<1> QED
  BY <1>1, ServerAssumption

----------------------------------------------------------------------------
(* The peers. *)

LEMMA ConnectKeeps ==
  ASSUME SetupInv, NEW c \in Conns, Connect(c), UNCHANGED setupVars
  PROVE  SetupInv'
<1>0. /\ SrvTypes /\ SocketInv /\ BacklogInv /\ OwnerInv /\ RegInv /\ BatchInv
      /\ ReadyServerIsHeard
  BY DEF SetupInv
<1>1. /\ UNCHANGED <<open, reg, pc, batch, cur, todo, fdOf, pair>>
      /\ UNCHANGED <<serverFd, socket, ready>>
      /\ conn[c] = "away" /\ conn' = [conn EXCEPT ![c] = "queued"]
      /\ backlog' = Append(backlog, c)
  BY DEF Connect, loopVars, setupVars
<1>2. /\ backlog' \in Seq(Conns) /\ backlog' # <<>>
      /\ Len(backlog) \in Nat /\ Len(backlog') = Len(backlog) + 1
      /\ \A n \in 1..Len(backlog) : backlog'[n] = backlog[n] /\ backlog[n] \in Conns
      /\ backlog'[Len(backlog) + 1] = c
  BY <1>0, <1>1, AppendProperties DEF SrvTypes
<1>3. \A n \in 1..Len(backlog) : backlog[n] # c
  BY <1>0, <1>1 DEF BacklogInv
<1>4. SrvTypes' /\ SocketInv' /\ ReadyServerIsHeard'
  BY <1>0, <1>1, <1>2 DEF SrvTypes, SocketInv, ReadyServerIsHeard
<1>5. BacklogInv'
  <2>1. \A n \in 1..Len(backlog') : n \in 1..Len(backlog) \/ n = Len(backlog) + 1
    BY <1>2
  <2>2. \A n \in 1..Len(backlog') : conn'[backlog'[n]] = "queued"
    BY <1>0, <1>1, <1>2, <2>1 DEF BacklogInv, SrvTypes
  <2>3. \A n, m \in 1..Len(backlog') : backlog'[n] = backlog'[m] => n = m
    BY <1>0, <1>2, <1>3, <2>1 DEF BacklogInv
  <2> QED
    BY <2>2, <2>3 DEF BacklogInv
<1>6. \A d \in Conns : conn'[d] = "served" <=> conn[d] = "served"
  BY <1>0, <1>1 DEF SrvTypes
<1>7. OwnerInv' /\ RegInv'
  BY <1>0, <1>1, <1>6 DEF OwnerInv, RegInv
<1>8. BatchInv'
  BY <1>0, <1>1, <1>2 DEF BatchInv, AcceptNeverBlocks
<1> QED
  BY <1>4, <1>5, <1>7, <1>8 DEF SetupInv

\* Whatever changes no more than the sockets' flags, the counters and the
\* setup calls made.
LEMMA OthersKeep ==
  ASSUME SetupInv,
         UNCHANGED <<open, reg, pc, batch, cur, conn, backlog, fdOf, pair>>,
         UNCHANGED <<serverFd, socket>>, todo' \subseteq todo, ready' => ready
  PROVE  SetupInv'
<1>0. /\ SrvTypes /\ SocketInv /\ BacklogInv /\ OwnerInv /\ RegInv /\ BatchInv
      /\ ReadyServerIsHeard
  BY DEF SetupInv
<1>1. SrvTypes' /\ SocketInv' /\ BacklogInv' /\ OwnerInv' /\ RegInv'
  BY <1>0 DEF SrvTypes, SocketInv, BacklogInv, OwnerInv, RegInv
<1>2. BatchInv' /\ ReadyServerIsHeard'
  BY <1>0 DEF BatchInv, AcceptNeverBlocks, ReadyServerIsHeard
<1> QED
  BY <1>1, <1>2 DEF SetupInv

----------------------------------------------------------------------------
(* The event loop. *)

\* epoll reports what is registered, each descriptor once.
LEMMA WaitKeeps ==
  ASSUME SetupInv, Wait, UNCHANGED setupVars
  PROVE  SetupInv'
<1>0. /\ SrvTypes /\ SocketInv /\ BacklogInv /\ OwnerInv /\ RegInv /\ BatchInv
      /\ ReadyServerIsHeard
  BY DEF SetupInv
<1>1. /\ UNCHANGED <<open, reg, cur, conn, backlog, fdOf, pair>>
      /\ UNCHANGED <<serverFd, socket, ready>>
      /\ batch' \subseteq ReadyEvents /\ pc = "app" /\ pc' = "dispatch"
      /\ cur = {}
  BY <1>0 DEF Wait, WaitReturns, srvVars, setupVars, BatchInv
<1>2. \A ev \in ReadyEvents :
        /\ ev.fd \in Fds /\ ev.obj = reg[ev.fd] /\ ev.obj \in Objects
        /\ ev.obj = Listener => backlog # <<>>
        /\ ev = [fd |-> ev.fd, obj |-> reg[ev.fd],
                 conds |-> Condition(reg[ev.fd]) \cap Reportable(reg[ev.fd])]
  <2> SUFFICES ASSUME NEW fd \in Fds, reg[fd] # Absent,
                      Condition(reg[fd]) \cap Reportable(reg[fd]) # {}
               PROVE  /\ reg[fd] \in Objects
                      /\ reg[fd] = Listener => backlog # <<>>
    BY DEF ReadyEvents, Registered
  <2> QED
    BY <1>0 DEF SrvTypes, Condition
<1>3. SrvTypes' /\ SocketInv' /\ ReadyServerIsHeard' /\ BacklogInv'
  BY <1>0, <1>1, <1>2
     DEF SrvTypes, SocketInv, ReadyServerIsHeard, BacklogInv
<1>4. OwnerInv' /\ RegInv'
  BY <1>0, <1>1 DEF OwnerInv, RegInv
<1>5. BatchInv'
  BY <1>0, <1>1, <1>2 DEF BatchInv, AcceptNeverBlocks
<1> QED
  BY <1>3, <1>4, <1>5 DEF SetupInv

\* Events with one object are on one descriptor.
LEMMA BatchObjects ==
  ASSUME SrvTypes, RegInv, BatchInv, NEW e \in batch, NEW f \in batch, e.obj = f.obj
  PROVE  e = f
<1>1. reg[e.fd] = e.obj /\ reg[f.fd] = e.obj /\ e.fd \in Fds /\ f.fd \in Fds
      /\ e.obj \in Objects
  BY DEF SrvTypes, BatchInv
<1>2. e.fd = f.fd
  BY <1>1 DEF RegInv, Objects
<1> QED
  BY <1>2 DEF BatchInv

LEMMA DispatchKeeps ==
  ASSUME SetupInv, DispatchEvent, UNCHANGED srvVars, UNCHANGED setupVars
  PROVE  SetupInv'
<1>0. /\ SrvTypes /\ SocketInv /\ BacklogInv /\ OwnerInv /\ RegInv /\ BatchInv
      /\ ReadyServerIsHeard
  BY DEF SetupInv
<1>1. PICK ev \in batch : batch' = batch \ {ev} /\ cur' = {ev}
  BY DEF DispatchEvent
<1>2. /\ UNCHANGED <<open, reg, pc, conn, backlog, fdOf, pair>> /\ pc = "dispatch"
      /\ UNCHANGED <<serverFd, socket, ready>>
  BY DEF DispatchEvent, srvVars, setupVars
<1>3. SrvTypes' /\ SocketInv' /\ ReadyServerIsHeard' /\ BacklogInv'
  BY <1>0, <1>1, <1>2 DEF SrvTypes, SocketInv, ReadyServerIsHeard, BacklogInv
<1>4. OwnerInv' /\ RegInv'
  BY <1>0, <1>2 DEF OwnerInv, RegInv
<1>5. BatchInv'
  <2>1. \A e \in batch', g \in cur' : e.obj # g.obj
    BY <1>0, <1>1, BatchObjects
  <2>2. \A g \in cur' : g.obj = Listener => ListenFd \in open'
    BY <1>0, <1>1, <1>2 DEF BatchInv, RegInv, SrvTypes
  <2>3. AcceptNeverBlocks'
    BY <1>0, <1>1, <1>2 DEF BatchInv, AcceptNeverBlocks
  <2> QED
    BY <1>0, <1>1, <1>2, <2>1, <2>2, <2>3 DEF BatchInv
<1> QED
  BY <1>3, <1>4, <1>5 DEF SetupInv

LEMMA WaitEndsKeeps ==
  ASSUME SetupInv, WaitEnds, UNCHANGED srvVars, UNCHANGED setupVars
  PROVE  SetupInv'
<1>0. /\ SrvTypes /\ SocketInv /\ BacklogInv /\ OwnerInv /\ RegInv /\ BatchInv
      /\ ReadyServerIsHeard
  BY DEF SetupInv
<1>1. /\ UNCHANGED <<open, reg, batch, todo, conn, backlog, fdOf, pair>>
      /\ UNCHANGED <<serverFd, socket, ready>> /\ batch = {} /\ cur' = {}
  BY DEF WaitEnds, srvVars, setupVars
<1>2. SrvTypes' /\ SocketInv' /\ BacklogInv' /\ OwnerInv' /\ RegInv'
  BY <1>0, <1>1 DEF SrvTypes, SocketInv, BacklogInv, OwnerInv, RegInv
<1>3. BatchInv' /\ ReadyServerIsHeard'
  BY <1>0, <1>1 DEF BatchInv, AcceptNeverBlocks, ReadyServerIsHeard
<1> QED
  BY <1>2, <1>3 DEF SetupInv

----------------------------------------------------------------------------
(* The server's and the clients' callbacks. *)

\* The listener's read callback runs while its socket is open and a
\* connection waits; afterwards no event of the listener is left.
LEMMA AcceptRuns ==
  ASSUME SetupInv, Runs(Listener, "read")
  PROVE  /\ ListenFd \in open /\ backlog # <<>>
         /\ \A ev \in batch : ev.obj # Listener
         /\ "read" \notin todo'
<1>1. BatchInv /\ "read" \in todo /\ todo' = todo \ {"read"}
  BY DEF SetupInv, Runs, NextCallback
<1>2. PICK ev \in cur : ev.obj = Listener
  BY DEF Runs
<1> QED
  BY <1>1, <1>2 DEF BatchInv, AcceptNeverBlocks

\* What is left of the backlog when its head is taken.
LEMMA BacklogTail ==
  ASSUME SetupInv, backlog # <<>>, backlog' = Tail(backlog),
         \A c \in Conns : c # Head(backlog) => conn'[c] = conn[c]
  PROVE  /\ backlog' \in Seq(Conns) /\ BacklogInv'
         /\ Head(backlog) \in Conns /\ conn[Head(backlog)] = "queued"
<1>1. backlog \in Seq(Conns) /\ BacklogInv
  BY DEF SetupInv, SrvTypes
<1>2. /\ backlog' \in Seq(Conns) /\ Len(backlog) \in Nat \ {0}
      /\ Len(backlog') = Len(backlog) - 1
      /\ \A n \in 1..Len(backlog') : backlog'[n] = backlog[n + 1]
  BY <1>1, HeadTailProperties, LenProperties, EmptySeq
<1>3. Head(backlog) = backlog[1] /\ 1 \in 1..Len(backlog)
  BY <1>1, <1>2
<1>4. \A n \in 1..Len(backlog') :
        /\ n + 1 \in 1..Len(backlog) /\ n + 1 # 1
        /\ backlog'[n] = backlog[n + 1] /\ backlog[n + 1] \in Conns
        /\ backlog[n + 1] # backlog[1]
  <2> SUFFICES ASSUME NEW n \in 1..Len(backlog')
               PROVE  /\ n + 1 \in 1..Len(backlog) /\ n + 1 # 1
                      /\ backlog'[n] = backlog[n + 1] /\ backlog[n + 1] \in Conns
                      /\ backlog[n + 1] # backlog[1]
    OBVIOUS
  <2>1. n + 1 \in 1..Len(backlog) /\ n + 1 # 1
    BY <1>2
  <2>2. backlog[n + 1] # backlog[1]
    BY <1>1, <1>3, <2>1 DEF BacklogInv
  <2> QED
    BY <1>1, <1>2, <2>1, <2>2
<1>5. \A n \in 1..Len(backlog') : conn'[backlog'[n]] = "queued"
  BY <1>1, <1>3, <1>4 DEF BacklogInv
<1>6. ASSUME NEW n \in 1..Len(backlog'), NEW m \in 1..Len(backlog'),
             backlog'[n] = backlog'[m]
      PROVE  n = m
  <2>1. n + 1 = m + 1
    BY <1>1, <1>4, <1>6 DEF BacklogInv
  <2> QED
    BY <1>2, <2>1
<1> QED
  BY <1>1, <1>2, <1>3, <1>5, <1>6 DEF BacklogInv

LEMMA AcceptClientKeeps ==
  ASSUME SetupInv, AcceptClient, UNCHANGED setupVars
  PROVE  SetupInv'
<1>0. /\ SrvTypes /\ SocketInv /\ BacklogInv /\ OwnerInv /\ RegInv /\ BatchInv
      /\ ReadyServerIsHeard
  BY DEF SetupInv
<1> DEFINE c == Head(backlog)
           l == LowestFd
<1>1. /\ Runs(Listener, "read") /\ backlog # <<>> /\ Free # {}
      /\ open' = open \cup {l}
      /\ conn' = [conn EXCEPT ![c] = "served"]
      /\ fdOf' = [fdOf EXCEPT ![c] = l]
      /\ pair' = [pair EXCEPT ![c] = "live"]
      /\ reg' = [reg EXCEPT ![l] = c] \/ reg' = reg
      /\ backlog' = Tail(backlog)
      /\ UNCHANGED <<pc, batch, cur, serverFd, socket, ready>>
  BY DEF AcceptClient, RegisterClient, setupVars
<1>2. /\ ListenFd \in open /\ \A ev \in batch : ev.obj # Listener
      /\ "read" \notin todo'
  BY <1>1, AcceptRuns
<1>3. l \in Fds /\ l \notin open /\ l # ListenFd
  BY <1>0, <1>1, <1>2, LowestIsFree DEF SrvTypes
<1>4. /\ backlog' \in Seq(Conns) /\ BacklogInv' /\ c \in Conns /\ conn[c] = "queued"
  BY <1>0, <1>1, BacklogTail DEF SrvTypes
<1>5. /\ \A d \in Conns : conn'[d] = IF d = c THEN "served" ELSE conn[d]
      /\ \A d \in Conns : fdOf'[d] = IF d = c THEN l ELSE fdOf[d]
      /\ \A d \in Conns : pair'[d] = IF d = c THEN "live" ELSE pair[d]
      /\ \A fd \in Fds : reg'[fd] = reg[fd] \/ (fd = l /\ reg'[fd] = c)
  BY <1>0, <1>1, <1>3, <1>4 DEF SrvTypes
<1>6. SrvTypes' /\ SocketInv'
  BY <1>0, <1>1, <1>3, <1>4 DEF SrvTypes, SocketInv, Objects
<1>7. OwnerInv'
  <2>1. \A d \in Conns : pair'[d] = "live" <=> conn'[d] = "served"
    BY <1>0, <1>5 DEF OwnerInv
  <2>2. \A d \in Conns : conn'[d] = "served" => fdOf'[d] \in open' \ {ListenFd}
    BY <1>0, <1>1, <1>3, <1>5 DEF OwnerInv
  <2>3. \A d, e \in Conns :
          conn'[d] = "served" /\ conn'[e] = "served" /\ fdOf'[d] = fdOf'[e] => d = e
    BY <1>0, <1>3, <1>5 DEF OwnerInv
  <2>4. \A fd \in open' \ {ListenFd} :
          \E d \in Conns : conn'[d] = "served" /\ fdOf'[d] = fd
    <3> SUFFICES ASSUME NEW fd \in open' \ {ListenFd}
                 PROVE  \E d \in Conns : conn'[d] = "served" /\ fdOf'[d] = fd
      OBVIOUS
    <3>1. CASE fd = l
      BY <1>4, <1>5, <3>1
    <3>2. CASE fd # l
      <4>1. PICK d \in Conns : conn[d] = "served" /\ fdOf[d] = fd
        BY <1>0, <1>1, <3>2 DEF OwnerInv
      <4> QED
        BY <1>4, <1>5, <4>1
    <3> QED
      BY <3>1, <3>2
  <2> QED
    BY <2>1, <2>2, <2>3, <2>4 DEF OwnerInv
<1>8. RegInv'
  <2>1. \A fd \in Fds : reg'[fd] = Listener => fd = ListenFd /\ fd \in open'
    BY <1>0, <1>1, <1>4, <1>5, ServerAssumption DEF RegInv
  <2>2. \A fd \in Fds, d \in Conns :
          reg'[fd] = d => conn'[d] = "served" /\ fdOf'[d] = fd
    BY <1>0, <1>4, <1>5 DEF RegInv
  <2> QED
    BY <2>1, <2>2 DEF RegInv
<1>9. BatchInv'
  <2>1. \A ev \in batch : ev.fd \in Fds /\ reg'[ev.fd] = ev.obj
    <3> SUFFICES ASSUME NEW ev \in batch PROVE ev.fd \in Fds /\ reg'[ev.fd] = ev.obj
      OBVIOUS
    <3>1. ev.fd \in Fds /\ ev.obj \in Conns /\ reg[ev.fd] = ev.obj
      BY <1>0, <1>2 DEF SrvTypes, BatchInv, Objects
    <3>2. ev.fd \in open
      BY <1>0, <3>1 DEF RegInv, OwnerInv
    <3> QED
      BY <1>3, <1>5, <3>1, <3>2
  <2>2. AcceptNeverBlocks'
    BY <1>1, <1>2 DEF AcceptNeverBlocks
  <2> QED
    BY <1>0, <1>1, <2>1, <2>2 DEF BatchInv
<1>10. ReadyServerIsHeard'
  BY <1>0, <1>1, <1>3, <1>5, ServerAssumption DEF ReadyServerIsHeard, SocketInv
<1> QED
  BY <1>4, <1>6, <1>7, <1>8, <1>9, <1>10 DEF SetupInv

LEMMA AcceptDropsKeeps ==
  ASSUME SetupInv, AcceptDrops, UNCHANGED setupVars
  PROVE  SetupInv'
<1>0. /\ SrvTypes /\ SocketInv /\ BacklogInv /\ OwnerInv /\ RegInv /\ BatchInv
      /\ ReadyServerIsHeard
  BY DEF SetupInv
<1> DEFINE c == Head(backlog)
<1>1. /\ Runs(Listener, "read") /\ backlog # <<>> /\ backlog' = Tail(backlog)
      /\ conn' = [conn EXCEPT ![c] = "closed"]
      /\ UNCHANGED <<open, reg, pc, batch, cur, fdOf, pair, serverFd, socket, ready>>
  BY DEF AcceptDrops, setupVars
<1>2. /\ \A ev \in batch : ev.obj # Listener
      /\ "read" \notin todo'
  BY <1>1, AcceptRuns
<1>3. /\ backlog' \in Seq(Conns) /\ BacklogInv' /\ c \in Conns /\ conn[c] = "queued"
  BY <1>0, <1>1, BacklogTail DEF SrvTypes
<1>4. \A d \in Conns : conn'[d] = "served" <=> conn[d] = "served"
  BY <1>0, <1>1, <1>3 DEF SrvTypes
<1>5. SrvTypes' /\ SocketInv' /\ ReadyServerIsHeard'
  BY <1>0, <1>1, <1>3 DEF SrvTypes, SocketInv, ReadyServerIsHeard
<1>6. OwnerInv' /\ RegInv'
  BY <1>0, <1>1, <1>4 DEF OwnerInv, RegInv
<1>7. BatchInv'
  <2>1. AcceptNeverBlocks'
    BY <1>1, <1>2 DEF AcceptNeverBlocks
  <2> QED
    BY <1>0, <1>1, <2>1 DEF BatchInv
<1> QED
  BY <1>3, <1>5, <1>6, <1>7 DEF SetupInv

\* Removing a client takes its descriptor and no other's.
LEMMA RemoveKeeps ==
  ASSUME SetupInv, NEW c \in Conns, NEW k, Runs(c, k), pair[c] = "live", Remove(c),
         UNCHANGED <<pc, batch, cur, backlog, fdOf>>, UNCHANGED setupVars
  PROVE  SetupInv'
<1>0. /\ SrvTypes /\ SocketInv /\ BacklogInv /\ OwnerInv /\ RegInv /\ BatchInv
      /\ ReadyServerIsHeard
  BY DEF SetupInv
<1> DEFINE fd == fdOf[c]
<1>1. conn[c] = "served" /\ fd \in open /\ fd \in Fds /\ fd # ListenFd
  BY <1>0 DEF OwnerInv, SrvTypes
<1>2. reg' = [reg EXCEPT ![fd] = Absent]
  <2>1. CASE fd \in Registered
    BY <1>1, <2>1 DEF Remove, MuxRm
  <2>2. CASE fd \notin Registered
    <3>1. reg' = reg /\ reg[fd] = Absent
      BY <1>1, <2>2 DEF Remove, MuxRm, Registered
    <3> QED
      BY <1>0, <3>1 DEF SrvTypes
  <2> QED
    BY <2>1, <2>2
<1>3. /\ open' = open \ {fd} /\ UNCHANGED <<serverFd, socket, ready>>
      /\ pair' = [pair EXCEPT ![c] = "freed"] /\ conn' = [conn EXCEPT ![c] = "closed"]
      /\ todo' \subseteq todo
  BY DEF Remove, setupVars, Runs, NextCallback
<1>4. /\ \A d \in Conns : conn'[d] = IF d = c THEN "closed" ELSE conn[d]
      /\ \A d \in Conns : pair'[d] = IF d = c THEN "freed" ELSE pair[d]
      /\ \A f \in Fds : reg'[f] = IF f = fd THEN Absent ELSE reg[f]
  BY <1>0, <1>2, <1>3 DEF SrvTypes
<1>5. SrvTypes' /\ SocketInv'
  BY <1>0, <1>1, <1>2, <1>3 DEF SrvTypes, SocketInv
<1>6. BacklogInv'
  <2>1. \A n \in 1..Len(backlog) : backlog[n] \in Conns /\ backlog[n] # c
    BY <1>0, <1>1 DEF BacklogInv, SrvTypes
  <2> QED
    BY <1>0, <1>4, <2>1 DEF BacklogInv
<1>7. OwnerInv'
  <2>1. \A d \in Conns :
          conn'[d] = "served" => d # c /\ conn[d] = "served" /\ fdOf[d] # fd
    BY <1>0, <1>1, <1>4 DEF OwnerInv
  <2>2. \A f \in open' \ {ListenFd} :
          \E d \in Conns : conn'[d] = "served" /\ fdOf'[d] = f
    <3> SUFFICES ASSUME NEW f \in open \ {ListenFd}, f # fd
                 PROVE  \E d \in Conns : conn'[d] = "served" /\ fdOf[d] = f
      BY <1>3
    <3>1. PICK d \in Conns : conn[d] = "served" /\ fdOf[d] = f
      BY <1>0 DEF OwnerInv
    <3> QED
      BY <1>4, <3>1
  <2>3. \A d \in Conns : pair'[d] = "live" <=> conn'[d] = "served"
    BY <1>0, <1>4 DEF OwnerInv
  <2> QED
    BY <1>0, <1>3, <2>1, <2>2, <2>3 DEF OwnerInv
<1>8. RegInv'
  BY <1>0, <1>3, <1>4, ServerAssumption DEF RegInv
<1>9. BatchInv'
  <2>1. PICK g \in cur : g.obj = c
    BY DEF Runs
  <2>2. \A ev \in batch : ev.fd # fd /\ ev.fd \in Fds
    <3> SUFFICES ASSUME NEW ev \in batch PROVE ev.fd # fd /\ ev.fd \in Fds
      OBVIOUS
    <3>1. /\ ev.obj # c /\ reg[ev.fd] = ev.obj
          /\ ev.fd \in Fds /\ ev.obj \in Objects
      BY <1>0, <2>1 DEF BatchInv, SrvTypes
    <3>2. CASE ev.obj = Listener
      BY <1>0, <1>1, <3>1, <3>2 DEF RegInv
    <3>3. CASE ev.obj \in Conns
      BY <1>0, <1>1, <3>1, <3>3 DEF RegInv, OwnerInv
    <3> QED
      BY <3>1, <3>2, <3>3 DEF Objects
  <2>3. \A ev \in batch : reg'[ev.fd] = ev.obj
    BY <1>0, <1>4, <2>2 DEF BatchInv
  <2>4. AcceptNeverBlocks'
    BY <1>0, <1>3 DEF BatchInv, AcceptNeverBlocks
  <2> QED
    BY <1>0, <1>1, <1>3, <2>3, <2>4 DEF BatchInv
<1>10. ReadyServerIsHeard'
  BY <1>0, <1>1, <1>3, <1>4, ServerAssumption DEF ReadyServerIsHeard, SocketInv
<1> QED
  BY <1>5, <1>6, <1>7, <1>8, <1>9, <1>10 DEF SetupInv

\* A context that is used after it was freed belongs to no served client.
LEMMA MisuseKeeps ==
  ASSUME SetupInv, NEW c \in Conns, UseFreedContext(c), UNCHANGED setupVars
  PROVE  SetupInv'
<1>0. /\ SrvTypes /\ SocketInv /\ BacklogInv /\ OwnerInv /\ RegInv /\ BatchInv
      /\ ReadyServerIsHeard
  BY DEF SetupInv
<1>1. /\ UNCHANGED <<open, reg, pc, batch, cur, todo, conn, backlog, fdOf>>
      /\ UNCHANGED <<serverFd, socket, ready>>
      /\ pair[c] # "live" /\ pair' = [pair EXCEPT ![c] = "misused"]
  BY DEF UseFreedContext, loopVars, setupVars
<1>2. SrvTypes' /\ SocketInv' /\ BacklogInv' /\ RegInv'
  BY <1>0, <1>1 DEF SrvTypes, SocketInv, BacklogInv, RegInv
<1>3. OwnerInv'
  <2>1. \A d \in Conns : pair'[d] = "live" <=> pair[d] = "live"
    BY <1>0, <1>1 DEF SrvTypes
  <2> QED
    BY <1>0, <1>1, <2>1 DEF OwnerInv
<1>4. BatchInv' /\ ReadyServerIsHeard'
  BY <1>0, <1>1 DEF BatchInv, AcceptNeverBlocks, ReadyServerIsHeard
<1> QED
  BY <1>2, <1>3, <1>4 DEF SetupInv

----------------------------------------------------------------------------
(* Setup and teardown. *)

\* The lowest free descriptor is the one the listening socket always has.
LEMMA BindKeeps ==
  ASSUME SetupInv, ServerBind
  PROVE  SetupInv'
<1>0. /\ SrvTypes /\ SocketInv /\ BacklogInv /\ OwnerInv /\ RegInv /\ BatchInv
      /\ ReadyServerIsHeard
  BY DEF SetupInv
<1>1. /\ serverFd = NoFd /\ serverFd' = LowestFd /\ open' = open \cup {LowestFd}
      /\ socket' \in {"open", "bound"}
      /\ UNCHANGED <<reg, pc, batch, cur, todo, conn, backlog, fdOf, pair, ready>>
  BY DEF ServerBind, srvVars
<1>2. ListenFd \notin open /\ ListenFd \in Fds
  BY <1>0, <1>1, ServerAssumption DEF SocketInv
<1>3. LowestFd = ListenFd
  BY <1>0, <1>2, LowestIsListenFd DEF SrvTypes
<1>4. SrvTypes' /\ SocketInv' /\ BacklogInv'
  BY <1>0, <1>1, <1>2, <1>3 DEF SrvTypes, SocketInv, BacklogInv
<1>5. OwnerInv' /\ RegInv'
  BY <1>0, <1>1, <1>3 DEF OwnerInv, RegInv
<1>6. BatchInv' /\ ReadyServerIsHeard'
  BY <1>0, <1>1, ServerAssumption
     DEF BatchInv, AcceptNeverBlocks, ReadyServerIsHeard, SrvTypes
<1> QED
  BY <1>4, <1>5, <1>6 DEF SetupInv

LEMMA ListenKeeps ==
  ASSUME SetupInv, ServerListen
  PROVE  SetupInv'
<1>0. /\ SrvTypes /\ SocketInv /\ BacklogInv /\ OwnerInv /\ RegInv /\ BatchInv
      /\ ReadyServerIsHeard
  BY DEF SetupInv
<1>1. /\ socket # "none" /\ socket' = "listening" /\ pc = "app"
      /\ \/ reg' = [reg EXCEPT ![serverFd] = Listener] /\ ready' = TRUE
         \/ reg' = reg /\ ready' = FALSE
      /\ UNCHANGED <<open, pc, batch, cur, todo, conn, backlog, fdOf, pair, serverFd>>
  BY DEF ServerListen, MuxCtl, srvVars
<1>2. /\ serverFd = ListenFd /\ ListenFd \in open /\ ListenFd \in Fds
      /\ batch = {} /\ cur = {}
  BY <1>0, <1>1, ServerAssumption DEF SocketInv, BatchInv
<1>3. SrvTypes' /\ SocketInv' /\ BacklogInv' /\ OwnerInv'
  BY <1>0, <1>1, <1>2 DEF SrvTypes, SocketInv, BacklogInv, OwnerInv, Objects
<1>4. RegInv'
  BY <1>0, <1>1, <1>2, ServerAssumption DEF RegInv, SrvTypes
<1>5. BatchInv'
  BY <1>0, <1>1, <1>2 DEF BatchInv, AcceptNeverBlocks
<1>6. ReadyServerIsHeard'
  BY <1>0, <1>1, <1>2 DEF ReadyServerIsHeard, SrvTypes
<1> QED
  BY <1>3, <1>4, <1>5, <1>6 DEF SetupInv

LEMMA UninitKeeps ==
  ASSUME SetupInv, ServerUninit
  PROVE  SetupInv'
<1>0. /\ SrvTypes /\ SocketInv /\ BacklogInv /\ OwnerInv /\ RegInv /\ BatchInv
      /\ ReadyServerIsHeard
  BY DEF SetupInv
<1>1. /\ pc = "app" /\ open' = open \ {serverFd}
      /\ reg' = [reg EXCEPT ![serverFd] = Absent]
      /\ conn' = [c \in Conns |-> IF conn[c] = "queued" THEN "closed" ELSE conn[c]]
      /\ backlog' = <<>> /\ socket' = "none" /\ ready' = FALSE
      /\ UNCHANGED <<pc, batch, cur, todo, fdOf, pair, serverFd>>
  BY DEF ServerUninit, CloseDescriptor
<1>2. serverFd = ListenFd /\ ListenFd \in Fds /\ batch = {} /\ cur = {}
  BY <1>0, <1>1, ServerAssumption DEF SrvTypes, BatchInv, ServerUninit
<1>3. \A c \in Conns : conn'[c] = "served" <=> conn[c] = "served"
  BY <1>1
<1>4. SrvTypes' /\ SocketInv' /\ BacklogInv' /\ ReadyServerIsHeard'
  BY <1>0, <1>1, <1>2 DEF SrvTypes, SocketInv, BacklogInv, ReadyServerIsHeard
<1>5. OwnerInv'
  BY <1>0, <1>1, <1>2, <1>3 DEF OwnerInv
<1>6. RegInv'
  BY <1>0, <1>1, <1>2, <1>3, ServerAssumption DEF RegInv, SrvTypes
<1>7. BatchInv'
  BY <1>0, <1>1, <1>2 DEF BatchInv, AcceptNeverBlocks
<1> QED
  BY <1>4, <1>5, <1>6, <1>7 DEF SetupInv

----------------------------------------------------------------------------

LEMMA SetupInitInv == SetupInit => SetupInv
<1> SUFFICES ASSUME SetupInit PROVE SetupInv
  OBVIOUS
<1>1. /\ open = {} /\ reg = [fd \in Fds |-> Absent] /\ batch = {} /\ cur = {}
      /\ conn = [c \in Conns |-> "away"] /\ fdOf = [c \in Conns |-> NoFd]
      /\ pair = [c \in Conns |-> "none"] /\ backlog = <<>>
      /\ serverFd = NoFd /\ socket = "none" /\ ready = FALSE
  BY DEF SetupInit, MuxInit, NoClients
<1>2. SrvTypes /\ SocketInv /\ BacklogInv
  BY <1>1 DEF SrvTypes, SocketInv, BacklogInv
<1>3. OwnerInv /\ RegInv
  BY <1>1, ServerAssumption DEF OwnerInv, RegInv
<1>4. BatchInv /\ ReadyServerIsHeard
  BY <1>1 DEF BatchInv, AcceptNeverBlocks, ReadyServerIsHeard
<1> QED
  BY <1>2, <1>3, <1>4 DEF SetupInv

LEMMA SetupStepInv == SetupInv /\ [SetupNext]_allVars => SetupInv'
<1> SUFFICES ASSUME SetupInv, [SetupNext]_allVars PROVE SetupInv'
  OBVIOUS
<1>0. ready => socket = "listening"
  BY DEF SetupInv, ReadyServerIsHeard
<1>1. CASE PeersOfSocket /\ UNCHANGED setupVars
  <2>1. ASSUME NEW c \in Conns, Connect(c) PROVE SetupInv'
    BY <1>1, <2>1, ConnectKeeps
  <2>2. ASSUME NEW c \in Conns, Send(c) \/ PeerReads(c) \/ HangUp(c) PROVE SetupInv'
    BY <1>1, <2>2, OthersKeep DEF Send, PeerReads, HangUp, loopVars, setupVars
  <2> QED
    BY <1>1, <2>1, <2>2 DEF PeersOfSocket
<1>2. CASE Loop /\ UNCHANGED setupVars
  <2>1. CASE Wait
    BY <1>2, <2>1, WaitKeeps
  <2>2. CASE DispatchEvent /\ UNCHANGED srvVars
    BY <1>2, <2>2, DispatchKeeps
  <2>3. CASE WaitEnds /\ UNCHANGED srvVars
    BY <1>2, <2>3, WaitEndsKeeps
  <2>4. CASE AcceptClient
    BY <1>2, <2>4, AcceptClientKeeps
  <2>5. CASE AcceptDrops
    BY <1>2, <2>5, AcceptDropsKeeps
  <2>6. CASE AcceptFails
    BY <1>2, <2>6, OthersKeep DEF AcceptFails, Runs, NextCallback, srvVars, setupVars
  <2>7. ASSUME NEW c \in Conns, ClientRead(c) \/ ClientWrite(c) PROVE SetupInv'
    BY <1>2, <2>7, OthersKeep DEF ClientRead, ClientWrite, Runs, NextCallback, setupVars
  <2>8. ASSUME NEW c \in Conns, ClientRm(c) PROVE SetupInv'
    <3>1. PICK k : Runs(c, k)
      BY <2>8 DEF ClientRm
    <3>2. pair[c] = "live" /\ UNCHANGED <<pc, batch, cur, backlog, fdOf>>
      BY <2>8 DEF ClientRm
    <3>3. CASE HasRm
      BY <1>2, <2>8, <3>1, <3>2, <3>3, RemoveKeeps DEF ClientRm
    <3>4. CASE ~HasRm
      BY <1>2, <2>8, <3>1, <3>2, <3>4, OthersKeep
         DEF ClientRm, Runs, NextCallback, setupVars
    <3> QED
      BY <3>3, <3>4
  <2>9. ASSUME NEW c \in Conns, UseFreedContext(c) PROVE SetupInv'
    BY <1>2, <2>9, MisuseKeeps
  <2> QED
    BY <1>2, <2>1, <2>2, <2>3, <2>4, <2>5, <2>6, <2>7, <2>8, <2>9 DEF Loop, Callbacks
<1>3. CASE ServerInit
  <2>1. socket = "none" /\ serverFd' = NoFd /\ UNCHANGED <<vars, socket, ready>>
    BY <1>3 DEF ServerInit
  <2>2. /\ UNCHANGED <<open, reg, pc, batch, cur, todo, conn, backlog, fdOf, pair>>
        /\ UNCHANGED <<socket, ready>>
    BY <2>1 DEF vars, loopVars, srvVars
  <2>3. /\ SrvTypes /\ SocketInv /\ BacklogInv /\ OwnerInv /\ RegInv /\ BatchInv
    BY DEF SetupInv
  <2>4. SrvTypes' /\ SocketInv' /\ BacklogInv' /\ OwnerInv' /\ RegInv'
    BY <2>1, <2>2, <2>3 DEF SrvTypes, SocketInv, BacklogInv, OwnerInv, RegInv
  <2>5. BatchInv' /\ ReadyServerIsHeard'
    BY <1>0, <2>1, <2>2, <2>3 DEF BatchInv, AcceptNeverBlocks, ReadyServerIsHeard
  <2> QED
    BY <2>4, <2>5 DEF SetupInv
<1>4. CASE ServerBind
  BY <1>4, BindKeeps
<1>5. CASE ServerListen
  BY <1>5, ListenKeeps
<1>6. CASE ServerUninit
  BY <1>6, UninitKeeps
<1>7. CASE BindRefused \/ UNCHANGED allVars
  BY <1>7, OthersKeep DEF BindRefused, allVars, vars, loopVars, srvVars, setupVars
<1>8. CASE ListenRefused
  BY <1>8, OthersKeep DEF ListenRefused, vars, loopVars, srvVars
<1> QED
  BY <1>1, <1>2, <1>3, <1>4, <1>5, <1>6, <1>7, <1>8 DEF SetupNext

LEMMA SetupInvHolds == SetupSpec => []SetupInv
<1> QED
  BY SetupInitInv, SetupStepInv, PTL DEF SetupSpec

----------------------------------------------------------------------------

\* Every open descriptor beside the listening one is exactly one served
\* client's, whose context is the only one there is: for any number of
\* clients, through every start and end of the server.
THEOREM FdsAreOwned == SetupSpec => []ClientsOwnTheirFds
<1>1. SetupInv => ClientsOwnTheirFds
  <2> SUFFICES ASSUME SetupInv PROVE ClientsOwnTheirFds
    OBVIOUS
  <2>0. SrvTypes /\ OwnerInv /\ RegInv
    BY DEF SetupInv
  <2> DEFINE f == [c \in Served |-> fdOf[c]]
             T == open \ {ListenFd}
  <2>1. T = {fdOf[c] : c \in Served}
    BY <2>0 DEF OwnerInv, Served
  <2>2. f \in Bijection(Served, T)
    <3>1. f \in [Served -> T]
      BY <2>1
    <3>2. IsInjective(f)
      BY <2>0 DEF IsInjective, OwnerInv, Served
    <3>3. \A t \in T : \E c \in Served : f[c] = t
      BY <2>1
    <3> QED
      BY <3>1, <3>2, <3>3 DEF Bijection, Injection, Surjection
  <2>3. IsFiniteSet(T)
    BY <2>0, ServerAssumption, FS_Subset DEF SrvTypes
  <2>4. IsFiniteSet(Served) /\ Cardinality(T) = Cardinality(Served)
    <3>1. IsFiniteSet(Served)
      BY <2>2, <2>3, FS_Injection DEF Bijection
    <3> QED
      BY <2>2, <3>1, FS_Bijection DEF ExistsBijection
  <2>5. \A c \in Conns : pair[c] = "live" <=> c \in Served
    BY <2>0 DEF OwnerInv, Served
  <2>6. \A c \in Served : reg[fdOf[c]] \in {c, Absent}
    <3> SUFFICES ASSUME NEW c \in Served PROVE reg[fdOf[c]] \in {c, Absent}
      OBVIOUS
    <3>1. /\ c \in Conns /\ conn[c] = "served"
          /\ fdOf[c] \in Fds /\ fdOf[c] # ListenFd
      BY <2>0 DEF Served, OwnerInv, SrvTypes
    <3>2. reg[fdOf[c]] \in Conns \cup {Listener, Absent}
      BY <2>0, <3>1 DEF SrvTypes, Objects
    <3> QED
      BY <2>0, <3>1, <3>2 DEF RegInv, OwnerInv
  <2> QED
    BY <2>1, <2>4, <2>5, <2>6 DEF ClientsOwnTheirFds
<1> QED
  BY <1>1, SetupInvHolds, PTL

\* What waits in a batch is never stale, whatever the callbacks before it
\* have closed and reused.
THEOREM BatchIsNeverStale == SetupSpec => []PendingEventsLive
<1>1. SetupInv => PendingEventsLive
  <2> SUFFICES ASSUME SetupInv, NEW ev \in batch
               PROVE  /\ reg[ev.fd] = ev.obj
                      /\ ev.obj # Listener => pair[ev.obj] = "live" /\ fdOf[ev.obj] = ev.fd
    BY DEF PendingEventsLive
  <2>1. /\ reg[ev.fd] = ev.obj /\ ev.fd \in Fds /\ ev.obj \in Objects
    BY DEF SetupInv, BatchInv, SrvTypes
  <2> QED
    BY <2>1 DEF SetupInv, RegInv, OwnerInv, Objects
<1> QED
  BY <1>1, SetupInvHolds, PTL

\* accept4 is called only when a connection waits.
THEOREM AcceptFindsAConnection == SetupSpec => []AcceptNeverBlocks
<1>1. SetupInv => AcceptNeverBlocks
  BY DEF SetupInv, BatchInv
<1> QED
  BY <1>1, SetupInvHolds, PTL

\* A server whose start was reported as a success is registered.
THEOREM ReadyIsRegistered == SetupSpec => []ReadyServerIsHeard
<1>1. SetupInv => ReadyServerIsHeard
  BY DEF SetupInv
<1> QED
  BY <1>1, SetupInvHolds, PTL

=============================================================================
