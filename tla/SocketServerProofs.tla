------------------------- MODULE SocketServerProofs -------------------------
(***************************************************************************)
(* The descriptors that the server lists are open, its thread object is    *)
(* never overwritten while it is joinable, and results go to the client    *)
(* whose line was run, for any number of clients and descriptors.          *)
(***************************************************************************)
EXTENDS SocketServer, TLAPS

\* The types that the argument needs.
Types ==
    /\ g_running \in BOOLEAN /\ g_clients \in [Fds -> Nat]
    /\ desc \in [Fds -> Clients \cup {None}]
    /\ client \in [Clients -> {"idle", "queued", "open", "gone"}]
    /\ pc \in [Threads -> Pcs]

\* What server_loop has accepted is open and not listed, and its handler has
\* not started.
Accepted ==
    loop = "push" =>
      /\ accepted \in Fds /\ desc[accepted] \in Clients
      /\ g_clients[accepted] = 0
      /\ pc[desc[accepted]] = "off"
      /\ client[desc[accepted]] \in {"open", "gone"}

\* A client that was not accepted has no handler.
Fresh == \A c \in Clients : client[c] \in {"idle", "queued"} => pc[c] = "off"

\* Scripts run under the JSScope lock.
Scoped == \A t \in Threads : pc[t] \in {"js", "close", "join"} => scope = t

\* The server is stopped, or a script is stopping it.
Stopping == ~g_running => loop = "off" \/ \E t \in Threads : pc[t] \in {"close", "join"}

\* The inductive invariant.
IInv == /\ Types /\ Accepted /\ Fresh /\ ListedOpen /\ Scoped /\ Stopping
        /\ NeverTerminates

\* The server that js_socket_server_start leaves behind satisfies IInv.
LEMMA InitIInv == Init => IInv
  BY SocketAssumption DEF Init, IInv, Types, Accepted, Fresh, ListedOpen, Listed, Scoped,
     Stopping, NeverTerminates, Threads, Pcs

\* Every step of the server, a handler, a script or a client preserves IInv.
LEMMA NextIInv == IInv /\ [Next]_vars => IInv'
<1> SUFFICES ASSUME IInv, [Next]_vars PROVE IInv'
  OBVIOUS
<1> USE SocketAssumption DEF Threads, Pcs, server, thread, Running, Handed, Released,
        Stopped, Cleared
<1>1. ASSUME NEW c \in Clients, Connect(c) PROVE IInv'
  BY <1>1, SMTT(30)
     DEF IInv, Types, Accepted, Fresh, ListedOpen, Listed, Scoped, Stopping,
         NeverTerminates, Connect
<1>2. ASSUME NEW c \in Clients, SendLine(c) PROVE IInv'
  BY <1>2, SMTT(30)
     DEF IInv, Types, Accepted, Fresh, ListedOpen, Listed, Scoped, Stopping,
         NeverTerminates, SendLine
<1>3. ASSUME NEW c \in Clients, Hangup(c) PROVE IInv'
  BY <1>3, SMTT(30)
     DEF IInv, Types, Accepted, Fresh, ListedOpen, Listed, Scoped, Stopping,
         NeverTerminates, Hangup
<1>4. ASSUME NEW c \in Clients, Head_(c) PROVE IInv'
  BY <1>4, SMTT(30)
     DEF IInv, Types, Accepted, Fresh, ListedOpen, Listed, Scoped, Stopping,
         NeverTerminates, Head_, Goto
<1>5. ASSUME NEW c \in Clients, Recv(c) PROVE IInv'
  BY <1>5, SMTT(30)
     DEF IInv, Types, Accepted, Fresh, ListedOpen, Listed, Scoped, Stopping,
         NeverTerminates, Recv, Goto
<1>6. ASSUME NEW t \in Threads, Lock(t) PROVE IInv'
  BY <1>6, SMTT(30)
     DEF IInv, Types, Accepted, Fresh, ListedOpen, Listed, Scoped, Stopping,
         NeverTerminates, Lock, Goto
<1>7. ASSUME NEW t \in Threads, Reply(t) PROVE IInv'
  BY <1>7, SMTT(30)
     DEF IInv, Types, Accepted, Fresh, ListedOpen, Listed, Scoped, Stopping,
         NeverTerminates, Reply, Goto
<1>8. ASSUME NEW t \in Threads, CloseAll(t) PROVE IInv'
  BY <1>8, SMTT(30)
     DEF IInv, Types, Accepted, Fresh, ListedOpen, Listed, Scoped, Stopping,
         NeverTerminates, CloseAll, Goto, Close
<1>9. ASSUME NEW t \in Threads, Join(t) PROVE IInv'
  BY <1>9, SMTT(30)
     DEF IInv, Types, Accepted, Fresh, ListedOpen, Listed, Scoped, Stopping,
         NeverTerminates, Join, Goto
<1>10. ASSUME NEW t \in Threads, Broadcast(t) PROVE IInv'
  <2>1. PICK F \in SUBSET Listed :
           /\ desc' = [f \in Fds |-> IF f \in F THEN None ELSE desc[f]]
           /\ g_clients' = [f \in Fds |-> IF f \in F THEN 0 ELSE g_clients[f]]
    BY <1>10 DEF Broadcast, Close
  <2>2. UNCHANGED <<g_running, loop, accepted, terminated, client, thread>>
    BY <1>10 DEF Broadcast
  <2>3. Types'
    BY <2>1, <2>2 DEF IInv, Types
  <2>4. Accepted'
    <3> SUFFICES ASSUME loop = "push" PROVE Accepted'
      BY <2>2 DEF Accepted
    <3>0. accepted \in Fds /\ g_clients[accepted] = 0
      BY DEF IInv, Accepted
    <3>1. accepted \in Fds /\ accepted \notin F
      <4>1. \A f \in F : f \in Listed
        OBVIOUS
      <4>2. accepted \notin Listed
        BY <3>0 DEF Listed
      <4> QED
        BY <3>0, <4>1, <4>2
    <3>2. desc'[accepted] = desc[accepted] /\ g_clients'[accepted] = g_clients[accepted]
      BY <2>1, <3>1
    <3> QED
      BY <2>2, <3>1, <3>2 DEF IInv, Accepted
  <2>5. ListedOpen'
    BY <2>1, <2>2 DEF IInv, Types, ListedOpen, Listed
  <2> QED
    BY <2>2, <2>3, <2>4, <2>5 DEF IInv, Fresh, Scoped, Stopping, NeverTerminates
<1>11. ASSUME NEW t \in Threads, Start(t) PROVE IInv'
  BY <1>11, SMTT(30)
     DEF IInv, Types, Accepted, Fresh, ListedOpen, Listed, Scoped, Stopping,
         NeverTerminates, Start, Calls
<1>12. ASSUME NEW t \in Threads, Stop(t) PROVE IInv'
  <2>1. pc' = [pc EXCEPT ![t] = "close"] /\ pc'[t] = "close"
    BY <1>12 DEF Stop, Goto, IInv, Types
  <2>2. Stopping'
    BY <2>1 DEF Stopping
  <2> QED
    BY <1>12, <2>1, <2>2
     DEF IInv, Types, Accepted, Fresh, ListedOpen, Listed, Scoped, NeverTerminates,
         Stop, Calls
<1>13. CASE LoopHead
  BY <1>13, SMTT(30)
     DEF IInv, Types, Accepted, Fresh, ListedOpen, Listed, Scoped, Stopping,
         NeverTerminates, LoopHead, CloseServer
<1>14. CASE Accept
  BY <1>14, SMTT(30)
     DEF IInv, Types, Accepted, Fresh, ListedOpen, Listed, Scoped, Stopping,
         NeverTerminates, Accept, CloseServer
<1>15. CASE Admit
  BY <1>15, SMTT(30)
     DEF IInv, Types, Accepted, Fresh, ListedOpen, Listed, Scoped, Stopping,
         NeverTerminates, Admit, Goto
<1>16. CASE LocalScript
  BY <1>16, SMTT(30)
     DEF IInv, Types, Accepted, Fresh, ListedOpen, Listed, Scoped, Stopping,
         NeverTerminates, LocalScript, Goto
<1>17. CASE UNCHANGED vars
  BY <1>17 DEF vars, IInv, Types, Accepted, Fresh, ListedOpen, Listed, Scoped, Stopping, NeverTerminates
<1> QED
  BY <1>1, <1>2, <1>3, <1>4, <1>5, <1>6, <1>7, <1>8, <1>9, <1>10, <1>11, <1>12, <1>13, <1>14, <1>15, <1>16, <1>17
     DEF Next, Handler, Peer, Script, Api, Loop

\* IInv holds throughout every execution of the server.
THEOREM ServerInvariant == Spec => []IInv
  BY InitIInv, NextIInv, PTL DEF Spec

\* A descriptor in g_clients is open and listed once, so broadcast_to_clients
\* and js_socket_server_stop close only descriptors the server holds, for any
\* number of clients, descriptors and scripts.
THEOREM SocketListedOpen == Spec => []ListedOpen
<1>1. IInv => ListedOpen
  BY DEF IInv
<1> QED
  BY <1>1, ServerInvariant, PTL

\* js_socket_server_start never assigns to a joinable std::thread.
THEOREM SocketNeverTerminates == Spec => []NeverTerminates
<1>1. IInv => NeverTerminates
  BY DEF IInv
<1> QED
  BY <1>1, ServerInvariant, PTL

\* What a handler's number stands for: its own client until the server closes
\* that client's descriptor, and the client whose line it runs until the server
\* closes that one's.
Handlers ==
    /\ fd \in [Clients -> Fds \cup {None}] /\ src \in [Threads -> Clients \cup {None}]
    /\ \A c \in Clients :
         /\ pc[c] = "off" => src[c] = None
         /\ pc[c] # "off" => fd[c] \in Fds /\ (c \in dropped \/ desc[fd[c]] = c)
         /\ src[c] # None => src[c] \in dropped \/ desc[fd[c]] = src[c]
         /\ pc[c] \in {"recv", "lock", "js", "close", "join"} => src[c] # None

\* Before the first client there are no handlers.
LEMMA InitHandlers == Init => Handlers
  BY SocketAssumption DEF Init, Handlers, Threads

\* Closing descriptors drops the clients they stood for.
LEMMA CloseHandlers ==
  ASSUME IInv, Handlers, NEW F \in SUBSET Fds, Close(F), UNCHANGED <<fd, src>>,
         \A c \in Clients : pc'[c] \in {"js", "close", "join"} <=> pc[c] \in {"js", "close", "join"},
         \A c \in Clients : pc[c] \notin {"js", "close", "join"} => pc'[c] = pc[c]
  PROVE  Handlers'
<1> USE SocketAssumption
<1>1. \A f \in Fds : desc'[f] = desc[f] \/ desc[f] \in dropped'
  BY DEF Close, IInv, Types
<1>2. dropped \subseteq dropped'
  BY DEF Close
<1>3. ASSUME NEW c \in Clients
      PROVE  /\ pc'[c] = "off" => src[c] = None
             /\ pc'[c] # "off" => fd[c] \in Fds /\ (c \in dropped' \/ desc'[fd[c]] = c)
             /\ src[c] # None => src[c] \in dropped' \/ desc'[fd[c]] = src[c]
             /\ pc'[c] \in {"recv", "lock", "js", "close", "join"} => src[c] # None
  <2>1. pc'[c] = "off" <=> pc[c] = "off"
    OBVIOUS
  <2>2. pc[c] # "off" => fd[c] \in Fds /\ (c \in dropped' \/ desc'[fd[c]] = c)
    BY <1>1, <1>2 DEF Handlers
  <2>3. src[c] # None => src[c] \in dropped' \/ desc'[fd[c]] = src[c]
    BY <1>1, <1>2 DEF Handlers
  <2> QED
    BY <2>1, <2>2, <2>3 DEF Handlers
<1> QED
  BY <1>3 DEF Handlers

\* Every step keeps what the handlers' numbers stand for.
LEMMA NextHandlers == IInv /\ Handlers /\ [Next]_vars => Handlers'
<1> SUFFICES ASSUME IInv, Handlers, [Next]_vars PROVE Handlers'
  OBVIOUS
<1> USE SocketAssumption DEF Threads, Pcs, server, thread, Handed
<1>1. ASSUME NEW c \in Clients, Peer(c) PROVE Handlers'
  BY <1>1 DEF Peer, Connect, SendLine, Hangup, Handlers
<1>2. ASSUME NEW c \in Clients, Head_(c) PROVE Handlers'
  <2>1. fd[c] \in Fds /\ desc[fd[c]] \in Clients \cup {None} /\ UNCHANGED <<fd, desc, dropped>>
    BY <1>2 DEF Head_, Handlers, IInv, Types
  <2>2. CASE desc[fd[c]] # None /\ Goto(c, "recv") /\ src' = [src EXCEPT ![c] = desc[fd[c]]]
    <3>1. src' \in [Threads -> Clients \cup {None}] /\ src'[c] = desc[fd[c]] /\ pc'[c] = "recv"
      BY <2>1, <2>2 DEF Goto, Handlers, IInv, Types
    <3>2. \A d \in Clients : d # c => src'[d] = src[d] /\ pc'[d] = pc[d]
      BY <2>2 DEF Goto, Handlers, IInv, Types
    <3>3. c \in dropped \/ desc[fd[c]] = c
      BY <1>2 DEF Head_, Handlers
    <3> QED
      BY <2>1, <2>2, <3>1, <3>2, <3>3 DEF Handlers
  <2>3. CASE Goto(c, "exit") /\ UNCHANGED src
    BY <1>2, <2>1, <2>3 DEF Head_, Goto, Handlers, IInv, Types
  <2> QED
    BY <1>2, <2>2, <2>3 DEF Head_
<1>3. ASSUME NEW c \in Clients, Recv(c) PROVE Handlers'
  BY <1>3 DEF Recv, Goto, Handlers, IInv, Types
<1>4. ASSUME NEW t \in Threads, Lock(t) \/ Reply(t) \/ Join(t) PROVE Handlers'
  BY <1>4 DEF Lock, Reply, Join, Goto, Handlers, IInv, Types
<1>5. ASSUME NEW t \in Threads, CloseAll(t) PROVE Handlers'
  <2>1. Listed \in SUBSET Fds
    BY DEF Listed
  <2> QED
    BY <1>5, <2>1, CloseHandlers DEF CloseAll, Goto, IInv, Types
<1>6. ASSUME NEW t \in Threads, Broadcast(t) PROVE Handlers'
  <2>1. PICK F \in SUBSET Fds : Close(F)
    BY <1>6 DEF Broadcast, Listed
  <2> QED
    BY <1>6, <2>1, CloseHandlers DEF Broadcast
<1>7. ASSUME NEW t \in Threads, Start(t) \/ Stop(t) PROVE Handlers'
  BY <1>7 DEF Start, Stop, Calls, Goto, Handlers, IInv, Types
<1>8. CASE LoopHead
  BY <1>8 DEF LoopHead, Handlers
<1>9. CASE Accept
  <2>1. \A f \in Fds : desc[f] # None => desc'[f] = desc[f]
    BY <1>9 DEF Accept, IInv, Types
  <2>2. UNCHANGED <<pc, fd, src, dropped>>
    BY <1>9 DEF Accept
  <2>3. ASSUME NEW c \in Clients, pc[c] # "off", c \notin dropped PROVE desc'[fd[c]] = c
    BY <2>1, <2>3 DEF Handlers
  <2>4. ASSUME NEW c \in Clients, src[c] # None, src[c] \notin dropped
        PROVE  desc'[fd[c]] = src[c]
    BY <2>1, <2>4 DEF Handlers
  <2> QED
    BY <2>2, <2>3, <2>4 DEF Handlers
<1>10. CASE Admit
  BY <1>10 DEF Admit, Goto, Handlers, IInv, Types, Accepted
<1>11. CASE LocalScript
  BY <1>11 DEF LocalScript, Goto, Handlers, IInv, Types
<1>12. CASE UNCHANGED vars
  BY <1>12 DEF vars, Handlers
<1> QED
  BY <1>1, <1>2, <1>3, <1>4, <1>5, <1>6, <1>7, <1>8, <1>9, <1>10, <1>11, <1>12
     DEF Next, Handler, Script, Api, Loop

\* The only step that sends results is Reply, and it sends one to whatever the
\* handler's number stands for.
LEMMA NextReplies == IInv /\ Handlers /\ RepliesHome /\ [Next]_vars => RepliesHome'
<1> SUFFICES ASSUME IInv, Handlers, RepliesHome, [Next]_vars PROVE RepliesHome'
  OBVIOUS
<1>1. dropped \subseteq dropped'
  BY DEF Next, vars, server, Handler, Peer, Script, Api, Loop, Head_, Recv, Connect, SendLine,
         Hangup, Lock, Reply, CloseAll, Join, Broadcast, Start, Stop, Close, LoopHead, Accept,
         Admit, LocalScript
<1>2. ASSUME NEW t \in Threads, Reply(t) PROVE RepliesHome'
  <2>1. CASE t = Local
    BY <1>1, <1>2, <2>1 DEF Reply, RepliesHome
  <2>2. CASE t # Local
    <3>1. t \in Clients /\ src[t] # None
      BY <1>2, <2>2 DEF Threads, Reply, Handlers
    <3>2. \A r \in replies' : r \in replies \/ r = <<desc[fd[t]], src[t]>>
      BY <1>2, <2>2 DEF Reply, Recipients
    <3>3. desc[fd[t]] = src[t] \/ src[t] \in dropped
      BY <3>1 DEF Handlers
    <3> QED
      BY <1>1, <3>2, <3>3 DEF RepliesHome
  <2> QED
    BY <2>1, <2>2
<1>3. CASE UNCHANGED replies
  BY <1>1, <1>3 DEF RepliesHome
<1> QED
  BY <1>2, <1>3
     DEF Next, vars, Handler, Peer, Script, Api, Loop, Head_, Recv, Connect, SendLine,
         Hangup, Lock, CloseAll, Join, Broadcast, Start, Stop, LoopHead, Accept,
         Admit, LocalScript

\* A result goes to the client whose line was run, unless the server has closed
\* that client's descriptor, whatever numbers the kernel hands out again.
THEOREM SocketRepliesHome == Spec => []RepliesHome
<1>1. Init => RepliesHome
  BY DEF Init, RepliesHome
<1> QED
  BY <1>1, InitIInv, NextIInv, InitHandlers, NextHandlers, NextReplies, PTL DEF Spec

\* As long as the server has not closed a client's descriptor, handle_client
\* works on that client, and no other handler runs the client's lines.
THEOREM SocketOwnConnection == Spec => []OwnConnection
<1>1. IInv /\ Handlers => OwnConnection
  BY SocketAssumption DEF Handlers, OwnConnection
<1> QED
  BY <1>1, InitIInv, NextIInv, InitHandlers, NextHandlers, PTL DEF Spec
=============================================================================
