---------------------------- MODULE SocketServer ----------------------------
(***************************************************************************)
(* The script server: server_loop accepts clients, one handle_client       *)
(* thread per client receives lines, runs each as a script under the       *)
(* JSScope lock and sends the result, and scripts start and stop the       *)
(* server or broadcast to its clients (SocketServer.start, stop, send).    *)
(*                                                                         *)
(* A connection is a client; what the program holds of it is a descriptor, *)
(* a number that the kernel hands out again once it is closed.  A handler  *)
(* works on its number, whatever connection that stands for by then.       *)
(***************************************************************************)
EXTENDS Common, Naturals, FiniteSets

CONSTANTS
    Clients,        \* connections, each made at most once
    Local,          \* a thread of the application that runs scripts
    Fds,            \* the descriptors the process may have open for clients
    MaxLines,       \* bound: lines a client sends
    MaxOps          \* bound: scripts of Local and SocketServer calls

ASSUME SocketAssumption ==
    /\ Fds \subseteq Nat /\ IsFiniteSet(Fds)
    /\ MaxLines \in Nat /\ MaxOps \in Nat
    /\ Local \notin Clients /\ None \notin Clients \cup {Local} \cup Fds

VARIABLES
    g_running,
    g_clients,      \* how often each descriptor is in the vector
    loop,           \* server_loop: "off", "check", "wait", "push" or "ended"
    accepted,       \* the descriptor server_loop has accepted and not listed
    desc,           \* the connection an open descriptor stands for, or None
    client,         \* "idle", "queued", "open" or "gone"
    lines,          \* lines in the connection, and lines still to be sent
    pc, fd, src,    \* a thread's place, its descriptor, whose line it runs
    scope,          \* the owner of the JSScope lock
    ops,            \* scripts and SocketServer calls that may still be made
    replies,        \* <<to, from>>: a result of from's script went to to
    dropped,        \* connections whose descriptor the server has closed
    terminated      \* std::terminate: a joinable std::thread was assigned to

vars == <<g_running, g_clients, loop, accepted, desc, client, lines, pc, fd, src,
          scope, ops, replies, dropped, terminated>>
server == <<g_running, g_clients, loop, accepted, desc, dropped, terminated>>
thread == <<pc, fd, src, scope>>

Threads == Clients \cup {Local}
Listed  == {f \in Fds : g_clients[f] > 0}

\* js_socket_server_start has run: the server listens.
Init ==
    /\ g_running = TRUE /\ g_clients = [f \in Fds |-> 0]
    /\ loop = "check" /\ accepted = None
    /\ desc = [f \in Fds |-> None]
    /\ client = [c \in Clients |-> "idle"]
    /\ lines = [c \in Clients |-> [in |-> 0, left |-> MaxLines]]
    /\ pc = [t \in Threads |-> "off"]
    /\ fd = [c \in Clients |-> None]
    /\ src = [t \in Threads |-> None]
    /\ scope = None /\ ops = MaxOps
    /\ replies = {} /\ dropped = {} /\ terminated = FALSE

Goto(t, l) == pc' = [pc EXCEPT ![t] = l]
-----------------------------------------------------------------------------
(* The other end of the connections *)

Connect(c) ==
    /\ client[c] = "idle" /\ loop \in {"check", "wait", "push"}
    /\ client' = [client EXCEPT ![c] = "queued"]
    /\ UNCHANGED <<server, lines, thread, ops, replies>>

SendLine(c) ==
    /\ client[c] \in {"queued", "open"} /\ lines[c].left > 0
    /\ lines' = [lines EXCEPT ![c] = [in |-> @.in + 1, left |-> @.left - 1]]
    /\ UNCHANGED <<server, client, thread, ops, replies>>

Hangup(c) ==
    /\ client[c] = "open"
    /\ client' = [client EXCEPT ![c] = "gone"]
    /\ UNCHANGED <<server, lines, thread, ops, replies>>
-----------------------------------------------------------------------------
(* server_loop *)

\* server_fd is closed, and with it the connections nobody accepted.
CloseServer ==
    /\ loop' = "ended"
    /\ client' = [c \in Clients |-> IF client[c] = "queued" THEN "gone" ELSE client[c]]

\* Mutation: the loop does not look at g_running.
Always == TRUE

Running == g_running

LoopHead ==
    /\ loop = "check"
    /\ IF Running THEN loop' = "wait" /\ UNCHANGED client ELSE CloseServer
    /\ UNCHANGED <<g_running, g_clients, accepted, desc, dropped, terminated,
                   lines, thread, ops, replies>>

\* accept fails when the process has no descriptor left, and the loop ends.
Accept ==
    /\ loop = "wait"
    /\ IF \A f \in Fds : desc[f] # None
         THEN CloseServer /\ UNCHANGED <<accepted, desc>>
         ELSE \E c \in Clients, f \in Fds :
                /\ client[c] = "queued"
                /\ desc[f] = None /\ \A g \in Fds : desc[g] = None => f <= g
                /\ client' = [client EXCEPT ![c] = "open"]
                /\ desc' = [desc EXCEPT ![f] = c]
                /\ accepted' = f /\ loop' = "push"
    /\ UNCHANGED <<g_running, g_clients, dropped, terminated, lines, thread, ops, replies>>

\* Mutation: handlers hold a reference to the loop's client_fd.
HandedByRef(c) == [d \in Clients |-> IF d = c \/ pc[d] = "head" THEN accepted ELSE fd[d]]

Handed(c) == [fd EXCEPT ![c] = accepted]

\* The descriptor is listed and its handler starts.
Admit ==
    /\ loop = "push"
    /\ g_clients' = [g_clients EXCEPT ![accepted] = @ + 1]
    /\ LET c == desc[accepted] IN
       Goto(c, "head") /\ fd' = Handed(c)
    /\ accepted' = None /\ loop' = "check"
    /\ UNCHANGED <<g_running, desc, dropped, terminated, client, lines, src, scope, ops,
                   replies>>
-----------------------------------------------------------------------------
(* handle_client *)

\* The loop test, then recv on whatever the descriptor now stands for.
Head_(c) ==
    /\ pc[c] = "head"
    /\ IF g_running /\ desc[fd[c]] # None
         THEN Goto(c, "recv") /\ src' = [src EXCEPT ![c] = desc[fd[c]]]
         ELSE Goto(c, "exit") /\ UNCHANGED src
    /\ UNCHANGED <<server, client, lines, fd, scope, ops, replies>>

\* A line arrives, or the connection ends and the thread returns: it neither
\* closes nor unlists its descriptor.
Recv(c) ==
    /\ pc[c] = "recv"
    /\ \/ /\ lines[src[c]].in > 0
          /\ lines' = [lines EXCEPT ![src[c]].in = @ - 1]
          /\ Goto(c, "lock")
       \/ /\ lines[src[c]].in = 0 /\ client[src[c]] = "gone"
          /\ Goto(c, "exit") /\ UNCHANGED lines
    /\ UNCHANGED <<server, client, fd, src, scope, ops, replies>>

\* nativeLoadScript on the application's own thread.
LocalScript ==
    /\ pc[Local] = "off" /\ ops > 0 /\ ops' = ops - 1
    /\ Goto(Local, "lock")
    /\ UNCHANGED <<server, client, lines, fd, src, scope, replies>>

Lock(t) ==
    /\ pc[t] = "lock" /\ scope = None
    /\ scope' = t /\ Goto(t, "js")
    /\ UNCHANGED <<server, client, lines, fd, src, ops, replies>>

\* Mutation: the result goes to all clients.
Everybody(t) == Listed

\* The descriptors the result is sent to.
Recipients(t) == {fd[t]}

\* Mutation: the lock is kept.
Kept == scope

Released == None

\* The script ends.  A handler sends the result to its descriptor before its
\* JSScope ends.
Reply(t) ==
    /\ pc[t] = "js"
    /\ scope' = Released
    /\ IF t = Local
         THEN Goto(t, "off") /\ UNCHANGED replies
         ELSE /\ Goto(t, "head")
              /\ replies' = replies \cup {<<desc[f], src[t]>> :
                                           f \in {g \in Recipients(t) : desc[g] # None}}
    /\ UNCHANGED <<server, client, lines, fd, src, ops>>
-----------------------------------------------------------------------------
(* SocketServer.send, start and stop, called from a script *)

Calls(t) == pc[t] = "js" /\ ops > 0 /\ ops' = ops - 1

\* Close the descriptors F.
Close(F) ==
    /\ dropped' = dropped \cup {desc[f] : f \in F}
    /\ desc' = [f \in Fds |-> IF f \in F THEN None ELSE desc[f]]

\* broadcast_to_clients: send may fail once the client is gone, and then the
\* descriptor is closed and unlisted.
Broadcast(t) ==
    /\ Calls(t)
    /\ \E F \in SUBSET {f \in Listed : client[desc[f]] = "gone"} :
         /\ Close(F)
         /\ g_clients' = [f \in Fds |-> IF f \in F THEN 0 ELSE g_clients[f]]
    /\ UNCHANGED <<g_running, loop, accepted, terminated, client, lines, thread, replies>>

\* Mutation: a running server is started again.
StartAnyway == TRUE

Stopped == ~g_running

Start(t) ==
    /\ Calls(t) /\ Stopped
    /\ g_running' = TRUE /\ loop' = "check"
    /\ terminated' = (terminated \/ loop # "off")
    /\ UNCHANGED <<g_clients, accepted, desc, dropped, client, lines, thread, replies>>

Stop(t) ==
    /\ Calls(t)
    /\ g_running' = FALSE /\ Goto(t, "close")
    /\ UNCHANGED <<g_clients, loop, accepted, desc, dropped, terminated, client, lines,
                   fd, src, scope, replies>>

\* Mutation: g_clients is not cleared.
Uncleared == g_clients

Cleared == [f \in Fds |-> 0]

\* Every listed client is closed, under g_clients_mutex.
CloseAll(t) ==
    /\ pc[t] = "close"
    /\ Close(Listed) /\ g_clients' = Cleared
    /\ Goto(t, "join")
    /\ UNCHANGED <<g_running, loop, accepted, terminated, client, lines, fd, src, scope,
                   ops, replies>>

\* The thread that stops the server waits for server_loop, holding JSScope.
Join(t) ==
    /\ pc[t] = "join" /\ loop \in {"off", "ended"}
    /\ loop' = "off" /\ Goto(t, "js")
    /\ UNCHANGED <<g_running, g_clients, accepted, desc, dropped, terminated, client,
                   lines, fd, src, scope, ops, replies>>
-----------------------------------------------------------------------------
Handler(c) == Head_(c) \/ Recv(c)
Script(t)  == Lock(t) \/ Reply(t) \/ CloseAll(t) \/ Join(t)
Runs(t)    == Script(t) \/ (t \in Clients /\ Handler(t))
Loop       == LoopHead \/ Accept \/ Admit
Api(t)     == Broadcast(t) \/ Start(t) \/ Stop(t)
Peer(c)    == Connect(c) \/ SendLine(c) \/ Hangup(c)

Next ==
    \/ \E c \in Clients : Handler(c) \/ Peer(c)
    \/ \E t \in Threads : Script(t) \/ Api(t)
    \/ Loop
    \/ LocalScript

Spec == Init /\ [][Next]_vars

\* Threads run, and scripts end and are not started for ever (MaxOps); nothing
\* is asked of the clients.
FairSpec ==
    /\ Spec
    /\ WF_vars(Loop)
    /\ \A t \in Threads : WF_vars(Runs(t))
-----------------------------------------------------------------------------
(* Properties *)

Pcs == {"off", "head", "recv", "exit", "lock", "js", "close", "join"}

\* close is never called on a number the server does not hold: a descriptor
\* in g_clients is open and listed once, however accepts, failing broadcasts
\* and stops interleave, so none of them closes another's descriptor.
ListedOpen ==
    \A f \in Listed : g_clients[f] = 1 /\ desc[f] # None

\* A result goes to the client whose line was run ("服务端返回" of the README's
\* protocol), except for a client whose descriptor a stop or a broadcast has
\* closed: only then can the handler's number stand for somebody else.
RepliesHome ==
    \A r \in replies : r[1] = r[2] \/ r[2] \in dropped

\* As long as the server has not closed a client's descriptor, the client's
\* handler holds that connection and no other handler runs its lines.
OwnConnection ==
    \A c \in Clients :
      pc[c] # "off" /\ c \notin dropped =>
        /\ desc[fd[c]] = c
        /\ \A d \in Clients : d # c /\ d \notin dropped /\ pc[d] # "off" => src[d] # c

\* start never assigns to a std::thread that is still joinable, which would
\* end the process: g_running is false only before the server is started or
\* once stop, which joins, has run under the same lock.
NeverTerminates == ~terminated

\* stop returns once there is a client to accept: the thread in join, which
\* keeps every other script waiting, is let go by the accept loop.
StopReturns ==
    \A t \in Threads :
      pc[t] = "join" /\ (\E c \in Clients : client[c] = "queued") ~> pc[t] # "join"

\* A line that was received is run: its handler gets the JSScope lock unless
\* a thread is held up in stop.
LinesRun ==
    \A c \in Clients :
      pc[c] = "lock" ~> (pc[c] # "lock" \/ \E t \in Threads : pc[t] = "join")
=============================================================================
