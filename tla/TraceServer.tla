----------------------------- MODULE TraceServer -----------------------------
(***************************************************************************)
(* The servers that receive traces over TCP and traverse them, and the      *)
(* client programs that send a trace on several connections:                *)
(*   "threads"  generator/main_pthread.c: rounds of num_servers connections, *)
(*              one thread for each and a barrier on their done flags        *)
(*   "forked"   generator/main_memory.c: num_servers processes that accept   *)
(*              on one listening socket (tcpserver.c: a single one)          *)
(*   clients    generator/tcpclients.c (tcpclient.c: with one connection)    *)
(* A trace is a sequence of units; the kernel's socket calls are external.  *)
(***************************************************************************)
EXTENDS Integers, FiniteSets, SequencesExt

CONSTANTS
  num_servers,
  Kinds,          \* a subset of {"threads", "forked"}
  Loads,          \* num_clients of every client program, as sequences
  tracesize,      \* units in a trace
  PACKET_SIZE,    \* units sent and received by a call at most
  Buffer,         \* units a connection holds that have not been received
  MAX_CONN_REQ,   \* connections waiting to be accepted
  MaxFiles        \* connections the process, or each process, may have open

ASSUME ServerAssumption ==
  /\ {num_servers, tracesize, PACKET_SIZE, Buffer, MAX_CONN_REQ, MaxFiles} \subseteq Nat \ {0}
  /\ Kinds \subseteq {"threads", "forked"}
  /\ Loads \subseteq Seq(Nat \ {0})

Server == 0..num_servers-1
BAD_SOCKET == <<0, 0>>   \* what accept returns when it fails

VARIABLES
  kind, load,
  backlog, accepted,   \* connections to be accepted; those that were, and by whom
  inbox, eof,          \* by connection: what can be received; those closed by the client
  client,              \* by program: where it is, index, the connection and what it sent of the piece
  main, param,         \* main_pthread's main thread and the index of its loops (i)
  doing, socket_id, trace, index, done   \* by server: its thread or process

netVars == <<backlog, accepted, inbox, eof>>
threadVars == <<doing, socket_id, trace, index, done>>
serverVars == <<kind, load, netVars, client, main, param, threadVars>>

Program == DOMAIN load
Clients == UNION {DOMAIN l : l \in Loads}
Connections(p) == {<<p, k>> : k \in 0..load[p]-1}
Running(n) == doing[n] \in {"recv", "traverse"}

-----------------------------------------------------------------------------
ServerInit ==
  /\ kind \in Kinds /\ load \in Loads
  /\ backlog = <<>> /\ accepted = [c \in {} |-> 0]
  /\ inbox = [c \in UNION {Connections(p) : p \in Program} |-> <<>>] /\ eof = {}
  /\ client = [p \in Program |-> [pc |-> "connect", index |-> 0, k |-> 0, sent |-> 0]]
  /\ main = "accept" /\ param = 0
  /\ doing = [n \in Server |-> "idle"]
  /\ socket_id = [n \in Server |-> BAD_SOCKET]
  /\ trace = [n \in Server |-> <<>>] /\ index = [n \in Server |-> 0]
  /\ done = [n \in Server |-> FALSE]

-----------------------------------------------------------------------------
(* Clients *)
Connect(p) ==
  LET cl == client[p] IN
  /\ cl.pc = "connect"
  /\ Len(backlog) < MAX_CONN_REQ
  /\ backlog' = Append(backlog, <<p, cl.k>>)
  /\ client' = [client EXCEPT ![p] =
       IF cl.k + 1 = load[p] THEN [cl EXCEPT !.pc = "send", !.k = 0] ELSE [cl EXCEPT !.k = cl.k + 1]]
  /\ UNCHANGED <<accepted, inbox, eof>>

(* The peer of a connection is gone when its process has ended. *)
Peerless(c) ==
  \/ \E n \in Server : doing[n] = "stopped" /\ socket_id[n] = c
  \/ c \notin DOMAIN accepted /\ \A n \in Server : doing[n] = "stopped"

Piece(p) == LET rest == tracesize - client[p].index IN IF rest >= PACKET_SIZE THEN PACKET_SIZE ELSE rest

(* One more unit of a piece goes into the buffer of connection k; when it   *)
(* is the last one, send returns, and the piece is sent on the next         *)
(* connection; after the last connection the next piece is sent.            *)
Send(p) ==
  LET cl == client[p]
      c  == <<p, cl.k>>
      last == cl.sent + 1 = Piece(p)
      end == last /\ cl.k + 1 = load[p] /\ cl.index + Piece(p) = tracesize
  IN /\ cl.pc = "send" /\ ~Peerless(c)
     /\ Len(inbox[c]) < Buffer
     /\ inbox' = [inbox EXCEPT ![c] = Append(@, cl.index + cl.sent + 1)]
     /\ client' = [client EXCEPT ![p] =
          IF end THEN [cl EXCEPT !.pc = "closed", !.index = tracesize]
          ELSE IF ~last THEN [cl EXCEPT !.sent = cl.sent + 1]
          ELSE IF cl.k + 1 < load[p] THEN [cl EXCEPT !.sent = 0, !.k = cl.k + 1]
          ELSE [cl EXCEPT !.sent = 0, !.k = 0, !.index = cl.index + Piece(p)]]
     /\ eof' = IF end THEN eof \cup Connections(p) ELSE eof
     /\ UNCHANGED <<backlog, accepted>>

(* A client that is killed, by a signal or by sending without a peer:       *)
(* its connections are closed.                                              *)
Killed(p) ==
  /\ client[p].pc \in {"connect", "send"}
  /\ client' = [client EXCEPT ![p].pc = "killed"]
  /\ eof' = eof \cup Connections(p)
  /\ UNCHANGED <<backlog, accepted, inbox>>

ClientStep(p) ==
  /\ Connect(p) \/ Send(p) \/ (client[p].pc = "send" /\ Peerless(<<p, client[p].k>>) /\ Killed(p))
  /\ UNCHANGED <<kind, load, main, param, threadVars>>

Crash(p) == Killed(p) /\ UNCHANGED <<kind, load, main, param, threadVars>>

-----------------------------------------------------------------------------
(* Connections are never closed by a server; accept fails when a process    *)
(* has no file left, whether or not a connection is waiting.                *)
NoFile(n) ==
  Cardinality({c \in DOMAIN accepted : kind = "threads" \/ accepted[c] = n}) >= MaxFiles

accept(n) ==
  IF NoFile(n)
  THEN socket_id' = [socket_id EXCEPT ![n] = BAD_SOCKET] /\ UNCHANGED <<backlog, accepted>>
  ELSE /\ backlog # <<>>
       /\ socket_id' = [socket_id EXCEPT ![n] = Head(backlog)]
       /\ accepted' = [c \in DOMAIN accepted \cup {Head(backlog)} |->
                         IF c = Head(backlog) THEN n ELSE accepted[c]]
       /\ backlog' = Tail(backlog)

(* Mutant: every call of recv fills the array from its start. *)
Recv_FromStart(n) ==
  /\ doing[n] = "recv" /\ socket_id[n] # BAD_SOCKET
  /\ LET c == socket_id[n] IN
       \E bytes_received \in 1..Len(inbox[c]) :
         /\ bytes_received <= PACKET_SIZE
         /\ trace' = [trace EXCEPT ![n] = SubSeq(inbox[c], 1, bytes_received)]
         /\ index' = [index EXCEPT ![n] = bytes_received]
         /\ inbox' = [inbox EXCEPT ![c] = SubSeq(@, bytes_received + 1, Len(@))]
  /\ UNCHANGED <<backlog, accepted, doing, socket_id, done>>

(* recv returns any part of what has arrived, which is appended *)
Recv(n) ==
  /\ doing[n] = "recv" /\ socket_id[n] # BAD_SOCKET
  /\ LET c == socket_id[n] IN
       \E bytes_received \in 1..Len(inbox[c]) :
         /\ bytes_received <= PACKET_SIZE
         /\ trace' = [trace EXCEPT ![n] = SubSeq(@, 1, index[n]) \o SubSeq(inbox[c], 1, bytes_received)]
         /\ index' = [index EXCEPT ![n] = @ + bytes_received]
         /\ inbox' = [inbox EXCEPT ![c] = SubSeq(@, bytes_received + 1, Len(@))]
  /\ UNCHANGED <<backlog, accepted, doing, socket_id, done>>

(* recv returns -1 for a bad socket, again and again; the index, which goes *)
(* down each time, is cut at MinIndex.                                     *)
MinIndex == -2

RecvFails(n) ==
  /\ doing[n] = "recv" /\ socket_id[n] = BAD_SOCKET
  /\ index[n] > MinIndex
  /\ index' = [index EXCEPT ![n] = @ - 1]
  /\ UNCHANGED <<netVars, doing, socket_id, trace, done>>

EndOfTrace(n) ==
  /\ doing[n] = "recv" /\ socket_id[n] # BAD_SOCKET
  /\ inbox[socket_id[n]] = <<>> /\ socket_id[n] \in eof
  /\ doing' = [doing EXCEPT ![n] = "traverse"]
  /\ UNCHANGED <<netVars, socket_id, trace, index, done>>

(* Mutant: the main thread's own trace leaves its flag alone. *)
Traversed_CreatedOnly(n) ==
  IF kind = "threads"
  THEN doing' = [doing EXCEPT ![n] = "idle"] /\ done' = [done EXCEPT ![n] = n # 0]
  ELSE doing' = [doing EXCEPT ![n] = "idle"] /\ UNCHANGED done

(* A thread sets its flag and ends (thread 0 returns to load_servers), a    *)
(* process accepts again.                                                   *)
Traversed(n) ==
  IF kind = "threads"
  THEN doing' = [doing EXCEPT ![n] = "idle"] /\ done' = [done EXCEPT ![n] = TRUE]
  ELSE doing' = [doing EXCEPT ![n] = "idle"] /\ UNCHANGED done

Traverse(n) ==
  /\ doing[n] = "traverse"
  /\ Traversed(n)
  /\ UNCHANGED <<netVars, socket_id, trace, index>>

(* The traversal takes its packets from the capture file, and ends the      *)
(* process with the capture.                                                *)
Exit(n) ==
  /\ doing[n] = "traverse"
  /\ doing' = [m \in Server |-> IF kind = "threads" \/ m = n THEN "stopped" ELSE doing[m]]
  /\ UNCHANGED <<netVars, socket_id, trace, index, done>>

Receive(n) == doing' = [doing EXCEPT ![n] = "recv"] /\ trace' = [trace EXCEPT ![n] = <<>>] /\ index' = [index EXCEPT ![n] = 0]

ServerStep(n) ==
  /\ Recv(n) \/ RecvFails(n) \/ EndOfTrace(n) \/ Traverse(n) \/ Exit(n)
  /\ UNCHANGED <<kind, load, eof, client, main, param>>

-----------------------------------------------------------------------------
(* main_pthread's main thread: a connection for every thread, then the      *)
(* threads 1.. are created and trace 0 is processed by itself.              *)
AcceptAll ==
  /\ main = "accept" /\ param < num_servers
  /\ accept(param)
  /\ param' = param + 1
  /\ UNCHANGED <<main, inbox, eof, doing, trace, index, done>>

AllAccepted ==
  /\ main = "accept" /\ param = num_servers
  /\ main' = "create" /\ param' = 1
  /\ UNCHANGED <<netVars, threadVars>>

Create ==
  /\ main = "create" /\ param < num_servers
  /\ Receive(param)
  /\ param' = param + 1
  /\ UNCHANGED <<main, netVars, socket_id, done>>

ProcessOwn ==
  /\ main = "create" /\ param = num_servers
  /\ Receive(0)
  /\ main' = "wait" /\ param' = 0
  /\ UNCHANGED <<netVars, socket_id, done>>

(* The flags are read one by one, from the start after one that is not set. *)
ReadFlag ==
  /\ main = "wait" /\ ~Running(0) /\ param < num_servers
  /\ param' = IF done[param] THEN param + 1 ELSE 0
  /\ UNCHANGED <<main, netVars, threadVars>>

(* Mutant: the flags stay set. *)
NextRound_FlagsKept ==
  /\ main = "wait" /\ param = num_servers
  /\ main' = "accept" /\ param' = 0
  /\ UNCHANGED <<netVars, threadVars>>

NextRound ==
  /\ main = "wait" /\ param = num_servers
  /\ done' = [n \in Server |-> FALSE]
  /\ main' = "accept" /\ param' = 0
  /\ UNCHANGED <<netVars, doing, socket_id, trace, index>>

Main ==
  /\ kind = "threads" /\ doing[0] # "stopped"
  /\ AcceptAll \/ AllAccepted \/ Create \/ ProcessOwn \/ ReadFlag \/ NextRound
  /\ UNCHANGED <<kind, load, client>>

(* main_memory's processes accept for themselves. *)
AcceptNext(n) ==
  /\ kind = "forked" /\ doing[n] = "idle"
  /\ accept(n) /\ Receive(n)
  /\ UNCHANGED <<kind, load, inbox, eof, client, main, param, done>>

ServerNext ==
  \/ Main
  \/ \E n \in Server : ServerStep(n) \/ AcceptNext(n)
  \/ \E p \in Program : ClientStep(p) \/ Crash(p)

ServerFairness ==
  /\ WF_serverVars(Main)
  /\ \A n \in Server : WF_serverVars(ServerStep(n)) /\ WF_serverVars(AcceptNext(n))
  /\ \A p \in Clients : WF_serverVars(p \in Program /\ ClientStep(p))

ServerSpec == ServerInit /\ [][ServerNext]_serverVars /\ ServerFairness

-----------------------------------------------------------------------------
(* What a thread or process has received is what the client has sent on its *)
(* connection, from the start and in order, however it was cut into calls;  *)
(* what it traverses is all of it, unless the client was killed.            *)
HandsOverWhatWasSent ==
  \A n \in Server : Running(n) /\ socket_id[n] # BAD_SOCKET =>
    /\ SubSeq(trace[n], 1, index[n]) = [k \in 1..index[n] |-> k]
    /\ doing[n] = "traverse" /\ client[socket_id[n][1]].pc # "killed" => index[n] = tracesize

(* Rounds do not mix: while connections are accepted for a round no thread  *)
(* of the one before uses its parameters, and no two threads receive from   *)
(* one connection.                                                          *)
RoundsDoNotMix ==
  /\ kind = "threads" /\ main = "accept" => \A n \in Server : ~Running(n)
  /\ \A m, n \in Server :
       Running(m) /\ Running(n) /\ socket_id[m] = socket_id[n] => m = n \/ socket_id[m] = BAD_SOCKET

(* A client sends to all of its connections in turn.  It is split when one  *)
(* of them is being received while another has not been accepted.           *)
Split ==
  \E n \in Server : doing[n] = "recv" /\ socket_id[n] # BAD_SOCKET /\
                    ~(Connections(socket_id[n][1]) \subseteq DOMAIN accepted)

OutOfFiles == \E n \in Server : Running(n) /\ socket_id[n] = BAD_SOCKET

(* Everything that is received comes to an end, and with it the round, as   *)
(* long as no accept has failed: the only way to get stuck is a client that *)
(* stays split.                                                             *)
RoundsEnd ==
  []<>~Split /\ []~OutOfFiles =>
    /\ \A n \in Server : doing[n] = "recv" ~> doing[n] # "recv"
    /\ main = "wait" ~> main = "accept" \/ doing[0] = "stopped"
=============================================================================
