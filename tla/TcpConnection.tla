---------------------------- MODULE TcpConnection ----------------------------
(***************************************************************************)
(* The TCP classes (src/tcp_connection): one Server that answers one client *)
(* at a time, as main does with it, Clients that connect, send a message   *)
(* and read the reply, as tcp_connection_test.cpp does with them, and the  *)
(* kernel between them, which cuts messages, queues connections and resets *)
(* them.  A message is known by its client and its size.                   *)
(***************************************************************************)
EXTENDS Naturals, Sequences

CONSTANTS
    Clients,
    None,
    BufferSize, \* BUFFER_SIZE
    Backlog,    \* MAX_CONNECTIONS
    MaxSize     \* bound on the size of a message

ASSUME NoneAssumption   == None \notin Clients
ASSUME BoundsAssumption == /\ BufferSize \in Nat \ {0} /\ Backlog \in Nat
                           /\ MaxSize \in Nat

VARIABLES
    serverPc,     \* closed, or in the loop: accept, read, send
    listening,    \* conn_socket_fd_m of the server listens
    clientSocket, \* client_socket_fd_m: the client at its other end, or None
    buffer,       \* the bytes that were read: whose, how many, and whether others
                  \* follow them before a zero
    backlog,      \* connections that were not accepted yet
    link,         \* a connection: none, open, left (closed by the client), fin
                  \* (closed by the server), rst
    clientPc,     \* a client: idle, connected, sent, received
    sent,         \* the size of its message
    arrived,      \* how much of it the server's kernel has
    answer,       \* the reply on its way to it, named by the bytes it answers
    got           \* what its Receive returned, or None

serverVars == <<serverPc, listening, clientSocket, buffer>>
netVars    == <<backlog, link, arrived, answer>>
clientVars == <<clientPc, sent, got>>
vars == <<serverVars, netVars, clientVars>>

NoBytes == [of |-> None, size |-> 0, more |-> FALSE]

Init ==
    /\ serverPc = "closed" /\ listening = FALSE /\ clientSocket = None
    /\ buffer = NoBytes /\ backlog = <<>>
    /\ link = [c \in Clients |-> "none"]
    /\ clientPc = [c \in Clients |-> "idle"]
    /\ sent = [c \in Clients |-> 0] /\ arrived = [c \in Clients |-> 0]
    /\ answer = [c \in Clients |-> None] /\ got = [c \in Clients |-> None]

-----------------------------------------------------------------------------
(* The server.                                                             *)

\* Each of its calls may fail.
BindAndListen == listening' \in BOOLEAN

CloseSocket == clientSocket' = None

\* Server::Connect, and main goes on whatever it answers.
Connect ==
    /\ serverPc = "closed" /\ serverPc' = "accept"
    /\ BindAndListen
    /\ UNCHANGED <<clientSocket, buffer, netVars, clientVars>>

\* (Without a listening socket accept fails and the loop goes round.)
Accept ==
    /\ serverPc = "accept" /\ listening /\ backlog # <<>>
    /\ clientSocket' = Head(backlog) /\ backlog' = Tail(backlog)
    /\ serverPc' = "read"
    /\ UNCHANGED <<listening, buffer, link, arrived, answer, clientVars>>

\* Mutant: the buffer is not cleared before the read.
BytesReadOverOld(c, n) ==
    [of |-> c, size |-> n, more |-> n = BufferSize \/ buffer.size > n]

\* bzero and read: a full buffer has no zero at its end.
BytesRead(c, n) == [of |-> c, size |-> n, more |-> n = BufferSize]

\* Mutant: the read waits for a full buffer.
ReadWaitsForAll ==
    /\ serverPc = "read" /\ link[clientSocket] # "rst"
    /\ arrived[clientSocket] >= BufferSize \/ link[clientSocket] = "left"
    /\ \E n \in 0..BufferSize :
        /\ n <= arrived[clientSocket] /\ buffer' = BytesRead(clientSocket, n)
    /\ serverPc' = "send"
    /\ UNCHANGED <<listening, clientSocket, netVars, clientVars>>

\* ReceiveFromSocket: what has arrived, or nothing from a client that left.
Read ==
    /\ serverPc = "read" /\ link[clientSocket] # "rst"
    /\ LET n == arrived[clientSocket] IN
        /\ n > 0 \/ (link[clientSocket] = "left" /\ sent[clientSocket] = 0)
        /\ buffer' = BytesRead(clientSocket, IF n < BufferSize THEN n ELSE BufferSize)
    /\ serverPc' = "send"
    /\ UNCHANGED <<listening, clientSocket, netVars, clientVars>>

\* Mutant: the socket is not closed after a failed read.
ReadFailsOpen ==
    /\ serverPc = "read" /\ link[clientSocket] = "rst"
    /\ serverPc' = "accept"
    /\ UNCHANGED <<listening, clientSocket, buffer, netVars, clientVars>>

\* The connection was reset: Receive closes the socket.
ReadFails ==
    /\ serverPc = "read" /\ link[clientSocket] = "rst"
    /\ CloseSocket /\ serverPc' = "accept"
    /\ UNCHANGED <<listening, buffer, netVars, clientVars>>

\* An error when the connection was reset.
SendToSocket ==
    answer' = IF link[clientSocket] = "open"
              THEN [answer EXCEPT ![clientSocket] = buffer] ELSE answer

\* Mutant: Send leaves the socket open.
SendOpen ==
    /\ serverPc = "send" /\ serverPc' = "accept"
    /\ SendToSocket /\ CloseSocket
    /\ UNCHANGED <<listening, buffer, backlog, link, arrived, clientVars>>

\* Server::Send writes the reply to what is in the buffer, and closes: bytes that
\* were not read reset the connection.
Send ==
    /\ serverPc = "send" /\ SendToSocket
    /\ link' = [link EXCEPT ![clientSocket] =
                    IF @ # "open" THEN @
                    ELSE IF buffer.size < sent[clientSocket] THEN "rst" ELSE "fin"]
    /\ CloseSocket /\ serverPc' = "accept"
    /\ UNCHANGED <<listening, buffer, backlog, arrived, clientVars>>

\* The kernel resets the connections of a socket, or a process, that is closed.
Closes(queue) ==
    link' = [c \in Clients |->
                IF link[c] = "open" /\ \E i \in 1..Len(queue) : queue[i] = c
                THEN "rst" ELSE link[c]]

\* Server::Disconnect, between two clients.
Disconnect ==
    /\ serverPc = "accept"
    /\ serverPc' = "closed" /\ listening' = FALSE
    /\ Closes(backlog) /\ backlog' = <<>>
    /\ UNCHANGED <<clientSocket, buffer, arrived, answer, clientVars>>

\* The process ends while it serves a client; the watchdog starts a new one.
Die ==
    /\ clientSocket # None
    /\ serverPc' = "closed" /\ listening' = FALSE
    /\ clientSocket' = None /\ buffer' = NoBytes
    /\ Closes(Append(backlog, clientSocket)) /\ backlog' = <<>>
    /\ UNCHANGED <<arrived, answer, clientVars>>

-----------------------------------------------------------------------------
(* A client.                                                               *)

\* The server still has, or will get, a socket for the last connection of c.
Held(c) == c = clientSocket \/ \E i \in 1..Len(backlog) : backlog[i] = c

\* Client::Connect waits while the queue is full; where nobody listens it fails
\* and leaves no socket behind.  (A client that comes back while the server still
\* holds its last connection is one more client.)
ClientConnect(c) ==
    /\ clientPc[c] = "idle" /\ ~Held(c)
    /\ listening /\ Len(backlog) < Backlog
    /\ clientPc' = [clientPc EXCEPT ![c] = "connected"]
    /\ link' = [link EXCEPT ![c] = "open"]
    /\ backlog' = Append(backlog, c)
    /\ sent' = [sent EXCEPT ![c] = 0] /\ arrived' = [arrived EXCEPT ![c] = 0]
    /\ answer' = [answer EXCEPT ![c] = None] /\ got' = [got EXCEPT ![c] = None]
    /\ UNCHANGED serverVars

ClientSend(c) ==
    /\ clientPc[c] = "connected"
    /\ clientPc' = [clientPc EXCEPT ![c] = "sent"]
    /\ \E n \in 1..MaxSize :
        sent' = IF link[c] = "open" THEN [sent EXCEPT ![c] = n] ELSE sent
    /\ UNCHANGED <<serverVars, netVars, got>>

\* Client::Receive: the reply, or an error.
ClientReceive(c) ==
    /\ clientPc[c] = "sent"
    /\ \/ answer[c] # None /\ got' = [got EXCEPT ![c] = answer[c]]
       \/ link[c] = "rst" /\ UNCHANGED got
    /\ clientPc' = [clientPc EXCEPT ![c] = "received"]
    /\ UNCHANGED <<serverVars, netVars, sent>>

ClientDisconnect(c) ==
    /\ clientPc[c] # "idle"
    /\ clientPc' = [clientPc EXCEPT ![c] = "idle"]
    /\ link' = [link EXCEPT ![c] = IF @ = "open" THEN "left" ELSE @]
    /\ UNCHANGED <<serverVars, backlog, arrived, answer, sent, got>>

-----------------------------------------------------------------------------
(* The network.                                                            *)

\* A segment arrives.
Deliver(c) ==
    /\ link[c] \in {"open", "left"} /\ arrived[c] < sent[c]
    /\ \E n \in 1..MaxSize :
        /\ n > arrived[c] /\ n <= sent[c]
        /\ arrived' = [arrived EXCEPT ![c] = n]
    /\ UNCHANGED <<serverVars, backlog, link, answer, clientVars>>

\* A connection is reset.
ResetLink(c) ==
    /\ link[c] = "open" /\ link' = [link EXCEPT ![c] = "rst"]
    /\ UNCHANGED <<serverVars, backlog, arrived, answer, clientVars>>

-----------------------------------------------------------------------------
Serves == Accept \/ Read \/ ReadFails \/ Send

Client(c) == ClientConnect(c) \/ ClientSend(c) \/ ClientReceive(c)
               \/ ClientDisconnect(c)

Next == \/ Connect \/ Serves \/ Disconnect \/ Die
        \/ \E c \in Clients : Client(c) \/ Deliver(c) \/ ResetLink(c)

Spec == Init /\ [][Next]_vars

(* The server's loop goes on, segments arrive and a reply is read.  No      *)
(* client has to send, and none to leave.                                  *)
Fairness == /\ WF_vars(Serves)
            /\ \A c \in Clients : WF_vars(Deliver(c)) /\ WF_vars(ClientReceive(c))

FairSpec == Spec /\ Fairness

-----------------------------------------------------------------------------
ReplyType == [of : Clients \cup {None}, size : 0..BufferSize, more : BOOLEAN]

TypeOK ==
    /\ serverPc \in {"closed", "accept", "read", "send"}
    /\ listening \in BOOLEAN
    /\ clientSocket \in Clients \cup {None}
    /\ serverPc \in {"read", "send"} <=> clientSocket # None
    /\ buffer \in ReplyType
    /\ backlog \in Seq(Clients) /\ Len(backlog) <= Backlog
    /\ link \in [Clients -> {"none", "open", "left", "fin", "rst"}]
    /\ clientPc \in [Clients -> {"idle", "connected", "sent", "received"}]
    /\ sent \in [Clients -> 0..MaxSize] /\ arrived \in [Clients -> 0..MaxSize]
    /\ answer \in [Clients -> ReplyType \cup {None}]
    /\ got \in [Clients -> ReplyType \cup {None}]

\* A client gets the reply to its own message, read from its start, and nothing
\* of another one is taken for part of it, unless the message fills the buffer
\* (main takes strlen of what was read).
ReplyIsOwn ==
    \A c \in Clients : got[c] # None =>
        /\ got[c].of = c /\ got[c].size \in 1..sent[c]
        /\ got[c].more => sent[c] >= BufferSize

\* An open connection is one that the server is serving or will accept: no way
\* around its loop forgets one, and each is served once.
OpenIsHeld ==
    /\ \A c \in Clients : link[c] = "open" => Held(c)
    /\ \A i \in 1..Len(backlog) :
         /\ backlog[i] # clientSocket
         /\ \A j \in 1..Len(backlog) : backlog[i] = backlog[j] => i = j

\* The client that is served is connected and silent.
Silent == serverPc = "read" /\ clientPc[clientSocket] = "connected"
            /\ link[clientSocket] = "open"

\* A client that has sent its message gets a reply or an error, whoever else
\* connects, leaves, or resets, unless the server waits for a silent client for
\* ever.
Answered ==
    <>[]Silent \/ \A c \in Clients : clientPc[c] = "sent" ~> clientPc[c] # "sent"
=============================================================================
