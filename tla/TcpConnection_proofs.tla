------------------------ MODULE TcpConnection_proofs ------------------------
(***************************************************************************)
(* Proofs about TcpConnection for any clients, buffer, queue and message   *)
(* sizes: types, that no open connection is forgotten, and that a client   *)
(* gets the reply to its own message.                                      *)
(***************************************************************************)
EXTENDS TcpConnection, SequenceTheorems, TLAPS

-----------------------------------------------------------------------------
(* What a queue of clients holds.                                          *)

InQueue(c, q) == \E i \in 1..Len(q) : q[i] = c

Distinct(q) == \A i, j \in 1..Len(q) : q[i] = q[j] => i = j

LEMMA TakeFirst ==
    ASSUME NEW q \in Seq(Clients), q # <<>>, Distinct(q)
    PROVE  /\ Head(q) \in Clients /\ Tail(q) \in Seq(Clients)
           /\ Len(Tail(q)) = Len(q) - 1
           /\ ~InQueue(Head(q), Tail(q)) /\ Distinct(Tail(q))
           /\ \A c : InQueue(c, q) <=> c = Head(q) \/ InQueue(c, Tail(q))
<1>1. /\ Head(q) \in Clients /\ Tail(q) \in Seq(Clients)
      /\ Len(Tail(q)) = Len(q) - 1 /\ Len(q) \in Nat \ {0}
      /\ Head(q) = q[1] /\ \A i \in 1..Len(Tail(q)) : Tail(q)[i] = q[i + 1]
  BY HeadTailProperties, LenProperties, EmptySeq
<1>2. \A i \in 1..Len(Tail(q)) : i + 1 \in 1..Len(q) /\ i + 1 # 1
  BY <1>1
<1>3. ~InQueue(Head(q), Tail(q))
  <2>1. 1 \in 1..Len(q)  BY <1>1
  <2>2. SUFFICES ASSUME NEW i \in 1..Len(Tail(q)), Tail(q)[i] = Head(q) PROVE FALSE
    BY DEF InQueue
  <2>3. q[i + 1] = q[1]  BY <1>1, <2>2
  <2> QED BY <1>2, <2>1, <2>3 DEF Distinct
<1>4. Distinct(Tail(q))
  <2>1. SUFFICES ASSUME NEW i \in 1..Len(Tail(q)), NEW j \in 1..Len(Tail(q)),
                        Tail(q)[i] = Tail(q)[j]  PROVE i = j
    BY DEF Distinct
  <2>2. q[i + 1] = q[j + 1]  BY <1>1, <2>1
  <2>3. i + 1 = j + 1  BY <1>2, <2>2 DEF Distinct
  <2> QED BY <1>1, <2>3
<1>5. ASSUME NEW c PROVE InQueue(c, q) <=> c = Head(q) \/ InQueue(c, Tail(q))
  <2>1. ASSUME InQueue(c, q) PROVE c = Head(q) \/ InQueue(c, Tail(q))
    <3>1. PICK i \in 1..Len(q) : q[i] = c  BY <2>1 DEF InQueue
    <3>2. CASE i = 1  BY <1>1, <3>1, <3>2
    <3>3. CASE i # 1
      <4>1. i - 1 \in 1..Len(Tail(q)) /\ (i - 1) + 1 = i  BY <1>1, <3>3
      <4>2. Tail(q)[i - 1] = c  BY <1>1, <3>1, <4>1
      <4> QED BY <4>1, <4>2 DEF InQueue
    <3> QED BY <3>2, <3>3
  <2>2. ASSUME c = Head(q) PROVE InQueue(c, q)
    <3>1. 1 \in 1..Len(q)  BY <1>1
    <3> QED BY <1>1, <2>2, <3>1 DEF InQueue
  <2>3. ASSUME InQueue(c, Tail(q)) PROVE InQueue(c, q)
    BY <1>1, <1>2, <2>3 DEF InQueue
  <2> QED BY <2>1, <2>2, <2>3
<1> QED BY <1>1, <1>3, <1>4, <1>5

LEMMA AppendOne ==
    ASSUME NEW q \in Seq(Clients), NEW d \in Clients
    PROVE  /\ Append(q, d) \in Seq(Clients) /\ Len(Append(q, d)) = Len(q) + 1
           /\ \A c : InQueue(c, Append(q, d)) <=> c = d \/ InQueue(c, q)
           /\ Distinct(q) /\ ~InQueue(d, q) => Distinct(Append(q, d))
<1>1. /\ Append(q, d) \in Seq(Clients) /\ Len(q) \in Nat
      /\ Len(Append(q, d)) = Len(q) + 1
      /\ \A i \in 1..Len(q) : Append(q, d)[i] = q[i]
      /\ Append(q, d)[Len(q) + 1] = d
  BY AppendProperties, LenProperties
<1>2. 1..(Len(q) + 1) = 1..Len(q) \cup {Len(q) + 1} /\ Len(q) + 1 \notin 1..Len(q)
  BY <1>1
<1>3. \A c : InQueue(c, Append(q, d)) <=> c = d \/ InQueue(c, q)
  BY <1>1, <1>2 DEF InQueue
<1>4. Distinct(q) /\ ~InQueue(d, q) => Distinct(Append(q, d))
  BY <1>1, <1>2 DEF InQueue, Distinct
<1> QED BY <1>1, <1>3, <1>4

LEMMA NoQueue == <<>> \in Seq(Clients) /\ Len(<<>>) = 0
                   /\ Distinct(<<>>) /\ \A c : ~InQueue(c, <<>>)
  BY EmptySeq DEF InQueue, Distinct

-----------------------------------------------------------------------------
(* Types.                                                                  *)

QueueOK == backlog \in Seq(Clients) /\ Len(backlog) <= Backlog

ServerOK ==
    /\ serverPc \in {"closed", "accept", "read", "send"}
    /\ listening \in BOOLEAN
    /\ clientSocket \in Clients \cup {None}
    /\ serverPc \in {"read", "send"} <=> clientSocket # None
    /\ buffer \in ReplyType

NetOK ==
    /\ link \in [Clients -> {"none", "open", "left", "fin", "rst"}]
    /\ arrived \in [Clients -> 0..MaxSize]
    /\ answer \in [Clients -> ReplyType \cup {None}]

ClientsOK ==
    /\ clientPc \in [Clients -> {"idle", "connected", "sent", "received"}]
    /\ sent \in [Clients -> 0..MaxSize]
    /\ got \in [Clients -> ReplyType \cup {None}]

LEMMA TypeParts == TypeOK <=> QueueOK /\ ServerOK /\ NetOK /\ ClientsOK
  BY DEF TypeOK, QueueOK, ServerOK, NetOK, ClientsOK

\* An open connection is in the queue or being served, once.
OpenHeld  == \A c \in Clients : link[c] = "open" => c = clientSocket \/ InQueue(c, backlog)
HeldOnce  == Distinct(backlog) /\ ~InQueue(clientSocket, backlog)

LEMMA HeldParts == TypeOK => (OpenIsHeld <=> OpenHeld /\ HeldOnce)
<1>1. OpenHeld <=> \A c \in Clients : link[c] = "open" => Held(c)
  BY DEF OpenHeld, Held, InQueue
<1>2. HeldOnce <=> \A i \in 1..Len(backlog) :
                     /\ backlog[i] # clientSocket
                     /\ \A j \in 1..Len(backlog) : backlog[i] = backlog[j] => i = j
  BY DEF HeldOnce, InQueue, Distinct
<1> QED BY <1>1, <1>2 DEF OpenIsHeld

\* What a reply says of the message it answers.
Own(r, c) == r.of = c /\ r.size \in 1..sent[c] /\ (r.more => sent[c] >= BufferSize)

\* The reply in the buffer, on its way and received are of the bytes sent.
Arrives  == \A c \in Clients : arrived[c] <= sent[c]
Unsent   == \A c \in Clients : clientPc[c] = "connected" =>
                sent[c] = 0 /\ got[c] = None /\ answer[c] = None
InBuffer == serverPc = "send" =>
                /\ buffer.of = clientSocket /\ buffer.size <= arrived[clientSocket]
                /\ buffer.more => sent[clientSocket] >= BufferSize
                /\ link[clientSocket] = "open" => buffer.size > 0
OnItsWay == \A c \in Clients : answer[c] # None => Own(answer[c], c)
Received == \A c \in Clients : got[c] # None => Own(got[c], c)

\* The inductive invariant.
IInv == /\ QueueOK /\ ServerOK /\ NetOK /\ ClientsOK
        /\ OpenHeld /\ HeldOnce
        /\ Arrives /\ Unsent /\ InBuffer /\ OnItsWay /\ Received


LEMMA TypeStep ==
    ASSUME IInv, [Next]_vars  PROVE ServerOK' /\ NetOK' /\ ClientsOK'
<1> USE NoneAssumption, BoundsAssumption

<1>1. CASE Connect
  BY <1>1
  DEF Connect, BindAndListen, IInv, ServerOK, NetOK, ClientsOK, ReplyType, netVars,
      clientVars
<1>2. CASE Accept
  BY <1>2, TakeFirst
  DEF Accept, IInv, QueueOK, HeldOnce, ServerOK, NetOK, ClientsOK, ReplyType,
      NoBytes, BytesRead, Closes, vars, serverVars, netVars, clientVars
<1>3. CASE Read
  BY <1>3
  DEF Read, IInv, ServerOK, NetOK, ClientsOK, ReplyType, BytesRead, netVars,
      clientVars
<1>4. CASE ReadFails
  BY <1>4
  DEF ReadFails, CloseSocket, IInv, ServerOK, NetOK, ClientsOK, ReplyType, netVars,
      clientVars
<1>5. CASE Send
  BY <1>5 DEF Send, SendToSocket, CloseSocket, IInv, ServerOK, NetOK, ClientsOK, ReplyType, clientVars
<1>6. CASE Disconnect
  BY <1>6
  DEF Disconnect, IInv, ServerOK, NetOK, ClientsOK, ReplyType, Closes,
      clientVars
<1>7. CASE Die
  <2>1. link' \in [Clients -> {"none", "open", "left", "fin", "rst"}]
    BY <1>7 DEF IInv, NetOK, Die, Closes
  <2>2. NoBytes \in ReplyType  BY DEF ReplyType, NoBytes
  <2>3. serverPc' = "closed" /\ listening' = FALSE /\ clientSocket' = None /\ buffer' = NoBytes
    BY <1>7 DEF Die
  <2>4. ServerOK'  BY <2>2, <2>3 DEF ServerOK
  <2>5. ClientsOK'  BY <1>7 DEF IInv, ClientsOK, Die, clientVars
  <2> QED BY <1>7, <2>1, <2>4, <2>5 DEF IInv, NetOK, Die
<1>8. ASSUME NEW c \in Clients, ClientConnect(c) PROVE ServerOK' /\ NetOK' /\ ClientsOK'
  BY <1>8
  DEF ClientConnect, IInv, ServerOK, NetOK, ClientsOK, ReplyType, serverVars
<1>9. ASSUME NEW c \in Clients, ClientSend(c) PROVE ServerOK' /\ NetOK' /\ ClientsOK'
  BY <1>9
  DEF ClientSend, IInv, ServerOK, NetOK, ClientsOK, ReplyType, serverVars,
      netVars
<1>10. ASSUME NEW c \in Clients, ClientReceive(c) PROVE ServerOK' /\ NetOK' /\ ClientsOK'
  BY <1>10
  DEF ClientReceive, IInv, ServerOK, NetOK, ClientsOK, ReplyType, serverVars,
      netVars
<1>11. ASSUME NEW c \in Clients, ClientDisconnect(c) PROVE ServerOK' /\ NetOK' /\ ClientsOK'
  BY <1>11
  DEF ClientDisconnect, IInv, ServerOK, NetOK, ClientsOK, ReplyType,
      serverVars
<1>12. ASSUME NEW c \in Clients, Deliver(c) PROVE ServerOK' /\ NetOK' /\ ClientsOK'
  BY <1>12
  DEF Deliver, IInv, ServerOK, NetOK, ClientsOK, ReplyType, serverVars,
      clientVars
<1>13. ASSUME NEW c \in Clients, ResetLink(c) PROVE ServerOK' /\ NetOK' /\ ClientsOK'
  BY <1>13
  DEF ResetLink, IInv, ServerOK, NetOK, ClientsOK, ReplyType, serverVars,
      clientVars
<1>14. CASE UNCHANGED vars
  BY <1>14
  DEF vars, serverVars, netVars, clientVars, IInv, ServerOK, NetOK, ClientsOK,
      ReplyType
<1> QED BY <1>1, <1>2, <1>3, <1>4, <1>5, <1>6, <1>7, <1>8, <1>9, <1>10,
      <1>11, <1>12, <1>13, <1>14 DEF Next, Serves, Client

LEMMA QueueStep ==
    ASSUME IInv, [Next]_vars  PROVE QueueOK' /\ HeldOnce'
<1> USE NoneAssumption, BoundsAssumption

<1>1. CASE Connect
  BY <1>1
  DEF Connect, BindAndListen, IInv, QueueOK, HeldOnce, InQueue, Distinct, netVars, clientVars
<1>2. CASE Accept
  BY <1>2, TakeFirst DEF Accept, IInv, QueueOK, ServerOK, HeldOnce
<1>3. CASE Read
  BY <1>3
  DEF Read, IInv, QueueOK, HeldOnce, InQueue, Distinct, netVars, clientVars
<1>4. CASE ReadFails
  BY <1>4
  DEF ReadFails, CloseSocket, IInv, QueueOK, HeldOnce, InQueue, Distinct, netVars,
      clientVars
<1>5. CASE Send
  BY <1>5 DEF Send, SendToSocket, CloseSocket, IInv, QueueOK, HeldOnce, InQueue, Distinct, clientVars
<1>6. CASE Disconnect
  BY <1>6, NoQueue DEF Disconnect, IInv, QueueOK, HeldOnce
<1>7. CASE Die
  BY <1>7, NoQueue DEF Die, IInv, QueueOK, HeldOnce
<1>8. ASSUME NEW c \in Clients, ClientConnect(c) PROVE QueueOK' /\ HeldOnce'
  BY <1>8, AppendOne
  DEF ClientConnect, IInv, QueueOK, HeldOnce, Held, InQueue, Distinct,
      serverVars
<1>9. ASSUME NEW c \in Clients, ClientSend(c) PROVE QueueOK' /\ HeldOnce'
  BY <1>9
  DEF ClientSend, IInv, QueueOK, HeldOnce, InQueue, Distinct, serverVars,
      netVars
<1>10. ASSUME NEW c \in Clients, ClientReceive(c) PROVE QueueOK' /\ HeldOnce'
  BY <1>10
  DEF ClientReceive, IInv, QueueOK, HeldOnce, InQueue, Distinct, serverVars,
      netVars
<1>11. ASSUME NEW c \in Clients, ClientDisconnect(c) PROVE QueueOK' /\ HeldOnce'
  BY <1>11
  DEF ClientDisconnect, IInv, QueueOK, HeldOnce, InQueue, Distinct, serverVars
<1>12. ASSUME NEW c \in Clients, Deliver(c) PROVE QueueOK' /\ HeldOnce'
  BY <1>12
  DEF Deliver, IInv, QueueOK, HeldOnce, InQueue, Distinct, serverVars,
      clientVars
<1>13. ASSUME NEW c \in Clients, ResetLink(c) PROVE QueueOK' /\ HeldOnce'
  BY <1>13
  DEF ResetLink, IInv, QueueOK, HeldOnce, InQueue, Distinct, serverVars,
      clientVars
<1>14. CASE UNCHANGED vars
  BY <1>14
  DEF vars, serverVars, netVars, clientVars, IInv, QueueOK, HeldOnce, InQueue,
      Distinct
<1> QED BY <1>1, <1>2, <1>3, <1>4, <1>5, <1>6, <1>7, <1>8, <1>9, <1>10,
      <1>11, <1>12, <1>13, <1>14 DEF Next, Serves, Client

LEMMA OpenStep ==
    ASSUME IInv, [Next]_vars  PROVE OpenHeld'
<1> USE NoneAssumption, BoundsAssumption

<1>1. CASE Connect
  BY <1>1 DEF Connect, BindAndListen, IInv, OpenHeld, netVars, clientVars
<1>2. CASE Accept
  BY <1>2, TakeFirst DEF Accept, IInv, QueueOK, HeldOnce, ServerOK, OpenHeld
<1>3. CASE Read
  BY <1>3 DEF Read, IInv, OpenHeld, netVars, clientVars
<1>4. CASE ReadFails
  BY <1>4 DEF ReadFails, CloseSocket, IInv, OpenHeld, netVars, clientVars
<1>5. CASE Send
  BY <1>5
  DEF Send, SendToSocket, CloseSocket, IInv, ServerOK, NetOK, OpenHeld, vars, serverVars, netVars,
      clientVars
<1>6. CASE Disconnect
  BY <1>6, NoQueue DEF Disconnect, IInv, ServerOK, OpenHeld, Closes, InQueue
<1>7. CASE Die
  <2>1. SUFFICES ASSUME NEW c \in Clients, link'[c] = "open" PROVE FALSE
    BY DEF OpenHeld
  <2>2. clientSocket \in Clients /\ backlog \in Seq(Clients)
    BY <1>7 DEF IInv, ServerOK, QueueOK, Die
  <2>3. link[c] = "open" /\ ~InQueue(c, Append(backlog, clientSocket))
    BY <1>7, <2>1 DEF Die, Closes, InQueue
  <2>4. c # clientSocket /\ ~InQueue(c, backlog)
    BY <2>2, <2>3, AppendOne
  <2> QED BY <2>3, <2>4 DEF IInv, OpenHeld
<1>8. ASSUME NEW c \in Clients, ClientConnect(c) PROVE OpenHeld'
  BY <1>8, AppendOne
  DEF ClientConnect, IInv, QueueOK, NetOK, OpenHeld, vars, serverVars,
      netVars, clientVars
<1>9. ASSUME NEW c \in Clients, ClientSend(c) PROVE OpenHeld'
  BY <1>9 DEF ClientSend, IInv, OpenHeld, serverVars, netVars
<1>10. ASSUME NEW c \in Clients, ClientReceive(c) PROVE OpenHeld'
  BY <1>10 DEF ClientReceive, IInv, OpenHeld, serverVars, netVars
<1>11. ASSUME NEW c \in Clients, ClientDisconnect(c) PROVE OpenHeld'
  BY <1>11 DEF ClientDisconnect, IInv, OpenHeld, serverVars
<1>12. ASSUME NEW c \in Clients, Deliver(c) PROVE OpenHeld'
  BY <1>12 DEF Deliver, IInv, OpenHeld, serverVars, clientVars
<1>13. ASSUME NEW c \in Clients, ResetLink(c) PROVE OpenHeld'
  BY <1>13 DEF ResetLink, IInv, OpenHeld, serverVars, clientVars
<1>14. CASE UNCHANGED vars
  BY <1>14 DEF vars, serverVars, netVars, clientVars, IInv, OpenHeld
<1> QED BY <1>1, <1>2, <1>3, <1>4, <1>5, <1>6, <1>7, <1>8, <1>9, <1>10,
      <1>11, <1>12, <1>13, <1>14 DEF Next, Serves, Client

LEMMA SentStep ==
    ASSUME IInv, [Next]_vars  PROVE Arrives' /\ Unsent'
<1> USE NoneAssumption, BoundsAssumption

<1>1. CASE Connect
  BY <1>1 DEF Connect, BindAndListen, IInv, Arrives, Unsent, netVars, clientVars
<1>2. CASE Accept
  BY <1>2 DEF Accept, IInv, Arrives, Unsent, clientVars
<1>3. CASE Read
  BY <1>3 DEF Read, IInv, Arrives, Unsent, netVars, clientVars
<1>4. CASE ReadFails
  BY <1>4 DEF ReadFails, CloseSocket, IInv, Arrives, Unsent, netVars, clientVars
<1>5. CASE Send
  BY <1>5
  DEF Send, SendToSocket, CloseSocket, IInv, ServerOK, NetOK, ClientsOK, Arrives, Unsent, InBuffer,
      ReplyType, vars, serverVars, netVars, clientVars
<1>6. CASE Disconnect
  BY <1>6 DEF Disconnect, IInv, Arrives, Unsent, clientVars
<1>7. CASE Die
  BY <1>7 DEF Die, IInv, Arrives, Unsent, clientVars
<1>8. ASSUME NEW c \in Clients, ClientConnect(c) PROVE Arrives' /\ Unsent'
  BY <1>8
  DEF ClientConnect, IInv, ServerOK, NetOK, ClientsOK, Arrives, Unsent,
      InBuffer, ReplyType, vars, serverVars, netVars, clientVars
<1>9. ASSUME NEW c \in Clients, ClientSend(c) PROVE Arrives' /\ Unsent'
  BY <1>9
  DEF ClientSend, IInv, ServerOK, NetOK, ClientsOK, Arrives, Unsent, InBuffer,
      ReplyType, vars, serverVars, netVars, clientVars
<1>10. ASSUME NEW c \in Clients, ClientReceive(c) PROVE Arrives' /\ Unsent'
  BY <1>10
  DEF ClientReceive, IInv, ServerOK, NetOK, ClientsOK, Arrives, Unsent,
      InBuffer, ReplyType, vars, serverVars, netVars, clientVars
<1>11. ASSUME NEW c \in Clients, ClientDisconnect(c) PROVE Arrives' /\ Unsent'
  BY <1>11 DEF ClientDisconnect, IInv, Arrives, Unsent, serverVars
<1>12. ASSUME NEW c \in Clients, Deliver(c) PROVE Arrives' /\ Unsent'
  BY <1>12 DEF Deliver, IInv, Arrives, Unsent, serverVars, clientVars
<1>13. ASSUME NEW c \in Clients, ResetLink(c) PROVE Arrives' /\ Unsent'
  BY <1>13 DEF ResetLink, IInv, Arrives, Unsent, serverVars, clientVars
<1>14. CASE UNCHANGED vars
  BY <1>14 DEF vars, serverVars, netVars, clientVars, IInv, Arrives, Unsent
<1> QED BY <1>1, <1>2, <1>3, <1>4, <1>5, <1>6, <1>7, <1>8, <1>9, <1>10,
      <1>11, <1>12, <1>13, <1>14 DEF Next, Serves, Client

LEMMA BufferStep ==
    ASSUME IInv, [Next]_vars  PROVE InBuffer'
<1> USE NoneAssumption, BoundsAssumption

<1>1. CASE Connect
  BY <1>1 DEF Connect, BindAndListen, IInv, InBuffer, netVars, clientVars
<1>2. CASE Accept
  BY <1>2 DEF Accept, IInv, InBuffer, clientVars
<1>3. CASE Read
  <2>1. PICK n \in 0..BufferSize :
           /\ buffer' = [of |-> clientSocket, size |-> n, more |-> n = BufferSize]
           /\ n <= arrived[clientSocket]
           /\ n > 0 \/ link[clientSocket] = "left"
    <3> DEFINE m == arrived[clientSocket]
    <3>1. clientSocket \in Clients /\ m \in Nat
      BY <1>3 DEF Read, IInv, ServerOK, NetOK
    <3>2. CASE m < BufferSize  BY <1>3, <3>1, <3>2 DEF Read, BytesRead
    <3>3. CASE ~(m < BufferSize)  BY <1>3, <3>1, <3>3 DEF Read, BytesRead
    <3> QED BY <3>2, <3>3
  <2>2. /\ clientSocket \in Clients /\ arrived[clientSocket] \in Nat
        /\ sent[clientSocket] \in Nat /\ arrived[clientSocket] <= sent[clientSocket]
    BY <1>3 DEF Read, IInv, ServerOK, NetOK, ClientsOK, Arrives
  <2>3. n = BufferSize => sent[clientSocket] >= BufferSize
    BY <2>1, <2>2
  <2>4. buffer'.of = clientSocket /\ buffer'.size = n /\ (buffer'.more <=> n = BufferSize)
    BY <2>1
  <2>5. UNCHANGED <<clientSocket, sent, arrived, link>>
    BY <1>3 DEF Read, netVars, clientVars
  <2> QED BY <2>1, <2>3, <2>4, <2>5 DEF InBuffer
<1>4. CASE ReadFails
  BY <1>4 DEF ReadFails, CloseSocket, IInv, InBuffer, netVars, clientVars
<1>5. CASE Send
  BY <1>5 DEF Send, SendToSocket, CloseSocket, IInv, InBuffer, clientVars
<1>6. CASE Disconnect
  BY <1>6 DEF Disconnect, IInv, InBuffer, clientVars
<1>7. CASE Die
  BY <1>7 DEF Die, IInv, InBuffer, clientVars
<1>8. ASSUME NEW c \in Clients, ClientConnect(c) PROVE InBuffer'
  BY <1>8 DEF ClientConnect, IInv, InBuffer, Held, serverVars
<1>9. ASSUME NEW c \in Clients, ClientSend(c) PROVE InBuffer'
  BY <1>9
  DEF ClientSend, IInv, ServerOK, NetOK, ClientsOK, Arrives, Unsent, InBuffer,
      ReplyType, BytesRead, Held, vars, serverVars, netVars, clientVars
<1>10. ASSUME NEW c \in Clients, ClientReceive(c) PROVE InBuffer'
  BY <1>10 DEF ClientReceive, IInv, InBuffer, serverVars, netVars
<1>11. ASSUME NEW c \in Clients, ClientDisconnect(c) PROVE InBuffer'
  BY <1>11 DEF ClientDisconnect, IInv, InBuffer, serverVars
<1>12. ASSUME NEW c \in Clients, Deliver(c) PROVE InBuffer'
  BY <1>12
  DEF Deliver, IInv, ServerOK, NetOK, ClientsOK, Arrives, Unsent, InBuffer,
      ReplyType, BytesRead, Held, vars, serverVars, netVars, clientVars
<1>13. ASSUME NEW c \in Clients, ResetLink(c) PROVE InBuffer'
  BY <1>13 DEF ResetLink, IInv, InBuffer, serverVars, clientVars
<1>14. CASE UNCHANGED vars
  BY <1>14 DEF vars, serverVars, netVars, clientVars, IInv, InBuffer
<1> QED BY <1>1, <1>2, <1>3, <1>4, <1>5, <1>6, <1>7, <1>8, <1>9, <1>10,
      <1>11, <1>12, <1>13, <1>14 DEF Next, Serves, Client

LEMMA WayStep ==
    ASSUME IInv, [Next]_vars  PROVE OnItsWay'
<1> USE NoneAssumption, BoundsAssumption

<1>1. CASE Connect
  BY <1>1 DEF Connect, BindAndListen, IInv, OnItsWay, Own, netVars, clientVars
<1>2. CASE Accept
  BY <1>2 DEF Accept, IInv, OnItsWay, Own, clientVars
<1>3. CASE Read
  BY <1>3 DEF Read, IInv, OnItsWay, Own, netVars, clientVars
<1>4. CASE ReadFails
  BY <1>4 DEF ReadFails, CloseSocket, IInv, OnItsWay, Own, netVars, clientVars
<1>5. CASE Send
  BY <1>5
  DEF Send, SendToSocket, CloseSocket, IInv, ServerOK, NetOK, ClientsOK, Arrives, Unsent, InBuffer,
      OnItsWay, Own, ReplyType, vars, serverVars, netVars, clientVars
<1>6. CASE Disconnect
  BY <1>6 DEF Disconnect, IInv, OnItsWay, Own, clientVars
<1>7. CASE Die
  BY <1>7 DEF Die, IInv, OnItsWay, Own, clientVars
<1>8. ASSUME NEW c \in Clients, ClientConnect(c) PROVE OnItsWay'
  BY <1>8
  DEF ClientConnect, IInv, ServerOK, NetOK, ClientsOK, Arrives, Unsent,
      InBuffer, OnItsWay, Own, ReplyType, vars, serverVars, netVars,
      clientVars
<1>9. ASSUME NEW c \in Clients, ClientSend(c) PROVE OnItsWay'
  BY <1>9
  DEF ClientSend, IInv, ServerOK, NetOK, ClientsOK, Arrives, Unsent, InBuffer,
      OnItsWay, Own, ReplyType, vars, serverVars, netVars, clientVars
<1>10. ASSUME NEW c \in Clients, ClientReceive(c) PROVE OnItsWay'
  BY <1>10 DEF ClientReceive, IInv, OnItsWay, Own, serverVars, netVars
<1>11. ASSUME NEW c \in Clients, ClientDisconnect(c) PROVE OnItsWay'
  BY <1>11 DEF ClientDisconnect, IInv, OnItsWay, Own, serverVars
<1>12. ASSUME NEW c \in Clients, Deliver(c) PROVE OnItsWay'
  BY <1>12 DEF Deliver, IInv, OnItsWay, Own, serverVars, clientVars
<1>13. ASSUME NEW c \in Clients, ResetLink(c) PROVE OnItsWay'
  BY <1>13 DEF ResetLink, IInv, OnItsWay, Own, serverVars, clientVars
<1>14. CASE UNCHANGED vars
  BY <1>14 DEF vars, serverVars, netVars, clientVars, IInv, OnItsWay, Own
<1> QED BY <1>1, <1>2, <1>3, <1>4, <1>5, <1>6, <1>7, <1>8, <1>9, <1>10,
      <1>11, <1>12, <1>13, <1>14 DEF Next, Serves, Client

LEMMA GotStep ==
    ASSUME IInv, [Next]_vars  PROVE Received'
<1> USE NoneAssumption, BoundsAssumption

<1>1. CASE Connect
  BY <1>1 DEF Connect, BindAndListen, IInv, Received, Own, netVars, clientVars
<1>2. CASE Accept
  BY <1>2 DEF Accept, IInv, Received, Own, clientVars
<1>3. CASE Read
  BY <1>3 DEF Read, IInv, Received, Own, netVars, clientVars
<1>4. CASE ReadFails
  BY <1>4 DEF ReadFails, CloseSocket, IInv, Received, Own, netVars, clientVars
<1>5. CASE Send
  BY <1>5 DEF Send, SendToSocket, CloseSocket, IInv, Received, Own, clientVars
<1>6. CASE Disconnect
  BY <1>6 DEF Disconnect, IInv, Received, Own, clientVars
<1>7. CASE Die
  BY <1>7 DEF Die, IInv, Received, Own, clientVars
<1>8. ASSUME NEW c \in Clients, ClientConnect(c) PROVE Received'
  BY <1>8
  DEF ClientConnect, IInv, ServerOK, NetOK, ClientsOK, Unsent, OnItsWay,
      Received, Own, ReplyType, vars, serverVars, netVars, clientVars
<1>9. ASSUME NEW c \in Clients, ClientSend(c) PROVE Received'
  BY <1>9
  DEF ClientSend, IInv, ServerOK, NetOK, ClientsOK, Unsent, OnItsWay,
      Received, Own, ReplyType, vars, serverVars, netVars, clientVars
<1>10. ASSUME NEW c \in Clients, ClientReceive(c) PROVE Received'
  BY <1>10
  DEF ClientReceive, IInv, ServerOK, NetOK, ClientsOK, Unsent, OnItsWay,
      Received, Own, ReplyType, vars, serverVars, netVars, clientVars
<1>11. ASSUME NEW c \in Clients, ClientDisconnect(c) PROVE Received'
  BY <1>11 DEF ClientDisconnect, IInv, Received, Own, serverVars
<1>12. ASSUME NEW c \in Clients, Deliver(c) PROVE Received'
  BY <1>12 DEF Deliver, IInv, Received, Own, serverVars, clientVars
<1>13. ASSUME NEW c \in Clients, ResetLink(c) PROVE Received'
  BY <1>13 DEF ResetLink, IInv, Received, Own, serverVars, clientVars
<1>14. CASE UNCHANGED vars
  BY <1>14 DEF vars, serverVars, netVars, clientVars, IInv, Received, Own
<1> QED BY <1>1, <1>2, <1>3, <1>4, <1>5, <1>6, <1>7, <1>8, <1>9, <1>10,
      <1>11, <1>12, <1>13, <1>14 DEF Next, Serves, Client

LEMMA Start == Init => IInv
<1> SUFFICES ASSUME Init PROVE IInv  OBVIOUS
<1> USE NoneAssumption, BoundsAssumption
<1>1. QueueOK /\ HeldOnce
  <2>1. backlog = <<>>  BY DEF Init
  <2>2. QueueOK  BY <2>1, NoQueue DEF QueueOK
  <2>3. HeldOnce  BY <2>1, NoQueue, Zenon DEF HeldOnce
  <2> QED BY <2>2, <2>3
<1>2. ServerOK
  <2>1. NoBytes \in ReplyType  BY DEF ReplyType, NoBytes
  <2>2. serverPc = "closed" /\ listening = FALSE /\ clientSocket = None /\ buffer = NoBytes
    BY DEF Init
  <2> QED BY <2>1, <2>2 DEF ServerOK
<1>3. NetOK /\ ClientsOK  BY DEF Init, NetOK, ClientsOK
<1>4. OpenHeld /\ Arrives /\ Unsent /\ InBuffer
  BY DEF Init, OpenHeld, Arrives, Unsent, InBuffer
<1>5. OnItsWay /\ Received  BY DEF Init, OnItsWay, Received
<1> QED BY <1>1, <1>2, <1>3, <1>4, <1>5 DEF IInv

-----------------------------------------------------------------------------

\* The strengthened invariant of the TCP server and its clients is inductive.
THEOREM Inductive == Spec => []IInv
<1>1. IInv /\ [Next]_vars => IInv'
  BY TypeStep, QueueStep, OpenStep, SentStep, BufferStep, WayStep, GotStep DEF IInv
<1> QED BY Start, <1>1, PTL DEF Spec

\* The variables keep their types, and the server has a client's socket exactly
\* while it reads from it or answers it.
THEOREM TypeCorrect == Spec => []TypeOK
<1>1. IInv => TypeOK  BY TypeParts DEF IInv
<1> QED BY Inductive, <1>1, PTL

\* No way around the server's loop forgets an open connection or serves one twice.
THEOREM NoneForgotten == Spec => []OpenIsHeld
<1>1. IInv => OpenIsHeld  BY TypeParts, HeldParts DEF IInv
<1> QED BY Inductive, <1>1, PTL

\* What a client receives answers bytes of its own message, from the first on.
THEOREM OwnReplies == Spec => []ReplyIsOwn
<1>1. IInv => ReplyIsOwn  BY DEF IInv, Received, Own, ReplyIsOwn
<1> QED BY Inductive, <1>1, PTL
=============================================================================
