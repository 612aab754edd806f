------------------------------ MODULE MsgParser ------------------------------
(***************************************************************************)
(* The message parser (src/communication/msg_parser).  A message is a      *)
(* sequence of symbols, each standing for one or more characters: "NL" and *)
(* "CR" are the line ends, every other symbol is a word.  A node is the    *)
(* sequence of the symbols between two line ends.  A size, and the buffer   *)
(* the message is read into, are counted in symbols.                       *)
(***************************************************************************)
EXTENDS Integers, Sequences, FiniteSets

CONSTANTS
    Number,     \* what atoi makes of a word: [word -> Int], 0 elsewhere
    BufferSize  \* of cmdMsg, zero behind the message

\* A line end is no number.
ASSUME NumberAssumption ==
    /\ \A w \in DOMAIN Number : Number[w] \in Int
    /\ "NL" \notin DOMAIN Number
    /\ BufferSize \in Nat

MSG_MAX_NODES == 5

\* msg_commands and msg_commands_nodes.
NodesOf == [ TCP_SET_TIME |-> 3, TCP_PLAY |-> 4, TCP_STOP |-> 2,
             TCP_SET_CFG |-> 4, TCP_GET_CFG |-> 2, TCP_SET_VOLUME |-> 3,
             TCP_RESET |-> 2, TCP_STATUS |-> 2 ]
TcpCommands == DOMAIN NodesOf
TCP_CMD_NUM == "TCP_CMD_NUM"

Atoi(node) == IF node # <<>> /\ node[1] \in DOMAIN Number THEN Number[node[1]]
                                                         ELSE 0

\* GetMsgStrAt, counting from 0 as the code does.
NodeAt(nodes, i) == IF i < Len(nodes) THEN nodes[i + 1] ELSE <<>>

\* Where the loop of ParseMsg is: the next symbol, the nodes so far, the node
\* being read, whether it returned TOO_MANY_NODES, whether the copy of a
\* configuration ran out of memory, and whether it read one symbol far outside
\* the buffer, which the process may not survive.
Begin == [at |-> 1, nodes |-> <<>>, node |-> <<>>, tooMany |-> FALSE,
          overrun |-> FALSE, astray |-> FALSE]

\* What a read outside the buffer can find, as far as it matters.
Strays == {"NL", "?"}

\* *(msg + i - 1), when what is outside the buffer is stray.
SymbolAt(m, i, stray) ==
    IF i \in 1..Len(m)           THEN m[i]
    ELSE IF i \in 1..BufferSize  THEN "NUL"
    ELSE stray

\* Mutant: a carriage return of a configuration is kept.
WordKept(c) == c

Word(c) == IF c = "CR" THEN "NL" ELSE c

\* Mutant: the position is not taken modulo 2^w, a negative size ends the loop.
ConfigStreamNoWrap(m, s) ==
    LET size   == Atoi(s.nodes[2])
        offset == s.at - 1
        fits   == size >= 0 /\ size + offset < Len(m)
        stream == [i \in 1..size |-> Word(m[offset + i])]
    IN  [s EXCEPT !.nodes   = Append(@, IF fits THEN stream ELSE <<>>),
                  !.node    = <<>>,
                  !.at      = IF size >= 0 THEN @ + size ELSE Len(m) + 1,
                  !.overrun = size < 0 /\ size + offset >= 0]

\* GetConfigStream: size symbols from the current one, "" if that many are not
\* there; the loop goes on behind them, there or not.  A negative size wraps
\* around in size_t.  One that reaches back into the message wraps twice: it
\* passes the check and the copy leaves the memory.  Any other leaves the
\* position before the buffer; position 0 is SIZE_MAX, from which the loop's
\* ++ leads to the start of the message.
ConfigStream(m, s) ==
    LET size   == Atoi(s.nodes[2])
        offset == s.at - 1
        fits   == size >= 0 /\ size + offset < Len(m)
        stream == [i \in 1..size |-> Word(m[offset + i])]
    IN  [s EXCEPT !.nodes   = Append(@, IF fits THEN stream ELSE <<>>),
                  !.node    = <<>>,
                  !.at      = @ + size,
                  !.overrun = size < 0 /\ size + offset >= 0,
                  !.astray  = size + s.at \notin 0..BufferSize]

AtConfig(s) == Len(s.nodes) = 2 /\ s.nodes[1] = <<"TCP_SET_CFG">>

\* The symbol at s.at ends the node or is added to it.
ReadSymbol(m, s, stray) ==
    LET c == SymbolAt(m, s.at, stray) IN
    IF c = "NL"
    THEN [s EXCEPT !.nodes = Append(@, s.node), !.node = <<>>, !.at = @ + 1]
    ELSE [s EXCEPT !.node = Append(@, c), !.at = @ + 1]

\* The loop has ended, returned, or taken the process with it.
Over(m, s) == s.at \notin 1..Len(m) \/ s.tooMany \/ s.overrun

\* Mutant: the number of nodes is not bounded.
ParseRoundUnbounded(m, s, stray) ==
    IF Over(m, s) THEN s
    ELSE ReadSymbol(m, IF AtConfig(s) THEN ConfigStream(m, s) ELSE s, stray)

\* One round of the loop of ParseMsg.
ParseRound(m, s, stray) ==
    IF Over(m, s) THEN s
    ELSE IF Len(s.nodes) >= MSG_MAX_NODES THEN [s EXCEPT !.tooMany = TRUE]
    ELSE ReadSymbol(m, IF AtConfig(s) THEN ConfigStream(m, s) ELSE s, stray)

\* The loop reads a message twice at most.
Parse(m, stray) ==
    LET after[k \in 0..2 * Len(m)] ==
            IF k = 0 THEN Begin ELSE ParseRound(m, after[k - 1], stray)
    IN  after[2 * Len(m)]

\* Mutant: the number of nodes is not compared.
VerifiedAnyCount(nodes) ==
    IF nodes # <<>> /\ nodes[Len(nodes)] = <<"END">>
         /\ \E c \in TcpCommands : nodes[1] = <<c>>
    THEN nodes[1][1]
    ELSE TCP_CMD_NUM

\* VerifyAndGetMsgCommand: the first node is a command, the last one END, and
\* the command has that many nodes.
Verified(nodes) ==
    IF /\ nodes # <<>>
       /\ nodes[Len(nodes)] = <<"END">>
       /\ \E c \in TcpCommands : nodes[1] = <<c>> /\ Len(nodes) = NodesOf[c]
    THEN nodes[1][1]
    ELSE TCP_CMD_NUM

\* command_m after ParseMsg: TOO_MANY_NODES returns before it is set.
CommandAfter(p, before) == IF p.tooMany THEN before ELSE Verified(p.nodes)

-----------------------------------------------------------------------------
(* The protocol, as a reference for the parser: what the lines of a message *)
(* say, whatever the loop above does.                                      *)

LineEnds(m) == {i \in 1..Len(m) : m[i] = "NL"}

\* m is a command other than TCP_SET_CFG: its first line names it, it has as
\* many lines as the command needs, and the last of them is END.  Text after
\* the last line end is no line.
IsCommand(m, c) ==
    /\ c \in TcpCommands \ {"TCP_SET_CFG"}
    /\ Cardinality(LineEnds(m)) = NodesOf[c]
    /\ m[1] = c /\ m[2] = "NL"
    /\ \E i \in LineEnds(m) :
         /\ i > 2 /\ m[i - 1] = "END" /\ m[i - 2] = "NL"
         /\ \A j \in LineEnds(m) : j <= i

\* m is TCP_SET_CFG, a line that gives a size (an unreadable one is 0), that
\* many symbols, whatever they are, and END.
IsSetCfg(m) ==
    /\ Len(m) > 2 /\ m[1] = "TCP_SET_CFG" /\ m[2] = "NL"
    /\ \E e \in LineEnds(m) :
         LET size == Atoi(SubSeq(m, 3, e - 1))
             last == e + size + 2
         IN  /\ e > 2 /\ \A j \in LineEnds(m) : j <= 2 \/ j >= e
             /\ size >= 0 /\ last <= Len(m)
             /\ m[last - 1] = "END" /\ m[last] = "NL"
             /\ \A j \in LineEnds(m) : j <= last

\* Where the second line of a TCP_SET_CFG ends that more follows on.
SizeLineEnd(m) ==
    {e \in LineEnds(m) : /\ m[1] = "TCP_SET_CFG" /\ m[2] = "NL"
                         /\ e > 2 /\ e < Len(m)
                         /\ \A j \in LineEnds(m) : j <= 2 \/ j >= e}

\* The parser gives up on m, TOO_MANY_NODES: more follows on its fifth line, a
\* configuration counting as one whatever is in it; or its size is the one that
\* sends the loop back to the start.
GivesUp(m) ==
    \/ \E e \in SizeLineEnd(m) :
         LET size == Atoi(SubSeq(m, 3, e - 1)) IN
           \/ size = -(e + 1)
           \/ /\ size >= 0
              /\ \E i, j \in LineEnds(m) : e + size < i /\ i < j /\ j < Len(m)
    \/ /\ SizeLineEnd(m) = {}
       /\ Cardinality(LineEnds(m) \ {Len(m)}) >= MSG_MAX_NODES

\* The command m is, or none.
Meant(m) ==
    IF m # <<>> /\ IsSetCfg(m) THEN "TCP_SET_CFG"
    ELSE IF \E c \in TcpCommands : IsCommand(m, c) THEN m[1]
    ELSE TCP_CMD_NUM
=============================================================================
