---------------------------- MODULE MCConversions ----------------------------
(* Every message of up to MaxLen symbols, parsed, and every sound of up to *)
(* MaxSize bytes, encoded and decoded: two sweeps in one run.              *)
EXTENDS MsgParser, Zip, TLC

CONSTANTS Symbols, MaxLen

\* A message is what fits in the buffer it is read into.
ASSUME MaxLenAssumption == MaxLen \in Nat /\ MaxLen <= BufferSize

MCNumber == ("1" :> 1) @@ ("-5" :> -5) @@ ("-6" :> -6)

VARIABLE message

MCInit == Init /\ message = <<>>

Grow == /\ plain = <<>> /\ pass = "Compress" /\ pc = "read"
        /\ Len(message) < MaxLen
        /\ \E s \in Symbols : message' = Append(message, s)
        /\ UNCHANGED vars

Convert == message = <<>> /\ Next /\ UNCHANGED message

MCSpec == MCInit /\ [][Grow \/ Convert]_<<vars, message>>

\* For every message the loop of ParseMsg that is not cut short takes for a
\* command exactly the messages that are one, by the lines they have, whatever
\* it reads outside the buffer.
ParsesWhatIsMeant ==
    \A stray \in Strays :
      LET p == Parse(message, stray)
      IN  ~p.tooMany /\ ~p.overrun => Verified(p.nodes) = Meant(message)

\* The parser gives up on exactly the messages that have too many lines or the
\* size that sends the loop back to the start; none of these is a command, nor
\* is one whose copy runs out of memory or that has a symbol read far outside
\* the buffer.
NothingValidIsCutShort ==
    \A stray \in Strays :
      LET p == Parse(message, stray)
      IN  /\ p.tooMany <=> GivesUp(message)
          /\ p.tooMany \/ p.overrun \/ p.astray => Meant(message) = TCP_CMD_NUM
=============================================================================
