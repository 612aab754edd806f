------------------------- MODULE MCConversions_proofs -------------------------
(***************************************************************************)
(* The block loop reverses the pairs, and twice is the identity, for every *)
(* even block size and every file; and the parser takes every message, of  *)
(* any length, for the command it is.                                      *)
(***************************************************************************)
EXTENDS MCConversions, MsgParser_proofs

-----------------------------------------------------------------------------
(* The sounds.                                                             *)

\* The bytes of a block that is read: all, but the odd byte of the file.
Written == IF read % 2 = 1 THEN read - 1 ELSE read

\* What has been written are the pairs that were read, reversed.
Progress ==
    /\ read \in 0..Len(source)
    /\ read % 2 = 0 \/ read = Len(source)
    /\ dest = [i \in 1..Written |-> source[Partner(i)]]
    /\ odd = IF read % 2 = 1 THEN <<source[read]>> ELSE <<>>

IInv ==
    /\ plain \in Seq(Bytes)
    /\ pass \in {"Compress", "Uncompress"}
    /\ pc \in {"read", "done"}
    /\ source = IF pass = "Compress" THEN plain ELSE Mirror(plain)
    /\ pc = "read" => Progress
    /\ PairsReversed

LEMMA EvenSum ==
    ASSUME NEW a \in Nat, NEW b \in Nat, a % 2 = 0
    PROVE  (a + b) % 2 = b % 2
  OBVIOUS

LEMMA Joined ==
    ASSUME NEW m \in Nat, NEW n \in Nat,
           NEW f \in [1..m -> Bytes], NEW g \in [1..n -> Bytes]
    PROVE  f \o g = [i \in 1..(m + n) |-> IF i <= m THEN f[i] ELSE g[i - m]]
<1>1. f \in Seq(Bytes) /\ g \in Seq(Bytes) /\ Len(f) = m /\ Len(g) = n
  OBVIOUS
<1>2. /\ f \o g \in Seq(Bytes) /\ Len(f \o g) = m + n
      /\ \A i \in 1..(m + n) :
            (f \o g)[i] = IF i <= m THEN f[i] ELSE g[i - m]
  BY <1>1, ConcatProperties
<1>3. f \o g = [i \in 1..(m + n) |-> (f \o g)[i]]
  BY <1>2, LenProperties
<1> QED BY <1>2, <1>3

LEMMA PartnerRange ==
    ASSUME NEW n \in Nat, NEW i \in 1..n, ~(i = n /\ i % 2 = 1)
    PROVE  /\ Partner(i) \in 1..n /\ Partner(Partner(i)) = i
           /\ ~(Partner(i) = n /\ Partner(i) % 2 = 1)
  BY DEF Partner

LEMMA PartnerShift ==
    ASSUME NEW r \in Nat, r % 2 = 0, NEW i \in Nat, i > 0
    PROVE  r + Partner(i) = Partner(r + i)
  BY DEF Partner

LEMMA MirrorType ==
    ASSUME NEW s \in Seq(Bytes)
    PROVE  Mirror(s) \in Seq(Bytes) /\ Len(Mirror(s)) = Len(s)
<1>1. Len(s) \in Nat /\ \A i \in 1..Len(s) : s[i] \in Bytes
  BY LenProperties
<1>2. \A i \in 1..Len(s) : Mirror(s)[i] \in Bytes
  BY <1>1, PartnerRange DEF Mirror
<1>3. Mirror(s) \in [1..Len(s) -> Bytes]
  BY <1>2 DEF Mirror
<1> QED BY <1>1, <1>3, LenProperties

\* To reverse the pairs twice changes nothing.
LEMMA MirrorInvolution ==
    ASSUME NEW s \in Seq(Bytes)
    PROVE  Mirror(Mirror(s)) = s
<1> DEFINE m == Mirror(s)
<1>1. Len(s) \in Nat /\ s = [i \in 1..Len(s) |-> s[i]]
  BY LenProperties
<1>2. Len(m) = Len(s)
  BY MirrorType
<1>3. ASSUME NEW i \in 1..Len(s) PROVE Mirror(m)[i] = s[i]
  <2>1. CASE i = Len(s) /\ i % 2 = 1
    BY <2>1, <1>1, <1>2 DEF Mirror
  <2>2. CASE ~(i = Len(s) /\ i % 2 = 1)
    <3>1. /\ Partner(i) \in 1..Len(s) /\ Partner(Partner(i)) = i
          /\ ~(Partner(i) = Len(s) /\ Partner(i) % 2 = 1)
      BY <2>2, <1>1, PartnerRange
    <3>2. m[Partner(i)] = s[i]
      BY <3>1 DEF Mirror
    <3>3. Mirror(m)[i] = m[Partner(i)]
      BY <2>2, <1>2 DEF Mirror
    <3> QED BY <3>2, <3>3
  <2> QED BY <2>1, <2>2
<1>4. Mirror(m) = [i \in 1..Len(s) |-> Mirror(m)[i]]
  BY <1>2 DEF Mirror
<1> QED BY <1>1, <1>3, <1>4

LEMMA InitHolds == Init => IInv
<1> SUFFICES ASSUME Init PROVE IInv
  OBVIOUS
<1>1. plain \in Seq(Bytes)
  BY SizeAssumption DEF Init, FileContents
<1>2. Len(source) \in Nat /\ source = plain /\ read = 0
  BY <1>1 DEF Init
<1>3. Progress
  BY <1>2 DEF Init, Progress, Written
<1> QED BY <1>1, <1>3 DEF Init, IInv, PairsReversed

LEMMA BlockInductive ==
    ASSUME IInv, SwapBlock
    PROVE  IInv'
<1>1. /\ source \in Seq(Bytes) /\ Len(source) \in Nat /\ pc = "read"
      /\ \A i \in 1..Len(source) : source[i] \in Bytes
      /\ read \in Nat /\ read < Len(source) /\ read % 2 = 0
      /\ dest = [i \in 1..read |-> source[Partner(i)]] /\ odd = <<>>
  <2>1. source \in Seq(Bytes)
    BY MirrorType DEF IInv
  <2>2. Len(source) \in Nat /\ \A i \in 1..Len(source) : source[i] \in Bytes
    BY <2>1, LenProperties
  <2>3. pc = "read" /\ read < Len(source) /\ Progress
    BY DEF SwapBlock, IInv
  <2>4. read \in Nat /\ read % 2 = 0 /\ Written = read
    BY <2>2, <2>3 DEF Progress, Written
  <2> QED BY <2>1, <2>2, <2>3, <2>4 DEF Progress
<1>2. PICK n \in 1..FileBlock :
        /\ n = IF Len(source) - read < FileBlock THEN Len(source) - read
                                                 ELSE FileBlock
        /\ read' = read + n
        /\ dest' = dest \o [i \in 1..(IF OddLast(n) THEN n - 1 ELSE n) |->
                               source[read + Partner(i)]]
        /\ odd' = IF OddLast(n) THEN <<source[read + n]>> ELSE odd
  BY DEF SwapBlock
<1> DEFINE pairs == IF OddLast(n) THEN n - 1 ELSE n
           block == [i \in 1..pairs |-> source[read + Partner(i)]]
<1>a. source' = source
  BY DEF SwapBlock
<1>3. /\ n \in Nat /\ n > 0 /\ read' \in 0..Len(source)
      /\ read' % 2 = n % 2
      /\ read' % 2 = 0 \/ read' = Len(source)
      /\ OddLast(n) <=> read' % 2 = 1
  <2>0. /\ n \in 1..FileBlock /\ read' = read + n
        /\ n = IF Len(source) - read < FileBlock THEN Len(source) - read
                                                 ELSE FileBlock
        /\ Len(source) \in Nat /\ read \in Nat /\ read < Len(source)
    BY <1>1, <1>2
  <2>1. n \in Nat /\ n > 0 /\ read' \in 0..Len(source)
    BY <2>0, BlockAssumption
  <2>2. read' % 2 = n % 2
    BY <1>1, <1>2, <2>1, EvenSum
  <2>3. n % 2 = 0 \/ read' = Len(source)
    <3>1. CASE n = FileBlock
      BY <3>1, BlockAssumption
    <3>2. CASE n # FileBlock
      <4>1. n = Len(source) - read
        BY <3>2, <2>0
      <4> QED BY <4>1, <2>0
    <3> QED BY <3>1, <3>2
  <2>4. n % 2 = 0 \/ n % 2 = 1
    BY <2>1
  <2>5. OddLast(n) <=> n % 2 = 1
    BY <1>1, <1>2, <2>2, <2>3, <2>4 DEF OddLast, IsOdd
  <2> QED BY <2>1, <2>2, <2>3, <2>4, <2>5
<1>4. /\ pairs \in Nat /\ pairs % 2 = 0 /\ Written' = read + pairs
      /\ read + pairs <= Len(source)
  <2>1. /\ pairs = IF n % 2 = 1 THEN n - 1 ELSE n
        /\ Written' = IF n % 2 = 1 THEN (read + n) - 1 ELSE read + n
        /\ read + n <= Len(source) /\ n \in Nat /\ n > 0 /\ read \in Nat
    BY <1>1, <1>2, <1>3 DEF Written
  <2> HIDE DEF pairs
  <2> QED BY <2>1, <1>1
<1>5. dest' = [i \in 1..(read + pairs) |-> source[Partner(i)]]
  <2> HIDE DEF pairs
  <2>1. /\ \A i \in 1..pairs : read + Partner(i) \in 1..Len(source)
        /\ \A i \in 1..read : Partner(i) \in 1..Len(source)
    <3>1. ASSUME NEW i \in 1..pairs PROVE read + Partner(i) \in 1..Len(source)
      <4>1. read + i \in 1..Len(source) /\ i \in Nat /\ i > 0
        BY <1>1, <1>4
      <4>2. read + Partner(i) = Partner(read + i)
        BY <4>1, <1>1, PartnerShift
      <4>3. (read + i) % 2 = i % 2
        BY <4>1, <1>1, EvenSum
      <4>4. ~(read + i = Len(source) /\ (read + i) % 2 = 1)
        <5>1. CASE i = pairs
          BY <5>1, <4>3, <1>4
        <5>2. CASE i # pairs
          BY <5>2, <1>1, <1>4
        <5> QED BY <5>1, <5>2
      <4> QED BY <4>1, <4>2, <4>4, <1>1, PartnerRange
    <3>2. ASSUME NEW i \in 1..read PROVE Partner(i) \in 1..Len(source)
      <4>1. i \in 1..Len(source) /\ i # Len(source)
        BY <1>1
      <4> QED BY <4>1, <1>1, PartnerRange
    <3> QED BY <3>1, <3>2
  <2>2. dest \in [1..read -> Bytes] /\ block \in [1..pairs -> Bytes]
    BY <1>1, <2>1
  <2>3. dest' = dest \o block
    BY <1>2 DEF pairs
  <2>4. dest' = [i \in 1..(read + pairs) |->
                   IF i <= read THEN dest[i] ELSE block[i - read]]
    BY <1>1, <1>4, <2>2, <2>3, Joined
  <2>5. ASSUME NEW i \in 1..(read + pairs)
        PROVE  (IF i <= read THEN dest[i] ELSE block[i - read])
                 = source[Partner(i)]
    <3>1. CASE i <= read
      BY <3>1, <1>1, <1>4
    <3>2. CASE i > read
      <4>1. i - read \in 1..pairs /\ read + (i - read) = i
        BY <3>2, <1>1, <1>4
      <4>2. read + Partner(i - read) = Partner(i)
        <5>1. i - read \in Nat /\ i - read > 0
          BY <4>1, <1>4
        <5> QED BY <4>1, <5>1, <1>1, PartnerShift
      <4>3. block[i - read] = source[read + Partner(i - read)]
        BY <4>1
      <4> QED BY <3>2, <4>2, <4>3, <1>1, <1>4
    <3> QED BY <3>1, <3>2, <1>1, <1>4
  <2> HIDE DEF block
  <2> QED BY <2>4, <2>5
<1>6. source' = source /\ pc' = pc /\ pass' = pass /\ plain' = plain
  BY DEF SwapBlock
<1>7. odd' = IF read' % 2 = 1 THEN <<source[read']>> ELSE <<>>
  BY <1>1, <1>2, <1>3
<1>8. Progress'
  BY <1>3, <1>4, <1>5, <1>6, <1>7 DEF Progress, Partner
<1> QED BY <1>1, <1>6, <1>8 DEF IInv, PairsReversed, Mirror, Partner

LEMMA FinishInductive ==
    ASSUME IInv, Finish
    PROVE  IInv'
<1>1. /\ source \in Seq(Bytes) /\ Len(source) \in Nat /\ pc = "read"
      /\ read = Len(source)
      /\ dest = [i \in 1..Written |-> source[Partner(i)]]
      /\ odd = IF read % 2 = 1 THEN <<source[read]>> ELSE <<>>
  BY MirrorType, LenProperties DEF IInv, Progress, Finish
<1>2. dest' = Mirror(source)
  <2>1. CASE IsOdd
    <3>1. /\ dest' = dest \o odd /\ odd = <<source[Len(source)]>>
          /\ dest = [i \in 1..(Len(source) - 1) |-> source[Partner(i)]]
          /\ Len(source) - 1 \in Nat
      BY <1>1, <2>1 DEF Finish, IsOdd, Written
    <3>2. /\ \A i \in 1..(Len(source) - 1) : Partner(i) \in 1..Len(source)
          /\ \A i \in 1..Len(source) : source[i] \in Bytes
      BY <1>1, <2>1, PartnerRange, LenProperties DEF IsOdd
    <3>3. dest \in [1..(Len(source) - 1) -> Bytes] /\ odd \in [1..1 -> Bytes]
      BY <3>1, <3>2, <1>1
    <3>4. dest' = [i \in 1..((Len(source) - 1) + 1) |->
                     IF i <= Len(source) - 1 THEN dest[i]
                                             ELSE odd[i - (Len(source) - 1)]]
      BY <3>1, <3>3, Joined
    <3>5. ASSUME NEW i \in 1..Len(source)
          PROVE  (IF i <= Len(source) - 1 THEN dest[i]
                                          ELSE odd[i - (Len(source) - 1)])
                   = IF i = Len(source) /\ i % 2 = 1 THEN source[i]
                                                     ELSE source[Partner(i)]
      <4>1. CASE i = Len(source)
        BY <4>1, <3>1, <1>1, <2>1 DEF IsOdd
      <4>2. CASE i # Len(source)
        BY <4>2, <3>1, <1>1
      <4> QED BY <4>1, <4>2
    <3>6. (Len(source) - 1) + 1 = Len(source)
      BY <1>1
    <3> QED BY <3>4, <3>5, <3>6 DEF Mirror
  <2>2. CASE ~IsOdd
    <3>1. dest' = [i \in 1..Len(source) |-> source[Partner(i)]]
      BY <1>1, <2>2 DEF Finish, IsOdd, Written
    <3>2. \A i \in 1..Len(source) : ~(i = Len(source) /\ i % 2 = 1)
      BY <2>2 DEF IsOdd
    <3> QED BY <3>1, <3>2 DEF Mirror
  <2> QED BY <2>1, <2>2
<1>3. source' = source /\ pc' = "done" /\ pass' = pass /\ plain' = plain
  BY DEF Finish
<1> QED BY <1>2, <1>3 DEF IInv, PairsReversed, Mirror, Partner

LEMMA UncompressInductive ==
    ASSUME IInv, Uncompress
    PROVE  IInv'
<1>1. /\ source' = Mirror(plain) /\ plain' = plain /\ pass' = "Uncompress"
      /\ pc' = "read" /\ read' = 0 /\ odd' = <<>> /\ dest' = <<>>
      /\ plain \in Seq(Bytes)
  BY DEF Uncompress, IInv, PairsReversed
<1>2. Len(source') \in Nat
  BY <1>1, MirrorType, LenProperties
<1>3. Progress'
  BY <1>1, <1>2 DEF Progress, Written, Partner
<1> QED BY <1>1, <1>3 DEF IInv, PairsReversed, Mirror, Partner

LEMMA InvHolds == Spec => []IInv
<1>1. IInv /\ UNCHANGED vars => IInv'
  <2> SUFFICES ASSUME IInv, UNCHANGED vars PROVE IInv'
    OBVIOUS
  <2>1. /\ UNCHANGED <<plain, pass, pc, source, read, odd, dest>>
        /\ Written' = Written
    BY DEF vars, Written
  <2> QED BY <2>1 DEF IInv, Progress, PairsReversed, Mirror, Partner
<1>2. IInv /\ [Next]_vars => IInv'
  BY <1>1, BlockInductive, FinishInductive, UncompressInductive DEF Next
<1> QED BY <1>2, InitHolds, PTL DEF Spec

-----------------------------------------------------------------------------
\* The loop of ZipCompress and ZipUncompress reverses the pairs of the whole
\* file, for every even FILE_BLOCK.
THEOREM LoopReversesPairs == Spec => []PairsReversed
<1>1. IInv => PairsReversed
  BY DEF IInv
<1> QED BY <1>1, InvHolds, PTL

\* What ParseXml decodes at the start is the sound that was encoded.
THEOREM SoundSurvives == Spec => []RoundTrip
<1>1. IInv => RoundTrip
  <2> SUFFICES ASSUME IInv, pc = "done", pass = "Uncompress"
               PROVE  dest = plain
    BY DEF RoundTrip
  <2>1. plain \in Seq(Bytes) /\ dest = Mirror(Mirror(plain))
    BY DEF IInv, PairsReversed
  <2> QED BY <2>1, MirrorInvolution
<1> QED BY <1>1, InvHolds, PTL

-----------------------------------------------------------------------------
(* The messages.                                                           *)

MessageType == message \in Seq(Symbols) /\ Len(message) <= MaxLen

LEMMA MessageGrows == MCSpec => []MessageType
<1>1. MCInit => MessageType
  <2> SUFFICES ASSUME message = <<>> PROVE message \in Seq(Symbols) /\ Len(message) <= MaxLen
    BY DEF MCInit, MessageType
  <2>1. Len(<<>>) = 0 /\ <<>> \in Seq(Symbols)
    OBVIOUS
  <2> QED BY <2>1, MaxLenAssumption
<1>2. ASSUME MessageType, [Grow \/ Convert]_<<vars, message>> PROVE MessageType'
  <2>1. CASE Grow
    <3>1. PICK s \in Symbols : message' = Append(message, s)
      BY <2>1 DEF Grow
    <3>2. message \in Seq(Symbols) /\ Len(message) < MaxLen /\ MaxLen \in Nat
      BY <1>2, <2>1, MaxLenAssumption DEF Grow, MessageType
    <3>3. message' \in Seq(Symbols) /\ Len(message') = Len(message) + 1
      BY <3>1, <3>2, AppendProperties
    <3>4. Len(message) + 1 <= MaxLen
      BY <3>2
    <3> QED BY <3>3, <3>4 DEF MessageType
  <2>2. CASE Convert \/ UNCHANGED <<vars, message>>
    <3>1. message' = message
      BY <2>2 DEF Convert
    <3> QED BY <1>2, <3>1 DEF MessageType
  <2> QED BY <1>2, <2>1, <2>2
<1> QED BY <1>1, <1>2, PTL DEF MCSpec

LEMMA MessageParsed ==
    ASSUME MessageType
    PROVE  ParsesWhatIsMeant /\ NothingValidIsCutShort
<1> DEFINE R == Symbols \cup {"NL", "NUL", "?"}
<1>1. message \in Seq(R) /\ "NL" \in R /\ "NUL" \in R /\ Strays \subseteq R
  BY DEF MessageType, Strays
<1>2. Len(message) <= BufferSize
  <2>1. message \in Seq(Symbols) /\ Len(message) <= MaxLen
    BY DEF MessageType
  <2>2. Len(message) \in Nat
    BY <2>1
  <2> QED BY <2>1, <2>2, MaxLenAssumption, NumberAssumption
<1> HIDE DEF R
<1>3. ASSUME NEW stray \in Strays
      PROVE  LET p == Parse(message, stray)
             IN  /\ ~p.tooMany /\ ~p.overrun => Verified(p.nodes) = Meant(message)
                 /\ p.tooMany <=> GivesUp(message)
                 /\ p.tooMany \/ p.overrun \/ p.astray => Meant(message) = TCP_CMD_NUM
  <2> DEFINE p == Parse(message, stray)
  <2>0. stray \in R
    BY <1>1
  <2>1. /\ ~p.tooMany /\ ~p.overrun => Verified(p.nodes) = Meant(message)
        /\ p.tooMany \/ p.overrun => Meant(message) = TCP_CMD_NUM
        /\ p.astray /\ Len(message) <= BufferSize => Meant(message) = TCP_CMD_NUM
    BY <1>1, <2>0, ParsesWhatIsMeantForAll, Zenon
  <2>2. (p.tooMany => GivesUp(message)) /\ (GivesUp(message) => p.tooMany)
    BY <1>1, <2>0, TooManyIsGivenUp, Zenon
  <2>3. p.tooMany \in BOOLEAN
    <3>1. p \in States(R)
      BY <1>1, <2>0, ParsedLines, Zenon
    <3> QED BY <3>1 DEF States
  <2> HIDE DEF p
  <2>4. /\ ~p.tooMany /\ ~p.overrun => Verified(p.nodes) = Meant(message)
        /\ p.tooMany <=> GivesUp(message)
        /\ p.tooMany \/ p.overrun \/ p.astray => Meant(message) = TCP_CMD_NUM
    BY <1>2, <2>1, <2>2, <2>3
  <2> QED BY <2>4 DEF p
<1> QED BY <1>3, Zenon DEF ParsesWhatIsMeant, NothingValidIsCutShort

\* A message over any symbols that fits in a buffer of any size is taken for the
\* command its lines are, whatever is outside the buffer (ParseMsg,
\* VerifyAndGetMsgCommand).
THEOREM MessagesParsedAsMeant == MCSpec => []ParsesWhatIsMeant
  BY MessageGrows, MessageParsed, PTL

\* The messages the parser gives up on are those with too many lines and those
\* whose size leads the loop back to the start, and none of them, nor any that
\* leads it out of the buffer or whose copy does, is a command.
THEOREM CutShortIsNoCommand == MCSpec => []NothingValidIsCutShort
  BY MessageGrows, MessageParsed, PTL
=============================================================================
