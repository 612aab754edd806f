-------------------------- MODULE MsgParser_proofs --------------------------
(***************************************************************************)
(* What ParseMsg makes of a message of any length: the lines it is cut in, *)
(* and that the command it answers is the one the protocol means.  The     *)
(* induction over the rounds of the loop rests on a least counterexample.  *)
(***************************************************************************)
EXTENDS MsgParser, FiniteSetTheorems, FunctionTheorems,
        SequenceTheorems, WellFoundedInduction, TLAPS

-----------------------------------------------------------------------------
(* Induction over the rounds.                                              *)

LEMMA LeastElement ==
    ASSUME NEW T \in SUBSET Nat, T # {}
    PROVE  \E x \in T : \A y \in T : x <= y
<1>1. \E x \in T : \A y \in T : ~(<<y, x>> \in OpToRel(<, Nat))
  BY NatLessThanWellFounded, WFMin, Zenon
<1>2. \A x, y \in Nat : <<y, x>> \in OpToRel(<, Nat) <=> y < x
  BY DEF OpToRel
<1>3. PICK x \in T : \A y \in T : ~(<<y, x>> \in OpToRel(<, Nat))
  BY <1>1
<1> HIDE DEF OpToRel
<1>4. \A y \in T : ~(y < x)
  BY <1>2, <1>3
<1> QED BY <1>4

\* A set that holds 0, and with each number up to n the next, holds them all.
LEMMA InductionUpTo ==
    ASSUME NEW n \in Nat, NEW S, 0 \in S,
           \A k \in 0..n-1 : k \in S => k + 1 \in S
    PROVE  \A k \in 0..n : k \in S
<1> SUFFICES ASSUME NEW k \in 0..n, k \notin S PROVE FALSE
  OBVIOUS
<1> DEFINE T == {j \in 0..n : j \notin S}
<1>1. T \in SUBSET Nat /\ T # {}
  OBVIOUS
<1>2. PICK x \in T : \A y \in T : x <= y
  BY <1>1, LeastElement, Zenon
<1>3. x # 0 /\ x - 1 \in 0..n-1 /\ x - 1 \in S
  BY <1>2
<1>4. x \in S
  BY <1>3
<1> QED BY <1>4

\* The states of the loop after each of the first n rounds.
Rounds(m, stray, n, f) ==
    f = [k \in 0..n |-> IF k = 0 THEN Begin ELSE ParseRound(m, f[k - 1], stray)]

LEMMA RoundsExist ==
    ASSUME NEW m, NEW stray, NEW n \in Nat
    PROVE  \E f : Rounds(m, stray, n, f)
<1> DEFINE S == {k \in 0..n : \E f : Rounds(m, stray, k, f)}
<1>1. 0 \in S
  <2> DEFINE f == [k \in 0..0 |-> Begin]
  <2>1. f = [k \in 0..0 |-> IF k = 0 THEN Begin ELSE ParseRound(m, f[k - 1], stray)]
    OBVIOUS
  <2> HIDE DEF f
  <2>2. Rounds(m, stray, 0, f)
    BY <2>1 DEF Rounds
  <2> QED BY <2>2
<1>2. ASSUME NEW k \in 0..n-1, k \in S PROVE k + 1 \in S
  <2>1. PICK f : Rounds(m, stray, k, f)
    BY <1>2
  <2> DEFINE g == [j \in 0..k+1 |-> IF j = 0 THEN Begin ELSE ParseRound(m, f[j - 1], stray)]
  <2>2. ASSUME NEW j \in 0..k PROVE g[j] = f[j]
    <3>1. f[j] = IF j = 0 THEN Begin ELSE ParseRound(m, f[j - 1], stray)
      BY <2>1 DEF Rounds
    <3>2. g[j] = IF j = 0 THEN Begin ELSE ParseRound(m, f[j - 1], stray)
      OBVIOUS
    <3> QED BY <3>1, <3>2
  <2>3. ASSUME NEW j \in 0..k+1
        PROVE  (IF j = 0 THEN Begin ELSE ParseRound(m, f[j - 1], stray))
                 = (IF j = 0 THEN Begin ELSE ParseRound(m, g[j - 1], stray))
    <3>1. CASE j = 0  BY <3>1
    <3>2. CASE j # 0
      <4>1. j - 1 \in 0..k
        BY <3>2
      <4>2. g[j - 1] = f[j - 1]
        BY <4>1, <2>2
      <4> HIDE DEF g
      <4> QED BY <4>2, <3>2
    <3> QED BY <3>1, <3>2
  <2>4. g = [j \in 0..k+1 |-> IF j = 0 THEN Begin ELSE ParseRound(m, g[j - 1], stray)]
    BY <2>3, Zenon
  <2> HIDE DEF g
  <2>5. Rounds(m, stray, k + 1, g)
    BY <2>4, Zenon DEF Rounds
  <2> QED BY <2>5
<1> HIDE DEF S
<1>3. n \in S
  BY <1>1, <1>2, InductionUpTo
<1> QED BY <1>3 DEF S

\* What the loop holds after each round.
LEMMA ParseIsLoop ==
    ASSUME NEW R, NEW m \in Seq(R), NEW stray
    PROVE  \E f : /\ f[0] = Begin
                  /\ \A k \in 0..2 * Len(m) - 1 : f[k + 1] = ParseRound(m, f[k], stray)
                  /\ Parse(m, stray) = f[2 * Len(m)]
<1> DEFINE n == 2 * Len(m)
           f == CHOOSE g : Rounds(m, stray, n, g)
<1>0. n \in Nat
  OBVIOUS
<1>1. Rounds(m, stray, n, f)
  <2>1. \E g : Rounds(m, stray, n, g)
    BY RoundsExist, <1>0, Zenon
  <2> QED BY <2>1, Zenon
<1>2. Parse(m, stray) = f[n]
  BY Zenon DEF Parse, Rounds
<1> HIDE DEF f, n
<1>3. f[0] = Begin /\ \A k \in 0..n - 1 : f[k + 1] = ParseRound(m, f[k], stray)
  <2>1. ASSUME NEW k \in 0..n
        PROVE  f[k] = IF k = 0 THEN Begin ELSE ParseRound(m, f[k - 1], stray)
    BY <1>1 DEF Rounds
  <2>2. f[0] = Begin
    BY <1>0, <2>1
  <2>3. ASSUME NEW k \in 0..n - 1 PROVE f[k + 1] = ParseRound(m, f[k], stray)
    <3>1. k + 1 \in 0..n /\ k + 1 # 0 /\ (k + 1) - 1 = k
      BY <1>0
    <3>2. f[k + 1] = ParseRound(m, f[(k + 1) - 1], stray)
      BY <3>1, <2>1
    <3> QED BY <3>1, <3>2
  <2> QED BY <2>2, <2>3
<1> QED BY <1>2, <1>3 DEF n
-----------------------------------------------------------------------------
(* The lines.                                                              *)

\* The symbols of m after b and before e.
Between(m, b, e) == [j \in 1..e - b - 1 |-> m[b + j]]

NoEnd(m, b, e) == \A j \in b + 1..e - 1 : m[j] # "NL"

States(R) == [at : Int, nodes : Seq(Seq(R)), node : Seq(R),
              tooMany : BOOLEAN, overrun : BOOLEAN, astray : BOOLEAN]

Configured(s) == Len(s.nodes) >= 3 /\ s.nodes[1] = <<"TCP_SET_CFG">>

ConfigSize(s) == Atoi(s.nodes[2])

\* The nodes are the lines that end at e[1], e[2] ... but for the third of a
\* configuration, which is as long as the second says.
Cut(m, s, e) ==
    /\ s.at \in Nat
    /\ e \in [0..Len(s.nodes) -> Nat] /\ e[0] = 0
    /\ \A i \in 1..Len(s.nodes) : (Configured(s) /\ i = 3) \/
         /\ e[i - 1] < e[i] /\ e[i] < s.at /\ m[e[i]] = "NL"
         /\ s.nodes[i] = Between(m, e[i - 1], e[i])
         /\ NoEnd(m, e[i - 1], e[i])
    /\ e[Len(s.nodes)] < s.at /\ s.at <= Len(m) + 1
    /\ s.node = Between(m, e[Len(s.nodes)], s.at)
    /\ NoEnd(m, e[Len(s.nodes)], s.at)
    /\ Configured(s) =>
         /\ ConfigSize(s) >= 0 /\ e[3] = e[2] + ConfigSize(s) /\ e[3] < Len(m)
         /\ s.nodes[3] = [i \in 1..ConfigSize(s) |-> Word(m[e[2] + i])]

\* The loop between two rounds, before a size that does not fit.
Scanning(m, s) ==
    /\ ~s.overrun
    /\ Len(m) <= BufferSize => ~s.astray
    /\ \E e : /\ Cut(m, s, e) /\ (AtConfig(s) => s.at = e[2] + 1)
              /\ Len(s.nodes) = MSG_MAX_NODES => s.at = e[MSG_MAX_NODES] + 1

\* The second line of a TCP_SET_CFG ends at b, and more follows.
SizeLine(m, b) ==
    /\ b \in 3..Len(m) - 1
    /\ m[1] = "TCP_SET_CFG" /\ m[2] = "NL" /\ m[b] = "NL" /\ NoEnd(m, 2, b)

SizeAt(m, b) == Atoi(Between(m, 2, b))

\* The size it gives is negative, or more than there is.
NoSize(m, b) == SizeLine(m, b) /\ (SizeAt(m, b) < 0 \/ b + SizeAt(m, b) >= Len(m))

\* The loop has ended behind such a size, with the copy out of memory or with
\* the position outside the message.
CutOff(m, s) ==
    /\ Len(s.nodes) \in {3, 4} /\ s.nodes[Len(s.nodes)] = <<>> /\ ~s.tooMany
    /\ s.at \notin 1..Len(m) \/ s.overrun
    /\ \E b : NoSize(m, b) /\ SizeAt(m, b) # -(b + 1)

\* The loop reads the message again: two lines more make too many.
Restarted(m, s) ==
    /\ ~s.overrun
    /\ \E b : /\ NoSize(m, b) /\ SizeAt(m, b) = -(b + 1)
              /\ s.at \in 1..b + 1 /\ Len(s.nodes) >= 3
              /\ s.at >= 3 => Len(s.nodes) >= 4
              /\ s.at = b + 1 => Len(s.nodes) >= 5

LoopInv(m, s) ==
    /\ Len(s.nodes) <= MSG_MAX_NODES
    /\ s.tooMany => Len(s.nodes) = MSG_MAX_NODES /\ s.at \in 1..Len(m)
    /\ Scanning(m, s) \/ CutOff(m, s) \/ Restarted(m, s)

LEMMA FunctionIsSeq ==
    ASSUME NEW R, NEW n \in Nat, NEW f \in [1..n -> R]
    PROVE  f \in Seq(R) /\ Len(f) = n
<1>1. f \in Seq(R)
  BY SeqDef, Zenon
<1>2. Len(f) \in Nat /\ 1..Len(f) = 1..n
  BY <1>1, LenProperties
<1> QED BY <1>1, <1>2

LEMMA BetweenType ==
    ASSUME NEW R, NEW m \in Seq(R), NEW b \in Nat, NEW e \in Nat,
           b < e, e <= Len(m) + 1
    PROVE  /\ Between(m, b, e) \in Seq(R) /\ Len(Between(m, b, e)) = e - b - 1
           /\ \A j \in 1..e - b - 1 : Between(m, b, e)[j] = m[b + j]
<1>1. Between(m, b, e) \in [1..e - b - 1 -> R]
  BY DEF Between
<1>2. e - b - 1 \in Nat
  OBVIOUS
<1>4. \A j \in 1..e - b - 1 : Between(m, b, e)[j] = m[b + j]
  BY DEF Between
<1> QED BY <1>1, <1>2, <1>4, FunctionIsSeq

LEMMA BetweenExtends ==
    ASSUME NEW R, NEW m \in Seq(R), NEW b \in Nat, NEW e \in Nat,
           b < e, e <= Len(m)
    PROVE  Append(Between(m, b, e), m[e]) = Between(m, b, e + 1)
<1>1. /\ Between(m, b, e) \in Seq(R) /\ Len(Between(m, b, e)) = e - b - 1
      /\ \A j \in 1..e - b - 1 : Between(m, b, e)[j] = m[b + j]
  BY BetweenType
<1> DEFINE s == Append(Between(m, b, e), m[e])
<1>2. s \in Seq(R) /\ Len(s) = e - b
  BY <1>1, m[e] \in R
<1>3. ASSUME NEW j \in 1..e - b PROVE s[j] = m[b + j]
  BY <1>1, m[e] \in R
<1>4. s = [j \in 1..e - b |-> s[j]]
  BY <1>2
<1> HIDE DEF s
<1>5. s = [j \in 1..e - b |-> m[b + j]]
  BY <1>3, <1>4
<1> QED BY <1>5 DEF Between, s

LEMMA AtoiType == ASSUME NEW n PROVE Atoi(n) \in Int
  BY NumberAssumption DEF Atoi

-----------------------------------------------------------------------------
(* One round.                                                              *)

EndOfLine(s) == [s EXCEPT !.nodes = Append(@, s.node), !.node = <<>>, !.at = @ + 1]

\* The symbol at s.at ends a line.
LEMMA LineEnded ==
    ASSUME NEW R, NEW m \in Seq(R), NEW s \in States(R), NEW e, Cut(m, s, e),
           ~AtConfig(s), s.at <= Len(m), m[s.at] = "NL",
           NEW t, t = EndOfLine(s)
    PROVE  /\ t \in States(R) /\ t.at = s.at + 1
           /\ Len(t.nodes) = Len(s.nodes) + 1
           /\ \E g : Cut(m, t, g) /\ g[Len(t.nodes)] = s.at
<1> DEFINE k == Len(s.nodes)
           g == [i \in 0..k + 1 |-> IF i = k + 1 THEN s.at ELSE e[i]]
<1>1. /\ s.at \in Nat /\ s.nodes \in Seq(Seq(R)) /\ s.node \in Seq(R) /\ k \in Nat
      /\ s.tooMany \in BOOLEAN /\ s.overrun \in BOOLEAN /\ s.astray \in BOOLEAN
  BY DEF States, Cut
<1>0. k \in Nat
  BY <1>1
<1>2. /\ t.at = s.at + 1 /\ t.nodes = Append(s.nodes, s.node) /\ t.node = <<>>
      /\ t.tooMany = s.tooMany /\ t.overrun = s.overrun
      /\ t.at \in Nat
      /\ t \in States(R)
  <2>1. /\ Append(s.nodes, s.node) \in Seq(Seq(R)) /\ <<>> \in Seq(R)
        /\ s.at + 1 \in Nat /\ s.at + 1 \in Int
    BY <1>1, AppendProperties
  <2> HIDE DEF k, g
  <2>2. t \in States(R)
    BY <1>1, <2>1 DEF States, EndOfLine
  <2> QED BY <2>1, <2>2 DEF States, EndOfLine
<1>3. /\ Len(t.nodes) = k + 1 /\ t.nodes[k + 1] = s.node
      /\ \A i \in 1..k : t.nodes[i] = s.nodes[i]
  BY <1>1, <1>2, AppendProperties
<1>4. /\ e \in [0..k -> Nat] /\ e[0] = 0
      /\ \A i \in 1..k : (Configured(s) /\ i = 3) \/
           /\ e[i - 1] < e[i] /\ e[i] < s.at /\ m[e[i]] = "NL"
           /\ s.nodes[i] = Between(m, e[i - 1], e[i])
           /\ NoEnd(m, e[i - 1], e[i])
      /\ e[k] < s.at
      /\ s.node = Between(m, e[k], s.at) /\ NoEnd(m, e[k], s.at)
      /\ Configured(s) =>
         /\ ConfigSize(s) >= 0 /\ e[3] = e[2] + ConfigSize(s) /\ e[3] < Len(m)
         /\ s.nodes[3] = [i \in 1..ConfigSize(s) |-> Word(m[e[2] + i])]
  BY DEF Cut
<1>5. Configured(t) <=> Configured(s)
  <2>1. k # 2 \/ s.nodes[1] # <<"TCP_SET_CFG">>
    BY DEF AtConfig
  <2>2. k >= 1 => t.nodes[1] = s.nodes[1]
    BY <1>1, <1>3
  <2>3. Len(t.nodes) >= 3 <=> k >= 2
    BY <1>1, <1>3
  <2>4. (k >= 2 /\ k # 2 => k >= 3) /\ (k >= 3 => k >= 2) /\ (k >= 2 => k >= 1)
    <3> HIDE DEF k
    <3> QED BY <1>0
  <2> QED BY <2>1, <2>2, <2>3, <2>4, Zenon DEF Configured
<1>6. Configured(s) => k >= 3 /\ t.nodes[2] = s.nodes[2] /\ t.nodes[3] = s.nodes[3]
                       /\ ConfigSize(t) = ConfigSize(s)
  <2> SUFFICES ASSUME Configured(s)
               PROVE  k >= 3 /\ t.nodes[2] = s.nodes[2] /\ t.nodes[3] = s.nodes[3]
                      /\ ConfigSize(t) = ConfigSize(s)
    OBVIOUS
  <2>1. k >= 3
    BY DEF Configured
  <2>2. 2 \in 1..k /\ 3 \in 1..k
    <3> HIDE DEF k
    <3> QED BY <1>0, <2>1
  <2>3. t.nodes[2] = s.nodes[2] /\ t.nodes[3] = s.nodes[3]
    BY <1>3, <2>2
  <2> QED BY <2>1, <2>3 DEF ConfigSize
<1>7. /\ g \in [0..k + 1 -> Nat] /\ g[k + 1] = s.at
      /\ \A i \in 0..k : g[i] = e[i]
  BY <1>1, <1>4
<1> HIDE DEF g, k
<1>8. Between(m, s.at, t.at) = <<>> /\ NoEnd(m, s.at, t.at)
  BY <1>1, <1>2 DEF Between, NoEnd
<1>9. ASSUME NEW i \in 1..k + 1
      PROVE  (Configured(t) /\ i = 3) \/
               /\ g[i - 1] < g[i] /\ g[i] < t.at /\ m[g[i]] = "NL"
               /\ t.nodes[i] = Between(m, g[i - 1], g[i])
               /\ NoEnd(m, g[i - 1], g[i])
  <2>1. CASE i = k + 1
    <3>1. g[i - 1] = e[k] /\ g[i] = s.at /\ t.nodes[i] = s.node
      <4>1. i - 1 = k /\ k \in 0..k
        BY <2>1, <1>1
      <4> QED BY <4>1, <2>1, <1>3, <1>7
    <3>2. s.at < t.at
      BY <1>1, <1>2
    <3> QED BY <3>1, <3>2, <1>4
  <2>2. CASE i \in 1..k
    <3>1. g[i - 1] = e[i - 1] /\ g[i] = e[i] /\ t.nodes[i] = s.nodes[i]
      <4>1. i - 1 \in 0..k /\ i \in 0..k
        BY <2>2, <1>1
      <4> QED BY <4>1, <2>2, <1>3, <1>7
    <3>2. e[i] \in Nat
      <4>1. i \in 0..k
        BY <2>2, <1>1
      <4> QED BY <4>1, <1>4
    <3>3. e[i] < s.at => e[i] < t.at
      BY <3>2, <1>1, <1>2
    <3> QED BY <2>2, <3>1, <3>3, <1>4, <1>5, Zenon
  <2>3. i = k + 1 \/ i \in 1..k
    BY <1>0
  <2> QED BY <2>1, <2>2, <2>3
<1>10. Configured(t) =>
         /\ ConfigSize(t) >= 0 /\ g[3] = g[2] + ConfigSize(t) /\ g[3] < Len(m)
         /\ t.nodes[3] = [i \in 1..ConfigSize(t) |-> Word(m[g[2] + i])]
  <2>1. SUFFICES ASSUME Configured(s)
                 PROVE  /\ ConfigSize(t) >= 0 /\ g[3] = g[2] + ConfigSize(t)
                        /\ g[3] < Len(m)
                        /\ t.nodes[3] = [i \in 1..ConfigSize(t) |-> Word(m[g[2] + i])]
    BY <1>5
  <2>2. g[2] = e[2] /\ g[3] = e[3]
    <3>1. 2 \in 0..k /\ 3 \in 0..k
      BY <2>1, <1>1, <1>6
    <3> QED BY <3>1, <1>7
  <2> QED BY <2>1, <2>2, <1>4, <1>6, Zenon
<1>11. Cut(m, t, g)
  <2>1. g[0] = 0
    BY <1>1, <1>4, <1>7
  <2>2. /\ g[k + 1] < t.at /\ t.at <= Len(m) + 1 /\ t.at \in Nat
        /\ t.node = Between(m, g[k + 1], t.at) /\ NoEnd(m, g[k + 1], t.at)
    BY <1>1, <1>2, <1>7, <1>8
  <2> QED BY <2>1, <2>2, <1>3, <1>7, <1>9, <1>10 DEF Cut
<1> QED BY <1>2, <1>3, <1>7, <1>11 DEF k

\* Any other symbol belongs to the line.
LEMMA SymbolAdded ==
    ASSUME NEW R, NEW m \in Seq(R), NEW s \in States(R), NEW e, Cut(m, s, e),
           s.at <= Len(m), m[s.at] # "NL",
           NEW t, t = [s EXCEPT !.node = Append(@, m[s.at]), !.at = @ + 1]
    PROVE  /\ t \in States(R) /\ t.at = s.at + 1 /\ t.nodes = s.nodes
           /\ Cut(m, t, e)
<1> DEFINE k == Len(s.nodes)
<1>1. /\ s.at \in Nat /\ s.nodes \in Seq(Seq(R)) /\ s.node \in Seq(R) /\ k \in Nat
      /\ s.tooMany \in BOOLEAN /\ s.overrun \in BOOLEAN /\ s.astray \in BOOLEAN
  BY DEF States, Cut
<1>2. /\ e \in [0..k -> Nat] /\ e[k] < s.at /\ e[k] \in Nat
      /\ s.node = Between(m, e[k], s.at) /\ NoEnd(m, e[k], s.at)
  <2>1. k \in 0..k
    BY <1>1
  <2> QED BY <2>1 DEF Cut
<1>3. m[s.at] \in R
  BY <1>1, <1>2
<1>4. /\ t.at = s.at + 1 /\ t.nodes = s.nodes /\ t.node = Append(s.node, m[s.at])
      /\ t \in States(R)
  <2>1. Append(s.node, m[s.at]) \in Seq(R) /\ s.at + 1 \in Int
    BY <1>1, <1>3, AppendProperties
  <2> HIDE DEF k
  <2> QED BY <1>1, <2>1 DEF States
<1>5. t.node = Between(m, e[k], t.at) /\ NoEnd(m, e[k], t.at)
  <2>1. t.node = Between(m, e[k], t.at)
    BY <1>1, <1>2, <1>4, BetweenExtends
  <2>2. NoEnd(m, e[k], t.at)
    BY <1>1, <1>2, <1>4 DEF NoEnd
  <2> QED BY <2>1, <2>2
<1>6. \A i \in 1..k : (Configured(s) /\ i = 3) \/
           /\ e[i - 1] < e[i] /\ e[i] < t.at /\ m[e[i]] = "NL"
           /\ s.nodes[i] = Between(m, e[i - 1], e[i])
           /\ NoEnd(m, e[i - 1], e[i])
  <2> SUFFICES ASSUME NEW i \in 1..k, ~(Configured(s) /\ i = 3)
               PROVE  /\ e[i - 1] < e[i] /\ e[i] < t.at /\ m[e[i]] = "NL"
                      /\ s.nodes[i] = Between(m, e[i - 1], e[i])
                      /\ NoEnd(m, e[i - 1], e[i])
    OBVIOUS
  <2>1. /\ e[i - 1] < e[i] /\ e[i] < s.at /\ m[e[i]] = "NL"
        /\ s.nodes[i] = Between(m, e[i - 1], e[i])
        /\ NoEnd(m, e[i - 1], e[i])
    BY DEF Cut
  <2>2. e[i] \in Nat
    BY <1>1, <1>2
  <2> QED BY <2>1, <2>2, <1>1, <1>4
<1>7. (Configured(t) <=> Configured(s)) /\ ConfigSize(t) = ConfigSize(s)
  BY <1>4 DEF Configured, ConfigSize
<1>8. /\ e[0] = 0 /\ e \in [0..k -> Nat]
      /\ Configured(s) =>
         /\ ConfigSize(s) >= 0 /\ e[3] = e[2] + ConfigSize(s) /\ e[3] < Len(m)
         /\ s.nodes[3] = [i \in 1..ConfigSize(s) |-> Word(m[e[2] + i])]
  BY DEF Cut
<1>9. t.at \in Nat /\ e[k] < t.at /\ t.at <= Len(m) + 1
  BY <1>1, <1>2, <1>4
<1>10. Cut(m, t, e)
  BY <1>4, <1>5, <1>6, <1>7, <1>8, <1>9, Zenon DEF Cut
<1> QED BY <1>4, <1>10

\* ReadSymbol between two lines, or in one.
LEMMA SymbolRead ==
    ASSUME NEW R, NEW m \in Seq(R), NEW s \in States(R), NEW e, Cut(m, s, e),
           ~AtConfig(s), s.at <= Len(m), ~s.overrun, ~s.tooMany,
           Len(m) <= BufferSize => ~s.astray,
           Len(s.nodes) < MSG_MAX_NODES, NEW stray, NEW t, t = ReadSymbol(m, s, stray)
    PROVE  t \in States(R) /\ LoopInv(m, t) /\ Scanning(m, t) /\ t.at = s.at + 1
<1>1. s.at \in Nat /\ Len(s.nodes) \in Nat /\ Len(s.nodes) <= 4
  BY DEF States, Cut, MSG_MAX_NODES
<1>a. SymbolAt(m, s.at, stray) = m[s.at]
  <2>1. s.at \in 1..Len(m)
    <3>1. 0 < s.at
      <4>1. e[Len(s.nodes)] \in Nat /\ e[Len(s.nodes)] < s.at
        <5>1. Len(s.nodes) \in 0..Len(s.nodes)
          BY <1>1
        <5> QED BY <5>1 DEF Cut
      <4> QED BY <1>1, <4>1
    <3> QED BY <1>1, <3>1
  <2> QED BY <2>1 DEF SymbolAt
<1>2. CASE m[s.at] = "NL"
  <2>1. t = EndOfLine(s)
    BY <1>a, <1>2 DEF ReadSymbol, EndOfLine
  <2>2. /\ t \in States(R) /\ t.at = s.at + 1 /\ Len(t.nodes) = Len(s.nodes) + 1
        /\ \E g : Cut(m, t, g) /\ g[Len(t.nodes)] = s.at
    <3>1. m[s.at] = "NL"
      BY <1>2
    <3>2. \E g : Cut(m, t, g) /\ g[Len(t.nodes)] = s.at
      BY <3>1, <2>1, LineEnded, SMTT(30)
    <3>3. /\ t \in States(R) /\ t.at = s.at + 1 /\ Len(t.nodes) = Len(s.nodes) + 1
      BY <3>1, <2>1, LineEnded, SMTT(30)
    <3> QED BY <3>2, <3>3
  <2>3. ~t.overrun /\ ~t.tooMany /\ (Len(m) <= BufferSize => ~t.astray)
    BY <2>1 DEF States, EndOfLine
  <2>4. Len(t.nodes) <= MSG_MAX_NODES
    BY <1>1, <2>2 DEF MSG_MAX_NODES
  <2>5. PICK g : Cut(m, t, g) /\ g[Len(t.nodes)] = s.at
    BY <2>2
  <2>6. /\ AtConfig(t) => t.at = g[2] + 1
        /\ Len(t.nodes) = MSG_MAX_NODES => t.at = g[MSG_MAX_NODES] + 1
    BY <2>2, <2>5, Zenon DEF AtConfig
  <2>7. Scanning(m, t)
    BY <2>3, <2>5, <2>6, Zenon DEF Scanning
  <2> QED BY <2>2, <2>3, <2>4, <2>7, Zenon DEF LoopInv
<1>3. CASE m[s.at] # "NL"
  <2>1. t = [s EXCEPT !.node = Append(@, m[s.at]), !.at = @ + 1]
    BY <1>a, <1>3 DEF ReadSymbol
  <2>2. t \in States(R) /\ t.at = s.at + 1 /\ t.nodes = s.nodes /\ Cut(m, t, e)
    BY <1>3, <2>1, SymbolAdded
  <2>3. ~t.overrun /\ ~t.tooMany /\ (Len(m) <= BufferSize => ~t.astray)
    BY <2>1 DEF States
  <2>4. ~AtConfig(t)
    BY <2>2 DEF AtConfig
  <2>6. Len(t.nodes) <= MSG_MAX_NODES /\ Len(t.nodes) # MSG_MAX_NODES
    <3>1. Len(t.nodes) = Len(s.nodes)
      BY <2>2
    <3>2. \A l \in Nat : l <= 4 => l <= MSG_MAX_NODES /\ l # MSG_MAX_NODES
      BY DEF MSG_MAX_NODES
    <3> QED BY <1>1, <3>1, <3>2, Zenon
  <2>5. Scanning(m, t)
    BY <2>2, <2>3, <2>4, <2>6, Zenon DEF Scanning
  <2> QED BY <2>2, <2>3, <2>5, <2>6, Zenon DEF LoopInv
<1> QED BY <1>2, <1>3

\* What the first two lines of a configuration are.
LEMMA TwoLines ==
    ASSUME NEW R, NEW m \in Seq(R), NEW s \in States(R), NEW e, Cut(m, s, e),
           Len(s.nodes) >= 2, s.nodes[1] = <<"TCP_SET_CFG">>
    PROVE  /\ e[1] = 2 /\ e[2] \in Nat /\ e[2] >= 3 /\ e[2] < s.at
           /\ m[1] = "TCP_SET_CFG" /\ m[2] = "NL" /\ m[e[2]] = "NL"
           /\ NoEnd(m, 2, e[2]) /\ s.nodes[2] = Between(m, 2, e[2])
<1>0. Len(s.nodes) \in Nat /\ s.at \in Nat /\ s.at <= Len(m) + 1
  BY DEF States, Cut
<1>1. {0, 1, 2} \subseteq 0..Len(s.nodes) /\ {1, 2} \subseteq 1..Len(s.nodes)
  BY <1>0
<1>2. /\ e[0] = 0 /\ e[1] \in Nat /\ e[2] \in Nat
      /\ e[0] < e[1] /\ e[1] < s.at /\ m[e[1]] = "NL"
      /\ s.nodes[1] = Between(m, e[0], e[1])
      /\ e[1] < e[2] /\ e[2] < s.at /\ m[e[2]] = "NL"
      /\ s.nodes[2] = Between(m, e[1], e[2]) /\ NoEnd(m, e[1], e[2])
  <2>1. ASSUME NEW i \in {1, 2}
        PROVE  /\ e[i - 1] < e[i] /\ e[i] < s.at /\ m[e[i]] = "NL"
               /\ s.nodes[i] = Between(m, e[i - 1], e[i])
               /\ NoEnd(m, e[i - 1], e[i])
    BY <1>1 DEF Cut
  <2>2. e \in [0..Len(s.nodes) -> Nat] /\ e[0] = 0
    BY DEF Cut
  <2>3. e[1] \in Nat /\ e[2] \in Nat
    BY <1>1, <2>2
  <2>4. 1 - 1 = 0 /\ 2 - 1 = 1
    OBVIOUS
  <2> QED BY <2>1, <2>2, <2>3, <2>4
<1>3. /\ Len(s.nodes[1]) = e[1] - 1
      /\ \A j \in 1..e[1] - e[0] - 1 : Between(m, e[0], e[1])[j] = m[e[0] + j]
  <2>1. e[0] \in Nat /\ e[1] \in Nat /\ e[0] < e[1] /\ e[1] <= Len(m) + 1
    BY <1>0, <1>2
  <2>2. /\ Len(Between(m, e[0], e[1])) = e[1] - e[0] - 1
        /\ \A j \in 1..e[1] - e[0] - 1 : Between(m, e[0], e[1])[j] = m[e[0] + j]
    BY <2>1, BetweenType, Zenon
  <2>3. e[1] - e[0] - 1 = e[1] - 1
    BY <1>2
  <2> QED BY <1>2, <2>2, <2>3
<1>4. Len(<<"TCP_SET_CFG">>) = 1
  OBVIOUS
<1>5. e[1] = 2
  BY <1>2, <1>3, <1>4
<1>6. m[1] = "TCP_SET_CFG"
  <2>2. Between(m, e[0], e[1])[1] = m[1]
    BY <1>2, <1>3, <1>5
  <2>3. s.nodes[1][1] = "TCP_SET_CFG"
    OBVIOUS
  <2> QED BY <1>2, <2>2, <2>3
<1> QED BY <1>2, <1>5, <1>6

\* The text of a configuration that is all there.
LEMMA StreamRead ==
    ASSUME NEW R, "NL" \in R, NEW m \in Seq(R), NEW s \in States(R), ~s.overrun,
           NEW e, Cut(m, s, e), AtConfig(s), s.at = e[2] + 1,
           ConfigSize(s) >= 0, ConfigSize(s) + e[2] < Len(m),
           Len(m) <= BufferSize => ~s.astray,
           NEW t, t = ConfigStream(m, s)
    PROVE  /\ t \in States(R) /\ t.at = s.at + ConfigSize(s) /\ Len(t.nodes) = 3
           /\ ~t.overrun /\ t.tooMany = s.tooMany
           /\ Len(m) <= BufferSize => ~t.astray
           /\ \E g : Cut(m, t, g)
<1> DEFINE size == ConfigSize(s)
           stream == [i \in 1..size |-> Word(m[e[2] + i])]
           g == [i \in 0..3 |-> IF i = 3 THEN e[2] + size ELSE e[i]]
<1>1. size \in Nat
  BY AtoiType DEF ConfigSize
<1>2. /\ s.at \in Nat /\ s.nodes \in Seq(Seq(R)) /\ s.node \in Seq(R)
      /\ s.tooMany \in BOOLEAN /\ s.overrun \in BOOLEAN /\ s.astray \in BOOLEAN
  BY DEF States, Cut
<1>3. /\ Len(s.nodes) = 2 /\ s.nodes[1] = <<"TCP_SET_CFG">>
      /\ e \in [0..2 -> Nat] /\ e[0] = 0 /\ e[2] \in Nat
  BY DEF AtConfig, Cut
<1>4. stream \in Seq(R)
  <2>1. ASSUME NEW i \in 1..size PROVE Word(m[e[2] + i]) \in R
    <3>1. e[2] + i \in 1..Len(m)
      BY <1>1, <1>3
    <3>2. m[e[2] + i] \in R
      BY <3>1
    <3> QED BY <3>2 DEF Word
  <2>2. stream \in [1..size -> R]
    BY <2>1
  <2> QED BY <1>1, <2>2, FunctionIsSeq
<1>5. t = [s EXCEPT !.nodes = Append(@, stream), !.node = <<>>, !.at = @ + size,
                    !.overrun = FALSE,
                    !.astray = size + s.at \notin 0..BufferSize]
  <2>1. s.at - 1 = e[2] /\ size >= 0 /\ ~(size < 0)
    BY <1>1, <1>3
  <2>2. size = Atoi(s.nodes[2]) /\ size + e[2] < Len(m)
    BY DEF ConfigSize
  <2>3. (size < 0 /\ size + e[2] >= 0) = FALSE
    BY <2>1
  <2> HIDE DEF size
  <2> QED BY <2>1, <2>2, <2>3, Zenon DEF ConfigStream
<1> HIDE DEF stream, size, g
<1>6. /\ t.nodes = Append(s.nodes, stream) /\ t.node = <<>> /\ t.at = s.at + size
      /\ ~t.overrun /\ t.tooMany = s.tooMany /\ t \in States(R) /\ t.at \in Nat
      /\ t.astray = (size + s.at \notin 0..BufferSize)
  <2>1. Append(s.nodes, stream) \in Seq(Seq(R)) /\ <<>> \in Seq(R)
    BY <1>2, <1>4, AppendProperties
  <2>2. s.at + size \in Nat /\ s.at + size \in Int
    BY <1>1, <1>2
  <2>3. (size + s.at \notin 0..BufferSize) \in BOOLEAN
    OBVIOUS
  <2>4. t \in States(R)
    BY <1>2, <1>5, <2>1, <2>2, <2>3 DEF States
  <2> QED BY <1>2, <1>5, <2>2, <2>4 DEF States
<1>z. s.at = e[2] + 1 /\ size + e[2] < Len(m)
  BY DEF size
<1>a. Len(m) <= BufferSize => ~t.astray
  <2>1. size + s.at <= Len(m) /\ BufferSize \in Nat /\ size + s.at \in Nat
    BY <1>1, <1>2, <1>3, <1>z, NumberAssumption
  <2>2. ASSUME Len(m) <= BufferSize PROVE size + s.at \in 0..BufferSize
    <3> DEFINE q == size + s.at
               l == Len(m)
    <3>1. q \in Nat /\ q <= l /\ l \in Nat /\ l <= BufferSize /\ BufferSize \in Nat
      BY <2>1, <2>2
    <3> HIDE DEF q, l
    <3>2. q \in 0..BufferSize
      BY <3>1
    <3> QED BY <3>2 DEF q
  <2> QED BY <1>6, <2>2, Zenon
<1>7. /\ Len(t.nodes) = 3 /\ t.nodes[3] = stream
      /\ t.nodes[1] = s.nodes[1] /\ t.nodes[2] = s.nodes[2]
  <2>1. stream \in Seq(R)
    BY <1>2, <1>4
  <2>2. /\ Len(t.nodes) = Len(s.nodes) + 1 /\ t.nodes[Len(s.nodes) + 1] = stream
        /\ \A i \in 1..Len(s.nodes) : t.nodes[i] = s.nodes[i]
    BY <1>2, <1>6, <2>1, AppendProperties
  <2> QED BY <1>3, <2>2
<1>8. /\ g \in [0..3 -> Nat] /\ g[3] = e[2] + size
      /\ g[0] = e[0] /\ g[1] = e[1] /\ g[2] = e[2]
  BY <1>1, <1>3 DEF g
<1>9. Configured(t) /\ ConfigSize(t) = size
  BY <1>3, <1>7 DEF Configured, ConfigSize, size
<1>10. ASSUME NEW i \in {1, 2}
       PROVE  /\ g[i - 1] < g[i] /\ g[i] < t.at /\ m[g[i]] = "NL"
              /\ t.nodes[i] = Between(m, g[i - 1], g[i])
              /\ NoEnd(m, g[i - 1], g[i])
  <2>1. /\ e[i - 1] < e[i] /\ e[i] < s.at /\ m[e[i]] = "NL"
        /\ s.nodes[i] = Between(m, e[i - 1], e[i])
        /\ NoEnd(m, e[i - 1], e[i])
    BY <1>3 DEF Cut
  <2>2. g[i - 1] = e[i - 1] /\ g[i] = e[i] /\ e[i] \in Nat
    BY <1>3, <1>8
  <2>3. e[i] < s.at => e[i] < t.at
    BY <1>1, <1>2, <1>6, <2>2
  <2>4. t.nodes[i] = s.nodes[i]
    BY <1>7
  <2> QED BY <2>1, <2>2, <2>3, <2>4
<1>11. /\ g[3] < t.at /\ t.at <= Len(m) + 1 /\ t.at = g[3] + 1
  <2>1. t.at = g[3] + 1 /\ g[3] \in Nat
    BY <1>1, <1>2, <1>3, <1>6, <1>8, <1>z
  <2>2. g[3] < Len(m) /\ Len(m) \in Nat
    BY <1>1, <1>3, <1>8, <1>z
  <2> QED BY <2>1, <2>2
<1>12. t.node = Between(m, g[3], t.at) /\ NoEnd(m, g[3], t.at)
  BY <1>6, <1>8, <1>11 DEF Between, NoEnd
<1>13. t.nodes[3] = [i \in 1..ConfigSize(t) |-> Word(m[g[2] + i])]
  BY <1>7, <1>8, <1>9, Zenon DEF stream
<1>14. ConfigSize(t) >= 0 /\ g[3] = g[2] + ConfigSize(t) /\ g[3] < Len(m)
  BY <1>1, <1>3, <1>8, <1>9 DEF size
<1>15. \A i \in 1..3 : i = 3 \/ i \in {1, 2}
  OBVIOUS
<1>16. Cut(m, t, g)
  BY <1>3, <1>7, <1>8, <1>9, <1>10, <1>11, <1>12, <1>13, <1>14, <1>15 DEF Cut
<1> QED BY <1>6, <1>7, <1>a, <1>16 DEF size

\* What ReadSymbol does with any symbol.
Taken(m, s, t, stray) ==
    /\ t.at = s.at + 1 /\ t.tooMany = s.tooMany /\ t.overrun = s.overrun
    /\ t.nodes = IF SymbolAt(m, s.at, stray) = "NL" THEN Append(s.nodes, s.node)
                                                    ELSE s.nodes

LEMMA SymbolTaken ==
    ASSUME NEW R, "NL" \in R, "NUL" \in R, NEW m \in Seq(R), NEW stray \in R,
           NEW s \in States(R), NEW t, t = ReadSymbol(m, s, stray)
    PROVE  t \in States(R) /\ Taken(m, s, t, stray)
<1> DEFINE c == SymbolAt(m, s.at, stray)
<1>1. /\ s.at \in Int /\ s.nodes \in Seq(Seq(R)) /\ s.node \in Seq(R)
      /\ s.tooMany \in BOOLEAN /\ s.overrun \in BOOLEAN /\ s.astray \in BOOLEAN
  BY DEF States
<1>2. c \in R
  <2>1. s.at \in 1..Len(m) => m[s.at] \in R
    OBVIOUS
  <2> QED BY <2>1 DEF SymbolAt
<1>3. s.at + 1 \in Int /\ <<>> \in Seq(R)
  BY <1>1
<1> HIDE DEF c
<1>4. CASE c = "NL"
  <2>1. t = [s EXCEPT !.nodes = Append(@, s.node), !.node = <<>>, !.at = @ + 1]
    BY <1>4 DEF ReadSymbol, c
  <2>2. Append(s.nodes, s.node) \in Seq(Seq(R))
    BY <1>1, AppendProperties
  <2> QED BY <1>3, <1>4, <2>1, <2>2 DEF States, Taken, c
<1>5. CASE c # "NL"
  <2>1. t = [s EXCEPT !.node = Append(@, c), !.at = @ + 1]
    BY <1>5 DEF ReadSymbol, c
  <2>2. Append(s.node, c) \in Seq(R)
    BY <1>1, <1>2, AppendProperties
  <2> QED BY <1>3, <1>5, <2>1, <2>2 DEF States, Taken, c
<1> QED BY <1>4, <1>5

\* The text of a configuration that is not all there, or whose size is negative:
\* the loop ends, or starts again.
LEMMA StreamMissing ==
    ASSUME NEW R, "NL" \in R, "NUL" \in R, NEW m \in Seq(R), NEW stray \in R,
           NEW s \in States(R), ~s.tooMany,
           NEW e, Cut(m, s, e), AtConfig(s), s.at = e[2] + 1, s.at <= Len(m),
           ~(ConfigSize(s) >= 0 /\ ConfigSize(s) + e[2] < Len(m)),
           NEW t, t = ReadSymbol(m, ConfigStream(m, s), stray)
    PROVE  /\ t \in States(R) /\ Len(t.nodes) \in {3, 4} /\ ~t.tooMany
           /\ CutOff(m, t) \/ (Restarted(m, t) /\ t.at = 1)
<1> DEFINE size == ConfigSize(s)
           b == e[2]
           u == ConfigStream(m, s)
<1>1. size \in Int
  BY AtoiType DEF ConfigSize
<1>2. /\ s.at \in Nat /\ s.nodes \in Seq(Seq(R)) /\ s.node \in Seq(R)
      /\ s.tooMany \in BOOLEAN /\ s.overrun \in BOOLEAN /\ s.astray \in BOOLEAN
  BY DEF States, Cut
<1>3. Len(s.nodes) = 2 /\ s.nodes[1] = <<"TCP_SET_CFG">>
  BY DEF AtConfig
<1>4. /\ b \in Nat /\ b >= 3
      /\ m[1] = "TCP_SET_CFG" /\ m[2] = "NL" /\ m[b] = "NL"
      /\ NoEnd(m, 2, b) /\ s.nodes[2] = Between(m, 2, b)
  <2>1. Len(s.nodes) >= 2
    BY <1>3
  <2> QED BY <1>3, <2>1, TwoLines
<1>5. u = [s EXCEPT !.nodes = Append(@, <<>>), !.node = <<>>, !.at = @ + size,
                    !.overrun = size < 0 /\ size + b >= 0,
                    !.astray = size + s.at \notin 0..BufferSize]
  <2>1. s.at - 1 = b
    BY <1>4
  <2>2. size = Atoi(s.nodes[2]) /\ ~(size >= 0 /\ size + b < Len(m))
    BY DEF ConfigSize
  <2> HIDE DEF size, b
  <2> QED BY <2>1, <2>2, Zenon DEF ConfigStream, u
<1>a. s.at = b + 1 /\ b + 1 <= Len(m) /\ ~(size >= 0 /\ size + b < Len(m))
  BY DEF b, size
<1>b. size = SizeAt(m, b)
  BY <1>4 DEF ConfigSize, SizeAt
<1>c. t = ReadSymbol(m, u, stray)
  OBVIOUS
<1> HIDE DEF size, b, u
<1>6. /\ u.nodes = Append(s.nodes, <<>>) /\ u.node = <<>> /\ ~u.tooMany
      /\ u.at = s.at + size /\ u \in States(R)
      /\ u.overrun = (size < 0 /\ size + b >= 0)
  <2>1. Append(s.nodes, <<>>) \in Seq(Seq(R)) /\ <<>> \in Seq(R)
    BY <1>2, AppendProperties
  <2>2. s.at + size \in Int
    BY <1>1, <1>2
  <2>3. (size < 0 /\ size + b >= 0) \in BOOLEAN /\ (size + s.at \notin 0..BufferSize) \in BOOLEAN
    OBVIOUS
  <2> QED BY <1>2, <1>5, <2>1, <2>2, <2>3 DEF States
<1>7. Len(u.nodes) = 3 /\ u.nodes[3] = <<>>
  <2>1. <<>> \in Seq(R)
    BY <1>2
  <2>2. Len(u.nodes) = Len(s.nodes) + 1 /\ u.nodes[Len(s.nodes) + 1] = <<>>
    BY <1>2, <1>6, <2>1, AppendProperties
  <2> QED BY <1>3, <2>2
<1>8. /\ t \in States(R) /\ t.at = u.at + 1 /\ ~t.tooMany /\ t.overrun = u.overrun
      /\ t.nodes = u.nodes \/ t.nodes = Append(u.nodes, <<>>)
  <2>1. t \in States(R) /\ Taken(m, u, t, stray)
    BY <1>c, <1>6, SymbolTaken, Zenon
  <2> QED BY <1>6, <2>1 DEF Taken
<1>9. Len(t.nodes) \in {3, 4} /\ t.nodes[Len(t.nodes)] = <<>>
  <2>1. CASE t.nodes = u.nodes
    BY <1>7, <2>1
  <2>2. CASE t.nodes = Append(u.nodes, <<>>)
    <3>1. u.nodes \in Seq(Seq(R)) /\ <<>> \in Seq(R)
      BY <1>6 DEF States
    <3>2. Len(t.nodes) = Len(u.nodes) + 1 /\ t.nodes[Len(u.nodes) + 1] = <<>>
      BY <2>2, <3>1, AppendProperties
    <3> QED BY <1>7, <3>2
  <2> QED BY <1>8, <2>1, <2>2
<1>10. NoSize(m, b)
  <2>1. b \in 3..Len(m) - 1
    BY <1>4, <1>a
  <2>2. SizeAt(m, b) < 0 \/ b + SizeAt(m, b) >= Len(m)
    BY <1>1, <1>4, <1>a, <1>b
  <2> QED BY <1>4, <2>1, <2>2 DEF NoSize, SizeLine
<1>11. t.at = b + 2 + size
  BY <1>1, <1>4, <1>6, <1>8, <1>a
<1>12. CASE size = -(b + 1)
  <2>1. t.at = 1 /\ 1 \in 1..b + 1 /\ ~(1 >= 3) /\ 1 # b + 1
    BY <1>4, <1>11, <1>12
  <2>2. ~(size + b >= 0)
    BY <1>4, <1>12
  <2>3. ~t.overrun
    BY <1>6, <1>8, <2>2
  <2>4. Len(t.nodes) >= 3
    <3>1. \A l \in {3, 4} : l >= 3
      OBVIOUS
    <3> QED BY <1>9, <3>1, Zenon
  <2>5. SizeAt(m, b) = -(b + 1)
    BY <1>b, <1>12
  <2>6. Restarted(m, t)
    BY <1>10, <2>1, <2>3, <2>4, <2>5, Zenon DEF Restarted
  <2> QED BY <1>8, <1>9, <2>1, <2>6
<1>13. CASE size # -(b + 1)
  <2>1. t.at \notin 1..Len(m) \/ t.overrun
    <3>1. CASE size >= 0
      <4>1. Len(m) \in Nat
        OBVIOUS
      <4> QED BY <1>1, <1>4, <1>a, <1>11, <3>1, <4>1
    <3>2. CASE size < 0 /\ size + b >= 0
      BY <1>6, <1>8, <3>2
    <3>3. CASE size < 0 /\ ~(size + b >= 0)
      BY <1>1, <1>4, <1>11, <1>13, <3>3
    <3> QED BY <1>1, <3>1, <3>2, <3>3
  <2>2. SizeAt(m, b) # -(b + 1)
    BY <1>b, <1>13
  <2>3. CutOff(m, t)
    BY <1>8, <1>9, <1>10, <2>1, <2>2, Zenon DEF CutOff
  <2> QED BY <1>8, <1>9, <2>3
<1> QED BY <1>12, <1>13

\* A symbol of the message that is read again.
LEMMA SymbolReread ==
    ASSUME NEW R, "NL" \in R, "NUL" \in R, NEW m \in Seq(R), NEW stray \in R,
           NEW s \in States(R), Restarted(m, s), ~s.tooMany,
           Len(s.nodes) < MSG_MAX_NODES, NEW t, t = ReadSymbol(m, s, stray)
    PROVE  /\ t \in States(R) /\ Restarted(m, t) /\ t.at = s.at + 1
           /\ Len(t.nodes) <= MSG_MAX_NODES /\ ~t.tooMany
<1>1. PICK b : /\ NoSize(m, b) /\ SizeAt(m, b) = -(b + 1)
               /\ s.at \in 1..b + 1 /\ Len(s.nodes) >= 3
               /\ s.at >= 3 => Len(s.nodes) >= 4
               /\ s.at = b + 1 => Len(s.nodes) >= 5
  BY DEF Restarted
<1>2. b \in 3..Len(m) - 1 /\ m[2] = "NL" /\ m[b] = "NL"
  BY <1>1 DEF NoSize, SizeLine
<1>3. /\ Len(m) \in Nat /\ s.nodes \in Seq(Seq(R)) /\ s.node \in Seq(R)
      /\ Len(s.nodes) \in {3, 4}
  <2>1. Len(m) \in Nat /\ s.nodes \in Seq(Seq(R)) /\ s.node \in Seq(R)
    BY DEF States
  <2>2. \A l \in Nat : l >= 3 /\ l < 5 => l \in {3, 4}
    OBVIOUS
  <2>3. Len(s.nodes) \in Nat /\ Len(s.nodes) >= 3 /\ Len(s.nodes) < 5
    BY <1>1, <2>1 DEF MSG_MAX_NODES
  <2> QED BY <2>1, <2>2, <2>3, Zenon
<1>4. s.at \in 1..b /\ s.at \in 1..Len(m)
  <2>1. s.at # b + 1
    <3>1. \A l \in {3, 4} : ~(l >= 5)
      OBVIOUS
    <3> QED BY <1>1, <1>3, <3>1, Zenon
  <2> QED BY <1>1, <1>2, <1>3, <2>1
<1>5. SymbolAt(m, s.at, stray) = m[s.at]
  BY <1>4 DEF SymbolAt
<1>6. /\ t \in States(R) /\ t.at = s.at + 1 /\ ~t.tooMany /\ ~t.overrun
      /\ m[s.at] = "NL" => t.nodes = Append(s.nodes, s.node)
      /\ m[s.at] # "NL" => t.nodes = s.nodes
  <2>1. ~s.overrun
    BY DEF Restarted
  <2>2. t \in States(R) /\ Taken(m, s, t, stray)
    BY SymbolTaken, Zenon
  <2> QED BY <1>5, <2>1, <2>2 DEF Taken
<1>7. Len(Append(s.nodes, s.node)) = Len(s.nodes) + 1
  BY <1>3, AppendProperties
<1> DEFINE l == Len(s.nodes)
           k == Len(t.nodes)
<1>8. k \in {l, l + 1} /\ (m[s.at] = "NL" => k = l + 1)
  BY <1>6, <1>7
<1>a. l \in {3, 4} /\ (s.at >= 3 => l >= 4)
  BY <1>1, <1>3
<1> HIDE DEF l, k
<1>9. t.at \in 1..b + 1 /\ k >= 3
  BY <1>2, <1>4, <1>6, <1>8, <1>a
<1>10. t.at >= 3 => k >= 4
  <2> SUFFICES ASSUME t.at >= 3 PROVE k >= 4
    OBVIOUS
  <2>1. s.at = 2 \/ s.at >= 3
    BY <1>4, <1>6
  <2>2. CASE s.at = 2
    <3>1. k = l + 1
      BY <1>2, <1>8, <2>2
    <3> QED BY <1>a, <3>1
  <2>3. CASE s.at >= 3  BY <1>8, <1>a, <2>3
  <2> QED BY <2>1, <2>2, <2>3
<1>11. t.at = b + 1 => k >= 5
  <2> SUFFICES ASSUME t.at = b + 1 PROVE k >= 5
    OBVIOUS
  <2>1. s.at = b /\ s.at >= 3
    BY <1>2, <1>4, <1>6
  <2>2. l >= 4 /\ k = l + 1
    BY <1>2, <1>8, <1>a, <2>1
  <2> QED BY <1>a, <2>2
<1>12. Restarted(m, t)
  BY <1>1, <1>6, <1>9, <1>10, <1>11, Zenon DEF Restarted, k
<1>13. k <= MSG_MAX_NODES
  BY <1>8, <1>a DEF MSG_MAX_NODES
<1> QED BY <1>6, <1>12, <1>13 DEF k

\* After k rounds the loop has stopped or is behind the k-th symbol, the ones
\* that are read again counting twice.
Ahead(m, s, k) == \/ Over(m, s)
                  \/ Scanning(m, s) /\ s.at > k
                  \/ Restarted(m, s) /\ s.at + Len(m) > k

\* A round that finds no room.
LEMMA RoundFull ==
    ASSUME NEW R, NEW m \in Seq(R), NEW s \in States(R), LoopInv(m, s), ~Over(m, s),
           Len(s.nodes) >= MSG_MAX_NODES, NEW t, t = [s EXCEPT !.tooMany = TRUE]
    PROVE  t \in States(R) /\ LoopInv(m, t) /\ Over(m, t)
<1>1. /\ t \in States(R) /\ t.tooMany /\ t.nodes = s.nodes /\ t.at = s.at
      /\ t.node = s.node /\ t.overrun = s.overrun /\ t.astray = s.astray
  BY DEF States
<1>2. s.at \in 1..Len(m) /\ ~s.overrun
  BY DEF Over
<1>3. Len(t.nodes) = MSG_MAX_NODES
  <2>1. Len(s.nodes) \in Int /\ MSG_MAX_NODES \in Int
    BY DEF States, MSG_MAX_NODES
  <2>2. Len(s.nodes) <= MSG_MAX_NODES
    BY DEF LoopInv
  <2> QED BY <1>1, <2>1, <2>2
<1>4. ASSUME Scanning(m, s) PROVE Scanning(m, t)
  <2>1. PICK e : /\ Cut(m, s, e) /\ (AtConfig(s) => s.at = e[2] + 1)
                 /\ Len(s.nodes) = MSG_MAX_NODES => s.at = e[MSG_MAX_NODES] + 1
    BY <1>4 DEF Scanning
  <2>2. (Configured(t) <=> Configured(s)) /\ ConfigSize(t) = ConfigSize(s)
        /\ (AtConfig(t) <=> AtConfig(s))
    BY <1>1 DEF Configured, ConfigSize, AtConfig
  <2>3. Cut(m, t, e)
    BY <1>1, <2>1, <2>2 DEF Cut
  <2>4. ~t.overrun /\ (Len(m) <= BufferSize => ~t.astray)
    BY <1>1, <1>4 DEF Scanning
  <2> QED BY <1>1, <2>1, <2>2, <2>3, <2>4, Zenon DEF Scanning
<1>5. ASSUME Restarted(m, s) PROVE Restarted(m, t)
  BY <1>1, <1>5, Zenon DEF Restarted
<1>6. ~CutOff(m, s)
  BY <1>2 DEF CutOff
<1>7. Scanning(m, t) \/ Restarted(m, t)
  BY <1>4, <1>5, <1>6 DEF LoopInv
<1>8. MSG_MAX_NODES <= MSG_MAX_NODES
  BY DEF MSG_MAX_NODES
<1> QED BY <1>1, <1>2, <1>3, <1>7, <1>8 DEF LoopInv, Over

\* A round keeps the invariant and goes on.
LEMMA RoundKeeps ==
    ASSUME NEW R, "NL" \in R, "NUL" \in R, NEW m \in Seq(R), NEW stray \in R,
           NEW s \in States(R), LoopInv(m, s), NEW k \in Nat, Ahead(m, s, k),
           NEW t, t = ParseRound(m, s, stray)
    PROVE  t \in States(R) /\ LoopInv(m, t) /\ Ahead(m, t, k + 1)
<1>1. Len(m) \in Nat /\ s.at \in Int /\ Len(s.nodes) \in Nat
  BY DEF States
<1>2. CASE Over(m, s)
  <2>1. t = s
    BY <1>2 DEF ParseRound
  <2> QED BY <1>2, <2>1 DEF Ahead
<1>3. CASE ~Over(m, s) /\ Len(s.nodes) >= MSG_MAX_NODES
  <2>1. t = [s EXCEPT !.tooMany = TRUE]
    BY <1>3 DEF ParseRound
  <2> QED BY <1>3, <2>1, RoundFull DEF Ahead
<1>4. CASE ~Over(m, s) /\ ~(Len(s.nodes) >= MSG_MAX_NODES)
  <2>0. /\ s.at \in 1..Len(m) /\ ~s.tooMany /\ ~s.overrun
        /\ Len(s.nodes) < MSG_MAX_NODES
    BY <1>1, <1>4 DEF Over, MSG_MAX_NODES
  <2>1. CASE Scanning(m, s) /\ s.at > k
    <3>1. PICK e : Cut(m, s, e) /\ (AtConfig(s) => s.at = e[2] + 1)
      BY <2>1 DEF Scanning
    <3>2. Len(m) <= BufferSize => ~s.astray
      BY <2>1 DEF Scanning
    <3>3. CASE ~AtConfig(s)
      <4>1. t = ReadSymbol(m, s, stray)
        BY <1>4, <3>3 DEF ParseRound
      <4>2. t \in States(R) /\ LoopInv(m, t) /\ Scanning(m, t) /\ t.at = s.at + 1
        BY <2>0, <3>1, <3>2, <3>3, <4>1, SymbolRead
      <4> QED BY <1>1, <2>1, <4>2 DEF Ahead
    <3>4. CASE AtConfig(s)
      <4> DEFINE u == ConfigStream(m, s)
      <4>1. t = ReadSymbol(m, u, stray)
        BY <1>4, <3>4 DEF ParseRound
      <4>a. u = ConfigStream(m, s)
        OBVIOUS
      <4> HIDE DEF u
      <4>2. CASE ConfigSize(s) >= 0 /\ ConfigSize(s) + e[2] < Len(m)
        <5>1. /\ u \in States(R) /\ u.at = s.at + ConfigSize(s) /\ Len(u.nodes) = 3
              /\ ~u.overrun /\ u.tooMany = s.tooMany
              /\ Len(m) <= BufferSize => ~u.astray
              /\ \E g : Cut(m, u, g)
          BY <2>0, <3>1, <3>2, <3>4, <4>2, <4>a, StreamRead
        <5>2. PICK g : Cut(m, u, g)
          BY <5>1
        <5>3. e[2] \in Nat /\ ConfigSize(s) \in Int
          <6>1. Len(s.nodes) = 2
            BY <3>4 DEF AtConfig
          <6>2. e \in [0..2 -> Nat]
            BY <3>1, <6>1 DEF Cut
          <6> QED BY <6>2, AtoiType DEF ConfigSize
        <5>4. u.at <= Len(m) /\ u.at >= s.at /\ u.at \in Int
          BY <1>1, <3>1, <3>4, <4>2, <5>1, <5>3
        <5>5. ~AtConfig(u) /\ Len(u.nodes) < MSG_MAX_NODES
          BY <5>1 DEF AtConfig, MSG_MAX_NODES
        <5>6. ~u.tooMany
          BY <2>0, <5>1
        <5>7. t \in States(R) /\ LoopInv(m, t) /\ Scanning(m, t) /\ t.at = u.at + 1
          <6>1. ~u.overrun /\ (Len(m) <= BufferSize => ~u.astray) /\ u \in States(R)
            BY <5>1
          <6> QED BY <4>1, <5>2, <5>4, <5>5, <5>6, <6>1, SymbolRead
        <5> QED BY <1>1, <2>1, <5>4, <5>7 DEF Ahead
      <4>3. CASE ~(ConfigSize(s) >= 0 /\ ConfigSize(s) + e[2] < Len(m))
        <5>1. /\ t \in States(R) /\ Len(t.nodes) \in {3, 4} /\ ~t.tooMany
              /\ CutOff(m, t) \/ (Restarted(m, t) /\ t.at = 1)
          <6>1. s.at <= Len(m)
            BY <1>1, <2>0
          <6> QED BY <2>0, <3>1, <3>4, <4>1, <4>3, <4>a, <6>1, StreamMissing
        <5>2. LoopInv(m, t)
          <6>1. \A l \in {3, 4} : l <= MSG_MAX_NODES
            BY DEF MSG_MAX_NODES
          <6> QED BY <5>1, <6>1, Zenon DEF LoopInv
        <5>3. CutOff(m, t) => Over(m, t)
          BY DEF CutOff, Over
        <5>4. 1 + Len(m) > k + 1
          BY <1>1, <2>0, <2>1
        <5> QED BY <5>1, <5>2, <5>3, <5>4 DEF Ahead
      <4> QED BY <4>2, <4>3
    <3> QED BY <3>3, <3>4
  <2>2. CASE Restarted(m, s) /\ s.at + Len(m) > k
    <3>1. ~AtConfig(s)
      <4>1. Len(s.nodes) >= 3
        BY <2>2, Zenon DEF Restarted
      <4>2. ~(2 >= 3)
        OBVIOUS
      <4> QED BY <4>1, <4>2, Zenon DEF AtConfig
    <3>2. t = ReadSymbol(m, s, stray)
      BY <1>4, <3>1 DEF ParseRound
    <3>3. /\ t \in States(R) /\ Restarted(m, t) /\ t.at = s.at + 1
          /\ Len(t.nodes) <= MSG_MAX_NODES /\ ~t.tooMany
      BY <2>0, <2>2, <3>2, SymbolReread
    <3>4. t.at + Len(m) > k + 1
      BY <1>1, <2>2, <3>3
    <3> QED BY <3>3, <3>4 DEF LoopInv, Ahead
  <2> QED BY <1>4, <2>1, <2>2 DEF Ahead
<1> QED BY <1>2, <1>3, <1>4

LEMMA BeginKeeps ==
    ASSUME NEW R, NEW m \in Seq(R)
    PROVE  Begin \in States(R) /\ LoopInv(m, Begin) /\ Ahead(m, Begin, 0)
<1>1. /\ Begin.at = 1 /\ Begin.nodes = <<>> /\ Begin.node = <<>>
      /\ ~Begin.tooMany /\ ~Begin.overrun /\ ~Begin.astray /\ Len(Begin.nodes) = 0
  BY DEF Begin
<1>2. Begin \in States(R)
  BY DEF Begin, States
<1> DEFINE e == [i \in 0..0 |-> 0]
<1>3. e \in [0..0 -> Nat] /\ e[0] = 0
  OBVIOUS
<1>4. ~Configured(Begin) /\ ~AtConfig(Begin)
  BY <1>1 DEF Configured, AtConfig
<1>5. Between(m, 0, 1) = <<>> /\ NoEnd(m, 0, 1)
  BY DEF Between, NoEnd
<1>6. Len(m) \in Nat /\ 0 < 1 /\ 1 <= Len(m) + 1 /\ 1..0 = {}
  OBVIOUS
<1> HIDE DEF e
<1>7. Cut(m, Begin, e)
  BY <1>1, <1>3, <1>4, <1>5, <1>6 DEF Cut
<1>8. Scanning(m, Begin)
  BY <1>1, <1>4, <1>7 DEF Scanning, MSG_MAX_NODES
<1> QED BY <1>1, <1>2, <1>8 DEF LoopInv, Ahead, MSG_MAX_NODES

\* After two rounds for each symbol of a message, of any length and over any
\* alphabet, the loop has stopped: at the end, at a node too many, or with the
\* copy of a configuration out of memory.  What it holds then are the lines of
\* the message, unless the size of a configuration is negative or more than there
\* is.
THEOREM ParsedLines ==
    ASSUME NEW R, "NL" \in R, "NUL" \in R, NEW m \in Seq(R), NEW stray \in R
    PROVE  LET p == Parse(m, stray)
           IN  p \in States(R) /\ LoopInv(m, p) /\ Over(m, p)
<1> DEFINE n == 2 * Len(m)
<1>1. PICK f : /\ f[0] = Begin
               /\ \A k \in 0..n - 1 : f[k + 1] = ParseRound(m, f[k], stray)
               /\ Parse(m, stray) = f[n]
  BY ParseIsLoop
<1> DEFINE Good(k) == f[k] \in States(R) /\ LoopInv(m, f[k]) /\ Ahead(m, f[k], k)
           S == {k \in 0..n : Good(k)}
<1>2. Len(m) \in Nat /\ n \in Nat /\ n = Len(m) + Len(m)
  OBVIOUS
<1> HIDE DEF n
<1>3. Good(0)
  BY <1>1, BeginKeeps
<1>4. ASSUME NEW k \in 0..n - 1, Good(k) PROVE Good(k + 1)
  <2>1. f[k + 1] = ParseRound(m, f[k], stray) /\ k \in Nat
    BY <1>1, <1>2
  <2> QED BY <1>4, <2>1, RoundKeeps
<1> HIDE DEF Good
<1>5. 0 \in S /\ \A k \in 0..n - 1 : k \in S => k + 1 \in S
  BY <1>2, <1>3, <1>4
<1> HIDE DEF S
<1>6. n \in S
  <2>1. \A k \in 0..n : k \in S
    BY <1>2, <1>5, InductionUpTo, Zenon
  <2> QED BY <1>2, <2>1
<1>7. Good(n)
  BY <1>6 DEF S
<1> DEFINE p == f[n]
<1>8. p \in States(R) /\ LoopInv(m, p) /\ Ahead(m, p, n)
  BY <1>7 DEF Good
<1> HIDE DEF p
<1>9. ASSUME Scanning(m, p), p.at > n PROVE Over(m, p)
  <2>1. p.at \in Nat /\ p.at <= Len(m) + 1
    BY <1>9 DEF Scanning, Cut
  <2>2. p.at \notin 1..Len(m)
    BY <1>2, <1>9, <2>1
  <2> QED BY <2>2 DEF Over
<1>10. ~(Restarted(m, p) /\ p.at + Len(m) > n)
  <2> SUFFICES ASSUME Restarted(m, p), p.at + Len(m) > n PROVE FALSE
    OBVIOUS
  <2>1. PICK b : NoSize(m, b) /\ p.at \in 1..b + 1
    BY DEF Restarted
  <2>2. b \in 3..Len(m) - 1
    BY <2>1 DEF NoSize, SizeLine
  <2> QED BY <1>2, <2>1, <2>2
<1>11. Over(m, p)
  BY <1>8, <1>9, <1>10 DEF Ahead
<1> QED BY <1>1, <1>8, <1>11 DEF p

-----------------------------------------------------------------------------
(* The ends of the lines.                                                  *)

LEMMA Increasing ==
    ASSUME NEW n \in Nat, NEW e \in [0..n -> Nat], \A i \in 1..n : e[i - 1] < e[i]
    PROVE  \A j \in 0..n : \A i \in 0..n : i < j => e[i] < e[j]
<1> DEFINE S == {j \in 0..n : \A i \in 0..n : i < j => e[i] < e[j]}
<1>1. 0 \in S
  OBVIOUS
<1>2. ASSUME NEW j \in 0..n - 1, j \in S PROVE j + 1 \in S
  <2>1. e[j] < e[j + 1]
    BY j + 1 \in 1..n, (j + 1) - 1 = j
  <2>2. ASSUME NEW i \in 0..n, i < j + 1 PROVE e[i] < e[j + 1]
    <3>1. CASE i = j  BY <2>1, <3>1
    <3>2. CASE i < j
      <4>1. e[i] < e[j]
        BY <1>2, <3>2
      <4> QED BY <2>1, <4>1
    <3> QED BY <2>2, <3>1, <3>2
  <2> QED BY <2>2
<1> HIDE DEF S
<1>3. \A j \in 0..n : j \in S
  BY <1>1, <1>2, InductionUpTo, Zenon
<1> QED BY <1>3 DEF S

LEMMA CountEnds ==
    ASSUME NEW n \in Nat, NEW e \in [0..n -> Nat], \A i \in 1..n : e[i - 1] < e[i],
           NEW T, T = {e[i] : i \in 1..n}
    PROVE  IsFiniteSet(T) /\ Cardinality(T) = n
<1> DEFINE g == [i \in 1..n |-> e[i]]
<1>1. \A i, j \in 1..n : g[i] = g[j] => i = j
  <2> SUFFICES ASSUME NEW i \in 1..n, NEW j \in 1..n, i < j PROVE e[i] # e[j]
    OBVIOUS
  <2>1. i \in 0..n /\ j \in 0..n
    OBVIOUS
  <2>2. e[i] < e[j]
    BY <2>1, Increasing, Zenon
  <2>3. e[i] \in Nat
    BY <2>1
  <2> QED BY <2>2, <2>3
<1>2. g \in [1..n -> T] /\ \A t \in T : \E i \in 1..n : g[i] = t
  OBVIOUS
<1> HIDE DEF g
<1>3. g \in Bijection(1..n, T)
  BY <1>1, <1>2, Fun_IsBij
<1>4. ExistsBijection(1..n, T)
  BY <1>3, Zenon DEF ExistsBijection
<1>5. IsFiniteSet(1..n) /\ Cardinality(1..n) = n
  BY FS_Interval
<1> QED BY <1>4, <1>5, FS_Bijection, Zenon

\* A line that ends is one of those that were cut.
LEMMA EveryEnd ==
    ASSUME NEW R, NEW m \in Seq(R), NEW s \in States(R), NEW e, Cut(m, s, e),
           ~Configured(s)
    PROVE  /\ \A q \in 1..s.at - 1 : m[q] = "NL" => \E i \in 1..Len(s.nodes) : q = e[i]
           /\ \A i \in 1..Len(s.nodes) : /\ e[i] \in LineEnds(m) /\ e[i - 1] < e[i]
                                         /\ e[i] < s.at
<1> DEFINE k == Len(s.nodes)
           S == {j \in 0..k : \A q \in 1..e[j] : m[q] = "NL" =>
                                  \E i \in 1..k : q = e[i]}
<1>1. k \in Nat /\ s.at \in Nat
  BY DEF States, Cut
<1>2. /\ e \in [0..k -> Nat] /\ e[0] = 0 /\ e[k] < s.at /\ NoEnd(m, e[k], s.at)
      /\ s.at <= Len(m) + 1
      /\ \A i \in 1..k : /\ e[i - 1] < e[i] /\ e[i] < s.at /\ m[e[i]] = "NL"
                         /\ NoEnd(m, e[i - 1], e[i])
  BY DEF Cut
<1> HIDE DEF k
<1>3. 0 \in S
  BY <1>1, <1>2
<1>4. ASSUME NEW j \in 0..k - 1, j \in S PROVE j + 1 \in S
  <2>1. j + 1 \in 1..k /\ j + 1 \in 0..k /\ j \in 0..k /\ (j + 1) - 1 = j
    BY <1>1
  <2>2. e[j] < e[j + 1] /\ NoEnd(m, e[j], e[j + 1]) /\ e[j] \in Nat /\ e[j + 1] \in Nat
    BY <1>2, <2>1
  <2>3. ASSUME NEW q \in 1..e[j + 1], m[q] = "NL" PROVE \E i \in 1..k : q = e[i]
    <3>1. CASE q = e[j + 1]  BY <2>1, <3>1
    <3>2. CASE q \in 1..e[j]  BY <1>4, <2>3, <3>2
    <3>3. q = e[j + 1] \/ q \in 1..e[j]
      <4>1. ~(q \in e[j] + 1..e[j + 1] - 1)
        BY <2>2, <2>3 DEF NoEnd
      <4> QED BY <2>2, <4>1
    <3> QED BY <3>1, <3>2, <3>3
  <2> QED BY <2>1, <2>3
<1>5. \A j \in 0..k : j \in S
  <2> HIDE DEF S
  <2> QED BY <1>1, <1>3, <1>4, InductionUpTo, Zenon
<1>6. ASSUME NEW q \in 1..s.at - 1, m[q] = "NL" PROVE \E i \in 1..k : q = e[i]
  <2>1. k \in S /\ e[k] \in Nat
    BY <1>1, <1>2, <1>5
  <2>2. ~(q \in e[k] + 1..s.at - 1)
    BY <1>2, <1>6 DEF NoEnd
  <2>3. q \in 1..e[k]
    BY <1>1, <2>1, <2>2
  <2> QED BY <1>6, <2>1, <2>3
<1>7. ASSUME NEW i \in 1..k
      PROVE  e[i] \in LineEnds(m) /\ e[i - 1] < e[i] /\ e[i] < s.at
  <2>1. /\ e[i] \in Nat /\ e[i - 1] \in Nat
        /\ e[i - 1] < e[i] /\ e[i] < s.at /\ m[e[i]] = "NL"
    <3>1. i \in 0..k /\ i - 1 \in 0..k
      BY <1>1
    <3> QED BY <1>2, <3>1
  <2>2. e[i] \in 1..Len(m)
    BY <1>1, <1>2, <2>1, Len(m) \in Nat
  <2> QED BY <2>1, <2>2 DEF LineEnds
<1> QED BY <1>6, <1>7 DEF k

\* The first line of one word.
LEMMA FirstLine ==
    ASSUME NEW R, NEW m \in Seq(R), NEW s \in States(R), NEW e, Cut(m, s, e),
           Len(m) >= 2, m[1] # "NL", m[2] = "NL", s.at > 2
    PROVE  Len(s.nodes) >= 1 /\ e[1] = 2 /\ s.nodes[1] = <<m[1]>>
<1>1. Len(s.nodes) \in Nat /\ s.at \in Nat /\ e[0] = 0
      /\ e \in [0..Len(s.nodes) -> Nat] /\ NoEnd(m, e[Len(s.nodes)], s.at)
  BY DEF States, Cut
<1>2. Len(s.nodes) >= 1
  <2> SUFFICES ASSUME Len(s.nodes) = 0 PROVE FALSE
    BY <1>1
  <2>1. 2 \in 0 + 1..s.at - 1
    BY <1>1
  <2> QED BY <1>1, <2>1 DEF NoEnd
<1>3. 1 \in 1..Len(s.nodes) /\ 1 \in 0..Len(s.nodes) /\ 1 - 1 = 0
  BY <1>1, <1>2
<1>4. /\ e[1] \in Nat /\ e[0] < e[1] /\ m[e[1]] = "NL"
      /\ s.nodes[1] = Between(m, e[0], e[1]) /\ NoEnd(m, e[0], e[1])
  <2>1. ~(Configured(s) /\ 1 = 3)
    OBVIOUS
  <2> QED BY <1>1, <1>3, <2>1 DEF Cut
<1>5. e[1] = 2
  <2>1. e[1] # 1
    BY <1>4
  <2>2. ~(2 \in e[0] + 1..e[1] - 1)
    BY <1>4 DEF NoEnd
  <2> QED BY <1>1, <1>4, <2>1, <2>2
<1>6. Between(m, 0, 2) = <<m[1]>>
  BY DEF Between
<1> QED BY <1>1, <1>2, <1>4, <1>5, <1>6

-----------------------------------------------------------------------------
(* The protocol.                                                           *)

LEMMA CommandTable ==
    /\ "TCP_SET_CFG" \in TcpCommands /\ NodesOf["TCP_SET_CFG"] = 4
    /\ \A c \in TcpCommands : NodesOf[c] \in 2..4
    /\ "NL" \notin TcpCommands /\ TCP_CMD_NUM \notin TcpCommands
  BY DEF TcpCommands, NodesOf, TCP_CMD_NUM

\* m is a TCP_SET_CFG whose second line ends at b.
SetCfgUpTo(m, b) ==
    LET size == Atoi(Between(m, 2, b))
        last == b + size + 2
    IN  /\ b \in 3..Len(m) /\ m[b] = "NL" /\ NoEnd(m, 2, b)
        /\ size >= 0 /\ last <= Len(m) /\ m[last - 1] = "END" /\ m[last] = "NL"
        /\ NoEnd(m, last, Len(m) + 1)

LEMMA LineText ==
    ASSUME NEW R, NEW m \in Seq(R), NEW b \in 3..Len(m)
    PROVE  SubSeq(m, 3, b - 1) = Between(m, 2, b)
<1>1. /\ Between(m, 2, b) \in Seq(R) /\ Len(Between(m, 2, b)) = b - 3
      /\ \A j \in 1..b - 3 : Between(m, 2, b)[j] = m[2 + j]
  <2>1. b \in Nat /\ 2 \in Nat /\ 2 < b /\ b <= Len(m) + 1 /\ b - 2 - 1 = b - 3
    OBVIOUS
  <2> QED BY <2>1, BetweenType
<1>2. /\ SubSeq(m, 3, b - 1) \in Seq(R) /\ Len(SubSeq(m, 3, b - 1)) = b - 3
      /\ \A j \in 1..b - 3 : SubSeq(m, 3, b - 1)[j] = m[2 + j]
  <2>1. \A i \in 3..b - 1 : m[i] \in R
    OBVIOUS
  <2>2. 3 \in Int /\ b - 1 \in Int
    OBVIOUS
  <2>3. /\ SubSeq(m, 3, b - 1) \in Seq(R)
        /\ Len(SubSeq(m, 3, b - 1)) = IF 3 <= b - 1 THEN b - 1 - 3 + 1 ELSE 0
        /\ \A i \in 1..b - 1 - 3 + 1 : SubSeq(m, 3, b - 1)[i] = m[3 + i - 1]
    BY <2>1, <2>2, SubSeqProperties
  <2>4. \A i \in 1..b - 3 : i \in 1..b - 1 - 3 + 1 /\ 3 + i - 1 = 2 + i
    OBVIOUS
  <2>5. (IF 3 <= b - 1 THEN b - 1 - 3 + 1 ELSE 0) = b - 3
    OBVIOUS
  <2> QED BY <2>3, <2>4, <2>5
<1> QED BY <1>1, <1>2, SeqEqual

LEMMA SetCfgIs ==
    ASSUME NEW R, NEW m \in Seq(R)
    PROVE  IsSetCfg(m) <=> /\ Len(m) > 2 /\ m[1] = "TCP_SET_CFG" /\ m[2] = "NL"
                           /\ \E b : SetCfgUpTo(m, b)
<1>1. Len(m) \in Nat
  OBVIOUS
<1>2. ASSUME NEW b, b \in LineEnds(m), b > 2
      PROVE  /\ b \in 3..Len(m) /\ m[b] = "NL"
             /\ SubSeq(m, 3, b - 1) = Between(m, 2, b)
             /\ (\A j \in LineEnds(m) : j <= 2 \/ j >= b) <=> NoEnd(m, 2, b)
  <2>1. b \in 3..Len(m) /\ m[b] = "NL"
    BY <1>1, <1>2 DEF LineEnds
  <2>2. (\A j \in LineEnds(m) : j <= 2 \/ j >= b) <=> NoEnd(m, 2, b)
    BY <1>1, <2>1 DEF NoEnd, LineEnds
  <2> QED BY <2>1, <2>2, LineText
<1>3. ASSUME NEW last \in Int, last >= 0
      PROVE  (\A j \in LineEnds(m) : j <= last) <=> NoEnd(m, last, Len(m) + 1)
  BY <1>1, <1>3 DEF LineEnds, NoEnd
<1>4. ASSUME IsSetCfg(m) PROVE \E b : SetCfgUpTo(m, b)
  <2>1. PICK b \in LineEnds(m) :
           LET size == Atoi(SubSeq(m, 3, b - 1))
               last == b + size + 2
           IN  /\ b > 2 /\ \A j \in LineEnds(m) : j <= 2 \/ j >= b
               /\ size >= 0 /\ last <= Len(m)
               /\ m[last - 1] = "END" /\ m[last] = "NL"
               /\ \A j \in LineEnds(m) : j <= last
    BY <1>4, Zenon DEF IsSetCfg
  <2> DEFINE size == Atoi(Between(m, 2, b))
             last == b + size + 2
  <2>2. /\ b \in 3..Len(m) /\ m[b] = "NL" /\ NoEnd(m, 2, b)
        /\ SubSeq(m, 3, b - 1) = Between(m, 2, b)
    BY <1>2, <2>1
  <2>3. /\ size >= 0 /\ last <= Len(m) /\ m[last - 1] = "END" /\ m[last] = "NL"
        /\ \A j \in LineEnds(m) : j <= last
    BY <2>1, <2>2, Zenon
  <2>4. last \in Int /\ last >= 0
    BY <2>2, <2>3, AtoiType
  <2>5. NoEnd(m, last, Len(m) + 1)
    BY <1>3, <2>3, <2>4
  <2>6. SetCfgUpTo(m, b)
    BY <2>2, <2>3, <2>5, Zenon DEF SetCfgUpTo
  <2> QED BY <2>6
<1>5. ASSUME Len(m) > 2, m[1] = "TCP_SET_CFG", m[2] = "NL", NEW b, SetCfgUpTo(m, b)
      PROVE  IsSetCfg(m)
  <2> DEFINE size == Atoi(Between(m, 2, b))
             last == b + size + 2
  <2>1. /\ b \in 3..Len(m) /\ m[b] = "NL" /\ NoEnd(m, 2, b)
        /\ size >= 0 /\ last <= Len(m) /\ m[last - 1] = "END" /\ m[last] = "NL"
        /\ NoEnd(m, last, Len(m) + 1)
    BY <1>5, Zenon DEF SetCfgUpTo
  <2>2. b \in LineEnds(m) /\ b > 2
    BY <1>1, <2>1 DEF LineEnds
  <2>3. /\ SubSeq(m, 3, b - 1) = Between(m, 2, b)
        /\ \A j \in LineEnds(m) : j <= 2 \/ j >= b
    BY <1>2, <2>1, <2>2
  <2>4. last \in Int /\ last >= 0
    BY <2>1, AtoiType
  <2>5. \A j \in LineEnds(m) : j <= last
    BY <1>3, <2>1, <2>4
  <2> QED BY <1>5, <2>1, <2>2, <2>3, <2>5, Zenon DEF IsSetCfg
<1>6. IsSetCfg(m) => Len(m) > 2 /\ m[1] = "TCP_SET_CFG" /\ m[2] = "NL"
  BY Zenon DEF IsSetCfg
<1> QED BY <1>4, <1>5, <1>6

\* The second line end is where the configuration starts.
LEMMA SameSecond ==
    ASSUME NEW m, NEW b \in Nat, NEW d \in Nat, b > 2, d > 2, m[b] = "NL", m[d] = "NL",
           NoEnd(m, 2, b), NoEnd(m, 2, d)
    PROVE  b = d
<1>1. ~(b \in 2 + 1..d - 1) /\ ~(d \in 2 + 1..b - 1)
  BY DEF NoEnd
<1> QED BY <1>1

\* A TCP_SET_CFG is cut in its four lines.
LEMMA SetCfgCut ==
    ASSUME NEW R, NEW m \in Seq(R), NEW s \in States(R), NEW e, Cut(m, s, e),
           IsSetCfg(m), s.at > Len(m) \/ Len(s.nodes) >= 5
    PROVE  Configured(s) /\ Len(s.nodes) = 4 /\ s.nodes[4] = <<"END">>
<1> DEFINE k == Len(s.nodes)
<1>0. k \in Nat /\ s.at \in Nat /\ Len(m) \in Nat
  BY DEF States, Cut
<1>1. Len(m) > 2 /\ m[1] = "TCP_SET_CFG" /\ m[2] = "NL"
  BY SetCfgIs
<1>2. PICK b : SetCfgUpTo(m, b)
  BY SetCfgIs
<1> DEFINE size == Atoi(Between(m, 2, b))
           last == b + size + 2
<1>3. /\ b \in 3..Len(m) /\ m[b] = "NL" /\ NoEnd(m, 2, b)
      /\ size >= 0 /\ last <= Len(m) /\ m[last - 1] = "END" /\ m[last] = "NL"
      /\ NoEnd(m, last, Len(m) + 1) /\ size \in Int
  BY <1>2, AtoiType, Zenon DEF SetCfgUpTo
<1>4. /\ e \in [0..k -> Nat] /\ e[0] = 0 /\ e[k] < s.at /\ NoEnd(m, e[k], s.at)
      /\ s.at <= Len(m) + 1
      /\ \A i \in 1..k : (Configured(s) /\ i = 3) \/
           /\ e[i - 1] < e[i] /\ e[i] < s.at /\ m[e[i]] = "NL"
           /\ s.nodes[i] = Between(m, e[i - 1], e[i])
           /\ NoEnd(m, e[i - 1], e[i])
  BY DEF Cut
<1>a. s.at > Len(m) \/ k >= 5
  OBVIOUS
<1>b. s.at <= Len(m) + 1 /\ e[0] = 0
  BY <1>4
<1>c. Configured(s) <=> k >= 3 /\ s.nodes[1] = <<"TCP_SET_CFG">>
  BY DEF Configured
<1>d. \A i \in 0..k : e[i] \in Nat
  BY <1>4
<1>e. k < 5 => s.at = Len(m) + 1
  <2> HIDE DEF k
  <2> QED BY <1>0, <1>a, <1>b
<1>5. ASSUME ~Configured(s) PROVE FALSE
  <2>1. /\ \A q \in 1..s.at - 1 : m[q] = "NL" => \E i \in 1..k : q = e[i]
        /\ \A i \in 1..k : /\ e[i] \in LineEnds(m) /\ e[i - 1] < e[i] /\ e[i] < s.at
    BY <1>5, EveryEnd
  <2>2. s.at > 2
    <3>1. CASE s.at > Len(m)  BY <1>0, <1>1, <3>1
    <3>2. CASE k >= 5
      <4>1. {1, 2} \subseteq 1..k /\ {0, 1, 2} \subseteq 0..k
        BY <1>0, <3>2
      <4>2. e[1 - 1] < e[1] /\ e[2 - 1] < e[2] /\ e[2] < s.at
        BY <2>1, <4>1
      <4>3. e[0] = 0 /\ e[1] \in Nat /\ e[2] \in Nat /\ 1 - 1 = 0 /\ 2 - 1 = 1
        <5>1. 1 \in 0..k /\ 2 \in 0..k
          BY <4>1
        <5> QED BY <1>b, <1>d, <5>1
      <4> QED BY <1>0, <4>2, <4>3
    <3> QED BY <3>1, <3>2
  <2>3. k >= 1 /\ e[1] = 2 /\ s.nodes[1] = <<"TCP_SET_CFG">>
    BY <1>0, <1>1, <2>2, FirstLine
  <2>4. k \in {1, 2} /\ s.at = Len(m) + 1
    <3> HIDE DEF k
    <3>1. ~(k >= 3)
      BY <1>5, <1>c, <2>3
    <3> QED BY <1>0, <1>e, <2>3, <3>1
  <2>5. PICK i \in 1..k : b = e[i]
    BY <1>0, <1>3, <2>1, <2>4
  <2>6. PICK j \in 1..k : last = e[j]
    <3>1. last \in 1..s.at - 1
      BY <1>0, <1>3, <2>4
    <3> QED BY <1>3, <2>1, <3>1
  <2>7. i = 2 /\ j \in {1, 2} /\ last > b /\ b > 2
    <3>1. b \in Nat /\ b > 2 /\ last > b
      BY <1>3
    <3>2. i \in {1, 2} /\ j \in {1, 2}
      <4> HIDE DEF k
      <4> QED BY <2>4
    <3>3. i # 1
      BY <2>3, <2>5, <3>1
    <3> QED BY <3>1, <3>2, <3>3
  <2>8. j = 1 \/ last = b
    BY <2>5, <2>6, <2>7
  <2> QED BY <1>3, <2>3, <2>6, <2>7, <2>8
<1>6. Configured(s) /\ k >= 3 /\ s.nodes[1] = <<"TCP_SET_CFG">>
  BY <1>5 DEF Configured
<1>7. /\ e[2] \in Nat /\ e[2] >= 3 /\ e[2] < s.at /\ m[e[2]] = "NL"
      /\ NoEnd(m, 2, e[2]) /\ s.nodes[2] = Between(m, 2, e[2])
  <2>1. k >= 2
    BY <1>0, <1>6
  <2> QED BY <1>6, <2>1, TwoLines
<1>8. e[2] = b /\ ConfigSize(s) = size
  <2>1. e[2] = b
    <3>1. b \in Nat /\ b > 2 /\ e[2] > 2
      BY <1>3, <1>7
    <3> QED BY <1>3, <1>7, <3>1, SameSecond
  <2> QED BY <1>7, <2>1 DEF ConfigSize
<1>9. e[3] = b + size /\ e[3] \in Nat /\ last = e[3] + 2 /\ e[3] + 1 = last - 1
  <2>1. e[3] = e[2] + ConfigSize(s)
    BY <1>6 DEF Cut
  <2> QED BY <1>3, <1>8, <2>1
<1> HIDE DEF last, size
<1>10. k >= 4
  <2> SUFFICES ASSUME k = 3 PROVE FALSE
    <3> HIDE DEF k
    <3> QED BY <1>0, <1>6
  <2>1. s.at = Len(m) + 1
    BY <1>e
  <2>2. last \in e[3] + 1..s.at - 1
    BY <1>0, <1>3, <1>9, <2>1
  <2> QED BY <1>3, <1>4, <2>2 DEF NoEnd
<1>11. /\ e[4] \in Nat /\ e[3] < e[4] /\ e[4] < s.at /\ m[e[4]] = "NL"
       /\ s.nodes[4] = Between(m, e[3], e[4]) /\ NoEnd(m, e[3], e[4])
  <2>1. 4 \in 1..k /\ 4 \in 0..k /\ 4 - 1 = 3 /\ 4 # 3
    BY <1>0, <1>10
  <2> QED BY <1>4, <2>1
<1>12. e[4] = last
  <2>1. e[4] # last - 1
    BY <1>3, <1>11
  <2>2. ~(last \in e[3] + 1..e[4] - 1)
    BY <1>3, <1>11 DEF NoEnd
  <2> QED BY <1>9, <1>11, <2>1, <2>2
<1>13. k = 4
  <2> SUFFICES ASSUME k >= 5 PROVE FALSE
    <3> HIDE DEF k
    <3> QED BY <1>0, <1>10
  <2>1. 5 \in 1..k /\ 5 \in 0..k /\ 5 - 1 = 4 /\ 5 # 3
    BY <1>0
  <2>2. e[5] \in Nat /\ e[4] < e[5] /\ e[5] < s.at /\ m[e[5]] = "NL"
    BY <1>4, <2>1
  <2>3. e[5] \in last + 1..(Len(m) + 1) - 1
    BY <1>0, <1>4, <1>9, <1>12, <2>2
  <2> QED BY <1>3, <2>2, <2>3 DEF NoEnd
<1>14. s.nodes[4] = <<"END">>
  <2>1. Between(m, e[3], e[3] + 2) = <<m[e[3] + 1]>>
    BY <1>9 DEF Between
  <2>2. e[4] = e[3] + 2 /\ m[e[3] + 1] = "END"
    BY <1>3, <1>9, <1>12
  <2> QED BY <1>11, <2>1, <2>2
<1> QED BY <1>6, <1>13, <1>14

\* A line of one word.
LEMMA OneWord ==
    ASSUME NEW R, NEW m \in Seq(R), NEW b \in Nat, NEW e \in Nat, NEW w,
           b < e, e <= Len(m) + 1, Between(m, b, e) = <<w>>
    PROVE  e = b + 2 /\ m[b + 1] = w
<1>1. Len(Between(m, b, e)) = e - b - 1
      /\ \A j \in 1..e - b - 1 : Between(m, b, e)[j] = m[b + j]
  BY BetweenType
<1>2. Len(<<w>>) = 1 /\ <<w>>[1] = w
  OBVIOUS
<1>3. e - b - 1 = 1
  BY <1>1, <1>2
<1> QED BY <1>1, <1>2, <1>3

LEMMA WordOfLine ==
    ASSUME NEW m, NEW b \in Nat, NEW w, m[b + 1] = w
    PROVE  Between(m, b, b + 2) = <<w>>
<1>1. (b + 2) - b - 1 = 1
  OBVIOUS
<1>2. Between(m, b, b + 2) = [j \in 1..1 |-> m[b + j]]
  BY <1>1, Zenon DEF Between
<1>3. [j \in 1..1 |-> m[b + j]] = <<w>>
  OBVIOUS
<1> QED BY <1>2, <1>3

\* The lines of a message that is no configuration.
LEMMA LinesCounted ==
    ASSUME NEW R, NEW m \in Seq(R), NEW s \in States(R), NEW e, Cut(m, s, e),
           ~Configured(s), s.at > Len(m) \/ Len(s.nodes) >= 5
    PROVE  /\ IsFiniteSet(LineEnds(m)) /\ Cardinality(LineEnds(m)) \in Nat
           /\ Len(s.nodes) <= Cardinality(LineEnds(m))
           /\ Len(s.nodes) < 5 => /\ s.at = Len(m) + 1
                                  /\ LineEnds(m) = {e[i] : i \in 1..Len(s.nodes)}
                                  /\ Cardinality(LineEnds(m)) = Len(s.nodes)
<1> DEFINE k == Len(s.nodes)
           T == {e[i] : i \in 1..k}
<1>1. k \in Nat /\ s.at \in Nat /\ Len(m) \in Nat
  BY DEF States, Cut
<1>2. e \in [0..k -> Nat] /\ s.at <= Len(m) + 1
  BY DEF Cut
<1>3. /\ \A q \in 1..s.at - 1 : m[q] = "NL" => \E i \in 1..k : q = e[i]
      /\ \A i \in 1..k : /\ e[i] \in LineEnds(m) /\ e[i - 1] < e[i] /\ e[i] < s.at
  BY EveryEnd
<1>4. s.at > Len(m) \/ k >= 5
  OBVIOUS
<1> HIDE DEF k
<1>5. IsFiniteSet(T) /\ Cardinality(T) = k
  <2>1. \A i \in 1..k : e[i - 1] < e[i]
    BY <1>3
  <2> QED BY <1>1, <1>2, <2>1, CountEnds
<1>6. T \subseteq LineEnds(m)
  BY <1>3
<1>7. IsFiniteSet(LineEnds(m))
  <2>1. LineEnds(m) \subseteq 1..Len(m)
    BY DEF LineEnds
  <2>2. IsFiniteSet(1..Len(m))
    BY <1>1, FS_Interval
  <2> QED BY <2>1, <2>2, FS_Subset
<1>8. Cardinality(LineEnds(m)) \in Nat /\ Cardinality(T) <= Cardinality(LineEnds(m))
  BY <1>6, <1>7, FS_Subset, FS_CardinalityType
<1>9. ASSUME k < 5 PROVE s.at = Len(m) + 1 /\ LineEnds(m) = T
  <2>1. s.at = Len(m) + 1
    BY <1>1, <1>2, <1>4, <1>9
  <2>2. \A q \in LineEnds(m) : q \in 1..s.at - 1 /\ m[q] = "NL"
    BY <1>1, <2>1 DEF LineEnds
  <2>3. LineEnds(m) \subseteq T
    BY <1>3, <2>2
  <2> QED BY <1>6, <2>1, <2>3
<1> QED BY <1>5, <1>7, <1>8, <1>9 DEF k

\* The nodes of any other message say which command it is.
LEMMA CommandRead ==
    ASSUME NEW R, NEW m \in Seq(R), NEW s \in States(R), NEW e, Cut(m, s, e),
           ~Configured(s), s.at > Len(m) \/ Len(s.nodes) >= 5,
           NEW c \in TcpCommands, c # "TCP_SET_CFG", IsCommand(m, c)
    PROVE  /\ Len(s.nodes) = NodesOf[c] /\ s.nodes[1] = <<c>>
           /\ s.nodes[NodesOf[c]] = <<"END">>
<1> DEFINE k == Len(s.nodes)
<1>1. k \in Nat /\ s.at \in Nat /\ Len(m) \in Nat
  BY DEF States, Cut
<1>2. NodesOf[c] \in 2..4 /\ c # "NL"
  BY CommandTable
<1>3. /\ Cardinality(LineEnds(m)) = NodesOf[c] /\ m[1] = c /\ m[2] = "NL"
  BY DEF IsCommand
<1>4. PICK i \in LineEnds(m) : /\ i > 2 /\ m[i - 1] = "END" /\ m[i - 2] = "NL"
                               /\ \A j \in LineEnds(m) : j <= i
  BY DEF IsCommand
<1>5. k < 5
  <2>1. k <= NodesOf[c]
    BY <1>3, LinesCounted
  <2> HIDE DEF k
  <2> QED BY <1>1, <1>2, <2>1
<1>6. s.at = Len(m) + 1 /\ LineEnds(m) = {e[j] : j \in 1..k} /\ k = NodesOf[c]
  BY <1>3, <1>5, LinesCounted
<1>7. i \in 3..Len(m)
  BY <1>1, <1>4 DEF LineEnds
<1>8. k >= 1 /\ e[1] = 2 /\ s.nodes[1] = <<c>>
  <2>1. Len(m) >= 2 /\ s.at > 2
    BY <1>1, <1>6, <1>7
  <2> QED BY <1>2, <1>3, <2>1, FirstLine
<1>9. /\ e \in [0..k -> Nat]
      /\ \A j \in 1..k : /\ e[j - 1] < e[j] /\ m[e[j]] = "NL"
                         /\ s.nodes[j] = Between(m, e[j - 1], e[j])
                         /\ NoEnd(m, e[j - 1], e[j])
  BY DEF Cut
<1> HIDE DEF k
<1>10. k \in 2..4 /\ k - 1 \in 0..k /\ k \in 0..k /\ k \in 1..k /\ k - 1 \in 1..k
  BY <1>1, <1>2, <1>6
<1>11. i = e[k]
  <2>1. PICK j \in 1..k : i = e[j]
    BY <1>6
  <2>2. e[k] <= i
    BY <1>4, <1>6, <1>10
  <2>3. j \in 0..k /\ (j < k \/ j = k)
    BY <1>1
  <2>4. j < k => e[j] < e[k]
    <3>1. \A q \in 1..k : e[q - 1] < e[q]
      BY <1>9
    <3>2. \A p \in 0..k : \A q \in 0..k : q < p => e[q] < e[p]
      BY <1>1, <1>9, <3>1, Increasing, Zenon
    <3> QED BY <1>10, <2>3, <3>2
  <2>5. e[k] \in Nat /\ i \in Nat
    BY <1>7, <1>9, <1>10
  <2> QED BY <2>1, <2>2, <2>3, <2>4, <2>5
<1>12. /\ e[k - 1] \in Nat /\ e[k - 1] < i /\ m[e[k - 1]] = "NL"
       /\ NoEnd(m, e[k - 1], i) /\ s.nodes[k] = Between(m, e[k - 1], i)
  BY <1>9, <1>10, <1>11
<1>13. i = e[k - 1] + 2
  <2>1. e[k - 1] # i - 1
    BY <1>4, <1>12
  <2>2. ~(i - 2 \in e[k - 1] + 1..i - 1)
    BY <1>4, <1>12 DEF NoEnd
  <2> QED BY <1>7, <1>12, <2>1, <2>2
<1>14. s.nodes[k] = <<"END">>
  <2>1. m[e[k - 1] + 1] = "END"
    <3>1. e[k - 1] + 1 = i - 1
      BY <1>7, <1>12, <1>13
    <3> QED BY <1>4, <3>1
  <2>2. i \in Nat /\ i <= Len(m) + 1
    BY <1>1, <1>7
  <2>3. Between(m, e[k - 1], i) = <<"END">>
    <3>1. Between(m, e[k - 1], e[k - 1] + 2) = <<"END">>
      BY <1>12, <2>1, WordOfLine
    <3> QED BY <1>13, <3>1
  <2> QED BY <1>12, <2>3
<1> QED BY <1>6, <1>8, <1>14 DEF k

\* And a message with such nodes is that command.
LEMMA CommandMeant ==
    ASSUME NEW R, NEW m \in Seq(R), NEW s \in States(R), NEW e, Cut(m, s, e),
           ~Configured(s), s.at > Len(m) \/ Len(s.nodes) >= 5,
           NEW c \in TcpCommands, c # "TCP_SET_CFG", Len(s.nodes) = NodesOf[c],
           s.nodes[1] = <<c>>, s.nodes[NodesOf[c]] = <<"END">>
    PROVE  IsCommand(m, c)
<1> DEFINE k == Len(s.nodes)
<1>1. k \in Nat /\ s.at \in Nat /\ Len(m) \in Nat
  BY DEF States, Cut
<1>2. NodesOf[c] \in 2..4 /\ k = NodesOf[c]
  BY CommandTable
<1>3. k < 5
  <2> HIDE DEF k
  <2> QED BY <1>1, <1>2
<1>4. /\ s.at = Len(m) + 1 /\ LineEnds(m) = {e[j] : j \in 1..k}
      /\ Cardinality(LineEnds(m)) = k
  BY <1>3, LinesCounted
<1>5. /\ e \in [0..k -> Nat] /\ e[0] = 0
      /\ \A j \in 1..k : /\ e[j - 1] < e[j] /\ m[e[j]] = "NL" /\ e[j] < s.at
                         /\ s.nodes[j] = Between(m, e[j - 1], e[j])
  BY DEF Cut
<1>6. s.nodes[1] = <<c>> /\ s.nodes[k] = <<"END">>
  BY <1>2
<1> HIDE DEF k
<1>7. /\ k \in 2..4 /\ 1 \in 1..k /\ 0 \in 0..k /\ 1 \in 0..k /\ 1 - 1 = 0
      /\ k - 1 \in 0..k /\ k \in 0..k /\ k \in 1..k /\ k - 1 \in 1..k /\ 1 < k
  BY <1>1, <1>2
<1>8. e[1] = 2 /\ m[1] = c /\ m[2] = "NL"
  <2>1. e[1] \in Nat /\ 0 < e[1] /\ e[1] <= Len(m) + 1 /\ m[e[1]] = "NL"
    <3>1. e[0] < e[1] /\ m[e[1]] = "NL" /\ e[1] < s.at /\ e[1] \in Nat
      BY <1>5, <1>7
    <3> QED BY <1>1, <1>4, <1>5, <3>1
  <2>2. Between(m, 0, e[1]) = <<c>>
    BY <1>5, <1>6, <1>7
  <2>3. e[1] = 0 + 2 /\ m[0 + 1] = c
    BY <2>1, <2>2, 0 \in Nat, OneWord, Zenon
  <2> QED BY <2>1, <2>3
<1>9. /\ e[k] \in Nat /\ e[k - 1] \in Nat /\ e[k - 1] < e[k] /\ e[k] < s.at
      /\ m[e[k]] = "NL" /\ m[e[k - 1]] = "NL"
      /\ Between(m, e[k - 1], e[k]) = <<"END">>
  BY <1>5, <1>6, <1>7
<1>10. e[k] = e[k - 1] + 2 /\ m[e[k - 1] + 1] = "END"
  <2>1. e[k] <= Len(m) + 1
    BY <1>1, <1>4, <1>9
  <2> QED BY <1>9, <2>1, OneWord, Zenon
<1>11. m[e[k] - 1] = "END" /\ m[e[k] - 2] = "NL"
  <2>1. e[k] - 1 = e[k - 1] + 1 /\ e[k] - 2 = e[k - 1]
    BY <1>9, <1>10
  <2> QED BY <1>9, <1>10, <2>1
<1>12. \A p \in 0..k : \A q \in 0..k : q < p => e[q] < e[p]
  <2>1. \A q \in 1..k : e[q - 1] < e[q]
    BY <1>5
  <2> QED BY <1>1, <1>5, <2>1, Increasing, Zenon
<1>13. e[k] > 2
  <2>1. e[1] < e[k]
    BY <1>7, <1>12
  <2> QED BY <1>8, <1>9, <2>1
<1>14. \A j \in LineEnds(m) : j <= e[k]
  <2> SUFFICES ASSUME NEW q \in 1..k PROVE e[q] <= e[k]
    BY <1>4
  <2>1. q \in 0..k /\ (q < k \/ q = k)
    BY <1>1
  <2>2. e[q] \in Nat /\ (q < k => e[q] < e[k])
    BY <1>5, <1>7, <1>12, <2>1
  <2> QED BY <1>9, <2>1, <2>2
<1>15. e[k] \in LineEnds(m)
  BY <1>4, <1>7
<1> QED BY <1>2, <1>4, <1>8, <1>11, <1>13, <1>14, <1>15, Zenon DEF IsCommand

\* The other direction of SetCfgCut: four such lines are a TCP_SET_CFG.
LEMMA SetCfgMeant ==
    ASSUME NEW R, NEW m \in Seq(R), NEW s \in States(R), NEW e, Cut(m, s, e),
           Configured(s), Len(s.nodes) = 4, s.nodes[4] = <<"END">>, s.at > Len(m)
    PROVE  IsSetCfg(m)
<1>1. s.at \in Nat /\ Len(m) \in Nat /\ Len(s.nodes) = 4 /\ s.nodes[1] = <<"TCP_SET_CFG">>
  BY DEF States, Cut, Configured
<1>2. /\ e \in [0..4 -> Nat] /\ e[0] = 0 /\ e[4] < s.at /\ NoEnd(m, e[4], s.at)
      /\ s.at <= Len(m) + 1
      /\ \A j \in 1..4 : j = 3 \/ /\ e[j - 1] < e[j] /\ m[e[j]] = "NL" /\ e[j] < s.at
                                  /\ s.nodes[j] = Between(m, e[j - 1], e[j])
                                  /\ NoEnd(m, e[j - 1], e[j])
      /\ ConfigSize(s) >= 0 /\ e[3] = e[2] + ConfigSize(s)
  BY <1>1 DEF Cut
<1>3. /\ e[1] \in Nat /\ e[2] \in Nat /\ e[3] \in Nat /\ e[4] \in Nat
      /\ 1 \in 1..4 /\ 2 \in 1..4 /\ 4 \in 1..4
  BY <1>2
<1>4. /\ 0 < e[1] /\ e[1] < s.at /\ m[e[1]] = "NL" /\ Between(m, 0, e[1]) = <<"TCP_SET_CFG">>
      /\ e[1] < e[2] /\ e[2] < s.at /\ m[e[2]] = "NL" /\ NoEnd(m, e[1], e[2])
      /\ s.nodes[2] = Between(m, e[1], e[2])
      /\ e[3] < e[4] /\ e[4] < s.at /\ m[e[4]] = "NL"
      /\ Between(m, e[3], e[4]) = <<"END">>
  <2>1. 1 - 1 = 0 /\ 2 - 1 = 1 /\ 4 - 1 = 3 /\ 1 # 3 /\ 2 # 3 /\ 4 # 3
    OBVIOUS
  <2>2. /\ e[1 - 1] < e[1] /\ m[e[1]] = "NL" /\ e[1] < s.at
        /\ s.nodes[1] = Between(m, e[1 - 1], e[1])
    BY <1>2, <1>3, <2>1, Zenon
  <2>3. /\ e[2 - 1] < e[2] /\ m[e[2]] = "NL" /\ e[2] < s.at /\ NoEnd(m, e[2 - 1], e[2])
        /\ s.nodes[2] = Between(m, e[2 - 1], e[2])
    BY <1>2, <1>3, <2>1, Zenon
  <2>4. /\ e[4 - 1] < e[4] /\ m[e[4]] = "NL" /\ e[4] < s.at
        /\ s.nodes[4] = Between(m, e[4 - 1], e[4])
    BY <1>2, <1>3, <2>1, Zenon
  <2>5. e[1 - 1] = 0 /\ e[2 - 1] = e[1] /\ e[4 - 1] = e[3]
    BY <1>2, <2>1
  <2> QED BY <1>1, <2>2, <2>3, <2>4, <2>5
<1>5. e[1] = 2 /\ m[1] = "TCP_SET_CFG"
  <2>1. e[1] <= Len(m) + 1
    BY <1>1, <1>2, <1>3, <1>4
  <2>2. e[1] = 0 + 2 /\ m[0 + 1] = "TCP_SET_CFG"
    BY <1>3, <1>4, <2>1, 0 \in Nat, OneWord
  <2> QED BY <2>2
<1>6. e[4] = e[3] + 2 /\ m[e[3] + 1] = "END"
  <2>1. e[4] <= Len(m) + 1
    BY <1>1, <1>2, <1>3, <1>4
  <2> QED BY <1>3, <1>4, <2>1, OneWord
<1> DEFINE b == e[2]
           size == Atoi(Between(m, 2, b))
           last == b + size + 2
<1>7. size = ConfigSize(s) /\ size \in Int /\ size >= 0 /\ last = e[4] /\ e[3] + 1 = last - 1
  <2>1. size = ConfigSize(s)
    BY <1>4, <1>5 DEF ConfigSize
  <2>2. size \in Int
    BY AtoiType
  <2> QED BY <1>2, <1>3, <1>6, <2>1, <2>2
<1>8. b \in 3..Len(m) /\ m[b] = "NL" /\ NoEnd(m, 2, b)
  BY <1>1, <1>2, <1>3, <1>4, <1>5
<1> HIDE DEF size, b
<1>9. last <= Len(m) /\ m[last - 1] = "END" /\ m[last] = "NL"
  <2>1. e[4] <= Len(m)
    BY <1>1, <1>2, <1>3, <1>4
  <2> QED BY <1>4, <1>6, <1>7, <2>1
<1>10. NoEnd(m, last, Len(m) + 1)
  <2>1. s.at = Len(m) + 1
    BY <1>1, <1>2
  <2> QED BY <1>2, <1>7, <2>1
<1>11. SetCfgUpTo(m, b)
  BY <1>7, <1>8, <1>9, <1>10, Zenon DEF SetCfgUpTo, size
<1>12. Len(m) > 2 /\ m[2] = "NL"
  BY <1>1, <1>4, <1>5, <1>8
<1> QED BY <1>5, <1>11, <1>12, SetCfgIs

\* A message with such a size is no command.
LEMMA NoSizeMeansNothing ==
    ASSUME NEW R, NEW m \in Seq(R), NEW b, NoSize(m, b)
    PROVE  ~IsSetCfg(m) /\ \A c \in TcpCommands : ~IsCommand(m, c)
<1>1. /\ b \in 3..Len(m) - 1
      /\ m[1] = "TCP_SET_CFG" /\ m[2] = "NL" /\ m[b] = "NL" /\ NoEnd(m, 2, b)
      /\ SizeAt(m, b) < 0 \/ b + SizeAt(m, b) >= Len(m)
  BY DEF NoSize, SizeLine
<1>2. ASSUME IsSetCfg(m) PROVE FALSE
  <2>1. PICK d : SetCfgUpTo(m, d)
    BY <1>2, SetCfgIs
  <2> DEFINE size == Atoi(Between(m, 2, d))
  <2>2. /\ d \in 3..Len(m) /\ m[d] = "NL" /\ NoEnd(m, 2, d)
        /\ size >= 0 /\ d + size + 2 <= Len(m) /\ size \in Int
    BY <2>1, AtoiType, Zenon DEF SetCfgUpTo
  <2>3. b = d
    <3>1. b \in Nat /\ d \in Nat /\ b > 2 /\ d > 2
      BY <1>1, <2>2
    <3> QED BY <1>1, <2>2, <3>1, SameSecond
  <2>4. size = SizeAt(m, b)
    BY <2>3 DEF SizeAt
  <2>5. Len(m) \in Nat /\ b \in Nat
    BY <1>1
  <2> HIDE DEF size
  <2> QED BY <1>1, <2>2, <2>3, <2>4, <2>5
<1>3. ASSUME NEW c \in TcpCommands, IsCommand(m, c) PROVE FALSE
  BY <1>1, <1>3 DEF IsCommand
<1> QED BY <1>2, <1>3

\* Where the size line ends.
LEMMA SizeLineEndIs ==
    ASSUME NEW R, NEW m \in Seq(R)
    PROVE  /\ \A b : SizeLine(m, b) => b \in SizeLineEnd(m)
           /\ \A b \in SizeLineEnd(m) : /\ SizeLine(m, b)
                                        /\ Atoi(SubSeq(m, 3, b - 1)) = SizeAt(m, b)
<1>1. Len(m) \in Nat
  OBVIOUS
<1>2. ASSUME NEW b, SizeLine(m, b) PROVE b \in SizeLineEnd(m)
  <2>1. /\ b \in 3..Len(m) - 1
        /\ m[1] = "TCP_SET_CFG" /\ m[2] = "NL" /\ m[b] = "NL" /\ NoEnd(m, 2, b)
    BY <1>2 DEF SizeLine
  <2>2. b \in LineEnds(m) /\ b > 2 /\ b < Len(m)
    BY <1>1, <2>1 DEF LineEnds
  <2>3. \A j \in LineEnds(m) : j <= 2 \/ j >= b
    BY <1>1, <2>1 DEF LineEnds, NoEnd
  <2> QED BY <2>1, <2>2, <2>3, Zenon DEF SizeLineEnd
<1>3. ASSUME NEW b \in SizeLineEnd(m)
      PROVE  SizeLine(m, b) /\ Atoi(SubSeq(m, 3, b - 1)) = SizeAt(m, b)
  <2>1. /\ b \in LineEnds(m) /\ m[1] = "TCP_SET_CFG" /\ m[2] = "NL"
        /\ b > 2 /\ b < Len(m) /\ \A j \in LineEnds(m) : j <= 2 \/ j >= b
    BY DEF SizeLineEnd
  <2>2. b \in 3..Len(m) - 1 /\ b \in 3..Len(m) /\ m[b] = "NL"
    BY <1>1, <2>1 DEF LineEnds
  <2>3. NoEnd(m, 2, b)
    BY <1>1, <2>1, <2>2 DEF LineEnds, NoEnd
  <2>4. SubSeq(m, 3, b - 1) = Between(m, 2, b)
    BY <2>2, LineText
  <2> QED BY <2>1, <2>2, <2>3, <2>4 DEF SizeLine, SizeAt
<1> QED BY <1>2, <1>3

\* What a line verifies to.
LEMMA VerifiedIs ==
    ASSUME NEW n, NEW R, n \in Seq(R)
    PROVE  /\ \A c \in TcpCommands : Verified(n) = c <=>
                /\ Len(n) = NodesOf[c] /\ n[1] = <<c>> /\ n[NodesOf[c]] = <<"END">>
           /\ Verified(n) \in TcpCommands \cup {TCP_CMD_NUM}
<1>1. ASSUME NEW c \in TcpCommands, Len(n) = NodesOf[c], n[1] = <<c>>,
             n[NodesOf[c]] = <<"END">>
      PROVE  Verified(n) = c
  <2>1. n # <<>>
    <3>1. Len(<<>>) = 0 /\ NodesOf[c] \in 2..4
      BY CommandTable
    <3> QED BY <1>1, <3>1
  <2>2. n[1][1] = c
    BY <1>1
  <2> QED BY <1>1, <2>1, <2>2 DEF Verified
<1>2. ASSUME NEW c \in TcpCommands, Verified(n) = c
      PROVE  Len(n) = NodesOf[c] /\ n[1] = <<c>> /\ n[NodesOf[c]] = <<"END">>
  <2>1. c # TCP_CMD_NUM
    BY CommandTable
  <2>2. /\ n[Len(n)] = <<"END">>
        /\ \E d \in TcpCommands : n[1] = <<d>> /\ Len(n) = NodesOf[d]
        /\ n[1][1] = c
    BY <1>2, <2>1, Zenon DEF Verified
  <2>3. PICK d \in TcpCommands : n[1] = <<d>> /\ Len(n) = NodesOf[d]
    BY <2>2
  <2>4. c = d
    BY <2>2, <2>3
  <2> QED BY <2>2, <2>3, <2>4
<1>3. Verified(n) \in TcpCommands \cup {TCP_CMD_NUM}
  <2>1. CASE /\ n # <<>>
             /\ n[Len(n)] = <<"END">>
             /\ \E c \in TcpCommands : n[1] = <<c>> /\ Len(n) = NodesOf[c]
    <3>1. PICK d \in TcpCommands : n[1] = <<d>> /\ Len(n) = NodesOf[d]
      BY <2>1
    <3>2. n[1][1] = d
      BY <3>1
    <3>3. Verified(n) = n[1][1]
      BY <2>1, Zenon DEF Verified
    <3> QED BY <3>2, <3>3
  <2>2. CASE ~ /\ n # <<>>
               /\ n[Len(n)] = <<"END">>
               /\ \E c \in TcpCommands : n[1] = <<c>> /\ Len(n) = NodesOf[c]
    BY <2>2, Zenon DEF Verified
  <2> QED BY <2>1, <2>2
<1> QED BY <1>1, <1>2, <1>3

-----------------------------------------------------------------------------
(* The loop against the protocol.                                          *)

\* Where the loop is when it has not been cut off.
LEMMA ScanningOver ==
    ASSUME NEW R, NEW m \in Seq(R), NEW s \in States(R), Scanning(m, s), Over(m, s)
    PROVE  s.tooMany \/ s.at = Len(m) + 1
<1>1. PICK e : Cut(m, s, e)
  BY DEF Scanning
<1>2. /\ s.at \in Nat /\ s.at <= Len(m) + 1 /\ Len(m) \in Nat
      /\ e[Len(s.nodes)] \in Nat /\ e[Len(s.nodes)] < s.at
  <2>1. Len(s.nodes) \in 0..Len(s.nodes)
    BY DEF States
  <2> QED BY <1>1, <2>1 DEF Cut
<1>3. s.tooMany \/ s.at \notin 1..Len(m)
  BY DEF Over, Scanning
<1> QED BY <1>2, <1>3

LEMMA RestartedOver ==
    ASSUME NEW R, NEW m \in Seq(R), NEW s, Restarted(m, s), Over(m, s)
    PROVE  s.tooMany
<1>1. PICK b : NoSize(m, b) /\ s.at \in 1..b + 1
  BY DEF Restarted
<1>2. b \in 3..Len(m) - 1 /\ Len(m) \in Nat
  BY <1>1 DEF NoSize, SizeLine
<1>3. s.at \in 1..Len(m)
  BY <1>1, <1>2
<1> QED BY <1>3 DEF Over, Restarted

\* For a message of any length over any alphabet with a line end, and whatever is
\* read outside the buffer: what ParseMsg and VerifyAndGetMsgCommand take for a
\* command is the command its lines are, and a message that cuts the loop short,
\* or leaves the buffer it fits in, is none.
THEOREM ParsesWhatIsMeantForAll ==
    ASSUME NEW R, "NL" \in R, "NUL" \in R, NEW m \in Seq(R), NEW stray \in R
    PROVE  LET p == Parse(m, stray)
           IN  /\ ~p.tooMany /\ ~p.overrun => Verified(p.nodes) = Meant(m)
               /\ p.tooMany \/ p.overrun => Meant(m) = TCP_CMD_NUM
               /\ p.astray /\ Len(m) <= BufferSize => Meant(m) = TCP_CMD_NUM
<1> DEFINE p == Parse(m, stray)
           n == p.nodes
<1>1. p \in States(R) /\ LoopInv(m, p) /\ Over(m, p)
  BY ParsedLines
<1> HIDE DEF p
<1> SUFFICES /\ ~p.tooMany /\ ~p.overrun => Verified(n) = Meant(m)
             /\ p.tooMany \/ p.overrun => Meant(m) = TCP_CMD_NUM
             /\ p.astray /\ Len(m) <= BufferSize => Meant(m) = TCP_CMD_NUM
  BY DEF p
<1>2. n \in Seq(Seq(R)) /\ Len(n) \in Nat
  BY <1>1 DEF States
<1>3. /\ \A c \in TcpCommands : Verified(n) = c <=>
           /\ Len(n) = NodesOf[c] /\ n[1] = <<c>> /\ n[NodesOf[c]] = <<"END">>
      /\ Verified(n) \in TcpCommands \cup {TCP_CMD_NUM}
  BY <1>2, VerifiedIs
<1>4. /\ IsSetCfg(m) => Meant(m) = "TCP_SET_CFG"
      /\ ~IsSetCfg(m) => \A c \in TcpCommands : IsCommand(m, c) => Meant(m) = c
      /\ ~IsSetCfg(m) /\ (\A c \in TcpCommands : ~IsCommand(m, c)) => Meant(m) = TCP_CMD_NUM
  <2>1. IsSetCfg(m) => m # <<>>
    <3>1. IsSetCfg(m) => Len(m) > 2
      BY DEF IsSetCfg
    <3> QED BY <3>1
  <2>2. \A c : IsCommand(m, c) => m[1] = c
    BY DEF IsCommand
  <2> QED BY <2>1, <2>2, Zenon DEF Meant
<1>5. CASE CutOff(m, p)
  <2>1. Meant(m) = TCP_CMD_NUM
    <3>1. PICK b : NoSize(m, b)
      BY <1>5 DEF CutOff
    <3> QED BY <1>4, <3>1, NoSizeMeansNothing
  <2>2. ~p.tooMany /\ n[Len(n)] = <<>>
    BY <1>5 DEF CutOff
  <2>3. ASSUME Verified(n) # TCP_CMD_NUM PROVE FALSE
    <3>1. PICK c \in TcpCommands : Verified(n) = c
      BY <1>3, <2>3
    <3>2. n[Len(n)] = <<"END">>
      BY <1>3, <3>1
    <3>3. <<"END">> # <<>>
      OBVIOUS
    <3> QED BY <2>2, <3>2, <3>3
  <2> QED BY <2>1, <2>3
<1>r. CASE Restarted(m, p)
  <2>1. Meant(m) = TCP_CMD_NUM
    <3>1. PICK b : NoSize(m, b)
      BY <1>r DEF Restarted
    <3> QED BY <1>4, <3>1, NoSizeMeansNothing
  <2>2. p.tooMany
    BY <1>1, <1>r, RestartedOver
  <2> QED BY <2>1, <2>2
<1>6. CASE Scanning(m, p)
  <2>1. PICK e : Cut(m, p, e)
    BY <1>6 DEF Scanning
  <2>2. ~p.overrun /\ ~(p.astray /\ Len(m) <= BufferSize)
    BY <1>6 DEF Scanning
  <2>a. p.tooMany \/ p.at > Len(m)
    <3>1. p.tooMany \/ p.at = Len(m) + 1
      BY <1>1, <1>6, ScanningOver
    <3>2. Len(m) \in Nat
      OBVIOUS
    <3> QED BY <3>1, <3>2
  <2>3. ASSUME p.tooMany PROVE Len(n) = 5 /\ Len(n) >= 5
    <3>1. Len(n) = 5
      BY <1>1, <2>3 DEF LoopInv, MSG_MAX_NODES
    <3> QED BY <3>1
  <2>4. p.at > Len(m) \/ Len(n) >= 5
    BY <2>3, <2>a, Zenon
  <2>5. IsSetCfg(m) => Configured(p) /\ Len(n) = 4 /\ n[4] = <<"END">>
    BY <1>1, <2>1, <2>4, SetCfgCut
  <2>6. CASE Configured(p)
    <3>1. n[1] = <<"TCP_SET_CFG">>
      BY <2>6 DEF Configured
    <3>2. \A c \in TcpCommands : ~IsCommand(m, c)
      <4>1. Len(n) >= 3
        BY <2>6 DEF Configured
      <4>2. m[1] = "TCP_SET_CFG"
        <5>1. /\ e[0] = 0 /\ e \in [0..Len(n) -> Nat] /\ e[1 - 1] < e[1] /\ e[1] < p.at
              /\ n[1] = Between(m, e[1 - 1], e[1]) /\ p.at <= Len(m) + 1
          <6>1. 1 \in 1..Len(n) /\ 1 # 3
            BY <1>2, <4>1
          <6> QED BY <2>1, <6>1 DEF Cut
        <5>2. p.at \in Nat /\ Len(m) \in Nat /\ e[1] \in Nat /\ e[1 - 1] = 0
          <6>1. 1 \in 0..Len(n)
            BY <1>2, <4>1
          <6>2. p.at \in Nat
            BY <2>1 DEF Cut
          <6> QED BY <5>1, <6>1, <6>2
        <5>3. 0 < e[1] /\ e[1] <= Len(m) + 1 /\ Between(m, 0, e[1]) = <<"TCP_SET_CFG">>
          <6>1. 0 < e[1] /\ e[1] <= Len(m) + 1
            <7>1. e[1 - 1] < e[1] /\ e[1] < p.at /\ p.at <= Len(m) + 1
              BY <5>1
            <7> QED BY <5>2, <7>1
          <6>2. Between(m, 0, e[1]) = <<"TCP_SET_CFG">>
            BY <3>1, <5>1, <5>2
          <6> QED BY <6>1, <6>2
        <5>4. e[1] = 0 + 2 /\ m[0 + 1] = "TCP_SET_CFG"
          BY <5>2, <5>3, 0 \in Nat, OneWord
        <5> QED BY <5>4
      <4> QED BY <4>2 DEF IsCommand
    <3>3. CASE IsSetCfg(m)
      <4>1. ~p.tooMany
        <5>1. Len(n) = 4
          BY <2>5, <3>3
        <5> QED BY <2>3, <5>1
      <4>2. Verified(n) = "TCP_SET_CFG"
        BY <1>3, <2>5, <3>1, <3>3, CommandTable
      <4> QED BY <1>4, <2>2, <3>3, <4>1, <4>2
    <3>4. CASE ~IsSetCfg(m)
      <4>1. Meant(m) = TCP_CMD_NUM
        BY <1>4, <3>2, <3>4
      <4>2. ASSUME ~p.tooMany, NEW c \in TcpCommands, Verified(n) = c PROVE FALSE
        <5>1. c = "TCP_SET_CFG"
          BY <1>3, <3>1, <4>2
        <5>2. Len(n) = 4 /\ n[4] = <<"END">>
          BY <1>3, <4>2, <5>1, CommandTable
        <5>3. p.at > Len(m)
          BY <2>a, <4>2
        <5> QED BY <1>1, <2>1, <2>6, <3>4, <5>2, <5>3, SetCfgMeant
      <4>3. ~p.tooMany => Verified(n) = TCP_CMD_NUM
        BY <1>3, <4>2
      <4> QED BY <4>1, <4>3
    <3> QED BY <3>3, <3>4
  <2>7. CASE ~Configured(p)
    <3>1. ~IsSetCfg(m)
      BY <2>5, <2>7
    <3>2. ASSUME NEW c \in TcpCommands, IsCommand(m, c)
          PROVE  ~p.tooMany /\ Verified(n) = c
      <4>1. c # "TCP_SET_CFG"
        BY <3>2 DEF IsCommand
      <4>2. Len(n) = NodesOf[c] /\ n[1] = <<c>> /\ n[NodesOf[c]] = <<"END">>
        BY <1>1, <2>1, <2>4, <2>7, <3>2, <4>1, CommandRead
      <4>3. NodesOf[c] \in 2..4
        BY CommandTable
      <4>4. ~p.tooMany
        BY <2>3, <4>2, <4>3
      <4> QED BY <1>3, <4>2, <4>4
    <3>3. ASSUME NEW c \in TcpCommands, ~p.tooMany, Verified(n) = c
          PROVE  IsCommand(m, c)
      <4>1. Len(n) = NodesOf[c] /\ n[1] = <<c>> /\ n[NodesOf[c]] = <<"END">>
        BY <1>3, <3>3
      <4>2. c # "TCP_SET_CFG"
        <5> SUFFICES ASSUME c = "TCP_SET_CFG" PROVE FALSE
          OBVIOUS
        <5>1. Len(n) = 4 /\ n[1] = <<"TCP_SET_CFG">>
          BY <4>1, CommandTable
        <5> QED BY <2>7, <5>1 DEF Configured
      <4> QED BY <1>1, <2>1, <2>4, <2>7, <4>1, <4>2, CommandMeant
    <3>4. CASE \E c \in TcpCommands : IsCommand(m, c)
      BY <1>4, <2>2, <3>1, <3>2, <3>4
    <3>5. CASE \A c \in TcpCommands : ~IsCommand(m, c)
      <4>1. Meant(m) = TCP_CMD_NUM
        BY <1>4, <3>1, <3>5
      <4>2. ~p.tooMany => Verified(n) = TCP_CMD_NUM
        BY <1>3, <3>3, <3>5
      <4> QED BY <4>1, <4>2
    <3> QED BY <3>4, <3>5
  <2> QED BY <2>6, <2>7
<1> QED BY <1>1, <1>5, <1>r, <1>6 DEF LoopInv, p

-----------------------------------------------------------------------------
(* When the parser gives up.                                               *)

\* The lines behind a configuration.
LEMMA LinesBehind ==
    ASSUME NEW R, NEW m \in Seq(R), NEW s \in States(R), NEW e, Cut(m, s, e),
           Configured(s), Len(s.nodes) <= MSG_MAX_NODES
    PROVE  /\ SizeLine(m, e[2]) /\ SizeAt(m, e[2]) = ConfigSize(s)
           /\ e[2] \in Nat /\ ConfigSize(s) \in Nat
           /\ e[3] = e[2] + ConfigSize(s) /\ e[3] < Len(m)
           /\ Len(s.nodes) = 5 => /\ {e[4], e[5]} \subseteq LineEnds(m)
                                  /\ e[3] < e[4] /\ e[4] < e[5] /\ e[5] < s.at
           /\ \A q \in LineEnds(m) : q > e[3] /\ q < s.at =>
                (Len(s.nodes) >= 4 /\ q = e[4]) \/ (Len(s.nodes) = 5 /\ q = e[5])
<1> DEFINE k == Len(s.nodes)
<1>1. k \in 3..5 /\ s.nodes[1] = <<"TCP_SET_CFG">> /\ s.at \in Nat /\ Len(m) \in Nat
  <2>1. k \in Nat /\ k >= 3 /\ k <= MSG_MAX_NODES
    BY DEF States, Configured
  <2>2. \A l \in Nat : l >= 3 /\ l <= MSG_MAX_NODES => l \in 3..5
    BY DEF MSG_MAX_NODES
  <2>3. k \in 3..5
    BY <2>1, <2>2, Zenon
  <2>4. s.nodes[1] = <<"TCP_SET_CFG">> /\ s.at \in Nat
    BY DEF Configured, Cut
  <2> QED BY <2>3, <2>4
<1>2. /\ e \in [0..k -> Nat] /\ e[k] < s.at /\ NoEnd(m, e[k], s.at) /\ s.at <= Len(m) + 1
      /\ \A i \in 1..k : i = 3 \/ /\ e[i - 1] < e[i] /\ e[i] < s.at /\ m[e[i]] = "NL"
                                  /\ NoEnd(m, e[i - 1], e[i])
      /\ ConfigSize(s) >= 0 /\ e[3] = e[2] + ConfigSize(s) /\ e[3] < Len(m)
  BY DEF Cut
<1>3. /\ e[2] \in Nat /\ e[2] >= 3
      /\ m[1] = "TCP_SET_CFG" /\ m[2] = "NL" /\ m[e[2]] = "NL"
      /\ NoEnd(m, 2, e[2]) /\ s.nodes[2] = Between(m, 2, e[2])
  <2>1. k >= 2
    <3> HIDE DEF k
    <3> QED BY <1>1
  <2> QED BY <1>1, <2>1, TwoLines
<1>4. ConfigSize(s) \in Nat
  BY <1>2, AtoiType DEF ConfigSize
<1> HIDE DEF k
<1>5. SizeLine(m, e[2]) /\ SizeAt(m, e[2]) = ConfigSize(s)
  <2>1. e[2] \in 3..Len(m) - 1
    BY <1>1, <1>2, <1>3, <1>4
  <2>2. SizeAt(m, e[2]) = ConfigSize(s)
    BY <1>3 DEF SizeAt, ConfigSize
  <2> QED BY <1>3, <2>1, <2>2 DEF SizeLine
<1>6. \A i \in 0..k : e[i] \in Nat
  BY <1>2
<1>7. ASSUME NEW i \in {4, 5}, i \in 1..k
      PROVE  /\ e[i - 1] < e[i] /\ e[i] < s.at /\ m[e[i]] = "NL" /\ e[i] \in LineEnds(m)
             /\ NoEnd(m, e[i - 1], e[i])
  <2>1. /\ e[i - 1] < e[i] /\ e[i] < s.at /\ m[e[i]] = "NL"
        /\ NoEnd(m, e[i - 1], e[i])
    BY <1>2, <1>7
  <2>2. i - 1 \in 0..k /\ i \in 0..k
    BY <1>1, <1>7
  <2>3. e[i] \in Nat /\ e[i - 1] \in Nat
    BY <1>6, <2>2
  <2>4. e[i] \in 1..Len(m)
    BY <1>1, <1>2, <2>1, <2>3
  <2> QED BY <2>1, <2>4 DEF LineEnds
<1>8. ASSUME k = 5
      PROVE  {e[4], e[5]} \subseteq LineEnds(m) /\ e[3] < e[4] /\ e[4] < e[5] /\ e[5] < s.at
  <2>1. 4 \in 1..k /\ 5 \in 1..k /\ 4 - 1 = 3 /\ 5 - 1 = 4
    BY <1>8
  <2> QED BY <1>7, <2>1
<1>9. ASSUME NEW q \in LineEnds(m), q > e[3], q < s.at
      PROVE  (k >= 4 /\ q = e[4]) \/ (k = 5 /\ q = e[5])
  <2>1. q \in Nat /\ m[q] = "NL"
    BY DEF LineEnds
  <2>2. ASSUME NEW a \in Nat, NEW b \in Nat, NoEnd(m, a, b), q > a PROVE q >= b
    BY <2>1, <2>2 DEF NoEnd
  <2>3. e[k] \in Nat /\ e[3] \in Nat
    BY <1>1, <1>6
  <2>4. CASE k = 3
    BY <1>1, <1>2, <1>9, <2>1, <2>2, <2>3, <2>4
  <2>5. CASE k = 4
    <3>1. 4 \in 1..k /\ 4 - 1 = 3 /\ 4 \in 0..k
      BY <2>5
    <3>2. NoEnd(m, e[3], e[4]) /\ e[4] \in Nat
      BY <1>6, <1>7, <3>1
    <3>3. q >= e[4]
      BY <1>9, <2>2, <2>3, <3>2
    <3>4. ~(q > e[4])
      <4> SUFFICES ASSUME q > e[4] PROVE FALSE
        OBVIOUS
      <4>1. q >= s.at
        BY <1>1, <1>2, <2>2, <2>5, <3>2
      <4> QED BY <1>1, <1>9, <2>1, <4>1
    <3> QED BY <2>1, <2>5, <3>2, <3>3, <3>4
  <2>6. CASE k = 5
    <3>1. 4 \in 1..k /\ 5 \in 1..k /\ 4 - 1 = 3 /\ 5 - 1 = 4 /\ 4 \in 0..k /\ 5 \in 0..k
      BY <2>6
    <3>2. NoEnd(m, e[3], e[4]) /\ e[4] \in Nat /\ NoEnd(m, e[4], e[5]) /\ e[5] \in Nat
      BY <1>6, <1>7, <3>1
    <3>3. q >= e[4]
      BY <1>9, <2>2, <2>3, <3>2
    <3>4. q > e[4] => q >= e[5]
      BY <2>2, <3>2
    <3>5. ~(q > e[5])
      <4> SUFFICES ASSUME q > e[5] PROVE FALSE
        OBVIOUS
      <4>1. q >= s.at
        BY <1>1, <1>2, <2>2, <2>6, <3>2
      <4> QED BY <1>1, <1>9, <2>1, <4>1
    <3> QED BY <2>1, <2>6, <3>2, <3>3, <3>4, <3>5
  <2> QED BY <1>1, <2>4, <2>5, <2>6
<1> QED BY <1>2, <1>3, <1>4, <1>5, <1>8, <1>9 DEF k

\* A size line makes the nodes a configuration.
LEMMA SizeLineRead ==
    ASSUME NEW R, NEW m \in Seq(R), NEW s \in States(R), NEW e, Cut(m, s, e),
           ~Configured(s), NEW b, SizeLine(m, b), b < s.at
    PROVE  AtConfig(s) /\ e[2] = b
<1>1. /\ b \in 3..Len(m) - 1 /\ Len(m) \in Nat
      /\ m[1] = "TCP_SET_CFG" /\ m[2] = "NL" /\ m[b] = "NL" /\ NoEnd(m, 2, b)
  BY DEF SizeLine
<1>2. s.at \in Nat /\ Len(s.nodes) \in Nat
  BY DEF Cut, States
<1>3. Len(s.nodes) >= 1 /\ e[1] = 2 /\ s.nodes[1] = <<"TCP_SET_CFG">>
  <2>1. Len(m) >= 2 /\ s.at > 2 /\ m[1] # "NL"
    BY <1>1, <1>2
  <2> QED BY <1>1, <2>1, FirstLine
<1>4. PICK i \in 1..Len(s.nodes) : b = e[i]
  <2>1. b \in 1..s.at - 1
    BY <1>1, <1>2
  <2> QED BY <1>1, <2>1, EveryEnd
<1> DEFINE k == Len(s.nodes)
<1>5. ~(k >= 3)
  BY <1>3 DEF Configured
<1>6. k \in Nat /\ k >= 1 /\ i \in 1..k
  BY <1>2, <1>3
<1>7. i # 1
  BY <1>1, <1>3, <1>4
<1>8. k = 2 /\ i = 2
  <2> HIDE DEF k
  <2> QED BY <1>5, <1>6, <1>7
<1> QED BY <1>3, <1>4, <1>8 DEF AtConfig

LEMMA LineEndsFinite ==
    ASSUME NEW R, NEW m \in Seq(R)
    PROVE  /\ IsFiniteSet(LineEnds(m) \ {Len(m)})
           /\ Cardinality(LineEnds(m) \ {Len(m)}) \in Nat
<1>1. LineEnds(m) \ {Len(m)} \subseteq 1..Len(m)
  BY DEF LineEnds
<1>2. IsFiniteSet(1..Len(m))
  BY FS_Interval, Len(m) \in Nat
<1> QED BY <1>1, <1>2, FS_Subset, FS_CardinalityType

LEMMA FullGivesUp ==
    ASSUME NEW R, NEW m \in Seq(R), NEW s \in States(R), NEW e, Cut(m, s, e),
           Len(s.nodes) = 5, s.at <= Len(m)
    PROVE  GivesUp(m)
<1>1. s.at \in Nat /\ Len(m) \in Nat /\ e \in [0..5 -> Nat]
  BY DEF Cut
<1>2. CASE Configured(s)
  <2>1. Len(s.nodes) <= MSG_MAX_NODES
    BY DEF MSG_MAX_NODES
  <2>2. /\ SizeLine(m, e[2]) /\ SizeAt(m, e[2]) = ConfigSize(s)
        /\ e[2] \in Nat /\ ConfigSize(s) \in Nat
        /\ e[3] = e[2] + ConfigSize(s)
        /\ {e[4], e[5]} \subseteq LineEnds(m)
        /\ e[3] < e[4] /\ e[4] < e[5] /\ e[5] < s.at
    BY <1>2, <2>1, LinesBehind
  <2>3. /\ e[2] \in SizeLineEnd(m)
        /\ Atoi(SubSeq(m, 3, e[2] - 1)) = ConfigSize(s)
    <3>1. e[2] \in SizeLineEnd(m)
      BY <2>2, SizeLineEndIs, Zenon
    <3>2. Atoi(SubSeq(m, 3, e[2] - 1)) = SizeAt(m, e[2])
      BY <3>1, SizeLineEndIs, Zenon
    <3> QED BY <2>2, <3>1, <3>2
  <2>4. e[5] < Len(m) /\ e[2] + ConfigSize(s) < e[4] /\ ConfigSize(s) >= 0
    BY <1>1, <2>2
  <2> QED BY <2>2, <2>3, <2>4 DEF GivesUp
<1>3. CASE ~Configured(s)
  <2>1. \A i \in 1..5 : e[i] \in LineEnds(m) /\ e[i - 1] < e[i] /\ e[i] < s.at
    BY <1>3, EveryEnd
  <2>2. SizeLineEnd(m) = {}
    <3> SUFFICES ASSUME NEW b \in SizeLineEnd(m) PROVE FALSE
      OBVIOUS
    <3>1. SizeLine(m, b)
      BY SizeLineEndIs, Zenon
    <3>2. /\ b \in 3..Len(m) - 1 /\ m[1] = "TCP_SET_CFG" /\ m[2] = "NL"
      BY <3>1 DEF SizeLine
    <3>3. s.at > 2
      <4>1. e[0] < e[1] /\ e[1] < e[2] /\ e[2] < s.at
        <5>1. 1 \in 1..5 /\ 2 \in 1..5 /\ 1 - 1 = 0 /\ 2 - 1 = 1
          OBVIOUS
        <5> QED BY <2>1, <5>1
      <4> QED BY <1>1, <4>1
    <3>4. s.nodes[1] = <<"TCP_SET_CFG">>
      <4>1. Len(m) >= 2 /\ m[1] # "NL"
        BY <1>1, <3>2
      <4> QED BY <3>2, <3>3, <4>1, FirstLine
    <3> QED BY <1>3, <3>4 DEF Configured
  <2> DEFINE T == {e[i] : i \in 1..5}
             U == LineEnds(m) \ {Len(m)}
  <2>3. T \subseteq U
    <3> SUFFICES ASSUME NEW i \in 1..5 PROVE e[i] \in U
      OBVIOUS
    <3>1. e[i] # Len(m)
      <4>1. e[i] < s.at /\ e[i] \in Nat
        BY <1>1, <2>1
      <4> QED BY <1>1, <4>1
    <3> QED BY <2>1, <3>1
  <2>4. IsFiniteSet(T) /\ Cardinality(T) = 5
    <3>1. \A i \in 1..5 : e[i - 1] < e[i]
      BY <2>1
    <3>2. 5 \in Nat /\ e \in [0..5 -> Nat]
      BY <1>1
    <3>3. T = {e[i] : i \in 1..5}
      OBVIOUS
    <3> HIDE DEF T
    <3> QED BY <3>1, <3>2, <3>3, CountEnds, Zenon
  <2>5. IsFiniteSet(U) /\ Cardinality(U) \in Nat
    BY LineEndsFinite
  <2> HIDE DEF T, U
  <2>6. Cardinality(T) <= Cardinality(U)
    BY <2>3, <2>5, FS_Subset
  <2>7. Cardinality(U) >= MSG_MAX_NODES
    BY <2>4, <2>5, <2>6 DEF MSG_MAX_NODES
  <2> QED BY <2>2, <2>7 DEF GivesUp, U
<1> QED BY <1>2, <1>3

LEMMA EndOfMessage ==
    ASSUME NEW R, NEW m \in Seq(R), NEW s \in States(R), NEW e, Cut(m, s, e),
           AtConfig(s) => s.at = e[2] + 1,
           Len(s.nodes) = MSG_MAX_NODES => s.at = e[MSG_MAX_NODES] + 1,
           Len(s.nodes) <= MSG_MAX_NODES, s.at = Len(m) + 1
    PROVE  ~GivesUp(m)
<1>1. /\ s.at \in Nat /\ Len(m) \in Nat /\ Len(s.nodes) \in Nat
      /\ e \in [0..Len(s.nodes) -> Nat]
  BY DEF Cut, States
<1>2. ASSUME Configured(s) PROVE ~GivesUp(m)
  <2>1. /\ SizeLine(m, e[2]) /\ SizeAt(m, e[2]) = ConfigSize(s)
        /\ e[2] \in Nat /\ ConfigSize(s) \in Nat
        /\ e[3] = e[2] + ConfigSize(s)
        /\ Len(s.nodes) = 5 => e[4] < e[5]
        /\ \A q \in LineEnds(m) : q > e[3] /\ q < s.at =>
             (Len(s.nodes) >= 4 /\ q = e[4]) \/ (Len(s.nodes) = 5 /\ q = e[5])
    BY <1>2, LinesBehind
  <2>2. e[2] \in SizeLineEnd(m)
    BY <2>1, SizeLineEndIs, Zenon
  <2>3. ASSUME NEW b \in SizeLineEnd(m)
        PROVE  b = e[2] /\ Atoi(SubSeq(m, 3, b - 1)) = ConfigSize(s)
    <3>1. SizeLine(m, b) /\ Atoi(SubSeq(m, 3, b - 1)) = SizeAt(m, b)
      BY SizeLineEndIs, Zenon
    <3>2. b = e[2]
      <4>1. b \in 3..Len(m) - 1 /\ m[b] = "NL" /\ NoEnd(m, 2, b)
        BY <3>1 DEF SizeLine
      <4>2. e[2] \in 3..Len(m) - 1 /\ m[e[2]] = "NL" /\ NoEnd(m, 2, e[2])
        BY <2>1 DEF SizeLine
      <4>3. b \in Nat /\ b > 2 /\ e[2] > 2
        BY <4>1, <4>2
      <4> QED BY <2>1, <4>1, <4>2, <4>3, SameSecond
    <3> QED BY <2>1, <3>1, <3>2
  <2>4. ConfigSize(s) # -(e[2] + 1)
    BY <2>1
  <2>5. ASSUME NEW i \in LineEnds(m), NEW j \in LineEnds(m),
               e[2] + ConfigSize(s) < i, i < j, j < Len(m)
        PROVE  FALSE
    <3>1. i \in Nat /\ j \in Nat
      BY DEF LineEnds
    <3>2. i > e[3] /\ j > e[3] /\ i < s.at /\ j < s.at
      BY <1>1, <2>1, <2>5, <3>1
    <3>3. (Len(s.nodes) >= 4 /\ i = e[4]) \/ (Len(s.nodes) = 5 /\ i = e[5])
      BY <2>1, <3>2
    <3>4. (Len(s.nodes) >= 4 /\ j = e[4]) \/ (Len(s.nodes) = 5 /\ j = e[5])
      BY <2>1, <3>2
    <3>5. CASE Len(s.nodes) = 5
      <4>1. s.at = e[5] + 1 /\ e[5] \in Nat /\ e[4] \in Nat /\ e[4] < e[5]
        BY <1>1, <2>1, <3>5 DEF MSG_MAX_NODES
      <4>2. e[5] = Len(m)
        BY <1>1, <4>1
      <4> QED BY <2>5, <3>1, <3>3, <3>4, <4>1, <4>2
    <3>6. CASE Len(s.nodes) # 5
      <4>1. i = e[4] /\ j = e[4]
        BY <3>3, <3>4, <3>6
      <4> QED BY <2>5, <3>1, <4>1
    <3> QED BY <3>5, <3>6
  <2>6. ASSUME NEW b \in SizeLineEnd(m), Atoi(SubSeq(m, 3, b - 1)) = -(b + 1)
        PROVE  FALSE
    BY <2>3, <2>4, <2>6
  <2>7. ASSUME NEW b \in SizeLineEnd(m), NEW i \in LineEnds(m), NEW j \in LineEnds(m),
               b + Atoi(SubSeq(m, 3, b - 1)) < i, i < j, j < Len(m)
        PROVE  FALSE
    <3>1. b + Atoi(SubSeq(m, 3, b - 1)) = e[2] + ConfigSize(s)
      BY <2>3
    <3> QED BY <2>5, <2>7, <3>1
  <2> QED BY <2>2, <2>6, <2>7 DEF GivesUp
<1>3. ASSUME ~Configured(s) PROVE ~GivesUp(m)
  <2>1. SizeLineEnd(m) = {}
    <3> SUFFICES ASSUME NEW b \in SizeLineEnd(m) PROVE FALSE
      OBVIOUS
    <3>1. SizeLine(m, b)
      BY SizeLineEndIs, Zenon
    <3>2. b \in 3..Len(m) - 1
      BY <3>1 DEF SizeLine
    <3>3. b < s.at
      BY <1>1, <3>2
    <3>4. AtConfig(s) /\ e[2] = b
      BY <1>3, <3>1, <3>3, SizeLineRead
    <3> QED BY <1>1, <3>2, <3>4
  <2> DEFINE k == Len(s.nodes)
             T == {e[i] : i \in 1..k}
             U == LineEnds(m) \ {Len(m)}
  <2>2. /\ \A q \in 1..s.at - 1 : m[q] = "NL" => \E i \in 1..k : q = e[i]
        /\ \A i \in 1..k : /\ e[i] \in LineEnds(m) /\ e[i - 1] < e[i] /\ e[i] < s.at
    BY <1>3, EveryEnd
  <2>3. U \subseteq T
    <3> SUFFICES ASSUME NEW q \in LineEnds(m) PROVE q \in T
      OBVIOUS
    <3>1. q \in 1..s.at - 1 /\ m[q] = "NL"
      BY <1>1 DEF LineEnds
    <3> QED BY <2>2, <3>1
  <2>k. k \in Nat /\ k <= MSG_MAX_NODES /\ e \in [0..k -> Nat]
    BY <1>1
  <2>a. IsFiniteSet(U) /\ Cardinality(U) \in Nat
    BY LineEndsFinite
  <2>b. k = MSG_MAX_NODES => e[5] = Len(m)
    <3> SUFFICES ASSUME k = MSG_MAX_NODES PROVE e[5] = Len(m)
      OBVIOUS
    <3>1. s.at = e[5] + 1 /\ e[5] \in Nat
      BY <1>1 DEF MSG_MAX_NODES
    <3> QED BY <1>1, <3>1
  <2>c. Len(m) \notin U
    OBVIOUS
  <2> HIDE DEF k, U
  <2>4. IsFiniteSet(T) /\ Cardinality(T) = k
    <3>1. \A i \in 1..k : e[i - 1] < e[i]
      BY <2>2
    <3> QED BY <2>k, <3>1, CountEnds, Zenon
  <2>5. k = MSG_MAX_NODES => U # T
    <3> SUFFICES ASSUME k = MSG_MAX_NODES PROVE e[5] \in T /\ e[5] \notin U
      OBVIOUS
    <3>1. 5 \in 1..k
      BY DEF MSG_MAX_NODES
    <3> QED BY <2>b, <2>c, <3>1
  <2> HIDE DEF T
  <2>6. Cardinality(U) <= k /\ (U # T => Cardinality(U) < k)
    <3>1. U \in SUBSET T
      BY <2>3
    <3>2. Cardinality(U) <= Cardinality(T)
          /\ (Cardinality(U) = Cardinality(T) => U = T)
      BY <2>4, <3>1, FS_Subset, Zenon
    <3>3. Cardinality(U) \in Nat /\ k \in Nat
      BY <2>a, <2>k
    <3> QED BY <2>4, <3>2, <3>3
  <2>7. ~(Cardinality(U) >= MSG_MAX_NODES)
    BY <2>5, <2>6, <2>a, <2>k DEF MSG_MAX_NODES
  <2> QED BY <2>1, <2>7 DEF GivesUp, U
<1> QED BY <1>2, <1>3

\* A size that is negative or more than there is, but does not lead back.
LEMMA NoSizeEnds ==
    ASSUME NEW R, NEW m \in Seq(R), NEW b, NoSize(m, b), SizeAt(m, b) # -(b + 1)
    PROVE  ~GivesUp(m)
<1>1. SizeLine(m, b) /\ (SizeAt(m, b) < 0 \/ b + SizeAt(m, b) >= Len(m))
  BY DEF NoSize
<1>2. b \in 3..Len(m) - 1 /\ m[b] = "NL" /\ NoEnd(m, 2, b) /\ Len(m) \in Nat
  BY <1>1 DEF SizeLine
<1>3. b \in SizeLineEnd(m)
  BY <1>1, SizeLineEndIs, Zenon
<1>4. ASSUME NEW d \in SizeLineEnd(m)
      PROVE  d = b /\ Atoi(SubSeq(m, 3, d - 1)) = SizeAt(m, b)
  <2>1. SizeLine(m, d) /\ Atoi(SubSeq(m, 3, d - 1)) = SizeAt(m, d)
    BY SizeLineEndIs, Zenon
  <2>2. d \in 3..Len(m) - 1 /\ m[d] = "NL" /\ NoEnd(m, 2, d)
    BY <2>1 DEF SizeLine
  <2>3. b \in Nat /\ d \in Nat /\ b > 2 /\ d > 2
    BY <1>2, <2>2
  <2>4. d = b
    BY <1>2, <2>2, <2>3, SameSecond
  <2> QED BY <2>1, <2>4
<1>5. SizeAt(m, b) \in Int
  BY AtoiType DEF SizeAt
<1>6. ASSUME NEW d \in SizeLineEnd(m), Atoi(SubSeq(m, 3, d - 1)) = -(d + 1)
      PROVE  FALSE
  BY <1>4, <1>6
<1>7. ASSUME NEW d \in SizeLineEnd(m), Atoi(SubSeq(m, 3, d - 1)) >= 0,
             NEW i \in LineEnds(m), NEW j \in LineEnds(m),
             d + Atoi(SubSeq(m, 3, d - 1)) < i, i < j, j < Len(m)
      PROVE  FALSE
  <2>1. d = b /\ Atoi(SubSeq(m, 3, d - 1)) = SizeAt(m, b)
    BY <1>4
  <2>2. i \in Nat /\ j \in Nat
    BY DEF LineEnds
  <2>3. SizeAt(m, b) >= 0 /\ b + SizeAt(m, b) < i
    BY <1>7, <2>1
  <2> QED BY <1>1, <1>2, <1>5, <1>7, <2>2, <2>3
<1> QED BY <1>3, <1>6, <1>7, Zenon DEF GivesUp

LEMMA RestartGivesUp ==
    ASSUME NEW R, NEW m \in Seq(R), NEW b, NoSize(m, b), SizeAt(m, b) = -(b + 1)
    PROVE  GivesUp(m)
<1>1. SizeLine(m, b)
  BY DEF NoSize
<1>2. b \in SizeLineEnd(m)
  BY <1>1, SizeLineEndIs, Zenon
<1>3. Atoi(SubSeq(m, 3, b - 1)) = -(b + 1)
  <2>1. Atoi(SubSeq(m, 3, b - 1)) = SizeAt(m, b)
    BY <1>2, SizeLineEndIs, Zenon
  <2> QED BY <2>1
<1> QED BY <1>2, <1>3, Zenon DEF GivesUp

\* Whatever is read outside the buffer, ParseMsg returns TOO_MANY_NODES for the
\* messages with too many lines, a configuration counting as one, and for those
\* whose size leads the loop back to the start, and for no other.
THEOREM TooManyIsGivenUp ==
    ASSUME NEW R, "NL" \in R, "NUL" \in R, NEW m \in Seq(R), NEW stray \in R
    PROVE  /\ Parse(m, stray).tooMany => GivesUp(m)
           /\ GivesUp(m) => Parse(m, stray).tooMany
<1> DEFINE p == Parse(m, stray)
<1>1. p \in States(R) /\ LoopInv(m, p) /\ Over(m, p)
  BY ParsedLines
<1> HIDE DEF p
<1>2. CASE CutOff(m, p)
  <2>1. ~p.tooMany
    BY <1>2 DEF CutOff
  <2>2. PICK b : NoSize(m, b) /\ SizeAt(m, b) # -(b + 1)
    BY <1>2 DEF CutOff
  <2>3. ~GivesUp(m)
    BY <2>2, NoSizeEnds
  <2> QED BY <2>1, <2>3 DEF p
<1>3. CASE Restarted(m, p)
  <2>1. p.tooMany
    BY <1>1, <1>3, RestartedOver
  <2>2. PICK b : NoSize(m, b) /\ SizeAt(m, b) = -(b + 1)
    BY <1>3 DEF Restarted
  <2>3. GivesUp(m)
    BY <2>2, RestartGivesUp
  <2> QED BY <2>1, <2>3 DEF p
<1>4. CASE Scanning(m, p)
  <2>1. PICK e : /\ Cut(m, p, e) /\ (AtConfig(p) => p.at = e[2] + 1)
                 /\ Len(p.nodes) = MSG_MAX_NODES => p.at = e[MSG_MAX_NODES] + 1
    BY <1>4 DEF Scanning
  <2>2. CASE p.tooMany
    <3>1. Len(p.nodes) = 5 /\ p.at \in 1..Len(m)
      BY <1>1, <2>2 DEF LoopInv, MSG_MAX_NODES
    <3>2. p.at <= Len(m)
      BY <3>1
    <3>3. GivesUp(m)
      BY <1>1, <2>1, <3>1, <3>2, FullGivesUp
    <3> QED BY <2>2, <3>3 DEF p
  <2>3. CASE ~p.tooMany
    <3>1. p.at = Len(m) + 1
      BY <1>1, <1>4, <2>3, ScanningOver
    <3>2. Len(p.nodes) <= MSG_MAX_NODES
      BY <1>1 DEF LoopInv
    <3>3. ~GivesUp(m)
      BY <1>1, <2>1, <3>1, <3>2, EndOfMessage
    <3> QED BY <2>3, <3>3 DEF p
  <2> QED BY <2>2, <2>3
<1> QED BY <1>1, <1>2, <1>3, <1>4 DEF LoopInv

-----------------------------------------------------------------------------
(* What a command's nodes are.                                             *)

\* The third node of a TCP_SET_CFG message is the text the second line counts,
\* with line feeds for its carriage returns.
THEOREM ConfigRead ==
    ASSUME NEW R, "NL" \in R, "NUL" \in R, NEW m \in Seq(R), NEW stray \in R,
           Meant(m) = "TCP_SET_CFG"
    PROVE  /\ m[1] = "TCP_SET_CFG" /\ m[2] = "NL"
           /\ \E b : /\ SetCfgUpTo(m, b)
                     /\ NodeAt(Parse(m, stray).nodes, 2) =
                          [i \in 1..Atoi(Between(m, 2, b)) |-> Word(m[b + i])]
<1> DEFINE p == Parse(m, stray)
<1>1. p \in States(R) /\ LoopInv(m, p) /\ Over(m, p)
  BY ParsedLines
<1> HIDE DEF p
<1>2. IsSetCfg(m)
  <2>1. "TCP_SET_CFG" # TCP_CMD_NUM
    BY DEF TCP_CMD_NUM
  <2>2. ASSUME NEW c \in TcpCommands, IsCommand(m, c), m[1] = "TCP_SET_CFG" PROVE FALSE
    BY <2>2 DEF IsCommand
  <2> QED BY <2>1, <2>2, Zenon DEF Meant
<1>3. Scanning(m, p)
  <2>1. ASSUME NEW b, NoSize(m, b) PROVE FALSE
    BY <1>2, <2>1, NoSizeMeansNothing
  <2>2. ~CutOff(m, p) /\ ~Restarted(m, p)
    BY <2>1 DEF CutOff, Restarted
  <2> QED BY <1>1, <2>2 DEF LoopInv
<1>4. PICK e : Cut(m, p, e)
  BY <1>3 DEF Scanning
<1>5. p.at > Len(m) \/ Len(p.nodes) >= 5
  <2>1. p.tooMany \/ p.at = Len(m) + 1
    BY <1>1, <1>3, ScanningOver
  <2>2. p.tooMany => Len(p.nodes) = 5
    BY <1>1 DEF LoopInv, MSG_MAX_NODES
  <2>3. \A l \in Nat : l + 1 > l
    OBVIOUS
  <2>4. Len(m) \in Nat /\ 5 >= 5
    OBVIOUS
  <2> QED BY <2>1, <2>2, <2>3, <2>4, Zenon
<1>6. Configured(p) /\ Len(p.nodes) = 4 /\ p.nodes[1] = <<"TCP_SET_CFG">>
  <2>1. Configured(p) /\ Len(p.nodes) = 4
    BY <1>1, <1>2, <1>4, <1>5, SetCfgCut
  <2> QED BY <2>1 DEF Configured
<1>7. m[1] = "TCP_SET_CFG" /\ m[2] = "NL"
  BY <1>2, SetCfgIs
<1>8. PICK b : SetCfgUpTo(m, b)
  BY <1>2, SetCfgIs
<1>9. b \in 3..Len(m) /\ m[b] = "NL" /\ NoEnd(m, 2, b)
  BY <1>8, Zenon DEF SetCfgUpTo
<1>10. /\ e[2] \in Nat /\ e[2] >= 3 /\ m[e[2]] = "NL"
       /\ NoEnd(m, 2, e[2]) /\ p.nodes[2] = Between(m, 2, e[2])
  BY <1>1, <1>4, <1>6, TwoLines
<1>11. e[2] = b
  <2>1. b \in Nat /\ b > 2 /\ e[2] > 2
    BY <1>9, <1>10
  <2> QED BY <1>9, <1>10, <2>1, SameSecond
<1>12. p.nodes[3] = [i \in 1..Atoi(Between(m, 2, b)) |-> Word(m[b + i])]
  <2>1. p.nodes[3] = [i \in 1..ConfigSize(p) |-> Word(m[e[2] + i])]
    BY <1>4, <1>6 DEF Cut
  <2> QED BY <1>10, <1>11, <2>1 DEF ConfigSize
<1>13. NodeAt(p.nodes, 2) = p.nodes[3]
  BY <1>6 DEF NodeAt
<1> QED BY <1>7, <1>8, <1>12, <1>13 DEF p

\* The second node of any other command is the text of its second line.
LEMMA SecondLine ==
    ASSUME NEW R, "NL" \in R, "NUL" \in R, NEW m \in Seq(R), NEW stray \in R,
           NEW c \in TcpCommands, IsCommand(m, c), NEW b \in 3..Len(m), m[b] = "NL", NoEnd(m, 2, b)
    PROVE  NodeAt(Parse(m, stray).nodes, 1) = Between(m, 2, b)
<1> DEFINE p == Parse(m, stray)
<1>1. p \in States(R) /\ LoopInv(m, p) /\ Over(m, p)
  BY ParsedLines
<1> HIDE DEF p
<1>2. c # "TCP_SET_CFG" /\ m[1] = c /\ m[2] = "NL" /\ m[1] # "NL"
  BY CommandTable DEF IsCommand
<1>3. Scanning(m, p)
  <2>1. ASSUME NEW d, NoSize(m, d) PROVE FALSE
    BY <2>1, NoSizeMeansNothing
  <2>2. ~CutOff(m, p) /\ ~Restarted(m, p)
    BY <2>1 DEF CutOff, Restarted
  <2> QED BY <1>1, <2>2 DEF LoopInv
<1>4. PICK e : Cut(m, p, e)
  BY <1>3 DEF Scanning
<1>5. p.at > Len(m) \/ Len(p.nodes) >= 5
  <2>1. p.tooMany \/ p.at = Len(m) + 1
    BY <1>1, <1>3, ScanningOver
  <2>2. p.tooMany => Len(p.nodes) = 5
    BY <1>1 DEF LoopInv, MSG_MAX_NODES
  <2>3. \A l \in Nat : l + 1 > l
    OBVIOUS
  <2>4. Len(m) \in Nat /\ 5 >= 5
    OBVIOUS
  <2> QED BY <2>1, <2>2, <2>3, <2>4, Zenon
<1>6. ~Configured(p)
  <2> SUFFICES ASSUME Configured(p) PROVE FALSE
    OBVIOUS
  <2>1. Len(p.nodes) >= 2 /\ p.nodes[1] = <<"TCP_SET_CFG">>
    BY <1>1 DEF Configured, States
  <2>2. m[1] = "TCP_SET_CFG"
    BY <1>1, <1>4, <2>1, TwoLines
  <2> QED BY <1>2, <2>2
<1>7. Len(p.nodes) \in 2..4 /\ p.nodes[1] = <<c>>
  <2>1. Len(p.nodes) = NodesOf[c] /\ p.nodes[1] = <<c>>
    BY <1>1, <1>2, <1>4, <1>5, <1>6, CommandRead
  <2> QED BY <2>1, CommandTable
<1> DEFINE k == Len(p.nodes)
<1>k. k \in 2..4
  BY <1>7
<1>8. /\ e[2 - 1] < e[2] /\ m[e[2]] = "NL" /\ e[2] < p.at
      /\ p.nodes[2] = Between(m, e[2 - 1], e[2]) /\ NoEnd(m, e[2 - 1], e[2])
      /\ e[2] \in Nat /\ e[1] \in Nat
  <2>1. 2 \in 1..Len(p.nodes) /\ 2 # 3 /\ 2 \in 0..Len(p.nodes) /\ 1 \in 0..Len(p.nodes)
    <3> HIDE DEF k
    <3>1. 2 \in 1..k /\ 2 # 3 /\ 2 \in 0..k /\ 1 \in 0..k
      BY <1>k
    <3> QED BY <3>1 DEF k
  <2> QED BY <1>4, <2>1 DEF Cut
<1>9. e[1] = 2
  <2>1. p.at > 2 /\ Len(m) >= 2
    <3>1. Len(m) \in Nat /\ Len(m) >= 3
      OBVIOUS
    <3>2. p.at > Len(m) /\ p.at \in Nat
      <4>1. p.at \in Nat
        BY <1>4 DEF Cut
      <4>2. ~(k >= 5)
        <5> HIDE DEF k
        <5> QED BY <1>k
      <4> QED BY <1>5, <4>1, <4>2
    <3> QED BY <3>1, <3>2
  <2> QED BY <1>1, <1>2, <1>4, <2>1, FirstLine
<1>10. e[2] = b
  <2>1. e[2] > 2 /\ b > 2 /\ b \in Nat /\ e[2] \in Nat /\ NoEnd(m, 2, e[2])
    BY <1>8, <1>9
  <2> QED BY <1>8, <2>1, SameSecond
<1>11. NodeAt(p.nodes, 1) = p.nodes[2]
  <2>1. 1 < k /\ 1 + 1 = 2
    <3> HIDE DEF k
    <3> QED BY <1>k
  <2> QED BY <2>1, Zenon DEF NodeAt
<1> QED BY <1>8, <1>9, <1>10, <1>11 DEF p

\* Never more nodes than the parser has room for.
LEMMA NodesBounded ==
    ASSUME NEW R, "NL" \in R, "NUL" \in R, NEW m \in Seq(R), NEW stray \in R
    PROVE  Len(Parse(m, stray).nodes) <= MSG_MAX_NODES
  BY ParsedLines DEF LoopInv
=============================================================================
