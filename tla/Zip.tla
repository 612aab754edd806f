-------------------------------- MODULE Zip --------------------------------
(***************************************************************************)
(* The encoding of the sounds (src/utilities/zip.cpp): every two bytes     *)
(* change places, block by block.  A sound goes through ZipCompress, which *)
(* the author of a sound uses, and then ZipUncompress, as ParseXml does at *)
(* the start.  The two have the same loop; one round of it is a step.      *)
(***************************************************************************)
EXTENDS Naturals, Sequences

CONSTANTS
    Bytes,
    FileBlock, \* FILE_BLOCK
    MaxSize    \* bound on the size of a file

ASSUME BlockAssumption == FileBlock \in Nat \ {0} /\ FileBlock % 2 = 0
ASSUME SizeAssumption  == MaxSize \in Nat

VARIABLES
    plain,  \* the file the author has
    pass,   \* Compress or Uncompress
    pc,     \* read, or done
    source,
    read,   \* size_read_total
    odd,    \* buf_odd_char, once it is set
    dest

vars == <<plain, pass, pc, source, read, odd, dest>>

FileContents == UNION {[1..n -> Bytes] : n \in 0..MaxSize}

Init ==
    /\ plain \in FileContents
    /\ pass = "Compress" /\ pc = "read"
    /\ source = plain /\ read = 0 /\ odd = <<>> /\ dest = <<>>

IsOdd == Len(source) % 2 = 1

Partner(i) == IF i % 2 = 1 THEN i + 1 ELSE i - 1

\* The last byte of an odd file is kept for the end.
OddLast(n) == IsOdd /\ read + n = Len(source) /\ n % 2 = 1

\* fread, the swap of the pairs in the block, and fwrite.
SwapBlock ==
    /\ pc = "read" /\ read < Len(source)
    /\ \E n \in 1..FileBlock :
        LET pairs == IF OddLast(n) THEN n - 1 ELSE n IN
        /\ n = IF Len(source) - read < FileBlock THEN Len(source) - read
                                                 ELSE FileBlock
        /\ read' = read + n
        /\ dest' = dest \o [i \in 1..pairs |-> source[read + Partner(i)]]
        /\ odd' = IF OddLast(n) THEN <<source[read + n]>> ELSE odd
    /\ UNCHANGED <<plain, pass, pc, source>>

\* Mutant: the byte that was kept is not written.
FinishEven ==
    /\ pc = "read" /\ read = Len(source) /\ pc' = "done"
    /\ UNCHANGED <<plain, pass, source, read, odd, dest>>

\* The end of the loop, and the odd byte.
Finish ==
    /\ pc = "read" /\ read = Len(source) /\ pc' = "done"
    /\ dest' = IF IsOdd THEN dest \o odd ELSE dest
    /\ UNCHANGED <<plain, pass, source, read, odd>>

\* The sound is decoded.
Uncompress ==
    /\ pc = "done" /\ pass = "Compress"
    /\ pass' = "Uncompress" /\ pc' = "read"
    /\ source' = dest /\ read' = 0 /\ odd' = <<>> /\ dest' = <<>>
    /\ UNCHANGED plain

Next == SwapBlock \/ Finish \/ Uncompress

Spec == Init /\ [][Next]_vars

-----------------------------------------------------------------------------
\* The bytes of a file in pairs, each pair reversed; the last of an odd number
\* of bytes stays (the vectors of util_zip_test.cpp).
Mirror(s) ==
    [i \in 1..Len(s) |-> IF i = Len(s) /\ i % 2 = 1 THEN s[i] ELSE s[Partner(i)]]

\* However the blocks fall, an encoded file is its bytes with each pair
\* reversed, none lost or repeated at the end of a block.
PairsReversed == pc = "done" => dest = Mirror(source)

\* A sound that was encoded and decoded is the sound it was
\* (util_zip_test.cpp, ZipCompressUncompressRandomPayload).
RoundTrip == pc = "done" /\ pass = "Uncompress" => dest = plain
=============================================================================
