---- MODULE DataStructureProofs ----
(***************************************************************************)
(* Proofs about the two data structures that stand on their own: lab34's   *)
(* ring buffer and the line tables of lab5, lab6 and lab7.                 *)
(***************************************************************************)
EXTENDS Buffers, LineTable, FiniteSetTheorems, SequenceTheorems, TLAPS

(***************************************************************************)
(* The ring buffer, for every size and every content: it is a queue, and   *)
(* so is the linear buffer, which holds the same bytes when it gets the    *)
(* same calls.                                                             *)
(***************************************************************************)
(* Indices into the ring never exceed twice its size: one subtraction does *)
(* the work of the division.                                               *)
LEMMA Wrap ==
    ASSUME NEW a \in 0 .. 2 * Size - 1
    PROVE  /\ a < Size => a % Size = a
           /\ a >= Size => a % Size = a - Size
<1>1. CASE a < Size
  BY <1>1, SizeAssumption
<1>2. CASE a >= Size
  <2>1. a - Size \in 0 .. Size - 1
    BY <1>2, SizeAssumption
  <2>2. a = Size * 1 + (a - Size)
    BY SizeAssumption
  <2> QED BY <2>1, <2>2, <1>2, SizeAssumption
<1> QED BY <1>1, <1>2, SizeAssumption
-----------------------------------------------------------------------------
(* Contents are functions on 1 .. n: what that says about them as sequences. *)

LEMMA FunctionIsSeq ==
    ASSUME NEW n \in Nat, NEW s \in [1 .. n -> Bytes]
    PROVE  s \in Seq(Bytes) /\ Len(s) = n
<1>1. s \in Seq(Bytes)
  BY SeqDef
<1>2. Len(s) \in Nat /\ DOMAIN s = 1 .. Len(s)
  BY <1>1, LenProperties
<1>3. 1 .. Len(s) = 1 .. n
  BY <1>2
<1>4. Len(s) = n
  BY <1>2, <1>3
<1> QED BY <1>1, <1>4

LEMMA PieceIsSubSeq ==
    ASSUME NEW n \in Nat, NEW s \in [1 .. n -> Bytes],
           NEW l \in Nat, NEW h \in 0 .. n, l <= h,
           NEW t \in [1 .. h - l -> Bytes],
           \A k \in 1 .. h - l : t[k] = s[l + k]
    PROVE  SubSeq(s, l + 1, h) = t
<1>1. \A i \in l + 1 .. h : s[i] \in Bytes
  OBVIOUS
<1>2. /\ SubSeq(s, l + 1, h) \in Seq(Bytes)
      /\ Len(SubSeq(s, l + 1, h)) = h - l
      /\ \A i \in 1 .. h - l : SubSeq(s, l + 1, h)[i] = s[l + i]
  <2>1. /\ SubSeq(s, l + 1, h) \in Seq(Bytes)
        /\ Len(SubSeq(s, l + 1, h)) = IF l + 1 <= h THEN h - (l + 1) + 1 ELSE 0
        /\ \A i \in 1 .. h - (l + 1) + 1 :
              SubSeq(s, l + 1, h)[i] = s[(l + 1) + i - 1]
    <3> DEFINE m == l + 1
    <3>1. m \in Int /\ h \in Int
      OBVIOUS
    <3>2. \A i \in m .. h : s[i] \in Bytes
      BY <1>1
    <3> HIDE DEF m
    <3>3. /\ SubSeq(s, m, h) \in Seq(Bytes)
          /\ Len(SubSeq(s, m, h)) = IF m <= h THEN h - m + 1 ELSE 0
          /\ \A i \in 1 .. h - m + 1 : SubSeq(s, m, h)[i] = s[m + i - 1]
      BY <3>1, <3>2, SubSeqProperties
    <3> QED BY <3>3 DEF m
  <2>2. h - (l + 1) + 1 = h - l
    OBVIOUS
  <2>3. \A i \in 1 .. h - l : (l + 1) + i - 1 = l + i
    OBVIOUS
  <2>4. Len(SubSeq(s, l + 1, h)) = h - l
    BY <2>1
  <2>5. \A i \in 1 .. h - l : SubSeq(s, l + 1, h)[i] = s[l + i]
    BY <2>1, <2>2, <2>3, Zenon
  <2> QED BY <2>1, <2>4, <2>5
<1>3. t \in Seq(Bytes) /\ Len(t) = h - l
  <2>1. h - l \in Nat
    OBVIOUS
  <2> QED BY <2>1, FunctionIsSeq
<1> QED BY <1>2, <1>3, SeqEqual

-----------------------------------------------------------------------------
(* The kinds of steps of the abstract queue, stated about the ring: it     *)
(* keeps its content and grows, or loses a prefix of it.                   *)

LEMMA ContentOf ==
    ASSUME NEW b \in [Cells -> Bytes], NEW from \in Cells, NEW n \in 0 .. Size
    PROVE  [k \in 1 .. n |-> b[(from + k - 1) % Size]] \in [1 .. n -> Bytes]
<1>1. \A k \in 1 .. n : (from + k - 1) % Size \in Cells
  BY SizeAssumption DEF Cells
<1> QED BY <1>1

LEMMA ContentsAreSeqs ==
    ASSUME RingTypeOK, RingTypeOK'
    PROVE  /\ count \in Nat /\ count' \in Nat
           /\ Content \in [1 .. count -> Bytes] /\ Content' \in [1 .. count' -> Bytes]
           /\ Content \in Seq(Bytes) /\ Content' \in Seq(Bytes)
           /\ Len(Content) = count /\ Len(Content') = count'
<1>1. Content \in [1 .. count -> Bytes] /\ Content' \in [1 .. count' -> Bytes]
  BY ContentOf DEF RingTypeOK, Content, ByteAt
<1>2. count \in Nat /\ count' \in Nat
  BY SizeAssumption DEF RingTypeOK
<1> QED BY <1>1, <1>2, FunctionIsSeq

(* The content grows behind what was there. *)
LEMMA GrowIsPut ==
    ASSUME RingTypeOK, RingTypeOK', count <= count',
           \A k \in 1 .. count : ByteAt(k)' = ByteAt(k),
           taken' = <<>>
    PROVE  Queue!Put
<1>1. SubSeq(Content', 0 + 1, count) = Content
  <2>1. \A k \in 1 .. count - 0 : Content[k] = Content'[0 + k]
    BY ContentsAreSeqs DEF Content, ByteAt
  <2>2. count - 0 = count /\ count \in 0 .. count'
    BY ContentsAreSeqs
  <2> QED BY <2>1, <2>2, ContentsAreSeqs, PieceIsSubSeq
<1>2. Len(Content') \in Len(Content) .. Size
  BY ContentsAreSeqs DEF RingTypeOK
<1> QED BY <1>1, <1>2, ContentsAreSeqs DEF Queue!Put

(* The n oldest bytes leave. *)
LEMMA ShrinkIsLeave ==
    ASSUME RingTypeOK, RingTypeOK', NEW n \in 0 .. count, count' = count - n,
           \A k \in 1 .. count - n : ByteAt(k)' = ByteAt(n + k)
    PROVE  Queue!Leave(n)
<1>1. \A k \in 1 .. count - n : Content'[k] = Content[n + k]
  BY ContentsAreSeqs DEF Content, ByteAt
<1>2. SubSeq(Content, n + 1, count) = Content'
  BY <1>1, ContentsAreSeqs, PieceIsSubSeq
<1> QED BY <1>2, ContentsAreSeqs DEF Queue!Leave

(* They leave to the caller. *)
LEMMA FrontOfContent ==
    ASSUME RingTypeOK, RingTypeOK', NEW n \in 0 .. count,
           taken' = [k \in 1 .. n |-> ByteAt(k)]
    PROVE  taken' = SubSeq(Content, 1, n)
<1>1. taken' = [k \in 1 .. n |-> Content[k]]
  BY ContentsAreSeqs DEF Content
<1>2. taken' \in [1 .. n -> Bytes]
  BY <1>1, ContentsAreSeqs
<1>3. SubSeq(Content, 0 + 1, n) = taken'
  <2>1. n - 0 = n
    OBVIOUS
  <2> QED BY <1>1, <1>2, <2>1, ContentsAreSeqs, PieceIsSubSeq
<1> QED BY <1>3

LEMMA HandOutIsTake ==
    ASSUME RingTypeOK, RingTypeOK', NEW n \in 0 .. count, Queue!Leave(n),
           taken' = [k \in 1 .. n |-> ByteAt(k)]
    PROVE  Queue!Take(n)
BY FrontOfContent DEF Queue!Take

-----------------------------------------------------------------------------
(* Walking the ring. *)

LEMMA RingAdd ==
    ASSUME NEW a \in Cells, NEW d \in 0 .. Size, NEW e \in 0 .. Size - 1, d + e <= Size
    PROVE  /\ (a + d) % Size \in Cells
           /\ (((a + d) % Size) + e) % Size = (a + (d + e)) % Size
<1> DEFINE x == a + d
           y == a + (d + e)
           z == (x % Size) + e
<1>1. x \in 0 .. 2 * Size - 1
  BY SizeAssumption DEF Cells
<1>2. y \in 0 .. 2 * Size - 1
  BY SizeAssumption DEF Cells
<1>3. (x < Size => x % Size = x) /\ (x >= Size => x % Size = x - Size)
  <2> HIDE DEF x
  <2> QED BY <1>1, Wrap
<1>4. (y < Size => y % Size = y) /\ (y >= Size => y % Size = y - Size)
  <2> HIDE DEF y
  <2> QED BY <1>2, Wrap
<1>5. x % Size \in 0 .. Size - 1
  <2> HIDE DEF x
  <2> QED BY <1>1, <1>3, SizeAssumption
<1>6. z \in 0 .. 2 * Size - 1
  <2> HIDE DEF x
  <2> QED BY <1>5, SizeAssumption
<1>7. (z < Size => z % Size = z) /\ (z >= Size => z % Size = z - Size)
  <2> HIDE DEF z
  <2> QED BY <1>6, Wrap
<1>8. z % Size = y % Size
  <2>1. CASE x < Size
    <3>1. z = y
      BY <1>3, <2>1, SizeAssumption DEF Cells
    <3> QED BY <3>1
  <2>2. CASE x >= Size
    <3>1. z = y - Size /\ y >= Size /\ z < Size
      BY <1>3, <2>2, SizeAssumption DEF Cells
    <3> HIDE DEF z, y
    <3> QED BY <1>4, <1>7, <3>1, Zenon
  <2> QED BY <2>1, <2>2, SizeAssumption DEF Cells
<1> QED BY <1>5, <1>8 DEF Cells

LEMMA RingDistinct ==
    ASSUME NEW a \in Cells, NEW d \in Cells, NEW e \in Cells, d # e
    PROVE  (a + d) % Size # (a + e) % Size
<1> DEFINE x == a + d
           y == a + e
<1>1. x \in 0 .. 2 * Size - 1 /\ y \in 0 .. 2 * Size - 1 /\ x # y
  BY SizeAssumption DEF Cells
<1>2. x - y < Size /\ y - x < Size
  BY SizeAssumption DEF Cells
<1> HIDE DEF x, y
<1>3. /\ (x < Size => x % Size = x) /\ (x >= Size => x % Size = x - Size)
      /\ (y < Size => y % Size = y) /\ (y >= Size => y % Size = y - Size)
  BY <1>1, Wrap
<1>4. x % Size # y % Size
  BY <1>1, <1>2, <1>3, SizeAssumption
<1> QED BY <1>4 DEF x, y

(* cb_shift keeps the content. *)
LEMMA ShiftKeepsContent ==
    ASSUME RingTypeOK
    PROVE  /\ Shifted \in [Cells -> Bytes]
           /\ \A k \in 1 .. count : Shifted[k - 1] = ByteAt(k)
<1>1. \A c \in Cells : (start + c) % Size \in Cells
  BY SizeAssumption DEF RingTypeOK, Cells
<1>2. \A k \in 1 .. count : k - 1 \in Cells /\ k - 1 < count /\ start + (k - 1) = start + k - 1
  BY SizeAssumption DEF RingTypeOK, Cells
<1>3. CASE start = 0
  <2>1. \A k \in 1 .. count : (start + k - 1) % Size = k - 1
    BY <1>2, <1>3, SizeAssumption DEF Cells
  <2> QED BY <1>3, <2>1 DEF Shifted, ByteAt, RingTypeOK
<1>4. CASE start # 0
  <2>1. Shifted = [c \in Cells |-> IF c < count THEN buf[(start + c) % Size] ELSE buf[c]]
    BY <1>4 DEF Shifted
  <2>2. Shifted \in [Cells -> Bytes]
    BY <1>1, <2>1 DEF RingTypeOK
  <2>3. \A k \in 1 .. count : Shifted[k - 1] = buf[(start + (k - 1)) % Size]
    BY <1>2, <2>1
  <2> QED BY <1>2, <2>2, <2>3 DEF ByteAt
<1> QED BY <1>3, <1>4

(* cb_skip drops the oldest bytes of a content that begins at `from`. *)
LEMMA SkipType ==
    ASSUME RingTypeOK, NEW from \in Cells, NEW n \in Nat, SkipFrom(from, n)
    PROVE  /\ MinOf(n, count) \in 0 .. count
           /\ count' = count - MinOf(n, count)
           /\ count' \in 0 .. Size
           /\ start' = (from + MinOf(n, count)) % Size
           /\ start' \in Cells
<1>1. MinOf(n, count) \in 0 .. count
  BY DEF MinOf, RingTypeOK
<1>2. count' = count - MinOf(n, count) /\ start' = (from + MinOf(n, count)) % Size
  BY DEF SkipFrom
<1>3. start' \in Cells
  BY <1>1, <1>2, SizeAssumption DEF RingTypeOK, Cells
<1>4. count' \in 0 .. Size
  BY <1>1, <1>2, SizeAssumption DEF RingTypeOK
<1> QED BY <1>1, <1>2, <1>3, <1>4, Zenon

LEMMA SkipDrops ==
    ASSUME RingTypeOK, NEW from \in Cells, NEW n \in Nat, SkipFrom(from, n),
           \A k \in 1 .. count : buf'[(from + (k - 1)) % Size] = ByteAt(k)
    PROVE  \A k \in 1 .. count - MinOf(n, count) : ByteAt(k)' = ByteAt(MinOf(n, count) + k)
<1> DEFINE d == MinOf(n, count)
<1>1. d \in 0 .. count /\ count' = count - d /\ start' = (from + d) % Size /\ start' \in Cells
  BY SkipType
<1> HIDE DEF d
<1>2. ASSUME NEW k \in 1 .. count - d
      PROVE  ByteAt(k)' = ByteAt(d + k)
  <2>1. k - 1 \in 0 .. Size - 1 /\ d \in 0 .. Size /\ d + (k - 1) <= Size
    BY <1>1, SizeAssumption DEF RingTypeOK
  <2>2. (((from + d) % Size) + (k - 1)) % Size = (from + (d + (k - 1))) % Size
    BY <2>1, RingAdd
  <2>3. start' + k - 1 = ((from + d) % Size) + (k - 1)
    BY <1>1, <2>1, SizeAssumption DEF RingTypeOK, Cells
  <2>4. d + k \in 1 .. count /\ d + (k - 1) = (d + k) - 1
    BY <1>1 DEF RingTypeOK
  <2>5. buf'[(from + ((d + k) - 1)) % Size] = ByteAt(d + k)
    BY <2>4
  <2> QED BY <2>2, <2>3, <2>4, <2>5 DEF ByteAt
<1> QED BY <1>2 DEF d

LEMMA SkipIsLeave ==
    ASSUME RingTypeOK, RingTypeOK', NEW from \in Cells, NEW n \in Nat, SkipFrom(from, n),
           \A k \in 1 .. count : buf'[(from + (k - 1)) % Size] = ByteAt(k)
    PROVE  Queue!Leave(MinOf(n, count))
BY SkipType, SkipDrops, ShrinkIsLeave

-----------------------------------------------------------------------------
(* The pieces of memory handed to callers. *)

LEMMA Pieces ==
    ASSUME RingTypeOK
    PROVE  /\ start + ContiguousSpace <= Size
           /\ DataEnd \in Cells
           /\ DataEnd + FreeContiguousSpace <= Size
           /\ FreeContiguousSpace \in 0 .. FreeSpace
           /\ \A c \in DataEnd .. DataEnd + FreeContiguousSpace - 1 :
                 \A k \in 1 .. count : c # (start + k - 1) % Size
<1> USE SizeAssumption
<1>1. start + ContiguousSpace <= Size
  BY SizeAssumption DEF RingTypeOK, Cells, ContiguousSpace, MinOf
<1> DEFINE x == start + count
<1>2. x \in 0 .. 2 * Size - 1 /\ start \in 0 .. Size - 1 /\ count \in 0 .. Size
  BY SizeAssumption DEF RingTypeOK, Cells
<1>3. (x < Size => x % Size = x) /\ (x >= Size => x % Size = x - Size)
  <2> HIDE DEF x
  <2> QED BY <1>2, Wrap
<1>4. DataEnd = x % Size
  BY DEF DataEnd
<1>5. DataEnd \in Cells
  BY <1>2, <1>3, <1>4, SizeAssumption DEF Cells
<1>6. /\ DataEnd + FreeContiguousSpace <= Size
      /\ FreeContiguousSpace \in 0 .. FreeSpace
  BY <1>2, <1>3, <1>4, SizeAssumption DEF FreeContiguousSpace, FreeSpace
<1>7. ASSUME NEW c \in DataEnd .. DataEnd + FreeContiguousSpace - 1, NEW k \in 1 .. count
      PROVE  c # (start + k - 1) % Size
  <2> DEFINE y == start + k - 1
  <2>1. y \in 0 .. 2 * Size - 1 /\ start <= y /\ y < x
    BY <1>2, SizeAssumption
  <2>2. (y < Size => y % Size = y) /\ (y >= Size => y % Size = y - Size)
    <3> HIDE DEF x, y
    <3> QED BY <2>1, Wrap
  <2>d. DataEnd \in Int /\ FreeContiguousSpace \in Int /\ c \in Int
        /\ DataEnd <= c /\ c < DataEnd + FreeContiguousSpace
    BY <1>5, <1>6 DEF Cells, FreeSpace
  <2>3. CASE x < Size
    <3>1. DataEnd = x
      BY <1>3, <1>4, <2>3
    <3> HIDE DEF x, y
    <3>2. c # y % Size
      BY <1>2, <2>1, <2>2, <2>3, <2>d, <3>1
    <3> QED BY <3>2 DEF y
  <2>4. CASE x = Size
    <3>1. FreeContiguousSpace = 0
      BY <1>2, <2>4 DEF FreeContiguousSpace
    <3> QED BY <2>d, <3>1
  <2>5. CASE x > Size
    <3>1. DataEnd = x - Size
      BY <1>2, <1>3, <1>4, <2>5
    <3>2. FreeContiguousSpace = Size - count
      BY <1>2, <2>5 DEF FreeContiguousSpace, FreeSpace
    <3>3. c >= x - Size /\ c < start
      BY <1>2, <2>d, <3>1, <3>2
    <3> HIDE DEF x, y
    <3>4. c # y % Size
      BY <1>2, <2>1, <2>2, <3>3
    <3> QED BY <3>4 DEF y
  <2> QED BY <1>2, <2>3, <2>4, <2>5
<1> QED BY <1>1, <1>5, <1>6, <1>7

-----------------------------------------------------------------------------
(* Every operation keeps the type. *)

LEMMA StoredType ==
    ASSUME NEW cells \in [Cells -> Bytes], NEW at \in Int, NEW s \in Inputs
    PROVE  Stored(cells, at, s) \in [Cells -> Bytes]
BY DEF Stored, Inputs

LEMMA InputsAreSeqs ==
    ASSUME NEW s \in Inputs
    PROVE  /\ s \in [1 .. Len(s) -> Bytes]
           /\ Len(s) \in 1 .. Size
<1>1. PICK n \in 1 .. Size : s \in [1 .. n -> Bytes]
  BY DEF Inputs
<1>2. n \in Nat
  BY SizeAssumption
<1>3. Len(s) = n
  BY <1>1, <1>2, FunctionIsSeq
<1> QED BY <1>1, <1>3

LEMMA NoBytes == <<>> \in Seq(Bytes)
OBVIOUS

LEMMA TypeStep ==
    ASSUME RingTypeOK, [RingNext]_cyclicVars
    PROVE  RingTypeOK'
<1> USE SizeAssumption
<1>0. \A x \in Cells, y \in Cells : (x + y) % Size \in Cells
  BY DEF Cells
<1>c. /\ count \in Nat /\ start \in Cells /\ 0 \in Cells
      /\ buf \in [Cells -> Bytes] /\ Shifted \in [Cells -> Bytes]
      /\ SendBuf \in [Cells -> Bytes] /\ SendStart \in Cells
  BY ShiftKeepsContent DEF RingTypeOK, Cells, SendBuf, SendStart
<1>1. ASSUME NEW b \in Bytes, Putc(b) PROVE RingTypeOK'
  <2>1. count' = count + 1 /\ count < Size
    BY <1>1 DEF Putc, RingTypeOK, SkipRight, MinOf, Full, FreeSpace
  <2>2. buf' \in [Cells -> Bytes]
    BY <1>1, <1>c DEF Putc
  <2> QED BY <1>1, <2>1, <2>2, NoBytes DEF Putc, RingTypeOK
<1>2. ASSUME Peek PROVE RingTypeOK'
  BY <1>2, <1>c DEF Peek, RingTypeOK
<1>3. ASSUME Getc PROVE RingTypeOK'
  BY <1>3, <1>c, SkipType DEF Getc, RingTypeOK
<1>4. ASSUME Gets PROVE RingTypeOK'
  <2>1. Content \in Seq(Bytes)
    BY ContentOf, FunctionIsSeq, <1>c DEF Content, ByteAt, RingTypeOK
  <2> QED BY <1>4, <1>c, <2>1, SkipType DEF Gets, RingTypeOK
<1>5. ASSUME NEW n \in 0 .. Size + 1, Skip(n) PROVE RingTypeOK'
  <2>1. n \in Nat
    OBVIOUS
  <2> QED BY <1>5, <1>c, <2>1, SkipType DEF Skip, RingTypeOK
<1>6. ASSUME Clear PROVE RingTypeOK'
  BY <1>6, <1>c DEF Clear, RingTypeOK
<1>7. ASSUME Shift PROVE RingTypeOK'
  BY <1>7, <1>c DEF Shift, RingTypeOK
<1>8. ASSUME NEW s \in Inputs, Recv(s) PROVE RingTypeOK'
  <2>1. buf' \in [Cells -> Bytes]
    BY <1>8, <1>c, StoredType DEF Recv
  <2>2. count' \in 0 .. Size
    BY <1>8, <1>c DEF Recv, SkipRight, MinOf, FreeSpace, RingTypeOK
  <2> QED BY <1>8, <1>c, <2>1, <2>2 DEF Recv, RingTypeOK
<1>9. ASSUME NEW s \in Inputs, WriteAtEnd(s) PROVE RingTypeOK'
  <2>1. buf' \in [Cells -> Bytes]
    <3>1. DataEnd \in Int
      BY Pieces DEF Cells
    <3> QED BY <1>9, <1>c, <3>1, StoredType DEF WriteAtEnd
  <2>2. count' \in 0 .. Size
    BY <1>9, <1>c, InputsAreSeqs DEF WriteAtEnd, SkipRight, MinOf, FreeSpace, RingTypeOK
  <2> QED BY <1>9, <1>c, <2>1, <2>2 DEF WriteAtEnd, RingTypeOK
<1>10. ASSUME NEW n \in 0 .. Size, Send(n) PROVE RingTypeOK'
  <2>1. taken' \in Seq(Bytes)
    <3>1. \A k \in 1 .. n : SendStart + k - 1 \in Cells
      BY <1>10, <1>c DEF Send, SendStart, ContiguousSpace, MinOf, Cells, RingTypeOK
    <3>2. taken' \in [1 .. n -> Bytes]
      BY <1>10, <1>c, <3>1 DEF Send
    <3> QED BY <3>2, FunctionIsSeq
  <2> QED BY <1>10, <1>c, <2>1, SkipType DEF Send, RingTypeOK
<1>11. ASSUME NEW n \in 0 .. Size, ReadAtData(n) PROVE RingTypeOK'
  <2>1. taken' \in Seq(Bytes)
    <3>1. \A k \in 1 .. n : k - 1 \in Cells
      BY DEF Cells
    <3>2. taken' \in [1 .. n -> Bytes]
      BY <1>11, <1>c, <3>1 DEF ReadAtData
    <3> QED BY <3>2, FunctionIsSeq
  <2> QED BY <1>11, <1>c, <2>1, SkipType DEF ReadAtData, RingTypeOK
<1>12. ASSUME SendFails PROVE RingTypeOK'
  BY <1>12, <1>c DEF SendFails, RingTypeOK
<1>13. ASSUME UNCHANGED cyclicVars PROVE RingTypeOK'
  BY <1>13 DEF cyclicVars, RingTypeOK
<1> QED
  BY <1>1, <1>2, <1>3, <1>4, <1>5, <1>6, <1>7, <1>8, <1>9, <1>10, <1>11, <1>12,
     <1>13 DEF RingNext, RecvFails

(* The ring never leaves its array, whatever the calls. *)
THEOREM RingIsConsistent == RingSpec => []RingTypeOK
<1>1. RingInit => RingTypeOK
  BY SizeAssumption, NoBytes DEF RingInit, RingTypeOK, Cells
<1> QED BY <1>1, TypeStep, PTL DEF RingSpec

(* The memory handed to callers is inside the array and, for writing, free. *)
THEOREM RingPiecesInBounds == RingSpec => []PiecesInBounds
<1>1. RingTypeOK => PiecesInBounds
  BY Pieces DEF PiecesInBounds
<1> QED BY <1>1, RingIsConsistent, PTL

-----------------------------------------------------------------------------
(* Every operation is a step of the queue. *)

LEMMA Unwrapped ==
    ASSUME NEW c \in Cells
    PROVE  c % Size = c
BY SizeAssumption DEF Cells

(* Rotating the ring, or leaving it alone, loses nothing. *)
LEMMA SameIsDrop ==
    ASSUME RingTypeOK, RingTypeOK', count' = count, taken' = <<>>,
           \A k \in 1 .. count : ByteAt(k)' = ByteAt(k)
    PROVE  Queue!Next
<1>1. 0 \in 0 .. count /\ count' = count - 0 /\ count - 0 = count
  BY SizeAssumption DEF RingTypeOK
<1>2. \A k \in 1 .. count : 0 + k = k
  OBVIOUS
<1>3. Queue!Leave(0)
  BY <1>1, <1>2, ShrinkIsLeave
<1>4. Queue!Drop(0)
  BY <1>3 DEF Queue!Drop
<1>5. 0 \in 0 .. Len(Content)
  BY <1>1, ContentsAreSeqs
<1> QED BY <1>4, <1>5 DEF Queue!Next

LEMMA LeaveIsNext ==
    ASSUME RingTypeOK, RingTypeOK', NEW n \in 0 .. count, Queue!Leave(n),
           taken' = <<>> \/ taken' = [k \in 1 .. n |-> ByteAt(k)]
    PROVE  Queue!Next
<1>1. n \in 0 .. Len(Content)
  BY ContentsAreSeqs
<1>2. CASE taken' = <<>>
  BY <1>1, <1>2 DEF Queue!Next, Queue!Drop
<1>3. CASE taken' = [k \in 1 .. n |-> ByteAt(k)]
  BY <1>1, <1>3, HandOutIsTake DEF Queue!Next
<1> QED BY <1>2, <1>3

(* What cb_send writes from is the content, in one piece. *)
LEMMA SendPiece ==
    ASSUME RingTypeOK
    PROVE  /\ SendStart \in Cells
           /\ \A k \in 1 .. count :
                 /\ SendStart + k - 1 \in Cells
                 /\ SendStart + k - 1 = SendStart + (k - 1)
                 /\ SendBuf[SendStart + k - 1] = ByteAt(k)
<1> USE SizeAssumption
<1>1. CASE ContiguousSpace # count
  <2>1. SendStart = 0 /\ SendBuf = Shifted
    BY <1>1 DEF SendStart, SendBuf
  <2>2. \A k \in 1 .. count : 0 + k - 1 = k - 1 /\ k - 1 \in Cells /\ 0 + (k - 1) = k - 1
    BY DEF RingTypeOK, Cells
  <2> QED BY <2>1, <2>2, ShiftKeepsContent DEF Cells
<1>2. CASE ContiguousSpace = count
  <2>1. SendStart = start /\ SendBuf = buf /\ start + count <= Size
    BY <1>2 DEF SendStart, SendBuf, ContiguousSpace, MinOf, RingTypeOK, Cells
  <2>2. \A k \in 1 .. count : start + k - 1 \in Cells /\ start + k - 1 = start + (k - 1)
    BY <2>1 DEF RingTypeOK, Cells
  <2>3. \A k \in 1 .. count : (start + k - 1) % Size = start + k - 1
    BY <2>2, Unwrapped
  <2> QED BY <2>1, <2>2, <2>3 DEF ByteAt, RingTypeOK
<1> QED BY <1>1, <1>2

(* What is put in is behind what was there. *)
LEMMA PutcGrows ==
    ASSUME RingTypeOK, NEW b \in Bytes, Putc(b)
    PROVE  /\ count' = count + 1 /\ count < Size /\ taken' = <<>>
           /\ \A k \in 1 .. count : ByteAt(k)' = ByteAt(k)
           /\ \A k \in {count + 1} : ByteAt(k)' = b
<1> USE SizeAssumption
<1>1. count' = count + 1 /\ count < Size /\ start' = start /\ taken' = <<>>
  BY DEF Putc, RingTypeOK, SkipRight, MinOf, Full, FreeSpace
<1>2. ASSUME NEW k \in 1 .. count PROVE ByteAt(k)' = ByteAt(k)
  <2>1. k - 1 \in Cells /\ count \in Cells /\ k - 1 # count /\ start + k - 1 = start + (k - 1)
    BY <1>1 DEF RingTypeOK, Cells
  <2>2. (start + (k - 1)) % Size # (start + count) % Size
    BY <2>1, RingDistinct DEF RingTypeOK
  <2>3. (start + (k - 1)) % Size \in Cells
    BY <2>1 DEF RingTypeOK, Cells
  <2> QED BY <1>1, <2>1, <2>2, <2>3 DEF ByteAt, Putc, RingTypeOK
<1>3. ASSUME NEW k \in {count + 1} PROVE ByteAt(k)' = b
  <2>1. start + k - 1 = start + count /\ (start + count) % Size \in Cells
    BY DEF RingTypeOK, Cells
  <2> QED BY <1>1, <2>1 DEF ByteAt, Putc, RingTypeOK
<1> QED BY <1>1, <1>2, <1>3

LEMMA RecvGrows ==
    ASSUME RingTypeOK, NEW s \in Inputs, Recv(s)
    PROVE  /\ count' = count + Len(s) /\ taken' = <<>>
           /\ \A k \in 1 .. count : ByteAt(k)' = ByteAt(k)
           /\ \A k \in count + 1 .. count + Len(s) : ByteAt(k)' = s[k - count]
<1> USE SizeAssumption
<1>1. /\ count' = count + Len(s) /\ count + Len(s) <= Size /\ start' = 0 /\ taken' = <<>>
      /\ buf' = Stored(Shifted, count, s) /\ DOMAIN s = 1 .. Len(s) /\ Len(s) \in Nat
  BY InputsAreSeqs DEF Recv, SkipRight, MinOf, FreeSpace, RingTypeOK
<1>2. ASSUME NEW k \in 1 .. count PROVE ByteAt(k)' = ByteAt(k)
  <2>1. k - 1 \in Cells /\ 0 + k - 1 = k - 1 /\ (k - 1) - count + 1 \notin 1 .. Len(s)
    BY InputsAreSeqs DEF RingTypeOK, Cells
  <2>2. (0 + k - 1) % Size = k - 1
    BY <2>1, Unwrapped
  <2>3. buf'[k - 1] = Shifted[k - 1]
    BY <1>1, <2>1 DEF Stored
  <2> QED BY <1>1, <2>2, <2>3, ShiftKeepsContent DEF ByteAt
<1>3. ASSUME NEW k \in count + 1 .. count + Len(s) PROVE ByteAt(k)' = s[k - count]
  <2>1. /\ k - 1 \in Cells /\ 0 + k - 1 = k - 1
        /\ (k - 1) - count + 1 = k - count /\ k - count \in 1 .. Len(s)
    BY <1>1 DEF RingTypeOK, Cells
  <2>2. (0 + k - 1) % Size = k - 1
    BY <2>1, Unwrapped
  <2>3. buf'[k - 1] = s[k - count]
    BY <1>1, <2>1 DEF Stored
  <2> QED BY <1>1, <2>2, <2>3 DEF ByteAt
<1> QED BY <1>1, <1>2, <1>3

LEMMA WriteAtEndGrows ==
    ASSUME RingTypeOK, NEW s \in Inputs, WriteAtEnd(s)
    PROVE  /\ count' = count + Len(s) /\ count + Len(s) <= Size /\ taken' = <<>>
           /\ \A k \in 1 .. count : ByteAt(k)' = ByteAt(k)
           /\ \A k \in count + 1 .. count + Len(s) : ByteAt(k)' = s[k - count]
<1> USE SizeAssumption
<1>1. /\ count' = count + Len(s) /\ count + Len(s) <= Size /\ start' = start /\ taken' = <<>>
      /\ buf' = Stored(buf, DataEnd, s) /\ DOMAIN s = 1 .. Len(s)
      /\ Len(s) \in Nat /\ Len(s) <= FreeContiguousSpace
  BY InputsAreSeqs, Pieces DEF WriteAtEnd, SkipRight, MinOf, FreeSpace, RingTypeOK
<1>2. ASSUME NEW k \in 1 .. count PROVE ByteAt(k)' = ByteAt(k)
  <2> DEFINE c == (start + k - 1) % Size
  <2>1. c \in Cells
    BY DEF RingTypeOK, Cells
  <2>2. c \notin DataEnd .. DataEnd + FreeContiguousSpace - 1
    BY Pieces
  <2> HIDE DEF c
  <2>3. c - DataEnd + 1 \notin 1 .. Len(s)
    BY <1>1, <2>1, <2>2, Pieces DEF Cells, FreeSpace, RingTypeOK
  <2>4. buf'[c] = buf[c]
    BY <1>1, <2>1, <2>3 DEF Stored
  <2> QED BY <1>1, <2>4 DEF ByteAt, c
<1>3. ASSUME NEW k \in count + 1 .. count + Len(s) PROVE ByteAt(k)' = s[k - count]
  <2>1. /\ DataEnd \in Cells /\ DataEnd + FreeContiguousSpace <= Size
        /\ FreeContiguousSpace \in Int
    BY Pieces DEF FreeSpace, RingTypeOK
  <2>2. PICK m \in 1 .. Len(s) : k = count + m
    <3>1. k - count \in 1 .. Len(s) /\ k = count + (k - count)
      BY <1>1 DEF RingTypeOK
    <3> QED BY <3>1
  <2>3. /\ DataEnd + (m - 1) \in Cells /\ (DataEnd + (m - 1)) - DataEnd + 1 = m
        /\ m - 1 \in 0 .. Size - 1 /\ count + (m - 1) <= Size /\ count \in 0 .. Size
        /\ start \in Cells /\ start + k - 1 = start + (count + (m - 1))
    BY <1>1, <2>1, <2>2 DEF RingTypeOK, Cells
  <2>4. (DataEnd + (m - 1)) % Size = (start + (count + (m - 1))) % Size
    BY <2>3, RingAdd DEF DataEnd
  <2>5. (start + k - 1) % Size = DataEnd + (m - 1)
    BY <2>3, <2>4, Unwrapped
  <2>6. buf'[DataEnd + (m - 1)] = s[k - count]
    <3>1. k - count = m
      BY <2>2 DEF RingTypeOK
    <3> QED BY <1>1, <2>3, <3>1 DEF Stored
  <2> QED BY <1>1, <2>5, <2>6 DEF ByteAt
<1> QED BY <1>1, <1>2, <1>3

LEMMA GrowsIsPut ==
    ASSUME RingTypeOK, RingTypeOK',
           \/ \E b \in Bytes : Putc(b)
           \/ \E s \in Inputs : Recv(s) \/ WriteAtEnd(s)
    PROVE  Queue!Put
<1>1. count \in Nat /\ \A s \in Inputs : Len(s) \in Nat
  BY InputsAreSeqs DEF RingTypeOK
<1>2. count <= count' /\ taken' = <<>> /\ \A k \in 1 .. count : ByteAt(k)' = ByteAt(k)
  BY <1>1, PutcGrows, RecvGrows, WriteAtEndGrows
<1> QED BY <1>2, GrowIsPut

LEMMA PeekIsPeek ==
    ASSUME RingTypeOK, RingTypeOK', Peek
    PROVE  Queue!Peek
<1>1. count \in 1 .. Size /\ Content' = Content /\ taken' = <<buf[start]>>
  BY DEF Peek, Empty, RingTypeOK, Content, ByteAt
<1>2. start + 1 - 1 = start /\ start % Size = start /\ 1 \in 1 .. count
  BY <1>1, Unwrapped DEF RingTypeOK, Cells
<1>3. Content[1] = buf[start]
  BY <1>1, <1>2 DEF Content, ByteAt
<1>4. Content # <<>> /\ Head(Content) = Content[1]
  BY <1>1, ContentsAreSeqs
<1> QED BY <1>1, <1>3, <1>4 DEF Queue!Peek

(* What is handed out is in front of what stays. *)
LEMMA HandsOut ==
    ASSUME RingTypeOK, NEW n \in Nat,
           \/ Getc /\ n = 1
           \/ Gets /\ n = count
           \/ Send(n) \/ ReadAtData(n)
    PROVE  /\ n <= count /\ taken' = [k \in 1 .. n |-> ByteAt(k)]
           /\ \E from \in Cells : /\ SkipFrom(from, n)
                                 /\ \A k \in 1 .. count :
                                       buf'[(from + (k - 1)) % Size] = ByteAt(k)
<1> USE SizeAssumption
<1>c. start \in Cells /\ 0 \in Cells /\ count \in Nat
  BY DEF RingTypeOK, Cells
<1>k. \A k \in 1 .. count : start + k - 1 = start + (k - 1)
  BY DEF RingTypeOK, Cells
<1>s. \A k \in 1 .. count : buf[(start + (k - 1)) % Size] = ByteAt(k)
  BY <1>k DEF ByteAt
<1>1. CASE Getc /\ n = 1
  <2>1. SkipFrom(start, 1) /\ buf' = buf /\ 1 <= count /\ taken' = <<buf[start]>>
    BY <1>1, <1>c DEF Getc, Empty
  <2>2. start + 1 - 1 = start /\ start % Size = start
    BY Unwrapped DEF RingTypeOK, Cells
  <2>3. buf[start] = ByteAt(1)
    BY <2>2 DEF ByteAt
  <2>4. taken' = [k \in 1 .. 1 |-> ByteAt(k)]
    BY <2>1, <2>3
  <2> QED BY <1>1, <1>c, <1>s, <2>1, <2>4
<1>2. CASE Gets /\ n = count
  <2>1. SkipFrom(start, count) /\ buf' = buf /\ taken' = [k \in 1 .. count |-> ByteAt(k)]
    BY <1>2 DEF Gets, Content
  <2> QED BY <1>2, <1>c, <1>s, <2>1
<1>3. CASE Send(n)
  <2>1. /\ SkipFrom(SendStart, n) /\ buf' = SendBuf /\ n <= count
        /\ taken' = [k \in 1 .. n |-> SendBuf[SendStart + k - 1]]
    BY <1>3, <1>c DEF Send
  <2>2. \A k \in 1 .. count : buf'[(SendStart + (k - 1)) % Size] = ByteAt(k)
    BY <2>1, SendPiece, Unwrapped
  <2>3. \A k \in 1 .. n : k \in 1 .. count
    BY <2>1, <1>c
  <2>4. taken' = [k \in 1 .. n |-> ByteAt(k)]
    BY <2>1, <2>3, SendPiece
  <2> QED BY <2>1, <2>2, <2>4, SendPiece
<1>4. CASE ReadAtData(n)
  <2>1. /\ SkipFrom(0, n) /\ buf' = Shifted /\ n <= count
        /\ taken' = [k \in 1 .. n |-> Shifted[k - 1]]
    BY <1>4, <1>c DEF ReadAtData
  <2>2. \A k \in 1 .. count : k - 1 \in Cells /\ 0 + (k - 1) = k - 1
    BY DEF RingTypeOK, Cells
  <2>3. \A k \in 1 .. count : buf'[(0 + (k - 1)) % Size] = ByteAt(k)
    BY <2>1, <2>2, Unwrapped, ShiftKeepsContent
  <2>4. \A k \in 1 .. n : k \in 1 .. count
    BY <2>1, <1>c
  <2>5. taken' = [k \in 1 .. n |-> ByteAt(k)]
    BY <2>1, <2>4, ShiftKeepsContent
  <2> QED BY <1>c, <2>1, <2>3, <2>5
<1> QED BY <1>1, <1>2, <1>3, <1>4

LEMMA SkipKeeps ==
    ASSUME RingTypeOK, NEW n \in Nat, Skip(n)
    PROVE  /\ taken' = <<>>
           /\ \E from \in Cells : /\ SkipFrom(from, n)
                                 /\ \A k \in 1 .. count :
                                       buf'[(from + (k - 1)) % Size] = ByteAt(k)
<1>1. SkipFrom(start, n) /\ buf' = buf /\ taken' = <<>> /\ start \in Cells
  BY DEF Skip, RingTypeOK
<1>2. \A k \in 1 .. count : start + k - 1 = start + (k - 1)
  BY SizeAssumption DEF RingTypeOK, Cells
<1> QED BY <1>1, <1>2 DEF ByteAt

(* A rotation changes nothing that counts. *)
LEMMA Rotates ==
    ASSUME RingTypeOK, Shift \/ RecvFails \/ SendFails
    PROVE  count' = count /\ taken' = <<>> /\ \A k \in 1 .. count : ByteAt(k)' = ByteAt(k)
<1>1. CASE Shift \/ RecvFails
  <2>1. buf' = Shifted /\ start' = 0 /\ count' = count /\ taken' = <<>>
    BY <1>1 DEF RecvFails, Shift
  <2>2. ASSUME NEW k \in 1 .. count PROVE ByteAt(k)' = ByteAt(k)
    <3>1. k - 1 \in Cells /\ 0 + k - 1 = k - 1
      BY SizeAssumption DEF RingTypeOK, Cells
    <3>2. (0 + k - 1) % Size = k - 1
      BY <3>1, Unwrapped
    <3> QED BY <2>1, <3>2, ShiftKeepsContent DEF ByteAt
  <2> QED BY <2>1, <2>2
<1>2. CASE SendFails
  <2>1. buf' = SendBuf /\ start' = SendStart /\ count' = count /\ taken' = <<>>
    BY <1>2 DEF SendFails
  <2>2. \A k \in 1 .. count : ByteAt(k)' = ByteAt(k)
    BY <2>1, SendPiece, Unwrapped DEF ByteAt
  <2> QED BY <2>1, <2>2
<1> QED BY <1>1, <1>2

LEMMA SkipIsNext ==
    ASSUME RingTypeOK, RingTypeOK', NEW from \in Cells, NEW n \in Nat, SkipFrom(from, n),
           \A k \in 1 .. count : buf'[(from + (k - 1)) % Size] = ByteAt(k),
           \/ taken' = <<>>
           \/ n <= count /\ taken' = [k \in 1 .. n |-> ByteAt(k)]
    PROVE  Queue!Next
<1>1. Queue!Leave(MinOf(n, count)) /\ MinOf(n, count) \in 0 .. count
  BY SkipIsLeave, SkipType
<1>2. n <= count => MinOf(n, count) = n
  BY DEF MinOf, RingTypeOK
<1> QED BY <1>1, <1>2, LeaveIsNext

LEMMA QueueStep ==
    ASSUME RingTypeOK, RingTypeOK', [RingNext]_cyclicVars
    PROVE  [Queue!Next]_Queue!fifoVars
<1>1. CASE \/ \E b \in Bytes : Putc(b)
           \/ \E s \in Inputs : Recv(s) \/ WriteAtEnd(s)
  BY <1>1, GrowsIsPut DEF Queue!Next
<1>2. CASE Peek
  BY <1>2, PeekIsPeek DEF Queue!Next
<1>3. CASE Getc \/ Gets \/ \E n \in 0 .. Size : Send(n) \/ ReadAtData(n)
  <2>1. count \in Nat
    BY DEF RingTypeOK
  <2>2. PICK n \in Nat : \/ Getc /\ n = 1
                         \/ Gets /\ n = count
                         \/ Send(n) \/ ReadAtData(n)
    BY <1>3, <2>1
  <2> QED BY <2>2, HandsOut, SkipIsNext
<1>4. ASSUME NEW n \in 0 .. Size + 1, Skip(n) PROVE Queue!Next
  <2>1. n \in Nat
    BY SizeAssumption
  <2> QED BY <1>4, <2>1, SkipKeeps, SkipIsNext
<1>5. ASSUME Clear PROVE Queue!Next
  <2>1. count \in 0 .. count /\ count' = count - count /\ taken' = <<>>
        /\ 1 .. count - count = {}
    BY <1>5 DEF Clear, RingTypeOK
  <2>2. Queue!Leave(count)
    BY <2>1, ShrinkIsLeave
  <2> QED BY <2>1, <2>2, LeaveIsNext
<1>6. CASE Shift \/ RecvFails \/ SendFails
  BY <1>6, Rotates, SameIsDrop
<1>7. ASSUME UNCHANGED cyclicVars PROVE UNCHANGED Queue!fifoVars
  BY <1>7 DEF cyclicVars, Queue!fifoVars, Content, ByteAt
<1> QED
  BY <1>1, <1>2, <1>3, <1>4, <1>5, <1>6, <1>7 DEF RingNext

(* The ring is a bounded queue: for every size and every sequence of       *)
(* operations, each byte leaves once and in order, and none is overwritten *)
(* while it waits.                                                         *)
THEOREM RingImplementsFifo == RingSpec => ImplementsFifo
<1>1. RingInit => Queue!Init
  <2> SUFFICES ASSUME RingInit PROVE Queue!Init
    OBVIOUS
  <2>1. 1 .. count = {}
    BY DEF RingInit
  <2>2. Content = <<>>
    BY <2>1 DEF Content
  <2> QED BY <2>2 DEF RingInit, Queue!Init
<1>2. RingTypeOK /\ RingTypeOK' /\ [RingNext]_cyclicVars => [Queue!Next]_Queue!fifoVars
  BY QueueStep
<1> QED BY <1>1, <1>2, RingIsConsistent, PTL DEF RingSpec, ImplementsFifo, Queue!Spec

-----------------------------------------------------------------------------
(* The linear buffer, and the two beside each other.                       *)

LinearType == lbuf \in [Cells -> Bytes] /\ lcount \in 0 .. Size

Agree ==
    /\ LinearType
    /\ lcount = count
    /\ \A k \in 1 .. count : lbuf[k - 1] = ByteAt(k)

LEMMA AgreeIsSame ==
    RingTypeOK => (Agree /\ taken = ltaken <=> SameContent)
<1> SUFFICES ASSUME RingTypeOK PROVE Agree /\ taken = ltaken <=> SameContent
  OBVIOUS
<1>1. ASSUME Agree, taken = ltaken PROVE SameContent
  <2>1. Linear!TypeOK
    BY <1>1 DEF Agree, LinearType, RingTypeOK, Linear!TypeOK, Linear!Cells, Cells
  <2>2. Content = Linear!Content
    BY <1>1 DEF Agree, Content, Linear!Content
  <2> QED BY <1>1, <2>1, <2>2 DEF SameContent
<1>2. ASSUME SameContent PROVE Agree /\ taken = ltaken
  <2>1. LinearType /\ count \in 0 .. Size
    BY <1>2 DEF SameContent, Linear!TypeOK, LinearType, Linear!Cells, Cells, RingTypeOK
  <2>2. Content = [k \in 1 .. lcount |-> lbuf[k - 1]]
    BY <1>2 DEF SameContent, Linear!Content
  <2>3. 1 .. count = 1 .. lcount
    <3>1. DOMAIN Content = 1 .. count
      BY DEF Content
    <3>2. DOMAIN Content = 1 .. lcount
      BY <2>2
    <3> QED BY <3>1, <3>2
  <2>4. count = lcount
    BY <2>1, <2>3, SizeAssumption DEF LinearType
  <2>5. \A k \in 1 .. count : Content[k] = ByteAt(k)
    BY DEF Content
  <2>6. \A k \in 1 .. count : Content[k] = lbuf[k - 1]
    BY <2>2, <2>3
  <2> QED BY <1>2, <2>1, <2>4, <2>5, <2>6 DEF Agree, SameContent
<1> QED BY <1>1, <1>2

(* Both append the same bytes. *)
LEMMA AppendsAgree ==
    ASSUME RingTypeOK, Agree, NEW n \in Nat, NEW s \in [1 .. n -> Bytes], count + n <= Size,
           count' = count + n, lcount' = lcount + n, lbuf' = Linear!Stored(lcount, s),
           \A k \in 1 .. count : ByteAt(k)' = ByteAt(k),
           \A k \in count + 1 .. count + n : ByteAt(k)' = s[k - count]
    PROVE  Agree'
<1>1. /\ count \in Nat /\ lcount = count /\ lbuf \in [Cells -> Bytes]
      /\ \A k \in 1 .. count : lbuf[k - 1] = ByteAt(k)
  BY DEF RingTypeOK, Agree, LinearType
<1>2. lbuf' = [c \in Cells |-> IF c - count + 1 \in 1 .. n THEN s[c - count + 1] ELSE lbuf[c]]
  BY <1>1 DEF Linear!Stored, Linear!Cells, Cells
<1>3. LinearType'
  <2>1. lbuf' \in [Cells -> Bytes]
    BY <1>1, <1>2
  <2> QED BY <1>1, <2>1 DEF LinearType
<1>4. ASSUME NEW k \in 1 .. count + n PROVE lbuf'[k - 1] = ByteAt(k)'
  <2>1. k - 1 \in Cells /\ (k - 1) - count + 1 = k - count
    BY <1>1, SizeAssumption DEF Cells
  <2>2. CASE k \in 1 .. count
    <3>1. (k - 1) - count + 1 \notin 1 .. n
      BY <1>1, <2>2
    <3> QED BY <1>1, <1>2, <2>1, <2>2, <3>1
  <2>3. CASE k \in count + 1 .. count + n
    <3>1. k - count \in 1 .. n
      BY <1>1, <2>3
    <3> QED BY <1>2, <2>1, <2>3, <3>1
  <2> QED BY <1>1, <2>2, <2>3
<1> QED BY <1>1, <1>3, <1>4 DEF Agree

(* Both lose the same bytes. *)
LEMMA DropsAgree ==
    ASSUME RingTypeOK, Agree, NEW n \in Nat, NEW from \in Cells, SkipFrom(from, n),
           \A k \in 1 .. count : buf'[(from + (k - 1)) % Size] = ByteAt(k),
           Linear!ShiftBy(n)
    PROVE  Agree'
<1>1. /\ count \in Nat /\ count <= Size /\ lcount = count /\ lbuf \in [Cells -> Bytes]
      /\ \A k \in 1 .. count : lbuf[k - 1] = ByteAt(k)
  BY SizeAssumption DEF RingTypeOK, Agree, LinearType
<1>2. PICK d \in 0 .. count : d = MinOf(n, count)
  BY <1>1 DEF MinOf
<1>3. /\ count' = count - d
      /\ \A k \in 1 .. count - d : ByteAt(k)' = ByteAt(d + k)
  BY <1>2, SkipType, SkipDrops
<1>4. /\ lcount' = count - d
      /\ lbuf' = [c \in Cells |-> IF c < count - d THEN lbuf[c + d] ELSE lbuf[c]]
  BY <1>1, <1>2 DEF Linear!ShiftBy, Linear!Clamped, Linear!MinOf, MinOf, Linear!MovedDown,
     Linear!Cells, Cells
<1>5. LinearType'
  <2>1. \A c \in Cells : c < count - d => c + d \in Cells
    BY <1>1, SizeAssumption DEF Cells
  <2>2. lbuf' \in [Cells -> Bytes]
    BY <1>1, <1>4, <2>1
  <2>3. lcount' \in 0 .. Size
    BY <1>1, <1>4, SizeAssumption
  <2> QED BY <2>2, <2>3 DEF LinearType
<1>6. ASSUME NEW k \in 1 .. count - d PROVE lbuf'[k - 1] = ByteAt(k)'
  <2>1. /\ k - 1 \in Cells /\ k - 1 < count - d
        /\ (k - 1) + d = (d + k) - 1 /\ d + k \in 1 .. count
    BY <1>1, SizeAssumption DEF Cells
  <2>2. lbuf'[k - 1] = lbuf[(d + k) - 1]
    BY <1>4, <2>1
  <2> QED BY <1>1, <1>3, <2>1, <2>2
<1> QED BY <1>3, <1>4, <1>5, <1>6 DEF Agree

LEMMA SamePutAgrees ==
    ASSUME RingTypeOK, SameContent, SamePut
    PROVE  RingTypeOK' /\ Agree' /\ taken' = ltaken'
<1> USE SizeAssumption
<1>1. /\ Agree /\ count \in Nat /\ count <= Size /\ lcount = count
      /\ FreeSpace = Size - count /\ Linear!FreeSpace = FreeSpace
  BY AgreeIsSame DEF RingTypeOK, Agree, FreeSpace, Linear!FreeSpace
<1>2. ASSUME NEW b \in Bytes, Putc(b), Linear!Putc(b)
      PROVE  RingTypeOK' /\ Agree' /\ taken' = ltaken'
  <2>1. RingTypeOK'
    BY <1>2, TypeStep DEF RingNext
  <2>2. /\ count' = count + 1 /\ count < Size /\ taken' = <<>>
        /\ \A k \in 1 .. count : ByteAt(k)' = ByteAt(k)
        /\ \A k \in {count + 1} : ByteAt(k)' = b
    BY <1>2, PutcGrows
  <2>3. lbuf' = [lbuf EXCEPT ![count] = b] /\ lcount' = count + 1 /\ ltaken' = <<>>
    BY <1>1, <1>2 DEF Linear!Putc
  <2>4. lbuf \in [Cells -> Bytes] /\ \A k \in 1 .. count : lbuf[k - 1] = ByteAt(k)
    BY <1>1 DEF Agree, LinearType
  <2>5. LinearType'
    <3>1. lbuf' \in [Cells -> Bytes]
      BY <2>3, <2>4
    <3>2. lcount' \in 0 .. Size
      BY <1>1, <2>2, <2>3
    <3> QED BY <3>1, <3>2 DEF LinearType
  <2>6. ASSUME NEW k \in 1 .. count + 1 PROVE lbuf'[k - 1] = ByteAt(k)'
    <3>1. k - 1 \in Cells /\ (k \in 1 .. count \/ k = count + 1)
      BY <1>1, <2>2 DEF Cells
    <3>2. CASE k \in 1 .. count
      <4>1. k - 1 # count
        BY <1>1, <3>2
      <4> QED BY <2>2, <2>3, <2>4, <3>1, <3>2, <4>1
    <3>3. CASE k = count + 1
      <4>1. k - 1 = count
        BY <1>1, <3>3
      <4> QED BY <2>2, <2>3, <2>4, <3>1, <3>3, <4>1
    <3> QED BY <3>1, <3>2, <3>3
  <2>7. Agree'
    BY <2>2, <2>3, <2>5, <2>6 DEF Agree
  <2> QED BY <2>1, <2>2, <2>3, <2>7
<1>3. ASSUME NEW s \in Inputs, Recv(s) \/ WriteAtEnd(s), Len(s) <= FreeSpace,
             lbuf' = Linear!Stored(lcount, s), lcount' = lcount + Len(s), ltaken' = <<>>
      PROVE  RingTypeOK' /\ Agree' /\ taken' = ltaken'
  <2>1. RingTypeOK'
    BY <1>3, TypeStep DEF RingNext
  <2>2. /\ count' = count + Len(s) /\ taken' = <<>>
        /\ \A k \in 1 .. count : ByteAt(k)' = ByteAt(k)
        /\ \A k \in count + 1 .. count + Len(s) : ByteAt(k)' = s[k - count]
    BY <1>3, RecvGrows, WriteAtEndGrows
  <2>3. PICK n \in Nat : n = Len(s) /\ s \in [1 .. n -> Bytes]
    BY InputsAreSeqs
  <2>4. count + n <= Size
    BY <1>1, <1>3, <2>3
  <2>5. Agree'
    BY <1>1, <1>3, <2>2, <2>3, <2>4, AppendsAgree
  <2> QED BY <1>3, <2>1, <2>2, <2>5
<1>4. ASSUME NEW s \in Inputs, Recv(s), Linear!Recv(s)
      PROVE  RingTypeOK' /\ Agree' /\ taken' = ltaken'
  <2>1. Len(s) <= FreeSpace
    BY <1>1, <1>4 DEF Recv
  <2> QED BY <1>3, <1>4, <2>1 DEF Linear!Recv
<1>5. ASSUME NEW s \in Inputs, WriteAtEnd(s), Linear!Puts(s)
      PROVE  RingTypeOK' /\ Agree' /\ taken' = ltaken'
  <2>1. Len(s) <= FreeSpace /\ Len(s) \in Nat
    BY <1>1, <1>5, WriteAtEndGrows, InputsAreSeqs
  <2>2. SubSeq(s, 1, Len(s)) = s
    <3>1. s \in Seq(Bytes)
      BY InputsAreSeqs, FunctionIsSeq, <2>1
    <3> QED BY <3>1
  <2>3. SubSeq(s, 1, Linear!MinOf(Len(s), Linear!FreeSpace)) = s
    BY <1>1, <2>1, <2>2 DEF Linear!MinOf
  <2> QED BY <1>3, <1>5, <2>1, <2>3 DEF Linear!Puts
<1>6. ASSUME NEW s \in Inputs, Len(s) > FreeSpace, Linear!Puts(s),
             Recv(SubSeq(s, 1, FreeSpace))
      PROVE  RingTypeOK' /\ Agree' /\ taken' = ltaken'
  <2>1. Len(SubSeq(s, 1, FreeSpace)) \in 1 .. FreeSpace
    BY <1>6 DEF Recv
  <2>2. s \in Seq(Bytes) /\ Len(s) \in Nat /\ FreeSpace \in 1 .. Len(s) /\ FreeSpace <= Size
    BY <1>1, <1>6, <2>1, InputsAreSeqs, FunctionIsSeq
  <2>3. PICK t : t = SubSeq(s, 1, FreeSpace)
    OBVIOUS
  <2>4. t \in [1 .. FreeSpace -> Bytes] /\ Len(t) = FreeSpace
    <3>1. t \in Seq(Bytes) /\ Len(t) = FreeSpace
      BY <2>2, <2>3
    <3> QED BY <3>1
  <2>5. t \in Inputs
    BY <2>2, <2>4 DEF Inputs
  <2>6. Linear!MinOf(Len(s), Linear!FreeSpace) = FreeSpace
    BY <1>1, <1>6, <2>2 DEF Linear!MinOf
  <2>7. lbuf' = Linear!Stored(lcount, t) /\ lcount' = lcount + Len(t) /\ ltaken' = <<>>
    BY <1>6, <2>3, <2>6 DEF Linear!Puts
  <2>8. Recv(t) /\ Len(t) <= FreeSpace
    BY <1>1, <1>6, <2>3, <2>4
  <2> QED BY <1>3, <2>5, <2>7, <2>8
<1> QED BY <1>2, <1>4, <1>5, <1>6 DEF SamePut

LEMMA SameTakeAgrees ==
    ASSUME RingTypeOK, SameContent, SameTake
    PROVE  RingTypeOK' /\ Agree' /\ taken' = ltaken'
<1> USE SizeAssumption
<1>1. /\ Agree /\ count \in Nat /\ count <= Size /\ lcount = count
      /\ Content = Linear!Content
  BY AgreeIsSame DEF RingTypeOK, Agree, SameContent
<1>2. ASSUME NEW n \in Nat, n <= count,
             \/ Getc /\ n = 1
             \/ Gets /\ n = count
             \/ Send(n) \/ ReadAtData(n),
             Linear!ShiftBy(n), ltaken' = SubSeq(Linear!Content, 1, n)
      PROVE  RingTypeOK' /\ Agree' /\ taken' = ltaken'
  <2>1. n \in 0 .. Size /\ n \in 0 .. count
    BY <1>1, <1>2
  <2>2. RingTypeOK'
    BY <1>2, <2>1, TypeStep DEF RingNext
  <2>3. taken' = [k \in 1 .. n |-> ByteAt(k)]
    BY <1>2, HandsOut
  <2>4. taken' = SubSeq(Content, 1, n)
    BY <2>1, <2>2, <2>3, FrontOfContent
  <2>5. Agree'
    BY <1>1, <1>2, HandsOut, DropsAgree
  <2> QED BY <1>1, <1>2, <2>2, <2>4, <2>5
<1>3. ASSUME Getc, Linear!Getc PROVE RingTypeOK' /\ Agree' /\ taken' = ltaken'
  <2>1. count >= 1
    BY <1>1, <1>3 DEF Getc, Empty
  <2>2. Linear!ShiftBy(1) /\ ltaken' = <<lbuf[0]>>
    BY <1>3 DEF Linear!Getc
  <2>3. taken' = [k \in 1 .. 1 |-> ByteAt(k)]
    BY <1>3, HandsOut
  <2>4. RingTypeOK'
    BY <1>3, TypeStep DEF RingNext
  <2>5. lbuf[1 - 1] = ByteAt(1)
    BY <1>1, <2>1 DEF Agree
  <2>6. taken' = ltaken'
    BY <2>2, <2>3, <2>5
  <2>7. Agree'
    BY <1>1, <1>3, <2>2, HandsOut, DropsAgree
  <2> QED BY <2>4, <2>6, <2>7
<1>4. ASSUME Gets, Linear!Send(count) PROVE RingTypeOK' /\ Agree' /\ taken' = ltaken'
  BY <1>1, <1>2, <1>4 DEF Linear!Send
<1>5. ASSUME NEW n \in 0 .. Size, Send(n) \/ ReadAtData(n), Linear!Send(n)
      PROVE  RingTypeOK' /\ Agree' /\ taken' = ltaken'
  <2>1. n \in Nat /\ n <= count
    BY <1>1, <1>5 DEF Send, ReadAtData
  <2> QED BY <1>2, <1>5, <2>1 DEF Linear!Send
<1>6. ASSUME NEW n \in 0 .. Size + 1, Skip(n), Linear!Shift(n)
      PROVE  RingTypeOK' /\ Agree' /\ taken' = ltaken'
  <2>1. n \in Nat
    OBVIOUS
  <2>2. RingTypeOK'
    BY <1>6, TypeStep DEF RingNext
  <2> QED BY <1>1, <1>6, <2>1, <2>2, SkipKeeps, DropsAgree DEF Linear!Shift
<1>7. ASSUME Clear, Linear!Clear PROVE RingTypeOK' /\ Agree' /\ taken' = ltaken'
  <2>1. RingTypeOK'
    BY <1>7, TypeStep DEF RingNext
  <2>2. /\ count' = 0 /\ lcount' = 0 /\ lbuf' = lbuf /\ taken' = <<>> /\ ltaken' = <<>>
    BY <1>7 DEF Clear, Linear!Clear
  <2>3. 1 .. count' = {}
    BY <2>2
  <2> QED BY <1>1, <2>1, <2>2, <2>3 DEF Agree, LinearType
<1> QED BY <1>3, <1>4, <1>5, <1>6, <1>7 DEF SameTake

LEMMA RingOnlyAgrees ==
    ASSUME RingTypeOK, SameContent, RingOnly
    PROVE  RingTypeOK' /\ Agree' /\ taken' = ltaken'
<1> USE SizeAssumption
<1>1. Agree /\ lcount = count /\ count \in Nat
  BY AgreeIsSame DEF RingTypeOK, Agree
<1>2. CASE Peek /\ UNCHANGED <<lbuf, lcount>> /\ ltaken' = taken'
  <2>1. RingTypeOK'
    BY <1>2, TypeStep DEF RingNext
  <2>2. UNCHANGED <<buf, start, count>>
    BY <1>2 DEF Peek
  <2> QED BY <1>1, <1>2, <2>1, <2>2 DEF Agree, LinearType, ByteAt
<1>3. CASE (Shift \/ RecvFails \/ SendFails) /\ Linear!Shift(0)
  <2>1. RingTypeOK'
    BY <1>3, TypeStep DEF RingNext
  <2>2. count' = count /\ taken' = <<>> /\ \A k \in 1 .. count : ByteAt(k)' = ByteAt(k)
    BY <1>3, Rotates
  <2>3. lcount' = lcount /\ ltaken' = <<>>
    BY <1>1, <1>3 DEF Linear!Shift, Linear!ShiftBy, Linear!Clamped, Linear!MinOf
  <2>4. lbuf' = lbuf
    <3>1. Linear!Clamped(0) = 0
      BY <1>1 DEF Linear!Clamped, Linear!MinOf
    <3>2. lbuf' = [c \in Cells |-> IF c < lcount - 0 THEN lbuf[c + 0] ELSE lbuf[c]]
      BY <1>3, <3>1 DEF Linear!Shift, Linear!ShiftBy, Linear!MovedDown, Linear!Cells, Cells
    <3>3. \A c \in Cells : c + 0 = c
      BY DEF Cells
    <3>4. lbuf' = [c \in Cells |-> lbuf[c]]
      BY <3>2, <3>3
    <3> QED BY <1>1, <3>4 DEF Agree, LinearType
  <2> QED BY <1>1, <2>1, <2>2, <2>3, <2>4 DEF Agree, LinearType
<1> QED BY <1>2, <1>3 DEF RingOnly

(* For every size: given the same calls, the ring and the linear buffer    *)
(* hold the same bytes in the same order and hand out the same ones, so    *)
(* that nothing lab34's sender relied on was lost when it got the ring.    *)
THEOREM BuffersHoldTheSame == BothSpec => []SameContent
<1>1. BothInit => RingTypeOK /\ SameContent
  <2> SUFFICES ASSUME BothInit PROVE RingTypeOK /\ SameContent
    OBVIOUS
  <2>1. RingTypeOK
    BY SizeAssumption, NoBytes DEF BothInit, RingInit, RingTypeOK, Cells
  <2>2. 1 .. count = {} /\ lcount = count /\ taken = ltaken /\ LinearType
    BY SizeAssumption DEF BothInit, RingInit, Linear!Init, LinearType, Linear!Cells, Cells
  <2>3. Agree
    BY <2>2 DEF Agree
  <2> QED BY <2>1, <2>2, <2>3, AgreeIsSame
<1>2. RingTypeOK /\ SameContent /\ [BothNext]_<<cyclicVars, lvars>> => RingTypeOK' /\ SameContent'
  <2> SUFFICES ASSUME RingTypeOK, SameContent, [BothNext]_<<cyclicVars, lvars>>
               PROVE  RingTypeOK' /\ SameContent'
    OBVIOUS
  <2>1. CASE BothNext
    <3>1. RingTypeOK' /\ Agree' /\ taken' = ltaken'
      BY <2>1, SamePutAgrees, SameTakeAgrees, RingOnlyAgrees DEF BothNext
    <3>2. (RingTypeOK => (Agree /\ taken = ltaken <=> SameContent))'
      BY AgreeIsSame, PTL
    <3> QED BY <3>1, <3>2
  <2>2. CASE UNCHANGED <<cyclicVars, lvars>>
    BY <2>2 DEF cyclicVars, lvars, RingTypeOK, SameContent, Linear!TypeOK, Linear!Content,
       Linear!Cells, Cells, Content, ByteAt
  <2> QED BY <2>1, <2>2
<1> QED BY <1>1, <1>2, PTL DEF BothSpec

-----------------------------------------------------------------------------
(***************************************************************************)
(* The four programs of lab5, lab6 and lab7, for files, reads, pieces and  *)
(* pages of every size.                                                    *)
(***************************************************************************)
(* What a program can print: bytes of a file, and memory nobody filled.    *)
Chars == FileBytes \cup {"unread"}

Typed ==
    /\ program \in {"lab5", "lab6", "lab7", "lab7-1"}
    /\ file \in Seq(FileBytes)
    /\ pc \in {"scan", "chunk", "prompt", "dump", "failed", "exit"}
    /\ offset \in Nat /\ lineSize \in Nat /\ chunkEnd \in Nat /\ oldC \in Nat
    /\ tableCount \in Nat /\ capacity \in Nat \ {0, 1}
    /\ window \in [idx : Nat, len : Nat]
    /\ shown \in Seq(Chars)

(* The line starts that lie in front of an offset: their number is that of *)
(* the line which starts there.                                            *)
Before(o) == {p \in Starts : p < o}

(* Line k of the file goes from s up to e. *)
LineAt(k, s, e) ==
    /\ s \in Starts /\ Cardinality(Before(s)) = k
    /\ e \in Nat /\ s < e /\ e <= FileSize
    /\ \A o \in s + 1 .. e - 1 : file[o] # "newline"
    /\ e = FileSize \/ file[e] = "newline"

(* The scan is at oldC, in the middle of the line that starts at offset,   *)
(* and all lines in front of that one are in the table.                    *)
ScanHolds ==
    /\ offset + lineSize = oldC /\ oldC <= chunkEnd /\ chunkEnd <= FileSize
    /\ pc = "scan" => oldC = chunkEnd
    /\ offset = 0 \/ file[offset] = "newline"
    /\ \A o \in offset + 1 .. oldC : file[o] # "newline"
    /\ pc \in {"scan", "chunk"} =>
         /\ tableCount = Cardinality(Before(offset))
         /\ tableCount > 0 => EndOf(tableCount - 1) = offset

ShortBy(e) == IF program = "lab5" /\ file[e] = "newline" THEN 1 ELSE 0

TableHolds ==
    /\ \A k \in 0 .. tableCount - 1 :
        /\ LineAt(k, StartOf(k), EndOf(k))
        /\ offsets[k] = StartOf(k)
        /\ program = "lab5" => lengths[k] = EndOf(k) - StartOf(k) - ShortBy(EndOf(k))
        /\ program # "lab5" => offsets[k + 1] = EndOf(k)
    /\ pc \in {"prompt", "dump"} => tableCount = Cardinality(Starts)

WindowHolds ==
    /\ window.idx % PageSize = 0
    /\ window.idx + window.len <= FileSize
    /\ pc \in {"scan", "chunk"} => window = NoWindow
    /\ program = "lab7" =>
         \/ window.len < CacheSize + PageSize
         \/ \E k \in 0 .. tableCount - 1 : LineLen(k) > CacheSize /\ Inside(k)
    /\ program = "lab7-1" /\ pc \in {"prompt", "dump"} => window = [idx |-> 0, len |-> FileSize]

(* The terminating zero lab6 writes behind the last line. *)
ZeroIf(last) ==
    IF program = "lab6" /\ last /\ file[FileSize] # "newline" THEN <<"zero">> ELSE <<>>

Zero(k) == ZeroIf(k = Cardinality(Starts) - 1)

(* What the first m lines are printed as, one after the other. *)
Dumped(m) ==
    IF m = 0 THEN <<>>
    ELSE IF m < tableCount THEN SubSeq(file, 1, EndOf(m - 1))
    ELSE Terminated(file) \o ZeroIf(TRUE)

ShownHolds ==
    /\ line \subseteq 0 .. tableCount - 1
    /\ shown = <<>> <=> line = {}
    /\ pc \in {"scan", "chunk"} => line = {}
    /\ pc = "dump" =>
         /\ program # "lab5"
         /\ \E m \in 0 .. tableCount :
              line = 0 .. m - 1 /\ (shown # Unread => shown = Dumped(m))
    /\ shown # Unread => \A k \in line : line = {k} => shown = LineOf(k) \o Zero(k)
    /\ pc = "prompt" => \A k \in line : line = {k}

LineInv ==
    Typed /\ ScanHolds /\ EntriesInBounds /\ TableHolds /\ WindowHolds /\ ShownHolds

-----------------------------------------------------------------------------
(* The lines of a file. *)

LEMMA StartsFacts ==
  ASSUME Typed
  PROVE  /\ FileSize \in Nat /\ Starts \subseteq 0 .. FileSize /\ FileSize \notin Starts
         /\ IsFiniteSet(Starts) /\ Cardinality(Starts) \in Nat
         /\ \A o : IsFiniteSet(Before(o)) /\ Cardinality(Before(o)) \in Nat
         /\ Before(FileSize) = Starts /\ Before(0) = {}
<1>1. FileSize \in Nat
  BY LenProperties DEF Typed, FileSize
<1>2. Starts \subseteq 0 .. FileSize /\ FileSize \notin Starts
  BY <1>1 DEF Starts
<1>3. IsFiniteSet(0 .. FileSize)
  BY <1>1, FS_Interval
<1>4. IsFiniteSet(Starts)
  BY <1>2, <1>3, FS_Subset
<1>5. \A o : IsFiniteSet(Before(o)) /\ Cardinality(Before(o)) \in Nat
  BY <1>4, FS_Subset, FS_CardinalityType DEF Before
<1>6. Before(FileSize) = Starts /\ Before(0) = {}
  <2>1. \A p \in Starts : p \in Int /\ 0 <= p /\ p < FileSize
    BY <1>1, <1>2
  <2>2. \A p \in Starts : ~(p < 0)
    BY <2>1
  <2> QED
    BY <2>1, <2>2 DEF Before
<1> QED
  BY <1>1, <1>2, <1>4, <1>5, <1>6, FS_CardinalityType

(* No two lines have as many lines in front of them. *)
LEMMA SmallerRank ==
  ASSUME Typed, NEW s \in Starts, NEW t \in Nat, s < t
  PROVE  Cardinality(Before(s)) < Cardinality(Before(t))
<1>1. s \in Nat /\ IsFiniteSet(Before(t))
  BY StartsFacts
<1>2. ASSUME NEW p \in Starts, p < s PROVE p < t
  BY <1>1, <1>2, StartsFacts
<1>3. Before(s) \subseteq Before(t) /\ s \in Before(t) /\ s \notin Before(s)
  <2>1. ~(s < s)
    BY <1>1
  <2> QED
    BY <1>2, <2>1 DEF Before
<1>4. /\ Cardinality(Before(s)) <= Cardinality(Before(t))
      /\ Cardinality(Before(s)) # Cardinality(Before(t))
  BY <1>1, <1>3, FS_Subset
<1> QED
  BY <1>4, StartsFacts

LEMMA StartIs ==
  ASSUME Typed, NEW s \in Starts
  PROVE  StartOf(Cardinality(Before(s))) = s
<1> DEFINE t == StartOf(Cardinality(Before(s)))
<1>1. t \in Starts /\ Cardinality(Before(t)) = Cardinality(Before(s))
  BY DEF StartOf, Before
<1>2. s \in Nat /\ t \in Nat
  BY <1>1, StartsFacts
<1>3. ~(s < t) /\ ~(t < s)
  <2>1. s < t => Cardinality(Before(s)) < Cardinality(Before(t))
    BY <1>2, SmallerRank
  <2>2. t < s => Cardinality(Before(t)) < Cardinality(Before(s))
    BY <1>1, <1>2, SmallerRank
  <2>3. Cardinality(Before(s)) \in Nat
    BY StartsFacts
  <2> QED
    BY <1>1, <2>1, <2>2, <2>3
<1> QED
  BY <1>2, <1>3

(* Behind a line there is one line more than in front of it. *)
LEMMA BehindLine ==
  ASSUME Typed, NEW k, NEW s, NEW e, LineAt(k, s, e)
  PROVE  /\ k \in Nat /\ s \in Nat /\ e \in Nat /\ Cardinality(Before(e)) = k + 1
         /\ e # FileSize => e \in Starts
<1>1. s \in Starts /\ s \in Nat /\ e \in Nat /\ FileSize \in Nat /\ k \in Nat /\ s < e /\ e <= FileSize
  BY StartsFacts DEF LineAt
<1>2. ASSUME NEW p \in Starts, p < e, ~(p < s) PROVE p = s
  <2>1. p \in Nat
    BY StartsFacts
  <2>2. p # 0 => file[p] = "newline"
    BY DEF Starts
  <2>3. \A o \in s + 1 .. e - 1 : file[o] # "newline"
    BY DEF LineAt
  <2> QED
    BY <1>1, <1>2, <2>1, <2>2, <2>3
<1>3. ASSUME NEW p \in Starts, p < s PROVE p < e
  BY <1>1, <1>3, StartsFacts
<1>4. Before(e) = Before(s) \cup {s}
  BY <1>1, <1>2, <1>3 DEF Before
<1>5. s \notin Before(s) /\ IsFiniteSet(Before(s)) /\ Cardinality(Before(s)) = k
  BY <1>1, StartsFacts DEF Before, LineAt
<1>6. Cardinality(Before(e)) = k + 1
  BY <1>4, <1>5, FS_AddElement
<1>7. e # FileSize => e \in Starts
  BY <1>1 DEF Starts, LineAt
<1> QED
  BY <1>1, <1>6, <1>7

(* A line is where the reference says that it is. *)
LEMMA LineIs ==
  ASSUME Typed, NEW k, NEW s, NEW e, LineAt(k, s, e)
  PROVE  StartOf(k) = s /\ EndOf(k) = e /\ k < Cardinality(Starts)
<1>1. StartOf(k) = s
  BY StartIs DEF LineAt
<1>2. /\ k \in Nat /\ e \in Nat /\ FileSize \in Nat /\ e <= FileSize /\ Cardinality(Starts) \in Nat
      /\ Cardinality(Before(e)) = k + 1
  BY BehindLine, StartsFacts DEF LineAt
<1>3. CASE e = FileSize
  <2>1. Cardinality(Starts) = k + 1
    BY <1>2, <1>3, StartsFacts
  <2> QED
    BY <1>1, <1>2, <1>3, <2>1 DEF EndOf
<1>4. CASE e # FileSize
  <2>1. e \in Starts
    BY <1>4, BehindLine
  <2>2. StartOf(k + 1) = e
    BY <1>2, <2>1, StartIs
  <2>3. k + 1 < Cardinality(Starts)
    <3>1. Cardinality(Before(e)) < Cardinality(Before(FileSize))
      BY <1>2, <1>4, <2>1, SmallerRank
    <3> QED
      BY <1>2, <3>1, StartsFacts
  <2> QED
    BY <1>1, <1>2, <2>2, <2>3 DEF EndOf
<1> QED
  BY <1>3, <1>4

-----------------------------------------------------------------------------
(* The scan. *)

LEMMA InitLineInv == Init => LineInv
<1> SUFFICES ASSUME Init PROVE LineInv
  OBVIOUS
<1>1. Typed
  <2>1. PICK n \in 0 .. MaxFile : file \in [1 .. n -> FileBytes]
    BY DEF Init
  <2>2. n \in Nat
    BY <2>1, LineTableAssumption
  <2>3. file \in Seq(FileBytes)
    BY <2>1, <2>2
  <2> QED
    BY <2>3, LineTableAssumption DEF Init, Typed, NoWindow
<1>2. FileSize \in Nat /\ Before(0) = {} /\ Cardinality(Before(0)) = 0
  BY <1>1, StartsFacts, FS_EmptySet
<1>3. ScanHolds
  BY <1>2 DEF Init, ScanHolds
<1>4. EntriesInBounds /\ TableHolds
  BY LineTableAssumption DEF Init, EntriesInBounds, TableHolds
<1>5. 0 % PageSize = 0
  BY LineTableAssumption
<1>6. WindowHolds
  <2>1. window.idx = 0 /\ window.len = 0 /\ 0 + 0 <= FileSize /\ 0 < CacheSize + PageSize
    BY <1>2, LineTableAssumption DEF Init, NoWindow
  <2> QED
    BY <1>5, <2>1 DEF Init, WindowHolds
<1>7. ShownHolds
  BY DEF Init, ShownHolds
<1> QED
  BY <1>1, <1>3, <1>4, <1>6, <1>7 DEF LineInv

(* The file does not change, and so its lines do not. *)
LEMMA SameFile ==
  ASSUME UNCHANGED <<program, file>>
  PROVE  /\ FileSize' = FileSize /\ Starts' = Starts
         /\ \A o : Before(o)' = Before(o)
         /\ \A k : StartOf(k)' = StartOf(k) /\ EndOf(k)' = EndOf(k) /\ Text(k)' = Text(k)
         /\ \A k, s, e : LineAt(k, s, e)' <=> LineAt(k, s, e)
         /\ \A e : ShortBy(e)' = ShortBy(e)
         /\ \A last : ZeroIf(last)' = ZeroIf(last)
         /\ \A k : Zero(k)' = Zero(k) /\ LineOf(k)' = LineOf(k)
BY DEF FileSize, Starts, Before, StartOf, EndOf, Text, LineAt, ShortBy, ZeroIf, Zero,
   LineOf, Terminated, CString

LEMMA SameTable ==
  ASSUME LineInv, UNCHANGED <<program, file, tableVars>>,
         pc' \in {"prompt", "dump"} => tableCount = Cardinality(Starts)
  PROVE  /\ EntriesInBounds' /\ TableHolds'
         /\ \A k : LineLen(k)' = LineLen(k)
<1>1. EntriesInBounds'
  BY DEF LineInv, EntriesInBounds, tableVars
<1>2. TableHolds'
  BY SameFile DEF LineInv, TableHolds, tableVars
<1>3. \A k : LineLen(k)' = LineLen(k)
  BY DEF LineLen, tableVars
<1> QED
  BY <1>1, <1>2, <1>3

(* Before the scan has ended there is no window, and nothing is printed. *)
LEMMA NothingShownYet ==
  ASSUME LineInv, pc \in {"scan", "chunk"}, UNCHANGED <<program, file, shown, line>>,
         window' = NoWindow, pc' \notin {"prompt", "dump"}, tableCount' \in Nat, FileSize \in Nat
  PROVE  ShownHolds' /\ WindowHolds'
<1>1. line' = {} /\ shown' = <<>>
  BY DEF LineInv, ShownHolds
<1>2. ShownHolds'
  BY <1>1 DEF ShownHolds
<1>3. /\ window.idx' = 0 /\ window.len' = 0 /\ 0 % PageSize = 0
      /\ 0 + 0 <= FileSize /\ 0 < CacheSize + PageSize
  BY LineTableAssumption DEF NoWindow
<1>4. WindowHolds'
  BY <1>3, SameFile DEF WindowHolds
<1> QED
  BY <1>2, <1>4

LEMMA NextChunkInv ==
  ASSUME LineInv, NextChunk
  PROVE  LineInv'
<1>1. /\ pc = "scan" /\ pc' = "chunk"
      /\ UNCHANGED <<program, file, offset, lineSize, oldC, tableVars, window, shown, line>>
  BY DEF NextChunk
<1>2. FileSize \in Nat /\ chunkEnd \in Nat /\ chunkEnd <= FileSize /\ Rest = FileSize - chunkEnd /\ Rest > 0
  BY <1>1, StartsFacts DEF LineInv, Typed, ScanHolds, NextChunk, Rest
<1>3. PICK n \in ChunkSizes : chunkEnd' = chunkEnd + n
  BY DEF NextChunk
<1>4. n \in 1 .. Rest
  <2>1. ChunkSizes \subseteq 1 .. Rest
    <3>1. program \in {"lab5", "lab6", "lab7", "lab7-1"}
      BY DEF LineInv, Typed
    <3>2. ReadSizes \subseteq 1 .. Rest /\ MappedSizes \subseteq 1 .. Rest /\ WholeFile \subseteq 1 .. Rest
      BY <1>2, LineTableAssumption DEF ReadSizes, MappedSizes, WholeFile, Lesser
    <3> QED
      BY <3>1, <3>2 DEF ChunkSizes
  <2> QED
    BY <2>1
<1>5. chunkEnd' \in Nat /\ chunkEnd <= chunkEnd' /\ chunkEnd' <= FileSize
  BY <1>2, <1>3, <1>4
<1>6. Typed'
  BY <1>1, <1>5 DEF LineInv, Typed, tableVars
<1>7. ScanHolds'
  BY <1>1, <1>5, SameFile DEF LineInv, Typed, ScanHolds, tableVars
<1>8. EntriesInBounds' /\ TableHolds'
  BY <1>1, SameTable
<1>9. ShownHolds' /\ WindowHolds'
  <2>1. window' = NoWindow /\ tableCount' \in Nat
    BY <1>1 DEF LineInv, Typed, WindowHolds, tableVars
  <2> QED
    BY <1>1, <1>2, <2>1, NothingShownYet
<1> QED
  BY <1>6, <1>7, <1>8, <1>9 DEF LineInv

LEMMA ChunkEndsInv ==
  ASSUME LineInv, ChunkEnds
  PROVE  LineInv'
<1>1. /\ pc = "chunk" /\ pc' = "scan" /\ Newlines = {}
      /\ lineSize' = lineSize + (chunkEnd - oldC) /\ oldC' = chunkEnd
      /\ UNCHANGED <<program, file, offset, chunkEnd, tableVars, window, shown, line>>
  BY DEF ChunkEnds
<1>2. /\ FileSize \in Nat /\ offset \in Nat /\ lineSize \in Nat /\ chunkEnd \in Nat /\ oldC \in Nat
      /\ offset + lineSize = oldC /\ oldC <= chunkEnd /\ chunkEnd <= FileSize
  BY StartsFacts DEF LineInv, Typed, ScanHolds
<1>3. \A o \in offset + 1 .. chunkEnd : file[o] # "newline"
  <2> SUFFICES ASSUME NEW o \in offset + 1 .. chunkEnd PROVE file[o] # "newline"
    OBVIOUS
  <2>1. CASE o <= oldC
    BY <1>2, <2>1 DEF LineInv, ScanHolds
  <2>2. CASE o > oldC
    <3>1. o - 1 \in oldC .. chunkEnd - 1 /\ (o - 1) + 1 = o
      BY <1>2, <2>2
    <3> QED
      BY <1>1, <3>1 DEF Newlines
  <2> QED
    BY <1>2, <2>1, <2>2
<1>4. Typed'
  BY <1>1, <1>2 DEF LineInv, Typed, tableVars
<1>5. ScanHolds'
  BY <1>1, <1>2, <1>3, SameFile DEF LineInv, ScanHolds, tableVars
<1>6. EntriesInBounds' /\ TableHolds'
  BY <1>1, SameTable
<1>7. ShownHolds' /\ WindowHolds'
  <2>1. window' = NoWindow /\ tableCount' \in Nat
    BY <1>1 DEF LineInv, Typed, WindowHolds, tableVars
  <2> QED
    BY <1>1, <1>2, <2>1, NothingShownYet
<1> QED
  BY <1>4, <1>5, <1>6, <1>7 DEF LineInv

(* lt_reserve makes room for what lt_add writes, once per record.          *)
LEMMA ReserveSuffices ==
  ASSUME Typed, EntriesInBounds, NEW length, NEW from, LtAdd(length, from), program' = program
  PROVE  EntriesInBounds' /\ capacity' \in Nat \ {0, 1} /\ tableCount' = tableCount + 1
<1>1. tableCount \in Nat /\ capacity \in Nat /\ 2 <= capacity
  BY DEF Typed
<1>2. /\ (capacity * 3) \div 2 \in Nat /\ capacity + 1 <= (capacity * 3) \div 2
  BY <1>1
<1>3. tableCount' = tableCount + 1
  BY DEF LtAdd
<1>4. CASE program = "lab5"
  <2>1. capacity' = ReservedFor(1) /\ tableCount <= capacity
    BY <1>4 DEF LtAdd, LtAddLength, ReservedLengths, EntriesInBounds
  <2>2. CASE tableCount + 1 <= capacity
    BY <1>1, <1>3, <1>4, <2>1, <2>2 DEF ReservedFor, EntriesInBounds
  <2>3. CASE ~(tableCount + 1 <= capacity)
    <3>1. capacity' = (capacity * 3) \div 2
      BY <2>1, <2>3 DEF ReservedFor
    <3> QED
      BY <1>1, <1>2, <1>3, <1>4, <2>1, <3>1 DEF EntriesInBounds
  <2> QED
    BY <2>2, <2>3
<1>5. CASE program # "lab5"
  <2>1. capacity' = ReservedFor(2) /\ tableCount + 1 <= capacity
    BY <1>1, <1>5 DEF LtAdd, LtAddEnd, ReservedEnds, EntriesInBounds
  <2>2. CASE tableCount + 2 <= capacity
    BY <1>1, <1>3, <1>5, <2>1, <2>2 DEF ReservedFor, EntriesInBounds
  <2>3. CASE ~(tableCount + 2 <= capacity)
    <3>1. capacity' = (capacity * 3) \div 2
      BY <2>1, <2>3 DEF ReservedFor
    <3> QED
      BY <1>1, <1>2, <1>3, <1>5, <2>1, <3>1 DEF EntriesInBounds
  <2> QED
    BY <2>2, <2>3
<1> QED
  BY <1>4, <1>5

(* The line that starts at offset is added when its end is found.          *)
LEMMA LtAddHolds ==
  ASSUME LineInv, NEW e, LineAt(tableCount, offset, e), pc \in {"scan", "chunk"},
         LtAdd(e - offset - ShortBy(e), offset), UNCHANGED <<program, file>>,
         pc' \in {"prompt", "dump"} => e = FileSize
  PROVE  TableHolds' /\ EndOf(tableCount) = e /\ Cardinality(Before(e)) = tableCount + 1
<1>1. /\ tableCount \in Nat /\ offset \in Nat /\ e \in Nat /\ tableCount' = tableCount + 1
      /\ Cardinality(Before(e)) = tableCount + 1
  BY BehindLine DEF LineInv, Typed, LtAdd
<1>2. StartOf(tableCount) = offset /\ EndOf(tableCount) = e
  BY LineIs DEF LineInv
<1>3. \A k \in 0 .. tableCount - 1 : LineAt(k, StartOf(k), EndOf(k))
  BY DEF LineInv, TableHolds
<1>4. \A k \in 0 .. tableCount : LineAt(k, StartOf(k), EndOf(k))
  BY <1>1, <1>2, <1>3
<1>5. \A k \in 0 .. tableCount : offsets'[k] = StartOf(k)
  <2>1. \A k \in 0 .. tableCount - 1 : offsets[k] = StartOf(k)
    BY DEF LineInv, TableHolds
  <2>2. \A k \in 0 .. tableCount : offsets'[k] = IF k = tableCount THEN offset ELSE offsets[k]
    BY <1>1 DEF LtAdd, LtAddLength, LtAddEnd
  <2> QED
    BY <1>1, <1>2, <2>1, <2>2
<1>6. ASSUME program = "lab5", NEW k \in 0 .. tableCount
      PROVE  lengths'[k] = EndOf(k) - StartOf(k) - ShortBy(EndOf(k))
  <2>1. lengths'[k] = IF k = tableCount THEN e - offset - ShortBy(e) ELSE lengths[k]
    BY <1>1, <1>6 DEF LtAdd, LtAddLength
  <2>2. k # tableCount => lengths[k] = EndOf(k) - StartOf(k) - ShortBy(EndOf(k))
    BY <1>1, <1>6 DEF LineInv, TableHolds
  <2> QED
    BY <1>2, <2>1, <2>2
<1>7. ASSUME program # "lab5", NEW k \in 0 .. tableCount
      PROVE  offsets'[k + 1] = EndOf(k)
  <2>1. offsets'[k + 1] = IF k = tableCount THEN offset + (e - offset - ShortBy(e))
                          ELSE IF k = tableCount - 1 THEN offset ELSE offsets[k + 1]
    BY <1>1, <1>7 DEF LtAdd, LtAddEnd
  <2>2. ShortBy(e) = 0 /\ offset + (e - offset - 0) = e
    BY <1>1, <1>7 DEF ShortBy
  <2>3. k = tableCount - 1 => EndOf(k) = offset
    BY <1>1 DEF LineInv, ScanHolds
  <2>4. k < tableCount - 1 => offsets[k + 1] = EndOf(k)
    BY <1>1, <1>7 DEF LineInv, TableHolds
  <2> QED
    BY <1>1, <1>2, <2>1, <2>2, <2>3, <2>4
<1>8. pc' \in {"prompt", "dump"} => tableCount' = Cardinality(Starts)
  BY <1>1, StartsFacts DEF LineInv
<1>9. 0 .. tableCount' - 1 = 0 .. tableCount /\ tableCount' - 1 = tableCount
  BY <1>1
<1>10. TableHolds'
  BY <1>4, <1>5, <1>6, <1>7, <1>8, <1>9, SameFile DEF TableHolds
<1> QED
  BY <1>1, <1>2, <1>10

LEMMA NewlineFoundInv ==
  ASSUME LineInv, NewlineFound
  PROVE  LineInv'
<1>1. /\ pc = "chunk" /\ pc' = "chunk" /\ lineSize' = 0
      /\ UNCHANGED <<program, file, pc, chunkEnd, window, shown, line>>
  BY DEF NewlineFound
<1>2. /\ FileSize \in Nat /\ offset \in Nat /\ lineSize \in Nat /\ chunkEnd \in Nat /\ oldC \in Nat
      /\ offset + lineSize = oldC /\ oldC <= chunkEnd /\ chunkEnd <= FileSize /\ tableCount \in Nat
  BY StartsFacts DEF LineInv, Typed, ScanHolds
<1>3. PICK o \in Newlines :
         /\ \A other \in Newlines : o <= other
         /\ LtAdd(IF program = "lab5" THEN Grown(o) - 1 ELSE Grown(o), offset)
         /\ offset' = offset + Grown(o)
         /\ oldC' = o + 1
  BY DEF NewlineFound
<1>4. o \in oldC .. chunkEnd - 1 /\ file[o + 1] = "newline"
  BY DEF Newlines
<1>5. Grown(o) = o + 1 - offset /\ offset' = o + 1 /\ o \in Nat /\ o + 1 <= FileSize
  BY <1>2, <1>3, <1>4 DEF Grown
<1>6. \A p \in offset + 1 .. o : file[p] # "newline"
  <2> SUFFICES ASSUME NEW p \in offset + 1 .. o PROVE file[p] # "newline"
    OBVIOUS
  <2>1. CASE p <= oldC
    BY <1>2, <1>5, <2>1 DEF LineInv, ScanHolds
  <2>2. CASE p > oldC
    <3>1. p - 1 \in oldC .. chunkEnd - 1 /\ (p - 1) + 1 = p /\ ~(o <= p - 1)
      BY <1>2, <1>4, <2>2
    <3> QED
      BY <1>3, <3>1 DEF Newlines
  <2> QED
    BY <1>2, <2>1, <2>2
<1>7. LineAt(tableCount, offset, o + 1)
  <2>1. offset \in 0 .. FileSize /\ offset # FileSize /\ offset < o + 1
    BY <1>2, <1>4, <1>5
  <2>2. offset \in Starts
    BY <1>2, <2>1 DEF LineInv, ScanHolds, Starts
  <2>3. Cardinality(Before(offset)) = tableCount
    BY <1>1 DEF LineInv, ScanHolds
  <2>4. (o + 1) - 1 = o
    BY <1>5
  <2> QED
    BY <1>4, <1>5, <1>6, <2>1, <2>2, <2>3, <2>4 DEF LineAt
<1>8. (IF program = "lab5" THEN Grown(o) - 1 ELSE Grown(o)) = (o + 1) - offset - ShortBy(o + 1)
  BY <1>2, <1>4, <1>5 DEF ShortBy
<1>9. LtAdd((o + 1) - offset - ShortBy(o + 1), offset)
  BY <1>3, <1>8
<1>10. /\ TableHolds' /\ EndOf(tableCount) = o + 1
       /\ Cardinality(Before(o + 1)) = tableCount + 1
  BY <1>1, <1>5, <1>7, <1>9, LtAddHolds
<1>11. EntriesInBounds' /\ capacity' \in Nat \ {0, 1} /\ tableCount' = tableCount + 1
  BY <1>1, <1>9, ReserveSuffices DEF LineInv
<1>12. Typed'
  BY <1>1, <1>2, <1>3, <1>5, <1>11 DEF LineInv, Typed
<1>13. ScanHolds'
  <2>1. offset' + lineSize' = oldC' /\ oldC' <= chunkEnd' /\ chunkEnd' <= FileSize'
    BY <1>1, <1>2, <1>3, <1>4, <1>5, SameFile
  <2>2. file'[offset'] = "newline"
    BY <1>1, <1>4, <1>5
  <2>3. offset' + 1 .. oldC' = {}
    BY <1>3, <1>5
  <2>4. Cardinality(Before(offset))' = tableCount'
    BY <1>1, <1>5, <1>10, <1>11, SameFile
  <2>5. EndOf(tableCount - 1)' = offset'
    <3>1. tableCount' - 1 = tableCount
      BY <1>2, <1>11
    <3> QED
      BY <1>1, <1>5, <1>10, <3>1, SameFile
  <2> QED
    BY <1>1, <2>1, <2>2, <2>3, <2>4, <2>5 DEF ScanHolds
<1>14. ShownHolds' /\ WindowHolds'
  <2>1. window' = NoWindow /\ tableCount' \in Nat
    BY <1>1, <1>2, <1>11 DEF LineInv, WindowHolds
  <2> QED
    BY <1>1, <1>2, <2>1, NothingShownYet
<1> QED
  BY <1>10, <1>11, <1>12, <1>13, <1>14 DEF LineInv

(* When all pieces have been scanned, the table is complete. *)
LEMMA TableComplete ==
  ASSUME LineInv, ScanEnds
  PROVE  /\ TableHolds' /\ EntriesInBounds'
         /\ tableCount' \in Nat /\ capacity' \in Nat \ {0, 1}
<1>1. /\ pc = "scan" /\ Rest = 0 /\ pc' \notin {"scan", "chunk"}
      /\ UNCHANGED <<program, file, scanVars, shown, line>>
  BY DEF ScanEnds
<1>2. /\ FileSize \in Nat /\ offset \in Nat /\ lineSize \in Nat /\ chunkEnd \in Nat /\ oldC \in Nat
      /\ offset + lineSize = oldC /\ oldC = chunkEnd /\ chunkEnd <= FileSize /\ tableCount \in Nat
  BY <1>1, StartsFacts DEF LineInv, Typed, ScanHolds
<1>3. offset + lineSize = FileSize /\ oldC = FileSize
  BY <1>1, <1>2 DEF Rest
<1>4. Cardinality(Before(offset)) = tableCount
  BY <1>1 DEF LineInv, ScanHolds
<1>5. CASE lineSize = 0
  <2>1. UNCHANGED tableVars
    BY <1>5 DEF ScanEnds
  <2>2. tableCount = Cardinality(Starts)
    BY <1>2, <1>3, <1>4, <1>5, StartsFacts DEF LineInv
  <2>3. EntriesInBounds' /\ TableHolds'
    BY <1>1, <2>1, <2>2, SameTable
  <2> QED
    BY <2>1, <2>3 DEF LineInv, Typed, tableVars
<1>6. CASE lineSize # 0
  <2>1. LtAdd(lineSize, offset)
    BY <1>6 DEF ScanEnds
  <2>2. offset \in 0 .. FileSize /\ offset # FileSize /\ offset < FileSize
    BY <1>2, <1>3, <1>6
  <2>3. \A o \in offset + 1 .. FileSize : file[o] # "newline"
    BY <1>3 DEF LineInv, ScanHolds
  <2>4. LineAt(tableCount, offset, FileSize)
    <3>1. offset \in Starts
      BY <1>2, <2>2 DEF LineInv, ScanHolds, Starts
    <3>2. \A o \in offset + 1 .. FileSize - 1 : file[o] # "newline"
      BY <1>2, <2>3
    <3> QED
      BY <1>2, <1>4, <2>2, <3>1, <3>2 DEF LineAt
  <2>5. file[FileSize] # "newline"
    <3>1. FileSize \in offset + 1 .. FileSize
      BY <1>2, <2>2
    <3> QED
      BY <2>3, <3>1
  <2>6. lineSize = FileSize - offset - ShortBy(FileSize)
    BY <1>2, <1>3, <2>5 DEF ShortBy
  <2>7. TableHolds'
    BY <1>1, <2>1, <2>4, <2>6, LtAddHolds
  <2>8. EntriesInBounds' /\ capacity' \in Nat \ {0, 1} /\ tableCount' = tableCount + 1
    BY <1>1, <2>1, ReserveSuffices DEF LineInv
  <2> QED
    BY <1>2, <2>7, <2>8
<1> QED
  BY <1>5, <1>6

LEMMA ScanEndsInv ==
  ASSUME LineInv, ScanEnds
  PROVE  LineInv'
<1>1. /\ pc = "scan" /\ pc' \in {"failed", "prompt"}
      /\ UNCHANGED <<program, file, scanVars, shown, line>>
      /\ window' = IF program = "lab7-1" THEN [idx |-> 0, len |-> FileSize] ELSE NoWindow
  BY DEF ScanEnds
<1>2. FileSize \in Nat
  BY StartsFacts DEF LineInv
<1>3. /\ TableHolds' /\ EntriesInBounds'
      /\ tableCount' \in Nat /\ capacity' \in Nat \ {0, 1}
  BY TableComplete
<1>4. Typed'
  BY <1>1, <1>2, <1>3 DEF LineInv, Typed, NoWindow, scanVars
<1>5. ScanHolds'
  BY <1>1, SameFile DEF LineInv, ScanHolds, scanVars
<1>6. line' = {} /\ shown' = <<>>
  BY <1>1 DEF LineInv, ShownHolds
<1>7. ShownHolds'
  BY <1>1, <1>6 DEF ShownHolds
<1>8. WindowHolds'
  <2>1. CASE program = "lab7-1"
    <3>1. window'.idx = 0 /\ window'.len = FileSize /\ 0 % PageSize = 0 /\ 0 + FileSize <= FileSize
      BY <1>1, <1>2, <2>1, LineTableAssumption
    <3> QED
      BY <1>1, <2>1, <3>1, SameFile DEF WindowHolds
  <2>2. CASE program # "lab7-1"
    <3>1. /\ window'.idx = 0 /\ window'.len = 0 /\ 0 % PageSize = 0 /\ 0 + 0 <= FileSize
          /\ 0 < CacheSize + PageSize
      BY <1>1, <1>2, <2>2, LineTableAssumption DEF NoWindow
    <3> QED
      BY <1>1, <2>2, <3>1, SameFile DEF WindowHolds
  <2> QED
    BY <2>1, <2>2
<1> QED
  BY <1>3, <1>4, <1>5, <1>7, <1>8 DEF LineInv

LEMMA ScanFailsInv ==
  ASSUME LineInv, ScanFails
  PROVE  LineInv'
<1>1. /\ pc = "scan" /\ pc' = "failed"
      /\ UNCHANGED <<program, file, scanVars, tableVars, window, shown, line>>
  BY DEF ScanFails
<1>2. FileSize \in Nat
  BY StartsFacts DEF LineInv
<1>3. Typed'
  BY <1>1 DEF LineInv, Typed, scanVars, tableVars
<1>4. ScanHolds'
  BY <1>1, SameFile DEF LineInv, ScanHolds, scanVars, tableVars
<1>5. EntriesInBounds' /\ TableHolds'
  BY <1>1, SameTable
<1>6. ShownHolds' /\ WindowHolds'
  <2>1. window' = NoWindow /\ tableCount' \in Nat
    BY <1>1 DEF LineInv, Typed, WindowHolds, tableVars
  <2> QED
    BY <1>1, <1>2, <2>1, NothingShownYet
<1> QED
  BY <1>3, <1>4, <1>5, <1>6 DEF LineInv

-----------------------------------------------------------------------------
(* The window. *)

LEMMA PageOf ==
  ASSUME NEW x \in Nat
  PROVE  LET a == (x \div PageSize) * PageSize
         IN  a \in Nat /\ a <= x /\ x - a < PageSize /\ a % PageSize = 0
<1>1. PageSize \in Nat /\ PageSize > 0
  BY LineTableAssumption
<1> DEFINE q == x \div PageSize
<1>2. q \in Nat /\ q * PageSize <= x /\ x < q * PageSize + PageSize
  BY <1>1
<1>3. q * PageSize \in Nat
  BY <1>1, <1>2
<1>4. (q * PageSize) % PageSize = 0
  BY <1>1, <1>2
<1> QED
  BY <1>1, <1>2, <1>3, <1>4

LEMMA LineInFile ==
  ASSUME LineInv, NEW k \in 0 .. tableCount - 1
  PROVE  /\ StartOf(k) \in Nat /\ EndOf(k) \in Nat /\ FileSize \in Nat
         /\ StartOf(k) < EndOf(k) /\ EndOf(k) <= FileSize
         /\ offsets[k] = StartOf(k)
         /\ EndOf(k) # FileSize => file[EndOf(k)] = "newline"
         /\ program # "lab5" => offsets[k + 1] = EndOf(k) /\ LineLen(k) = EndOf(k) - StartOf(k)
         /\ program = "lab5" => LineLen(k) = EndOf(k) - StartOf(k) - ShortBy(EndOf(k))
<1>1. LineAt(k, StartOf(k), EndOf(k)) /\ offsets[k] = StartOf(k)
  BY DEF LineInv, TableHolds
<1>2. StartOf(k) \in Nat /\ FileSize \in Nat
  BY <1>1, StartsFacts DEF LineAt, LineInv
<1>3. program # "lab5" => offsets[k + 1] = EndOf(k) /\ LineLen(k) = EndOf(k) - StartOf(k)
  BY <1>1 DEF LineInv, TableHolds, LineLen
<1>4. program = "lab5" => LineLen(k) = EndOf(k) - StartOf(k) - ShortBy(EndOf(k))
  BY DEF LineInv, TableHolds, LineLen
<1> QED
  BY <1>1, <1>2, <1>3, <1>4 DEF LineAt

(* The window get_line maps for a line starts on a page, holds the line,   *)
(* and ends in the file.                                                   *)
LEMMA WindowForHolds ==
  ASSUME LineInv, NEW k \in 0 .. tableCount - 1, program = "lab7",
         NEW w, w = WindowFor(k)
  PROVE  /\ w \in [idx : Nat, len : Nat]
         /\ w.idx % PageSize = 0 /\ w.idx + w.len <= FileSize /\ w.len # 0
         /\ w.idx <= offsets[k] /\ w.idx + w.len >= offsets[k + 1]
         /\ w.len < CacheSize + PageSize \/ LineLen(k) > CacheSize
<1> DEFINE s == StartOf(k)
           e == EndOf(k)
           size == WantedSize(k)
           x == WantedOffset(k)
           a == AlignedOffset(k)
<1>1. /\ s \in Nat /\ e \in Nat /\ FileSize \in Nat /\ s < e /\ e <= FileSize
      /\ offsets[k] = s /\ offsets[k + 1] = e /\ LineLen(k) = e - s
  BY LineInFile
<1>2. CacheSize \in Nat /\ PageSize \in Nat /\ CacheSize > 0 /\ PageSize > 0
  BY LineTableAssumption
<1>3. /\ size \in Nat /\ size <= FileSize /\ e - s <= size /\ size > 0
      /\ size <= CacheSize \/ LineLen(k) > CacheSize
  BY <1>1, <1>2 DEF WantedSize, Lesser
<1>4. x \in Nat /\ x <= s /\ x + size <= FileSize /\ x + size >= e
  BY <1>1, <1>3 DEF WantedOffset
<1>5. a \in Nat /\ a <= x /\ x - a < PageSize /\ a % PageSize = 0
  BY <1>4, PageOf DEF AlignedOffset
<1>6. w = [idx |-> a, len |-> size + (x - a)]
  BY DEF WindowFor
<1> HIDE DEF s, e, size, x, a
<1>7. w.idx = a /\ w.len = size + (x - a) /\ w.len \in Nat /\ w.len # 0 /\ a + w.len = x + size
  BY <1>3, <1>4, <1>5, <1>6
<1>8. w \in [idx : Nat, len : Nat]
  BY <1>3, <1>4, <1>5, <1>6
<1>9. w.len < CacheSize + PageSize \/ LineLen(k) > CacheSize
  BY <1>2, <1>3, <1>4, <1>5, <1>7
<1> QED
  BY <1>1, <1>2, <1>3, <1>4, <1>5, <1>7, <1>8, <1>9

(* A line is taken from a window that holds it. *)
LEMMA GetLineHolds ==
  ASSUME LineInv, pc \in {"prompt", "dump"}, NEW k \in 0 .. tableCount - 1,
         window' = GetLine(k), UNCHANGED <<program, file, pc, tableVars>>
  PROVE  /\ WindowHolds' /\ window' \in [idx : Nat, len : Nat]
         /\ program \in {"lab7", "lab7-1"} =>
              window'.idx <= StartOf(k) /\ window'.idx + window'.len >= EndOf(k)
<1>1. /\ StartOf(k) \in Nat /\ EndOf(k) \in Nat /\ FileSize \in Nat /\ EndOf(k) <= FileSize
      /\ offsets[k] = StartOf(k)
      /\ program # "lab5" => offsets[k + 1] = EndOf(k)
  BY LineInFile
<1>2. UNCHANGED <<tableCount, offsets, lengths>>
  BY DEF tableVars
<1>3. \A n : LineLen(n)' = LineLen(n)
  BY SameTable DEF LineInv, TableHolds
<1>4. CASE program = "lab7" /\ ~Inside(k)
  <2>1. window' = WindowFor(k)
    BY <1>4 DEF GetLine
  <2>2. /\ window' \in [idx : Nat, len : Nat]
        /\ window'.idx % PageSize = 0 /\ window'.idx + window'.len <= FileSize /\ window'.len # 0
        /\ window'.idx <= offsets[k] /\ window'.idx + window'.len >= offsets[k + 1]
        /\ window'.len < CacheSize + PageSize \/ LineLen(k) > CacheSize
    BY <1>4, <2>1, WindowForHolds
  <2>3. Inside(k)'
    BY <1>2, <2>2 DEF Inside
  <2>4. WindowHolds'
    BY <1>2, <1>3, <1>4, <2>2, <2>3, SameFile DEF WindowHolds
  <2> QED
    BY <1>1, <1>4, <2>2, <2>4
<1>5. CASE ~(program = "lab7" /\ ~Inside(k))
  <2>1. window' = window
    BY <1>5 DEF GetLine
  <2>2. WindowHolds'
    <3>1. \A n : Inside(n)' = Inside(n)
      BY <1>2, <2>1 DEF Inside
    <3> QED
      BY <1>2, <1>3, <2>1, <3>1, SameFile DEF LineInv, WindowHolds
  <2>3. CASE program = "lab7"
    BY <1>1, <1>5, <2>1, <2>2, <2>3 DEF Inside, LineInv, Typed
  <2>4. CASE program = "lab7-1"
    <3>1. window = [idx |-> 0, len |-> FileSize]
      BY <2>4 DEF LineInv, WindowHolds
    <3>2. window'.idx = 0 /\ window'.len = FileSize
      BY <2>1, <3>1
    <3> QED
      BY <1>1, <2>1, <2>2, <3>2 DEF LineInv, Typed
  <2> QED
    BY <2>1, <2>2, <2>3, <2>4 DEF LineInv, Typed
<1> QED
  BY <1>4, <1>5

-----------------------------------------------------------------------------
(* What is printed. *)

LEMMA ConcatGroups ==
  ASSUME NEW a \in Seq(Chars), NEW b \in Seq(Chars), NEW c \in Seq(Chars)
  PROVE  (a \o b) \o c = a \o (b \o c)
BY ONLY ConcatAssociative, a \in Seq(Chars), b \in Seq(Chars), c \in Seq(Chars)

LEMMA NewlineZero == <<"newline">> \o <<"zero">> = <<"newline", "zero">>
<1>1. <<"newline">> \in Seq(Chars) /\ <<"zero">> \in Seq(Chars) /\ <<"newline", "zero">> \in Seq(Chars)
  BY DEF Chars, FileBytes
<1>2. /\ <<"newline">> \o <<"zero">> \in Seq(Chars)
      /\ Len(<<"newline">> \o <<"zero">>) = 2
      /\ (<<"newline">> \o <<"zero">>)[1] = "newline"
      /\ (<<"newline">> \o <<"zero">>)[2] = "zero"
  BY <1>1, ConcatProperties
<1>3. Len(<<"newline", "zero">>) = 2 /\ 1 .. 2 = {1, 2}
  OBVIOUS
<1>4. \A i \in 1 .. 2 : (<<"newline">> \o <<"zero">>)[i] = <<"newline", "zero">>[i]
  BY <1>2, <1>3
<1> QED
  BY <1>1, <1>2, <1>3, <1>4, SeqEqual

LEMMA FileOfChars ==
  ASSUME Typed
  PROVE  file \in Seq(Chars) /\ \A o \in 1 .. FileSize : file[o] \in FileBytes /\ file[o] \in Chars
<1>1. file \in [1 .. FileSize -> FileBytes] /\ FileSize \in Nat
  BY LenProperties DEF Typed, FileSize
<1>2. \A o \in 1 .. FileSize : file[o] \in FileBytes /\ file[o] \in Chars
  BY <1>1 DEF Chars
<1>3. file \in [1 .. FileSize -> Chars]
  BY <1>1, <1>2
<1> QED
  BY <1>1, <1>2, <1>3

LEMMA ZeroOfChars == \A k : Zero(k) \in Seq(Chars)
<1>1. <<>> \in Seq(Chars) /\ <<"zero">> \in Seq(Chars)
  BY DEF Chars, FileBytes
<1> QED
  BY <1>1 DEF Zero, ZeroIf

LEMMA LeastNumber ==
  ASSUME NEW S \in SUBSET Nat, S # {}
  PROVE  \E m \in S : \A x \in S : m <= x
<1>1. PICK m \in S : \A x \in S : ~(<<x, m>> \in OpToRel(<, Nat))
  BY WFMin, NatLessThanWellFounded
<1>2. ASSUME NEW x \in S, x < m PROVE FALSE
  <2>1. <<x, m>> \in {p \in Nat \X Nat : p[1] < p[2]}
    BY <1>2
  <2> QED
    BY <1>1, <2>1 DEF OpToRel
<1> QED
  BY <1>2

(* A string goes up to its first zero byte. *)
CutAt(s, n) ==
    /\ \A m \in 1 .. n : s[m] # "zero"
    /\ n < Len(s) => s[n + 1] = "zero"

LEMMA CStringIs ==
  ASSUME NEW s \in Seq(Chars)
  PROVE  /\ \E n \in 0 .. Len(s) : CutAt(s, n)
         /\ \A n \in 0 .. Len(s) : CutAt(s, n) => CString(s) = SubSeq(s, 1, n)
<1>1. Len(s) \in Nat
  BY LenProperties
<1>2. \E n \in 0 .. Len(s) : CutAt(s, n)
  <2> DEFINE S == {n \in 0 .. Len(s) : n < Len(s) => s[n + 1] = "zero"}
  <2>1. S \in SUBSET Nat /\ Len(s) \in S
    BY <1>1
  <2>2. PICK n \in S : \A x \in S : n <= x
    BY <2>1, LeastNumber
  <2>3. ASSUME NEW m \in 1 .. n PROVE s[m] # "zero"
    <3>1. m - 1 \in 0 .. Len(s) /\ m - 1 < n /\ (m - 1) + 1 = m /\ n \in Nat
      BY <1>1, <2>3
    <3>2. ASSUME m - 1 \in S PROVE FALSE
      <4>1. n <= m - 1
        BY <2>2, <3>2
      <4> QED
        BY <3>1, <4>1
    <3>3. m - 1 < Len(s)
      BY <1>1, <2>3, <3>1
    <3> QED
      BY <3>1, <3>2, <3>3
  <2> QED
    BY <2>2, <2>3 DEF CutAt
<1>3. ASSUME NEW n \in 0 .. Len(s), NEW m \in 0 .. Len(s), CutAt(s, n), CutAt(s, m)
      PROVE  n = m
  <2>1. ASSUME n < m PROVE FALSE
    BY <1>1, <1>3, <2>1 DEF CutAt
  <2>2. ASSUME m < n PROVE FALSE
    BY <1>1, <1>3, <2>2 DEF CutAt
  <2> QED
    BY <1>1, <2>1, <2>2
<1>4. CString(s) = SubSeq(s, 1, CHOOSE n \in 0 .. Len(s) : CutAt(s, n))
  BY DEF CString, CutAt
<1> QED
  BY <1>2, <1>3, <1>4

LEMMA TextIs ==
  ASSUME LineInv, NEW k \in 0 .. tableCount - 1
  PROVE  /\ Text(k) = SubSeq(file, StartOf(k) + 1, EndOf(k))
         /\ Text(k) \in Seq(Chars) /\ Text(k) # <<>>
         /\ Terminated(Text(k)) =
              IF file[EndOf(k)] = "newline" THEN Text(k) ELSE Text(k) \o <<"newline">>
         /\ Terminated(Text(k)) \in Seq(Chars) /\ Terminated(Text(k)) # <<>>
<1> DEFINE s == StartOf(k)
           e == EndOf(k)
           t == Text(k)
<1>1. s \in Nat /\ e \in Nat /\ FileSize \in Nat /\ s < e /\ e <= FileSize
  BY LineInFile
<1>2. t = SubSeq(file, s + 1, e)
  BY DEF Text
<1> HIDE DEF s, e, t
<1>3. \A o \in s + 1 .. e : file[o] \in Chars
  BY <1>1, FileOfChars DEF LineInv
<1>4. /\ t \in Seq(Chars) /\ Len(t) = e - s
      /\ \A n \in 1 .. e - s : t[n] = file[s + n]
  <2>1. /\ t \in Seq(Chars) /\ Len(t) = (IF s + 1 <= e THEN e - (s + 1) + 1 ELSE 0)
        /\ \A n \in 1 .. e - (s + 1) + 1 : t[n] = file[(s + 1) + n - 1]
    <3>1. s + 1 \in Int /\ e \in Int
      BY <1>1
    <3> QED
      BY <1>2, <1>3, <3>1, SubSeqProperties
  <2>2. e - (s + 1) + 1 = e - s /\ s + 1 <= e
    BY <1>1
  <2>3. \A n \in 1 .. e - s : (s + 1) + n - 1 = s + n
    BY <1>1
  <2> QED
    BY <2>1, <2>2, <2>3
<1>5. t # <<>> /\ t[Len(t)] = file[e]
  <2>1. e - s \in 1 .. e - s /\ s + (e - s) = e
    BY <1>1
  <2>2. Len(t) # 0
    BY <1>1, <1>4
  <2>3. t # <<>>
    BY <2>2
  <2> QED
    BY <1>4, <2>1, <2>3
<1>6. Append(t, "newline") = t \o <<"newline">>
  BY <1>4, AppendIsConcat DEF Chars, FileBytes
<1>7. Terminated(t) = IF file[e] = "newline" THEN t ELSE t \o <<"newline">>
  BY <1>5, <1>6 DEF Terminated
<1>8. Append(t, "newline") \in Seq(Chars) /\ Append(t, "newline") # <<>>
  BY <1>4, AppendProperties DEF Chars, FileBytes
<1> QED
  BY <1>2, <1>4, <1>5, <1>6, <1>7, <1>8 DEF s, e, t

(* Only the last line may have no newline. *)
LEMMA LastLine ==
  ASSUME LineInv, pc \in {"prompt", "dump"}, NEW k \in 0 .. tableCount - 1
  PROVE  /\ tableCount = Cardinality(Starts)
         /\ k = tableCount - 1 <=> EndOf(k) = FileSize
         /\ k # tableCount - 1 => EndOf(k) = StartOf(k + 1) /\ file[EndOf(k)] = "newline"
<1>1. tableCount = Cardinality(Starts) /\ tableCount \in Nat
  BY DEF LineInv, TableHolds, Typed
<1>2. k = tableCount - 1 => EndOf(k) = FileSize
  BY <1>1 DEF EndOf
<1>3. ASSUME k # tableCount - 1
      PROVE  EndOf(k) = StartOf(k + 1) /\ EndOf(k) # FileSize
  <2>1. EndOf(k) = StartOf(k + 1) /\ k + 1 \in 0 .. tableCount - 1
    BY <1>1, <1>3 DEF EndOf
  <2> QED
    BY <2>1, LineInFile
<1> QED
  BY <1>1, <1>2, <1>3, LineInFile

LEMMA MappedLineIs ==
  ASSUME LineInv, NEW k \in 0 .. tableCount - 1, program # "lab5", NEW mapped \in [idx : Nat, len : Nat],
         mapped.idx <= StartOf(k), mapped.idx + mapped.len >= EndOf(k)
  PROVE  MappedLine(k, mapped) = Text(k)
<1> DEFINE s == StartOf(k)
           e == EndOf(k)
<1>1. /\ s \in Nat /\ e \in Nat /\ FileSize \in Nat /\ s < e /\ e <= FileSize
      /\ offsets[k] = s /\ LineLen(k) = e - s
  BY LineInFile
<1>2. Text(k) = SubSeq(file, s + 1, e)
  BY DEF Text
<1>3. MappedLine(k, mapped) =
        [n \in 1 .. e - s |->
           LET o == s + n - 1
           IN  IF o \in mapped.idx .. mapped.idx + mapped.len - 1 THEN file[o + 1] ELSE "unmapped"]
  BY <1>1 DEF MappedLine
<1> HIDE DEF s, e
<1>4. ASSUME NEW n \in 1 .. e - s
      PROVE  /\ (s + n - 1) \in mapped.idx .. mapped.idx + mapped.len - 1
             /\ (s + n - 1) + 1 = s + n
  BY <1>1 DEF s, e
<1>5. MappedLine(k, mapped) = [n \in 1 .. e - s |-> file[s + n]]
  BY <1>3, <1>4
<1>6. \A o \in s + 1 .. e : file[o] \in Chars
  BY <1>1, FileOfChars DEF LineInv
<1>7. /\ Text(k) \in Seq(Chars) /\ Len(Text(k)) = (IF s + 1 <= e THEN e - (s + 1) + 1 ELSE 0)
      /\ \A n \in 1 .. e - (s + 1) + 1 : Text(k)[n] = file[(s + 1) + n - 1]
  <2>1. s + 1 \in Int /\ e \in Int
    BY <1>1
  <2> QED
    BY <1>2, <1>6, <2>1, SubSeqProperties
<1>8. e - (s + 1) + 1 = e - s /\ s + 1 <= e
  BY <1>1
<1>9. Text(k) \in [1 .. e - s -> Chars]
  BY <1>7, <1>8, LenProperties
<1>10. \A n \in 1 .. e - s : Text(k)[n] = file[s + n]
  <2>1. \A n \in 1 .. e - s : (s + 1) + n - 1 = s + n
    BY <1>1
  <2> QED
    BY <1>7, <1>8, <2>1
<1> QED
  BY <1>5, <1>9, <1>10

(* What lab5 prints as a string is the line up to a zero byte.             *)
LEMMA StringLine ==
  ASSUME LineInv, pc \in {"prompt", "dump"}, NEW k \in 0 .. tableCount - 1, program = "lab5"
  PROVE  /\ LineOf(k) = CString(ReadLine(k)) \o <<"newline">>
         /\ LineOf(k) \in Seq(Chars) /\ LineOf(k) # <<>>
<1> DEFINE s == StartOf(k)
           e == EndOf(k)
           t == Text(k)
           r == ReadLine(k)
           l == LineLen(k)
<1>1. /\ s \in Nat /\ e \in Nat /\ FileSize \in Nat /\ s < e /\ e <= FileSize
      /\ offsets[k] = s /\ l = e - s - ShortBy(e)
  BY LineInFile
<1>2. \A o \in s + 1 .. e - 1 : file[o] # "newline"
  BY DEF LineInv, TableHolds, LineAt
<1>3. t = SubSeq(file, s + 1, e) /\ t \in Seq(Chars) /\ r = SubSeq(file, s + 1, s + l)
  BY <1>1, TextIs DEF ReadLine
<1>4. LineOf(k) = Terminated(CString(t))
  BY DEF LineOf
<1>5. /\ l \in Nat /\ l <= e - s
      /\ IF file[e] = "newline" THEN l = e - s - 1 ELSE l = e - s
  BY <1>1 DEF ShortBy
<1> HIDE DEF s, e, t, r, l
<1>6. \A o \in s + 1 .. e : file[o] \in Chars
  BY <1>1, FileOfChars DEF LineInv
<1>7. /\ Len(t) = e - s
      /\ \A n \in 1 .. e - s : t[n] = file[s + n]
  <2>1. /\ Len(t) = (IF s + 1 <= e THEN e - (s + 1) + 1 ELSE 0)
        /\ \A n \in 1 .. e - (s + 1) + 1 : t[n] = file[(s + 1) + n - 1]
    <3>1. s + 1 \in Int /\ e \in Int
      BY <1>1
    <3> QED
      BY <1>3, <1>6, <3>1, SubSeqProperties
  <2> QED
    BY <1>1, <2>1
<1>8. /\ r \in Seq(Chars) /\ Len(r) = l
      /\ \A n \in 1 .. l : r[n] = file[s + n] /\ r[n] = t[n] /\ r[n] # "newline"
  <2>1. s + 1 \in Int /\ s + l \in Int /\ s + l <= e
    BY <1>1, <1>5
  <2>2. \A o \in s + 1 .. s + l : file[o] \in Chars
    BY <1>1, <1>6, <2>1
  <2>3. /\ r \in Seq(Chars)
        /\ Len(r) = (IF s + 1 <= s + l THEN (s + l) - (s + 1) + 1 ELSE 0)
        /\ \A n \in 1 .. (s + l) - (s + 1) + 1 : r[n] = file[(s + 1) + n - 1]
    BY <1>3, <2>1, <2>2, SubSeqProperties
  <2>4. \A n \in 1 .. l : r[n] = file[s + n] /\ n \in 1 .. e - s
    BY <1>1, <1>5, <2>3
  <2>5. \A n \in 1 .. l : file[s + n] # "newline"
    <3> SUFFICES ASSUME NEW n \in 1 .. l PROVE file[s + n] # "newline"
      OBVIOUS
    <3>1. CASE s + n = e
      BY <1>1, <1>5, <3>1
    <3>2. CASE s + n # e
      <4>1. s + n \in s + 1 .. e - 1
        BY <1>1, <1>5, <3>2
      <4> QED
        BY <1>2, <4>1
    <3> QED
      BY <3>1, <3>2
  <2>6. Len(r) = l
    BY <1>1, <1>5, <2>3
  <2>7. \A n \in 1 .. l : r[n] = t[n]
    BY <1>7, <2>4
  <2>8. \A n \in 1 .. l : r[n] # "newline"
    BY <2>4, <2>5
  <2> QED
    BY <2>3, <2>4, <2>6, <2>7, <2>8
<1>9. PICK n \in 0 .. l : CutAt(r, n)
  BY <1>8, CStringIs
<1>10. CString(r) = SubSeq(r, 1, n)
  BY <1>8, <1>9, CStringIs
<1>11. "newline" \in Chars
  BY DEF Chars, FileBytes
(* What is cut off ends within the line; its newline is put behind it.     *)
<1>12. ASSUME NEW c \in Seq(Chars), Len(c) \in 0 .. l, \A m \in 1 .. Len(c) : c[m] = r[m]
       PROVE  /\ Terminated(c) = c \o <<"newline">>
              /\ Terminated(c) \in Seq(Chars) /\ Terminated(c) # <<>>
  <2>1. c # <<>> => c[Len(c)] # "newline"
    <3>1. c # <<>> => Len(c) # 0
      BY EmptySeq
    <3>2. Len(c) # 0 => Len(c) \in 1 .. l
      BY <1>5, <1>12
    <3> QED
      BY <1>8, <1>12, <3>1, <3>2
  <2>2. Terminated(c) = Append(c, "newline")
    BY <2>1 DEF Terminated
  <2> QED
    BY <1>11, <2>2, AppendIsConcat, AppendProperties
<1>13. CASE n < l
  <2>1. /\ SubSeq(t, 1, n) = SubSeq(r, 1, n) /\ SubSeq(r, 1, n) \in Seq(Chars)
        /\ Len(SubSeq(r, 1, n)) = n /\ \A m \in 1 .. n : SubSeq(r, 1, n)[m] = r[m]
    <3>1. \A m \in 1 .. n : t[m] = r[m] /\ r[m] \in Chars /\ t[m] \in Chars
      <4>1. \A m \in 1 .. n : m \in 1 .. l
        BY <1>5
      <4>2. \A m \in 1 .. l : r[m] \in Chars
        BY <1>8, ElementOfSeq
      <4> QED
        BY <1>8, <4>1, <4>2
    <3>2. /\ SubSeq(r, 1, n) \in Seq(Chars) /\ SubSeq(t, 1, n) \in Seq(Chars)
          /\ Len(SubSeq(r, 1, n)) = n /\ Len(SubSeq(t, 1, n)) = n
          /\ \A m \in 1 .. n : SubSeq(r, 1, n)[m] = r[m] /\ SubSeq(t, 1, n)[m] = t[m]
      <4>1. 1 \in Int /\ n \in Int /\ (IF 1 <= n THEN n - 1 + 1 ELSE 0) = n
            /\ 1 .. n - 1 + 1 = 1 .. n /\ \A m \in 1 .. n : 1 + m - 1 = m
        BY <1>5
      <4> QED
        BY <3>1, <4>1, SubSeqProperties
    <3> QED
      BY <3>1, <3>2, SeqEqual
  <2>2. CutAt(t, n) /\ n \in 0 .. Len(t)
    BY <1>1, <1>5, <1>7, <1>8, <1>9, <1>13 DEF CutAt
  <2>3. CString(t) = SubSeq(r, 1, n)
    BY <1>3, <2>1, <2>2, CStringIs
  <2> QED
    BY <1>4, <1>10, <1>12, <2>1, <2>3 DEF r
<1>14. CASE n = l
  <2>1. CString(r) = r
    BY <1>8, <1>10, <1>14, SubSeqFull
  <2>2. CASE file[e] = "newline"
    <3>1. t = r \o <<"newline">>
      <4>1. /\ r \o <<"newline">> \in Seq(Chars) /\ Len(r \o <<"newline">>) = l + 1
            /\ \A m \in 1 .. l : (r \o <<"newline">>)[m] = r[m]
            /\ (r \o <<"newline">>)[l + 1] = "newline"
        BY <1>8, <1>11, AppendIsConcat, AppendProperties
      <4>2. Len(t) = l + 1 /\ t[l + 1] = "newline"
        <5>1. l + 1 = e - s /\ l + 1 \in 1 .. e - s /\ s + (l + 1) = e
          BY <1>1, <1>5, <2>2
        <5> QED
          BY <1>7, <2>2, <5>1
      <4>3. \A m \in 1 .. l + 1 : m \in 1 .. l \/ m = l + 1
        BY <1>5
      <4>4. \A m \in 1 .. l + 1 : (r \o <<"newline">>)[m] = t[m]
        BY <1>8, <4>1, <4>2, <4>3
      <4> QED
        BY <1>3, <4>1, <4>2, <4>4, SeqEqual
    <3>2. CString(t) = t
      <4>1. Len(t) = l + 1 /\ t[l + 1] = "newline" /\ l + 1 \in 0 .. l + 1
        <5>1. l + 1 = e - s /\ l + 1 \in 1 .. e - s /\ s + (l + 1) = e
          BY <1>1, <1>5, <2>2
        <5> QED
          BY <1>5, <1>7, <2>2, <5>1
      <4>2. \A m \in 1 .. l + 1 : m \in 1 .. l \/ m = l + 1
        BY <1>5
      <4>3. CutAt(t, l + 1)
        BY <1>5, <1>8, <1>9, <1>14, <4>1, <4>2 DEF CutAt
      <4> QED
        BY <1>3, <4>1, <4>3, CStringIs, SubSeqFull
    <3>3. Terminated(t) = t /\ Terminated(t) # <<>>
      BY <2>2, TextIs DEF t, e
    <3> QED
      BY <1>3, <1>4, <2>1, <3>1, <3>2, <3>3 DEF r
  <2>3. CASE file[e] # "newline"
    <3>1. t = r
      <4>1. Len(t) = l /\ Len(r) = l /\ \A m \in 1 .. l : t[m] = r[m]
        BY <1>5, <1>7, <1>8, <2>3
      <4> QED
        BY <1>3, <1>8, <4>1, SeqEqual
    <3>2. Terminated(r) = r \o <<"newline">> /\ Terminated(r) \in Seq(Chars) /\ Terminated(r) # <<>>
      BY <1>5, <1>8, <1>12
    <3> QED
      BY <1>4, <2>1, <3>1, <3>2 DEF r
  <2> QED
    BY <2>2, <2>3
<1> QED
  BY <1>5, <1>9, <1>13, <1>14

(* What is printed for a line, in all four programs. *)
LEMMA LineOfType ==
  ASSUME LineInv, pc \in {"prompt", "dump"}, NEW k \in 0 .. tableCount - 1
  PROVE  LineOf(k) \in Seq(Chars) /\ LineOf(k) # <<>>
<1>1. CASE program = "lab5"
  BY <1>1, StringLine
<1>2. CASE program # "lab5"
  <2>1. LineOf(k) = Terminated(Text(k))
    BY <1>2 DEF LineOf
  <2> QED
    BY <2>1, TextIs
<1> QED
  BY <1>1, <1>2

LEMMA PrintedIs ==
  ASSUME LineInv, pc \in {"prompt", "dump"}, NEW k \in 0 .. tableCount - 1,
         NEW mapped \in [idx : Nat, len : Nat],
         program \in {"lab7", "lab7-1"} =>
           mapped.idx <= StartOf(k) /\ mapped.idx + mapped.len >= EndOf(k)
  PROVE  /\ Printed(k, mapped) = LineOf(k) \o Zero(k)
         /\ Zero(k) \in Seq(Chars)
<1> DEFINE s == StartOf(k)
           e == EndOf(k)
           t == Text(k)
<1>1. /\ s \in Nat /\ e \in Nat /\ FileSize \in Nat /\ s < e /\ e <= FileSize
      /\ offsets[k] = s
      /\ program # "lab5" => offsets[k + 1] = e /\ LineLen(k) = e - s
      /\ program = "lab5" => LineLen(k) = e - s - ShortBy(e)
      /\ e # FileSize => file[e] = "newline"
  BY LineInFile
<1>2. /\ t = SubSeq(file, s + 1, e) /\ t \in Seq(Chars)
      /\ Terminated(t) = IF file[e] = "newline" THEN t ELSE t \o <<"newline">>
      /\ Terminated(t) \in Seq(Chars)
  BY TextIs
<1>3. k = Cardinality(Starts) - 1 <=> e = FileSize
  BY LastLine
<1> HIDE DEF s, e, t
<1>4. "newline" \in Chars /\ "zero" \in Chars
  BY DEF Chars, FileBytes
<1>5. /\ <<>> \in Seq(Chars) /\ <<"newline">> \in Seq(Chars) /\ <<"zero">> \in Seq(Chars)
      /\ <<"newline">> \o <<"zero">> = <<"newline", "zero">>
  BY <1>4, NewlineZero
<1>6. Zero(k) \in Seq(Chars)
  BY <1>5 DEF Zero, ZeroIf
<1>7. /\ program # "lab6" => Terminated(t) \o Zero(k) = Terminated(t)
      /\ program # "lab5" => LineOf(k) = Terminated(t)
  BY <1>2, ConcatEmptySeq DEF Zero, ZeroIf, LineOf, t
<1>8. t \o <<>> = t
  BY <1>2, ConcatEmptySeq
<1>9. CASE program = "lab5"
  <2>1. Printed(k, mapped) = CString(ReadLine(k)) \o <<"newline">>
    BY <1>9 DEF Printed, PrintedLab5
  <2>2. LineOf(k) = CString(ReadLine(k)) \o <<"newline">> /\ LineOf(k) \in Seq(Chars)
    BY <1>9, StringLine
  <2>3. Zero(k) = <<>>
    BY <1>9 DEF Zero, ZeroIf
  <2> QED
    BY <1>6, <2>1, <2>2, <2>3, ConcatEmptySeq
<1>10. CASE program = "lab6"
  <2>1. s + LineLen(k) = e /\ offsets[k + 1] = e
    BY <1>1, <1>10
  <2>2. Printed(k, mapped) = t \o (IF file[e] # "newline" THEN <<"newline", "zero">> ELSE <<>>)
    BY <1>1, <1>2, <1>10, <2>1 DEF Printed, PrintedLab6, ReadLine, NoNewline
  <2>3. CASE file[e] = "newline"
    <3>1. Zero(k) = <<>>
      BY <1>3, <2>3 DEF Zero, ZeroIf
    <3> QED
      BY <1>2, <1>6, <1>7, <1>10, <2>2, <2>3, <3>1 DEF t
  <2>4. CASE file[e] # "newline"
    <3>1. Zero(k) = <<"zero">>
      BY <1>1, <1>3, <1>10, <2>4 DEF Zero, ZeroIf
    <3>2. (t \o <<"newline">>) \o <<"zero">> = t \o (<<"newline">> \o <<"zero">>)
      BY <1>2, <1>5, ConcatGroups
    <3> QED
      BY <1>2, <1>5, <1>6, <1>7, <1>10, <2>2, <2>4, <3>1, <3>2 DEF t
  <2> QED
    BY <2>3, <2>4
<1>11. CASE program \in {"lab7", "lab7-1"}
  <2>1. MappedLine(k, mapped) = t
    BY <1>11, MappedLineIs DEF t
  <2>2. offsets[k + 1] = e
    BY <1>1, <1>11
  <2>3. Printed(k, mapped) = t \o (IF file[e] # "newline" THEN <<"newline">> ELSE <<>>)
    BY <1>11, <2>1, <2>2 DEF Printed, PrintedMapped, NoNewline
  <2> QED
    BY <1>2, <1>6, <1>7, <1>8, <1>11, <2>3 DEF t
<1> QED
  BY <1>9, <1>10, <1>11 DEF LineInv, Typed

(* A line that is printed behind the ones before it continues the file.    *)
LEMMA DumpGoesOn ==
  ASSUME LineInv, pc \in {"prompt", "dump"}, NEW m \in 0 .. tableCount - 1
  PROVE  Dumped(m) \o (Terminated(Text(m)) \o Zero(m)) = Dumped(m + 1)
<1> DEFINE s == StartOf(m)
           e == EndOf(m)
           t == Text(m)
<1>1. /\ s \in Nat /\ e \in Nat /\ FileSize \in Nat /\ s < e /\ e <= FileSize /\ m \in Nat
      /\ tableCount \in Nat /\ tableCount = Cardinality(Starts)
  BY LineInFile, LastLine DEF LineInv, Typed
<1>2. /\ t = SubSeq(file, s + 1, e) /\ t \in Seq(Chars)
      /\ Terminated(t) = IF file[e] = "newline" THEN t ELSE t \o <<"newline">>
      /\ Terminated(t) \in Seq(Chars)
  BY TextIs
<1>3. file \in Seq(Chars) /\ Len(file) = FileSize
  BY FileOfChars DEF LineInv, FileSize
<1>4. Dumped(m) = SubSeq(file, 1, s)
  <2>1. CASE m = 0
    <3>1. s = 0
      <4>1. 0 \in Starts
        BY <1>1 DEF Starts
      <4>2. Cardinality(Before(0)) = 0
        BY StartsFacts, FS_EmptySet DEF LineInv
      <4> QED
        BY <2>1, <4>1, <4>2, StartIs DEF LineInv
    <3>2. SubSeq(file, 1, 0) = <<>>
      BY SubSeqEmpty
    <3> QED
      BY <2>1, <3>1, <3>2 DEF Dumped
  <2>2. CASE m # 0
    <3>1. m - 1 \in 0 .. tableCount - 1 /\ m - 1 # tableCount - 1 /\ (m - 1) + 1 = m /\ m < tableCount
      BY <1>1, <2>2
    <3>2. EndOf(m - 1) = s
      BY <3>1, LastLine
    <3> QED
      BY <2>2, <3>1, <3>2 DEF Dumped
  <2> QED
    BY <2>1, <2>2
<1>5. SubSeq(file, 1, s) \o t = SubSeq(file, 1, e)
  <2>1. 1 \in 1 .. Len(file) + 1 /\ s \in 1 - 1 .. Len(file) /\ e \in s .. Len(file)
    BY <1>1, <1>3
  <2> QED
    BY <1>2, <1>3, <2>1, ConcatAdjacentSubSeq
<1>6. SubSeq(file, 1, s) \in Seq(Chars) /\ SubSeq(file, 1, e) \in Seq(Chars)
  <2>1. (\A o \in 1 .. s : file[o] \in Chars) /\ (\A o \in 1 .. e : file[o] \in Chars)
    BY <1>1, FileOfChars DEF LineInv
  <2> QED
    BY <1>1, <2>1, SubSeqProperties
<1>7. /\ <<>> \in Seq(Chars) /\ <<"newline">> \in Seq(Chars) /\ <<"zero">> \in Seq(Chars)
  BY DEF Chars, FileBytes
<1>8. CASE m # tableCount - 1
  <2>1. file[e] = "newline" /\ Zero(m) = <<>>
    BY <1>1, <1>8, LastLine DEF Zero, ZeroIf
  <2>2. t \o <<>> = t
    BY <1>2, ConcatEmptySeq
  <2>3. Dumped(m + 1) = SubSeq(file, 1, e)
    <3>1. m + 1 # 0 /\ m + 1 < tableCount /\ (m + 1) - 1 = m
      BY <1>1, <1>8
    <3> QED
      BY <3>1 DEF Dumped
  <2> QED
    BY <1>2, <1>4, <1>5, <2>1, <2>2, <2>3
<1>9. CASE m = tableCount - 1
  <2>1. e = FileSize
    BY <1>9, LastLine
  <2>2. SubSeq(file, 1, e) = file
    BY <1>3, <2>1, SubSeqFull
  <2>3. Zero(m) = ZeroIf(TRUE) /\ ZeroIf(TRUE) \in Seq(Chars)
    BY <1>1, <1>7, <1>9 DEF Zero, ZeroIf
  <2>4. Dumped(m + 1) = Terminated(file) \o ZeroIf(TRUE)
    <3>1. m + 1 # 0 /\ ~(m + 1 < tableCount)
      BY <1>1, <1>9
    <3> QED
      BY <3>1 DEF Dumped
  <2>5. Terminated(file) = IF file[e] = "newline" THEN file ELSE file \o <<"newline">>
    <3>1. file # <<>>
      BY <1>1, <1>3, EmptySeq
    <3>2. Append(file, "newline") = file \o <<"newline">>
      BY <1>3, AppendIsConcat DEF Chars, FileBytes
    <3> QED
      BY <1>3, <2>1, <3>1, <3>2 DEF Terminated
  <2>6. SubSeq(file, 1, s) \o Terminated(t) = Terminated(file)
    <3>1. CASE file[e] = "newline"
      BY <1>2, <1>5, <2>2, <2>5, <3>1
    <3>2. CASE file[e] # "newline"
      <4>1. SubSeq(file, 1, s) \o (t \o <<"newline">>) = (SubSeq(file, 1, s) \o t) \o <<"newline">>
        BY <1>2, <1>6, <1>7, ConcatGroups
      <4> QED
        BY <1>2, <1>5, <2>2, <2>5, <3>2, <4>1
    <3> QED
      BY <3>1, <3>2
  <2>7. /\ SubSeq(file, 1, s) \o (Terminated(t) \o ZeroIf(TRUE))
            = (SubSeq(file, 1, s) \o Terminated(t)) \o ZeroIf(TRUE)
    BY <1>2, <1>6, <2>3, ConcatGroups
  <2> QED
    BY <1>4, <2>3, <2>4, <2>6, <2>7
<1> QED
  BY <1>8, <1>9

LEMMA UnreadType == Unread \in Seq(Chars) /\ Unread # <<>>
BY DEF Unread, Chars

(* Printing a line disturbs neither the table nor the scan.                *)
LEMMA PrintLineHolds ==
  ASSUME LineInv, pc \in {"prompt", "dump"}, NEW k \in 0 .. tableCount - 1, PrintLine(k),
         UNCHANGED <<program, file, pc, scanVars, tableVars>>
  PROVE  /\ Typed' /\ ScanHolds' /\ EntriesInBounds' /\ TableHolds' /\ WindowHolds'
         /\ shown' = (IF shown = Unread THEN Unread ELSE shown \o (LineOf(k) \o Zero(k)))
         /\ line' = line \cup {k} /\ line' \subseteq 0 .. tableCount' - 1 /\ shown' # <<>>
<1>1. /\ window' = GetLine(k)
      /\ shown' = (IF shown = Unread THEN Unread ELSE shown \o Printed(k, window'))
      /\ line' = line \cup {k}
  BY DEF PrintLine
<1>2. /\ WindowHolds' /\ window' \in [idx : Nat, len : Nat]
      /\ program \in {"lab7", "lab7-1"} =>
           window'.idx <= StartOf(k) /\ window'.idx + window'.len >= EndOf(k)
  BY <1>1, GetLineHolds
<1>3. Printed(k, window') = LineOf(k) \o Zero(k) /\ Zero(k) \in Seq(Chars)
  <2>1. ASSUME NEW w \in [idx : Nat, len : Nat],
               program \in {"lab7", "lab7-1"} => w.idx <= StartOf(k) /\ w.idx + w.len >= EndOf(k)
        PROVE  Printed(k, w) = LineOf(k) \o Zero(k) /\ Zero(k) \in Seq(Chars)
    BY <2>1, PrintedIs
  <2> QED
    BY <1>2, <2>1
<1>5. ScanHolds'
  BY SameFile DEF LineInv, ScanHolds, scanVars, tableVars
<1>6. EntriesInBounds' /\ TableHolds'
  <2>1. pc' \in {"prompt", "dump"} => tableCount = Cardinality(Starts)
    BY LastLine
  <2> QED
    BY <2>1, SameTable
<1>7. line' \subseteq 0 .. tableCount' - 1
  BY <1>1 DEF LineInv, ShownHolds, tableVars
<1>8. shown' = (IF shown = Unread THEN Unread ELSE shown \o (LineOf(k) \o Zero(k)))
  BY <1>1, <1>3
<1>9. shown' # <<>> /\ shown' \in Seq(Chars)
  <2>1. LineOf(k) \in Seq(Chars) /\ LineOf(k) # <<>>
    BY LineOfType
  <2>2. /\ LineOf(k) \o Zero(k) \in Seq(Chars)
        /\ Len(LineOf(k) \o Zero(k)) = Len(LineOf(k)) + Len(Zero(k))
        /\ Len(LineOf(k)) \in Nat \ {0} /\ Len(Zero(k)) \in Nat
    BY <1>3, <2>1, ConcatProperties, EmptySeq, LenProperties
  <2>3. shown \in Seq(Chars) /\ Len(shown) \in Nat
    BY LenProperties DEF LineInv, Typed
  <2>4. /\ Len(shown \o (LineOf(k) \o Zero(k))) # 0
        /\ shown \o (LineOf(k) \o Zero(k)) \in Seq(Chars)
    BY <2>2, <2>3, ConcatProperties
  <2>5. shown \o (LineOf(k) \o Zero(k)) # <<>>
    BY <2>4
  <2> QED
    BY <1>8, <2>4, <2>5, UnreadType
<1>10. Typed'
  BY <1>2, <1>9 DEF LineInv, Typed, scanVars, tableVars
<1> QED
  BY <1>1, <1>2, <1>5, <1>6, <1>7, <1>8, <1>9, <1>10

(* They change neither the table nor what the last one printed.            *)
LEMMA PromptHolds ==
  ASSUME LineInv, pc \in {"prompt", "dump"}, UNCHANGED <<program, file, scanVars, tableVars>>,
         pc' \in {"prompt", "dump", "failed", "exit"},
         window' = window \/ (window' = NoWindow /\ pc' = "failed"),
         shown' \in Seq(Chars)
  PROVE  Typed' /\ ScanHolds' /\ EntriesInBounds' /\ TableHolds' /\ WindowHolds'
<1>1. tableCount = Cardinality(Starts) /\ FileSize \in Nat
  BY StartsFacts DEF LineInv, TableHolds
<1>2. EntriesInBounds' /\ TableHolds' /\ \A k : LineLen(k)' = LineLen(k)
  BY <1>1, SameTable
<1>3. Typed'
  BY DEF LineInv, Typed, scanVars, tableVars, NoWindow
<1>4. ScanHolds'
  BY SameFile DEF LineInv, ScanHolds, scanVars, tableVars
<1>5. CASE window' = window
  <2>1. \A k : Inside(k)' = Inside(k)
    BY <1>5 DEF Inside, tableVars
  <2>2. tableCount' = tableCount
    BY DEF tableVars
  <2>3. WindowHolds'
    BY <1>2, <1>5, <2>1, <2>2, SameFile DEF LineInv, WindowHolds
  <2> QED
    BY <1>2, <1>3, <1>4, <2>3
<1>6. CASE window' = NoWindow /\ pc' = "failed"
  <2>1. /\ window'.idx = 0 /\ window'.len = 0 /\ 0 % PageSize = 0 /\ 0 + 0 <= FileSize
        /\ 0 < CacheSize + PageSize
    BY <1>1, <1>6, LineTableAssumption DEF NoWindow
  <2>2. WindowHolds'
    BY <1>6, <2>1, SameFile DEF WindowHolds
  <2> QED
    BY <1>2, <1>3, <1>4, <2>2
<1> QED
  BY <1>5, <1>6

(* Nor does printing what could not be read. *)
LEMMA PrintUnreadHolds ==
  ASSUME LineInv, pc \in {"prompt", "dump"}, NEW k \in 0 .. tableCount - 1, PrintUnread(k),
         UNCHANGED <<program, file, pc, scanVars, tableVars>>
  PROVE  /\ Typed' /\ ScanHolds' /\ EntriesInBounds' /\ TableHolds' /\ WindowHolds'
         /\ shown' = Unread
         /\ line' = line \cup {k} /\ line' \subseteq 0 .. tableCount' - 1 /\ shown' # <<>>
<1>1. /\ window' = window /\ shown' = Unread /\ line' = line \cup {k}
      /\ shown' \in Seq(Chars) /\ shown' # <<>>
  BY UnreadType DEF PrintUnread
<1>2. Typed' /\ ScanHolds' /\ EntriesInBounds' /\ TableHolds' /\ WindowHolds'
  BY <1>1, PromptHolds
<1>3. line' \subseteq 0 .. tableCount' - 1
  BY <1>1 DEF LineInv, ShownHolds, tableVars
<1> QED
  BY <1>1, <1>2, <1>3

LEMMA AnswerInv ==
  ASSUME LineInv, Answer
  PROVE  LineInv'
<1>1. /\ pc = "prompt" /\ shown = <<>>
      /\ UNCHANGED <<program, file, pc, scanVars, tableVars>>
  BY DEF Answer
<1>2. PICK lineNum \in Requests : PrintLine(lineNum - 1) \/ PrintUnread(lineNum - 1)
  BY DEF Answer
<1> DEFINE k == lineNum - 1
<1>3. k \in 0 .. tableCount - 1
  BY DEF Requests, LineInv, Typed
<1>4. /\ Typed' /\ ScanHolds' /\ EntriesInBounds' /\ TableHolds' /\ WindowHolds'
      /\ shown' = Unread \/ shown' = shown \o (LineOf(k) \o Zero(k))
      /\ line' = line \cup {k} /\ line' \subseteq 0 .. tableCount' - 1 /\ shown' # <<>>
  BY <1>1, <1>2, <1>3, PrintLineHolds, PrintUnreadHolds
<1> HIDE DEF k
<1>5. line' = {k}
  BY <1>1, <1>4 DEF LineInv, ShownHolds
<1>6. shown' # Unread => shown' = LineOf(k) \o Zero(k)
  <2>1. LineOf(k) \in Seq(Chars) /\ Zero(k) \in Seq(Chars)
    BY <1>1, <1>3, LineOfType, ZeroOfChars
  <2>2. LineOf(k) \o Zero(k) \in Seq(Chars)
    BY <2>1, ConcatProperties
  <2> QED
    BY <1>1, <1>4, <2>2, ConcatEmptySeq
<1>7. ShownHolds'
  <2>1. shown' # Unread => \A l \in line' : shown' = LineOf(l)' \o Zero(l)'
    BY <1>1, <1>5, <1>6, SameFile
  <2>2. Unread' = Unread
    BY DEF Unread
  <2> QED
    BY <1>1, <1>4, <1>5, <2>1, <2>2 DEF ShownHolds
<1> QED
  BY <1>4, <1>7 DEF LineInv

LEMMA DumpLineInv ==
  ASSUME LineInv, DumpLine
  PROVE  LineInv'
<1>1. /\ pc = "dump" /\ Cardinality(line) < tableCount
      /\ PrintLine(Cardinality(line)) \/ PrintUnread(Cardinality(line))
      /\ UNCHANGED <<program, file, pc, scanVars, tableVars>>
  BY DEF DumpLine
<1>2. PICK m \in 0 .. tableCount :
          line = 0 .. m - 1 /\ (shown # Unread => shown = Dumped(m))
  BY <1>1 DEF LineInv, ShownHolds
<1>3. tableCount \in Nat /\ m \in Nat
  BY DEF LineInv, Typed
<1>4. Cardinality(line) = m
  BY <1>2, <1>3, FS_Interval
<1>5. m \in 0 .. tableCount - 1 /\ m + 1 \in 0 .. tableCount
  BY <1>1, <1>3, <1>4
<1>6. /\ Typed' /\ ScanHolds' /\ EntriesInBounds' /\ TableHolds' /\ WindowHolds'
      /\ shown' # Unread => shown # Unread /\ shown' = shown \o (LineOf(m) \o Zero(m))
      /\ line' = line \cup {m} /\ line' \subseteq 0 .. tableCount' - 1 /\ shown' # <<>>
  BY <1>1, <1>4, <1>5, PrintLineHolds, PrintUnreadHolds
<1>7. shown' # Unread => shown' = Dumped(m + 1)
  <2>1. LineOf(m) = Terminated(Text(m))
    BY <1>1 DEF LineOf, LineInv, ShownHolds
  <2> QED
    BY <1>1, <1>2, <1>5, <1>6, <2>1, DumpGoesOn
<1>8. line' = 0 .. (m + 1) - 1
  BY <1>2, <1>3, <1>6
<1>9. ASSUME shown' # Unread, NEW l \in line', line' = {l}
      PROVE  shown' = LineOf(l)' \o Zero(l)'
  <2>1. m = 0 /\ l = 0
    <3>1. 0 \in line' /\ m \in line'
      BY <1>3, <1>8
    <3> QED
      BY <1>9, <3>1
  <2>2. LineOf(0) \in Seq(Chars) /\ Zero(0) \in Seq(Chars)
    BY <1>1, <1>5, <2>1, LineOfType, ZeroOfChars
  <2>3. LineOf(0) \o Zero(0) \in Seq(Chars)
    BY <2>2, ConcatProperties
  <2>4. shown' = LineOf(0) \o Zero(0)
    BY <1>2, <1>6, <1>9, <2>1, <2>3, ConcatEmptySeq DEF Dumped
  <2>5. LineOf(l)' = LineOf(l) /\ Zero(l)' = Zero(l)
    BY <1>1, SameFile
  <2> QED
    BY <2>1, <2>4, <2>5
<1>10. Dumped(m + 1)' = Dumped(m + 1)
  <2>1. tableCount' = tableCount /\ \A n : EndOf(n)' = EndOf(n)
    BY <1>1, SameFile DEF tableVars
  <2>2. ZeroIf(TRUE)' = ZeroIf(TRUE)
    BY <1>1, SameFile
  <2> QED
    BY <1>1, <2>1, <2>2 DEF Dumped, Terminated
<1>11. ShownHolds'
  <2>1. \E n \in 0 .. tableCount' :
           line' = 0 .. n - 1 /\ (shown' # Unread' => shown' = Dumped(n)')
    <3>1. tableCount' = tableCount /\ Unread' = Unread
      BY <1>1 DEF tableVars, Unread
    <3> QED
      BY <1>5, <1>7, <1>8, <1>10, <3>1
  <2>2. line' # {} /\ program' # "lab5"
    BY <1>1, <1>6 DEF LineInv, ShownHolds
  <2> QED
    BY <1>1, <1>6, <1>9, <2>1, <2>2 DEF ShownHolds, Unread
<1> QED
  BY <1>6, <1>11 DEF LineInv

-----------------------------------------------------------------------------
(* The other steps of the prompt. *)

(* What was printed stays as it was when the prompt is left. *)
LEMMA ShownStays ==
  ASSUME LineInv, pc \in {"prompt", "dump"},
         UNCHANGED <<program, file, tableVars, shown, line>>, pc' \in {"failed", "exit"}
  PROVE  ShownHolds'
<1>1. \A k : LineOf(k)' = LineOf(k) /\ Zero(k)' = Zero(k)
  BY SameFile
<1>2. tableCount' = tableCount
  BY DEF tableVars
<1>3. ASSUME shown' # Unread, NEW k \in line', line' = {k}
      PROVE  shown' = LineOf(k)' \o Zero(k)'
  BY <1>1, <1>3 DEF LineInv, ShownHolds
<1> QED
  BY <1>2, <1>3 DEF LineInv, ShownHolds, Unread

LEMMA LeaveInv ==
  ASSUME LineInv, Quit \/ MapFails \/ DumpEnds
  PROVE  LineInv'
<1>1. /\ pc \in {"prompt", "dump"} /\ pc' \in {"failed", "exit"}
      /\ UNCHANGED <<program, file, scanVars, tableVars, shown, line>>
      /\ window' = window \/ (window' = NoWindow /\ pc' = "failed")
  BY DEF Quit, MapFails, DumpEnds
<1>2. Typed' /\ ScanHolds' /\ EntriesInBounds' /\ TableHolds' /\ WindowHolds'
  BY <1>1, PromptHolds DEF LineInv, Typed
<1>3. ShownHolds'
  BY <1>1, ShownStays
<1> QED
  BY <1>2, <1>3 DEF LineInv

LEMMA NextPromptInv ==
  ASSUME LineInv, NextPrompt
  PROVE  LineInv'
<1>1. /\ pc = "prompt" /\ pc' = "prompt" /\ shown' = <<>> /\ line' = {}
      /\ UNCHANGED <<program, file, scanVars, tableVars, window>>
  BY DEF NextPrompt
<1>2. shown' \in Seq(Chars)
  BY <1>1, EmptySeq
<1>3. Typed' /\ ScanHolds' /\ EntriesInBounds' /\ TableHolds' /\ WindowHolds'
  BY <1>1, <1>2, PromptHolds
<1>4. ShownHolds'
  BY <1>1 DEF ShownHolds
<1> QED
  BY <1>3, <1>4 DEF LineInv

LEMMA TimesOutInv ==
  ASSUME LineInv, TimesOut
  PROVE  LineInv'
<1>1. /\ pc = "prompt" /\ pc' = "dump" /\ shown = <<>> /\ program # "lab5"
      /\ UNCHANGED <<program, file, scanVars, tableVars, window, shown, line>>
  BY DEF TimesOut
<1>2. Typed' /\ ScanHolds' /\ EntriesInBounds' /\ TableHolds' /\ WindowHolds'
  BY <1>1, PromptHolds DEF LineInv, Typed
<1>3. line' = {} /\ shown' = <<>>
  BY <1>1 DEF LineInv, ShownHolds
<1>4. ShownHolds'
  <2>1. 0 \in 0 .. tableCount' /\ 0 .. 0 - 1 = {}
    BY <1>1 DEF LineInv, Typed, tableVars
  <2>2. Dumped(0)' = <<>>
    BY DEF Dumped
  <2> QED
    BY <1>1, <1>3, <2>1, <2>2 DEF ShownHolds
<1> QED
  BY <1>2, <1>4 DEF LineInv

LEMMA StutterInv ==
  ASSUME LineInv, UNCHANGED vars
  PROVE  LineInv'
<1>1. UNCHANGED <<program, file, pc, offset, lineSize, chunkEnd, oldC, tableVars, window, shown, line>>
  BY DEF vars, scanVars
<1>2. pc' \in {"prompt", "dump"} => tableCount = Cardinality(Starts)
  BY <1>1 DEF LineInv, TableHolds
<1>3. EntriesInBounds' /\ TableHolds' /\ \A k : LineLen(k)' = LineLen(k)
  BY <1>1, <1>2, SameTable
<1>4. Typed'
  BY <1>1 DEF LineInv, Typed, tableVars
<1>5. ScanHolds'
  BY <1>1, SameFile DEF LineInv, ScanHolds, tableVars
<1>6. WindowHolds'
  <2>1. (\A k : Inside(k)' = Inside(k)) /\ tableCount' = tableCount
    BY <1>1 DEF Inside, tableVars
  <2> QED
    BY <1>1, <1>3, <2>1, SameFile DEF LineInv, WindowHolds
<1>7. ShownHolds'
  <2>1. \A k : LineOf(k)' = LineOf(k) /\ Zero(k)' = Zero(k)
    BY <1>1, SameFile
  <2>2. tableCount' = tableCount /\ \A m : EndOf(m)' = EndOf(m)
    BY <1>1, SameFile DEF tableVars
  <2>3. ZeroIf(TRUE)' = ZeroIf(TRUE)
    BY <1>1, SameFile
  <2>4. \A m : Dumped(m)' = Dumped(m)
    BY <1>1, <2>2, <2>3 DEF Dumped, Terminated
  <2> QED
    BY <1>1, <2>1, <2>2, <2>4 DEF LineInv, ShownHolds, Unread
<1> QED
  BY <1>3, <1>4, <1>5, <1>6, <1>7 DEF LineInv

-----------------------------------------------------------------------------
LEMMA LineInvHolds == Spec => []LineInv
<1>1. LineInv /\ [Next]_vars => LineInv'
  BY NextChunkInv, NewlineFoundInv, ChunkEndsInv, ScanEndsInv, ScanFailsInv, AnswerInv,
     NextPromptInv, LeaveInv, TimesOutInv, DumpLineInv, StutterInv
     DEF Next, Stopped
<1> QED
  BY <1>1, InitLineInv, PTL DEF Spec

(* For every file, and wherever read, the pieces or the map cut it: the    *)
(* table is that of the file's lines, and it is never written behind its   *)
(* end.                                                                    *)
THEOREM TableIsOfFile == Spec => []TableOfFile
<1>1. LineInv => TableOfFile
  <2> SUFFICES ASSUME LineInv PROVE TableOfFile
    OBVIOUS
  <2>1. ASSUME NEW k \in 0 .. tableCount - 1
        PROVE  /\ offsets[k] = StartOf(k)
               /\ LineLen(k) = EndOf(k) - StartOf(k) -
                    (IF program = "lab5" /\ file[EndOf(k)] = "newline" THEN 1 ELSE 0)
    BY LineInFile DEF ShortBy
  <2> QED
    BY <2>1 DEF LineInv, TableHolds, TableOfFile
<1> QED
  BY <1>1, LineInvHolds, PTL

(* For every size of the cache and of a page, and after any requests: the  *)
(* window is made of whole pages, lies in the file, and is not larger than *)
(* it has to be.                                                           *)
THEOREM WindowStaysInFile == Spec => []WindowInFile
<1>1. LineInv => WindowInFile
  BY DEF LineInv, WindowHolds, WindowInFile
<1> QED
  BY <1>1, LineInvHolds, PTL

(* For every file, zero bytes included: every program prints exactly the   *)
(* line it was asked for, lab5 up to a zero byte, and the whole file when  *)
(* nobody asks, in every answer and listing whose reads deliver the line.  *)
THEOREM LinesAreShown == Spec => []LinesShown
<1>1. LineInv => LinesShown
  <2> SUFFICES ASSUME LineInv, shown # <<>>, shown # Unread
               PROVE  IF pc = "dump" /\ Cardinality(line) = tableCount
                      THEN shown = Terminated(file) \o ZeroIf(Cardinality(Starts) - 1 \in line)
                      ELSE Cardinality(line) = 1 =>
                             \A k \in line :
                               shown = LineOf(k) \o ZeroIf(Cardinality(Starts) - 1 \in line)
    BY DEF LinesShown, ZeroIf
  <2>1. tableCount \in Nat /\ IsFiniteSet(line) /\ line # {}
    <3>1. tableCount \in Nat /\ line \subseteq 0 .. tableCount - 1 /\ line # {}
      BY DEF LineInv, Typed, ShownHolds
    <3>2. IsFiniteSet(0 .. tableCount - 1)
      BY <3>1, FS_Interval
    <3> QED
      BY <3>1, <3>2, FS_Subset
  <2>2. CASE pc = "dump" /\ Cardinality(line) = tableCount
    <3>1. PICK m \in 0 .. tableCount : line = 0 .. m - 1 /\ shown = Dumped(m)
      BY <2>2 DEF LineInv, ShownHolds
    <3>2. m = tableCount /\ m # 0
      <4>1. m \in Nat /\ Cardinality(0 .. m - 1) = m
        BY <2>1, FS_Interval
      <4>2. m = tableCount
        BY <2>2, <3>1, <4>1
      <4>3. m # 0
        BY <2>1, <3>1
      <4> QED
        BY <4>2, <4>3
    <3>3. tableCount = Cardinality(Starts)
      BY <2>2 DEF LineInv, TableHolds
    <3>4. Cardinality(Starts) - 1 \in line
      BY <2>1, <3>1, <3>2, <3>3
    <3>5. Dumped(m) = Terminated(file) \o ZeroIf(TRUE)
      <4>1. ~(m < tableCount)
        BY <2>1, <3>2
      <4> QED
        BY <3>2, <4>1 DEF Dumped
    <3> QED
      BY <2>2, <3>1, <3>4, <3>5 DEF ZeroIf
  <2>3. ASSUME Cardinality(line) = 1, NEW k \in line
        PROVE  shown = LineOf(k) \o ZeroIf(Cardinality(Starts) - 1 \in line)
    <3>1. line = {k}
      BY <2>1, <2>3, FS_Singleton
    <3>2. shown = LineOf(k) \o Zero(k)
      BY <3>1 DEF LineInv, ShownHolds
    <3>3. Zero(k) = ZeroIf(Cardinality(Starts) - 1 \in line)
      BY <3>1 DEF Zero, ZeroIf
    <3> QED
      BY <3>2, <3>3
  <2> QED
    BY <2>2, <2>3
<1> QED
  BY <1>1, LineInvHolds, PTL
====
