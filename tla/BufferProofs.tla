----------------------------- MODULE BufferProofs -----------------------------
(***************************************************************************)
(* Theorems about Buffer for any bytes, sizes and bounds: the layout of    *)
(* the vector, its bounded size, and that it implements ByteQueue.         *)
(***************************************************************************)
EXTENDS Buffer, SequenceTheorems, TLAPS

------------------------------------------------------------------------------
(* What resize and copy do to a vector.                                      *)

LEMMA ResizedFacts ==
    ASSUME NEW b \in Seq(Byte), NEW n \in Nat
    PROVE  /\ Resized(b, n) \in Seq(Byte)
           /\ Len(Resized(b, n)) = n
           /\ \A i \in 1..n : Resized(b, n)[i] = IF i <= Len(b) THEN b[i] ELSE Zero
<1>1. Resized(b, n) \in [1..n -> Byte]
  BY LenProperties, BufferAssumption DEF Resized
<1> QED
  BY <1>1, SeqDef DEF Resized

LEMMA CopiedFacts ==
    ASSUME NEW b \in Seq(Byte), NEW at \in Nat, NEW bytes \in Seq(Byte)
    PROVE  /\ Copied(b, at, bytes) \in Seq(Byte)
           /\ Len(Copied(b, at, bytes)) = Len(b)
           /\ \A i \in 1..Len(b) : Copied(b, at, bytes)[i] =
                 IF at < i /\ i <= at + Len(bytes) THEN bytes[i - at] ELSE b[i]
<1>1. Len(b) \in Nat /\ Len(bytes) \in Nat
  OBVIOUS
<1>2. \A i \in 1..Len(b) : at < i /\ i <= at + Len(bytes) <=> i \in at + 1 .. at + Len(bytes)
  BY <1>1
<1>3. \A i \in at + 1 .. at + Len(bytes) : bytes[i - at] \in Byte
  BY <1>1
<1>4. Copied(b, at, bytes) \in [1..Len(b) -> Byte]
  BY <1>1, <1>3 DEF Copied
<1> QED
  BY <1>1, <1>2, <1>4, SeqDef DEF Copied

\* A part of a vector.
LEMMA PartFacts ==
    ASSUME NEW b \in Seq(Byte), NEW m \in Nat, NEW n \in Nat, m <= n, n <= Len(b)
    PROVE  /\ SubSeq(b, m + 1, n) \in Seq(Byte)
           /\ Len(SubSeq(b, m + 1, n)) = n - m
           /\ \A i \in 1 .. n - m : SubSeq(b, m + 1, n)[i] = b[m + i]
<1>1. \A i \in m + 1 .. n : b[i] \in Byte
  OBVIOUS
<1>2. m + 1 \in Int /\ n \in Int
  OBVIOUS
<1> DEFINE part == SubSeq(b, m + 1, n)
<1>3. /\ part \in Seq(Byte)
      /\ Len(part) = IF m + 1 <= n THEN n - (m + 1) + 1 ELSE 0
      /\ \A i \in 1 .. n - (m + 1) + 1 : part[i] = b[(m + 1) + i - 1]
  BY <1>1, <1>2, SubSeqProperties
<1> HIDE DEF part
<1>4. part \in Seq(Byte) /\ Len(part) = n - m /\ \A i \in 1 .. n - m : part[i] = b[m + i]
  BY <1>3
<1> QED
  BY <1>4 DEF part

------------------------------------------------------------------------------
(* What happens to the bytes between the indices.                            *)

\* Copying data to the end of a part extends the part by the data.
LEMMA PlaceExtends ==
    ASSUME NEW b \in Seq(Byte), NEW r \in Nat, NEW w \in Nat, NEW data \in Seq(Byte),
           r <= w, w + Len(data) <= Len(b)
    PROVE  SubSeq(Copied(b, w, data), r + 1, w + Len(data)) = SubSeq(b, r + 1, w) \o data
<1> DEFINE c    == Copied(b, w, data)
           new  == SubSeq(c, r + 1, w + Len(data))
           old  == SubSeq(b, r + 1, w)
<1>1. Len(data) \in Nat /\ Len(b) \in Nat
  OBVIOUS
<1>2. /\ c \in Seq(Byte) /\ Len(c) = Len(b)
      /\ \A i \in 1..Len(b) : c[i] = IF w < i /\ i <= w + Len(data) THEN data[i - w] ELSE b[i]
  BY CopiedFacts
<1>3. /\ old \in Seq(Byte) /\ Len(old) = w - r
      /\ \A i \in 1 .. w - r : old[i] = b[r + i]
  BY <1>1, PartFacts
<1> HIDE DEF c
<1>4. /\ new \in Seq(Byte) /\ Len(new) = w + Len(data) - r
      /\ \A i \in 1 .. w + Len(data) - r : new[i] = c[r + i]
  <2>1. w + Len(data) \in Nat /\ r <= w + Len(data) /\ w + Len(data) <= Len(c)
    BY <1>1, <1>2
  <2> QED
    BY <1>2, <2>1, PartFacts
<1> HIDE DEF new, old
<1>5. /\ old \o data \in Seq(Byte) /\ Len(old \o data) = (w - r) + Len(data)
      /\ \A i \in 1 .. (w - r) + Len(data) :
            (old \o data)[i] = IF i <= w - r THEN old[i] ELSE data[i - (w - r)]
  <2>1. /\ old \o data \in Seq(Byte) /\ Len(old \o data) = Len(old) + Len(data)
        /\ \A i \in 1 .. Len(old) + Len(data) :
              (old \o data)[i] = IF i <= Len(old) THEN old[i] ELSE data[i - Len(old)]
    BY <1>3, ConcatProperties
  <2> QED
    BY <1>3, <2>1
<1>6. ASSUME NEW i \in 1 .. w + Len(data) - r
      PROVE  new[i] = (old \o data)[i]
  <2>1. new[i] = IF w < r + i /\ r + i <= w + Len(data) THEN data[r + i - w] ELSE b[r + i]
    BY <1>1, <1>2, <1>4
  <2>2. CASE i <= w - r
    BY <2>1, <2>2, <1>1, <1>3, <1>5
  <2>3. CASE ~(i <= w - r)
    <3>1. i - (w - r) = r + i - w
      OBVIOUS
    <3> QED
      BY <2>1, <2>3, <3>1, <1>1, <1>5
  <2> QED
    BY <2>2, <2>3
<1>7. Len(new) = Len(old \o data) /\ \A i \in 1..Len(new) : new[i] = (old \o data)[i]
  BY <1>1, <1>4, <1>5, <1>6
<1>8. new = old \o data
  BY <1>4, <1>5, <1>7, SeqEqual
<1> QED
  BY <1>8 DEF new, old, c

\* Growing the vector leaves its part alone.
LEMMA GrowKeeps ==
    ASSUME NEW b \in Seq(Byte), NEW r \in Nat, NEW w \in Nat, NEW n \in Nat,
           r <= w, w <= Len(b), Len(b) <= n
    PROVE  SubSeq(Resized(b, n), r + 1, w) = SubSeq(b, r + 1, w)
<1> DEFINE c == Resized(b, n)
           new == SubSeq(c, r + 1, w)
           old == SubSeq(b, r + 1, w)
<1>1. c \in Seq(Byte) /\ Len(c) = n /\ \A i \in 1..n : c[i] = IF i <= Len(b) THEN b[i] ELSE Zero
  BY ResizedFacts
<1>2. old \in Seq(Byte) /\ Len(old) = w - r /\ \A i \in 1 .. w - r : old[i] = b[r + i]
  BY PartFacts
<1> HIDE DEF c
<1>3. new \in Seq(Byte) /\ Len(new) = w - r /\ \A i \in 1 .. w - r : new[i] = c[r + i]
  BY <1>1, PartFacts
<1> HIDE DEF new, old
<1>4. \A i \in 1 .. w - r : new[i] = old[i]
  BY <1>1, <1>2, <1>3
<1>5. new = old
  BY <1>2, <1>3, <1>4, SeqEqual
<1> QED
  BY <1>5 DEF new, old, c

\* Moving the part to the front, makeSpace's other branch, keeps its bytes.
LEMMA MoveKeeps ==
    ASSUME NEW b \in Seq(Byte), NEW r \in Nat, NEW w \in Nat,
           kCheapPrepend <= r, r <= w, w <= Len(b)
    PROVE  SubSeq(Copied(b, kCheapPrepend, SubSeq(b, r + 1, w)),
                  kCheapPrepend + 1, kCheapPrepend + (w - r)) = SubSeq(b, r + 1, w)
<1> DEFINE k == kCheapPrepend
           old == SubSeq(b, r + 1, w)
           c == Copied(b, k, old)
           new == SubSeq(c, k + 1, k + (w - r))
<1>1. k \in Nat /\ Len(b) \in Nat
  BY BufferAssumption
<1>2. old \in Seq(Byte) /\ Len(old) = w - r /\ \A i \in 1 .. w - r : old[i] = b[r + i]
  BY PartFacts
<1> HIDE DEF k, old
<1>3. /\ c \in Seq(Byte) /\ Len(c) = Len(b)
      /\ \A i \in 1..Len(b) : c[i] = IF k < i /\ i <= k + Len(old) THEN old[i - k] ELSE b[i]
  BY <1>1, <1>2, CopiedFacts
<1> HIDE DEF c
<1>4. k <= r
  BY DEF k
<1>5. /\ new \in Seq(Byte) /\ Len(new) = k + (w - r) - k
      /\ \A i \in 1 .. k + (w - r) - k : new[i] = c[k + i]
  <2>1. k + (w - r) \in Nat /\ k <= k + (w - r) /\ k + (w - r) <= Len(c)
    BY <1>1, <1>3, <1>4
  <2> QED
    BY <1>1, <1>3, <2>1, PartFacts
<1> HIDE DEF new
<1>6. \A i \in 1 .. w - r : new[i] = old[i]
  BY <1>1, <1>2, <1>3, <1>4, <1>5
<1>7. Len(new) = Len(old) /\ \A i \in 1..Len(new) : new[i] = old[i]
  BY <1>1, <1>2, <1>5, <1>6
<1>8. new = old
  BY <1>2, <1>5, <1>7, SeqEqual
<1> QED
  BY <1>8 DEF new, old, c, k
------------------------------------------------------------------------------
(* The two ways of putting bytes in.                                         *)

Layout(b, r, w) == /\ b \in Seq(Byte) /\ r \in Nat /\ w \in Nat
                   /\ kCheapPrepend <= r /\ r <= w /\ w <= Len(b)

Part(b, r, w) == SubSeq(b, r + 1, w)

\* b, r and w have become the buffer's, with data behind what was readable.
Extended(b, r, w, data) ==
    /\ Layout(buffer_', readerIndex_', writerIndex_')
    /\ Part(buffer_', readerIndex_', writerIndex_') = Part(b, r, w) \o data
    /\ writerIndex_' - readerIndex_' = w - r + Len(data)

\* The vector is as long as before, or has just grown for want of room.
GrownInNeed(b, r, w, data) ==
    \/ Len(buffer_') = Len(b)
    \/ /\ Len(buffer_') = w + Len(data)
       /\ Len(b) - w + (r - kCheapPrepend) < Len(data)

LEMMA PlaceStep ==
    ASSUME NEW b, NEW r, NEW w, Layout(b, r, w), NEW data \in Seq(Byte),
           w + Len(data) <= Len(b), Place(b, r, w, data)
    PROVE  Extended(b, r, w, data) /\ Len(buffer_') = Len(b)
<1>1. Len(data) \in Nat
  OBVIOUS
<1>2. buffer_' \in Seq(Byte) /\ Len(buffer_') = Len(b)
  BY CopiedFacts DEF Layout, Place
<1>3. Part(buffer_', readerIndex_', writerIndex_') = Part(b, r, w) \o data
  BY PlaceExtends DEF Layout, Place, Part
<1> QED
  BY <1>1, <1>2, <1>3 DEF Extended, Layout, Place

LEMMA AppendToStep ==
    ASSUME NEW b, NEW r, NEW w, Layout(b, r, w), NEW data \in Seq(Byte),
           AppendTo(b, r, w, data)
    PROVE  Extended(b, r, w, data) /\ GrownInNeed(b, r, w, data)
<1>1. Len(data) \in Nat /\ Len(b) \in Nat /\ kCheapPrepend \in Nat /\ r \in Nat /\ w \in Nat
  BY BufferAssumption DEF Layout
<1>2. CASE Len(data) <= Len(b) - w /\ Place(b, r, w, data)
  <2>1. w + Len(data) <= Len(b)
    BY <1>1, <1>2
  <2> QED
    BY <1>2, <2>1, PlaceStep DEF GrownInNeed
<1>3. CASE /\ Len(data) > Len(b) - w /\ Len(b) - w + (r - kCheapPrepend) < Len(data)
           /\ Place(Resized(b, w + Len(data)), r, w, data)
  <2> DEFINE c == Resized(b, w + Len(data))
  <2>1. w + Len(data) \in Nat /\ Len(b) <= w + Len(data)
    BY <1>1, <1>3
  <2>2. c \in Seq(Byte) /\ Len(c) = w + Len(data)
    BY <2>1, ResizedFacts DEF Layout
  <2>3. Part(c, r, w) = Part(b, r, w)
    BY <2>1, GrowKeeps DEF Layout, Part
  <2> HIDE DEF c
  <2>4. Layout(c, r, w) /\ w + Len(data) <= Len(c)
    BY <1>1, <2>1, <2>2 DEF Layout
  <2>5. Place(c, r, w, data)
    BY <1>3 DEF c
  <2>6. Extended(c, r, w, data) /\ Len(buffer_') = Len(c)
    BY <2>4, <2>5, PlaceStep
  <2> QED
    BY <1>3, <2>2, <2>3, <2>6 DEF Extended, GrownInNeed
<1>4. CASE /\ Len(data) > Len(b) - w /\ Len(b) - w + (r - kCheapPrepend) >= Len(data)
           /\ Place(Copied(b, kCheapPrepend, SubSeq(b, r + 1, w)),
                    kCheapPrepend, kCheapPrepend + (w - r), data)
  <2> DEFINE c == Copied(b, kCheapPrepend, SubSeq(b, r + 1, w))
             v == kCheapPrepend + (w - r)
  <2>1. SubSeq(b, r + 1, w) \in Seq(Byte)
    BY PartFacts DEF Layout
  <2>2. c \in Seq(Byte) /\ Len(c) = Len(b)
    BY <1>1, <2>1, CopiedFacts DEF Layout
  <2>3. Part(c, kCheapPrepend, v) = Part(b, r, w)
    BY MoveKeeps DEF Layout, Part
  <2> HIDE DEF c
  <2>4. v \in Nat /\ v + Len(data) <= Len(b) /\ v - kCheapPrepend = w - r
    BY <1>1, <1>4 DEF Layout
  <2>5. Place(c, kCheapPrepend, v, data)
    BY <1>4 DEF c
  <2> HIDE DEF v
  <2>6. Layout(c, kCheapPrepend, v) /\ v + Len(data) <= Len(c)
    BY <1>1, <2>2, <2>4 DEF Layout
  <2>7. Extended(c, kCheapPrepend, v, data) /\ Len(buffer_') = Len(c)
    BY <2>5, <2>6, PlaceStep
  <2> QED
    BY <2>2, <2>3, <2>4, <2>7 DEF Extended, GrownInNeed
<1> QED
  BY <1>2, <1>3, <1>4 DEF AppendTo

LEMMA ReadFdStep ==
    ASSUME Layout(buffer_, readerIndex_, writerIndex_), NEW data \in Seq(Byte), ReadFd(data)
    PROVE  /\ Extended(buffer_, readerIndex_, writerIndex_, data)
           /\ GrownInNeed(buffer_, readerIndex_, writerIndex_, data)
<1> DEFINE b == buffer_
           r == readerIndex_
           w == writerIndex_
           n == Len(b) - w
<1>1. b \in Seq(Byte) /\ Len(data) \in Nat /\ Len(b) \in Nat /\ r \in Nat /\ w \in Nat /\ n \in Nat
  BY DEF Layout
<1>2. CASE Len(data) <= n
  <2>1. w + Len(data) <= Len(b) /\ Place(b, r, w, data)
    BY <1>1, <1>2 DEF ReadFd, writeableBytes
  <2> QED
    BY <2>1, PlaceStep DEF GrownInNeed
<1>3. CASE ~(Len(data) <= n)
  <2> DEFINE d1 == SubSeq(data, 1, n)
             d2 == SubSeq(data, n + 1, Len(data))
             c  == Copied(b, w, d1)
  <2>1. d1 \in Seq(Byte) /\ Len(d1) = n
    <3>1. 0 \in Nat /\ 0 <= n /\ n <= Len(data)
      BY <1>1, <1>3
    <3>2. SubSeq(data, 0 + 1, n) \in Seq(Byte) /\ Len(SubSeq(data, 0 + 1, n)) = n - 0
      BY <3>1, <1>1, PartFacts
    <3>3. 0 + 1 = 1 /\ n - 0 = n
      BY <1>1
    <3> QED
      BY <3>2, <3>3
  <2>2. d2 \in Seq(Byte) /\ Len(d2) = Len(data) - n
    BY <1>1, <1>3, PartFacts
  <2>3. d1 \o d2 = data
    <3>1. 1 \in 1 .. Len(data) + 1 /\ n \in 1 - 1 .. Len(data) /\ Len(data) \in n .. Len(data)
      BY <1>1, <1>3
    <3>2. d1 \o d2 = SubSeq(data, 1, Len(data))
      BY <3>1, ConcatAdjacentSubSeq
    <3> QED
      BY <3>2, SubSeqFull
  <2>4. AppendTo(c, r, Len(b), d2)
    BY <1>3 DEF ReadFd, writeableBytes
  <2> HIDE DEF d1, d2
  <2>5. c \in Seq(Byte) /\ Len(c) = Len(b)
    BY <1>1, <2>1, CopiedFacts
  <2>6. Part(c, r, Len(b)) = Part(b, r, w) \o d1
    <3>1. w + Len(d1) = Len(b) /\ r <= w /\ w + Len(d1) <= Len(b) /\ d1 \in Seq(Byte)
      BY <1>1, <2>1 DEF Layout
    <3>2. SubSeq(Copied(b, w, d1), r + 1, w + Len(d1)) = SubSeq(b, r + 1, w) \o d1
      BY ONLY <1>1, <3>1, PlaceExtends
    <3> QED
      BY <3>1, <3>2 DEF Part
  <2> HIDE DEF c
  <2>7. Layout(c, r, Len(b))
    BY <1>1, <2>5 DEF Layout
  <2>8. Extended(c, r, Len(b), d2) /\ GrownInNeed(c, r, Len(b), d2)
    BY <2>2, <2>4, <2>7, AppendToStep
  <2>9. Part(b, r, w) \in Seq(Byte)
    BY PartFacts DEF Layout, Part
  <2>10. (Part(b, r, w) \o d1) \o d2 = Part(b, r, w) \o data
    <3> DEFINE q == Part(b, r, w)
    <3>1. q \in Seq(Byte) /\ d1 \in Seq(Byte) /\ d2 \in Seq(Byte)
      BY <2>1, <2>2, <2>9
    <3> HIDE DEF q
    <3>2. (q \o d1) \o d2 = q \o (d1 \o d2)
      BY <3>1, ConcatAssociative
    <3>3. (q \o d1) \o d2 = q \o data
      BY <2>3, <3>2
    <3> QED
      BY <3>3 DEF q
  <2>11. Len(b) - r + Len(d2) = w - r + Len(data)
    BY <1>1, <2>2
  <2>12. Extended(b, r, w, data)
    BY <2>6, <2>8, <2>10, <2>11 DEF Extended
  <2>13. GrownInNeed(b, r, w, data)
    BY <1>1, <2>2, <2>5, <2>8, BufferAssumption DEF GrownInNeed
  <2> QED
    BY <2>12, <2>13
<1> QED
  BY <1>2, <1>3

------------------------------------------------------------------------------
(* Type correctness and bounded size.                                        *)

LEMMA ChunkIsSeq == Chunk \subseteq Seq(Byte)
<1>1. \A n \in 0..MaxReadable : n \in Nat
  BY BufferAssumption
<1> QED
  BY <1>1, SeqDef DEF Chunk

LEMMA LayoutOfTypeOK == TypeOK => Layout(buffer_, readerIndex_, writerIndex_)
BY DEF TypeOK, Layout

Bounded == TypeOK /\ CapacityBounded

\* Putting bytes in keeps the invariant, and extends what is readable.
LEMMA PutKeeps ==
    ASSUME Bounded, NEW data \in Seq(Byte), Append_(data) \/ ReadFd(data)
    PROVE  Bounded' /\ Readable' = Readable \o data /\ last' = [op |-> "put", bytes |-> data]
<1> DEFINE b == buffer_
           r == readerIndex_
           w == writerIndex_
<1>1. Layout(b, r, w)
  BY LayoutOfTypeOK DEF Bounded
<1>2. Extended(b, r, w, data) /\ GrownInNeed(b, r, w, data)
  BY <1>1, AppendToStep, ReadFdStep DEF Append_
<1>3. readableBytes + Len(data) <= MaxReadable /\ last' = [op |-> "put", bytes |-> data]
  BY DEF Append_, ReadFd
<1>4. Len(data) \in Nat /\ Len(b) \in Nat /\ r \in Nat /\ w \in Nat
  BY <1>1 DEF Layout
<1>5. readableBytes' <= MaxReadable
  BY <1>2, <1>3 DEF Extended, readableBytes
<1>6. last' \in Abstract!Operation
  BY <1>3 DEF Abstract!Operation
<1>7. TypeOK'
  BY <1>2, <1>5, <1>6 DEF TypeOK, Extended, Layout
<1>8. CapacityBounded'
  <2>1. CASE Len(buffer_') = Len(b)
    BY <2>1 DEF Bounded, CapacityBounded
  <2>2. CASE /\ Len(buffer_') = w + Len(data)
             /\ Len(b) - w + (r - kCheapPrepend) < Len(data)
    <3>1. w - r + Len(data) <= MaxReadable
      BY <1>3 DEF readableBytes
    <3>2. w <= Len(b) /\ r <= w
      BY <1>1 DEF Layout
    <3>3. Len(buffer_') <= kCheapPrepend + 2 * MaxReadable
      BY <1>4, <2>2, <3>1, <3>2, BufferAssumption
    <3> QED
      BY <1>4, <2>2, <3>3, BufferAssumption DEF CapacityBounded
  <2> QED
    BY <1>2, <2>1, <2>2 DEF GrownInNeed
<1> QED
  BY <1>2, <1>3, <1>7, <1>8 DEF Bounded, Extended, Part, Readable

\* Taking bytes out leaves the vector alone.
LEMMA RetrieveKeeps ==
    ASSUME Bounded, NEW len \in Nat, RetrieveBytes(len), last' \in Abstract!Operation
    PROVE  Bounded'
<1> USE BufferAssumption DEF Bounded, TypeOK, RetrieveBytes, readableBytes
<1>1. Len(buffer_) \in Nat
  OBVIOUS
<1>2. TypeOK'
  BY <1>1
<1> QED
  BY <1>2 DEF CapacityBounded

LEMMA HandedOutIsSeq ==
    ASSUME TypeOK, NEW len \in Nat, len <= readableBytes
    PROVE  SubSeq(buffer_, readerIndex_ + 1, readerIndex_ + len) \in Seq(Byte)
<1>1. /\ readerIndex_ + len \in Nat /\ readerIndex_ <= readerIndex_ + len
      /\ readerIndex_ + len <= Len(buffer_)
  BY DEF TypeOK, readableBytes
<1> QED
  BY <1>1, PartFacts DEF TypeOK

LEMMA BoundedInit == Init => Bounded
<1> SUFFICES ASSUME Init
             PROVE  Bounded
  OBVIOUS
<1>1. buffer_ \in [1 .. kCheapPrepend + kInitialSize -> Byte]
  BY BufferAssumption DEF Init
<1>2. buffer_ \in Seq(Byte) /\ Len(buffer_) = kCheapPrepend + kInitialSize
  BY <1>1, BufferAssumption, SeqDef
<1>3. last \in Abstract!Operation
  BY EmptySeq DEF Init, Abstract!Operation
<1> QED
  BY <1>2, <1>3, BufferAssumption DEF Init, Bounded, TypeOK, CapacityBounded, readableBytes

LEMMA BoundedStep == Bounded /\ [Next]_vars => Bounded'
<1> SUFFICES ASSUME Bounded, [Next]_vars
             PROVE  Bounded'
  OBVIOUS
<1>1. ASSUME NEW data \in Chunk, Append_(data) \/ ReadFd(data)
      PROVE  Bounded'
  BY <1>1, ChunkIsSeq, PutKeeps
<1>2. ASSUME NEW len \in 0 .. MaxReadable + 1, Retrieve(len)
      PROVE  Bounded'
  BY <1>2, EmptySeq, BufferAssumption, RetrieveKeeps DEF Retrieve, Abstract!Operation
<1>3. ASSUME NEW len \in 0 .. MaxReadable + 1, HandOut(len)
      PROVE  Bounded'
  <2>1. len \in Nat
    BY BufferAssumption
  <2>2. last' \in Abstract!Operation
    BY <1>3, <2>1, HandedOutIsSeq DEF HandOut, Bounded, Abstract!Operation
  <2> QED
    BY <1>3, <2>1, <2>2, RetrieveKeeps DEF HandOut
<1>4. CASE UNCHANGED vars
  BY <1>4 DEF vars, Bounded, TypeOK, CapacityBounded, readableBytes
<1> QED
  BY <1>1, <1>2, <1>3, <1>4 DEF Next

\* The indices stay in order inside the vector, and the reserve is kept (Buffer.h).
THEOREM TypeCorrect == Spec => []TypeOK
<1>1. Bounded => TypeOK
  BY DEF Bounded
<1> QED
  BY <1>1, BoundedInit, BoundedStep, PTL DEF Spec

\* The vector never grows past the larger of its first size and twice what it is
\* asked to hold (makeSpace).
THEOREM SizeBounded == Spec => []CapacityBounded
<1>1. Bounded => CapacityBounded
  BY DEF Bounded
<1> QED
  BY <1>1, BoundedInit, BoundedStep, PTL DEF Spec

------------------------------------------------------------------------------
(* The refinement of ByteQueue.                                              *)

LEMMA RefinementInit == Init => Abstract!Init
<1> SUFFICES ASSUME Init
             PROVE  Readable = <<>>
  BY DEF Init, Abstract!Init
<1>1. kCheapPrepend < kCheapPrepend + 1 /\ kCheapPrepend \in Int /\ kCheapPrepend + 1 \in Int
  BY BufferAssumption
<1> QED
  BY <1>1, SubSeqEmpty DEF Init, Readable

\* What is readable once len bytes were retrieved.
LEMMA RetrieveLeaves ==
    ASSUME TypeOK, NEW len \in Nat, RetrieveBytes(len)
    PROVE  Readable' = IF len < readableBytes
                       THEN SubSeq(buffer_, readerIndex_ + len + 1, writerIndex_) ELSE <<>>
<1>1. CASE len < readableBytes
  BY <1>1 DEF RetrieveBytes, Readable
<1>2. CASE ~(len < readableBytes)
  <2>1. kCheapPrepend < kCheapPrepend + 1 /\ kCheapPrepend \in Int /\ kCheapPrepend + 1 \in Int
    BY BufferAssumption
  <2> QED
    BY <1>2, <2>1, SubSeqEmpty DEF RetrieveBytes, Readable
<1> QED
  BY <1>1, <1>2

LEMMA ReadableFacts ==
    ASSUME TypeOK
    PROVE  Readable \in Seq(Byte) /\ Len(Readable) = readableBytes /\ readableBytes \in Nat
BY PartFacts DEF TypeOK, Readable, readableBytes

LEMMA RetrieveDrops ==
    ASSUME TypeOK, NEW len \in Nat, Retrieve(len)
    PROVE  Abstract!Next
<1>1. last' \in Abstract!Operation /\ last'.op = "drop"
  BY EmptySeq DEF Retrieve, Abstract!Operation
<1>2. \E n \in 0..Len(Readable) : Readable' = SubSeq(Readable, n + 1, Len(Readable))
  <2>1. CASE len < readableBytes
    <3> DEFINE r == readerIndex_
               w == writerIndex_
    <3>1. /\ r + 1 \in 1..Len(buffer_) /\ w \in 1..Len(buffer_)
          /\ len + 1 \in 1 .. w - (r + 1) + 1 /\ w - r \in 1 .. w - (r + 1) + 1
          /\ (r + 1) + (len + 1) - 1 = r + len + 1 /\ (r + 1) + (w - r) - 1 = w
      BY <2>1 DEF TypeOK, readableBytes
    <3>2. SubSeq(Readable, len + 1, w - r) = SubSeq(buffer_, r + len + 1, w)
      BY <3>1, SubSeqOfSubSeq DEF TypeOK, Readable
    <3>3. Readable' = SubSeq(Readable, len + 1, Len(Readable))
      BY <2>1, <3>2, RetrieveLeaves, ReadableFacts DEF Retrieve, readableBytes
    <3> QED
      BY <2>1, <3>3, ReadableFacts
  <2>2. CASE ~(len < readableBytes)
    <3>1. Len(Readable) < Len(Readable) + 1 /\ Len(Readable) \in 0..Len(Readable)
      BY ReadableFacts
    <3>2. SubSeq(Readable, Len(Readable) + 1, Len(Readable)) = <<>>
      BY <3>1, ReadableFacts, SubSeqEmpty
    <3> QED
      BY <2>2, <3>1, <3>2, RetrieveLeaves DEF Retrieve
  <2> QED
    BY <2>1, <2>2
<1> QED
  BY <1>1, <1>2 DEF Abstract!Next, Abstract!Drop

LEMMA HandOutTakes ==
    ASSUME TypeOK, NEW len \in Nat, HandOut(len)
    PROVE  Abstract!Next
<1> DEFINE r == readerIndex_
           w == writerIndex_
           out == SubSeq(buffer_, r + 1, r + len)
<1>1. out \in Seq(Byte) /\ len <= readableBytes
  BY HandedOutIsSeq DEF HandOut
<1>2. last' = [op |-> "take", bytes |-> out]
  BY DEF HandOut
<1> HIDE DEF out
<1>3. last' \in Abstract!Operation /\ last'.op = "take" /\ last'.bytes = out
  BY <1>1, <1>2 DEF Abstract!Operation
<1>4. Readable = out \o Readable'
  <2>1. CASE len < readableBytes
    <3>1. /\ r + 1 \in 1 .. Len(buffer_) + 1
          /\ r + len \in (r + 1) - 1 .. Len(buffer_) /\ w \in r + len .. Len(buffer_)
      BY <2>1 DEF TypeOK, readableBytes
    <3>2. out \o SubSeq(buffer_, (r + len) + 1, w) = SubSeq(buffer_, r + 1, w)
      BY <3>1, ConcatAdjacentSubSeq DEF TypeOK, out
    <3> QED
      BY <2>1, <3>2, RetrieveLeaves DEF HandOut, Readable
  <2>2. CASE ~(len < readableBytes)
    <3>1. r + len = w
      BY <1>1, <2>2 DEF TypeOK, readableBytes
    <3>2. Readable = out
      BY <3>1 DEF out, Readable
    <3>3. Readable' = <<>>
      BY <2>2, RetrieveLeaves DEF HandOut
    <3> QED
      BY <1>1, <3>2, <3>3, ConcatEmptySeq
  <2> QED
    BY <2>1, <2>2
<1> QED
  BY <1>3, <1>4 DEF Abstract!Next, Abstract!Take

LEMMA RefinementStep == Bounded /\ [Next]_vars => [Abstract!Next]_(Abstract!vars)
<1> SUFFICES ASSUME Bounded, [Next]_vars
             PROVE  [Abstract!Next]_(Abstract!vars)
  OBVIOUS
<1>1. ASSUME NEW data \in Chunk, Append_(data) \/ ReadFd(data)
      PROVE  Abstract!Next
  BY <1>1, ChunkIsSeq, PutKeeps DEF Abstract!Next, Abstract!Put, Abstract!Operation
<1>2. ASSUME NEW len \in 0 .. MaxReadable + 1, Retrieve(len) \/ HandOut(len)
      PROVE  Abstract!Next
  <2>1. len \in Nat
    BY BufferAssumption
  <2> QED
    BY <1>2, <2>1, RetrieveDrops, HandOutTakes DEF Bounded
<1>3. CASE UNCHANGED vars
  BY <1>3 DEF vars, Abstract!vars, Readable
<1> QED
  BY <1>1, <1>2, <1>3 DEF Next

\* Through every growth, move to the front and split readv, the bytes between
\* the indices are a FIFO queue (append, retrieve, retrieveAsString, readFd).
THEOREM ImplementsByteQueue == Spec => AbstractSpec
BY BoundedInit, BoundedStep, RefinementInit, RefinementStep, PTL DEF Spec, AbstractSpec, Abstract!Spec
==============================================================================
