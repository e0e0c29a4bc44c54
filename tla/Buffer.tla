------------------------------- MODULE Buffer -------------------------------
(***************************************************************************)
(* The byte buffer under a connection (src/Buffer.h, src/Buffer.cc): one   *)
(* vector and two indices into it.                                         *)
(*                                                                         *)
(*    0      <=   readerIndex_  <=  writerIndex_   <=   buffer_.size()     *)
(*    | prependable |     readable      |     writable      |              *)
(*                                                                         *)
(* Indices count from 0 as in the code, so the byte at index i is          *)
(* buffer_[i + 1] here.                                                    *)
(***************************************************************************)
EXTENDS Naturals, Sequences

CONSTANTS Byte,
          Zero,             \* the byte a vector is filled with when it grows
          kCheapPrepend, kInitialSize,
          ExtraBuf,         \* the size of readFd's array on the stack, 65536
          MaxReadable       \* bound: the bytes a buffer is asked to hold

ASSUME BufferAssumption == /\ Zero \in Byte
                           /\ kCheapPrepend \in Nat /\ kInitialSize \in Nat
                           /\ ExtraBuf \in Nat /\ MaxReadable \in Nat

VARIABLES buffer_, readerIndex_, writerIndex_,
          last              \* history: the last operation, with the bytes it moved

vars == <<buffer_, readerIndex_, writerIndex_, last>>

readableBytes == writerIndex_ - readerIndex_
writeableBytes == Len(buffer_) - writerIndex_

\* The readable bytes: what peek() points at.
Readable == SubSeq(buffer_, readerIndex_ + 1, writerIndex_)

\* std::vector::resize, and std::copy of bytes to index at of the vector b.
Resized(b, n) == [i \in 1..n |-> IF i <= Len(b) THEN b[i] ELSE Zero]
Copied(b, at, bytes) ==
    [i \in 1..Len(b) |-> IF i \in at + 1 .. at + Len(bytes) THEN bytes[i - at] ELSE b[i]]

Chunk == UNION {[1..n -> Byte] : n \in 0..MaxReadable}

Init == /\ buffer_ = [i \in 1 .. kCheapPrepend + kInitialSize |-> Zero]
        /\ readerIndex_ = kCheapPrepend
        /\ writerIndex_ = kCheapPrepend
        /\ last = [op |-> "drop", bytes |-> <<>>]

------------------------------------------------------------------------------
\* append to a vector b with indices r and w.  When there is no room at the end,
\* ensureWriteableBytes calls makeSpace, which grows the vector or, when the room
\* in front of the readable bytes beyond the reserve is enough, moves them there.
Place(b, r, w, data) == /\ buffer_' = Copied(b, w, data)
                        /\ readerIndex_' = r
                        /\ writerIndex_' = w + Len(data)

\* Mutant: the room in front is never reused.
AppendGrowing(b, r, w, data) ==
    IF Len(data) <= Len(b) - w THEN Place(b, r, w, data)
    ELSE Place(Resized(b, w + Len(data)), r, w, data)

AppendTo(b, r, w, data) ==
    LET writeable == Len(b) - w
        spare     == r - kCheapPrepend
    IN  \/ /\ Len(data) <= writeable
           /\ Place(b, r, w, data)
        \/ /\ Len(data) > writeable
           /\ writeable + spare < Len(data)
           /\ Place(Resized(b, w + Len(data)), r, w, data)
        \/ /\ Len(data) > writeable
           /\ writeable + spare >= Len(data)
           /\ Place(Copied(b, kCheapPrepend, SubSeq(b, r + 1, w)),
                    kCheapPrepend, kCheapPrepend + (w - r), data)

Append_(data) == /\ readableBytes + Len(data) <= MaxReadable
                 /\ AppendTo(buffer_, readerIndex_, writerIndex_, data)
                 /\ last' = [op |-> "put", bytes |-> data]

\* What one readv can bring: the array on the stack is offered too unless the
\* writable room alone is at least as large.
ReadLimit == IF writeableBytes < ExtraBuf THEN writeableBytes + ExtraBuf ELSE writeableBytes

\* Mutant: what readv put in the array on the stack is forgotten.
ReadFdForgetting(data) ==
    /\ readableBytes + Len(data) <= MaxReadable
    /\ Len(data) <= ReadLimit
    /\ Place(buffer_, readerIndex_, writerIndex_,
             IF Len(data) <= writeableBytes THEN data ELSE SubSeq(data, 1, writeableBytes))
    /\ last' = [op |-> "put", bytes |-> data]

\* readFd: readv fills the writable room first and the array on the stack with
\* the rest, which is then appended to a vector that is full.
ReadFd(data) ==
    /\ readableBytes + Len(data) <= MaxReadable
    /\ Len(data) <= ReadLimit
    /\ IF Len(data) <= writeableBytes
       THEN Place(buffer_, readerIndex_, writerIndex_, data)
       ELSE AppendTo(Copied(buffer_, writerIndex_, SubSeq(data, 1, writeableBytes)),
                     readerIndex_, Len(buffer_),
                     SubSeq(data, writeableBytes + 1, Len(data)))
    /\ last' = [op |-> "put", bytes |-> data]

\* Mutant: the length is not compared with the readable bytes.
RetrieveUnchecked(len) == /\ readerIndex_' = readerIndex_ + len
                          /\ UNCHANGED <<buffer_, writerIndex_>>

\* retrieve: more bytes than there are means all of them.
RetrieveBytes(len) ==
    /\ IF len < readableBytes
       THEN /\ readerIndex_' = readerIndex_ + len
            /\ UNCHANGED writerIndex_
       ELSE /\ readerIndex_' = kCheapPrepend
            /\ writerIndex_' = kCheapPrepend
    /\ UNCHANGED buffer_

Retrieve(len) == /\ RetrieveBytes(len)
                 /\ last' = [op |-> "drop", bytes |-> <<>>]

\* retrieveAsString, which retrieveAllAsString calls with the whole length, and
\* writeFd followed by the retrieve of what was written (handleWrite): the first
\* len readable bytes are handed out.  More than there are (a caller's error that retrieveAsString
\* does not check) reads past the data and is not modelled.
HandOut(len) == /\ len <= readableBytes
                /\ last' = [op |-> "take",
                             bytes |-> SubSeq(buffer_, readerIndex_ + 1, readerIndex_ + len)]
                /\ RetrieveBytes(len)

Next == \/ \E data \in Chunk : Append_(data) \/ ReadFd(data)
        \/ \E len \in 0 .. MaxReadable + 1 : Retrieve(len) \/ HandOut(len)

Spec == Init /\ [][Next]_vars

------------------------------------------------------------------------------
\* The abstract byte queue, seen through the indices.
Abstract == INSTANCE ByteQueue WITH content <- Readable

\* Types and layout: the indices are ordered, the reserve at the front is kept.
TypeOK == /\ buffer_ \in Seq(Byte)
          /\ readerIndex_ \in Nat /\ writerIndex_ \in Nat
          /\ kCheapPrepend <= readerIndex_
          /\ readerIndex_ <= writerIndex_
          /\ writerIndex_ <= Len(buffer_)
          /\ readableBytes <= MaxReadable
          /\ last \in Abstract!Operation

\* The vector never grows past twice the bytes it is asked to hold, however
\* long the buffer is used: makeSpace reuses the room in front of readerIndex_.
CapacityBounded ==
    Len(buffer_) <= kCheapPrepend +
                    (IF kInitialSize > 2 * MaxReadable THEN kInitialSize ELSE 2 * MaxReadable)

\* The readable bytes are a FIFO queue of bytes, through every growth of the
\* vector, move to the front and split read of readFd.
AbstractSpec == Abstract!Spec
==============================================================================
