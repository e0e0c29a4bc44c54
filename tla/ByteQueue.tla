------------------------------ MODULE ByteQueue ------------------------------
(***************************************************************************)
(* What a Buffer promises to its two ends: bytes come out in the order in  *)
(* which they went in, none lost, none twice, none invented.               *)
(***************************************************************************)
EXTENDS Naturals, Sequences

CONSTANT Byte

VARIABLES content,          \* the bytes put in and not yet taken out
          last              \* the last operation, with the bytes it moved

vars == <<content, last>>

Operation == [op : {"put", "take", "drop"}, bytes : Seq(Byte)]

Init == content = <<>> /\ last = [op |-> "drop", bytes |-> <<>>]

Put == /\ last'.op = "put"
       /\ content' = content \o last'.bytes

\* Bytes leave from the front; drop discards them, take hands them out.
Take == /\ last'.op = "take"
        /\ content = last'.bytes \o content'

Drop == /\ last'.op = "drop"
        /\ \E n \in 0..Len(content) : content' = SubSeq(content, n + 1, Len(content))

Next == last' \in Operation /\ (Put \/ Take \/ Drop)

Spec == Init /\ [][Next]_vars
==============================================================================
