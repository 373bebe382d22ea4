----------------------------- MODULE ByteStream ------------------------------
(***************************************************************************)
(* What each direction of the console promises: bytes come out in the      *)
(* order in which they went in, each once.  The bytes are numbered, so an  *)
(* observer at the far end sees a gap, a repetition or a swap.             *)
(***************************************************************************)
EXTENDS Naturals, Sequences

CONSTANTS
    Capacity,   \* the most bytes under way
    Numbers     \* the bytes are numbered 0 .. Numbers - 1, over and over

VARIABLES
    offered,    \* the number of the next byte to go in
    queue,      \* the bytes under way
    taken       \* the number of the next byte to come out

Byte == 0 .. Numbers - 1

\* The n bytes from number b on.
From(b, n) == [i \in 1 .. n |-> (b + i - 1) % Numbers]

Init ==
    /\ offered = 0
    /\ queue = <<>>
    /\ taken = 0

Put(n) ==
    /\ Len(queue) + n <= Capacity
    /\ queue' = queue \o From(offered, n)
    /\ offered' = (offered + n) % Numbers
    /\ UNCHANGED taken

Get(n) ==
    /\ n <= Len(queue)
    /\ SubSeq(queue, 1, n) = From(taken, n)
    /\ queue' = SubSeq(queue, n + 1, Len(queue))
    /\ taken' = (taken + n) % Numbers
    /\ UNCHANGED offered

Next == \E n \in 1 .. Capacity : Put(n) \/ Get(n)

Spec == Init /\ [][Next]_<<offered, queue, taken>>
=============================================================================
