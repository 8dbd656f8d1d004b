------------------------------- MODULE PcmFifo -------------------------------
(***************************************************************************)
(* What the PCM ring between the WASAPI capture callback and the encode    *)
(* thread promises: a bounded first-in first-out buffer of PCM bytes.      *)
(* Bytes are numbered 1, 2, 3, ... in the order they were captured.  A     *)
(* reconnect may discard a prefix of what is buffered, and nothing else is *)
(* ever lost, repeated or reordered once it was accepted.                  *)
(***************************************************************************)
EXTENDS Naturals, Sequences

CONSTANTS
    Capacity    \* bytes the buffer holds

VARIABLES
    accepted,   \* number of bytes accepted from the capture callback so far
    buffered,   \* the bytes not yet delivered, oldest first
    delivered   \* the block most recently handed to the encoder

vars == <<accepted, buffered, delivered>>

\* The n bytes that follow byte k.
Block(k, n) == [i \in 1 .. n |-> k + i]

Init ==
    /\ accepted = 0
    /\ buffered = <<>>
    /\ delivered = <<>>

Put ==
    \E n \in 1 .. Capacity - Len(buffered) :
        /\ buffered' = buffered \o Block(accepted, n)
        /\ accepted' = accepted + n
        /\ UNCHANGED delivered

Take ==
    \E n \in 1 .. Len(buffered) :
        /\ delivered' = SubSeq(buffered, 1, n)
        /\ buffered' = SubSeq(buffered, n + 1, Len(buffered))
        /\ UNCHANGED accepted

Discard ==
    \E n \in 1 .. Len(buffered) :
        /\ buffered' = SubSeq(buffered, n + 1, Len(buffered))
        /\ UNCHANGED <<accepted, delivered>>

Next == Put \/ Take \/ Discard

Spec == Init /\ [][Next]_vars

=============================================================================
