---------------------------- MODULE BatchStream ----------------------------
(***************************************************************************)
(* What HyperliquidTradesCollector promises its one consumer               *)
(* (run and receive_batch of hyperliquid_ws_client.py): a bounded FIFO of  *)
(* batches that ends once, and tells so only after the last batch.         *)
(***************************************************************************)
EXTENDS Naturals, Sequences, SequencesExt

CONSTANT Capacity     \* queue_capacity

VARIABLES
    waiting,    \* the batches in the stream, oldest first
    taken,      \* how many batches the consumer took
    ended,      \* the producer is done
    told        \* the consumer was told so

vars == <<waiting, taken, ended, told>>

Init ==
    /\ waiting = <<>>
    /\ taken = 0
    /\ ended = FALSE
    /\ told = FALSE

(* One batch enters at the end, and only while there is room. *)
Send ==
    /\ ~ended
    /\ Len(waiting) < Capacity
    /\ Len(waiting') = Len(waiting) + 1
    /\ Front(waiting') = waiting
    /\ UNCHANGED <<taken, ended, told>>

Take ==
    /\ waiting # <<>>
    /\ waiting' = Tail(waiting)
    /\ taken' = taken + 1
    /\ UNCHANGED <<ended, told>>

End ==
    /\ ~ended
    /\ ended' = TRUE
    /\ UNCHANGED <<waiting, taken, told>>

Tell ==
    /\ ended
    /\ waiting = <<>>
    /\ told' = TRUE
    /\ UNCHANGED <<waiting, taken, ended>>

Next == Send \/ Take \/ End \/ Tell

SafeSpec == Init /\ [][Next]_vars
=============================================================================
