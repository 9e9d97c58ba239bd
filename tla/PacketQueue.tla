----------------------------- MODULE PacketQueue -----------------------------
(***************************************************************************)
(* What a host may rely on when it fetches what a central writes           *)
(* (host-protocol/src/lib.rs): a queue of bounded length.  A packet that   *)
(* finds it full is not queued, and marks that some are missing until the  *)
(* host has been answered; a packet leaves the queue at its front, to the  *)
(* host or with an answer the host gave up.                                *)
(***************************************************************************)
EXTENDS Naturals, Sequences

CONSTANT Capacity

VARIABLES
    sent,      \* packets the central has written
    queue,     \* those that are on their way to the host
    received,  \* those the host has
    missing    \* it is still to be told that packets found no place

vars == <<sent, queue, received, missing>>

Init ==
    /\ sent = 0
    /\ queue = <<>>
    /\ received = <<>>
    /\ missing = FALSE

Put ==
    /\ Len(queue) < Capacity
    /\ sent' = sent + 1
    /\ queue' = Append(queue, sent + 1)
    /\ UNCHANGED <<received, missing>>

Overflow ==
    /\ Len(queue) = Capacity
    /\ sent' = sent + 1
    /\ missing' = TRUE
    /\ UNCHANGED <<queue, received>>

Deliver ==
    /\ queue # <<>>
    /\ queue' = Tail(queue)
    /\ received' = Append(received, Head(queue))
    /\ UNCHANGED <<sent, missing>>

GiveUp ==
    /\ queue # <<>>
    /\ queue' = Tail(queue)
    /\ UNCHANGED <<sent, received, missing>>

(* The host is told, or gives up the answer that tells it.                 *)
Answer ==
    /\ missing
    /\ missing' = FALSE
    /\ UNCHANGED <<sent, queue, received>>

Restart ==
    /\ sent' = 0
    /\ queue' = <<>>
    /\ received' = <<>>
    /\ missing' = FALSE

Next == Put \/ Overflow \/ Deliver \/ GiveUp \/ Answer \/ Restart

(* A packet does not wait for ever.                                        *)
Spec == Init /\ [][Next]_vars /\ WF_vars(Deliver \/ GiveUp)
=============================================================================
