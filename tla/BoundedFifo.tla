----------------------------- MODULE BoundedFifo -----------------------------
(***************************************************************************)
(* What the stream buffer of the driver promises its users: a bounded FIFO *)
(* queue of message frame addresses whose most recently read element can   *)
(* be put back at the front.  An element that can still be put back        *)
(* occupies a place of the queue.                                          *)
(***************************************************************************)
EXTENDS Naturals, Sequences

CONSTANTS Capacity,   \* elements that are queued or can be put back
          Data        \* the values that are queued

VARIABLES q,          \* the queued values, the oldest first
          held        \* <<>>, or <<d>>: d was read last and can be put back

vars == <<q, held>>

Init == q = <<>> /\ held = <<>>

Put == /\ Len(held) + Len(q) < Capacity
       /\ \E d \in Data : q' = Append(q, d)
       /\ UNCHANGED held

Get == /\ Len(q) > 0
       /\ held' = <<Head(q)>>
       /\ q' = Tail(q)

PutBack == /\ Len(held) > 0
           /\ q' = <<held[1]>> \o q
           /\ held' = <<>>

Next == Put \/ Get \/ PutBack

Spec == Init /\ [][Next]_vars
=============================================================================
