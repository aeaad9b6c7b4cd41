-------------------------------- MODULE Fifo --------------------------------
(***************************************************************************)
(* What the ring buffers of the kernel promise: bounded first-in first-out *)
(* queues whose elements are handed, each once, to the takers.             *)
(***************************************************************************)
EXTENDS Integers, Sequences

CONSTANTS Queue, Element, Taker, Capacity, NONE

VARIABLES
    queue,    \* the elements stored in each queue, oldest first
    held      \* what each taker has in hand, NONE if nothing

fifoVars == <<queue, held>>

FifoInit ==
    /\ queue = [q \in Queue |-> <<>>]
    /\ held = [w \in Taker |-> NONE]

Put(q, x) ==
    /\ Len(queue[q]) < Capacity
    /\ queue' = [queue EXCEPT ![q] = Append(@, x)]
    /\ UNCHANGED held

Take(q, w) ==
    /\ queue[q] # <<>>
    /\ held[w] = NONE
    /\ held' = [held EXCEPT ![w] = Head(queue[q])]
    /\ queue' = [queue EXCEPT ![q] = Tail(@)]

Finish(w) ==
    /\ held[w] # NONE
    /\ held' = [held EXCEPT ![w] = NONE]
    /\ UNCHANGED queue

FifoNext ==
    \/ \E q \in Queue, x \in Element : Put(q, x)
    \/ \E q \in Queue, w \in Taker : Take(q, w)
    \/ \E w \in Taker : Finish(w)

FifoSpec == FifoInit /\ [][FifoNext]_fifoVars

=============================================================================
