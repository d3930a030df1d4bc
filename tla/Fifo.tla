--------------------------------- MODULE Fifo --------------------------------
(***************************************************************************)
(* What a channel promises its users, whatever the threads, handles, locks *)
(* and wake-ups behind it: a queue of distinct items that grows only while *)
(* both ends are there and there is room, that is emptied from its head,   *)
(* and whose ends never come back once they are gone.                      *)
(***************************************************************************)
EXTENDS Integers, Sequences

CONSTANTS
    Items,
    Limit,      \* how many items fit, or NoLimit
    NoLimit

VARIABLES
    queue,
    accepted, taken,    \* the items put and taken so far, in order
    sending, receiving  \* whether there is a sender, a receiver

fifoVars == <<queue, accepted, taken, sending, receiving>>

Room == Limit # NoLimit => Len(queue) < Limit

FifoInit ==
    /\ queue = <<>> /\ accepted = <<>> /\ taken = <<>>
    /\ sending = TRUE /\ receiving = TRUE

Put(x) ==
    /\ sending /\ receiving /\ Room
    /\ \A i \in 1 .. Len(accepted) : accepted[i] # x
    /\ queue' = Append(queue, x) /\ accepted' = Append(accepted, x)
    /\ UNCHANGED <<taken, sending, receiving>>

\* A receiver is served after the senders have gone, too.
Take ==
    /\ receiving /\ queue # <<>>
    /\ queue' = Tail(queue) /\ taken' = Append(taken, Head(queue))
    /\ UNCHANGED <<accepted, sending, receiving>>

SendersLeave ==
    /\ sending' = FALSE /\ UNCHANGED <<queue, accepted, taken, receiving>>

ReceiversLeave ==
    /\ receiving' = FALSE /\ UNCHANGED <<queue, accepted, taken, sending>>

FifoNext == (\E x \in Items : Put(x)) \/ Take \/ SendersLeave \/ ReceiversLeave

FifoSpec == FifoInit /\ [][FifoNext]_fifoVars
=============================================================================
