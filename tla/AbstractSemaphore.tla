-------------------------- MODULE AbstractSemaphore --------------------------
(***************************************************************************)
(* What kernel/semaphore.c promises its callers: a counter, and a queue of *)
(* blocked threads that semaphore_V releases one at a time, in the order   *)
(* in which they came.  No token is lost and none is made up.              *)
(***************************************************************************)
EXTENDS Integers, Sequences

CONSTANTS Threads, Semaphores

VARIABLES
    tokens,     \* how many semaphore_P can pass without blocking
    queue       \* the threads blocked in semaphore_P, oldest first

vars == <<tokens, queue>>

Blocked(t) == \E s \in Semaphores : \E i \in DOMAIN queue[s] : queue[s][i] = t

Init == /\ tokens \in [Semaphores -> Nat]
        /\ queue = [s \in Semaphores |-> <<>>]

\* semaphore_P that finds a token.
Pass(s) ==
    /\ tokens[s] > 0
    /\ tokens' = [tokens EXCEPT ![s] = @ - 1]
    /\ UNCHANGED queue

\* semaphore_P that blocks its caller.
Block(t, s) ==
    /\ tokens[s] = 0
    /\ UNCHANGED tokens
    /\ queue' = [queue EXCEPT ![s] = Append(@, t)]
    /\ ~Blocked(t)

\* semaphore_V with nobody blocked.
Leave(s) ==
    /\ tokens' = [tokens EXCEPT ![s] = @ + 1]
    /\ queue[s] = <<>>
    /\ UNCHANGED queue

\* semaphore_V that hands its token to the thread that waited longest.
Release(s) ==
    /\ UNCHANGED tokens
    /\ queue[s] # <<>>
    /\ queue' = [queue EXCEPT ![s] = Tail(@)]

Next == \E s \in Semaphores :
            \/ Pass(s) \/ Leave(s) \/ Release(s)
            \/ \E t \in Threads : Block(t, s)

Spec == Init /\ [][Next]_vars
=============================================================================
