------------------------------ MODULE EventQueue ------------------------------
(***************************************************************************)
(* What a device's event queue promises (spec sections 4 and 5), without  *)
(* threads, mutex or condition variable: commands are admitted in          *)
(* submission order; a command with R reservation slots is handed out R    *)
(* times from the head and leaves the queue with its last slot; after      *)
(* shutdown nothing more is handed out or admitted, and what is queued is  *)
(* abandoned.                                                              *)
(***************************************************************************)
EXTENDS Naturals, Sequences

CONSTANTS
    Cmds,       \* the commands a client may submit
    Kernels,    \* the multi-slot (kernel launch) commands among them
    Slots       \* Slots[k]: the reservation count of kernel k

VARIABLES
    queue,      \* the commands waiting, oldest first
    left,       \* left[c]: slots of c not yet handed out
    admitted,   \* the commands submitted so far
    stopped     \* shutdown has been requested

avars == <<queue, left, admitted, stopped>>

(* The reservation count of a command: one for every non-kernel command.  *)
SlotsOf(c) == IF c \in Kernels THEN Slots[c] ELSE 1

Init ==
    /\ queue = <<>>
    /\ left = [c \in Cmds |-> 0]
    /\ admitted = {}
    /\ stopped = FALSE

Push(c) ==
    /\ ~stopped /\ c \notin admitted
    /\ queue' = Append(queue, c)
    /\ left' = [left EXCEPT ![c] = SlotsOf(c)]
    /\ admitted' = admitted \cup {c}
    /\ UNCHANGED stopped

(* Hand out one slot of the head; the head leaves with its last slot.     *)
Take ==
    /\ ~stopped /\ queue # <<>>
    /\ LET e == Head(queue) IN
       /\ left' = [left EXCEPT ![e] = @ - 1]
       /\ queue' = IF left[e] = 1 THEN Tail(queue) ELSE queue
    /\ UNCHANGED <<admitted, stopped>>

Shutdown ==
    /\ ~stopped
    /\ stopped' = TRUE
    /\ UNCHANGED <<queue, left, admitted>>

Next == (\E c \in Cmds : Push(c)) \/ Take \/ Shutdown

Spec == Init /\ [][Next]_avars
=============================================================================
