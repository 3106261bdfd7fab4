--------------------------- MODULE CPUDeviceQueue ---------------------------
(***************************************************************************)
(* The event queue and worker pool of the CPU device                       *)
(* (src/src/core/cpu/device.cpp): pushEvent, getEvent with its condition   *)
(* variable, the reservation of kernel events that several workers run     *)
(* slice by slice, CPUDevice::init and the destructor that stops and joins *)
(* the workers.                                                            *)
(*                                                                         *)
(* The worker loop and CPUKernelEvent (worker.cpp, kernel.cpp) are not     *)
(* among the sources; RunEvent and the reservation counter follow the      *)
(* spec (section 4.2): a kernel event carries a counter of the slots still *)
(* to hand out, every getEvent on it takes one, and the event leaves the   *)
(* queue with the last one; the launch is complete when every slot has     *)
(* finished running.                                                       *)
(***************************************************************************)
EXTENDS Naturals, Sequences, FiniteSets, SequencesExt

CONSTANTS
    Workers,    \* the worker threads, numCPUs() of them
    Cmds,       \* the events a client submits
    Kernels,    \* the NDRangeKernel / TaskKernel events among them
    Slots,      \* Slots[k]: how many work-group slots kernel k is split into
    NoCmd       \* a worker that holds no event

ASSUME /\ Kernels \subseteq Cmds
       /\ Slots \in [Kernels -> Nat \ {0}]
       /\ NoCmd \notin Cmds

VARIABLES
    initialized,    \* p_initialized
    p_stop,         \* p_stop
    p_events,       \* p_events: the list of queued events
    p_num_events,   \* p_num_events
    remaining,      \* per kernel event: slots not yet reserved
    finished,       \* per kernel event: slots that ran to the end
    pc,             \* per worker: where its thread is
    cur,            \* per worker: the event getEvent returned to it
    hostPc,         \* the thread owning the device: alive, joining, destroyed
    pushed,         \* events handed to pushEvent
    completed,      \* events reported complete to their client
    freed,          \* events whose device data the client has released
    pushOrder,      \* history: events in the order they were pushed
    dispatchOrder   \* history: events in the order of their first dispatch

vars == <<initialized, p_stop, p_events, p_num_events, remaining, finished,
          pc, cur, hostPc, pushed, completed, freed, pushOrder, dispatchOrder>>

WorkerStates == {"none", "get", "wait", "run", "exit"}

IsKernel(e) == e \in Kernels

(* initEventDeviceData: a map event gets its host pointer and an unmap    *)
(* nothing, neither of which the queue looks at; a kernel event whose     *)
(* program's JIT initialises gets a CPUKernelEvent, whose counter starts  *)
(* at the event's slot count.                                              *)
KernelData(c) == IF IsKernel(c) THEN [remaining EXCEPT ![c] = Slots[c]]
                 ELSE remaining

-----------------------------------------------------------------------------
(* pthread_cond_broadcast: every waiting worker wakes and goes back to     *)
(* re-check the loop condition of getEvent under the mutex.                *)
Broadcast(p) == [w \in Workers |-> IF p[w] = "wait" THEN "get" ELSE p[w]]

Init ==
    /\ initialized = FALSE
    /\ p_stop = FALSE
    /\ p_events = <<>>
    /\ p_num_events = 0
    /\ remaining = [k \in Kernels |-> 0]
    /\ finished = [k \in Kernels |-> 0]
    /\ pc = [w \in Workers |-> "none"]
    /\ cur = [w \in Workers |-> NoCmd]
    /\ hostPc = "alive"
    /\ pushed = {}
    /\ completed = {}
    /\ freed = {}
    /\ pushOrder = <<>>
    /\ dispatchOrder = <<>>

(* CPUDevice::init: create one worker thread per core, once.               *)
DeviceInit ==
    /\ hostPc = "alive"
    /\ ~initialized
    /\ initialized' = TRUE
    /\ pc' = [w \in Workers |-> "get"]
    /\ UNCHANGED <<p_stop, p_events, p_num_events, remaining, finished, cur,
                   hostPc, pushed, completed, freed, pushOrder, dispatchOrder>>

(* initEventDeviceData then pushEvent: a kernel event gets its CPU data    *)
(* (the reservation counter); the event is appended under the mutex, the   *)
(* count incremented and the waiting workers woken.                        *)
PushEventNoBroadcast(c) ==
    /\ hostPc = "alive" /\ initialized
    /\ c \notin pushed \cup completed
    /\ remaining' = KernelData(c)
    /\ p_events' = Append(p_events, c)
    /\ p_num_events' = p_num_events + 1
    /\ pushed' = pushed \cup {c}
    /\ pushOrder' = Append(pushOrder, c)
    /\ UNCHANGED <<pc, initialized, p_stop, finished, cur, hostPc, completed,
                   freed, dispatchOrder>>

PushEventFront(c) ==
    /\ hostPc = "alive" /\ initialized
    /\ c \notin pushed \cup completed
    /\ remaining' = KernelData(c)
    /\ p_events' = <<c>> \o p_events
    /\ p_num_events' = p_num_events + 1
    /\ pc' = Broadcast(pc)
    /\ pushed' = pushed \cup {c}
    /\ pushOrder' = Append(pushOrder, c)
    /\ UNCHANGED <<initialized, p_stop, finished, cur, hostPc, completed,
                   freed, dispatchOrder>>

PushEvent(c) ==
    /\ hostPc = "alive" /\ initialized
    /\ c \notin pushed \cup completed
    /\ remaining' = KernelData(c)
    /\ p_events' = Append(p_events, c)
    /\ p_num_events' = p_num_events + 1
    /\ pc' = Broadcast(pc)
    /\ pushed' = pushed \cup {c}
    /\ pushOrder' = Append(pushOrder, c)
    /\ UNCHANGED <<initialized, p_stop, finished, cur, hostPc, completed,
                   freed, dispatchOrder>>

(* initEventDeviceData on a kernel event whose program's JIT fails to    *)
(* initialise returns CL_INVALID_PROGRAM_EXECUTABLE before any            *)
(* CPUKernelEvent exists; the event is not pushed, and its failure is     *)
(* reported through its completion (spec section 7).                     *)
InitJITFails(c) ==
    /\ hostPc = "alive" /\ initialized
    /\ IsKernel(c) /\ c \notin pushed \cup completed
    /\ completed' = completed \cup {c}
    /\ UNCHANGED <<initialized, p_stop, p_events, p_num_events, remaining,
                   finished, pc, cur, hostPc, pushed, freed, pushOrder,
                   dispatchOrder>>

(* getEvent, taking the head: a kernel event is reserved one slot and only *)
(* leaves the list when this was its last slot; any other event leaves at  *)
(* once.                                                                   *)
TakeHeadAlwaysLast(w) ==
    LET e == Head(p_events) IN
    /\ remaining' = IF IsKernel(e) THEN [remaining EXCEPT ![e] = @ - 1]
                                   ELSE remaining
    /\ p_events' = Tail(p_events)
    /\ p_num_events' = p_num_events - 1
    /\ pc' = [pc EXCEPT ![w] = "run"]
    /\ cur' = [cur EXCEPT ![w] = e]
    /\ dispatchOrder' = IF Contains(dispatchOrder, e) THEN dispatchOrder
                        ELSE Append(dispatchOrder, e)

TakeHead(w) ==
    LET e == Head(p_events)
        last_slot == ~IsKernel(e) \/ remaining[e] = 1
    IN
    /\ remaining' = IF IsKernel(e) THEN [remaining EXCEPT ![e] = @ - 1]
                                   ELSE remaining
    /\ p_events' = IF last_slot THEN Tail(p_events) ELSE p_events
    /\ p_num_events' = IF last_slot THEN p_num_events - 1 ELSE p_num_events
    /\ pc' = [pc EXCEPT ![w] = "run"]
    /\ cur' = [cur EXCEPT ![w] = e]
    /\ dispatchOrder' = IF Contains(dispatchOrder, e) THEN dispatchOrder
                        ELSE Append(dispatchOrder, e)

(* getEvent: under the mutex, wait while the queue is empty and no stop    *)
(* was requested; then return the stop signal, or the head of the list.   *)
GetEventDrainFirst(w) ==
    /\ pc[w] = "get"
    /\ \/ /\ p_num_events = 0 /\ ~p_stop
          /\ pc' = [pc EXCEPT ![w] = "wait"]
          /\ UNCHANGED <<p_events, p_num_events, remaining, cur, dispatchOrder>>
       \/ /\ p_num_events = 0 /\ p_stop
          /\ pc' = [pc EXCEPT ![w] = "exit"]
          /\ UNCHANGED <<p_events, p_num_events, remaining, cur, dispatchOrder>>
       \/ /\ p_num_events # 0
          /\ TakeHead(w)
    /\ UNCHANGED <<initialized, p_stop, finished, hostPc, pushed, completed,
                   freed, pushOrder>>

GetEvent(w) ==
    /\ pc[w] = "get"
    /\ \/ /\ p_num_events = 0 /\ ~p_stop
          /\ pc' = [pc EXCEPT ![w] = "wait"]
          /\ UNCHANGED <<p_events, p_num_events, remaining, cur, dispatchOrder>>
       \/ /\ p_stop
          /\ pc' = [pc EXCEPT ![w] = "exit"]
          /\ UNCHANGED <<p_events, p_num_events, remaining, cur, dispatchOrder>>
       \/ /\ p_num_events # 0 /\ ~p_stop
          /\ TakeHead(w)
    /\ UNCHANGED <<initialized, p_stop, finished, hostPc, pushed, completed,
                   freed, pushOrder>>

(* pthread_cond_wait may return without a broadcast; the loop re-checks.  *)
SpuriousWakeup(w) ==
    /\ pc[w] = "wait"
    /\ pc' = [pc EXCEPT ![w] = "get"]
    /\ UNCHANGED <<initialized, p_stop, p_events, p_num_events, remaining,
                   finished, cur, hostPc, pushed, completed, freed, pushOrder,
                   dispatchOrder>>

(* The worker runs what getEvent gave it: one slot of a kernel, or the    *)
(* whole of any other event; a kernel is complete once all its slots have *)
(* finished. Then it loops back into getEvent.                            *)
RunEventOnReservation(w) ==
    LET e == cur[w] IN
    /\ pc[w] = "run"
    /\ finished' = IF IsKernel(e) THEN [finished EXCEPT ![e] = @ + 1]
                                  ELSE finished
    /\ completed' = IF ~IsKernel(e) \/ remaining[e] = 0
                    THEN completed \cup {e} ELSE completed
    /\ pc' = [pc EXCEPT ![w] = "get"]
    /\ cur' = [cur EXCEPT ![w] = NoCmd]
    /\ UNCHANGED <<initialized, p_stop, p_events, p_num_events, remaining,
                   hostPc, pushed, freed, pushOrder, dispatchOrder>>

RunEvent(w) ==
    LET e == cur[w] IN
    /\ pc[w] = "run"
    /\ finished' = IF IsKernel(e) THEN [finished EXCEPT ![e] = @ + 1]
                                  ELSE finished
    /\ completed' = IF ~IsKernel(e) \/ finished[e] + 1 = Slots[e]
                    THEN completed \cup {e} ELSE completed
    /\ pc' = [pc EXCEPT ![w] = "get"]
    /\ cur' = [cur EXCEPT ![w] = NoCmd]
    /\ UNCHANGED <<initialized, p_stop, p_events, p_num_events, remaining,
                   hostPc, pushed, freed, pushOrder, dispatchOrder>>

FreeEventDeviceDataUnguarded(c) ==
    /\ c \in pushed \ freed
    /\ freed' = freed \cup {c}
    /\ UNCHANGED <<initialized, p_stop, p_events, p_num_events, remaining,
                   finished, pc, cur, hostPc, pushed, completed, pushOrder,
                   dispatchOrder>>

(* The client releases a completed event: freeEventDeviceData deletes the *)
(* CPUKernelEvent of a kernel event.                                       *)
FreeEventDeviceData(c) ==
    /\ c \in completed \ freed
    /\ freed' = freed \cup {c}
    /\ UNCHANGED <<initialized, p_stop, p_events, p_num_events, remaining,
                   finished, pc, cur, hostPc, pushed, completed, pushOrder,
                   dispatchOrder>>

(* ~CPUDevice: nothing to do if never initialized; otherwise set p_stop   *)
(* and broadcast under the mutex, then join every worker.                  *)
DestroyNoBroadcast ==
    /\ hostPc = "alive"
    /\ IF initialized
       THEN /\ p_stop' = TRUE
            /\ hostPc' = "joining"
       ELSE /\ hostPc' = "destroyed"
            /\ UNCHANGED p_stop
    /\ UNCHANGED <<pc, initialized, p_events, p_num_events, remaining, finished,
                   cur, pushed, completed, freed, pushOrder, dispatchOrder>>

Destroy ==
    /\ hostPc = "alive"
    /\ IF initialized
       THEN /\ p_stop' = TRUE
            /\ pc' = Broadcast(pc)
            /\ hostPc' = "joining"
       ELSE /\ hostPc' = "destroyed"
            /\ UNCHANGED <<p_stop, pc>>
    /\ UNCHANGED <<initialized, p_events, p_num_events, remaining, finished,
                   cur, pushed, completed, freed, pushOrder, dispatchOrder>>

Join ==
    /\ hostPc = "joining"
    /\ \A w \in Workers : pc[w] = "exit"
    /\ hostPc' = "destroyed"
    /\ UNCHANGED <<initialized, p_stop, p_events, p_num_events, remaining,
                   finished, pc, cur, pushed, completed, freed, pushOrder,
                   dispatchOrder>>

(* The device is gone: the behaviour ends here.                            *)
Terminated ==
    /\ hostPc = "destroyed"
    /\ UNCHANGED vars

Next ==
    \/ DeviceInit
    \/ \E c \in Cmds : PushEvent(c) \/ InitJITFails(c) \/ FreeEventDeviceData(c)
    \/ \E w \in Workers : GetEvent(w) \/ SpuriousWakeup(w) \/ RunEvent(w)
    \/ Destroy
    \/ Join
    \/ Terminated

(* Workers are OS threads: one that can step eventually does. The host    *)
(* blocked in pthread_join resumes once all have exited. Clients, init,   *)
(* destruction and spurious wake-ups are not guaranteed to happen.        *)
Fairness ==
    /\ \A w \in Workers : WF_vars(GetEvent(w)) /\ WF_vars(RunEvent(w))
    /\ WF_vars(Join)

Spec == Init /\ [][Next]_vars /\ Fairness

-----------------------------------------------------------------------------
TypeOK ==
    /\ initialized \in BOOLEAN /\ p_stop \in BOOLEAN
    /\ p_events \in Seq(Cmds)
    /\ p_num_events \in Nat
    /\ remaining \in [Kernels -> Nat]
    /\ finished \in [Kernels -> Nat]
    /\ pc \in [Workers -> WorkerStates]
    /\ cur \in [Workers -> Cmds \cup {NoCmd}]
    /\ hostPc \in {"alive", "joining", "destroyed"}
    /\ pushed \subseteq Cmds /\ completed \subseteq Cmds
    /\ freed \subseteq completed

RunningOn(k) == {w \in Workers : pc[w] = "run" /\ cur[w] = k}

(* Reservation: every slot of a pushed kernel is exactly one of not yet   *)
(* reserved, running on one worker, or finished; the kernel stays in the  *)
(* list exactly while slots remain, and the count is the list's length.   *)
SlotAccounting ==
    /\ p_num_events = Len(p_events)
    /\ \A k \in Kernels \cap pushed :
          /\ remaining[k] + Cardinality(RunningOn(k)) + finished[k] = Slots[k]
          /\ Contains(p_events, k) <=> remaining[k] > 0

(* No worker runs, and no queue entry refers to, an event whose device    *)
(* data its client has already freed after seeing it complete.            *)
NoUseAfterFree ==
    /\ \A w \in Workers : pc[w] = "run" => cur[w] \notin freed
    /\ \A i \in 1..Len(p_events) : p_events[i] \notin freed

(* Events are admitted into execution in the order they were pushed.      *)
FifoAdmission == IsPrefix(dispatchOrder, pushOrder)

(* Every pushed event is eventually reported complete unless the device  *)
(* is being destroyed: no wake-up is lost.                                 *)
EveryEventCompletes ==
    \A c \in Cmds : (c \in pushed) ~> (c \in completed \/ p_stop)

(* The destructor's join returns: every worker observes the stop.         *)
DestroyJoins == (hostPc = "joining") ~> (hostPc = "destroyed")

-----------------------------------------------------------------------------
(* The queue as its clients see it: the list, each event's slots still to *)
(* hand out (a queued non-kernel event has its one), the events pushed and *)
(* p_stop.                                                                  *)
EQ == INSTANCE EventQueue WITH
        queue <- p_events,
        left <- [c \in Cmds |-> IF IsKernel(c) THEN remaining[c]
                                ELSE IF Contains(p_events, c) THEN 1 ELSE 0],
        admitted <- pushed,
        stopped <- p_stop

(* pushEvent, getEvent and the destructor implement the event queue of   *)
(* the spec: events admitted in push order, a kernel handed out once per *)
(* slot from the head and removed with its last slot, and nothing taken   *)
(* or pushed once p_stop is set.                                           *)
QueueRefinement == EQ!Spec
=============================================================================
