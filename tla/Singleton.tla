------------------------------ MODULE Singleton ------------------------------
(***************************************************************************)
(* The lazily created transport singletons: Driver::instance              *)
(* (src/src/core/dsp/driver_shannon.cpp) and Mailbox::instance            *)
(* (src/src/core/dsp/mailbox.h), the same double-checked locking: read    *)
(* pInstance, full barrier, and only when it is null take the function's *)
(* static mutex, read it again and, still null, construct the object,     *)
(* full barrier, publish it.                                              *)
(*                                                                         *)
(* Each thread calling instance() is a process with one action per step. *)
(* The barriers order the construction before the publication and the    *)
(* first read before any use, so the steps are sequentially consistent;  *)
(* `constructed` records which objects the constructor has finished.     *)
(***************************************************************************)
EXTENDS Naturals, FiniteSets

CONSTANTS Threads   \* the threads that call instance()

VARIABLES
    pInstance,     \* the static pInstance: 0 or the object's number
    created,       \* how many objects `new` has made
    constructed,   \* the objects whose constructor has returned
    holder,        \* the thread holding the static mutex, or 0
    pc,            \* per thread: the step of instance() it is at
    tmp            \* per thread: its local tmp

vars == <<pInstance, created, constructed, holder, pc, tmp>>

Init ==
    /\ pInstance = 0
    /\ created = 0
    /\ constructed = {}
    /\ holder = 0
    /\ pc = [t \in Threads |-> "read"]
    /\ tmp = [t \in Threads |-> 0]

-----------------------------------------------------------------------------
(* Driver* tmp = pInstance; __sync_synchronize(); if (tmp == 0) ...        *)
ReadInstance(t) ==
    /\ pc[t] = "read"
    /\ tmp' = [tmp EXCEPT ![t] = pInstance]
    /\ pc' = [pc EXCEPT ![t] = IF pInstance = 0 THEN "lock" ELSE "done"]
    /\ UNCHANGED <<pInstance, created, constructed, holder>>

(* ScopedLock lck(Driver_instance_mutex)                                   *)
Lock(t) ==
    /\ pc[t] = "lock"
    /\ holder = 0
    /\ holder' = t
    /\ pc' = [pc EXCEPT ![t] = "reread"]
    /\ UNCHANGED <<pInstance, created, constructed, tmp>>

(* A mutant: the second check under the lock left out.                   *)
RereadSkipped(t) ==
    /\ pc[t] = "reread"
    /\ pc' = [pc EXCEPT ![t] = "new"]
    /\ UNCHANGED <<pInstance, created, constructed, holder, tmp>>

(* tmp = pInstance; if (tmp == 0) ...: the second check, under the lock.  *)
Reread(t) ==
    /\ pc[t] = "reread"
    /\ tmp' = [tmp EXCEPT ![t] = pInstance]
    /\ pc' = [pc EXCEPT ![t] = IF pInstance = 0 THEN "new" ELSE "unlock"]
    /\ UNCHANGED <<pInstance, created, constructed, holder>>

(* tmp = new Driver; __sync_synchronize(): the object is built before     *)
(* anything else of this thread is seen.                                  *)
New(t) ==
    /\ pc[t] = "new"
    /\ created' = created + 1
    /\ constructed' = constructed \cup {created + 1}
    /\ tmp' = [tmp EXCEPT ![t] = created + 1]
    /\ pc' = [pc EXCEPT ![t] = "publish"]
    /\ UNCHANGED <<pInstance, holder>>

(* pInstance = tmp                                                         *)
Publish(t) ==
    /\ pc[t] = "publish"
    /\ pInstance' = tmp[t]
    /\ pc' = [pc EXCEPT ![t] = "unlock"]
    /\ UNCHANGED <<created, constructed, holder, tmp>>

(* The ScopedLock is released at the end of the block.                    *)
Unlock(t) ==
    /\ pc[t] = "unlock"
    /\ holder' = 0
    /\ pc' = [pc EXCEPT ![t] = "done"]
    /\ UNCHANGED <<pInstance, created, constructed, tmp>>

(* Every caller has returned.                                              *)
Terminated ==
    /\ \A t \in Threads : pc[t] = "done"
    /\ UNCHANGED vars

Step(t) == ReadInstance(t) \/ Lock(t) \/ Reread(t) \/ New(t) \/ Publish(t)
           \/ Unlock(t)

Next == (\E t \in Threads : Step(t)) \/ Terminated

Spec == Init /\ [][Next]_vars

-----------------------------------------------------------------------------
(* instance() makes one object however the callers interleave, and every *)
(* caller gets that object, fully constructed.                            *)
OneInstance ==
    /\ created <= 1
    /\ \A t \in Threads : pc[t] = "done" => tmp[t] = pInstance /\ tmp[t] \in constructed
=============================================================================
