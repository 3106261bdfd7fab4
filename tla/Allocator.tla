------------------------------ MODULE Allocator ------------------------------
(***************************************************************************)
(* What the remote heap allocator promises (spec section 4.1), without    *)
(* free lists: a request is rounded up to the granularity and served with *)
(* a run of that many addresses that no allocated block uses, wherever it *)
(* lies; it fails (or aborts, when failure is not allowed) only when no   *)
(* such run exists; releasing an allocated block makes its addresses      *)
(* usable again, and releasing anything else changes nothing.             *)
(***************************************************************************)
EXTENDS Naturals

CONSTANTS
    Addrs,      \* the managed address range
    Granule,    \* the allocation granularity
    Requests    \* sizes callers ask for

VARIABLES
    blocks,     \* start address -> size of each allocated block
    aborted     \* the process was aborted by a failed request

avars == <<blocks, aborted>>

RoundUp(size) == ((size + Granule - 1) \div Granule) * Granule

Span(a, n) == a..(a + n - 1)

InUse == UNION {Span(a, blocks[a]) : a \in DOMAIN blocks}

(* The starts of the runs of n addresses that no block uses.              *)
Holes(n) == {a \in Addrs : Span(a, n) \subseteq Addrs \ InUse}

Init ==
    /\ blocks = [x \in {} |-> 0]
    /\ aborted = FALSE

Allocate(size, allow_fail) ==
    LET n == RoundUp(size) IN
    /\ ~aborted
    /\ IF Holes(n) # {}
       THEN /\ \E a \in Holes(n) :
                  blocks' = [x \in DOMAIN blocks \cup {a} |->
                                IF x = a THEN n ELSE blocks[x]]
            /\ UNCHANGED aborted
       ELSE IF allow_fail THEN UNCHANGED avars
       ELSE /\ aborted' = TRUE
            /\ UNCHANGED blocks

Release(a) ==
    /\ ~aborted
    /\ a \in DOMAIN blocks
    /\ blocks' = [x \in DOMAIN blocks \ {a} |-> blocks[x]]
    /\ UNCHANGED aborted

Next ==
    \/ \E size \in Requests, allow_fail \in BOOLEAN : Allocate(size, allow_fail)
    \/ \E a \in DOMAIN blocks : Release(a)

Spec == Init /\ [][Next]_avars
=============================================================================
