------------------------------ MODULE DspHeap ------------------------------
(***************************************************************************)
(* The host-side heap manager of DSP device memory, class dspheap         *)
(* (src/src/core/dsp/dspheap.h): a first-fit allocator over a range of    *)
(* device addresses, with a free list and an allocated list (std::map     *)
(* from address to size), coalescing on free, and the max_block_size      *)
(* query. Every method runs under the heap's one lock, so each is one     *)
(* atomic step here. The callers are abstracted to a bag of the addresses *)
(* malloc has handed out and not yet freed.                                *)
(*                                                                         *)
(* Sizes passed to malloc and the size free accumulates while merging are *)
(* uint32_t in the code; free-block sizes and addresses are 64-bit. A     *)
(* uint32_t is modelled as SizeBits bits so that its wrap-around is       *)
(* reachable in a small model.                                             *)
(***************************************************************************)
EXTENDS Naturals, Sequences, FiniteSets, Bags, SequencesExt, TLC

CONSTANTS
    StartAddr,  \* p_start_addr
    Length,     \* p_length
    BlockSize,  \* p_block_size: MIN_BLOCK_SIZE or MIN_CMEM_ONDEMAND_BLOCK_SIZE
    SizeBits,   \* width of uint32_t in the model
    Requests    \* sizes callers pass to malloc

Word == 2 ^ SizeBits

ASSUME /\ BlockSize \in Nat \ {0} /\ Word % BlockSize = 0
       /\ StartAddr \in Nat \ {0} /\ Length \in Nat \ {0}
       /\ Requests \subseteq 0..(Word - 1)

VARIABLES
    free_list,   \* address -> size of each free block
    alloc_list,  \* address -> size of each allocated block
    held,        \* bag of addresses malloc returned and callers still hold
    ret,         \* the result of the last call
    aborted      \* malloc called abort()

vars == <<free_list, alloc_list, held, ret, aborted>>

Addrs == StartAddr..(StartAddr + Length - 1)

(* std::map operations on a function from addresses.                       *)
Erase(f, k) == [x \in DOMAIN f \ {k} |-> f[x]]
Put(f, k, v) == [x \in DOMAIN f \cup {k} |-> IF x = k THEN v ELSE f[x]]

MinBlockSizeRoundDown(size) == size - (size % BlockSize)

(* min_block_size: ROUNDUP(size, p_block_size) in uint32_t arithmetic.     *)
MinBlockSize(size) ==
    LET s == (size + BlockSize - 1) % Word IN s - (s % BlockSize)

-----------------------------------------------------------------------------
Init ==
    /\ free_list = (StartAddr :> Length)   \* configure()
    /\ alloc_list = [x \in {} |-> 0]
    /\ held = EmptyBag
    /\ ret = [op |-> "none", addr |-> 0, val |-> 0]
    /\ aborted = FALSE

(* malloc: first fit in address order; the block is split when larger     *)
(* than needed. With no fit it returns 0 when allow_fail, else aborts.    *)
MallocNoSplit(size, allow_fail) ==
    LET rsize == MinBlockSize(size)
        fits  == {a \in DOMAIN free_list : free_list[a] >= rsize}
    IN
    /\ ~aborted
    /\ IF fits # {}
       THEN LET a == Min(fits)
            IN /\ free_list' = Erase(free_list, a)
               /\ alloc_list' = Put(alloc_list, a, rsize)
               /\ held' = held (+) SetToBag({a})
               /\ ret' = [op |-> "malloc", addr |-> a, val |-> rsize]
               /\ UNCHANGED aborted
       ELSE /\ IF allow_fail
               THEN /\ ret' = [op |-> "malloc", addr |-> 0, val |-> rsize]
                    /\ UNCHANGED aborted
               ELSE /\ aborted' = TRUE
                    /\ UNCHANGED ret
            /\ UNCHANGED <<free_list, alloc_list, held>>

MallocStrictFit(size, allow_fail) ==
    LET rsize == MinBlockSize(size)
        fits  == {a \in DOMAIN free_list : free_list[a] > rsize}
    IN
    /\ ~aborted
    /\ IF fits # {}
       THEN LET a == Min(fits)
                bsize == free_list[a]
            IN /\ free_list' = Put(Erase(free_list, a), a + rsize, bsize - rsize)
               /\ alloc_list' = Put(alloc_list, a, rsize)
               /\ held' = held (+) SetToBag({a})
               /\ ret' = [op |-> "malloc", addr |-> a, val |-> rsize]
               /\ UNCHANGED aborted
       ELSE /\ IF allow_fail
               THEN /\ ret' = [op |-> "malloc", addr |-> 0, val |-> rsize]
                    /\ UNCHANGED aborted
               ELSE /\ aborted' = TRUE
                    /\ UNCHANGED ret
            /\ UNCHANGED <<free_list, alloc_list, held>>

Malloc(size, allow_fail) ==
    LET rsize == MinBlockSize(size)
        fits  == {a \in DOMAIN free_list : free_list[a] >= rsize}
    IN
    /\ ~aborted
    /\ IF fits # {}
       THEN LET a == Min(fits)
                bsize == free_list[a]
                rest == Erase(free_list, a)
            IN /\ free_list' = IF bsize > rsize
                               THEN Put(rest, a + rsize, bsize - rsize)
                               ELSE rest
               /\ alloc_list' = Put(alloc_list, a, rsize)
               /\ held' = held (+) SetToBag({a})
               /\ ret' = [op |-> "malloc", addr |-> a, val |-> rsize]
               /\ UNCHANGED aborted
       ELSE /\ IF allow_fail
               THEN /\ ret' = [op |-> "malloc", addr |-> 0, val |-> rsize]
                    /\ UNCHANGED aborted
               ELSE /\ aborted' = TRUE
                    /\ UNCHANGED ret
            /\ UNCHANGED <<free_list, alloc_list, held>>

(* The merge loop of free: walk the free list in address order; a block   *)
(* ending at addr or starting at addr + size is erased and absorbed, the   *)
(* uint32_t size growing by its length. keys is the free list's address   *)
(* order; erasing the visited entry does not disturb the walk.            *)
RECURSIVE CoalesceBackOnly(_, _, _, _)
CoalesceBackOnly(keys, fl, addr, size) ==
    IF keys = <<>> THEN Put(fl, addr, size)
    ELSE LET b == Head(keys) IN
         IF b + fl[b] = addr
         THEN CoalesceBackOnly(Tail(keys), Erase(fl, b), b, (fl[b] + size) % Word)
         ELSE CoalesceBackOnly(Tail(keys), fl, addr, size)

RECURSIVE Coalesce(_, _, _, _)
Coalesce(keys, fl, addr, size) ==
    IF keys = <<>> THEN Put(fl, addr, size)
    ELSE LET b == Head(keys) IN
         IF b + fl[b] = addr \/ addr + size = b
         THEN Coalesce(Tail(keys), Erase(fl, b),
                       IF b < addr THEN b ELSE addr, (fl[b] + size) % Word)
         ELSE Coalesce(Tail(keys), fl, addr, size)

AddressOrder(S) == SetToSortSeq(S, <)

FreeKeepsAllocEntry(addr) ==
    /\ ~aborted
    /\ IF addr \notin DOMAIN alloc_list
       THEN /\ ret' = [op |-> "free", addr |-> addr, val |-> -1]
            /\ UNCHANGED <<free_list, alloc_list, held>>
       ELSE /\ free_list' = Coalesce(AddressOrder(DOMAIN free_list), free_list,
                                     addr, alloc_list[addr] % Word)
            /\ UNCHANGED alloc_list
            /\ held' = IF BagIn(addr, held) THEN held (-) SetToBag({addr})
                                            ELSE held
            /\ ret' = [op |-> "free", addr |-> addr, val |-> 0]
    /\ UNCHANGED aborted

(* free: -1 for an address that is not allocated; otherwise the block     *)
(* moves to the free list, merged with its free neighbours.               *)
Free(addr) ==
    /\ ~aborted
    /\ IF addr \notin DOMAIN alloc_list
       THEN /\ ret' = [op |-> "free", addr |-> addr, val |-> -1]
            /\ UNCHANGED <<free_list, alloc_list, held>>
       ELSE /\ free_list' = Coalesce(AddressOrder(DOMAIN free_list), free_list,
                                     addr, alloc_list[addr] % Word)
            /\ alloc_list' = Erase(alloc_list, addr)
            /\ held' = IF BagIn(addr, held) THEN held (-) SetToBag({addr})
                                            ELSE held
            /\ ret' = [op |-> "free", addr |-> addr, val |-> 0]
    /\ UNCHANGED aborted

(* max_block_size: the largest free block of at least p_block_size,       *)
(* the last one in address order among equals; (0, p_block_size) when    *)
(* none is, and size 0 for a heap shorter than one block.                 *)
MaxBlock ==
    IF Length < BlockSize THEN <<0, 0>>
    ELSE LET big == {a \in DOMAIN free_list : free_list[a] >= BlockSize}
             top == {a \in big : \A b \in big : free_list[b] <= free_list[a]}
         IN IF big = {} THEN <<0, BlockSize>>
            ELSE LET a == Max(top) IN <<a, free_list[a]>>

MaxBlockSize ==
    /\ ~aborted
    /\ ret' = [op |-> "max", addr |-> MaxBlock[1], val |-> MaxBlock[2]]
    /\ UNCHANGED <<free_list, alloc_list, held, aborted>>

(* After abort() the process is gone.                                      *)
Aborted ==
    /\ aborted
    /\ UNCHANGED vars

(* Callers free what they hold, or an address that is not allocated (a    *)
(* double free or a stray pointer); freeing another caller's block is a   *)
(* caller bug outside this component.                                      *)
FreeCandidates == BagToSet(held) \cup (Addrs \ DOMAIN alloc_list)

Next ==
    \/ \E size \in Requests, allow_fail \in BOOLEAN : Malloc(size, allow_fail)
    \/ \E addr \in FreeCandidates : Free(addr)
    \/ MaxBlockSize
    \/ Aborted

Spec == Init /\ [][Next]_vars

-----------------------------------------------------------------------------
(* Blocks lie at addresses of the range and are never empty.              *)
TypeOK ==
    /\ DOMAIN free_list \subseteq Addrs
    /\ free_list \in [DOMAIN free_list -> 1..Length]
    /\ DOMAIN alloc_list \subseteq Addrs
    /\ alloc_list \in [DOMAIN alloc_list -> 1..Length]
    /\ IsABag(held)
    /\ ret.op \in {"none", "malloc", "free", "max"}
    /\ aborted \in BOOLEAN

Cells(f) == UNION {a..(a + f[a] - 1) : a \in DOMAIN f}

(* The free and allocated blocks tile the managed range exactly: they     *)
(* cover it and their sizes add up to its length, so none overlap and no  *)
(* byte is lost, after any sequence of mallocs and frees.                  *)
HeapPartition ==
    /\ Cells(free_list) \cup Cells(alloc_list) = Addrs
    /\ SumFunction(free_list) + SumFunction(alloc_list) = Length

(* free leaves no two free blocks adjacent: every merge was made.         *)
Coalesced ==
    \A a, b \in DOMAIN free_list : a + free_list[a] # b

(* Every block malloc handed out is held by exactly one caller and is in  *)
(* the allocated list, and every allocated block is held.                 *)
ExclusiveOwnership ==
    /\ BagToSet(held) = DOMAIN alloc_list
    /\ \A a \in BagToSet(held) : CopiesIn(a, held) = 1

(* What max_block_size reports is a free block of the reported size, and  *)
(* none is larger.                                                         *)
MaxBlockIsFree ==
    ret.op = "max" /\ ret.val > 0 =>
        /\ ret.addr \in DOMAIN free_list
        /\ free_list[ret.addr] = ret.val
        /\ \A b \in DOMAIN free_list : free_list[b] <= ret.val

(* The allocated list implements the abstract allocator: every malloc is   *)
(* served with a block of exactly the rounded size that no other allocated *)
(* block overlaps, and fails or aborts only when no run of free addresses  *)
(* of that size is left, which, with first fit over a free list, holds only *)
(* if free merges every pair of neighbours after any order of frees; a     *)
(* free of an unallocated address changes nothing.                         *)
AbstractHeap == INSTANCE Allocator WITH Granule <- BlockSize, blocks <- alloc_list

HeapRefinement == AbstractHeap!Spec
=============================================================================
