------------------------------ MODULE MC_DspHeap ------------------------------
(* Heap instances for TLC. Addresses and sizes are in units of bytes of a *)
(* scaled-down device: a block is 2 bytes, uint32_t is 4 or 3 bits wide.  *)
EXTENDS DspHeap

\* Four blocks; requests that round to one, two and three blocks; sizes
\* never wrap and no block reaches 2^SizeBits.
SmallHeapLength == 8
SmallRequests == {1, 3, 6}

\* A request of 2^SizeBits - 1 bytes, which ROUNDUP wraps to 0.
WrapRequests == {1, 15}

\* A heap longer than 2^SizeBits, as a DDR heap of 4 GiB or more is.
LongHeapLength == 12
LongRequests == {2}
=============================================================================
