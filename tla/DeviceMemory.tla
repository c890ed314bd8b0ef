---------------------------- MODULE DeviceMemory ----------------------------
(***************************************************************************)
(* malloc and free of python/asc/lib/runtime/interface.py over the         *)
(* driver's allocator.  The driver returns a block at any address; malloc  *)
(* asks for 512 bytes more than it was asked for, hands out the first      *)
(* multiple of 512 inside the block, and remembers in state.allocs which   *)
(* block that handle stands for, so that free can return it.               *)
(*                                                                         *)
(* KernelLaunch takes for granted what this module shows: a handle is a    *)
(* name for a piece of memory no other live handle touches.                *)
(***************************************************************************)
EXTENDS Integers

CONSTANTS
  Addresses,  \* where the driver's allocator may place a block (never at 0)
  Sizes       \* what malloc may be asked for (it refuses sizes <= 0)

ASSUME MemoryAssumption ==
  /\ Addresses \subseteq Nat \ {0}
  /\ Sizes \subseteq Nat \ {0}

VARIABLES
  blocks,  \* the driver's live blocks: address |-> size
  blockOf,  \* state.allocs: handle |-> address of its block
  asked    \* history: handle |-> the size malloc was asked for

memoryVars == <<blocks, blockOf, asked>>

\* Slip: the block's address is rounded down.
AlignDown(p) == 512 * (p \div 512)

\* The first multiple of 512 from address p on.
AlignUp(p) == 512 * ((p + 512 - 1) \div 512)

\* Slip: no room is left for the alignment.
NoMargin(n) == n

\* The size malloc asks the driver for.
RealSize(n) == n + 512

Apart(p, n, q, m) == p + n <= q \/ q + m <= p

\* f with x mapped to y, and f without x.
Put(f, x, y) == [z \in DOMAIN f \cup {x} |-> IF z = x THEN y ELSE f[z]]
Drop(f, x) == [z \in DOMAIN f \ {x} |-> f[z]]

Empty == [x \in {} |-> x]

-----------------------------------------------------------------------------

MemoryInit ==
  /\ blocks = Empty
  /\ blockOf = Empty
  /\ asked = Empty

\* The driver places the block anywhere but over another one.
Place(p, n) ==
  /\ \A q \in DOMAIN blocks : Apart(p, n, q, blocks[q])
  /\ blocks' = Put(blocks, p, n)

Malloc(n, p) ==
  /\ Place(p, RealSize(n))
  /\ blockOf' = Put(blockOf, AlignUp(p), p)
  /\ asked' = Put(asked, AlignUp(p), n)

\* Slip: the entry in state.allocs stays.
FreeKeepsEntry(h) ==
  /\ blocks' = Drop(blocks, blockOf[h])
  /\ UNCHANGED <<blockOf, asked>>

\* The driver gets back the address it gave, not the handle.
Free(h) ==
  /\ blocks' = Drop(blocks, blockOf[h])
  /\ blockOf' = Drop(blockOf, h)
  /\ asked' = Drop(asked, h)

MemoryNext ==
  \/ \E n \in Sizes, p \in Addresses : Malloc(n, p)
  \/ \E h \in DOMAIN blockOf : Free(h)

MemorySpec == MemoryInit /\ [][MemoryNext]_memoryVars

-----------------------------------------------------------------------------
(* Properties *)

MemoryTypeOK ==
  /\ DOMAIN blocks \subseteq Addresses
  /\ \A p \in DOMAIN blocks : blocks[p] \in Nat \ {0}
  /\ DOMAIN blockOf \subseteq Nat
  /\ \A h \in DOMAIN blockOf : blockOf[h] \in DOMAIN blocks
  /\ DOMAIN asked = DOMAIN blockOf
  /\ \A h \in DOMAIN asked : asked[h] \in Sizes

\* The memory from a live handle on, as much as was asked for, is aligned to
\* 512 bytes and lies inside the block the driver gave for it (malloc).
HandleInsideBlock ==
  \A h \in DOMAIN blockOf :
    /\ h % 512 = 0
    /\ blockOf[h] <= h
    /\ h + asked[h] <= blockOf[h] + blocks[blockOf[h]]

\* Two live handles never share a byte, wherever the driver places blocks
\* and in whatever order they come and go (malloc, free).
HandlesApart ==
  \A g, h \in DOMAIN blockOf : g # h => Apart(g, asked[g], h, asked[h])

\* Every block the driver has given out and not got back is the block of
\* exactly one live handle: rounding never makes two blocks share a handle,
\* which would lose one of them for ever, and no block is freed under a
\* handle that is still live (malloc, free).
EveryBlockKnown ==
  /\ \A p \in DOMAIN blocks : \E h \in DOMAIN blockOf : blockOf[h] = p
  /\ \A g, h \in DOMAIN blockOf : blockOf[g] = blockOf[h] => g = h

\* Handles and blocks correspond one to one, each handle inside its block.
HandlesMatchBlocks == HandleInsideBlock /\ EveryBlockKnown

=============================================================================
