-------------------------------- MODULE Heap --------------------------------
(***************************************************************************)
(* The first-fit kernel heap of src/boot/heap.c, at the level of the words *)
(* it stores.  A block header is three 8-byte words: size (size_t), free   *)
(* (an int, padded) and next (a pointer).  Headers live inside the heap    *)
(* memory they describe, so a header written at a wrong address overwrites *)
(* whatever is there: the model keeps memory as a function from word       *)
(* addresses to values and reads every header back from it.               *)
(*                                                                         *)
(* Addresses are absolute; HeapBase plays 0x400000 (16-aligned, larger    *)
(* than the heap, so a pointer read as a size is "huge" as in the code).   *)
(* size_t arithmetic is modulo SizeMod, which stands for 2^64.  The window *)
(* of modelled memory runs a header past the end of the heap; a store     *)
(* beyond it sets escaped, and nothing is modelled after that.             *)
(***************************************************************************)
EXTENDS Integers, FiniteSets, TLC

CONSTANTS
  HeapBase,   \* heap_init's start (0x400000 in kernel_main)
  HeapSize,   \* heap_init's size (4 MiB in kernel_main)
  SizeMod,    \* 2^64: the range of size_t
  Requests,   \* byte counts a caller may pass to kmalloc / kcalloc
  MaxCalls    \* bound on the number of kmalloc, kcalloc and kfree calls

ASSUME HeapBase % 16 = 0 /\ HeapSize % 16 = 0 /\ HeapSize >= 48
ASSUME SizeMod > HeapBase + HeapSize /\ Requests \subseteq 1..HeapSize

NULL == 0
HEADER_SIZE == 24
MIN_BLOCK_SIZE == 16
HeapEnd == HeapBase + HeapSize

Window == {HeapBase + 8 * k : k \in 0..(HeapSize + HEADER_SIZE) \div 8 - 1}

(* Fuel for the list walks: more iterations than any walk of an acyclic   *)
(* list in the window can take; a walk that runs out of it never ends.     *)
Fuel == 2 * Cardinality(Window) + 2

VARIABLES
  mem,        \* word address -> the 8-byte value stored there
  heap_used,  \* heap_used
  live,       \* the caller's allocations: [p |-> payload, n |-> bytes asked]
  calls,      \* calls made so far
  hung,       \* a call is stuck in a list walk that never ends
  escaped     \* a store went past the modelled window

vars == <<mem, heap_used, live, calls, hung, escaped>>

SizeT(x) == x % SizeMod

(* align_size: (size + 15) & ~15 in size_t arithmetic.                     *)
align_size(size) == LET t == SizeT(size + 15) IN t - (t % 16)

Size(m, b) == m[b]
IsFree(m, b) == m[b + 8] = 1
NextOf(m, b) == m[b + 16]

(* A header store: its three words, or escape when they leave the window. *)
HeaderFits(b) == {b, b + 8, b + 16} \subseteq Window
WriteHeader(m, b, s, f, n) == [m EXCEPT ![b] = s, ![b + 8] = f, ![b + 16] = n]
(* find_free_block: the first block on the list from heap_start that is    *)
(* free and at least size bytes; NULL at the end of the list.  Status     *)
(* "hang" when the walk never ends, "escape" when it leaves the window.   *)
RECURSIVE FindFree(_, _, _, _)
FindFree(m, b, size, fuel) ==
  IF b = NULL THEN [b |-> NULL, status |-> "ok"]
  ELSE IF fuel = 0 THEN [b |-> NULL, status |-> "hang"]
  ELSE IF ~HeaderFits(b) THEN [b |-> NULL, status |-> "escape"]
  ELSE IF IsFree(m, b) /\ Size(m, b) >= size THEN [b |-> b, status |-> "ok"]
  ELSE FindFree(m, NextOf(m, b), size, fuel - 1)

find_free_block(m, size) == FindFree(m, HeapBase, size, Fuel)

(* Mutant: the new header placed at the end of the payload, without the  *)
(* header's own bytes.                                                     *)
split_block_no_header(m, b, size) ==
  LET remaining == SizeT(Size(m, b) - size - HEADER_SIZE)
      nb        == b + size
  IN IF remaining < MIN_BLOCK_SIZE THEN [m |-> m, status |-> "ok"]
     ELSE [m |-> [WriteHeader(m, nb, remaining, 1, NextOf(m, b))
                    EXCEPT ![b] = size, ![b + 16] = nb],
           status |-> "ok"]

(* split_block: the remainder is computed in size_t, so it wraps when the  *)
(* block has fewer than size + HEADER_SIZE bytes; a remainder of at least  *)
(* MIN_BLOCK_SIZE gets a free header right after the block's payload.      *)
split_block(m, b, size) ==
  LET remaining == SizeT(Size(m, b) - size - HEADER_SIZE)
      nb        == b + HEADER_SIZE + size
  IN IF remaining < MIN_BLOCK_SIZE THEN [m |-> m, status |-> "ok"]
     ELSE IF ~HeaderFits(nb) THEN [m |-> m, status |-> "escape"]
     ELSE [m |-> [WriteHeader(m, nb, remaining, 1, NextOf(m, b))
                    EXCEPT ![b] = size, ![b + 16] = nb],
           status |-> "ok"]

(* Mutant: heap_used charged with the block's size before the split.      *)
kmalloc_result_presplit(m, used, n) ==
  LET size == align_size(n)
      f    == find_free_block(m, size)
      b    == f.b
  IN IF n = 0 \/ b = NULL THEN [m |-> m, used |-> used, p |-> NULL, status |-> f.status]
     ELSE LET sp == split_block(m, b, size)
              m2 == [sp.m EXCEPT ![b + 8] = 0]
          IN [m |-> m2, used |-> SizeT(used + Size(m, b) + HEADER_SIZE),
              p |-> b + HEADER_SIZE, status |-> sp.status]

(* Mutant: heap_used charged with the payload only, without its header.   *)
kmalloc_result_no_header(m, used, n) ==
  LET size == align_size(n)
      f    == find_free_block(m, size)
      b    == f.b
  IN IF n = 0 \/ b = NULL THEN [m |-> m, used |-> used, p |-> NULL, status |-> f.status]
     ELSE LET sp == split_block(m, b, size)
              m2 == [sp.m EXCEPT ![b + 8] = 0]
          IN [m |-> m2, used |-> SizeT(used + Size(m2, b)),
              p |-> b + HEADER_SIZE, status |-> sp.status]

(* kmalloc(size): the resulting memory, heap_used, returned pointer and    *)
(* status.  A zero size returns NULL at once.                              *)
kmalloc_result(m, used, n) ==
  LET size == align_size(n)
      f    == find_free_block(m, size)
      b    == f.b
  IN IF n = 0 \/ b = NULL THEN [m |-> m, used |-> used, p |-> NULL, status |-> f.status]
     ELSE LET sp == split_block(m, b, size)
              m2 == [sp.m EXCEPT ![b + 8] = 0]
          IN [m |-> m2, used |-> SizeT(used + Size(m2, b) + HEADER_SIZE),
              p |-> b + HEADER_SIZE, status |-> sp.status]

(* merge_free_blocks: from heap_start, fold each free successor into a     *)
(* free block without advancing, otherwise advance.                        *)
RECURSIVE MergeFrom(_, _, _)
MergeFrom(m, b, fuel) ==
  IF b = NULL THEN [m |-> m, status |-> "ok"]
  ELSE IF ~HeaderFits(b) THEN [m |-> m, status |-> "escape"]
  ELSE IF NextOf(m, b) = NULL THEN [m |-> m, status |-> "ok"]
  ELSE IF fuel = 0 THEN [m |-> m, status |-> "hang"]
  ELSE IF ~HeaderFits(NextOf(m, b)) THEN [m |-> m, status |-> "escape"]
  ELSE LET nx == NextOf(m, b)
       IN IF IsFree(m, b) /\ IsFree(m, nx)
            THEN MergeFrom([m EXCEPT ![b] = SizeT(@ + HEADER_SIZE + Size(m, nx)),
                                     ![b + 16] = NextOf(m, nx)], b, fuel - 1)
            ELSE MergeFrom(m, nx, fuel - 1)

merge_free_blocks(m) == MergeFrom(m, HeapBase, Fuel)

(* The state heap_init(HeapBase, HeapSize) leaves: one free block over the *)
(* whole region, heap_used = HEADER_SIZE.  The memory it does not write is *)
(* zero (QEMU's RAM).                                                      *)
Init ==
  /\ mem = (HeapBase :> HeapSize - HEADER_SIZE) @@ (HeapBase + 8 :> 1)
            @@ (HeapBase + 16 :> NULL) @@ [w \in Window |-> 0]
  /\ heap_used = HEADER_SIZE
  /\ live = {}
  /\ calls = 0
  /\ hung = FALSE
  /\ escaped = FALSE
-----------------------------------------------------------------------------
(* A finished call: the memory and heap_used it leaves, and whether it got *)
(* stuck or wrote past the window.                                         *)
Finish(r) ==
  /\ mem' = r.m
  /\ heap_used' = r.used
  /\ hung' = (r.status = "hang")
  /\ escaped' = (r.status = "escape")
  /\ calls' = calls + 1

Ready == calls < MaxCalls /\ ~hung /\ ~escaped

(* A caller's kmalloc(n).                                                  *)
kmalloc(n) ==
  /\ Ready
  /\ LET r == kmalloc_result(mem, heap_used, n)
     IN /\ Finish(r)
        /\ live' = IF r.p = NULL THEN live
                   ELSE live \cup {[p |-> r.p, n |-> n, k |-> calls]}

(* kcalloc(count, size): the product in size_t, kmalloc, then memset of    *)
(* the product's bytes to zero (whole words here).                         *)
kcalloc(count, size) ==
  /\ Ready
  /\ LET total == SizeT(count * size)
         r     == kmalloc_result(mem, heap_used, total)
         span  == {w \in Window : r.p <= w /\ w < r.p + total}
         fits  == r.p + total <= HeapEnd + HEADER_SIZE
     IN IF r.p = NULL
          THEN /\ Finish(r) /\ UNCHANGED live
          ELSE /\ Finish([r EXCEPT !.m = [w \in Window |-> IF w \in span THEN 0 ELSE r.m[w]],
                                   !.status = IF fits THEN @ ELSE "escape"])
               /\ live' = live \cup {[p |-> r.p, n |-> total, k |-> calls]}

(* kfree(ptr) of a pointer the caller holds.  A header outside the heap   *)
(* region, or one already marked free, makes it return without a change;  *)
(* otherwise the block is marked free, heap_used drops by its size and     *)
(* header, and merge_free_blocks runs.                                     *)
kfree(x) ==
  /\ Ready
  /\ live' = live \ {x}
  /\ LET block == x.p - HEADER_SIZE
     IN IF block < HeapBase \/ block >= HeapEnd \/ IsFree(mem, block)
          THEN Finish([m |-> mem, used |-> heap_used, status |-> "ok"])
          ELSE LET mg == merge_free_blocks([mem EXCEPT ![block + 8] = 1])
               IN Finish([m |-> mg.m, status |-> mg.status,
                          used |-> SizeT(heap_used - (Size(mem, block) + HEADER_SIZE))])

(* What the kernel itself does with the heap: kcalloc and kmalloc at boot  *)
(* (virtq_init), and never kfree.                                          *)
KernelNext ==
  \/ \E n \in Requests : kmalloc(n)
  \/ \E c \in 1..2, n \in Requests : kcalloc(c, n)

(* Any sequence of calls of the heap's interface.                          *)
ApiNext == KernelNext \/ \E x \in live : kfree(x)

KernelSpec == Init /\ [][KernelNext]_vars
ApiSpec == Init /\ [][ApiNext]_vars
-----------------------------------------------------------------------------
(* The headers on the list from heap_start (as far as it can be walked).  *)
RECURSIVE ListFrom(_, _, _)
ListFrom(m, b, fuel) ==
  IF b = NULL \/ fuel = 0 \/ ~HeaderFits(b) THEN {}
  ELSE {b} \cup ListFrom(m, NextOf(m, b), fuel - 1)

Blocks == ListFrom(mem, HeapBase, Fuel)

BlockBytes(b) == IF IsFree(mem, b) THEN 0 ELSE Size(mem, b) + HEADER_SIZE

RECURSIVE UsedBytes(_)
UsedBytes(S) == IF S = {} THEN 0
                ELSE LET b == CHOOSE b \in S : TRUE
                     IN BlockBytes(b) + UsedBytes(S \ {b})

(* Types, and heap_used within heap_size, so that heap_stats' free count   *)
(* heap_size - heap_used never wraps.                                      *)
TypeOK ==
  /\ mem \in [Window -> 0..SizeMod - 1]
  /\ heap_used \in HEADER_SIZE..HeapSize
  /\ live \subseteq [p : Window \cup {w + 8 : w \in Window}, n : 0..SizeMod - 1, k : 0..MaxCalls]
  /\ calls \in 0..MaxCalls
  /\ hung \in BOOLEAN /\ escaped \in BOOLEAN

(* Every allocation a caller holds lies inside the heap region, overlaps   *)
(* no other one and no block header on the list, and its own header still  *)
(* says "in use" with at least the bytes asked for.  It depends on         *)
(* find_free_block taking only free blocks, on split_block placing the new *)
(* header past the payload and on kfree/merge never joining a used block.  *)
AllocationsSound ==
  /\ ~escaped
  /\ \A x \in live :
       /\ HeapBase + HEADER_SIZE <= x.p /\ x.p + x.n <= HeapEnd
       /\ ~IsFree(mem, x.p - HEADER_SIZE) /\ Size(mem, x.p - HEADER_SIZE) >= x.n
       /\ \A b \in Blocks : b + HEADER_SIZE <= x.p \/ x.p + x.n <= b
       /\ \A y \in live : x # y => (x.p + x.n <= y.p \/ y.p + y.n <= x.p)

(* heap_used, which heap_stats reports and meminfo prints, equals the     *)
(* first header plus the header and payload of every used block on the    *)
(* list, after any sequence of the kernel's kmalloc and kcalloc calls:     *)
(* kmalloc must add the block's header and its size as it is after         *)
(* split_block, which keeps the whole block on an exact or near fit.       *)
HeapUsedAccounting == heap_used = HEADER_SIZE + UsedBytes(Blocks)

(* Every kmalloc, kcalloc and kfree returns: no list walk of               *)
(* find_free_block or merge_free_blocks goes round for ever.               *)
NeverHangs == ~hung
====
