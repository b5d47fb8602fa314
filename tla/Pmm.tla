-------------------------------- MODULE Pmm ---------------------------------
(***************************************************************************)
(* The physical memory manager of MiniOS (unnamed/part_003): a bitmap of   *)
(* the frames of a fixed window, a free count, first-fit allocation of one *)
(* frame or of a contiguous run, and frees that validate only the range.   *)
(*                                                                         *)
(* The caller is any sequence of calls to the interface, with any address  *)
(* passed to the frees (spec 4.3: an unallocated or out-of-range address   *)
(* is a no-op).  Addresses are kept as numbers so that the range test and  *)
(* the truncating division of pmm_free_page are what the code computes.    *)
(***************************************************************************)
EXTENDS Integers, FiniteSets

CONSTANTS
  NPages,     \* PMM_TOTAL_PAGES (3584 in the code)
  PageSize,   \* PMM_PAGE_SIZE (4096)
  StartAddr,  \* PMM_START_ADDR (0x200000)
  Counts,     \* the counts passed to pmm_alloc_pages and pmm_free_pages
  MaxCalls    \* bound on the calls

ASSUME NPages \in Nat \ {0} /\ PageSize \in Nat \ {0}
ASSUME StartAddr \in Nat /\ StartAddr % PageSize = 0 /\ StartAddr >= PageSize
ASSUME Counts \subseteq Nat /\ MaxCalls \in Nat

NULL == 0
Pages == 0..NPages - 1
EndAddr == StartAddr + NPages * PageSize

(* The addresses a caller may pass to a free: every frame's address, one   *)
(* inside a frame, and the first address below and above the window.       *)
Addrs == {StartAddr - PageSize, EndAddr} \cup
         {StartAddr + p * PageSize + o : p \in Pages, o \in {0, 1}}

VARIABLES
  pmm_bitmap,      \* bit i: frame i is used
  pmm_free_count,
  ret,             \* what the last call returned (NULL for none)
  call,            \* history: the last call and its count
  calls

vars == <<pmm_bitmap, pmm_free_count, ret, call, calls>>

(* Mutant: the frame number not scaled by the page size.                   *)
FrameAddr_no_scale(i) == StartAddr + i

FrameAddr(i) == StartAddr + i * PageSize

(* pmm_init: every frame free.                                             *)
Init ==
  /\ pmm_bitmap = [i \in Pages |-> 0]
  /\ pmm_free_count = NPages
  /\ ret = NULL
  /\ call = [op |-> "init", count |-> 0]
  /\ calls = 0

(* pmm_test_bit / pmm_set_bit over a set of frames.                        *)
Used(i) == pmm_bitmap[i] = 1
SetBits(bm, S) == [i \in Pages |-> IF i \in S THEN 1 ELSE bm[i]]

(* The loop of pmm_alloc_page: the first clear bit, or -1 when none.       *)
RECURSIVE FirstClear(_)
FirstClear(i) == IF i >= NPages THEN -1
                 ELSE IF ~Used(i) THEN i ELSE FirstClear(i + 1)

(* Mutant: the run length not reset by a used frame.                       *)
RECURSIVE ScanRun_no_reset(_, _, _, _)
ScanRun_no_reset(i, consecutive, start, count) ==
  IF i >= NPages THEN -1
  ELSE IF ~Used(i)
       THEN LET s == IF consecutive = 0 THEN i ELSE start
            IN IF consecutive + 1 = count THEN s
               ELSE ScanRun_no_reset(i + 1, consecutive + 1, s, count)
       ELSE ScanRun_no_reset(i + 1, consecutive, start, count)

(* The loop of pmm_alloc_pages, with its locals consecutive and start:     *)
(* the start of the first run of count clear bits, or -1.                  *)
RECURSIVE ScanRun(_, _, _, _)
ScanRun(i, consecutive, start, count) ==
  IF i >= NPages THEN -1
  ELSE IF ~Used(i)
       THEN LET s == IF consecutive = 0 THEN i ELSE start
            IN IF consecutive + 1 = count THEN s
               ELSE ScanRun(i + 1, consecutive + 1, s, count)
       ELSE ScanRun(i + 1, 0, start, count)

pmm_alloc_page ==
  /\ calls < MaxCalls
  /\ calls' = calls + 1
  /\ call' = [op |-> "alloc_page", count |-> 1]
  /\ LET i == FirstClear(0)
     IN IF pmm_free_count = 0 \/ i = -1
        THEN ret' = NULL /\ UNCHANGED <<pmm_bitmap, pmm_free_count>>
        ELSE /\ pmm_bitmap' = SetBits(pmm_bitmap, {i})
             /\ pmm_free_count' = pmm_free_count - 1
             /\ ret' = FrameAddr(i)

(* pmm_alloc_pages' early return.                                        *)
AllocPagesRefused(count) == count = 0 \/ pmm_free_count < count

pmm_alloc_pages(count) ==
  /\ calls < MaxCalls
  /\ calls' = calls + 1
  /\ call' = [op |-> "alloc_pages", count |-> count]
  /\ LET s == ScanRun(0, 0, 0, count)
     IN IF AllocPagesRefused(count) \/ s = -1
        THEN ret' = NULL /\ UNCHANGED <<pmm_bitmap, pmm_free_count>>
        ELSE /\ pmm_bitmap' = SetBits(pmm_bitmap, s..s + count - 1)
             /\ pmm_free_count' = pmm_free_count - count
             /\ ret' = FrameAddr(s)

(* Mutant: a frame freed whether or not its bit was set.                   *)
FreeFrame_unchecked(bm, fc, addr) ==
  IF addr < StartAddr \/ addr >= EndAddr THEN [bm |-> bm, fc |-> fc]
  ELSE LET page == (addr - StartAddr) \div PageSize
       IN [bm |-> [bm EXCEPT ![page] = 0], fc |-> fc + 1]

(* pmm_free_page on a bitmap and free count: out-of-range addresses are    *)
(* ignored, the page number truncates, and only a used frame is freed.     *)
FreeFrame(bm, fc, addr) ==
  IF addr < StartAddr \/ addr >= EndAddr THEN [bm |-> bm, fc |-> fc]
  ELSE LET page == (addr - StartAddr) \div PageSize
       IN IF bm[page] = 1
          THEN [bm |-> [bm EXCEPT ![page] = 0], fc |-> fc + 1]
          ELSE [bm |-> bm, fc |-> fc]

pmm_free_page(addr) ==
  /\ calls < MaxCalls
  /\ calls' = calls + 1
  /\ call' = [op |-> "free_page", count |-> 1]
  /\ LET r == FreeFrame(pmm_bitmap, pmm_free_count, addr)
     IN pmm_bitmap' = r.bm /\ pmm_free_count' = r.fc
  /\ ret' = NULL

(* pmm_free_pages: pmm_free_page on addr + i * PMM_PAGE_SIZE, i < count.   *)
RECURSIVE FreeRun(_, _, _, _)
FreeRun(bm, fc, addr, n) ==
  IF n = 0 THEN [bm |-> bm, fc |-> fc]
  ELSE LET r == FreeFrame(bm, fc, addr)
       IN FreeRun(r.bm, r.fc, addr + PageSize, n - 1)

pmm_free_pages(addr, count) ==
  /\ calls < MaxCalls
  /\ calls' = calls + 1
  /\ call' = [op |-> "free_pages", count |-> count]
  /\ LET r == FreeRun(pmm_bitmap, pmm_free_count, addr, count)
     IN pmm_bitmap' = r.bm /\ pmm_free_count' = r.fc
  /\ ret' = NULL

Next ==
  \/ pmm_alloc_page
  \/ \E n \in Counts : pmm_alloc_pages(n)
  \/ \E a \in Addrs : pmm_free_page(a)
  \/ \E a \in Addrs, n \in Counts : pmm_free_pages(a, n)

Spec == Init /\ [][Next]_vars

-----------------------------------------------------------------------------
(* Properties.                                                             *)

(* Spec 3 (b) is part of the type: a returned address is a frame address  *)
(* inside the window.                                                      *)
TypeOK ==
  /\ pmm_bitmap \in [Pages -> {0, 1}]
  /\ pmm_free_count \in 0..NPages
  /\ ret \in {NULL} \cup
            {a \in StartAddr..EndAddr - 1 : (a - StartAddr) % PageSize = 0}
  /\ calls \in 0..MaxCalls

(* Spec 3, frame bitmap (a): the free count equals the number of clear     *)
(* bits, after any sequence of allocations and of frees of any address,    *)
(* repeated, overlapping or out of range.                                  *)
FreeCountExact ==
  pmm_free_count = Cardinality({i \in Pages : ~Used(i)})

(* The frames s..s+n-1 are inside the window and all clear.                *)
Fits(s, n) == s + n <= NPages /\ \A j \in s..s + n - 1 : ~Used(j)

(* Spec 4.3 and its edge cases: pmm_alloc_page and pmm_alloc_pages(n)      *)
(* return the first run of n clear frames and set exactly those bits, and  *)
(* return NULL, changing nothing, exactly when n = 0 or no run of n clear  *)
(* frames exists.                                                          *)
AllocFirstFit ==
  [][call'.op \in {"alloc_page", "alloc_pages"} =>
       LET n == call'.count
           R == {s \in Pages : n > 0 /\ Fits(s, n)}
           first == CHOOSE s \in R : \A r \in R : s <= r
       IN IF R = {}
          THEN ret' = NULL /\ pmm_bitmap' = pmm_bitmap
          ELSE /\ ret' = StartAddr + first * PageSize
               /\ pmm_bitmap' = SetBits(pmm_bitmap, first..first + n - 1)]_vars

====
