----------------------------- MODULE KernelPmm -----------------------------
(***************************************************************************)
(* The physical page allocator (kernel/pmm.c): fresh pages are taken in    *)
(* order from the usable ranges of the firmware's memory map, and pages    *)
(* that come back are chained through their own first words.               *)
(*                                                                         *)
(* A page is its number, and 0, which is never given out, stands for       *)
(* failure.  The allocator's state p is a record: the index of the memory  *)
(* map entry in use, the fresh pages next..end-1 left of it, the chain of  *)
(* recycled pages, and the count of free pages.  Every caller holds the    *)
(* kernel's big lock, so that an operation is a function of p.             *)
(***************************************************************************)
EXTENDS Integers, Sequences, FiniteSetsExt, SequencesExt

CONSTANTS PageSize,   \* KERNEL_PAGE_SIZE, in bytes of the memory map
          MemoryMap,  \* sequence of [base, length, usable], the map of the BootInfo, in bytes
          RamPages    \* ram_size, in pages

ASSUME PmmAssumption ==
    /\ PageSize \in Nat \ {0}
    /\ \A i \in 1..Len(MemoryMap) : MemoryMap[i].base + MemoryMap[i].length <= RamPages * PageSize

(* usable_range_bounds: the whole pages of an entry, page 0 left out. *)
FirstPage(e) == Max({1, (e.base + PageSize - 1) \div PageSize})
EndPage(e) == (e.base + e.length) \div PageSize
PagesOf(e) == IF e.usable THEN FirstPage(e)..(EndPage(e) - 1) ELSE {}

(* select_next_usable_range: the next entry with a page in it, if any. *)
select_next_usable_range(p) ==
    LET left == {i \in (p.index + 1)..Len(MemoryMap) : PagesOf(MemoryMap[i]) # {}}
    IN IF left = {} THEN [p EXCEPT !.index = Len(MemoryMap), !.next = 0, !.end = 0]
       ELSE [p EXCEPT !.index = Min(left),
                      !.next = FirstPage(MemoryMap[Min(left)]), !.end = EndPage(MemoryMap[Min(left)])]

(* The range that the next fresh page comes from. *)
WithFresh(p) == IF p.next < p.end THEN p ELSE select_next_usable_range(p)

kernel_pmm_init ==
    [index |-> 0, next |-> 0, end |-> 0, recycled |-> <<>>,
     free_count |-> Cardinality(UNION {PagesOf(MemoryMap[i]) : i \in 1..Len(MemoryMap)})]

(* The page that kernel_pmm_alloc_page returns, and the allocator after it. *)
PageFor(p) == IF p.recycled # <<>> THEN Head(p.recycled) ELSE WithFresh(p).next
kernel_pmm_alloc_page(p) ==
    IF p.recycled # <<>> THEN [p EXCEPT !.recycled = Tail(@), !.free_count = @ - 1]
    ELSE LET q == WithFresh(p)
         IN IF q.next = 0 THEN q ELSE [q EXCEPT !.next = @ + 1, !.free_count = @ - 1]

kernel_pmm_free_page(p, page) ==
    IF page = 0 \/ page >= RamPages THEN p
    ELSE [p EXCEPT !.recycled = <<page>> \o @, !.free_count = @ + 1]

(* kernel_pmm_release_range frees upwards: the chain then runs downwards.  *)
kernel_pmm_release_range(p, first, n) ==
    IF first + n > RamPages THEN p
    ELSE FoldLeft(LAMBDA q, i : kernel_pmm_free_page(q, first + i - 1), p, [i \in 1..n |-> i])

(* The places in the chain where n pages that run downwards end. *)
RunsOf(p, n) == {i \in n..Len(p.recycled) : \A j \in 1..(n - 1) : p.recycled[i - j] = p.recycled[i] + j}

(* The search for n fresh pages: a range that is too small goes to the     *)
(* chain, page by page.                                                    *)
RECURSIVE SkipTo(_, _)
SkipTo(p, n) ==
    IF p.end - p.next >= n /\ p.next > 0 THEN p
    ELSE LET spilt == [p EXCEPT !.recycled = Reverse([i \in 1..(p.end - p.next) |-> p.next + i - 1]) \o @,
                                !.next = p.end]
             q == select_next_usable_range(spilt)
         IN IF q.next = 0 THEN q ELSE SkipTo(q, n)

(* kernel_pmm_alloc_contiguous: the first such run of the chain, or fresh  *)
(* pages.  ContiguousFor is the first page, 0 when there is none.          *)
Found(p, n) == RunsOf(p, n) # {}
ContiguousFor(p, n) ==
    IF n = 0 \/ n > p.free_count THEN 0
    ELSE IF Found(p, n) THEN p.recycled[Min(RunsOf(p, n))] ELSE SkipTo(p, n).next
kernel_pmm_alloc_contiguous(p, n) ==
    IF n = 0 \/ n > p.free_count THEN p
    ELSE IF Found(p, n)
    THEN LET i == Min(RunsOf(p, n))
         IN [p EXCEPT !.recycled = SubSeq(@, 1, i - n) \o SubSeq(@, i + 1, Len(@)), !.free_count = @ - n]
    ELSE LET q == SkipTo(p, n)
         IN IF q.next = 0 THEN q ELSE [q EXCEPT !.next = @ + n, !.free_count = @ - n]

(* The pages that are free in p. *)
FreshPages(p) ==
    (p.next..(p.end - 1)) \cup UNION {PagesOf(MemoryMap[i]) : i \in (p.index + 1)..Len(MemoryMap)}
FreePages(p) == FreshPages(p) \cup Range(p.recycled)
=============================================================================
