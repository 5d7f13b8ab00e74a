----------------------------- MODULE KernelHeap -----------------------------
(***************************************************************************)
(* The kernel heap (kernel/heap.c): one run of virtual pages, cut into     *)
(* blocks that each begin with a header and are linked both ways, grown    *)
(* page by page from the physical allocator, which may run dry at any      *)
(* page.  The heap lock makes every call one step.                         *)
(*                                                                         *)
(* Addresses are offsets from heap_base, and sizes are in bytes, with      *)
(* size_t of the width that SizeMax gives.  The headers in memory are the  *)
(* function heap.at: an address is in its domain exactly when the magic    *)
(* word is there, so that clearing the magic takes it out.                 *)
(***************************************************************************)
EXTENDS Integers, FiniteSets, Functions

CONSTANTS Alignment, HeaderSize, HeapPage,  \* KERNEL_HEAP_ALIGNMENT, sizeof(KernelHeapBlock), page size
          HeapMaxSize,                      \* KERNEL_HEAP_MAX_SIZE
          SizeMax,                          \* KERNEL_SIZE_MAX
          Sizes, Counts,                    \* the sizes and counts that callers ask for
          MaxLive                           \* bound on the blocks in use at once

ASSUME HeapAssumption ==
    /\ HeaderSize % Alignment = 0 /\ HeapPage % Alignment = 0 /\ HeapMaxSize % HeapPage = 0
    /\ HeapPage > HeaderSize /\ SizeMax >= HeapMaxSize + HeapPage

VARIABLES heap,   \* [at, first, last, mapped]: the headers, heap_first, heap_last, heap_mapped_size
          live,   \* pointer |-> size its caller asked for (what the callers hold)
          stale   \* the pointer that was given back last, unless it has been handed out again

heapVars == <<heap, live, stale>>

Null == -1
RoundUp(n, unit) == ((n + unit - 1) \div unit) * unit

(* heap_align_size, with its test against wrapping round: 0 when refused.  *)
heap_align_size(size) ==
    IF size = 0 \/ size > SizeMax - (Alignment - 1) THEN 0 ELSE RoundUp(size, Alignment)

(* The bytes that heap_append_pages wants for a payload, 0 when it refuses. *)
Needed(h, payload) ==
    IF \/ payload > SizeMax - HeaderSize
       \/ payload + HeaderSize > SizeMax - (HeapPage - 1)
       \/ RoundUp(payload + HeaderSize, HeapPage) > HeapMaxSize - h.mapped
    THEN 0 ELSE RoundUp(payload + HeaderSize, HeapPage)

(* The rest of heap_append_pages, after the allocator gave added bytes: a  *)
(* free last block grows, or a new block follows the last.                 *)
heap_append_pages(h, added) ==
    IF added = 0 THEN h
    ELSE IF h.last # Null /\ h.at[h.last].free
    THEN [h EXCEPT !.at[h.last].size = @ + added, !.mapped = @ + added]
    ELSE LET block == [size |-> added - HeaderSize, previous |-> h.last, next |-> Null, free |-> TRUE]
             linked == IF h.last = Null THEN h.at ELSE [h.at EXCEPT ![h.last].next = h.mapped]
         IN [at |-> [a \in DOMAIN linked \cup {h.mapped} |-> IF a = h.mapped THEN block ELSE linked[a]],
             first |-> IF h.last = Null THEN h.mapped ELSE h.first,
             last |-> h.mapped, mapped |-> h.mapped + added]

heap_split(h, b, size) ==
    IF h.at[b].size < size + HeaderSize + Alignment THEN h
    ELSE LET tail == b + HeaderSize + size
             after == h.at[b].next
             cut == [h.at EXCEPT ![b].size = size, ![b].next = tail]
             piece == [size |-> h.at[b].size - size - HeaderSize, previous |-> b, next |-> after,
                       free |-> TRUE]
             told == IF after = Null THEN cut ELSE [cut EXCEPT ![after].previous = tail]
         IN [h EXCEPT !.at = [a \in DOMAIN told \cup {tail} |-> IF a = tail THEN piece ELSE told[a]],
                      !.last = IF after = Null THEN tail ELSE @]

(* Mutant: the block after the merged one keeps its link to it.            *)
MergeHalfLinked(h, b) ==
    LET next == h.at[b].next
    IN IF next = Null \/ ~h.at[next].free THEN h
       ELSE [h EXCEPT !.at = Restrict([@ EXCEPT ![b].size = @ + HeaderSize + h.at[next].size,
                                                ![b].next = h.at[next].next],
                                      DOMAIN @ \ {next}),
                      !.last = IF h.at[next].next = Null THEN b ELSE @]

heap_merge_next(h, b) ==
    LET next == h.at[b].next
    IN IF next = Null \/ ~h.at[next].free THEN h
       ELSE LET beyond == h.at[next].next
                joined == [h.at EXCEPT ![b].size = @ + HeaderSize + h.at[next].size, ![b].next = beyond]
                told == IF beyond = Null THEN joined ELSE [joined EXCEPT ![beyond].previous = b]
            IN [h EXCEPT !.at = Restrict(told, DOMAIN told \ {next}),
                         !.last = IF beyond = Null THEN b ELSE @]

(* The first free block from b on that holds size bytes; Null when none.   *)
RECURSIVE FirstFit(_, _, _)
FirstFit(h, b, size) ==
    IF b = Null \/ (h.at[b].free /\ h.at[b].size >= size) THEN b
    ELSE FirstFit(h, h.at[b].next, size)

(* The heap once block b is taken for size bytes. *)
Taken(h, b, size) == [heap_split(h, b, size) EXCEPT !.at[b].free = FALSE]

(* kernel_free past its checks: the block is freed, joined to the next and *)
(* then to the previous one if those are free.                             *)
Freed(h, b) ==
    LET joined == heap_merge_next([h EXCEPT !.at[b].free = TRUE], b)
        before == joined.at[b].previous
    IN IF before # Null /\ joined.at[before].free THEN heap_merge_next(joined, before) ELSE joined

kernel_heap_init ==
    heap_append_pages([at |-> <<>>, first |-> Null, last |-> Null, mapped |-> 0],
                      RoundUp(HeapPage + HeaderSize, HeapPage))

-----------------------------------------------------------------------------
HandOut(b, size, h) ==
    /\ heap' = Taken(h, b, heap_align_size(size))
    /\ live' = [p \in DOMAIN live \cup {b + HeaderSize} |-> IF p = b + HeaderSize THEN size ELSE live[p]]
    /\ stale' = IF stale = b + HeaderSize THEN Null ELSE stale

(* kernel_malloc: a block that fits, else the heap grows by what the       *)
(* allocator still has, and the call fails if that was not all it asked.   *)
kernel_malloc(size) ==
    LET aligned == heap_align_size(size)
    IN /\ aligned # 0
       /\ \E b \in {FirstFit(heap, heap.first, aligned)} :
            \/ b # Null /\ HandOut(b, size, heap)
            \/ /\ b = Null
               /\ \E pages \in 0..(Needed(heap, aligned) \div HeapPage) :
                    \E grown \in {heap_append_pages(heap, pages * HeapPage)} :
                      IF Needed(heap, aligned) # 0 /\ pages * HeapPage = Needed(heap, aligned)
                      THEN HandOut(FirstFit(grown, grown.first, aligned), size, grown)
                      ELSE heap' = grown /\ UNCHANGED <<live, stale>>

Malloc == \E size \in Sizes : Cardinality(DOMAIN live) < MaxLive /\ kernel_malloc(size)

(* kernel_calloc: the product must not wrap round. *)
kernel_calloc(count, size) == count <= SizeMax \div size /\ kernel_malloc(count * size)
Calloc == \E count \in Counts, size \in Sizes : Cardinality(DOMAIN live) < MaxLive /\ kernel_calloc(count, size)

(* kernel_free of a pointer the caller holds, and of one that was given    *)
(* back before: where the magic is gone or the block is free, it returns.  *)
kernel_free(p) ==
    heap' = IF /\ p >= HeaderSize /\ p < heap.mapped /\ p % Alignment = 0
               /\ p - HeaderSize \in DOMAIN heap.at /\ ~heap.at[p - HeaderSize].free
            THEN Freed(heap, p - HeaderSize) ELSE heap

Free == \E p \in DOMAIN live :
    kernel_free(p) /\ live' = Restrict(live, DOMAIN live \ {p}) /\ stale' = p
FreeAgain == stale # Null /\ kernel_free(stale) /\ UNCHANGED <<live, stale>>

HeapInit == heap = kernel_heap_init /\ live = <<>> /\ stale = Null
HeapNext == Malloc \/ Calloc \/ Free \/ FreeAgain

-----------------------------------------------------------------------------
(* kernel_heap_validate, as the code walks the list: block after block     *)
(* lies where the one before it ends, points back to it, and no two free   *)
(* neighbours are left unjoined.                                           *)
RECURSIVE WalkOk(_, _, _, _)
WalkOk(h, b, previous, expected) ==
    IF b = Null THEN previous = h.last /\ expected = h.mapped
    ELSE /\ b = expected /\ b \in DOMAIN h.at
         /\ h.at[b].previous = previous
         /\ h.at[b].size % Alignment = 0
         /\ b + HeaderSize + h.at[b].size <= h.mapped
         /\ h.at[b].next # Null => h.at[b].next \in DOMAIN h.at /\ ~(h.at[b].free /\ h.at[h.at[b].next].free)
         /\ WalkOk(h, h.at[b].next, b, b + HeaderSize + h.at[b].size)
kernel_heap_validate(h) == h.first # Null /\ h.last # Null /\ h.mapped # 0 /\ WalkOk(h, h.first, Null, 0)

(* After any sequence of kernel_malloc, kernel_calloc and kernel_free, with *)
(* the allocator failing at any page, the heap passes its own validation,  *)
(* the blocks in use are exactly those the callers hold, each as large as  *)
(* was asked (so that no two callers share a byte), and a second free of a *)
(* pointer finds nothing to free.                                          *)
HeapSound ==
    /\ kernel_heap_validate(heap)
    /\ {b + HeaderSize : b \in {b \in DOMAIN heap.at : ~heap.at[b].free}} = DOMAIN live
    /\ \A p \in DOMAIN live : heap.at[p - HeaderSize].size >= live[p]
=============================================================================
