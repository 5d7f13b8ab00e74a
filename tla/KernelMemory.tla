---------------------------- MODULE KernelMemory ----------------------------
(***************************************************************************)
(* The kernel's virtual memory (kernel/mmu.c, heap.c, address_space.c,     *)
(* user_loader.c, process.c, exception.c and the frame buffers of          *)
(* devices.c) on top of the page allocator of KernelPmm: the kernel's page *)
(* table, the growing heap, and one address space per process with its     *)
(* image, thread stacks and frame buffer.                                  *)
(*                                                                         *)
(* A virtual address is a page number.  A level-0 table spans LargeSpan    *)
(* pages, a level-1 table GigaSpan.  The whole state is the record k; all  *)
(* of the calls run under the big kernel lock, and each is a function of k *)
(* that sets k.ok to say whether it succeeded.  kernel_malloc is counted   *)
(* in units here (KernelHeap has its blocks), so that it can run out and   *)
(* can grow the heap in the middle of another call, as in the code.        *)
(***************************************************************************)
EXTENDS KernelPmm

CONSTANTS LargeSpan, GigaSpan,        \* pages under one level-0 and one level-1 table
          ImageBase, ImageLimit,      \* KERNEL_USER_IMAGE_BASE and _LIMIT (the frame buffer's base)
          FramebufferLimit,           \* KERNEL_USER_FRAMEBUFFER_LIMIT
          StackTop, StackPages,       \* KERNEL_USER_STACK_TOP and _SIZE
          LowPages, KernelPages,      \* [va, pa] of the low and alias pages, and of the kernel's sections
          DirectBase,                 \* KERNEL_DIRECT_MAP_BASE
          DemandPage,                 \* KERNEL_DEMAND_TEST_ADDRESS
          HeapMaxPages, UnitsPerPage, \* KERNEL_HEAP_MAX_SIZE, and the units that a heap page holds
          InitialTables,              \* the firmware's page tables, released by kernel_bootstrap_mmu
          Images,                     \* the executables: sequences of segments [va, pages, flags]
          Processes, MaxThreads,      \* the processes that may live at once; bound on live threads
          FramebufferSizes,           \* the sizes, in pages, of the modes asked for
          MaxMemoryCalls              \* bound on the calls

ASSUME LayoutAssumption ==
    /\ GigaSpan % LargeSpan = 0 /\ ImageBase < ImageLimit /\ ImageLimit < FramebufferLimit
    /\ FramebufferLimit + StackPages <= StackTop /\ StackTop <= GigaSpan

Put(f, x, v) == (x :> v) @@ f
Drop(f, S) == Restrict(f, DOMAIN f \ S)
Index2(va) == va \div GigaSpan
Index1(va) == va \div LargeSpan  \* of the whole address: it names the level-0 table
Fail(k) == [k EXCEPT !.ok = FALSE]
Done(k) == [k EXCEPT !.ok = TRUE]

(* kernel_pmm_alloc_page and _free_page within k. *)
Page(k) == PageFor(k.pmm)
TakePage(k) == [k EXCEPT !.pmm = kernel_pmm_alloc_page(@)]
NoPage(k) == Fail(TakePage(k))  \* an allocation that finds none
GivePage(k, page) == [k EXCEPT !.pmm = kernel_pmm_free_page(@, page)]

-----------------------------------------------------------------------------
(* The kernel's page table.  k.level1 and k.level0 map an index to the     *)
(* page of its table; k.leaf maps a page to its frame; k.big is the set of *)
(* <<span, first page>> mapped by a large or giga leaf.                    *)
NextLevel1(k, va) ==
    IF Index2(va) \in DOMAIN k.level1 THEN Done(k)
    ELSE IF <<GigaSpan, Index2(va) * GigaSpan>> \in k.big THEN Fail(k)
    ELSE IF Page(k) = 0 THEN NoPage(k)
    ELSE Done([TakePage(k) EXCEPT !.level1 = Put(@, Index2(va), Page(k))])
NextLevel0(k, va) ==
    IF ~k.ok \/ Index1(va) \in DOMAIN k.level0 THEN k
    ELSE IF <<LargeSpan, Index1(va) * LargeSpan>> \in k.big THEN Fail(k)
    ELSE IF Page(k) = 0 THEN NoPage(k)
    ELSE Done([TakePage(k) EXCEPT !.level0 = Put(@, Index1(va), Page(k))])

SetLeaf(t, va, pa) == IF t.ok THEN [t EXCEPT !.leaf = Put(@, va, pa)] ELSE t
kernel_map_page(k, va, pa) == SetLeaf(NextLevel0(NextLevel1(k, va), va), va, pa)

(* kernel_map_leaf for the larger leaves, which refuse an entry in use. *)
MapGiga(k, va) ==
    IF Index2(va) \in DOMAIN k.level1 \/ <<GigaSpan, va>> \in k.big THEN Fail(k)
    ELSE Done([k EXCEPT !.big = @ \cup {<<GigaSpan, va>>}])
SetLarge(t, va) ==
    IF ~t.ok \/ Index1(va) \in DOMAIN t.level0 \/ <<LargeSpan, va>> \in t.big THEN Fail(t)
    ELSE [t EXCEPT !.big = @ \cup {<<LargeSpan, va>>}]
MapLarge(k, va) == SetLarge(NextLevel1(k, va), va)

(* map_range of n pages at va onto the frames from pa, with the largest    *)
(* leaf that both addresses and the rest allow.                            *)
RECURSIVE map_range(_, _, _, _)
map_range(k, va, pa, n) ==
    LET Fits(span) == va % span = 0 /\ pa % span = 0 /\ n >= span
    IN IF ~k.ok \/ n = 0 THEN k
       ELSE IF Fits(GigaSpan) THEN map_range(MapGiga(k, va), va + GigaSpan, pa + GigaSpan, n - GigaSpan)
       ELSE IF Fits(LargeSpan) THEN map_range(MapLarge(k, va), va + LargeSpan, pa + LargeSpan, n - LargeSpan)
       ELSE map_range(kernel_map_page(k, va, pa), va + 1, pa + 1, n - 1)

(* kernel_bootstrap_mmu: the root, the direct map, the kernel's sections   *)
(* and the low pages; then the firmware's tables become free pages.        *)
MapPages(k, pages) ==
    FoldLeft(LAMBDA t, m : IF t.ok THEN kernel_map_page(t, m.va, m.pa) ELSE t, k, pages)
kernel_bootstrap_mmu(k) ==
    [MapPages(map_range([TakePage(k) EXCEPT !.root = Page(k)], DirectBase, 0, RamPages),
              KernelPages \o LowPages)
        EXCEPT !.pmm = kernel_pmm_release_range(@, InitialTables[1], InitialTables[2])]

-----------------------------------------------------------------------------
(* The heap: k.heap is the sequence of its frames, k.used the units in use.*)
HeapBase == DirectBase + RamPages + LargeSpan
KeepHeapPage(t, page) == IF t.ok THEN [t EXCEPT !.heap = Append(@, page)] ELSE GivePage(t, page)
heap_append_page(k) ==
    IF Page(k) = 0 THEN NoPage(k)
    ELSE KeepHeapPage(kernel_map_page(TakePage(k), HeapBase + Len(k.heap), Page(k)), Page(k))

(* heap_append_pages of n pages: none of them when they do not all fit     *)
(* below the heap's limit, and as many as there are when memory runs out.  *)
Grown(k, n) ==
    IF n > HeapMaxPages - Len(k.heap) THEN Fail(k)
    ELSE FoldLeft(LAMBDA t, i : IF t.ok THEN heap_append_page(t) ELSE t, Done(k), [i \in 1..n |-> i])

(* HeapTake is kernel_malloc, with the pages it still needs.  HeapGive is  *)
(* kernel_free.                                                            *)
Shortage(k, units) == (Max({0, k.used + units - UnitsPerPage * Len(k.heap)}) + UnitsPerPage - 1) \div UnitsPerPage
Allotted(t, units) == IF t.ok THEN [t EXCEPT !.used = @ + units] ELSE t
HeapTake(k, units) == Allotted(Grown(k, Shortage(k, units)), units)
HeapGive(k, units) == [k EXCEPT !.used = @ - units]

(* What the boot adds: BootHeap is kernel_heap_init; then the vector page  *)
(* of kernel_exception_init, and the page that the demand page self-test   *)
(* faults in.                                                              *)
BootHeap(k) == IF k.ok THEN Grown(k, 2) ELSE k
kernel_exception_init(k) == [TakePage(k) EXCEPT !.vbr = Page(k), !.ok = @ /\ Page(k) # 0]
handle_load_page_fault(k) ==
    IF ~k.ok \/ Page(k) = 0 THEN NoPage(k)
    ELSE kernel_map_page([TakePage(k) EXCEPT !.demand = Page(k)], DemandPage, Page(k))

-----------------------------------------------------------------------------
(* Address spaces.  A space has its list of page records, the entries of   *)
(* the kernel's root that it copied (shared), those of the kernel's first  *)
(* level-1 table (low), the indices whose level-0 table is its own, and    *)
(* the entries of those tables (leaf), with "U" among a user page's flags. *)
WithRecord(k, s, page, va, kind) ==
    [k EXCEPT !.spaces[s].pages = Append(@, [pa |-> page, va |-> va, kind |-> kind])]
PageForRecord(t, s, va, kind) ==
    IF ~t.ok THEN t
    ELSE IF Page(t) = 0 THEN HeapGive(NoPage(t), 1)
    ELSE WithRecord(TakePage(t), s, Page(t), va, kind)
address_page_allocate(k, s, va, kind) == PageForRecord(HeapTake(k, 1), s, va, kind)
LastPage(k, s) == Last(k.spaces[s].pages).pa

(* address_private_level0: the first use of a level-0 table copies it. *)
CopiedLevel0(t, s, i) ==
    IF ~t.ok THEN t
    ELSE [t EXCEPT !.spaces[s].low = Put(@, i, LastPage(t, s)),
                   !.spaces[s].own = @ \cup {i},
                   !.spaces[s].leaf = [va \in {va \in DOMAIN t.leaf : Index1(va) = i} |->
                                           [pa |-> t.leaf[va], flags |-> {}]] @@ @]
address_private_level0(k, s, i) ==
    IF i \in k.spaces[s].own THEN Done(k) ELSE CopiedLevel0(address_page_allocate(k, s, 0, "table"), s, i)

kernel_address_space_destroy(k, s) ==
    LET Back(t, r) == HeapGive(IF r.kind = "external" THEN t ELSE GivePage(t, r.pa), 1)
    IN [HeapGive(FoldLeft(Back, k, k.spaces[s].pages), 1) EXCEPT !.spaces = Drop(@, {s})]

(* kernel_address_space_create copies the kernel's root entry by entry.    *)
RootEntries(k) ==
    [i \in (DOMAIN k.level1 \cup {Index2(b[2]) : b \in {b \in k.big : b[1] = GigaSpan}}) \ {0} |->
        IF i \in DOMAIN k.level1 THEN k.level1[i] ELSE -1]
AllButLast(k) == Drop(RootEntries(k), {Max(DOMAIN RootEntries(k))})  \* mutant
CopiedRoot(k) == RootEntries(k)
Filled(t, rootOk, s) ==
    IF ~(rootOk /\ t.ok) THEN Fail(kernel_address_space_destroy(t, s))
    ELSE [t EXCEPT !.spaces[s].shared = CopiedRoot(t),
                   !.spaces[s].low = Restrict(t.level0, {i \in DOMAIN t.level0 : i * LargeSpan < GigaSpan})]
WithLevel1(t, s) == Filled(address_page_allocate(t, s, 0, "table"), t.ok, s)
WithRoot(t, s) ==
    IF ~t.ok THEN t
    ELSE WithLevel1(address_page_allocate(
             [t EXCEPT !.spaces = Put(@, s, [pages |-> <<>>, shared |-> <<>>, low |-> <<>>, own |-> {}, leaf |-> <<>>])],
             s, 0, "table"), s)
kernel_address_space_create(k, s) == WithRoot(HeapTake(k, 1), s)

SetUserLeaf(t, s, va, flags) ==
    IF ~t.ok THEN t
    ELSE [t EXCEPT !.spaces[s].leaf = Put(@, va, [pa |-> LastPage(t, s), flags |-> flags \cup {"U"}])]
MapUser(t, s, va, flags) ==
    IF ~t.ok \/ va \in DOMAIN t.spaces[s].leaf THEN Fail(t)
    ELSE SetUserLeaf(address_page_allocate(t, s, va, "user"), s, va, flags)
kernel_address_space_map_anonymous(k, s, va, flags) ==
    IF va < ImageBase \/ va >= StackTop \/ "R" \notin flags \/ {"W", "X"} \subseteq flags THEN Fail(k)
    ELSE MapUser(address_private_level0(k, s, Index1(va)), s, va, flags)

(* The record that address_find_user_page finds; n pages from va without   *)
(* their entries and records.                                              *)
IsUser(r, va, n) == r.kind # "table" /\ r.va \in va..(va + n - 1)
Unmapped(k, s, va, n) ==
    [k EXCEPT !.spaces[s].leaf = Drop(@, va..(va + n - 1)),
              !.spaces[s].pages = SelectSeq(@, LAMBDA r : ~IsUser(r, va, n))]
kernel_address_space_unmap_range(k, s, va, n) ==
    LET gone == SelectSeq(k.spaces[s].pages, LAMBDA r : IsUser(r, va, n))
        inOrder == SortSeq(gone, LAMBDA a, b : a.va < b.va)
        Back(t, r) == HeapGive(IF r.kind = "external" THEN t ELSE GivePage(t, r.pa), 1)
    IN IF n = 0 \/ va < ImageBase \/ va + n > StackTop \/ Len(gone) # n
          \/ ~(va..(va + n - 1) \subseteq DOMAIN k.spaces[s].leaf) THEN Fail(k)
       ELSE Done(FoldLeft(Back, Unmapped(k, s, va, n), inOrder))

(* kernel_address_space_map_physical stops at the first page it cannot     *)
(* map, and then takes back the ones it mapped.                            *)
SetExternal(t, s, va, pa) ==
    IF ~t.ok THEN t
    ELSE [WithRecord(t, s, pa, va, "external") EXCEPT
             !.spaces[s].leaf = Put(@, va, [pa |-> pa, flags |-> {"R", "W", "U"}])]
MapExternal(t, s, va, pa) ==
    IF ~t.ok \/ va \in DOMAIN t.spaces[s].leaf THEN Fail(t) ELSE SetExternal(HeapTake(t, 1), s, va, pa)
ExternalCount(k, s) == Len(SelectSeq(k.spaces[s].pages, LAMBDA r : r.kind = "external"))
TakenBack(t, s, va, before) ==
    IF t.ok THEN t
    ELSE HeapGive(Unmapped(t, s, va, ExternalCount(t, s) - before), ExternalCount(t, s) - before)
kernel_address_space_map_physical(k, s, va, pa, n) ==
    TakenBack(FoldLeft(LAMBDA t, i : IF ~t.ok THEN t
                                     ELSE MapExternal(address_private_level0(t, s, Index1(va + i - 1)), s,
                                                      va + i - 1, pa + i - 1),
                       Done(k), [i \in 1..n |-> i]),
              s, va, ExternalCount(k, s))

-----------------------------------------------------------------------------
(* Processes.  k.procs maps a live process to its image, the slots of its  *)
(* live threads' stacks, next_stack_slot, and its frame buffer [pa, n]     *)
(* (n = 0: none).  k.owner is kernel_display_owner, 0 when NULL.           *)
MapStack(k, s, bottom) ==
    FoldLeft(LAMBDA t, i : IF t.ok THEN kernel_address_space_map_anonymous(t, s, bottom + i - 1, {"R", "W"}) ELSE t,
             Done(k), [i \in 1..StackPages |-> i])

(* kernel_user_image_load past user_validate_image (UserImage has that). *)
LoadSegment(k, s, g) ==
    FoldLeft(LAMBDA t, i : IF t.ok THEN kernel_address_space_map_anonymous(t, s, g.va + i - 1, g.flags) ELSE t,
             k, [i \in 1..g.pages |-> i])
DestroyedUnlessOk(t, s) == IF t.ok THEN t ELSE Fail(kernel_address_space_destroy(t, s))
LoadStack(t, s) == IF t.ok THEN MapStack(t, s, StackTop - StackPages) ELSE t
LoadInto(t, s, image) ==
    IF ~t.ok THEN t
    ELSE DestroyedUnlessOk(LoadStack(FoldLeft(LAMBDA u, g : LoadSegment(u, s, g), t, image), s), s)
kernel_user_image_load(k, s, image) == LoadInto(kernel_address_space_create(k, s), s, image)

(* kernel_process_create_path: the file's bytes are on the heap while it   *)
(* is loaded; process_adopt_image adds the process and its fd table.       *)
WithTable(t, s, image) ==
    IF ~t.ok THEN HeapGive(t, 1)
    ELSE [t EXCEPT !.procs = Put(@, s, [image |-> image, slots |-> {}, next |-> 0, fb |-> [pa |-> 0, n |-> 0]])]
WithProcess(t, s, image) == IF t.ok THEN WithTable(HeapTake(t, 1), s, image) ELSE t
process_adopt_image(t, s, image) ==
    IF t.ok THEN DestroyedUnlessOk(WithProcess(HeapTake(t, 1), s, image), s) ELSE t
LoadData(t, s, image) == IF t.ok THEN HeapGive(kernel_user_image_load(t, s, image), 1) ELSE t
kernel_process_create_path(k, s, image) ==
    process_adopt_image(LoadData(HeapTake(k, 1), s, image), s, image)

(* process_map_thread_stack: the stacks go down from the first, a guard    *)
(* page below each, as far as the frame buffer's limit.                    *)
Bottom(slot) == StackTop - slot * (StackPages + 1) - StackPages
StackPagesOf(slot) == Bottom(slot)..(Bottom(slot) + StackPages - 1)
(* Mutant: a stack that could be mapped only in part stays. *)
StackKeepsPart(k, s, slot) ==
    IF slot > (StackTop - ImageLimit) \div (StackPages + 1) \/ Bottom(slot) < FramebufferLimit THEN Fail(k)
    ELSE MapStack(k, s, Bottom(slot))
PartOf(t, s, slot) == DOMAIN t.spaces[s].leaf \cap StackPagesOf(slot)
StackTakenBack(t, s, slot) ==
    IF t.ok THEN t ELSE Fail(kernel_address_space_unmap_range(t, s, Bottom(slot), Cardinality(PartOf(t, s, slot))))
process_map_thread_stack(k, s, slot) ==
    IF slot > (StackTop - ImageLimit) \div (StackPages + 1) \/ Bottom(slot) < FramebufferLimit THEN Fail(k)
    ELSE StackTakenBack(MapStack(k, s, Bottom(slot)), s, slot)

(* kernel_thread_create: the thread, its kernel stack and its user stack;  *)
(* the first thread takes the stack that came with the image.              *)
LinkThread(t, s, slot) ==
    IF ~t.ok THEN HeapGive(t, 1 + UnitsPerPage)
    ELSE [t EXCEPT !.procs[s].slots = @ \cup {slot}, !.procs[s].next = @ + 1]
WithUserStack(t, s, slot) ==
    IF ~t.ok THEN HeapGive(t, 1)
    ELSE LinkThread(IF slot = 0 THEN t ELSE process_map_thread_stack(t, s, slot), s, slot)
WithKernelStack(t, s) == IF t.ok THEN WithUserStack(HeapTake(t, UnitsPerPage), s, t.procs[s].next) ELSE t
kernel_thread_create(k, s) == WithKernelStack(HeapTake(k, 1), s)

kernel_thread_destroy(k, s, slot) ==
    [HeapGive(kernel_address_space_unmap_range(k, s, Bottom(slot), StackPages), 1 + UnitsPerPage)
        EXCEPT !.procs[s].slots = @ \ {slot}]

(* kernel_display_release_process and kernel_process_destroy. *)
Released(k, fb) == [k EXCEPT !.pmm = kernel_pmm_release_range(@, fb.pa, fb.n)]
OutOfView(k, s, n) == IF n = 0 THEN Done(k) ELSE kernel_address_space_unmap_range(k, s, ImageLimit, n)
kernel_display_release_process(k, s) ==
    [Released(OutOfView(k, s, k.procs[s].fb.n), k.procs[s].fb) EXCEPT
        !.owner = IF @ = s THEN 0 ELSE @, !.procs[s].fb = [pa |-> 0, n |-> 0]]

FreedProcess(k, s) ==
    [kernel_address_space_destroy(HeapGive(k, Cardinality(k.procs[s].slots) * (1 + UnitsPerPage) + 2), s)
        EXCEPT !.procs = Drop(@, {s})]
DestroyKeepsDisplay(k, s) == FreedProcess(k, s)  \* mutant
kernel_process_destroy(k, s) == FreedProcess(kernel_display_release_process(k, s), s)

(* kernel_display_set_mode for a mode of n pages, which the device takes   *)
(* or refuses: pages of its own only when the size changes, and the old    *)
(* mapping is put back when the new one cannot be made or is refused.      *)
Remapped(k, s, fb) ==
    IF fb.n = 0 THEN k ELSE kernel_address_space_map_physical(k, s, ImageLimit, fb.pa, fb.n)
ModeSet(t, s, old, new, taken) ==
    IF ~t.ok THEN Fail(Released(Remapped(t, s, old), new))
    ELSE IF ~taken THEN Fail(Released(Remapped(OutOfView(t, s, new.n), s, old), new))
    ELSE [Released(t, old) EXCEPT !.owner = s, !.procs[s].fb = new]
Replaced(t, s, old, new, taken) ==
    IF ~t.ok THEN Released(t, new)
    ELSE ModeSet(kernel_address_space_map_physical(t, s, ImageLimit, new.pa, new.n), s, old, new, taken)
kernel_display_set_mode(k, s, n, taken) ==
    IF n > FramebufferLimit - ImageLimit \/ k.owner \notin {0, s} THEN Fail(k)
    ELSE IF k.procs[s].fb.n = n THEN IF taken THEN [k EXCEPT !.owner = s] ELSE Fail(k)
    ELSE IF ContiguousFor(k.pmm, n) = 0 THEN Fail([k EXCEPT !.pmm = kernel_pmm_alloc_contiguous(@, n)])
    ELSE Replaced(OutOfView([k EXCEPT !.pmm = kernel_pmm_alloc_contiguous(@, n)], s, k.procs[s].fb.n),
                  s, k.procs[s].fb, [pa |-> ContiguousFor(k.pmm, n), n |-> n], taken)

-----------------------------------------------------------------------------
VARIABLES kmem,     \* the record k, between calls
          memCalls  \* how many calls were made, up to MaxMemoryCalls

memVars == <<kmem, memCalls>>

Call(result) == memCalls < MaxMemoryCalls /\ memCalls' = memCalls + 1 /\ kmem' = Done(result)

EmptyMemory ==
    [pmm |-> kernel_pmm_init, root |-> 0, level1 |-> <<>>, level0 |-> <<>>, leaf |-> <<>>, big |-> {},
     heap |-> <<>>, used |-> 0, vbr |-> 0, demand |-> 0, spaces |-> <<>>, procs |-> <<>>, owner |-> 0,
     ok |-> TRUE]

(* The order of kernel_main; a kernel whose boot fails stops there.        *)
BootedMemory ==
    handle_load_page_fault(kernel_exception_init(BootHeap(kernel_bootstrap_mmu(EmptyMemory))))

MemoryInit == kmem = BootedMemory /\ kmem.ok /\ memCalls = 0

CreateProcess == \E s \in Processes \ DOMAIN kmem.procs, image \in Images :
    Call(kernel_process_create_path(kmem, s, image))
CreateThread == \E s \in DOMAIN kmem.procs :
    /\ Cardinality(kmem.procs[s].slots) < MaxThreads
    /\ Call(kernel_thread_create(kmem, s))
DestroyThread == \E s \in DOMAIN kmem.procs : \E slot \in kmem.procs[s].slots :
    Call(kernel_thread_destroy(kmem, s, slot))
DestroyProcess == \E s \in DOMAIN kmem.procs : Call(kernel_process_destroy(kmem, s))
SetMode == \E s \in DOMAIN kmem.procs, n \in FramebufferSizes, taken \in BOOLEAN :
    Call(kernel_display_set_mode(kmem, s, n, taken))

MemoryNext == CreateProcess \/ CreateThread \/ DestroyThread \/ DestroyProcess \/ SetMode

-----------------------------------------------------------------------------
(* The frames that the parts of the kernel hold, and how many each thinks  *)
(* it has: the two agree when none has two holders.                        *)
FramesOf(space) == {r.pa : r \in {r \in Range(space.pages) : r.kind # "external"}}
FrameBuffer(p) == p.fb.pa..(p.fb.pa + p.fb.n - 1)
HeldFrames(k) ==
    UNION ({FreePages(k.pmm), {k.root, k.vbr, k.demand}, Range(k.level1), Range(k.level0), Range(k.heap)}
             \cup {FramesOf(k.spaces[s]) : s \in DOMAIN k.spaces}
             \cup {FrameBuffer(k.procs[s]) : s \in DOMAIN k.procs})
HeldCount(k) ==
    k.pmm.free_count + 3 + Cardinality(DOMAIN k.level1) + Cardinality(DOMAIN k.level0) + Len(k.heap)
    + MapThenSumSet(LAMBDA s : Len(SelectSeq(k.spaces[s].pages, LAMBDA r : r.kind # "external")), DOMAIN k.spaces)
    + MapThenSumSet(LAMBDA s : k.procs[s].fb.n, DOMAIN k.procs)

(* kernel/pmm.c and all its users: every usable frame is free or has one   *)
(* holder (the kernel's tables, the heap, a space, a frame buffer), and the *)
(* count of free pages is right, whatever sequence of calls succeeded or   *)
(* ran out of memory part way: no frame is lost, none is given out twice.  *)
PagesAccounted ==
    LET all == UNION {PagesOf(MemoryMap[i]) : i \in 1..Len(MemoryMap)}
                 \cup InitialTables[1]..(InitialTables[1] + InitialTables[2] - 1)
    IN /\ HeldFrames(kmem) = all /\ HeldCount(kmem) = Cardinality(all)
       /\ kmem.pmm.free_count = Len(kmem.pmm.recycled) + Cardinality(FreshPages(kmem.pmm))

(* What a process may reach: its image, its frame buffer, and the stacks   *)
(* of its live threads (or the first stack, before the first thread).      *)
StackSlots(p) == IF p.next = 0 THEN {0} ELSE p.slots
UserPages(space) == {va \in DOMAIN space.leaf : "U" \in space.leaf[va].flags}
ImagePages(image) == UNION {image[i].va..(image[i].va + image[i].pages - 1) : i \in 1..Len(image)}

(* address_space.c, process.c and user_loader.c: the user pages of a       *)
(* process are its whole image, the whole stack of every live thread with  *)
(* an unmapped guard page below it, and whole or not at all its frame      *)
(* buffer; each entry has the one record of its page, and no page is both  *)
(* writable and executable.  A call that failed leaves nothing mapped.     *)
MappingsExact ==
    \A s \in DOMAIN kmem.procs :
        LET space == kmem.spaces[s]
            p == kmem.procs[s]
            stacks == UNION {StackPagesOf(slot) : slot \in StackSlots(p)}
            frame == ImageLimit..(ImageLimit + p.fb.n - 1)
            records == SelectSeq(space.pages, LAMBDA r : r.kind # "table")
        IN /\ UserPages(space) \in {ImagePages(p.image) \cup stacks, ImagePages(p.image) \cup stacks \cup frame}
           /\ \A slot \in StackSlots(p) : Bottom(slot) - 1 \notin UserPages(space)
           /\ Len(records) = Cardinality(UserPages(space))
           /\ \A va \in UserPages(space) :
                /\ \E i \in 1..Len(records) : records[i].va = va /\ records[i].pa = space.leaf[va].pa
                /\ ~({"W", "X"} \subseteq space.leaf[va].flags)

(* docs/kernel/README.md has every address space share the kernel's        *)
(* mappings: a page that the kernel's own table maps is mapped, by the     *)
(* same table, in the table of every process, under which the kernel runs  *)
(* when that process traps.                                                *)
KernelMapped(space, k, va) ==
    IF Index2(va) # 0
    THEN Index2(va) \in DOMAIN space.shared /\ space.shared[Index2(va)] = k.level1[Index2(va)]
    ELSE /\ Index1(va) \in DOMAIN space.low
         /\ IF Index1(va) \in space.own
            THEN va \in DOMAIN space.leaf /\ space.leaf[va].pa = k.leaf[va]
            ELSE space.low[Index1(va)] = k.level0[Index1(va)]
KernelShared ==
    \A s \in DOMAIN kmem.procs : \A va \in DOMAIN kmem.leaf : KernelMapped(kmem.spaces[s], kmem, va)
=============================================================================
