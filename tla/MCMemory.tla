------------------------------ MODULE MCMemory ------------------------------
(***************************************************************************)
(* Memory for TLC: the address spaces over the page allocator, the blocks  *)
(* of the heap, the linking and the loading of a program, and the devices  *)
(* on the bus, each by itself; model says which of them a behaviour runs.  *)
(***************************************************************************)
EXTENDS KernelMemory, KernelHeap, Linker, HotPlug

VARIABLE model

(* Two usable ranges, the first with a page that is only partly in it, and *)
(* page 0, the firmware's page tables and the kernel's image outside.      *)
TwoRanges ==
    LET Entry(first, end, usable) == [base |-> first, length |-> end - first, usable |-> usable]
        last == 2 * RamPages - 9
    IN <<Entry(0, 10, FALSE), Entry(10, 55, TRUE), Entry(55, 57, FALSE), Entry(57, last, TRUE),
         Entry(last, 2 * RamPages, FALSE)>>
FirmwareTables == <<2, 3>>
LowMappings == <<[va |-> 1, pa |-> 1], [va |-> 24, pa |-> 0]>>
KernelSections == <<[va |-> 32, pa |-> RamPages - 4]>>
Code == [va |-> 8, pages |-> 1, flags |-> {"R", "X"}]
TwoImages == {<<Code>>, <<Code, [va |-> 9, pages |-> 2, flags |-> {"R", "W"}]>>}

(* Files of up to two segments: the first takes in every edge of the       *)
(* window, of the word and of the file, the second lies near it.           *)
Segments(flags, offsets, vas, files, memories, aligns) ==
    {[plain |-> TRUE, flags |-> f, offset |-> o, load |-> va, va |-> va, file |-> n, memory |-> m, align |-> a] :
        f \in flags, o \in offsets, va \in vas, n \in files, m \in memories, a \in aligns}
FirstSegments ==
    Segments({{"R", "X"}, {"R", "W"}}, {6, 29}, {4, 8, 12, 20}, {0, 3, 5}, {0, 1, 5, 8, 28}, {1, 8})
SecondSegments ==
    Segments({{"R", "X"}}, {6, 8}, {8, 12}, {0, 3}, {3, 4}, {4})
      \cup Segments({{"R", "W"}}, {6}, {16, 24, 28}, {2}, {4, 8}, {4})
OddSegments ==
    Segments({{"R", "W", "X"}, {"X"}}, {6}, {8}, {3}, {4}, {4}) \cup Segments({{"R", "X"}}, {6}, {8, 10}, {3}, {4}, {1, 3})
File(ok, entry, segments) == [header |-> ok, size |-> 12, table |-> 6, entry |-> entry, segments |-> segments]
Files ==
    {File(TRUE, e, <<g, h>>) : e \in {9, 12}, g \in FirstSegments, h \in SecondSegments}
      \cup {File(ok, 8, <<g>>) : ok \in BOOLEAN, g \in FirstSegments \cup OddSegments}
      \cup {File(TRUE, 8, <<>>)}
StringVectors == UNION {[1..n -> {1, 2, 5, 9}] : n \in 0..2}

(* Objects for the linker.  A program calls f and may use g; others define *)
(* them in the ways there are, or need a name in their turn.               *)
Section(out, size, align) ==
    [out |-> out, size |-> size, file |-> IF out = 4 THEN 0 ELSE size, align |-> align, nobits |-> out = 4]
Named(name, flags, section, value, size) ==
    [name |-> name, flags |-> flags, section |-> section, value |-> value, size |-> size]
Field(offset, type, symbol, addend) ==
    [section |-> 1, offset |-> offset, type |-> type, symbol |-> symbol, addend |-> addend]
ObjectFile(sections, symbols, fields) == [sections |-> sections, symbols |-> symbols, relocations |-> fields]

Program(t, u, addend) ==
    ObjectFile(<<Section(1, 3, 1)>>,
               <<Named("start", {"GLOBAL", "DEFINED", "ENTRY"}, 1, 0, 0), Named("f", {"GLOBAL"}, 0, 0, 0),
                 Named("g", {"GLOBAL", "WEAK"}, 0, 0, 0)>>,
               <<Field(0, t, 2, addend), Field(1, u, 3, 0)>>)
Programs == {Program(t, u, a) : t \in {"REL32", "ABS32"}, u \in {"ABS64", "REL32"}, a \in {-1, 2}}
Strong(name) == ObjectFile(<<Section(1, 1, 2)>>, <<Named(name, {"GLOBAL", "DEFINED"}, 1, 1, 0)>>, <<>>)
Weak(name) == ObjectFile(<<Section(3, 2, 2)>>, <<Named(name, {"GLOBAL", "DEFINED", "WEAK"}, 1, 0, 0)>>, <<>>)
Common(name, size, align) == ObjectFile(<<Section(4, 1, 1)>>, <<Named(name, {"GLOBAL", "COMMON"}, 0, align, size)>>, <<>>)
Chain ==
    ObjectFile(<<Section(1, 2, 1), Section(2, 1, 1)>>,
               <<Named("f", {"GLOBAL", "DEFINED"}, 2, 0, 0), Named("g", {"GLOBAL"}, 0, 0, 0), Named("g", {"DEFINED"}, 1, 1, 0)>>,
               <<Field(0, "REL32", 2, 0), Field(1, "ABS32", 3, 0)>>)
AtThirty == ObjectFile(<<Section(0, 1, 1)>>, <<Named("f", {"GLOBAL", "DEFINED"}, Absolute, 30, 0)>>, <<>>)
SecondEntry == ObjectFile(<<Section(1, 1, 1)>>, <<Named("go", {"GLOBAL", "DEFINED", "ENTRY"}, 1, 0, 0)>>, <<>>)
Broken == ObjectFile(<<Section(1, 1, 2)>>, <<Named("f", {"GLOBAL", "DEFINED"}, 1, 1, 1)>>, <<>>)
Tentative == {Strong("f"), Weak("f"), Common("f", 1, 4), Common("f", 2, 1)}
Providers == Tentative \cup {Strong("g"), Chain, AtThirty, SecondEntry, Broken}

LinkCall(objects, archives, bases, entries) ==
    [objects : objects, archives : archives, base : bases, entry : entries, relocatable : BOOLEAN]
LinkCalls ==
    LinkCall({<<p, o>> : p \in Programs, o \in Providers}, {<<>>}, {0, 8, 24}, {""})
      \cup LinkCall({<<p, o, q>> : p \in Programs, o, q \in Tentative}, {<<>>}, {0, 8, 12}, {""})
      \cup LinkCall({<<p>> : p \in Programs} \cup {<<>>, <<SecondEntry>>},
                {<<<<o, q>>>> : o, q \in Providers} \cup {<<<<o>>, <<q>>>> : o, q \in {Chain, Strong("g"), Weak("f")}},
                {8}, {"", "f"})

(* A device with two ranges and one with two lines: three ranges do not    *)
(* fit the bus, which has room for the hub and two.                        *)
TwoModules ==
    {[bars |-> <<[size |-> 1, align |-> 1], [size |-> 2, align |-> 2]>>, irqs |-> 1],
     [bars |-> <<[size |-> 2, align |-> 1]>>, irqs |-> 2]}

vars == <<memVars, heapVars, launch, link, plugVars, model>>

OfPages(A) == model = "pages" /\ A /\ UNCHANGED <<heapVars, launch, link, plugVars, model>>
OfHeap(A) == model = "heap" /\ A /\ UNCHANGED <<memVars, launch, link, plugVars, model>>
OfLaunch(A) == model = "launch" /\ A /\ UNCHANGED <<memVars, heapVars, link, plugVars, model>>
OfLink(A) == model = "link" /\ A /\ UNCHANGED <<memVars, heapVars, launch, plugVars, model>>
OfBus(A) == model = "bus" /\ A /\ UNCHANGED <<memVars, heapVars, launch, link, model>>

Init ==
    /\ MemoryInit /\ HeapInit /\ PlugInit
    /\ \/ model \in {"pages", "heap", "bus"} /\ launch = [step |-> "none"] /\ link = [step |-> "none"]
       \/ model = "launch" /\ LaunchInit /\ link = [step |-> "none"]
       \/ model = "link" /\ LinkInit /\ launch = [step |-> "none"]

Next ==
    \/ OfPages(CreateProcess) \/ OfPages(CreateThread) \/ OfPages(DestroyThread)
    \/ OfPages(DestroyProcess) \/ OfPages(SetMode)
    \/ OfHeap(Malloc) \/ OfHeap(Calloc) \/ OfHeap(Free) \/ OfHeap(FreeAgain)
    \/ OfLaunch(Validate) \/ OfLaunch(Load) \/ OfLaunch(Startup)
    \/ OfLink(ReadObjects) \/ OfLink(ExtractMember) \/ OfLink(RoundEnds) \/ OfLink(Collect)
    \/ OfLink(Locate) \/ OfLink(Relocate) \/ OfLink(WriteImage)
    \/ OfBus(PlugNext)

(* Host threads, processors and the thread that ticks go on when they can. *)
Fairness ==
    /\ \A h \in HostThreads : WF_vars(OfBus(HostStep(h)))
    /\ \A v \in Visitors : WF_vars(OfBus(VisitStep(v)))

Spec == Init /\ [][Next]_vars /\ Fairness

(* The address spaces alone. *)
PagesOnly == (Init /\ model = "pages") /\ [][Next]_vars
=============================================================================
