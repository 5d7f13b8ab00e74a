----------------------------- MODULE UserImage -----------------------------
(***************************************************************************)
(* How a program gets into memory: the validation of an executable file    *)
(* and the placing of its segments (kernel/user_loader.c), and the layout  *)
(* of the arguments on the first stack (kernel_thread_set_startup of       *)
(* kernel/process.c).  Both are arithmetic on numbers of WordMax + 1       *)
(* values, which wrap round.                                               *)
(*                                                                         *)
(* An executable is a record: header says whether the fields compared with *)
(* constants and the checksums are right, then the file's size, the end of *)
(* the segment table, the entry point and the segments, in which plain     *)
(* says whether type and reserved field are right.                         *)
(***************************************************************************)
EXTENDS Integers, Sequences, FiniteSets, SequencesExt

CONSTANTS WordMax,                        \* UINT64_MAX
          LoaderPage,                     \* KERNEL_PAGE_SIZE
          LoaderBase, LoaderLimit,        \* KERNEL_USER_IMAGE_BASE and _LIMIT
          Executables,                    \* the files
          StackBottom, StackEnd,          \* the first user stack
          PointerSize, StackAlign,        \* 8 and 16
          Vectors                         \* argument and environment vectors: sequences of string sizes

ASSUME LoaderAssumption ==
    /\ LoaderBase % LoaderPage = 0 /\ LoaderLimit % LoaderPage = 0 /\ LoaderLimit + LoaderPage <= WordMax
    /\ StackBottom % StackAlign = 0 /\ StackAlign % PointerSize = 0

Wrap(n) == n % (WordMax + 1)
user_add_u64(left, right) == right <= WordMax - left
user_power_of_two(n) == \E i \in 0..6 : n = 2^i

(* The test of a segment on its own. *)
SegmentOk(g, img) ==
    /\ g.plain /\ "R" \in g.flags /\ ~({"W", "X"} \subseteq g.flags)
    /\ g.memory # 0 /\ g.file <= g.memory
    /\ user_power_of_two(g.align) /\ g.load = g.va
    /\ g.va % LoaderPage = 0 /\ g.va % g.align = 0
    /\ g.va >= LoaderBase /\ user_add_u64(g.va, g.memory) /\ Wrap(g.va + g.memory) <= LoaderLimit
    /\ g.file # 0 => g.offset >= img.table /\ user_add_u64(g.offset, g.file) /\ Wrap(g.offset + g.file) <= img.size

EndOf(g) == Wrap(g.va + g.memory)
Apart(g, h) == ~(g.va < EndOf(h) /\ h.va < EndOf(g))

user_validate_image(img) ==
    LET segments == img.segments
    IN /\ img.header /\ segments # <<>>
       /\ \A i \in 1..Len(segments) :
            SegmentOk(segments[i], img) /\ \A j \in 1..(i - 1) : Apart(segments[i], segments[j])
       /\ \E i \in 1..Len(segments) :
            "X" \in segments[i].flags /\ img.entry >= segments[i].va /\ img.entry < EndOf(segments[i])

(* user_load_segment: the pages it asks for, in order, each with the bytes *)
(* that it copies: count bytes from source in the file to target in the    *)
(* page.                                                                   *)
PageCount(g) == (EndOf(g) + LoaderPage - 1) \div LoaderPage - g.va \div LoaderPage
CopyEnd(g, page) == IF page + LoaderPage < Wrap(g.va + g.file) THEN page + LoaderPage ELSE Wrap(g.va + g.file)
user_load_segment(g) ==
    [i \in 1..PageCount(g) |->
        LET page == g.va + (i - 1) * LoaderPage
        IN [va |-> page, flags |-> g.flags, source |-> g.offset + page - g.va,
            count |-> IF CopyEnd(g, page) > page THEN CopyEnd(g, page) - page ELSE 0]]
LoadPlan(img) ==
    FlattenSeq([i \in 1..Len(img.segments) |-> user_load_segment(img.segments[i])])

-----------------------------------------------------------------------------
(* kernel_thread_set_startup: strings from the top down, then the table of *)
(* argc, argv, NULL, envp, NULL, aligned down.  Fits is the test before    *)
(* each string is placed; a call that fails leaves the registers alone.    *)
Placed(lengths, top) ==
    [i \in 1..Len(lengths) |-> top - FoldLeft(LAMBDA n, j : n + lengths[j], 0, [j \in 1..i |-> j])]
Lowest(addresses, top) == IF addresses = <<>> THEN top ELSE Last(addresses)
NoSecondNull(args, env) == (1 + Len(args) + 1 + Len(env)) * PointerSize  \* mutant
TableSize(args, env) == (1 + Len(args) + 1 + Len(env) + 1) * PointerSize
StackPointer(cursor, size) == ((cursor - size) \div StackAlign) * StackAlign

kernel_thread_set_startup(args, env) ==
    LET strings == Placed(args \o env, StackEnd)
        cursor == Lowest(strings, StackEnd)
        size == TableSize(args, env)
        sp == StackPointer(cursor, size)
    IN IF cursor < StackBottom \/ cursor < StackBottom + size \/ sp < StackBottom
       THEN [done |-> FALSE, strings |-> <<>>, sp |-> 0, argv |-> 0, envp |-> 0]
       ELSE [done |-> TRUE, strings |-> strings, sp |-> sp, argv |-> sp + PointerSize,
             envp |-> sp + (1 + Len(args) + 1) * PointerSize]

-----------------------------------------------------------------------------
VARIABLE launch  \* the step reached, its input, and what it produced

LaunchInit ==
    \/ \E img \in Executables : launch = [step |-> "file", image |-> img]
    \/ \E args \in Vectors, env \in Vectors : launch = [step |-> "thread", args |-> args, env |-> env]

Validate ==
    /\ launch.step = "file"
    /\ launch' = [launch EXCEPT !.step = IF user_validate_image(launch.image) THEN "accepted" ELSE "refused"]
Load ==
    /\ launch.step = "accepted"
    /\ launch' = [step |-> "loaded", image |-> launch.image, pages |-> LoadPlan(launch.image)]
Startup ==
    /\ launch.step = "thread"
    /\ launch' = [step |-> "started", args |-> launch.args, env |-> launch.env,
                  result |-> kernel_thread_set_startup(launch.args, launch.env)]

LaunchNext == Validate \/ Load \/ Startup

-----------------------------------------------------------------------------
(* Whatever file user_validate_image accepts, user_load_segment asks for   *)
(* no page twice and for none outside the image window, maps none writable *)
(* and executable, copies every byte of the segments' file parts and reads *)
(* none outside the file, covers all of every segment's memory, and the    *)
(* entry point is in an executable page.                                   *)
LoadsApart ==
    launch.step = "loaded" =>
        LET pages == launch.pages
            img == launch.image
            Bytes(p) == p.va..(p.va + LoaderPage - 1)
        IN /\ \A i, j \in 1..Len(pages) : pages[i].va = pages[j].va => i = j
           /\ \A i \in 1..Len(pages) :
                /\ Bytes(pages[i]) \subseteq LoaderBase..(LoaderLimit - 1)
                /\ ~({"W", "X"} \subseteq pages[i].flags)
                /\ pages[i].count > 0 => pages[i].source >= img.table /\ pages[i].source + pages[i].count <= img.size
           /\ \A n \in 1..Len(img.segments) :
                LET g == img.segments[n]
                    Own == {i \in 1..Len(pages) : pages[i].va \in g.va..(g.va + g.memory - 1)}
                IN /\ g.va..(g.va + g.memory - 1) \subseteq UNION {Bytes(pages[i]) : i \in Own}
                   /\ FoldLeft(LAMBDA sum, i : IF i \in Own THEN sum + pages[i].count ELSE sum, 0,
                               [i \in 1..Len(pages) |-> i]) = g.file
           /\ \E i \in 1..Len(pages) : "X" \in pages[i].flags /\ img.entry \in Bytes(pages[i])

(* When kernel_thread_set_startup succeeds, the strings and the table of   *)
(* pointers lie in the thread's stack without overlapping, the stack       *)
(* pointer is aligned, and the environment's table is where the register   *)
(* says, between the two NULLs.                                            *)
StartupFits ==
    launch.step = "started" /\ launch.result.done =>
        LET r == launch.result
            lengths == launch.args \o launch.env
            String(i) == r.strings[i]..(r.strings[i] + lengths[i] - 1)
            table == r.sp..(r.envp + (Len(launch.env) + 1) * PointerSize - 1)
        IN /\ r.sp % StackAlign = 0
           /\ \A i, j \in 1..Len(lengths) : i # j => String(i) \cap String(j) = {}
           /\ \A i \in 1..Len(lengths) : String(i) \cap table = {} /\ String(i) \subseteq StackBottom..(StackEnd - 1)
           /\ table \subseteq StackBottom..(StackEnd - 1)

(* A program that is started has exactly its image and its arguments where *)
(* the ABI says (user_load_segment and kernel_thread_set_startup).         *)
LaunchSound == LoadsApart /\ StartupFits
=============================================================================
