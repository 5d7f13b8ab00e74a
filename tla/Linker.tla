------------------------------- MODULE Linker -------------------------------
(***************************************************************************)
(* cvmlink (tools/linker/main.c): members are taken from archives, global  *)
(* symbols resolved, sections and common symbols placed, relocations       *)
(* applied, and an executable written that the linker itself validates     *)
(* (cvm_kernel_image_validate of src/boot_format.c); the kernel's loader   *)
(* (UserImage) reads it with a validation of its own.                      *)
(*                                                                         *)
(* An object file has                                                      *)
(*   sections     [out, size, file, align, nobits]: out numbers .text,     *)
(*                .rodata, .data and .bss from 1, and 0 is any other name; *)
(*                file is how much of its size is in the file;             *)
(*   symbols      [name, flags, section, value, size]: a subset of GLOBAL, *)
(*                DEFINED, WEAK, COMMON and ENTRY, a section's number or   *)
(*                Absolute; the value of a common one is its alignment;    *)
(*   relocations  [section, offset, type, symbol, addend].                 *)
(* Of the contents only the relocated fields are kept.  A 32-bit field is  *)
(* one unit wide and holds 0..HalfMax.                                     *)
(***************************************************************************)
EXTENDS UserImage

CONSTANTS HalfMax,      \* UINT32_MAX
          Inputs        \* [objects, archives, base, entry, relocatable]

Absolute == -1
Failed == -1
Outputs == 1..4

Is(symbol, flag) == flag \in symbol.flags
Defines(symbol) == Is(symbol, "DEFINED") \/ Is(symbol, "COMMON")
Width(type) == IF type = "ABS64" THEN 2 ELSE 1

(* object_valid: what a file must satisfy to be read. *)
SectionValid(g) == user_power_of_two(g.align) /\ g.file <= g.size /\ (g.nobits => g.file = 0)
SymbolValid(object, y) ==
    /\ Is(y, "WEAK") => Is(y, "GLOBAL")
    /\ Is(y, "COMMON") => ~Is(y, "DEFINED") /\ Is(y, "GLOBAL") /\ y.size # 0 /\ user_power_of_two(y.value)
    /\ Is(y, "ENTRY") => Is(y, "DEFINED")
    /\ Is(y, "DEFINED") /\ y.section # Absolute =>
          y.section \in 1..Len(object.sections) /\ y.value + y.size <= object.sections[y.section].size
RelocationValid(object, r) ==
    /\ r.section \in 1..Len(object.sections) /\ r.symbol \in 1..Len(object.symbols)
    /\ r.offset + Width(r.type) <= object.sections[r.section].file
object_valid(object) ==
    /\ object.sections # <<>>
    /\ \A g \in ToSet(object.sections) : SectionValid(g)
    /\ \A y \in ToSet(object.symbols) : SymbolValid(object, y)
    /\ \A r \in ToSet(object.relocations) : RelocationValid(object, r)

-----------------------------------------------------------------------------
(* Symbols. *)

SymbolsOf(objects) == UNION {ToSet(objects[o].symbols) : o \in 1..Len(objects)}

object_defines(objects, name) ==
    \E y \in SymbolsOf(objects) : Is(y, "GLOBAL") /\ Defines(y) /\ y.name = name
object_needs(objects, name) ==
    /\ ~object_defines(objects, name)
    /\ \E y \in SymbolsOf(objects) : ~Defines(y) /\ ~Is(y, "WEAK") /\ y.name = name
objects_have_entry(objects) == \E y \in SymbolsOf(objects) : Is(y, "ENTRY")

(* The index of an archive that create_archive of tools/archive writes:    *)
(* its members' global definitions, in order.                              *)
ArchiveIndex(archive) ==
    FlattenSeq([m \in 1..Len(archive) |->
        LET globals == SelectSeq(archive[m].symbols, LAMBDA y : Is(y, "GLOBAL") /\ Defines(y))
        IN [i \in 1..Len(globals) |-> [name |-> globals[i].name, member |-> m, entry |-> Is(globals[i], "ENTRY")]]])

Wants(objects, entry, listed) ==
    \/ object_needs(objects, listed.name)
    \/ entry # "" /\ entry = listed.name /\ ~object_defines(objects, listed.name)
    \/ entry = "" /\ ~objects_have_entry(objects) /\ listed.entry

(* One visit of extract_archives to an archive: the member of the first    *)
(* entry of its index that is wanted, or 0.                                *)
MemberWanted(objects, entry, archive, extracted) ==
    LET index == SelectSeq(ArchiveIndex(archive), LAMBDA l : l.member \notin extracted /\ Wants(objects, entry, l))
    IN IF index = <<>> THEN 0 ELSE Head(index).member

rank(symbol) == IF Is(symbol, "COMMON") THEN 2 ELSE IF Is(symbol, "WEAK") THEN 1 ELSE 3

global_index(globals, name) == SelectInSeq(globals, LAMBDA d : d.name = name)

Definition(objects, o, s) ==
    LET y == objects[o].symbols[s]
        common == Is(y, "COMMON")
    IN [name |-> y.name, object |-> o, symbol |-> s, common |-> common, rank |-> rank(y), address |-> 0,
        size |-> IF common THEN y.size ELSE 0, align |-> IF common THEN y.value ELSE 0]

Larger(m, n) == IF m > n THEN m ELSE n

(* Mutant: the first of several common symbols decides the size. *)
FirstCommonSize(previous, definition) ==
    CASE previous.common /\ definition.common -> [previous EXCEPT !.align = Larger(@, definition.align)]
      [] definition.rank > previous.rank /\ ~(previous.common /\ definition.common) -> definition
      [] OTHER -> previous

(* What becomes of a definition when another one of the name comes.        *)
Merged(previous, definition) ==
    CASE previous.common /\ definition.common ->
            [previous EXCEPT !.size = Larger(@, definition.size), !.align = Larger(@, definition.align)]
      [] definition.rank > previous.rank /\ ~(previous.common /\ definition.common) -> definition
      [] OTHER -> previous

CollectSymbol(objects, state, o, s) ==
    LET y == objects[o].symbols[s]
        definition == Definition(objects, o, s)
        i == global_index(state.globals, y.name)
        clash == \/ Is(y, "ENTRY") /\ state.entry \notin {"", y.name}
                 \/ Is(y, "GLOBAL") /\ Defines(y) /\ i # 0 /\ rank(y) = 3 /\ state.globals[i].rank = 3
    IN [okay |-> state.okay /\ ~clash,
        entry |-> IF Is(y, "ENTRY") THEN y.name ELSE state.entry,
        globals |-> IF ~(Is(y, "GLOBAL") /\ Defines(y)) THEN state.globals
                    ELSE IF i = 0 THEN Append(state.globals, definition)
                    ELSE [state.globals EXCEPT ![i] = Merged(@, definition)]]

AllSymbols(objects) ==
    FlattenSeq([o \in 1..Len(objects) |-> [s \in 1..Len(objects[o].symbols) |-> <<o, s>>]])

Undefined(objects, globals) ==
    \E y \in SymbolsOf(objects) : ~Defines(y) /\ ~Is(y, "WEAK") /\ global_index(globals, y.name) = 0

collect_globals(objects) ==
    FoldLeft(LAMBDA state, os : CollectSymbol(objects, state, os[1], os[2]),
             [okay |-> TRUE, entry |-> "", globals |-> <<>>], AllSymbols(objects))
-----------------------------------------------------------------------------
(* Places.  Additions beyond WordMax are refused before they are made.     *)

AlignUp(n, align) == ((n + align - 1) \div align) * align
CanAlign(n, align) == n <= WordMax - (align - 1)

SectionOf(object, out) == SelectInSeq(object.sections, LAMBDA g : g.out = out)

(* The sections of one output, one object after the other: where each one  *)
(* begins in the output, and the output's size.                            *)
PlaceSection(objects, out, state, o) ==
    LET i == SectionOf(objects[o], out)
        g == objects[o].sections[i]
        twice == Cardinality({j \in 1..Len(objects[o].sections) : objects[o].sections[j].out = out}) > 1
        start == AlignUp(state.cursor, g.align)
    IN IF i = 0 THEN [state EXCEPT !.offsets = Append(@, Failed)]
       ELSE IF twice \/ g.nobits # (out = 4) \/ ~CanAlign(state.cursor, g.align) \/ g.size > WordMax - start
            THEN [state EXCEPT !.okay = FALSE, !.offsets = Append(@, Failed)]
            ELSE [okay |-> state.okay, cursor |-> start + g.size, offsets |-> Append(state.offsets, start)]

LocateOutput(objects, state, out) ==
    LET start == AlignUp(state.address, LoaderPage)
        placed == FoldLeft(LAMBDA t, o : PlaceSection(objects, out, t, o),
                           [okay |-> TRUE, cursor |-> 0, offsets |-> <<>>], [o \in 1..Len(objects) |-> o])
    IN IF ~state.okay \/ ~CanAlign(state.address, LoaderPage) \/ ~placed.okay \/ placed.cursor > WordMax - start
       THEN [state EXCEPT !.okay = FALSE]
       ELSE [okay |-> TRUE, address |-> start + placed.cursor,
             output |-> Append(state.output, [start |-> start, size |-> placed.cursor, offsets |-> placed.offsets])]

locate_sections(objects, base) ==
    FoldLeft(LAMBDA state, out : LocateOutput(objects, state, out),
             [okay |-> TRUE, address |-> base, output |-> <<>>], <<1, 2, 3, 4>>)

(* Common symbols follow what .bss holds already. *)
AllocateCommon(bss, state, definition) ==
    LET at == AlignUp(bss.start + state.cursor, definition.align)
    IN CASE ~definition.common -> [state EXCEPT !.globals = Append(@, definition)]
         [] definition.common /\ ( \/ state.cursor > WordMax - bss.start
                                   \/ ~CanAlign(bss.start + state.cursor, definition.align)
                                   \/ definition.size > WordMax - (at - bss.start) ) ->
               [state EXCEPT !.okay = FALSE]
         [] OTHER -> [okay |-> state.okay, cursor |-> at - bss.start + definition.size,
                      globals |-> Append(state.globals, [definition EXCEPT !.address = at])]

allocate_common_symbols(globals, bss) ==
    FoldLeft(LAMBDA state, d : AllocateCommon(bss, state, d),
             [okay |-> TRUE, cursor |-> bss.size, globals |-> <<>>], globals)

(* The place of a defined symbol that is not common, or Failed.            *)
PlaceOf(objects, output, o, s) ==
    LET y == objects[o].symbols[s]
        g == objects[o].sections[y.section]
    IN IF y.section = Absolute THEN y.value
       ELSE IF g.out = 0 \/ y.value > WordMax - output[g.out].offsets[o]
                         \/ output[g.out].start > WordMax - output[g.out].offsets[o] - y.value
            THEN Failed
            ELSE output[g.out].start + output[g.out].offsets[o] + y.value

(* A local definition stands for itself; any other symbol for the global   *)
(* definition of its name, or for 0 if it is weak and there is none.       *)
symbol_address(objects, globals, output, o, s) ==
    LET y == objects[o].symbols[s]
        i == global_index(globals, y.name)
    IN CASE ~Is(y, "GLOBAL") /\ Is(y, "DEFINED") -> PlaceOf(objects, output, o, s)
         [] (Is(y, "GLOBAL") \/ ~Is(y, "DEFINED")) /\ i = 0 -> IF Is(y, "WEAK") THEN 0 ELSE Failed
         [] OTHER -> IF globals[i].common THEN globals[i].address
                     ELSE PlaceOf(objects, output, globals[i].object, globals[i].symbol)

-----------------------------------------------------------------------------
(* Relocations. *)

add_signed(value, addend) == IF value + addend \in 0..WordMax THEN value + addend ELSE Failed

(* The value of a field at place, or Failed when it does not fit. *)
Encoded(type, target, place) ==
    LET distance == target - (place + Width(type))
        half == (HalfMax + 1) \div 2
    IN CASE type = "ABS64" -> target
         [] type = "ABS32" -> IF target > HalfMax THEN Failed ELSE target
         [] type = "REL32" -> IF distance \in (-half)..(half - 1) THEN distance % (HalfMax + 1) ELSE Failed

Relocated(objects, globals, output, o, r) ==
    LET g == objects[o].sections[r.section]
        place == output[g.out].start + output[g.out].offsets[o] + r.offset
        symbol == symbol_address(objects, globals, output, o, r.symbol)
        target == IF symbol = Failed THEN Failed ELSE add_signed(symbol, r.addend)
    IN IF g.out \in {0, 4} \/ target = Failed THEN [okay |-> FALSE]
       ELSE [okay |-> Encoded(r.type, target, place) # Failed, place |-> place, type |-> r.type,
             value |-> Encoded(r.type, target, place), object |-> o, symbol |-> r.symbol, addend |-> r.addend]

(* The fields, not the bytes: in the inputs no two fields share a byte, so *)
(* that the order of the writes does not matter.                           *)
apply_relocations(objects, globals, output) ==
    UNION {{Relocated(objects, globals, output, o, r) : r \in ToSet(objects[o].relocations)} :
             o \in 1..Len(objects)}

-----------------------------------------------------------------------------
(* The image. *)

(* Mutant: the program text is writable. *)
WritableText(out) == CASE out = 1 -> {"R", "W", "X"} [] out = 2 -> {"R"} [] OTHER -> {"R", "W"}

OutputFlags(out) == CASE out = 1 -> {"R", "X"} [] out = 2 -> {"R"} [] OTHER -> {"R", "W"}

FileSize(output, out) == IF out = 4 THEN 0 ELSE output[out].size
Payload(output, outs) == FoldLeft(LAMBDA n, out : n + FileSize(output, out), 0, outs)

(* write_image.  The header is one unit long, and so is each entry of the  *)
(* segment table.                                                          *)
ImageOf(output, entry, base, relocatable) ==
    LET used == SelectSeq(<<1, 2, 3, 4>>, LAMBDA out : output[out].size # 0)
        table == 1 + Len(used)
        end == FoldLeft(LAMBDA n, out : Larger(n, output[out].start + output[out].size), base, used)
    IN [header |-> ~relocatable, relocatable |-> relocatable, size |-> table + Payload(output, used),
        table |-> table, entry |-> IF relocatable THEN entry - base ELSE entry,
        entry_virtual |-> IF relocatable THEN entry ELSE 0,
        virtual_base |-> IF relocatable THEN base ELSE 0, virtual_size |-> IF relocatable THEN end - base ELSE 0,
        segments |-> [i \in 1..Len(used) |->
            [plain |-> TRUE, flags |-> OutputFlags(used[i]), va |-> output[used[i]].start,
             load |-> IF relocatable THEN output[used[i]].start - base ELSE output[used[i]].start,
             offset |-> table + Payload(output, SubSeq(used, 1, i - 1)), file |-> FileSize(output, used[i]),
             memory |-> output[used[i]].size, align |-> LoaderPage]]]

(* add_u64 fails on a sum that has no representation, and so the overlap   *)
(* test calls ranges overlapping.                                          *)
MeetAt(a, m, b, n) == a + m > WordMax \/ b + n > WordMax \/ (a < b + n /\ b < a + m)

cvm_kernel_image_validate(img) ==
    LET segments == img.segments
        entry == IF img.relocatable THEN img.entry_virtual ELSE img.entry
        Base(g) == IF img.relocatable THEN g.va ELSE g.load
    IN /\ segments # <<>>
       /\ img.relocatable =>
            /\ img.virtual_size # 0 /\ img.virtual_base + img.virtual_size <= WordMax
            /\ entry >= img.virtual_base /\ entry < img.virtual_base + img.virtual_size
            /\ img.entry = entry - img.virtual_base
       /\ \A i \in 1..Len(segments) :
            LET g == segments[i]
            IN /\ "R" \in g.flags /\ g.memory # 0 /\ g.file <= g.memory
               /\ user_power_of_two(g.align) /\ g.load % g.align = 0 /\ g.va % g.align = 0
               /\ g.load + g.memory <= WordMax /\ g.va + g.memory <= WordMax
               /\ img.relocatable =>
                    /\ g.va >= img.virtual_base /\ g.va - img.virtual_base = g.load
                    /\ g.va + g.memory - img.virtual_base <= img.virtual_size
               /\ g.file # 0 => g.offset >= img.table /\ g.offset + g.file <= img.size
               /\ \A j \in 1..(i - 1) : /\ ~MeetAt(g.load, g.memory, segments[j].load, segments[j].memory)
                                        /\ ~MeetAt(g.va, g.memory, segments[j].va, segments[j].memory)
       /\ \E i \in 1..Len(segments) :
            "X" \in segments[i].flags /\ entry >= Base(segments[i]) /\ entry < Base(segments[i]) + segments[i].memory

-----------------------------------------------------------------------------
(* The program: main of cvmlink, one action for each of its phases.        *)

VARIABLE link

LinkInit ==
    \E input \in Inputs :
        link = [step |-> "read", input |-> input, objects |-> input.objects, archive |-> 1, progress |-> FALSE,
                extracted |-> [a \in 1..Len(input.archives) |-> {}]]

Fails == link' = [step |-> "failed", input |-> link.input]

(* The objects are read; archives and their members only when needed.      *)
ReadObjects ==
    /\ link.step = "read"
    /\ IF \A o \in ToSet(link.objects) : object_valid(o) THEN link' = [link EXCEPT !.step = "extract"] ELSE Fails

(* extract_archives: the archives in turn, until a round takes nothing.    *)
ExtractMember ==
    /\ link.step = "extract" /\ link.archive <= Len(link.input.archives)
    /\ LET a == link.archive
           archive == link.input.archives[a]
           m == MemberWanted(link.objects, link.input.entry, archive, link.extracted[a])
       IN CASE m = 0 -> link' = [link EXCEPT !.archive = a + 1]
            [] m # 0 /\ ~object_valid(archive[m]) -> Fails
            [] OTHER -> link' = [link EXCEPT !.archive = a + 1, !.progress = TRUE,
                                             !.extracted[a] = @ \cup {m}, !.objects = Append(@, archive[m])]

RoundEnds ==
    /\ link.step = "extract" /\ link.archive > Len(link.input.archives)
    /\ link' = IF link.progress THEN [link EXCEPT !.archive = 1, !.progress = FALSE]
               ELSE [step |-> "collect", input |-> link.input, objects |-> link.objects]

(* collect_globals, and the checks of the entry symbol. *)
EntryInText(globals, name) ==
    LET d == globals[global_index(globals, name)]
        y == link.objects[d.object].symbols[d.symbol]
    IN ~d.common /\ y.section # Absolute /\ link.objects[d.object].sections[y.section].out = 1

Collect ==
    /\ link.step = "collect"
    /\ \E found \in {collect_globals(link.objects)} :
         LET entry == IF link.input.entry # "" THEN link.input.entry ELSE found.entry
         IN IF /\ link.objects # <<>> /\ found.okay /\ ~Undefined(link.objects, found.globals)
               /\ entry # "" /\ global_index(found.globals, entry) # 0 /\ EntryInText(found.globals, entry)
            THEN link' = [step |-> "locate", input |-> link.input, objects |-> link.objects,
                          globals |-> found.globals, entry |-> entry]
            ELSE Fails

Locate ==
    /\ link.step = "locate"
    /\ \E placed \in {locate_sections(link.objects, link.input.base)} :
         IF ~placed.okay THEN Fails
         ELSE \E commons \in {allocate_common_symbols(link.globals, placed.output[4])} :
                IF ~commons.okay THEN Fails
                ELSE link' = [link EXCEPT !.step = "relocate", !.globals = commons.globals]
                             @@ [output |-> [placed.output EXCEPT ![4].size = commons.cursor]]

Relocate ==
    /\ link.step = "relocate"
    /\ \E fields \in {apply_relocations(link.objects, link.globals, link.output)} :
         IF \E f \in fields : ~f.okay THEN Fails
         ELSE link' = [link EXCEPT !.step = "write"] @@ [fields |-> fields]

WriteImage ==
    /\ link.step = "write"
    /\ LET d == link.globals[global_index(link.globals, link.entry)]
           entry == PlaceOf(link.objects, link.output, d.object, d.symbol)
           img == ImageOf(link.output, entry, link.input.base, link.input.relocatable)
       IN IF entry # Failed /\ cvm_kernel_image_validate(img)
          THEN link' = [link EXCEPT !.step = "written"] @@ [image |-> img]
          ELSE Fails

LinkNext == ReadObjects \/ ExtractMember \/ RoundEnds \/ Collect \/ Locate \/ Relocate \/ WriteImage
-----------------------------------------------------------------------------
(* What a link that succeeds has done, against what OBJECT_FORMAT.md says: *)
(* a name stands for its strong definition, else for one common object as  *)
(* large and as aligned as any of that name, else for the first weak one;  *)
(* sections and common objects are aligned and share no byte; every        *)
(* relocated field, decoded as the processor reads it, gives the symbol's  *)
(* place plus the addend.  No member was left out of an archive that would *)
(* resolve a name.                                                         *)
Candidates(name) ==
    {os \in ToSet(AllSymbols(link.objects)) :
        LET y == link.objects[os[1]].symbols[os[2]] IN y.name = name /\ Is(y, "GLOBAL") /\ Defines(y)}
Decoded(f) ==
    IF f.type # "REL32" THEN f.value
    ELSE f.place + Width(f.type) + (IF f.value > HalfMax \div 2 THEN f.value - (HalfMax + 1) ELSE f.value)
Pieces ==
    {[at |-> link.output[out].start + link.output[out].offsets[o],
      size |-> link.objects[o].sections[SectionOf(link.objects[o], out)].size,
      align |-> link.objects[o].sections[SectionOf(link.objects[o], out)].align, of |-> <<o, out>>] :
        <<o, out>> \in {p \in (1..Len(link.objects)) \X Outputs : SectionOf(link.objects[p[1]], p[2]) # 0}}
      \cup {[at |-> d.address, size |-> d.size, align |-> d.align, of |-> <<d.object, d.symbol + 4>>] :
              d \in {d \in ToSet(link.globals) : d.common}}

LinksFaithfully ==
    link.step = "written" =>
        /\ \A i \in 1..Len(link.globals) :
             LET d == link.globals[i]
                 Rank(os) == rank(link.objects[os[1]].symbols[os[2]])
                 Symbol(os) == link.objects[os[1]].symbols[os[2]]
                 Before(p, q) == p[1] < q[1] \/ (p[1] = q[1] /\ p[2] < q[2])
             IN \A os \in Candidates(d.name) :
                  /\ Rank(os) <= d.rank
                  /\ Rank(os) = 3 => os = <<d.object, d.symbol>>
                  /\ d.common /\ Rank(os) = 2 => Symbol(os).size <= d.size /\ d.address % Symbol(os).value = 0
                  /\ d.rank = 1 => ~Before(os, <<d.object, d.symbol>>)
        /\ \A p, q \in Pieces : p.of # q.of => p.at + p.size <= q.at \/ q.at + q.size <= p.at
        /\ \A p \in Pieces :
             /\ p.align <= LoaderPage => p.at % p.align = 0
             /\ p.size > 0 => \E i \in 1..Len(link.image.segments) :
                  LET g == link.image.segments[i] IN p.at >= g.va /\ p.at + p.size <= g.va + g.memory
        /\ \A f \in link.fields :
             Decoded(f) = symbol_address(link.objects, link.globals, link.output, f.object, f.symbol) + f.addend
        /\ \A a \in 1..Len(link.input.archives) : \A m \in 1..Len(link.input.archives[a]) :
             \A y \in ToSet(link.input.archives[a][m].symbols) :
                Is(y, "GLOBAL") /\ Defines(y) => ~object_needs(link.objects, y.name)

(* An executable that the linker wrote for addresses in the image window   *)
(* is one that the kernel accepts: the two validations, written apart and  *)
(* with different rules, do not disagree on the toolchain's output.        *)
LinkedImagesLoad ==
    /\ link.step = "written" /\ ~link.input.relocatable /\ link.input.base >= LoaderBase
    /\ \A i \in 1..Len(link.image.segments) : EndOf(link.image.segments[i]) <= LoaderLimit
    => user_validate_image(link.image)
=============================================================================
