------------------------------- MODULE DynTable -----------------------------
(***************************************************************************)
(* How dyn.go recovers symbol names through program headers alone, with the  *)
(* arithmetic of its words: uint64 addresses that wrap, their conversion to  *)
(* int64, entry sizes and limits taken from the file.  Each read of the file *)
(* is a step, and another process may truncate the file between two of them. *)
(*                                                                          *)
(* A file is a sequence of cells, and every size is counted in cells: a      *)
(* dynamic entry is a tag and a value, a symbol is SymSize cells with the    *)
(* name's offset in the first and st_info at InfoAt (byte 4 of 24 in ELF64,  *)
(* 12 of 16 in ELF32).  ElfImage!phdrSymbolNames is what the properties here *)
(* say of an image whose headers are in order.                               *)
(***************************************************************************)
EXTENDS Integers, Sequences, FiniteSets

CONSTANTS
    Half,          \* 2^63: words are 0..2*Half-1, the upper half negative as int64
    SymSize,       \* size of a symbol in the file's class
    InfoAt,        \* index of st_info in it
    BufSize,       \* [24]byte, the symbol buffer
    Cap,           \* 1 << 24, for the string table and the symbol table
    DefaultLimit,  \* 1 << 20
    ImageFile,     \* the files considered: [progs, cells, link], link being the
                   \* linker's view of cells: [syms, symAt, strAt, strLen]
    MaxCuts        \* bound on the truncations

Word == 0..(2 * Half - 1)

\* elf.NewFile rejects a header whose offset or size is negative as int64.
Prog == [type : {"LOAD", "DYNAMIC"}, vaddr : Word, off : 0..(Half - 1), filesz : 0..(Half - 1)]

ASSUME DynAssumption ==
    /\ Half \in Nat \ {0} /\ Cap \in 1..(Half - 1) /\ DefaultLimit \in 1..Cap
    /\ {SymSize, BufSize} \subseteq 1..(Half - 1)
    /\ InfoAt \in 1..(SymSize - 1) /\ SymSize <= BufSize
    /\ MaxCuts \in Nat
    /\ \A img \in ImageFile :
          img.cells \in Seq(Word) /\ Len(img.cells) < Half /\ img.progs \in Seq(Prog)

DT_NULL == 0
DT_STRTAB == 5
DT_SYMTAB == 6
DT_STRSZ == 10
DT_SYMENT == 11
STT_FUNC == 2

NoValue == -1

VARIABLES
    image,     \* the file when it was opened, and its program headers
    file,      \* its cells now
    pc,        \* "dynamic", "strings", "symbols", "done", or "panic"
    seg,       \* program header parsePTDynamic looks at
    dyns,      \* dynamic entries
    str,       \* the string table
    symOff, syment, limit,
    off,       \* offset of the next symbol in the table
    names,     \* names found
    cuts       \* truncations so far

vars == <<image, file, pc, seg, dyns, str, symOff, syment, limit, off, names, cuts>>

Init ==
    /\ image \in ImageFile
    /\ file = image.cells
    /\ pc = "dynamic" /\ seg = 1 /\ dyns = <<>> /\ str = <<>>
    /\ symOff = 0 /\ syment = 0 /\ limit = 0 /\ off = 0
    /\ names = {} /\ cuts = 0

-----------------------------------------------------------------------------
uint(x) == x % (2 * Half)

\* Fault: the conversion keeps the value.
intUnsigned(x) == x

int(x) == IF x < Half THEN x ELSE x - 2 * Half

\* ReadAt: n cells from offset o, zeroes where the file has ended.
cell(cells, i)       == IF i < Len(cells) THEN cells[i + 1] ELSE 0
readAt(cells, o, n)  == [i \in 1..n |-> cell(cells, o + i - 1)]
short(cells, o, n)   == o + n > Len(cells)

least(S) == CHOOSE i \in S : \A j \in S : i <= j

\* Pairs up to DT_NULL; an odd trailing cell is ignored.
parseDynEntries(data) ==
    LET ends  == {i \in 1..(Len(data) \div 2) : data[2 * i - 1] = DT_NULL}
        count == IF ends = {} THEN Len(data) \div 2 ELSE least(ends) - 1
    IN  [i \in 1..count |-> [tag |-> data[2 * i - 1], val |-> data[2 * i]]]

\* The first entry with the tag.
dynTag(ds, tag) ==
    LET at == {i \in DOMAIN ds : ds[i].tag = tag}
    IN  IF at = {} THEN NoValue ELSE ds[least(at)].val

\* p.Vaddr+p.Filesz is computed modulo 2^64.
covers(p, vaddr) ==
    p.type = "LOAD" /\ vaddr >= p.vaddr /\ vaddr < uint(p.vaddr + p.filesz)

covering(vaddr) == {i \in DOMAIN image.progs : covers(image.progs[i], vaddr)}

\* Fault: the first PT_LOAD, whether it covers the address or not.
vaddrToFileOffsetFirst(vaddr) ==
    LET p == image.progs[least({i \in DOMAIN image.progs : image.progs[i].type = "LOAD"})]
    IN  int(uint(vaddr - p.vaddr + p.off))

\* May be negative: no read at such an offset succeeds.
vaddrToFileOffset(vaddr) ==
    LET p == image.progs[least(covering(vaddr))]
    IN  int(uint(vaddr - p.vaddr + p.off))

\* Fault: the string ends with the table, not with its NUL.
cstrAtWhole(table, o) == IF o >= Len(table) THEN <<>> ELSE SubSeq(table, o + 1, Len(table))

\* NUL-terminated, or the rest of the table; the empty name stands for none.
cstrAt(table, o) ==
    IF o >= Len(table) THEN <<>>
    ELSE LET nul == {i \in (o + 1)..Len(table) : table[i] = 0}
         IN  SubSeq(table, o + 1, (IF nul = {} THEN Len(table) + 1 ELSE least(nul)) - 1)

\* The link is the linker's view of the cells: where symbol i lies, its name
\* between its place in the string table and the next NUL, its info.
ASSUME LinkAssumption ==
    \A img \in ImageFile :
        LET l == img.link
        IN  /\ {l.symAt, l.strAt, l.strLen} \subseteq Nat
            /\ l.syms \in Seq([name : Seq(Word), info : Word])
            /\ \A i \in DOMAIN l.syms :
                  LET o    == l.symAt + SymSize * (i - 1)
                      at   == cell(img.cells, o)
                      name == l.syms[i].name
                  IN  /\ l.syms[i].info = cell(img.cells, o + InfoAt)
                      /\ name # <<>> /\ at + Len(name) < l.strLen
                      /\ \A j \in DOMAIN name :
                            name[j] # 0 /\ name[j] = cell(img.cells, l.strAt + at + j - 1)
                      /\ cell(img.cells, l.strAt + at + Len(name)) = 0

-----------------------------------------------------------------------------
\* parsePTDynamic, one segment.
ReadDynamic ==
    /\ pc = "dynamic" /\ seg <= Len(image.progs)
    /\ LET p == image.progs[seg]
       IN  dyns' = IF p.type # "DYNAMIC" THEN dyns
                   ELSE dyns \o parseDynEntries(readAt(file, p.off, p.filesz))
    /\ seg' = seg + 1
    /\ UNCHANGED <<image, file, pc, str, symOff, syment, limit, off, names, cuts>>

\* dynamicStrings: a size of 0 or beyond the cap, and an address no segment
\* covers, are failures; the end of the file is not.
stringsFound ==
    /\ dynTag(dyns, DT_STRTAB) # NoValue
    /\ dynTag(dyns, DT_STRSZ) \in 1..Cap
    /\ covering(dynTag(dyns, DT_STRTAB)) # {} /\ vaddrToFileOffset(dynTag(dyns, DT_STRTAB)) >= 0

ReadStrings ==
    /\ pc = "dynamic" /\ seg > Len(image.progs)
    /\ dynTag(dyns, DT_SYMTAB) # NoValue /\ stringsFound
    /\ str' = readAt(file, vaddrToFileOffset(dynTag(dyns, DT_STRTAB)), dynTag(dyns, DT_STRSZ))
    /\ pc' = "strings"
    /\ UNCHANGED <<image, file, seg, dyns, symOff, syment, limit, off, names, cuts>>

NoStrings ==
    /\ pc = "dynamic" /\ seg > Len(image.progs)
    /\ ~(dynTag(dyns, DT_SYMTAB) # NoValue /\ stringsFound)
    /\ pc' = "done"
    /\ UNCHANGED <<image, file, seg, dyns, str, symOff, syment, limit, off, names, cuts>>

\* Fault: the size of the whole segment, not of what follows symtab.
limitOfSegment(symtab) ==
    LET l == image.progs[least(covering(symtab))].filesz
    IN  IF l > Cap THEN Cap ELSE l

\* The table runs to the end of the segment; its length is not recorded.
limitOf(symtab) ==
    LET p == image.progs[least(covering(symtab))]
        l == int(uint(p.vaddr + p.filesz - symtab))
    IN  IF l <= 0 THEN DefaultLimit ELSE IF l > Cap THEN Cap ELSE l

\* Fault: an entry size of 0 is taken as it is.
entrySizeAsIs(val) == IF val = NoValue THEN SymSize ELSE int(val)

entrySize(val) == IF val \in {NoValue, 0} THEN SymSize ELSE int(val)

FindSymbols ==
    /\ pc = "strings"
    /\ IF covering(dynTag(dyns, DT_SYMTAB)) = {} THEN pc' = "done" /\ UNCHANGED <<symOff, syment, limit>>
       ELSE /\ symOff' = vaddrToFileOffset(dynTag(dyns, DT_SYMTAB))
            /\ syment' = entrySize(dynTag(dyns, DT_SYMENT))
            /\ limit' = limitOf(dynTag(dyns, DT_SYMTAB))
            /\ pc' = "symbols"
    /\ UNCHANGED <<image, file, seg, dyns, str, off, names, cuts>>

\* Fault: the entry that ends where the segment ends is not in the table.
inTableStrict == off + syment < limit

inTable == off + syment <= limit

\* One turn of the loop: buf is fresh, and only its first n cells are read.
n   == IF syment > BufSize THEN BufSize ELSE syment
buf == [i \in 1..BufSize |-> IF i <= n THEN cell(file, symOff + off + i - 1) ELSE 0]

readFails == symOff + off < 0 \/ short(file, symOff + off, n)

ReadSymbol ==
    /\ pc = "symbols" /\ inTable /\ n >= 0 /\ ~readFails
    /\ LET name == cstrAt(str, buf[1])
       IN  names' = IF buf[InfoAt + 1] % 16 = STT_FUNC /\ name # <<>>
                    THEN names \cup {name} ELSE names
    /\ off' = off + syment
    /\ UNCHANGED <<image, file, pc, seg, dyns, str, symOff, syment, limit, cuts>>

\* buf[:n] with a negative n.
Panics ==
    /\ pc = "symbols" /\ inTable /\ n < 0
    /\ pc' = "panic"
    /\ UNCHANGED <<image, file, seg, dyns, str, symOff, syment, limit, off, names, cuts>>

SymbolsDone ==
    /\ pc = "symbols" /\ (~inTable \/ (n >= 0 /\ readFails))
    /\ pc' = "done"
    /\ UNCHANGED <<image, file, seg, dyns, str, symOff, syment, limit, off, names, cuts>>

phdrSymbolNames ==
    ReadDynamic \/ ReadStrings \/ NoStrings \/ FindSymbols
        \/ ReadSymbol \/ Panics \/ SymbolsDone

\* Another process truncates the file where it lies.
Truncate ==
    /\ cuts < MaxCuts /\ pc \notin {"done", "panic"}
    /\ \E size \in 0..(Len(file) - 1) : file' = SubSeq(file, 1, size)
    /\ cuts' = cuts + 1
    /\ UNCHANGED <<image, pc, seg, dyns, str, symOff, syment, limit, off, names>>

Next == phdrSymbolNames \/ Truncate

Spec == Init /\ [][Next]_vars /\ WF_vars(phdrSymbolNames)

-----------------------------------------------------------------------------
(***************************************************************************)
(* Properties.                                                              *)
(***************************************************************************)
(***************************************************************************)
(* Words and converted words stay in their ranges, and the loop in its       *)
(* table.                                                                   *)
(***************************************************************************)
DynTypes ==
    /\ file \in Seq(Word) /\ Len(file) <= Len(image.cells)
    /\ pc \in {"dynamic", "strings", "symbols", "done", "panic"}
    /\ seg \in 1..(Len(image.progs) + 1) /\ dyns \in Seq([tag : Word, val : Word])
    /\ str \in Seq(Word) /\ Len(str) <= Cap
    /\ {symOff, syment} \subseteq (-Half)..(Half - 1)
    /\ limit \in 0..Cap /\ off \in 0..limit
    /\ \A name \in names : name \in Seq(Word \ {0}) /\ name # <<>>
    /\ cuts \in 0..MaxCuts

\* The dynamic entries of the file as it was opened.
linkedDyns(img) ==
    LET p == img.progs[least({i \in DOMAIN img.progs : img.progs[i].type = "DYNAMIC"})]
    IN  parseDynEntries(readAt(img.cells, p.off, p.filesz))

\* The segment an address is in: of all the PT_LOADs that hold it, the first.
holding(img, v) ==
    {i \in DOMAIN img.progs : /\ img.progs[i].type = "LOAD"
                              /\ v \in img.progs[i].vaddr..(img.progs[i].vaddr + img.progs[i].filesz - 1)}

segmentOf(img, v) == img.progs[least(holding(img, v))]

\* That segment is in the file, does not reach past the end of the address
\* space, and maps the address to offset o.
mapsTo(img, v, o) ==
    LET p == segmentOf(img, v)
    IN  /\ holding(img, v) # {}
        /\ p.vaddr + p.filesz < 2 * Half /\ p.off + p.filesz <= Len(img.cells)
        /\ v - p.vaddr + p.off = o

symtabOf(img) == dynTag(linkedDyns(img), DT_SYMTAB)

\* The headers and dynamic entries lead to the linker's two tables, in one
\* segment or in two, and the symbols end in the segment they begin in.
inOrder(img) ==
    LET l  == img.link
        ds == linkedDyns(img)
        p  == segmentOf(img, symtabOf(img))
    IN  /\ Cardinality({i \in DOMAIN img.progs : img.progs[i].type = "DYNAMIC"}) = 1
        /\ mapsTo(img, symtabOf(img), l.symAt) /\ mapsTo(img, dynTag(ds, DT_STRTAB), l.strAt)
        /\ dynTag(ds, DT_STRSZ) = l.strLen
        /\ dynTag(ds, DT_SYMENT) \in {NoValue, 0, SymSize}
        /\ l.symAt + SymSize * Len(l.syms) <= p.off + p.filesz
        /\ l.strLen <= Cap /\ SymSize * Len(l.syms) <= Cap

isFunc(info) == info % 16 = STT_FUNC

linkedNames(img) == {s.name : s \in {t \in {img.link.syms[i] : i \in DOMAIN img.link.syms} :
                                        isFunc(t.info)}}

\* The name of the entry at offset o.
nameAt(img, o) == cstrAt(readAt(img.cells, img.link.strAt, img.link.strLen), cell(img.cells, o))

\* What cells after the symbol table decode to, as far as the segment goes.
trailingNames(img) ==
    LET l     == img.link
        p     == segmentOf(img, symtabOf(img))
        room  == p.off + p.filesz - l.symAt
        after == {l.symAt + SymSize * k :
                     k \in Len(l.syms)..((IF room > Cap THEN Cap ELSE room) \div SymSize - 1)}
    IN  {nameAt(img, o) : o \in {x \in after : isFunc(cell(img.cells, x + InfoAt))}} \ {<<>>}

(***************************************************************************)
(* From a file whose headers are in order, and that nobody truncates, every  *)
(* STT_FUNC name of the symbol table is found, whatever its address, the     *)
(* order of the tables and the declared entry size; and the only other names *)
(* are those that follow the table in its segment.  (ElfImage!               *)
(* phdrSymbolNames, with trailing.)                                         *)
(***************************************************************************)
SymbolsFound ==
    pc = "done" /\ cuts = 0 /\ inOrder(image) =>
        names = linkedNames(image) \cup trailingNames(image)

(***************************************************************************)
(* A truncation at any moment after the dynamic section was read loses names *)
(* or their ends, and makes none up: the string table is padded with zeroes, *)
(* so what is found begins a name of the whole file.                         *)
(***************************************************************************)
NamesAreCut ==
    inOrder(image) /\ dyns = linkedDyns(image) =>
        \A name \in names : \E whole \in linkedNames(image) \cup trailingNames(image) :
            Len(name) <= Len(whole) /\ SubSeq(whole, 1, Len(name)) = name

(***************************************************************************)
(* Whatever the headers say, the loop never reads a symbol outside the part  *)
(* of the file that the covering segment maps: the wrapped end of a segment  *)
(* covers nothing, and an offset beyond int64 reads nothing.                 *)
(***************************************************************************)
SymbolsInSegment ==
    pc = "symbols" /\ symOff >= 0 =>
        LET p == image.progs[least(covering(dynTag(dyns, DT_SYMTAB)))]
        IN  p.off <= symOff /\ symOff + off <= p.off + p.filesz

(***************************************************************************)
(* The function returns, truncated file or not, for every declared entry     *)
(* size but those that are negative as int64: they panic.                    *)
(***************************************************************************)
Returns == (pc = "dynamic" /\ dynTag(linkedDyns(image), DT_SYMENT) < Half) ~> (pc = "done")
=============================================================================
