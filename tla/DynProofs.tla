------------------------------ MODULE DynProofs ------------------------------
(***************************************************************************)
(* The table reader of dyn.go on words of any width and for files and caps   *)
(* of any size.                                                             *)
(***************************************************************************)
EXTENDS DynTable, FiniteSetTheorems, SequenceTheorems, WellFoundedInduction, TLAPS

(***************************************************************************)
(* Words.  A segment that covers an address does not wrap, so that the       *)
(* offset of the address is the one plain arithmetic gives, unless it is     *)
(* too large for an int64.                                                  *)
(***************************************************************************)
LEMMA Words ==
    /\ \A x \in Int : uint(x) \in Word
    /\ \A x \in Word : uint(x) = x /\ int(x) \in (-Half)..(Half - 1)
    /\ \A x \in 0..(Half - 1) : x \in Word /\ int(x) = x
    /\ \A x \in Int : 2 * Half <= x /\ x < 4 * Half => uint(x) = x - 2 * Half
PROOF
<1>1. ASSUME NEW x \in Int PROVE uint(x) \in Word
  BY DynAssumption DEF uint, Word
<1>2. ASSUME NEW x \in Word PROVE uint(x) = x
  BY DynAssumption DEF uint, Word
<1>3. ASSUME NEW x \in Int, 2 * Half <= x, x < 4 * Half PROVE uint(x) = x - 2 * Half
  BY <1>3, DynAssumption DEF uint
<1> QED BY <1>1, <1>2, <1>3, DynAssumption DEF int, Word

LEMMA Covered ==
    ASSUME NEW p \in Prog, NEW v \in Word, covers(p, v)
    PROVE  /\ p.vaddr <= v /\ v < p.vaddr + p.filesz
           /\ LET room == p.vaddr + p.filesz - v
              IN  room \in 1..(Half - 1) /\ int(uint(room)) = room
           /\ LET o == v - p.vaddr + p.off
              IN  /\ o \in Word /\ int(uint(o)) \in (-Half)..(Half - 1)
                  /\ int(uint(o)) >= 0 => int(uint(o)) = o
                  /\ o < Half => int(uint(o)) = o
PROOF
<1>1. /\ p.vaddr \in Word /\ p.filesz \in 0..(Half - 1) /\ p.off \in 0..(Half - 1)
      /\ p.vaddr <= v /\ v < uint(p.vaddr + p.filesz)
  BY DEF Prog, covers
<1>2. v < p.vaddr + p.filesz
  <2>1. CASE p.vaddr + p.filesz < 2 * Half
    <3>1. p.vaddr + p.filesz \in Word
      BY <1>1, <2>1, DynAssumption DEF Word
    <3> QED BY <1>1, <3>1, Words
  <2>2. CASE p.vaddr + p.filesz >= 2 * Half
    <3> DEFINE end == p.vaddr + p.filesz
    <3>0. end \in Int /\ 2 * Half <= end /\ end < 4 * Half
      BY <1>1, <2>2, DynAssumption DEF Word
    <3> HIDE DEF end
    <3>1. uint(end) = end - 2 * Half
      BY <3>0, Words
    <3> USE DEF end
    <3> QED BY <1>1, <3>1, DynAssumption DEF Word
  <2> QED BY <1>1, <2>1, <2>2, DynAssumption DEF Word
<1>3. p.vaddr + p.filesz - v \in 1..(Half - 1)
  BY <1>1, <1>2, DynAssumption DEF Word
<1>4. v - p.vaddr + p.off \in Word
  BY <1>1, <1>2, DynAssumption DEF Word
<1>5. /\ int(v - p.vaddr + p.off) >= 0 => int(v - p.vaddr + p.off) = v - p.vaddr + p.off
      /\ v - p.vaddr + p.off < Half => int(v - p.vaddr + p.off) = v - p.vaddr + p.off
  BY <1>4, DynAssumption DEF int, Word
<1> QED BY <1>1, <1>2, <1>3, <1>4, <1>5, Words

-----------------------------------------------------------------------------
(***************************************************************************)
(* least is the least element.                                              *)
(***************************************************************************)
LEMMA LeastElement ==
    ASSUME NEW S, S \subseteq Nat, S # {}
    PROVE  least(S) \in S /\ \A j \in S : least(S) <= j
PROOF
<1> DEFINE before == {ss \in Nat \X Nat : ss[1] < ss[2]}
<1>1. IsWellFoundedOn(before, Nat)
  BY NatLessThanWellFounded, SMT DEF OpToRel
<1>2. \A x, y \in Nat : y < x => <<y, x>> \in before
  OBVIOUS
<1> HIDE DEF before
<1>3. PICK x \in S : \A y \in S : ~(<<y, x>> \in before)
  BY <1>1, WFMin
<1>4. ASSUME NEW y \in S PROVE x <= y
  <2>1. x \in Nat /\ y \in Nat
    OBVIOUS
  <2>2. ~(y < x)
    BY <1>2, <1>3, <2>1
  <2> QED BY <2>1, <2>2
<1> QED BY <1>4 DEF least

\* Reading a file, and the dynamic table in what was read.
LEMMA ReadWords ==
    ASSUME NEW cells \in Seq(Word), NEW o \in Nat, NEW size \in Nat
    PROVE  /\ readAt(cells, o, size) \in Seq(Word) /\ Len(readAt(cells, o, size)) = size
           /\ \A i \in Nat : cell(cells, i) \in Word
           /\ \A i \in 1..size : readAt(cells, o, size)[i] = cell(cells, o + i - 1)
PROOF
<1>1. 0 \in Word
  BY DynAssumption DEF Word
<1>2. \A i \in Nat : cell(cells, i) \in Word
  BY <1>1, ElementOfSeq DEF cell
<1> QED BY <1>2 DEF readAt

Dyn == [tag : Word, val : Word]

LEMMA ParsedEntries ==
    ASSUME NEW data \in Seq(Word)
    PROVE  parseDynEntries(data) \in Seq(Dyn)
PROOF
<1> DEFINE ends == {i \in 1..(Len(data) \div 2) : data[2 * i - 1] = DT_NULL}
           count == IF ends = {} THEN Len(data) \div 2 ELSE least(ends) - 1
<1>1. Len(data) \div 2 \in Nat /\ 2 * (Len(data) \div 2) <= Len(data)
  OBVIOUS
<1>2. ends # {} => least(ends) \in ends
  <2>1. ends \subseteq Nat
    OBVIOUS
  <2> HIDE DEF ends
  <2> QED BY <2>1, LeastElement
<1>3. count \in 0..(Len(data) \div 2)
  BY <1>1, <1>2
<1>4. \A i \in 1..count : 2 * i - 1 \in 1..Len(data) /\ 2 * i \in 1..Len(data)
  BY <1>1, <1>3
<1>5. parseDynEntries(data) = [i \in 1..count |-> [tag |-> data[2 * i - 1], val |-> data[2 * i]]]
  BY DEF parseDynEntries
<1> HIDE DEF count
<1>6. \A i \in 1..count : [tag |-> data[2 * i - 1], val |-> data[2 * i]] \in Dyn
  BY <1>4, ElementOfSeq DEF Dyn
<1> QED BY <1>3, <1>5, <1>6

LEMMA TagValue ==
    ASSUME NEW ds \in Seq(Dyn), NEW tag
    PROVE  dynTag(ds, tag) \in Word \cup {NoValue} /\ NoValue \notin Word
PROOF
<1> DEFINE at == {i \in DOMAIN ds : ds[i].tag = tag}
<1>1. at # {} => least(at) \in DOMAIN ds
  <2>1. at \subseteq Nat /\ at \subseteq DOMAIN ds
    OBVIOUS
  <2> HIDE DEF at
  <2> QED BY <2>1, LeastElement
<1>2. \A i \in DOMAIN ds : ds[i].val \in Word
  <2>1. \A i \in DOMAIN ds : ds[i] \in Dyn
    OBVIOUS
  <2> QED BY <2>1 DEF Dyn
<1> QED BY <1>1, <1>2 DEF dynTag, NoValue, Word

(***************************************************************************)
(* cstrAt: the string runs up to the first NUL, or to the end of the table.  *)
(***************************************************************************)
LEMMA Cstr ==
    ASSUME NEW table \in Seq(Word), NEW o \in Nat, o < Len(table)
    PROVE  \E e \in (o + 1)..(Len(table) + 1) :
              /\ cstrAt(table, o) = SubSeq(table, o + 1, e - 1)
              /\ \A i \in (o + 1)..(e - 1) : table[i] # 0
              /\ e <= Len(table) => table[e] = 0
PROOF
<1> DEFINE nul == {i \in (o + 1)..Len(table) : table[i] = 0}
           e == IF nul = {} THEN Len(table) + 1 ELSE least(nul)
<1>1. nul # {} => least(nul) \in nul /\ \A j \in nul : least(nul) <= j
  <2>1. nul \subseteq Nat
    OBVIOUS
  <2> HIDE DEF nul
  <2> QED BY <2>1, LeastElement
<1>2. e \in (o + 1)..(Len(table) + 1)
  BY <1>1
<1>3. cstrAt(table, o) = SubSeq(table, o + 1, e - 1)
  <2>1. ~(o >= Len(table))
    OBVIOUS
  <2> HIDE DEF e
  <2> QED BY <2>1, Zenon DEF cstrAt, e
<1>4. \A i \in (o + 1)..(e - 1) : table[i] # 0
  BY <1>1
<1>5. e <= Len(table) => table[e] = 0
  BY <1>1
<1> QED BY <1>2, <1>3, <1>4, <1>5

\* What lies before the next NUL.
LEMMA Terminated ==
    ASSUME NEW table \in Seq(Word), NEW o \in Nat, NEW name \in Seq(Word),
           o + Len(name) < Len(table), table[o + Len(name) + 1] = 0,
           \A j \in 1..Len(name) : name[j] # 0 /\ name[j] = table[o + j]
    PROVE  cstrAt(table, o) = name
PROOF
<1>1. Len(table) \in Nat /\ Len(name) \in Nat /\ o < Len(table)
  OBVIOUS
<1>2. PICK e \in (o + 1)..(Len(table) + 1) :
         /\ cstrAt(table, o) = SubSeq(table, o + 1, e - 1)
         /\ \A i \in (o + 1)..(e - 1) : table[i] # 0
         /\ e <= Len(table) => table[e] = 0
  BY <1>1, Cstr
<1>3. ~(e > o + Len(name) + 1)
  BY <1>1, <1>2
<1>4. ~(e <= o + Len(name))
  <2> SUFFICES ASSUME e <= o + Len(name) PROVE FALSE
    OBVIOUS
  <2>1. e - o \in 1..Len(name) /\ o + (e - o) = e /\ e <= Len(table)
    BY <1>1, <1>2
  <2> QED BY <1>2, <2>1
<1>5. e = o + Len(name) + 1
  BY <1>1, <1>2, <1>3, <1>4
<1>6. /\ SubSeq(table, o + 1, e - 1) \in Seq(Word)
      /\ Len(SubSeq(table, o + 1, e - 1)) = Len(name)
      /\ \A j \in 1..Len(name) : SubSeq(table, o + 1, e - 1)[j] = table[o + j]
  <2>1. \A i \in (o + 1)..(e - 1) : table[i] \in Word
    BY <1>1, <1>5, ElementOfSeq
  <2>2. /\ SubSeq(table, o + 1, e - 1) \in Seq(Word)
        /\ Len(SubSeq(table, o + 1, e - 1))
              = IF o + 1 <= e - 1 THEN (e - 1) - (o + 1) + 1 ELSE 0
        /\ \A j \in 1..((e - 1) - (o + 1) + 1) :
              SubSeq(table, o + 1, e - 1)[j] = table[(o + 1) + j - 1]
    BY <1>1, <1>2, <2>1, SubSeqProperties
  <2>3. \A j \in 1..Len(name) : (o + 1) + j - 1 = o + j
    BY <1>1
  <2>4. (e - 1) - (o + 1) + 1 = Len(name) /\ (~(o + 1 <= e - 1) => Len(name) = 0)
    BY <1>1, <1>5
  <2> QED BY <2>2, <2>3, <2>4
<1> QED BY <1>2, <1>6, SeqEqual

LEMMA CstrType ==
    ASSUME NEW table \in Seq(Word), NEW o \in Nat
    PROVE  cstrAt(table, o) \in Seq(Word \ {0})
PROOF
<1>1. CASE o >= Len(table)
  BY <1>1 DEF cstrAt
<1>2. CASE o < Len(table)
  <2>1. PICK e \in (o + 1)..(Len(table) + 1) :
              /\ cstrAt(table, o) = SubSeq(table, o + 1, e - 1)
              /\ \A i \in (o + 1)..(e - 1) : table[i] # 0
    BY <1>2, Cstr
  <2>2. \A i \in (o + 1)..(e - 1) : table[i] \in Word \ {0}
    BY <2>1, ElementOfSeq
  <2> QED BY <2>1, <2>2, SubSeqProperties
<1> QED BY <1>1, <1>2

-----------------------------------------------------------------------------
(***************************************************************************)
(* The segment found for an address: its offset there, and how far a table   *)
(* may run.                                                                 *)
(***************************************************************************)
home(v) == image.progs[least(covering(v))]

LEMMA Home ==
    ASSUME image \in ImageFile, NEW v \in Word, covering(v) # {}
    PROVE  /\ home(v) \in Prog /\ covers(home(v), v)
           /\ vaddrToFileOffset(v) \in (-Half)..(Half - 1)
           /\ vaddrToFileOffset(v) >= 0 => vaddrToFileOffset(v) = v - home(v).vaddr + home(v).off
           /\ home(v).vaddr + home(v).filesz - v \in 1..(Half - 1)
           /\ LET room == home(v).vaddr + home(v).filesz - v
              IN  limitOf(v) = IF room > Cap THEN Cap ELSE room
           /\ limitOf(v) \in 1..Cap
PROOF
<1> DEFINE p == home(v)
<1>1. image.progs \in Seq(Prog)
  BY DynAssumption
<1>2. least(covering(v)) \in covering(v)
  <2>1. covering(v) \subseteq Nat
    BY <1>1 DEF covering
  <2> QED BY <2>1, LeastElement
<1>3. p \in Prog /\ covers(p, v)
  <2>1. least(covering(v)) \in DOMAIN image.progs /\ covers(p, v)
    BY <1>2 DEF covering, home
  <2> QED BY <1>1, <2>1, ElementOfSeq DEF home
<1>4. /\ LET room == p.vaddr + p.filesz - v
         IN  room \in 1..(Half - 1) /\ int(uint(room)) = room
      /\ LET o == v - p.vaddr + p.off
         IN  /\ o \in Word /\ int(uint(o)) \in (-Half)..(Half - 1)
             /\ int(uint(o)) >= 0 => int(uint(o)) = o
  <2> HIDE DEF p
  <2> QED BY <1>3, Covered
<1>5. /\ vaddrToFileOffset(v) = int(uint(v - p.vaddr + p.off))
      /\ limitOf(v) = LET l == int(uint(p.vaddr + p.filesz - v))
                      IN  IF l <= 0 THEN DefaultLimit ELSE IF l > Cap THEN Cap ELSE l
  BY DEF vaddrToFileOffset, limitOf, home
<1>6. limitOf(v) = IF p.vaddr + p.filesz - v > Cap THEN Cap ELSE p.vaddr + p.filesz - v
  <2>1. ~(p.vaddr + p.filesz - v <= 0)
    BY <1>4
  <2> HIDE DEF p
  <2> QED BY <1>4, <1>5, <2>1
<1> HIDE DEF p
<1> QED BY <1>3, <1>4, <1>5, <1>6, DynAssumption DEF p

LEMMA EntrySizes ==
    ASSUME NEW val \in Word \cup {NoValue}
    PROVE  /\ entrySize(val) \in (-Half)..(Half - 1)
           /\ val \in {NoValue, 0, SymSize} => entrySize(val) = SymSize
PROOF
<1>1. SymSize \in 1..(Half - 1)
  BY DynAssumption
<1>2. CASE val \in {NoValue, 0}
  <2>1. entrySize(val) = SymSize
    BY <1>2 DEF entrySize
  <2> QED BY <1>1, <2>1, DynAssumption
<1>3. CASE val \notin {NoValue, 0}
  <2>1. entrySize(val) = int(val) /\ val \in Word
    BY <1>3 DEF entrySize
  <2>2. int(SymSize) = SymSize
    BY <1>1, Words, DynAssumption
  <2> QED BY <1>3, <2>1, <2>2, Words
<1> QED BY <1>2, <1>3

-----------------------------------------------------------------------------
(***************************************************************************)
(* The inductive invariant: what each phase knows.                          *)
(***************************************************************************)
symtabAt == dynTag(dyns, DT_SYMTAB)

Located ==
    /\ symtabAt # NoValue /\ covering(symtabAt) # {}
    /\ symOff = vaddrToFileOffset(symtabAt) /\ limit = limitOf(symtabAt)
    /\ syment = entrySize(dynTag(dyns, DT_SYMENT))

ITable ==
    /\ image \in ImageFile /\ DynTypes
    /\ pc \in {"dynamic", "strings"} => names = {} /\ off = 0 /\ limit = 0
    /\ pc = "strings" => symtabAt # NoValue
    /\ pc = "symbols" => Located

LEMMA TableInit == Init => ITable
PROOF
<1> SUFFICES ASSUME Init PROVE ITable
  OBVIOUS
<1>1. image.cells \in Seq(Word) /\ image.progs \in Seq(Prog)
  BY DynAssumption DEF Init
<1>2. Len(image.progs) \in Nat /\ Len(<<>>) = 0 /\ <<>> \in Seq(Word) /\ <<>> \in Seq([tag : Word, val : Word])
  BY <1>1
<1>3. DynTypes
  BY <1>1, <1>2, DynAssumption DEF Init, DynTypes
<1> QED BY <1>3 DEF Init, ITable

\* A symbol read is one whole entry of a table within limit.
LEMMA Turn ==
    ASSUME ITable, pc = "symbols", inTable, n >= 0, ~readFails
    PROVE  /\ n \in 0..BufSize /\ syment \in Nat
           /\ off + syment \in 0..limit
           /\ buf \in Seq(Word) /\ Len(buf) = BufSize
           /\ symOff + off \in Nat /\ symOff + off + n <= Len(file)
PROOF
<1>1. /\ syment \in (-Half)..(Half - 1) /\ off \in 0..limit /\ limit \in 0..Cap
      /\ symOff \in (-Half)..(Half - 1) /\ file \in Seq(Word)
  BY DEF ITable, DynTypes
<1>2. n \in 0..BufSize /\ syment \in Nat
  BY <1>1, DynAssumption DEF n
<1>3. off + syment \in 0..limit
  BY <1>1, <1>2, DynAssumption DEF inTable
<1>4. symOff + off \in Nat /\ symOff + off + n <= Len(file)
  BY <1>1, <1>2, DynAssumption DEF readFails, short
<1>5. \A i \in 1..BufSize : (IF i <= n THEN cell(file, symOff + off + i - 1) ELSE 0) \in Word
  <2>1. 0 \in Word /\ \A i \in 1..BufSize : symOff + off + i - 1 \in Nat
    BY <1>4, DynAssumption DEF Word
  <2>2. \A i \in Nat : cell(file, i) \in Word
    BY <1>1, ReadWords
  <2> QED BY <2>1, <2>2
<1>6. buf \in Seq(Word) /\ Len(buf) = BufSize
  BY <1>5, DynAssumption DEF buf
<1> QED BY <1>2, <1>3, <1>4, <1>6

LEMMA TableNext == ITable /\ [Next]_vars => ITable'
PROOF
<1> SUFFICES ASSUME ITable, [Next]_vars PROVE ITable'
  OBVIOUS
<1> USE DEF ITable
<1>a. /\ image.cells \in Seq(Word) /\ image.progs \in Seq(Prog) /\ image \in ImageFile
      /\ Len(image.progs) \in Nat
  BY DynAssumption
<1>b. /\ file \in Seq(Word) /\ Len(file) <= Len(image.cells)
      /\ pc \in {"dynamic", "strings", "symbols", "done", "panic"}
      /\ seg \in 1..(Len(image.progs) + 1) /\ dyns \in Seq(Dyn)
      /\ str \in Seq(Word) /\ Len(str) <= Cap
      /\ {symOff, syment} \subseteq (-Half)..(Half - 1)
      /\ limit \in 0..Cap /\ off \in 0..limit
      /\ \A name \in names : name \in Seq(Word \ {0}) /\ name # <<>>
      /\ cuts \in 0..MaxCuts
  BY DEF DynTypes, Dyn
<1>c. \A tag : dynTag(dyns, tag) \in Word \cup {NoValue}
  BY <1>b, TagValue
<1>1. CASE ReadDynamic
  <2> DEFINE p == image.progs[seg]
  <2>1. p \in Prog /\ p.off \in Nat /\ p.filesz \in Nat
    <3>1. p \in Prog
      BY <1>1, <1>a, <1>b, ElementOfSeq DEF ReadDynamic
    <3> QED BY <3>1, DynAssumption DEF Prog
  <2>2. parseDynEntries(readAt(file, p.off, p.filesz)) \in Seq(Dyn)
    BY <1>b, <2>1, ReadWords, ParsedEntries
  <2>3. dyns' \in Seq(Dyn)
    BY <1>1, <1>b, <2>2, ConcatProperties DEF ReadDynamic
  <2>4. seg' \in 1..(Len(image.progs) + 1)
    BY <1>1, <1>a, <1>b DEF ReadDynamic
  <2> QED BY <1>1, <1>b, <2>3, <2>4 DEF ReadDynamic, DynTypes, Dyn
<1>2. CASE ReadStrings
  <2> DEFINE v == dynTag(dyns, DT_STRTAB)
             size == dynTag(dyns, DT_STRSZ)
  <2>1. size \in 1..Cap /\ v \in Word /\ covering(v) # {} /\ vaddrToFileOffset(v) >= 0
    BY <1>2, <1>c DEF ReadStrings, stringsFound
  <2>2. vaddrToFileOffset(v) \in Nat /\ size \in Nat
    BY <2>1, Home, DynAssumption
  <2>3. str' \in Seq(Word) /\ Len(str') = size
    BY <1>2, <1>b, <2>2, ReadWords DEF ReadStrings
  <2> QED BY <1>2, <1>b, <2>1, <2>3 DEF ReadStrings, DynTypes, Dyn, symtabAt
<1>3. CASE NoStrings
  BY <1>3, <1>b DEF NoStrings, DynTypes, Dyn
<1>4. CASE FindSymbols
  <2>0. symtabAt \in Word
    BY <1>4, <1>c DEF FindSymbols, symtabAt
  <2>1. CASE covering(symtabAt) = {}
    BY <1>4, <1>b, <2>1 DEF FindSymbols, DynTypes, Dyn, symtabAt
  <2>2. CASE covering(symtabAt) # {}
    <3>1. /\ symOff' = vaddrToFileOffset(symtabAt) /\ limit' = limitOf(symtabAt)
          /\ syment' = entrySize(dynTag(dyns, DT_SYMENT)) /\ pc' = "symbols"
          /\ UNCHANGED <<image, file, seg, dyns, str, off, names, cuts>> /\ off = 0
      BY <1>4, <2>2 DEF FindSymbols, symtabAt
    <3>2. {symOff', syment'} \subseteq (-Half)..(Half - 1) /\ limit' \in 1..Cap
      BY <1>c, <2>0, <2>2, <3>1, Home, EntrySizes
    <3>3. off' \in 0..limit' /\ limit' \in 0..Cap
      BY <3>1, <3>2, DynAssumption
    <3>4. Located'
      BY <1>4, <2>2, <3>1 DEF FindSymbols, Located, symtabAt, covering, vaddrToFileOffset, limitOf
    <3> QED BY <1>b, <3>1, <3>2, <3>3, <3>4 DEF DynTypes, Dyn
  <2> QED BY <2>1, <2>2
<1>5. CASE ReadSymbol
  <2> DEFINE name == cstrAt(str, buf[1])
  <2>1. off + syment \in 0..limit /\ buf[1] \in Nat
    <3>1. 1 \in 1..Len(buf)
      BY <1>5, Turn, DynAssumption DEF ReadSymbol
    <3>2. buf[1] \in Word
      BY <1>5, <3>1, Turn, ElementOfSeq DEF ReadSymbol
    <3> QED BY <1>5, <3>2, Turn DEF ReadSymbol, Word
  <2>2. name \in Seq(Word \ {0})
    BY <1>b, <2>1, CstrType
  <2>3. \A x \in names' : x \in Seq(Word \ {0}) /\ x # <<>>
    BY <1>5, <1>b, <2>2 DEF ReadSymbol
  <2>4. /\ off' = off + syment
        /\ UNCHANGED <<image, file, pc, seg, dyns, str, symOff, syment, limit, cuts>>
    BY <1>5 DEF ReadSymbol
  <2>5. Located'
    BY <1>5, <2>4 DEF ReadSymbol, Located, symtabAt, covering, vaddrToFileOffset, limitOf
  <2>6. pc' = "symbols"
    BY <1>5 DEF ReadSymbol
  <2> QED BY <1>b, <2>1, <2>3, <2>4, <2>5, <2>6 DEF DynTypes, Dyn
<1>6. CASE Panics
  BY <1>6, <1>b DEF Panics, DynTypes, Dyn
<1>7. CASE SymbolsDone
  BY <1>7, <1>b DEF SymbolsDone, DynTypes, Dyn
<1>8. CASE Truncate
  <2>1. PICK size \in 0..(Len(file) - 1) : file' = SubSeq(file, 1, size)
    BY <1>8 DEF Truncate
  <2>2. file' \in Seq(Word) /\ Len(file') = size
    BY <1>b, <2>1, SubSeqProperties, ElementOfSeq
  <2>3. Len(file') <= Len(image.cells)
    BY <1>a, <1>b, <2>1, <2>2
  <2>4. cuts' \in 0..MaxCuts
    BY <1>8, <1>b, DynAssumption DEF Truncate
  <2>5. UNCHANGED <<image, pc, seg, dyns, str, symOff, syment, limit, off, names>>
    BY <1>8 DEF Truncate
  <2>6. (pc = "symbols" => Located) => (pc' = "symbols" => Located')
    BY <2>5 DEF Located, symtabAt, covering, vaddrToFileOffset, limitOf
  <2>7. (pc = "strings" => symtabAt # NoValue) => (pc' = "strings" => symtabAt' # NoValue)
    BY <2>5 DEF symtabAt
  <2> QED BY <1>b, <2>2, <2>3, <2>4, <2>5, <2>6, <2>7 DEF DynTypes, Dyn
<1>9. CASE UNCHANGED vars
  <2>1. UNCHANGED <<image, file, pc, seg, dyns, str, symOff, syment, limit, off, names, cuts>>
    BY <1>9 DEF vars
  <2>2. Located => Located'
    BY <2>1 DEF Located, symtabAt, covering, vaddrToFileOffset, limitOf
  <2> QED BY <1>b, <2>1, <2>2 DEF DynTypes, Dyn, symtabAt
<1> QED
  BY <1>1, <1>2, <1>3, <1>4, <1>5, <1>6, <1>7, <1>8, <1>9 DEF Next, phdrSymbolNames

LEMMA TableInvariant == Spec => []ITable
  BY TableInit, TableNext, PTL DEF Spec

(***************************************************************************)
(* Words and converted words stay in their ranges, for every width, header   *)
(* and truncation, and the loop stays in its table.                         *)
(***************************************************************************)
THEOREM DynTypesTheorem == Spec => []DynTypes
  BY TableInvariant, PTL DEF ITable

(***************************************************************************)
(* Whatever the headers say, no symbol is read outside the part of the file  *)
(* that the segment covering the table maps.                                *)
(***************************************************************************)
THEOREM SymbolsInSegmentTheorem == Spec => []SymbolsInSegment
PROOF
<1>1. ITable => SymbolsInSegment
  <2> SUFFICES ASSUME ITable, pc = "symbols", symOff >= 0
               PROVE  home(symtabAt).off <= symOff
                      /\ symOff + off <= home(symtabAt).off + home(symtabAt).filesz
    BY DEF SymbolsInSegment, home, symtabAt
  <2>1. Located /\ off \in 0..limit /\ limit \in 0..Cap /\ dyns \in Seq(Dyn) /\ image \in ImageFile
    BY DEF ITable, DynTypes, Dyn
  <2>2. symtabAt \in Word /\ covering(symtabAt) # {}
    BY <2>1, TagValue DEF Located, symtabAt
  <2> DEFINE p == home(symtabAt)
             v == symtabAt
  <2>3. /\ p \in Prog /\ p.vaddr <= v
        /\ symOff = v - p.vaddr + p.off
        /\ limit <= p.vaddr + p.filesz - v
    <3>1. p \in Prog /\ covers(p, v) /\ symOff = v - p.vaddr + p.off
      BY <2>1, <2>2, Home DEF Located
    <3>2. limit <= p.vaddr + p.filesz - v
      BY <2>1, <2>2, Home, DynAssumption DEF Located
    <3>3. p.vaddr <= v
      BY <3>1 DEF covers
    <3> QED BY <3>1, <3>2, <3>3
  <2>4. /\ p.vaddr \in Int /\ p.off \in Int /\ p.filesz \in Int /\ v \in Int
        /\ limit \in Int /\ off \in Int /\ off <= limit
    BY <2>1, <2>2, <2>3, DynAssumption DEF Prog, Word
  <2> HIDE DEF p, v
  <2>5. p.off <= symOff /\ symOff + off <= p.off + p.filesz
    BY <2>3, <2>4
  <2> QED BY <2>5 DEF p, v
<1> QED BY <1>1, TableInvariant, PTL

-----------------------------------------------------------------------------
(***************************************************************************)
(* A file whose headers are in order: the dynamic entries lead to the two    *)
(* tables where the linker put them.                                        *)
(***************************************************************************)
loadOf(img) == segmentOf(img, symtabOf(img))

\* How far the symbols may run.
roomOf(img) == loadOf(img).off + loadOf(img).filesz - img.link.symAt
runOf(img)  == IF roomOf(img) > Cap THEN Cap ELSE roomOf(img)

\* The segment an address is in is the one the code finds for it, if it does not
\* wrap: one that wraps covers nothing, and another one covers what it holds.
LEMMA Mapped ==
    ASSUME image \in ImageFile, NEW v, NEW o, mapsTo(image, v, o)
    PROVE  LET p == segmentOf(image, v)
           IN  /\ p \in Prog /\ v \in Word /\ p.vaddr <= v /\ v < p.vaddr + p.filesz
               /\ o \in p.off..(p.off + p.filesz - 1) /\ o < Half
               /\ v - p.vaddr + p.off = o /\ p.off + p.filesz <= Len(image.cells)
               /\ covering(v) # {} /\ home(v) = p
               /\ vaddrToFileOffset(v) = o
PROOF
<1> DEFINE p == segmentOf(image, v)
           x == least(holding(image, v))
<1>1. image.progs \in Seq(Prog) /\ Len(image.cells) < Half /\ Len(image.cells) \in Nat
  BY DynAssumption
<1>2. /\ holding(image, v) # {} /\ p.vaddr + p.filesz < 2 * Half
      /\ p.off + p.filesz <= Len(image.cells) /\ v - p.vaddr + p.off = o
  BY DEF mapsTo
<1>3. holding(image, v) \subseteq Nat
  BY <1>1 DEF holding
<1>4. x \in holding(image, v) /\ \A i \in holding(image, v) : x <= i
  BY <1>2, <1>3, LeastElement
<1> HIDE DEF x
<1>5. p = image.progs[x]
  BY DEF segmentOf, x
<1> HIDE DEF p
<1>6. /\ x \in DOMAIN image.progs /\ x \in Nat /\ p \in Prog /\ p.type = "LOAD"
      /\ v \in p.vaddr..(p.vaddr + p.filesz - 1)
  BY <1>1, <1>3, <1>4, <1>5 DEF holding
<1>7. p.vaddr \in Word /\ p.off \in 0..(Half - 1) /\ p.filesz \in 0..(Half - 1)
  BY <1>6 DEF Prog
<1>8. /\ v \in Word /\ p.vaddr <= v /\ v < p.vaddr + p.filesz /\ p.vaddr + p.filesz \in Word
      /\ o \in p.off..(p.off + p.filesz - 1) /\ o < Half
  <2>1. /\ p.vaddr \in Int /\ p.off \in Int /\ p.filesz \in Int /\ Half \in Int
        /\ 0 <= p.vaddr /\ 0 <= p.off /\ 0 <= p.filesz
    BY <1>7, DynAssumption DEF Word
  <2>2. v \in Int /\ p.vaddr <= v /\ v < p.vaddr + p.filesz
    BY <1>6, <2>1
  <2>3. v \in Word /\ p.vaddr + p.filesz \in Word
    BY <1>2, <2>1, <2>2 DEF Word
  <2>4. o \in p.off..(p.off + p.filesz - 1)
    BY <1>2, <2>1, <2>2
  <2>5. o < Half
    BY <1>1, <1>2, <2>1, <2>4
  <2> QED BY <2>2, <2>3, <2>4, <2>5
<1>9. covers(p, v)
  BY <1>6, <1>8, Words DEF covers
<1>10. x \in covering(v)
  BY <1>5, <1>6, <1>9 DEF covering
<1>11. covering(v) \subseteq holding(image, v)
  <2> SUFFICES ASSUME NEW i \in covering(v) PROVE i \in holding(image, v)
    OBVIOUS
  <2>1. i \in DOMAIN image.progs /\ image.progs[i] \in Prog /\ covers(image.progs[i], v)
    BY <1>1, ElementOfSeq DEF covering
  <2>2. image.progs[i].vaddr <= v /\ v < image.progs[i].vaddr + image.progs[i].filesz
    BY <1>8, <2>1, Covered
  <2>3. image.progs[i].vaddr \in Int /\ image.progs[i].filesz \in Int
    <3> DEFINE q == image.progs[i]
    <3>1. q \in Prog
      BY <2>1
    <3> HIDE DEF q
    <3>2. q.vaddr \in Int /\ q.filesz \in Int
      BY <3>1, DynAssumption DEF Prog, Word
    <3> QED BY <3>2 DEF q
  <2>4. v \in Int
    BY <1>8, DynAssumption DEF Word
  <2> QED BY <2>1, <2>2, <2>3, <2>4 DEF holding, covers
<1>12. least(covering(v)) = x
  <2>1. /\ least(covering(v)) \in covering(v)
        /\ \A j \in covering(v) : least(covering(v)) <= j
    BY <1>3, <1>10, <1>11, LeastElement
  <2>2. least(covering(v)) <= x /\ x <= least(covering(v)) /\ least(covering(v)) \in Nat
    BY <1>3, <1>4, <1>10, <1>11, <2>1
  <2> QED BY <1>6, <2>2
<1>13. home(v) = p
  BY <1>5, <1>12 DEF home
<1>14. vaddrToFileOffset(v) = int(uint(v - p.vaddr + p.off))
  BY <1>13 DEF vaddrToFileOffset, home
<1>15. int(uint(o)) = o
  <2>1. o \in 0..(Half - 1)
    BY <1>7, <1>8, DynAssumption
  <2> QED BY <2>1, Words
<1> QED BY <1>2, <1>6, <1>8, <1>10, <1>13, <1>14, <1>15 DEF p

LEMMA InOrder ==
    ASSUME image \in ImageFile, inOrder(image), dyns = linkedDyns(image)
    PROVE  /\ symtabAt \in Word /\ symtabAt # NoValue /\ covering(symtabAt) # {}
           /\ vaddrToFileOffset(symtabAt) = image.link.symAt
           /\ limitOf(symtabAt) = runOf(image)
           /\ entrySize(dynTag(dyns, DT_SYMENT)) = SymSize
           /\ vaddrToFileOffset(dynTag(dyns, DT_STRTAB)) = image.link.strAt
           /\ dynTag(dyns, DT_STRSZ) = image.link.strLen
           /\ stringsFound <=> image.link.strLen # 0
           /\ image.link.symAt + runOf(image) <= Len(image.cells)
           /\ SymSize * Len(image.link.syms) <= runOf(image)
           /\ runOf(image) \in Nat
PROOF
<1> DEFINE l == image.link
           p == loadOf(image)
<1>1. /\ mapsTo(image, symtabAt, l.symAt) /\ mapsTo(image, dynTag(dyns, DT_STRTAB), l.strAt)
      /\ dynTag(dyns, DT_STRSZ) = l.strLen
      /\ dynTag(dyns, DT_SYMENT) \in {NoValue, 0, SymSize}
      /\ l.symAt + SymSize * Len(l.syms) <= p.off + p.filesz
      /\ l.strLen <= Cap /\ SymSize * Len(l.syms) <= Cap
      /\ symtabAt = symtabOf(image)
  BY DEF inOrder, loadOf, symtabOf, symtabAt
<1>2. /\ p \in Prog /\ l.symAt \in Nat /\ symtabAt \in Word /\ covering(symtabAt) # {}
      /\ home(symtabAt) = p /\ vaddrToFileOffset(symtabAt) = l.symAt
      /\ symtabAt - p.vaddr + p.off = l.symAt /\ p.off + p.filesz <= Len(image.cells)
  BY <1>1, Mapped, LinkAssumption DEF loadOf
<1>3. /\ covering(dynTag(dyns, DT_STRTAB)) # {}
      /\ vaddrToFileOffset(dynTag(dyns, DT_STRTAB)) = l.strAt
      /\ dynTag(dyns, DT_STRTAB) \in Word /\ l.strAt \in Nat
  BY <1>1, Mapped, LinkAssumption
<1>4. p.vaddr \in Nat /\ p.off \in Nat /\ p.filesz \in Nat /\ symtabAt \in Nat
  BY <1>2, DynAssumption DEF Prog, Word
<1>5. p.vaddr + p.filesz - symtabAt = roomOf(image)
  <2> HIDE DEF l, p
  <2> QED BY <1>2, <1>4 DEF roomOf, l, p
<1>6. limitOf(symtabAt) = runOf(image) /\ runOf(image) \in 1..Cap
  BY <1>2, <1>5, Home DEF runOf
<1>7. image.link.symAt + runOf(image) <= Len(image.cells)
  <2>1. Len(image.cells) \in Nat
    BY DynAssumption
  <2>2. roomOf(image) = p.off + p.filesz - l.symAt
    BY DEF roomOf
  <2>3. runOf(image) <= roomOf(image)
    <3>1. Cap \in Nat
      BY DynAssumption
    <3>2. roomOf(image) \in Int
      <4> HIDE DEF l, p
      <4> QED BY <1>2, <1>4, <2>2
    <3> QED BY <3>1, <3>2 DEF runOf
  <2>4. p.off + p.filesz <= Len(image.cells) /\ roomOf(image) \in Int /\ runOf(image) \in Int
    <3>1. Cap \in Nat
      BY DynAssumption
    <3>2. roomOf(image) \in Int
      BY <1>2, <1>4, <2>2
    <3> QED BY <1>2, <1>6, <3>1, <3>2
  <2> HIDE DEF l, p
  <2>5. l.symAt + runOf(image) <= Len(image.cells)
    BY <1>2, <1>4, <2>1, <2>2, <2>3, <2>4
  <2> QED BY <2>5 DEF l
<1>8. SymSize * Len(l.syms) <= runOf(image)
  <2>1. SymSize * Len(l.syms) \in Int
    <3>1. l.syms \in Seq([name : Seq(Word), info : Word])
      BY LinkAssumption
    <3> QED BY <3>1, DynAssumption
  <2> DEFINE size == SymSize * Len(l.syms)
  <2>2. size <= Cap /\ l.symAt + size <= p.off + p.filesz
    BY <1>1
  <2> HIDE DEF size, l, p
  <2>3. size <= roomOf(image)
    BY <1>2, <1>4, <2>1, <2>2 DEF roomOf, size, l, p
  <2> QED BY <2>2, <2>3 DEF runOf, size, l
<1>9. entrySize(dynTag(dyns, DT_SYMENT)) = SymSize
  <2>1. SymSize \in Word
    BY DynAssumption DEF Word
  <2>2. 0 \in Word
    BY DynAssumption DEF Word
  <2> QED BY <1>1, <2>1, <2>2, EntrySizes
<1>10. stringsFound <=> l.strLen # 0
  <2>1. l.strLen \in Nat
    BY LinkAssumption
  <2>2. dynTag(dyns, DT_STRTAB) # NoValue
    BY <1>3 DEF NoValue, Word
  <2> QED BY <1>1, <1>3, <2>1, <2>2, DynAssumption DEF stringsFound
<1>11. symtabAt # NoValue
  BY <1>2 DEF NoValue, Word
<1> QED BY <1>1, <1>2, <1>3, <1>6, <1>7, <1>8, <1>9, <1>10, <1>11, DynAssumption

-----------------------------------------------------------------------------
(***************************************************************************)
(* Entry k of the symbol table, and what the first k entries name.           *)
(***************************************************************************)
entryAt(img, k) == img.link.symAt + SymSize * k

named(img, k) == isFunc(cell(img.cells, entryAt(img, k) + InfoAt))

foundBefore(img, k) == {nameAt(img, entryAt(img, j)) : j \in {i \in 0..(k - 1) : named(img, i)}} \ {<<>>}

wholeNames(img) == linkedNames(img) \cup trailingNames(img)

\* The linker's names are those read from its tables.
LEMMA LinkedName ==
    ASSUME NEW img \in ImageFile, NEW i \in DOMAIN img.link.syms
    PROVE  /\ img.link.syms[i].name # <<>>
           /\ img.link.syms[i].name = nameAt(img, entryAt(img, i - 1))
PROOF
<1> DEFINE l == img.link
           o == l.symAt + SymSize * (i - 1)
           at == cell(img.cells, o)
           name == l.syms[i].name
           table == readAt(img.cells, l.strAt, l.strLen)
<1>1. /\ l.symAt \in Nat /\ l.strAt \in Nat /\ l.strLen \in Nat
      /\ l.syms \in Seq([name : Seq(Word), info : Word])
      /\ name # <<>> /\ at + Len(name) < l.strLen
      /\ \A j \in DOMAIN name : name[j] # 0 /\ name[j] = cell(img.cells, l.strAt + at + j - 1)
      /\ cell(img.cells, l.strAt + at + Len(name)) = 0
  BY LinkAssumption
<1>2. /\ name \in Seq(Word) /\ i \in Nat /\ i - 1 \in Nat /\ SymSize \in Nat
      /\ img.cells \in Seq(Word)
  <2>1. img.cells \in Seq(Word) /\ SymSize \in Nat
    BY DynAssumption
  <2> DEFINE R == [name : Seq(Word), info : Word]
  <2>2. i \in 1..Len(l.syms) /\ l.syms[i] \in R
    <3>1. l.syms \in Seq(R) /\ i \in DOMAIN l.syms
      BY <1>1
    <3> HIDE DEF R, l
    <3> QED BY <3>1, ElementOfSeq
  <2> HIDE DEF l
  <2>3. i \in Nat /\ i - 1 \in Nat /\ l.syms[i].name \in Seq(Word)
    BY <2>2, <1>1
  <2> QED BY <2>1, <2>3
<1> HIDE DEF l, name
<1>3. o \in Nat
  <2>1. \A x, y, z \in Nat : x + y * z \in Nat
    OBVIOUS
  <2> QED BY <1>1, <1>2, <2>1
<1> HIDE DEF o
<1>4. at \in Nat
  <2>1. cell(img.cells, o) \in Word
    BY <1>2, <1>3, ReadWords
  <2> QED BY <2>1, DynAssumption DEF Word
<1>5. /\ table \in Seq(Word) /\ Len(table) = l.strLen
      /\ \A j \in 1..l.strLen : table[j] = cell(img.cells, l.strAt + j - 1)
  <2>1. l.strAt \in Nat /\ l.strLen \in Nat /\ img.cells \in Seq(Word)
    BY <1>1, <1>2
  <2> QED BY <2>1, ReadWords
<1> HIDE DEF at, table
<1>6. Len(name) \in Nat /\ DOMAIN name = 1..Len(name)
  BY <1>2
<1>7. \A j \in 1..(Len(name) + 1) : at + j \in 1..l.strLen /\ l.strAt + (at + j) - 1 = l.strAt + at + j - 1
  <2>1. l.strLen \in Nat /\ l.strAt \in Nat /\ at + Len(name) < l.strLen
    BY <1>1 DEF at
  <2> QED BY <1>4, <1>6, <2>1
<1>8. table[at + Len(name) + 1] = 0
  <2>1. l.strAt + at + (Len(name) + 1) - 1 = l.strAt + at + Len(name) /\ Len(name) + 1 \in 1..(Len(name) + 1)
        /\ at + (Len(name) + 1) = at + Len(name) + 1
    BY <1>1, <1>4, <1>6
  <2> QED BY <1>1, <1>5, <1>7, <2>1
<1>9. \A j \in 1..Len(name) : name[j] # 0 /\ name[j] = table[at + j]
  <2> TAKE j \in 1..Len(name)
  <2>1. j \in 1..(Len(name) + 1)
    BY <1>6
  <2>2. name[j] # 0 /\ name[j] = cell(img.cells, l.strAt + at + j - 1)
    BY <1>1, <1>6
  <2>3. table[at + j] = cell(img.cells, l.strAt + (at + j) - 1)
    BY <1>5, <1>7, <2>1
  <2> QED BY <1>7, <2>1, <2>2, <2>3
<1>10. cstrAt(table, at) = name
  BY <1>1, <1>2, <1>4, <1>5, <1>8, <1>9, Terminated
<1>11. nameAt(img, entryAt(img, i - 1)) = cstrAt(table, at)
  BY DEF nameAt, entryAt, table, at, l, o
<1> QED BY <1>1, <1>10, <1>11 DEF name, l

LEMMA Fits ==
    ASSUME NEW size \in Nat \ {0}, NEW run \in Nat, NEW k \in Nat
    PROVE  size * k + size <= run <=> k <= run \div size - 1
PROOF
<1>1. size * k + size = (k + 1) * size
  OBVIOUS
<1>2. (k + 1) * size <= run => k <= run \div size - 1
  OBVIOUS
<1>3. k <= run \div size - 1 => (k + 1) * size <= run
  OBVIOUS
<1> QED BY <1>1, <1>2, <1>3

LEMMA Monotone ==
    ASSUME NEW size \in Nat, NEW j \in Nat, NEW k \in Nat, j < k
    PROVE  size * j + size <= size * k
  OBVIOUS

\* The names the linker put there, and those that follow, are the names of the
\* entries that fit into the run.
LEMMA EntryNames ==
    ASSUME NEW img \in ImageFile, runOf(img) \in Nat, roomOf(img) \in Int,
           SymSize * Len(img.link.syms) <= runOf(img)
    PROVE  \A name : name \in wholeNames(img) <=>
              \E k \in Nat : /\ SymSize * k + SymSize <= runOf(img) /\ named(img, k)
                             /\ name = nameAt(img, entryAt(img, k)) /\ name # <<>>
PROOF
<1> DEFINE l == img.link
           count == Len(l.syms)
           last == runOf(img) \div SymSize - 1
           after == {l.symAt + SymSize * k : k \in count..last}
<1>1. /\ l.symAt \in Nat /\ l.syms \in Seq([name : Seq(Word), info : Word]) /\ count \in Nat
      /\ \A i \in DOMAIN l.syms :
            /\ l.syms[i].name # <<>> /\ l.syms[i].name = nameAt(img, entryAt(img, i - 1))
            /\ l.syms[i].info = cell(img.cells, entryAt(img, i - 1) + InfoAt)
  <2>1. l.symAt \in Nat /\ l.syms \in Seq([name : Seq(Word), info : Word])
    BY LinkAssumption
  <2>2. \A i \in DOMAIN l.syms :
            /\ l.syms[i].name # <<>> /\ l.syms[i].name = nameAt(img, entryAt(img, i - 1))
            /\ l.syms[i].info = cell(img.cells, entryAt(img, i - 1) + InfoAt)
    BY LinkAssumption, LinkedName DEF entryAt
  <2> QED BY <2>1, <2>2
<1>2. SymSize \in Nat \ {0}
  BY DynAssumption
<1>3. last \in Int /\ \A k \in Nat : SymSize * k + SymSize <= runOf(img) <=> k <= last
  BY <1>2, Fits
<1>4. \A name : name \in linkedNames(img) <=>
         \E k \in 0..(count - 1) : named(img, k) /\ name = nameAt(img, entryAt(img, k)) /\ name # <<>>
  <2>1. ASSUME NEW name, name \in linkedNames(img)
        PROVE  \E k \in 0..(count - 1) : named(img, k) /\ name = nameAt(img, entryAt(img, k)) /\ name # <<>>
    <3>1. PICK i \in DOMAIN l.syms : isFunc(l.syms[i].info) /\ name = l.syms[i].name
      BY <2>1 DEF linkedNames
    <3>2. i - 1 \in 0..(count - 1) /\ named(img, i - 1) /\ name = nameAt(img, entryAt(img, i - 1)) /\ name # <<>>
      BY <1>1, <3>1 DEF named
    <3> QED BY <3>2
  <2>2. ASSUME NEW name, NEW k \in 0..(count - 1), named(img, k),
               name = nameAt(img, entryAt(img, k))
        PROVE  name \in linkedNames(img)
    <3>1. k + 1 \in DOMAIN l.syms /\ (k + 1) - 1 = k
      BY <1>1
    <3>2. isFunc(l.syms[k + 1].info) /\ name = l.syms[k + 1].name
      BY <1>1, <2>2, <3>1 DEF named
    <3> QED BY <3>1, <3>2 DEF linkedNames
  <2> QED BY <2>1, <2>2
<1>5. trailingNames(img) = {nameAt(img, o) : o \in {x \in after : isFunc(cell(img.cells, x + InfoAt))}} \ {<<>>}
  BY DEF trailingNames, runOf, roomOf, loadOf
<1>6. \A name : name \in trailingNames(img) <=>
         \E k \in count..last : named(img, k) /\ name = nameAt(img, entryAt(img, k)) /\ name # <<>>
  BY <1>5 DEF named, entryAt
<1>7. \A k \in Nat : k <= last <=> k \in 0..(count - 1) \/ k \in count..last
  <2>1. ASSUME NEW k \in 0..(count - 1) PROVE k <= last
    <3>1. k \in Nat /\ k < count
      BY <1>1
    <3>2. SymSize * k + SymSize <= SymSize * count
      BY <1>1, <1>2, <3>1, Monotone
    <3>3. SymSize * k + SymSize <= runOf(img)
      <4>1. SymSize * k \in Int /\ SymSize * count \in Int
        BY <1>1, <1>2, <3>1
      <4> QED BY <1>2, <3>2, <4>1
    <3> QED BY <1>3, <3>1, <3>3
  <2> HIDE DEF last, count
  <2> QED BY <1>1, <1>3, <2>1 DEF count
<1>8. count..last \subseteq Nat /\ 0..(count - 1) \subseteq Nat
  BY <1>1, <1>3
<1> HIDE DEF last, count
<1> QED BY <1>3, <1>4, <1>6, <1>7, <1>8 DEF wholeNames

\* One more entry.
LEMMA FoundNext ==
    ASSUME NEW img \in ImageFile, NEW k \in Nat
    PROVE  foundBefore(img, k + 1) =
              foundBefore(img, k) \cup
                 IF named(img, k) /\ nameAt(img, entryAt(img, k)) # <<>>
                 THEN {nameAt(img, entryAt(img, k))} ELSE {}
PROOF
<1>1. 0..((k + 1) - 1) = (0..(k - 1)) \cup {k}
  OBVIOUS
<1> QED BY <1>1 DEF foundBefore

(***************************************************************************)
(* A string of a table whose end was cut off and padded with zeroes begins   *)
(* the string of the whole table.                                           *)
(***************************************************************************)
padded(whole, m) == [i \in 1..Len(whole) |-> IF i <= m THEN whole[i] ELSE 0]

LEMMA CutString ==
    ASSUME NEW whole \in Seq(Word), NEW m \in Nat, NEW o \in Nat,
           cstrAt(padded(whole, m), o) # <<>>
    PROVE  LET a == cstrAt(padded(whole, m), o)
               b == cstrAt(whole, o)
           IN  b # <<>> /\ Len(a) <= Len(b) /\ SubSeq(b, 1, Len(a)) = a
PROOF
<1> DEFINE table == padded(whole, m)
           a == cstrAt(table, o)
           b == cstrAt(whole, o)
<1>1. table \in Seq(Word) /\ Len(table) = Len(whole) /\ Len(whole) \in Nat
      /\ \A i \in 1..Len(whole) : table[i] = IF i <= m THEN whole[i] ELSE 0
  <2>1. 0 \in Word
    BY DynAssumption DEF Word
  <2>2. \A i \in 1..Len(whole) : (IF i <= m THEN whole[i] ELSE 0) \in Word
    BY <2>1, ElementOfSeq
  <2> QED BY <2>2 DEF padded
<1>2. o < Len(whole)
  BY <1>1 DEF cstrAt
<1> HIDE DEF table
<1>3. PICK e \in (o + 1)..(Len(whole) + 1) :
         /\ a = SubSeq(table, o + 1, e - 1)
         /\ \A i \in (o + 1)..(e - 1) : table[i] # 0
  BY <1>1, <1>2, Cstr
<1>4. PICK f \in (o + 1)..(Len(whole) + 1) :
         /\ b = SubSeq(whole, o + 1, f - 1)
         /\ f <= Len(whole) => whole[f] = 0
  BY <1>2, Cstr
<1>5. e <= f
  <2>1. CASE f <= Len(whole)
    <3>1. f \in 1..Len(whole) /\ whole[f] = 0
      BY <1>2, <1>4, <2>1
    <3>2. table[f] = 0
      BY <1>1, <3>1
    <3> QED BY <1>3, <3>2
  <2>2. CASE f > Len(whole)
    BY <1>1, <2>2
  <2> QED BY <1>1, <2>1, <2>2
<1>6. \A i \in (o + 1)..(e - 1) : table[i] = whole[i] /\ whole[i] \in Word /\ i \in 1..Len(whole)
  <2>1. \A i \in (o + 1)..(e - 1) : i \in 1..Len(whole)
    BY <1>1, <1>2
  <2> QED BY <1>1, <1>3, <2>1, ElementOfSeq
<1>7. /\ a \in Seq(Word) /\ Len(a) = e - 1 - o
      /\ \A i \in 1..(e - 1 - o) : a[i] = whole[o + i]
  <2>1. \A i \in (o + 1)..(e - 1) : table[i] \in Word
    BY <1>6
  <2>2. /\ a \in Seq(Word) /\ Len(a) = IF o + 1 <= e - 1 THEN (e - 1) - (o + 1) + 1 ELSE 0
        /\ \A i \in 1..((e - 1) - (o + 1) + 1) : a[i] = table[(o + 1) + i - 1]
    BY <1>3, <2>1, SubSeqProperties
  <2>3. \A i \in 1..(e - 1 - o) : (o + 1) + i - 1 = o + i /\ o + i \in (o + 1)..(e - 1)
    BY <1>1
  <2> HIDE DEF a
  <2> QED BY <1>1, <1>6, <2>2, <2>3
<1>8. /\ b \in Seq(Word) /\ Len(b) = f - 1 - o
      /\ \A i \in 1..(f - 1 - o) : b[i] = whole[o + i]
  <2>1. \A i \in (o + 1)..(f - 1) : whole[i] \in Word
    BY <1>1, <1>2, ElementOfSeq
  <2>2. /\ b \in Seq(Word) /\ Len(b) = IF o + 1 <= f - 1 THEN (f - 1) - (o + 1) + 1 ELSE 0
        /\ \A i \in 1..((f - 1) - (o + 1) + 1) : b[i] = whole[(o + 1) + i - 1]
    BY <1>4, <2>1, SubSeqProperties
  <2>3. \A i \in 1..(f - 1 - o) : (o + 1) + i - 1 = o + i
    BY <1>1
  <2> HIDE DEF b
  <2> QED BY <1>1, <2>2, <2>3
<1> HIDE DEF a, b
<1>9. a # <<>>
  BY DEF a, table
<1>10. Len(a) \in Nat /\ Len(a) > 0 /\ Len(a) <= Len(b) /\ Len(b) \in Nat
  BY <1>1, <1>5, <1>7, <1>8, <1>9, EmptySeq
<1>11. SubSeq(b, 1, Len(a)) = a
  <2>1. \A i \in 1..Len(a) : b[i] \in Word
    BY <1>8, <1>10, ElementOfSeq
  <2>2. /\ SubSeq(b, 1, Len(a)) \in Seq(Word) /\ Len(SubSeq(b, 1, Len(a))) = Len(a)
        /\ \A i \in 1..Len(a) : SubSeq(b, 1, Len(a))[i] = b[i]
    BY <1>10, <2>1, SubSeqProperties
  <2>3. \A i \in 1..Len(a) : a[i] = b[i]
    BY <1>1, <1>5, <1>7, <1>8
  <2> QED BY <1>7, <2>2, <2>3, SeqEqual
<1>12. b # <<>>
  BY <1>10, EmptySeq
<1> QED BY <1>10, <1>11, <1>12 DEF a, b, table

-----------------------------------------------------------------------------
(***************************************************************************)
(* The inductive invariant for names: what is left of the file begins the    *)
(* whole file, the string table read from it ends in zeroes where it was     *)
(* cut, and the loop stands at the beginning of an entry.                   *)
(***************************************************************************)
begins(a, b) == Len(a) <= Len(b) /\ SubSeq(b, 1, Len(a)) = a

wholeStr(img) == readAt(img.cells, img.link.strAt, img.link.strLen)

Prefix == \A i \in Nat : i < Len(file) => cell(file, i) = cell(image.cells, i)

Ordered == inOrder(image) /\ dyns = linkedDyns(image)

CutTable == \E m \in Nat : str = padded(wholeStr(image), m)

AtEntry == \E k \in Nat : off = SymSize * k

CutNames == \A name \in names : \E whole \in wholeNames(image) : begins(name, whole)

ICut ==
    /\ Prefix
    /\ Ordered => /\ pc \in {"strings", "symbols"} => CutTable
                  /\ pc = "symbols" => AtEntry
                  /\ CutNames

\* Reading what is left of the file.
LEMMA CutRead ==
    ASSUME Prefix, file \in Seq(Word), image.cells \in Seq(Word), NEW o \in Nat, NEW size \in Nat
    PROVE  \E m \in Nat : readAt(file, o, size) = padded(readAt(image.cells, o, size), m)
PROOF
<1> DEFINE m == IF Len(file) > o THEN Len(file) - o ELSE 0
           whole == readAt(image.cells, o, size)
<1>1. Len(file) \in Nat /\ m \in Nat
  OBVIOUS
<1>2. /\ Len(whole) = size
      /\ \A i \in 1..size : whole[i] = cell(image.cells, o + i - 1)
  BY ReadWords
<1>3. ASSUME NEW i \in 1..size
      PROVE  cell(file, o + i - 1) = IF i <= m THEN cell(image.cells, o + i - 1) ELSE 0
  <2>1. o + i - 1 \in Nat /\ (i <= m <=> o + i - 1 < Len(file))
    BY <1>1
  <2> HIDE DEF m
  <2>2. CASE o + i - 1 < Len(file)
    BY <2>1, <2>2 DEF Prefix
  <2>3. CASE ~(o + i - 1 < Len(file))
    BY <2>1, <2>3 DEF cell
  <2> QED BY <2>2, <2>3
<1> HIDE DEF m
<1>4. readAt(file, o, size) = padded(whole, m)
  BY <1>2, <1>3 DEF readAt, padded
<1> QED BY <1>1, <1>4

\* One turn of the loop in a file whose headers are in order reads one entry.
LEMMA TurnInOrder ==
    ASSUME ITable, Prefix, Ordered, pc = "symbols", inTable, ~readFails,
           NEW k \in Nat, off = SymSize * k
    PROVE  /\ n >= 0 /\ off + syment = SymSize * (k + 1)
           /\ SymSize * k + SymSize <= runOf(image)
           /\ buf[1] \in Nat /\ buf[1] = cell(image.cells, entryAt(image, k))
           /\ buf[InfoAt + 1] % 16 = STT_FUNC <=> named(image, k)
PROOF
<1>1. /\ image \in ImageFile /\ Located /\ file \in Seq(Word) /\ image.cells \in Seq(Word)
      /\ limit \in 0..Cap /\ off \in 0..limit
  BY DynAssumption DEF ITable, DynTypes
<1>2. /\ symOff = image.link.symAt /\ limit = runOf(image) /\ syment = SymSize
      /\ image.link.symAt \in Nat
  BY <1>1, InOrder, LinkAssumption DEF Located, Ordered
<1>3. /\ SymSize \in Nat /\ BufSize \in Nat /\ 1 <= SymSize /\ SymSize <= BufSize
      /\ InfoAt \in Nat /\ InfoAt + 1 <= SymSize
  BY DynAssumption
<1>4. n = SymSize
  BY <1>2, <1>3 DEF n
<1>5. n >= 0
  BY <1>3, <1>4
<1>6. symOff + off \in Nat /\ symOff + off + n <= Len(file) /\ buf \in Seq(Word) /\ Len(buf) = BufSize
  BY <1>5, Turn
<1>7. symOff + off = entryAt(image, k)
  BY <1>2 DEF entryAt
<1>8. ASSUME NEW i \in 1..SymSize PROVE buf[i] = cell(image.cells, entryAt(image, k) + i - 1)
  <2>1. i \in 1..BufSize /\ i <= n /\ symOff + off + i - 1 \in Nat /\ symOff + off + i - 1 < Len(file)
    BY <1>3, <1>4, <1>6
  <2>2. buf[i] = cell(file, symOff + off + i - 1)
    BY <2>1 DEF buf
  <2> QED BY <1>7, <2>1, <2>2 DEF Prefix
<1>9. /\ buf[1] = cell(image.cells, entryAt(image, k))
      /\ buf[InfoAt + 1] = cell(image.cells, entryAt(image, k) + InfoAt)
  <2>1. 1 \in 1..SymSize /\ InfoAt + 1 \in 1..SymSize
    BY <1>3
  <2>2. entryAt(image, k) \in Int
    BY <1>6, <1>7
  <2>3. entryAt(image, k) + 1 - 1 = entryAt(image, k) /\ entryAt(image, k) + (InfoAt + 1) - 1 = entryAt(image, k) + InfoAt
    BY <1>3, <2>2
  <2>4. /\ buf[1] = cell(image.cells, entryAt(image, k) + 1 - 1)
        /\ buf[InfoAt + 1] = cell(image.cells, entryAt(image, k) + (InfoAt + 1) - 1)
    BY <1>8, <2>1
  <2> QED BY <2>3, <2>4
<1>10. buf[1] \in Nat
  <2>1. 1 \in 1..Len(buf)
    BY <1>3, <1>6
  <2>2. buf[1] \in Word
    BY <1>6, <2>1, ElementOfSeq
  <2> QED BY <2>2 DEF Word
<1>11. off + syment = SymSize * (k + 1)
  BY <1>2, <1>3
<1>12. SymSize * k + SymSize <= runOf(image)
  BY <1>2 DEF inTable
<1> QED BY <1>5, <1>9, <1>10, <1>11, <1>12 DEF named, isFunc

LEMMA CutInit == Init => ICut
  BY DEF Init, ICut, Prefix, CutNames

LEMMA InOrderRun ==
    ASSUME ITable, inOrder(image), dyns = linkedDyns(image)
    PROVE  /\ runOf(image) \in Nat /\ roomOf(image) \in Int
           /\ SymSize * Len(image.link.syms) <= runOf(image)
PROOF
<1>1. image \in ImageFile /\ mapsTo(image, symtabOf(image), image.link.symAt)
  BY DEF ITable, inOrder
<1>2. loadOf(image) \in Prog /\ image.link.symAt \in Nat
  BY <1>1, Mapped, LinkAssumption DEF loadOf
<1>3. roomOf(image) \in Int
  BY <1>1, <1>2, DynAssumption DEF roomOf, Prog
<1> QED BY <1>1, <1>3, InOrder

LEMMA CutNext == ITable /\ ICut /\ [Next]_vars => ICut'
PROOF
<1> SUFFICES ASSUME ITable, ICut, [Next]_vars PROVE ICut'
  OBVIOUS
<1>a. /\ image \in ImageFile /\ image.cells \in Seq(Word) /\ file \in Seq(Word)
      /\ Len(file) <= Len(image.cells)
  BY DynAssumption DEF ITable, DynTypes
<1>b. Prefix
  BY DEF ICut
<1>1. CASE ReadDynamic
  <2>1. names = {} /\ pc = "dynamic"
    BY <1>1 DEF ITable, ReadDynamic
  <2> QED BY <1>1, <1>b, <2>1 DEF ReadDynamic, ICut, Prefix, CutNames
<1>2. CASE ReadStrings
  <2>1. names = {} /\ UNCHANGED <<image, file, dyns, names>> /\ pc' = "strings"
    BY <1>2 DEF ITable, ReadStrings
  <2>2. ASSUME Ordered PROVE CutTable'
    <3>1. /\ image.link.strAt \in Nat /\ image.link.strLen \in Nat
          /\ str' = readAt(file, image.link.strAt, image.link.strLen)
      BY <1>2, <1>a, <2>2, InOrder, LinkAssumption DEF ReadStrings, Ordered
    <3>2. \E m \in Nat : str' = padded(wholeStr(image), m)
      BY <1>a, <1>b, <3>1, CutRead DEF wholeStr
    <3> QED BY <2>1, <3>2 DEF CutTable
  <2> QED BY <1>b, <2>1, <2>2 DEF ICut, Prefix, Ordered, CutNames
<1>3. CASE FindSymbols
  <2>1. names = {} /\ off = 0 /\ pc = "strings" /\ UNCHANGED <<image, file, dyns, str, off, names>>
    BY <1>3 DEF ITable, FindSymbols
  <2>2. AtEntry'
    <3>1. 0 = SymSize * 0
      BY DynAssumption
    <3> QED BY <2>1, <3>1 DEF AtEntry
  <2> QED BY <1>b, <2>1, <2>2 DEF ICut, Prefix, Ordered, CutNames, CutTable
<1>4. CASE ReadSymbol
  <2>1. /\ pc = "symbols" /\ inTable /\ ~readFails /\ pc' = pc /\ off' = off + syment
        /\ UNCHANGED <<image, file, dyns, str>>
    BY <1>4 DEF ReadSymbol
  <2>2. ASSUME Ordered PROVE AtEntry' /\ CutNames'
    <3>1. PICK k \in Nat : off = SymSize * k
      BY <2>1, <2>2 DEF ICut, AtEntry
    <3>2. PICK m \in Nat : str = padded(wholeStr(image), m)
      BY <2>1, <2>2 DEF ICut, CutTable
    <3>3. /\ off + syment = SymSize * (k + 1) /\ SymSize * k + SymSize <= runOf(image)
          /\ buf[1] \in Nat /\ buf[1] = cell(image.cells, entryAt(image, k))
          /\ buf[InfoAt + 1] % 16 = STT_FUNC <=> named(image, k)
      BY <1>b, <2>1, <2>2, <3>1, TurnInOrder
    <3>4. AtEntry'
      <4>1. k + 1 \in Nat
        OBVIOUS
      <4> QED BY <2>1, <3>3, <4>1 DEF AtEntry
    <3> DEFINE name == cstrAt(str, buf[1])
               whole == nameAt(image, entryAt(image, k))
    <3>5. name # <<>> => whole # <<>> /\ begins(name, whole)
      <4>1. wholeStr(image) \in Seq(Word)
        BY <1>a, ReadWords, LinkAssumption DEF wholeStr
      <4>2. whole = cstrAt(wholeStr(image), buf[1])
        BY <3>3 DEF nameAt, wholeStr
      <4> HIDE DEF whole
      <4> QED BY <3>2, <3>3, <4>1, <4>2, CutString DEF begins
    <3>6. named(image, k) /\ whole # <<>> => whole \in wholeNames(image)
      BY <1>a, <2>2, <3>3, InOrderRun, EntryNames DEF Ordered
    <3>7. \A x \in names' : x \in names \/ (x = name /\ name # <<>> /\ named(image, k))
      BY <1>4, <3>3 DEF ReadSymbol
    <3>8. CutNames
      BY <2>2 DEF ICut
    <3> HIDE DEF name, whole
    <3>9. \A x \in names' : \E y \in wholeNames(image) : begins(x, y)
      BY <3>5, <3>6, <3>7, <3>8 DEF CutNames
    <3> QED BY <2>1, <3>4, <3>9 DEF CutNames
  <2> QED BY <1>b, <2>1, <2>2 DEF ICut, Prefix, Ordered, CutTable
<1>5. CASE NoStrings \/ Panics \/ SymbolsDone
  BY <1>5, <1>b DEF NoStrings, Panics, SymbolsDone, ICut, Prefix, Ordered, CutNames
<1>6. CASE Truncate
  <2>1. PICK size \in 0..(Len(file) - 1) : file' = SubSeq(file, 1, size)
    BY <1>6 DEF Truncate
  <2>2. UNCHANGED <<image, pc, dyns, str, off, names>>
    BY <1>6 DEF Truncate
  <2>3. /\ Len(file') = size /\ size < Len(file) /\ size \in Nat
        /\ \A i \in 1..size : file'[i] = file[i]
    <3>1. \A i \in 1..size : file[i] \in Word
      BY <1>a, ElementOfSeq
    <3> QED BY <1>a, <2>1, <3>1, SubSeqProperties
  <2>4. Prefix'
    <3>1. ASSUME NEW i \in Nat, i < Len(file') PROVE cell(file', i) = cell(image.cells, i)
      <4>1. i + 1 \in 1..size /\ i < Len(file)
        BY <1>a, <2>3, <3>1
      <4>2. cell(file', i) = cell(file, i)
        BY <2>3, <3>1, <4>1 DEF cell
      <4> QED BY <1>b, <4>1, <4>2 DEF Prefix
    <3> QED BY <2>2, <3>1 DEF Prefix
  <2> QED BY <2>2, <2>4 DEF ICut, Ordered, CutTable, AtEntry, CutNames
<1>7. CASE UNCHANGED vars
  BY <1>7 DEF vars, ICut, Prefix, Ordered, CutTable, AtEntry, CutNames
<1> QED
  BY <1>1, <1>2, <1>3, <1>4, <1>5, <1>6, <1>7 DEF Next, phdrSymbolNames

(***************************************************************************)
(* Whenever the file is truncated, and however often, a name found in a file *)
(* with its headers in order begins a name of the whole file.               *)
(***************************************************************************)
THEOREM NamesAreCutTheorem == Spec => []NamesAreCut
PROOF
<1>1. Spec => [](ITable /\ ICut)
  BY TableInit, TableNext, CutInit, CutNext, PTL DEF Spec
<1>2. ICut => NamesAreCut
  BY DEF ICut, Ordered, NamesAreCut, CutNames, begins, wholeNames
<1> QED BY <1>1, <1>2, PTL

-----------------------------------------------------------------------------
(***************************************************************************)
(* The inductive invariant for a file nobody truncates: the dynamic table is *)
(* the linker's once its segment has been read, and the loop has found what  *)
(* the entries before it name.                                              *)
(***************************************************************************)
dynAt(img) == least({i \in DOMAIN img.progs : img.progs[i].type = "DYNAMIC"})

Whole == cuts = 0 /\ inOrder(image)

FoundSoFar == \E k \in Nat : off = SymSize * k /\ names = foundBefore(image, k)

IFound ==
    /\ cuts = 0 => file = image.cells
    /\ Whole => /\ pc = "dynamic" => dyns = IF seg > dynAt(image) THEN linkedDyns(image) ELSE <<>>
                /\ pc # "dynamic" => dyns = linkedDyns(image)
                /\ pc \in {"strings", "symbols"} => str = wholeStr(image)
                /\ pc = "symbols" => FoundSoFar
                /\ pc = "done" => names = wholeNames(image)

LEMMA OneDynamic ==
    ASSUME image \in ImageFile, inOrder(image)
    PROVE  /\ dynAt(image) \in DOMAIN image.progs
           /\ \A i \in DOMAIN image.progs : image.progs[i].type = "DYNAMIC" <=> i = dynAt(image)
           /\ linkedDyns(image) \in Seq(Dyn)
PROOF
<1> DEFINE dynamics == {i \in DOMAIN image.progs : image.progs[i].type = "DYNAMIC"}
<1>1. image.progs \in Seq(Prog) /\ image.cells \in Seq(Word)
  BY DynAssumption
<1>2. PICK x : dynamics = {x}
  <2>1. IsFiniteSet(dynamics)
    <3>1. dynamics \subseteq 1..Len(image.progs) /\ Len(image.progs) \in Int
      BY <1>1
    <3>2. IsFiniteSet(1..Len(image.progs))
      BY <3>1, FS_Interval
    <3> QED BY <3>1, <3>2, FS_Subset
  <2>2. Cardinality(dynamics) = 1
    BY DEF inOrder
  <2> QED BY <2>1, <2>2, FS_Singleton
<1>3. \A S : S = {x} => least(S) = x
  BY DEF least
<1>4. dynAt(image) = x
  BY <1>2, <1>3 DEF dynAt
<1>5. image.progs[x] \in Prog
  BY <1>1, <1>2
<1>6. image.progs[x].off \in Nat /\ image.progs[x].filesz \in Nat
  BY <1>5, DynAssumption DEF Prog
<1>7. linkedDyns(image) = parseDynEntries(readAt(image.cells, image.progs[x].off, image.progs[x].filesz))
  BY <1>4 DEF linkedDyns, dynAt
<1>8. linkedDyns(image) \in Seq(Dyn)
  BY <1>1, <1>6, <1>7, ReadWords, ParsedEntries
<1> QED BY <1>2, <1>4, <1>8

LEMMA FoundInit == Init => IFound
PROOF
<1> SUFFICES ASSUME Init PROVE IFound
  OBVIOUS
<1>1. image \in ImageFile
  BY DEF Init
<1>2. inOrder(image) => ~(1 > dynAt(image))
  <2>1. image.progs \in Seq(Prog)
    BY <1>1, DynAssumption
  <2> QED BY <1>1, <2>1, OneDynamic
<1> QED BY <1>2 DEF Init, IFound, Whole

\* The loop ends where the run does.
LEMMA AllFound ==
    ASSUME ITable, inOrder(image), dyns = linkedDyns(image),
           NEW k \in Nat, SymSize * k <= runOf(image), ~(SymSize * k + SymSize <= runOf(image))
    PROVE  foundBefore(image, k) = wholeNames(image)
PROOF
<1>1. /\ runOf(image) \in Nat /\ roomOf(image) \in Int /\ image \in ImageFile
      /\ SymSize * Len(image.link.syms) <= runOf(image)
  BY InOrderRun DEF ITable
<1>2. SymSize \in Nat \ {0} /\ SymSize \in Nat
  BY DynAssumption
<1>3. ASSUME NEW j \in Nat
      PROVE  j < k <=> SymSize * j + SymSize <= runOf(image)
  <2>0. SymSize * j \in Int /\ SymSize * k \in Int
    BY <1>2
  <2>1. ASSUME j < k PROVE SymSize * j + SymSize <= SymSize * k
    BY <1>2, <2>1, Monotone
  <2>2. ASSUME ~(j < k) PROVE SymSize * k <= SymSize * j
    <3>1. CASE j = k
      BY <2>0, <3>1
    <3>2. CASE k < j
      <4>1. SymSize * k + SymSize <= SymSize * j
        BY <1>2, <3>2, Monotone
      <4> QED BY <1>2, <2>0, <4>1
    <3> QED BY <2>2, <3>1, <3>2
  <2> QED BY <1>1, <1>2, <2>0, <2>1, <2>2
<1>4. ASSUME NEW name
      PROVE  name \in foundBefore(image, k) <=> name \in wholeNames(image)
  <2>1. name \in wholeNames(image) <=>
           \E j \in Nat : /\ SymSize * j + SymSize <= runOf(image) /\ named(image, j)
                          /\ name = nameAt(image, entryAt(image, j)) /\ name # <<>>
    BY <1>1, EntryNames
  <2>2. name \in foundBefore(image, k) <=>
           \E j \in 0..(k - 1) : /\ named(image, j)
                                 /\ name = nameAt(image, entryAt(image, j)) /\ name # <<>>
    BY DEF foundBefore
  <2>3. \A j : j \in 0..(k - 1) <=> j \in Nat /\ j < k
    OBVIOUS
  <2> QED BY <1>3, <2>1, <2>2, <2>3
<1> QED BY <1>4

LEMMA FoundNextStep == ITable /\ ICut /\ IFound /\ [Next]_vars => IFound'
PROOF
<1> SUFFICES ASSUME ITable, ICut, IFound, [Next]_vars PROVE IFound'
  OBVIOUS
<1>a. /\ image \in ImageFile /\ image.cells \in Seq(Word) /\ image.progs \in Seq(Prog)
      /\ seg \in 1..(Len(image.progs) + 1) /\ cuts \in Nat /\ Len(image.progs) \in Nat
  BY DynAssumption DEF ITable, DynTypes
<1>b. Whole => cuts = 0 /\ inOrder(image) /\ file = image.cells
  BY DEF IFound, Whole
<1>c. Whole /\ pc = "dynamic" /\ seg > Len(image.progs) => dyns = linkedDyns(image)
  <2>1. inOrder(image) => dynAt(image) \in 1..Len(image.progs)
    BY <1>a, OneDynamic
  <2> QED BY <1>a, <1>b, <2>1 DEF IFound
<1>1. CASE ReadDynamic
  <2> DEFINE p == image.progs[seg]
  <2>1. /\ pc = "dynamic" /\ pc' = pc /\ seg' = seg + 1 /\ UNCHANGED <<image, file, cuts>>
        /\ seg \in DOMAIN image.progs
        /\ dyns' = IF p.type # "DYNAMIC" THEN dyns
                   ELSE dyns \o parseDynEntries(readAt(file, p.off, p.filesz))
    BY <1>1, <1>a DEF ReadDynamic
  <2>2. ASSUME Whole
        PROVE  dyns' = IF seg' > dynAt(image) THEN linkedDyns(image) ELSE <<>>
    <3>1. /\ dynAt(image) \in Nat
          /\ p.type = "DYNAMIC" <=> seg = dynAt(image)
          /\ linkedDyns(image) \in Seq(Dyn)
      BY <1>a, <1>b, <2>1, <2>2, OneDynamic
    <3>2. dyns = IF seg > dynAt(image) THEN linkedDyns(image) ELSE <<>>
      BY <2>1, <2>2 DEF IFound
    <3>3. CASE seg = dynAt(image)
      <4>1. linkedDyns(image) = parseDynEntries(readAt(file, p.off, p.filesz))
        BY <1>b, <2>2, <3>3 DEF linkedDyns, dynAt
      <4>2. ~(seg > dynAt(image)) /\ seg' > dynAt(image)
        BY <1>a, <2>1, <3>1, <3>3
      <4>3. dyns = <<>>
        BY <3>2, <4>2
      <4>4. dyns' = dyns \o linkedDyns(image)
        BY <2>1, <3>1, <3>3, <4>1
      <4>5. dyns' = linkedDyns(image)
        BY <3>1, <4>3, <4>4, ConcatEmptySeq
      <4> QED BY <4>2, <4>5
    <3>4. CASE seg # dynAt(image)
      <4>1. dyns' = dyns /\ (seg' > dynAt(image) <=> seg > dynAt(image))
        BY <1>a, <2>1, <3>1, <3>4
      <4> QED BY <3>2, <4>1
    <3> QED BY <3>3, <3>4
  <2> QED BY <2>1, <2>2 DEF IFound, Whole
<1>2. CASE ReadStrings
  <2>1. pc' = "strings" /\ UNCHANGED <<image, file, dyns, cuts>>
    BY <1>2 DEF ReadStrings
  <2>2. ASSUME Whole PROVE dyns = linkedDyns(image) /\ str' = wholeStr(image)
    <3>1. dyns = linkedDyns(image)
      BY <1>2, <1>c, <2>2 DEF ReadStrings
    <3>2. /\ vaddrToFileOffset(dynTag(dyns, DT_STRTAB)) = image.link.strAt
          /\ dynTag(dyns, DT_STRSZ) = image.link.strLen
      BY <1>a, <1>b, <2>2, <3>1, InOrder
    <3> QED BY <1>2, <1>b, <2>2, <3>1, <3>2 DEF ReadStrings, wholeStr
  <2> QED BY <1>b, <2>1, <2>2 DEF IFound, Whole
<1>3. CASE NoStrings
  <2>1. pc' = "done" /\ UNCHANGED <<image, file, dyns, cuts, names>> /\ names = {}
    BY <1>3 DEF NoStrings, ITable
  <2>2. ASSUME Whole PROVE dyns = linkedDyns(image) /\ wholeNames(image) = {}
    <3>1. dyns = linkedDyns(image)
      BY <1>3, <1>c, <2>2 DEF NoStrings
    <3>2. image.link.strLen = 0
      BY <1>3, <1>a, <1>b, <2>2, <3>1, InOrder DEF NoStrings, symtabAt
    <3>3. ASSUME NEW k \in Nat PROVE nameAt(image, entryAt(image, k)) = <<>>
      <4>1. Len(wholeStr(image)) = 0
        BY <1>a, <3>2, ReadWords, LinkAssumption DEF wholeStr
      <4>2. entryAt(image, k) \in Nat
        <5>1. image.link.symAt \in Nat /\ SymSize \in Nat
          BY <1>a, LinkAssumption, DynAssumption
        <5>2. SymSize * k \in Nat
          BY <5>1
        <5> QED BY <5>1, <5>2 DEF entryAt
      <4>3. cell(image.cells, entryAt(image, k)) \in Nat
        BY <1>a, <4>2, ReadWords DEF Word
      <4> QED BY <4>1, <4>3 DEF nameAt, wholeStr, cstrAt
    <3>4. ASSUME NEW name PROVE name \notin wholeNames(image)
      BY <1>a, <1>b, <2>2, <3>1, <3>3, InOrderRun, EntryNames
    <3> QED BY <3>1, <3>4
  <2> QED BY <1>b, <2>1, <2>2 DEF IFound, Whole
<1>4. CASE FindSymbols
  <2>1. pc = "strings" /\ off = 0 /\ names = {} /\ UNCHANGED <<image, file, dyns, cuts, str, off, names>>
    BY <1>4 DEF FindSymbols, ITable
  <2>2. ASSUME Whole PROVE pc' = "symbols" /\ FoundSoFar'
    <3>1. covering(symtabAt) # {}
      BY <1>a, <1>b, <2>1, <2>2, InOrder DEF IFound
    <3>2. off' = SymSize * 0 /\ names' = foundBefore(image', 0)
      <4>1. SymSize * 0 = 0
        BY DynAssumption
      <4>2. foundBefore(image, 0) = {}
        BY DEF foundBefore
      <4> QED BY <2>1, <4>1, <4>2
    <3> QED BY <1>4, <3>1, <3>2 DEF FindSymbols, FoundSoFar, symtabAt
  <2>3. Whole => dyns = linkedDyns(image) /\ str = wholeStr(image)
    BY <2>1 DEF IFound
  <2> QED BY <1>b, <2>1, <2>2, <2>3 DEF IFound, Whole
<1>5. CASE ReadSymbol
  <2>1. /\ pc = "symbols" /\ inTable /\ ~readFails /\ pc' = pc /\ off' = off + syment
        /\ UNCHANGED <<image, file, dyns, str, cuts>>
    BY <1>5 DEF ReadSymbol
  <2>2. ASSUME Whole PROVE FoundSoFar'
    <3>1. PICK k \in Nat : off = SymSize * k /\ names = foundBefore(image, k)
      BY <2>1, <2>2 DEF IFound, FoundSoFar
    <3>2. Ordered /\ Prefix /\ str = wholeStr(image)
      BY <1>b, <2>1, <2>2 DEF IFound, ICut, Ordered
    <3>3. /\ off + syment = SymSize * (k + 1)
          /\ buf[1] = cell(image.cells, entryAt(image, k))
          /\ buf[InfoAt + 1] % 16 = STT_FUNC <=> named(image, k)
      BY <2>1, <3>1, <3>2, TurnInOrder
    <3>4. cstrAt(str, buf[1]) = nameAt(image, entryAt(image, k))
      BY <3>2, <3>3 DEF nameAt, wholeStr
    <3>5. names' = IF named(image, k) /\ nameAt(image, entryAt(image, k)) # <<>>
                   THEN names \cup {nameAt(image, entryAt(image, k))} ELSE names
      BY <1>5, <3>3, <3>4 DEF ReadSymbol
    <3>6. names' = foundBefore(image, k + 1)
      <4> DEFINE name == nameAt(image, entryAt(image, k))
      <4>1. foundBefore(image, k + 1) =
               foundBefore(image, k) \cup IF named(image, k) /\ name # <<>> THEN {name} ELSE {}
        BY <1>a, FoundNext
      <4> HIDE DEF name
      <4>2. CASE named(image, k) /\ name # <<>>
        BY <3>1, <3>5, <4>1, <4>2 DEF name
      <4>3. CASE ~(named(image, k) /\ name # <<>>)
        BY <3>1, <3>5, <4>1, <4>3 DEF name
      <4> QED BY <4>2, <4>3
    <3>7. k + 1 \in Nat
      OBVIOUS
    <3> QED BY <2>1, <3>3, <3>6, <3>7 DEF FoundSoFar
  <2>3. Whole => dyns = linkedDyns(image) /\ str = wholeStr(image)
    BY <2>1 DEF IFound
  <2> QED BY <1>b, <2>1, <2>2, <2>3 DEF IFound, Whole
<1>6. CASE Panics
  BY <1>6, <1>b DEF Panics, IFound, Whole
<1>7. CASE SymbolsDone
  <2>1. /\ pc = "symbols" /\ pc' = "done" /\ UNCHANGED <<image, file, dyns, cuts, names>>
        /\ ~inTable \/ (n >= 0 /\ readFails)
    BY <1>7 DEF SymbolsDone
  <2>2. ASSUME Whole PROVE names = wholeNames(image)
    <3>1. PICK k \in Nat : off = SymSize * k /\ names = foundBefore(image, k)
      BY <2>1, <2>2 DEF IFound, FoundSoFar
    <3>2. dyns = linkedDyns(image) /\ inOrder(image) /\ file = image.cells
      BY <1>b, <2>1, <2>2 DEF IFound
    <3>3. /\ symOff = image.link.symAt /\ limit = runOf(image) /\ syment = SymSize
          /\ image.link.symAt \in Nat /\ runOf(image) \in Nat
          /\ image.link.symAt + runOf(image) <= Len(image.cells)
          /\ off \in 0..limit
      BY <1>a, <2>1, <3>2, InOrder, LinkAssumption DEF ITable, Located, DynTypes
    <3>4. ~inTable
      <4>1. n = SymSize /\ SymSize \in Nat
        BY <3>3, DynAssumption DEF n
      <4>2. Len(image.cells) \in Nat
        BY <1>a
      <4>3. ASSUME inTable PROVE ~readFails
        <5>1. off + SymSize <= runOf(image) /\ off \in Nat
          BY <3>3, <4>3 DEF inTable
        <5>2. ~(symOff + off < 0) /\ ~(symOff + off + SymSize > Len(file))
          BY <3>2, <3>3, <4>1, <4>2, <5>1
        <5> QED BY <4>1, <5>2 DEF readFails, short
      <4> QED BY <2>1, <4>3
    <3>5. SymSize * k <= runOf(image) /\ ~(SymSize * k + SymSize <= runOf(image))
      BY <3>1, <3>3, <3>4 DEF inTable
    <3> QED BY <3>1, <3>2, <3>5, AllFound
  <2>3. Whole => dyns = linkedDyns(image)
    BY <2>1 DEF IFound
  <2> QED BY <1>b, <2>1, <2>2, <2>3 DEF IFound, Whole
<1>8. CASE Truncate
  <2>1. cuts' = cuts + 1
    BY <1>8 DEF Truncate
  <2>2. cuts' # 0
    BY <1>a, <2>1
  <2> QED BY <2>2 DEF IFound, Whole
<1>9. CASE UNCHANGED vars
  BY <1>9 DEF vars, IFound, Whole, FoundSoFar
<1> QED
  BY <1>1, <1>2, <1>3, <1>4, <1>5, <1>6, <1>7, <1>8, <1>9 DEF Next, phdrSymbolNames

(***************************************************************************)
(* For words of any width, and tables anywhere in the address space and in   *)
(* any order, the function returns exactly the STT_FUNC names of the symbol  *)
(* table and those that follow it in its segment.                           *)
(***************************************************************************)
THEOREM SymbolsFoundTheorem == Spec => []SymbolsFound
PROOF
<1>1. Spec => [](ITable /\ ICut /\ IFound)
  BY TableInit, TableNext, CutInit, CutNext, FoundInit, FoundNextStep, PTL DEF Spec
<1>2. IFound => SymbolsFound
  BY DEF IFound, Whole, SymbolsFound, wholeNames
<1> QED BY <1>1, <1>2, PTL
=============================================================================
