------------------------------ MODULE ElfImage ------------------------------
(***************************************************************************)
(* What the checks of internal/checksec can tell apart about a file, and    *)
(* the ways they read it.                                                   *)
(*                                                                          *)
(* An image is the content of one inode.  Its header is the part that       *)
(* elf.NewFile parses once and keeps in the *elf.File (machine, type,       *)
(* program headers, section headers); its body is the part each check reads *)
(* again from the file when it runs (dynamic entries, symbol tables, code   *)
(* bytes).                                                                  *)
(*                                                                          *)
(* A symbol name is [base, ver]: the name with and without the "@VERSION"   *)
(* suffix.  The string patterns of the source are sets of base names.       *)
(***************************************************************************)
CONSTANTS
    BaseName,      \* symbol names without their version suffix
    CanaryBase,    \* those with one of the canaryPrefixes
    FortifyBase,   \* those of the form __*_chk or __*_chkieee128
    Fortifiable,   \* base names of supportedChkFuncs: "memcpy", "strcpy", ...
    Library,       \* DT_NEEDED strings
    LibcLibrary,   \* those resolveLibcFlag takes for a libc
    RunEntry,      \* colon-separated RPATH / RUNPATH entries
    EntryRisk      \* classifyRunpathEntry on this host: entry |-> 0, 1 or 2

ASSUME NamesAssumption ==
    /\ CanaryBase \subseteq BaseName
    /\ FortifyBase \subseteq BaseName
    /\ Fortifiable \subseteq BaseName
    /\ LibcLibrary \subseteq Library

(***************************************************************************)
(* rpSafe, rpWarn, rpInsecure of classifyRunpathEntry.                      *)
(***************************************************************************)
rpSafe == 0
rpWarn == 1
rpInsecure == 2

ASSUME RiskAssumption == EntryRisk \in [RunEntry -> {rpSafe, rpWarn, rpInsecure}]

SymName == [base : BaseName, ver : {"", "@"}]
SymType == {"FUNC", "NOTYPE", "OBJECT"}
Symbol  == [name : SymName, type : SymType]

\* GNU_STACK_X: the first PT_GNU_STACK is executable.  CROWD: there are more than
\* 10001 program headers, with no PT_GNU_STACK among the first 10001.  A section
\* is listed when its data can be read.
Machine  == {"AARCH64", "other"}
FileType == {"DYN", "EXEC", "REL"}        \* any other e_type behaves as EXEC
Segment  == {"LOAD", "DYNAMIC", "INTERP", "GNU_RELRO", "GNU_STACK",
             "GNU_STACK_X", "RETGUARD", "CROWD"}
Section  == {".dynamic", ".dynsym", ".symtab", ".text", ".ohos.randomdata"}

\* Dynamic entries.  STRTAB stands for DT_STRTAB with a usable DT_STRSZ; the
\* DF_ and DF_1_ members are bits of DT_FLAGS and DT_FLAGS_1.
DynTag   == {"STRTAB", "SYMTAB", "BIND_NOW", "DF_BIND_NOW", "DF_1_NOW",
             "DF_1_PIE", "TEXTREL", "DF_TEXTREL"}

Header == [machine : Machine, type : FileType,
           segs : SUBSET Segment, sections : SUBSET Section]

\* trailing is what the bytes that follow the dynamic symbol table decode to
\* when phdrSymbolNames reads on to the end of the PT_LOAD segment.
\* pac says where the pacibsp encoding occurs: in .text, or in other
\* executable bytes.
Body == [dyn : SUBSET DynTag, needed : SUBSET Library,
         rpath : SUBSET RunEntry, runpath : SUBSET RunEntry,
         dynsym : SUBSET Symbol, symtab : SUBSET Symbol,
         trailing : SUBSET Symbol, pac : SUBSET {"text", "other"}]

\* "truncated" starts with the ELF magic but elf.NewFile rejects it.
Image == [readable : BOOLEAN, kind : {"elf", "truncated", "data"},
          hdr : Header, body : Body]

-----------------------------------------------------------------------------
(***************************************************************************)
(* debug/elf, from section headers only: no section, no data.               *)
(***************************************************************************)
ElfSymbols(h, b)        == IF ".symtab" \in h.sections THEN b.symtab ELSE {}
ElfDynamicSymbols(h, b) == IF ".dynsym" \in h.sections THEN b.dynsym ELSE {}
ElfDynValue(h, b)       == IF ".dynamic" \in h.sections THEN b.dyn ELSE {}
ElfDynString(h, b, val) == IF ".dynamic" \in h.sections THEN val ELSE {}

(***************************************************************************)
(* dyn.go, from program headers only.                                       *)
(***************************************************************************)
parsePTDynamic(h, b) == IF "DYNAMIC" \in h.segs THEN b.dyn ELSE {}

\* DT_STRTAB lies in a PT_LOAD segment of every linked image.
dynamicStrings(h, b) == /\ "STRTAB" \in parsePTDynamic(h, b)
                        /\ "LOAD" \in h.segs

dynStringPH(h, b, val) == IF dynamicStrings(h, b) THEN val ELSE {}

\* Only STT_FUNC entries; the table's length is unknown, so what follows it
\* is decoded too.
phdrSymbolNames(h, b) ==
    IF dynamicStrings(h, b) /\ "SYMTAB" \in parsePTDynamic(h, b)
    THEN {s.name : s \in {t \in b.dynsym \cup b.trailing : t.type = "FUNC"}}
    ELSE {}

\* Fault: debug/elf's own tables, and the program headers only in their absence.
allSymbolNamesFallback(h, b) ==
    LET tables == ElfSymbols(h, b) \cup ElfDynamicSymbols(h, b)
    IN  IF ".symtab" \in h.sections THEN {s.name : s \in ElfSymbols(h, b)}
        ELSE {s.name : s \in tables} \cup phdrSymbolNames(h, b)

allSymbolNames(h, b) ==
    {s.name : s \in ElfSymbols(h, b) \cup ElfDynamicSymbols(h, b)}
        \cup phdrSymbolNames(h, b)

importedNames(h, b) == {s.name : s \in ElfDynamicSymbols(h, b)}

\* Section view first, program headers when it yields nothing.
dynamicStringsFor(h, b, val) ==
    IF ElfDynString(h, b, val) # {} THEN ElfDynString(h, b, val)
    ELSE dynStringPH(h, b, val)

-----------------------------------------------------------------------------
(***************************************************************************)
(* Names.                                                                   *)
(***************************************************************************)
baseSymbolName(n) == [n EXCEPT !.ver = ""]

\* A prefix match, so a version suffix does not matter.
isCanarySymbol(n) == n.base \in CanaryBase

\* A suffix match, so a version suffix hides it.
isFortifyChkName(n) == n.base \in FortifyBase /\ n.ver = ""
=============================================================================
