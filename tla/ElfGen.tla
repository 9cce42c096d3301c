-------------------------------- MODULE ElfGen ------------------------------
(***************************************************************************)
(* internal/elfgen: the ELF files the tests of checksec run CheckFile on.    *)
(* Build turns a layout, the features a test asks for, into an image with    *)
(* program headers and no section headers.  Offsets, addresses and padding   *)
(* are not modelled.                                                        *)
(***************************************************************************)
EXTENDS Scan

CONSTANT NoLayout

VARIABLE layout   \* the layout the scanned file was built from, or NoLayout

Layout == [Machine : Machine,
           Pie : BOOLEAN, ETDyn : BOOLEAN, Interp : BOOLEAN, GnuStackX : BOOLEAN,
           NoStack : BOOLEAN, Relro : BOOLEAN, BindNow : BOOLEAN, Flags1Pie : BOOLEAN,
           FlagsBind : BOOLEAN, TextRel : BOOLEAN, FlagsTextRel : BOOLEAN,
           Retguard : BOOLEAN, PacIBSP : BOOLEAN,
           Rpath : SUBSET RunEntry, Runpath : SUBSET RunEntry,
           DynSyms : SUBSET SymName, ObjectSyms : SUBSET SymName]

on(flag, x) == IF flag THEN {x} ELSE {}

hasSymbols(l) == l.DynSyms \cup l.ObjectSyms # {}

\* DT_STRTAB and DT_SYMTAB come with the symbols only.
dynamicEntries(l) ==
    (IF hasSymbols(l) THEN {"STRTAB", "SYMTAB"} ELSE {})
        \cup on(l.BindNow, "BIND_NOW") \cup on(l.TextRel, "TEXTREL")
        \cup on(l.FlagsBind, "DF_BIND_NOW") \cup on(l.FlagsTextRel, "DF_TEXTREL")
        \cup on(l.Flags1Pie, "DF_1_PIE")

hasDyn(l) == dynamicEntries(l) # {} \/ l.Rpath # {} \/ l.Runpath # {}

\* Fault: PT_INTERP follows the Interp field alone.
segmentsNoPie(l) ==
    {"LOAD"} \cup on(l.Interp, "INTERP") \cup on(hasDyn(l), "DYNAMIC")
        \cup on(l.Relro, "GNU_RELRO") \cup on(l.Retguard, "RETGUARD")
        \cup on(~l.NoStack, IF l.GnuStackX THEN "GNU_STACK_X" ELSE "GNU_STACK")

segments(l) ==
    {"LOAD"} \cup on(l.Interp \/ l.Pie, "INTERP") \cup on(hasDyn(l), "DYNAMIC")
        \cup on(l.Relro, "GNU_RELRO") \cup on(l.Retguard, "RETGUARD")
        \cup on(~l.NoStack, IF l.GnuStackX THEN "GNU_STACK_X" ELSE "GNU_STACK")

typed(names, t) == {[name |-> n, type |-> t] : n \in names}

\* The pacibsp bytes end the string table, which the one executable PT_LOAD
\* holds like everything else.
Build(l) ==
    [readable |-> TRUE, kind |-> "elf",
     hdr |-> [machine |-> l.Machine, type |-> IF l.Pie \/ l.ETDyn THEN "DYN" ELSE "EXEC",
              segs |-> segments(l), sections |-> {}],
     body |-> [dyn |-> dynamicEntries(l),
               needed |-> IF hasSymbols(l) THEN {"libc.so.6"} ELSE {},
               rpath |-> l.Rpath, runpath |-> l.Runpath,
               dynsym |-> typed(l.DynSyms, "FUNC") \cup typed(l.ObjectSyms, "OBJECT"),
               symtab |-> {}, trailing |-> {}, pac |-> on(l.PacIBSP, "other")]]

-----------------------------------------------------------------------------
(***************************************************************************)
(* writeElf of checksec_test.go, scanned by scc: the file Build returns is   *)
(* written to a directory of its own, and no other process knows of it.      *)
(***************************************************************************)
GeneratedInit ==
    /\ Init /\ layout \in Layout
    /\ \A i \in Inode : disk[i] = Build(layout)
    /\ job.cmd = "file" /\ \A i \in DOMAIN job.rest : exists(job.rest[i])
    /\ job.format \notin complianceFormat

GeneratedSpec == GeneratedInit /\ [][scc /\ UNCHANGED layout]_<<vars, layout>>

-----------------------------------------------------------------------------
(***************************************************************************)
(* What checksec_test.go asks of a layout.                                   *)
(***************************************************************************)
asksStack(l) == \/ \E n \in l.DynSyms : isCanarySymbol(n)
                \/ l.Machine = "AARCH64" /\ (l.Retguard \/ l.PacIBSP)

asksPIE(l) == CASE l.Pie \/ (l.ETDyn /\ l.Interp) -> "PIE enabled"
                [] l.ETDyn /\ ~l.Pie /\ ~l.Interp ->
                      IF l.Flags1Pie THEN "Static PIE" ELSE "DSO (shared library)"
                [] ~l.Pie /\ ~l.ETDyn -> "PIE disabled"

asksRELRO(l) == IF ~l.Relro THEN "No RELRO"
                ELSE IF l.BindNow \/ l.FlagsBind THEN "Full RELRO" ELSE "Partial RELRO"

asksHardened(l) ==
    /\ asksStack(l)
    /\ l.Relro /\ (l.BindNow \/ l.FlagsBind)
    /\ asksPIE(l) # "PIE disabled" /\ ~l.TextRel /\ ~l.FlagsTextRel
    /\ l.NoStack \/ ~l.GnuStackX

(***************************************************************************)
(* A generated file shows, to checks that read it without section headers,   *)
(* what its layout asks for: its RELRO and PIE class, and an exit code of 0  *)
(* exactly when every hardening is asked for.  An rpath is seen only if the  *)
(* layout has symbols: without them Build emits no DT_STRTAB to name it.     *)
(***************************************************************************)
LayoutIsVisible ==
    layout # NoLayout /\ reports # <<>> =>
        /\ reports[1].checks["relro"].value = asksRELRO(layout)
        /\ reports[1].checks["pie"].value = asksPIE(layout)
        /\ exit \in {0, 2} =>
              (exit = 0 <=> asksHardened(layout) /\ (hasSymbols(layout) => layout.Rpath = {}))
=============================================================================
