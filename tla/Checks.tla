------------------------------- MODULE Checks -------------------------------
(***************************************************************************)
(* internal/checksec: every check as an operator on the parsed header and    *)
(* the body it reads, and CheckFile as the sequence of stores into           *)
(* report.Checks.  A Result keeps the strings the rest of the program        *)
(* compares (report values the compliance rules switch on, statuses);        *)
(* diagnostic detail inside a value (entry lists, counts of symbols) is      *)
(* dropped.                                                                  *)
(***************************************************************************)
EXTENDS ElfImage, Naturals, Sequences, FiniteSets

Value ==
    {"error checking", "N/A", "N/A (not AArch64)",
     "Full RELRO", "Partial RELRO", "No RELRO", "Canary found", "No canary found",
     "Retguard enabled", "No retguard", "PAC CFI enabled", "No PAC CFI",
     "Covered by SP", "Covered by Retguard", "Covered by PAC CFI",
     "NX enabled", "NX disabled", "NX unknown (no GNU_STACK)",
     "PIE enabled", "Static PIE", "PIE disabled", "DSO (shared library)",
     "REL (relocatable object)", "PIC enabled (no text relocations)",
     "Text relocations (not PIC)", "Bind now", "Lazy binding",
     "No RPATH", "RPATH (prohibited)", "No RUNPATH", "RUNPATH",
     "symbols", "No symbols (stripped)", "Yes", "No", "No fortifiable calls",
     "Fortified calls found", "No fortified calls", "0", "1", "2", "3", "4 or more"}

Status == {"good", "warn", "bad", "info", "n/a"}
Result == [value : Value, status : Status]

OK(v)   == [value |-> v, status |-> "good"]
Bad(v)  == [value |-> v, status |-> "bad"]
Warn(v) == [value |-> v, status |-> "warn"]
Info(v) == [value |-> v, status |-> "info"]
NA(v)   == [value |-> v, status |-> "n/a"]
Err     == Bad("error checking")     \* the key it is stored under names the check

-----------------------------------------------------------------------------
(***************************************************************************)
(* The checks.                                                              *)
(***************************************************************************)
\* Fault: no fallback to the program headers.
hasDynFlagBySection(h, b, tag) == tag \in ElfDynValue(h, b)

\* The section view, then the PT_DYNAMIC scan.
hasDynFlag(h, b, tag) == tag \in ElfDynValue(h, b) \cup parsePTDynamic(h, b)

bindNowOf(h, b) ==
    \E tag \in {"BIND_NOW", "DF_BIND_NOW", "DF_1_NOW"} : hasDynFlag(h, b, tag)

RELRO(h, b) ==
    CASE h.segs = {} -> NA("N/A")
      [] h.segs # {} /\ "GNU_RELRO" \notin h.segs -> Bad("No RELRO")
      [] "GNU_RELRO" \in h.segs /\ bindNowOf(h, b) -> OK("Full RELRO")
      [] "GNU_RELRO" \in h.segs /\ ~bindNowOf(h, b) -> Warn("Partial RELRO")

\* Fault: DT_FLAGS alone, where bindNowOf knows three ways.
BindNowByFlags(h, b) == IF hasDynFlag(h, b, "DF_BIND_NOW")
                        THEN OK("Bind now") ELSE Bad("Lazy binding")

BindNow(h, b) == IF bindNowOf(h, b) THEN OK("Bind now") ELSE Bad("Lazy binding")

Canary(h, b) == IF \E n \in allSymbolNames(h, b) : isCanarySymbol(n)
                THEN OK("Canary found") ELSE Bad("No canary found")

OhosRetguard(h, b) ==
    CASE h.machine # "AARCH64" -> NA("N/A (not AArch64)")
      [] h.machine = "AARCH64" ->
            IF ".ohos.randomdata" \in h.sections \/ "RETGUARD" \in h.segs
            THEN OK("Retguard enabled") ELSE Bad("No retguard")

\* .text alone when it is there; else every executable PT_LOAD.
PacCFI(h, b) ==
    LET scanned == IF ".text" \in h.sections THEN {"text"}
                   ELSE IF "LOAD" \in h.segs THEN {"text", "other"} ELSE {}
    IN  CASE h.machine # "AARCH64" -> NA("N/A (not AArch64)")
          [] h.machine = "AARCH64" ->
                IF b.pac \cap scanned # {}
                THEN OK("PAC CFI enabled") ELSE Bad("No PAC CFI")

NX(h, b) ==
    CASE "CROWD" \in h.segs -> Err
      [] h.segs \cap {"CROWD", "GNU_STACK", "GNU_STACK_X"} = {} ->
            Warn("NX unknown (no GNU_STACK)")
      [] "CROWD" \notin h.segs /\ "GNU_STACK_X" \in h.segs -> Bad("NX disabled")
      [] h.segs \cap {"CROWD", "GNU_STACK", "GNU_STACK_X"} = {"GNU_STACK"} -> OK("NX enabled")

\* Fault: the flag and the interpreter taken for exclusive.
PIEExclusive(h, b) ==
    LET flag   == hasDynFlag(h, b, "DF_1_PIE")
        interp == "INTERP" \in h.segs
    IN  CASE h.type = "DYN" /\ flag /\ ~interp  -> OK("Static PIE")
          [] h.type = "DYN" /\ interp /\ ~flag  -> OK("PIE enabled")
          [] h.type = "DYN" /\ (flag <=> interp) -> Info("DSO (shared library)")
          [] h.type = "REL"                     -> Warn("REL (relocatable object)")
          [] h.type = "EXEC"                    -> Bad("PIE disabled")

PIE(h, b) ==
    LET flag   == hasDynFlag(h, b, "DF_1_PIE")
        interp == "INTERP" \in h.segs
    IN  CASE h.type = "DYN" /\ flag /\ ~interp  -> OK("Static PIE")
          [] h.type = "DYN" /\ interp           -> OK("PIE enabled")
          [] h.type = "DYN" /\ ~flag /\ ~interp -> Info("DSO (shared library)")
          [] h.type = "REL"                     -> Warn("REL (relocatable object)")
          [] h.type = "EXEC"                    -> Bad("PIE disabled")

\* DT_TEXTREL and DF_TEXTREL from PT_DYNAMIC alone.
PIC(h, b) ==
    CASE h.type # "DYN" -> NA("N/A")
      [] h.type = "DYN" ->
            IF {"TEXTREL", "DF_TEXTREL"} \cap parsePTDynamic(h, b) # {}
            THEN Bad("Text relocations (not PIC)")
            ELSE OK("PIC enabled (no text relocations)")

\* summarizeRpathStrict: whatever its risk, a DT_RPATH is a violation.
RPATH(h, b) == IF dynamicStringsFor(h, b, b.rpath) = {}
               THEN OK("No RPATH") ELSE Bad("RPATH (prohibited)")

\* summarizeRunpath: the worst entry decides.
RUNPATH(h, b) ==
    LET risks == {EntryRisk[e] : e \in dynamicStringsFor(h, b, b.runpath)}
    IN  CASE risks = {} -> OK("No RUNPATH")
          [] rpInsecure \in risks -> Bad("RUNPATH")
          [] rpWarn \in risks /\ rpInsecure \notin risks -> Warn("RUNPATH")
          [] risks = {rpSafe} -> Info("RUNPATH")

Symbols(h, b) == IF ElfSymbols(h, b) # {} THEN Bad("symbols")
                 ELSE OK("No symbols (stripped)")

-----------------------------------------------------------------------------
(***************************************************************************)
(* FORTIFY_SOURCE.                                                          *)
(***************************************************************************)
\* "none" or a libc path, which is never read: "" stands for every path.
resolveLibcFlag(h, b) ==
    IF /\ "DYNAMIC" \in h.segs
       /\ dynamicStringsFor(h, b, b.needed) \cap LibcLibrary # {}
    THEN "" ELSE "none"

fortifiedChkNames(h, b) ==
    LET tables == {s \in ElfDynamicSymbols(h, b) \cup ElfSymbols(h, b) :
                      s.type \in {"FUNC", "NOTYPE"}}
        names  == {s.name : s \in tables} \cup phdrSymbolNames(h, b)
    IN  {n \in {baseSymbolName(m) : m \in names} : isFortifyChkName(n)}

\* Base functions the binary imports unprotected.
unprotectedNames(h, b) ==
    {n.base : n \in importedNames(h, b) \cup phdrSymbolNames(h, b)}
        \cap Fortifiable

\* strconv.Itoa, with one value for every count above MaxCount = 3.
countValue(n) == CASE n = 0 -> "0" [] n = 1 -> "1" [] n = 2 -> "2" [] n = 3 -> "3"
                   [] OTHER -> "4 or more"

Fortify(h, b, libc) ==
    LET fortified   == Cardinality(fortifiedChkNames(h, b))
        fortifiable == fortified + Cardinality(unprotectedNames(h, b))
        static      == libc = "none"
        noSymbols   == static /\ ".symtab" \notin h.sections
    IN  [fortify |->
            CASE noSymbols -> NA("N/A")
              [] static /\ ~noSymbols -> IF fortified > 0 THEN OK("Fortified calls found")
                                         ELSE Info("No fortified calls")
              [] ~static -> IF fortified > 0 THEN OK("Yes")
                            ELSE IF fortifiable > 0 THEN Warn("No")
                            ELSE Info("No fortifiable calls"),
         fortified |-> IF noSymbols THEN NA("N/A") ELSE Info(countValue(fortified)),
         fortifiable |-> IF static THEN NA("N/A") ELSE Info(countValue(fortifiable))]

-----------------------------------------------------------------------------
(***************************************************************************)
(* linkStackProtection.                                                     *)
(***************************************************************************)
StackKey == {"canary", "ohos_retguard", "pac_cfi"}   \* stackProtectionKeys

CoveredBy(k) == CASE k = "canary"        -> "Covered by SP"
                  [] k = "ohos_retguard" -> "Covered by Retguard"
                  [] k = "pac_cfi"       -> "Covered by PAC CFI"

\* Fault: the canary column alone.
CanaryPassed(c) == c["canary"].status = "good"

StackProtectionPassed(c) == \E k \in StackKey : c[k].status = "good"

\* The first mechanism, in the order of stackProtectionKeys, that passes.
stackWinner(c) ==
    IF c["canary"].status = "good" THEN "canary"
    ELSE IF c["ohos_retguard"].status = "good" THEN "ohos_retguard" ELSE "pac_cfi"

linkStackProtection(c) ==
    [k \in DOMAIN c |->
        IF k \in StackKey /\ StackProtectionPassed(c) /\ c[k].status # "good"
        THEN OK(CoveredBy(stackWinner(c))) ELSE c[k]]

-----------------------------------------------------------------------------
(***************************************************************************)
(* CheckFile: the stores into report.Checks, in program order.              *)
(***************************************************************************)
CheckKey == {"relro", "canary", "ohos_retguard", "pac_cfi", "nx", "pie", "pic",
             "bind_now", "rpath", "runpath", "symbols",
             "fortify", "fortified", "fortifiable"}

CheckTable == [CheckKey -> Result]

initialChecks == [k \in CheckKey |-> Err]

\* Fault: the columns are linked before the last of them is computed.
EarlyLinkSteps == <<"relro", "canary", "ohos_retguard", "link", "pac_cfi", "nx",
                    "pie", "pic", "bind_now", "rpath", "runpath", "symbols",
                    "fortify">>

CheckSteps == <<"relro", "canary", "ohos_retguard", "pac_cfi", "link", "nx",
                "pie", "pic", "bind_now", "rpath", "runpath", "symbols",
                "fortify">>

LastStep == Len(CheckSteps)

\* report.Checks after the statement named step ran against body b.
runCheck(c, step, h, b) ==
    CASE step = "relro"         -> [c EXCEPT !["relro"] = RELRO(h, b)]
      [] step = "canary"        -> [c EXCEPT !["canary"] = Canary(h, b)]
      [] step = "ohos_retguard" -> [c EXCEPT !["ohos_retguard"] = OhosRetguard(h, b)]
      [] step = "pac_cfi"       -> [c EXCEPT !["pac_cfi"] = PacCFI(h, b)]
      [] step = "link"          -> linkStackProtection(c)
      [] step = "nx"            -> [c EXCEPT !["nx"] = NX(h, b)]
      [] step = "pie"           -> [c EXCEPT !["pie"] = PIE(h, b)]
      [] step = "pic"           -> [c EXCEPT !["pic"] = PIC(h, b)]
      [] step = "bind_now"      -> [c EXCEPT !["bind_now"] = BindNow(h, b)]
      [] step = "rpath"         -> [c EXCEPT !["rpath"] = RPATH(h, b)]
      [] step = "runpath"       -> [c EXCEPT !["runpath"] = RUNPATH(h, b)]
      [] step = "symbols"       -> [c EXCEPT !["symbols"] = Symbols(h, b)]
      [] step = "fortify"       ->
            LET fr == Fortify(h, b, resolveLibcFlag(h, b))
            IN  [c EXCEPT !["fortify"] = fr.fortify,
                          !["fortified"] = fr.fortified,
                          !["fortifiable"] = fr.fortifiable]

\* What each check returns for an image, before linkStackProtection.
verdict(k, h, b) ==
    LET fr == Fortify(h, b, resolveLibcFlag(h, b))
    IN  CASE k = "relro"         -> RELRO(h, b)
          [] k = "canary"        -> Canary(h, b)
          [] k = "ohos_retguard" -> OhosRetguard(h, b)
          [] k = "pac_cfi"       -> PacCFI(h, b)
          [] k = "nx"            -> NX(h, b)
          [] k = "pie"           -> PIE(h, b)
          [] k = "pic"           -> PIC(h, b)
          [] k = "bind_now"      -> BindNow(h, b)
          [] k = "rpath"         -> RPATH(h, b)
          [] k = "runpath"       -> RUNPATH(h, b)
          [] k = "symbols"       -> Symbols(h, b)
          [] k = "fortify"       -> fr.fortify
          [] k = "fortified"     -> fr.fortified
          [] k = "fortifiable"   -> fr.fortifiable

verdicts(h, b) == [k \in CheckKey |-> verdict(k, h, b)]

\* elf.NewFile returns an error for anything but a well-formed ELF file.
parses(img) == img.kind = "elf"

openError(p)  == [name |-> p, error |-> "cannot open", checks |-> initialChecks]
parseError(p) == [name |-> p, error |-> "not an ELF file", checks |-> initialChecks]

\* What CheckFile returns for path p when it reads one image throughout: the
\* verdicts, linked.  That the statement sequence amounts to this is an
\* invariant of Scan.
reportOf(p, img) ==
    IF ~parses(img) THEN parseError(p)
    ELSE [name |-> p, error |-> "",
          checks |-> linkStackProtection(verdicts(img.hdr, img.body))]
=============================================================================
