------------------------------ MODULE GateProofs ----------------------------
(***************************************************************************)
(* What an exit code 0 vouches for: a report that passes a gate was made of  *)
(* an image that has what the gate requires.  And the whole of it, for every *)
(* set of paths, directory tree, set of images and list of commands, when    *)
(* nobody patches an inode in place: Scan implements AtomicScan, its initial *)
(* states map to initial states, and every step of scc and of the other      *)
(* processes to a step of AtomicScan or to none.                             *)
(***************************************************************************)
EXTENDS ScanRefinement, ReportProofs

-----------------------------------------------------------------------------
(***************************************************************************)
(* One check at a time: what a verdict that is not bad says of the image.    *)
(***************************************************************************)
LEMMA StackEvidence ==
    ASSUME NEW img \in Image, unambiguous(img),
           StackProtectionPassed(verdicts(img.hdr, img.body))
    PROVE  hasStackProtection(img)
PROOF
<1> DEFINE h == img.hdr
           b == img.body
<1>1. h \in Header /\ b \in Body
  BY DEF Image
<1>2. \/ Canary(h, b).status = "good" \/ OhosRetguard(h, b).status = "good"
      \/ PacCFI(h, b).status = "good"
  BY DEF StackProtectionPassed, verdicts, verdict, StackKey, CheckKey
<1>3. CASE Canary(h, b).status = "good"
  <2>1. \E n \in allSymbolNames(h, b) : isCanarySymbol(n)
    BY <1>3 DEF Canary, Bad
  <2>2. b.trailing = {}
    BY DEF unambiguous
  <2>3. allSymbolNames(h, b) \subseteq linkedSymbols(img)
    BY <2>2 DEF allSymbolNames, phdrSymbolNames, ElfSymbols, ElfDynamicSymbols, linkedSymbols
  <2> QED BY <2>1, <2>3 DEF isCanarySymbol, hasStackProtection
<1>4. CASE OhosRetguard(h, b).status = "good"
  BY <1>4 DEF OhosRetguard, Bad, NA, hasStackProtection
<1>5. CASE PacCFI(h, b).status = "good"
  <2>1. h.machine = "AARCH64" /\ b.pac \cap {"text", "other"} # {}
    BY <1>5 DEF PacCFI, Bad, NA
  <2>2. b.pac # {"other"} /\ b.pac \subseteq {"text", "other"}
    BY <1>1 DEF unambiguous, Body
  <2>3. "text" \in b.pac
    BY <2>1, <2>2
  <2> QED BY <2>1, <2>3 DEF hasStackProtection
<1> QED BY <1>2, <1>3, <1>4, <1>5

LEMMA DynamicEvidence ==
    ASSUME NEW img \in Image, wellFormed(img)
    PROVE  /\ parsePTDynamic(img.hdr, img.body) = img.body.dyn
           /\ bindNowOf(img.hdr, img.body) => bindsNow(img)
           /\ RPATH(img.hdr, img.body).status # "bad" => img.body.rpath = {}
           /\ PIC(img.hdr, img.body).status # "bad" => ~hasTextRelocations(img)
           /\ Symbols(img.hdr, img.body).status # "bad" => img.body.symtab = {}
PROOF
<1> DEFINE h == img.hdr
           b == img.body
<1>1. parsePTDynamic(h, b) = b.dyn
  BY DEF wellFormed, parsePTDynamic
<1>2. bindNowOf(h, b) => bindsNow(img)
  BY <1>1 DEF bindNowOf, hasDynFlag, ElfDynValue, bindsNow
<1>3. RPATH(h, b).status # "bad" => b.rpath = {}
  <2>1. b.rpath # {} => dynamicStrings(h, b)
    BY <1>1 DEF wellFormed, dynamicStrings
  <2>2. b.rpath # {} => dynamicStringsFor(h, b, b.rpath) # {}
    BY <2>1 DEF dynamicStringsFor, dynStringPH, ElfDynString
  <2> QED BY <2>2 DEF RPATH, Bad
<1>4. PIC(h, b).status # "bad" => ~hasTextRelocations(img)
  <2>1. hasTextRelocations(img) =>
            h.type = "DYN" /\ {"TEXTREL", "DF_TEXTREL"} \cap parsePTDynamic(h, b) # {}
    BY <1>1 DEF hasTextRelocations
  <2> QED BY <2>1 DEF PIC, Bad
<1>5. Symbols(h, b).status # "bad" => b.symtab = {}
  BY DEF wellFormed, Symbols, ElfSymbols, Bad
<1> QED BY <1>1, <1>2, <1>3, <1>4, <1>5

LEMMA HeaderEvidence ==
    ASSUME NEW img \in Image
    PROVE  /\ RELRO(img.hdr, img.body).status # "bad"
                => "GNU_RELRO" \in img.hdr.segs \/ img.hdr.segs = {}
           /\ NX(img.hdr, img.body).status # "bad" => "GNU_STACK_X" \notin img.hdr.segs
           /\ PIE(img.hdr, img.body).status # "bad" => img.hdr.type # "EXEC"
           /\ BindNow(img.hdr, img.body).status # "bad" => bindNowOf(img.hdr, img.body)
PROOF
<1> DEFINE h == img.hdr
           b == img.body
<1>1. h.segs # {} /\ "GNU_RELRO" \notin h.segs => RELRO(h, b).status = "bad"
  BY DEF RELRO, Bad
<1>2. "GNU_STACK_X" \in h.segs => NX(h, b).status = "bad"
  <2> SUFFICES ASSUME "GNU_STACK_X" \in h.segs PROVE NX(h, b).status = "bad"
    OBVIOUS
  <2> HIDE DEF h, b
  <2>1. h.segs \cap {"CROWD", "GNU_STACK", "GNU_STACK_X"} # {}
    OBVIOUS
  <2>2. h.segs \cap {"CROWD", "GNU_STACK", "GNU_STACK_X"} # {"GNU_STACK"}
    OBVIOUS
  <2>3. NX(h, b) \in {Err, Bad("NX disabled")}
    BY <2>1, <2>2 DEF NX
  <2>4. Err.status = "bad" /\ Bad("NX disabled").status = "bad"
    BY DEF Bad, Err
  <2> QED BY <2>3, <2>4
<1>3. h.type = "EXEC" => PIE(h, b).status = "bad"
  BY DEF PIE, Bad
<1>4. ~bindNowOf(h, b) => BindNow(h, b).status = "bad"
  BY DEF BindNow, Bad
<1> QED BY <1>1, <1>2, <1>3, <1>4

\* A program with text relocations that the "pie" rule accepts is a PIE.
LEMMA PieEvidence ==
    ASSUME NEW img \in Image, wellFormed(img), img.hdr.type = "DYN",
           PIE(img.hdr, img.body).value # "DSO (shared library)"
    PROVE  isPIE(img)
PROOF
<1> DEFINE h == img.hdr
           b == img.body
<1>1. "INTERP" \notin h.segs => hasDynFlag(h, b, "DF_1_PIE")
  BY DEF PIE, Info
<1>2. hasDynFlag(h, b, "DF_1_PIE") => "DF_1_PIE" \in b.dyn
  BY DynamicEvidence DEF hasDynFlag, ElfDynValue
<1> QED BY <1>1, <1>2 DEF isPIE

-----------------------------------------------------------------------------
(***************************************************************************)
(* The linked table, entry by entry.                                        *)
(***************************************************************************)
LEMMA LinkedEntries ==
    ASSUME NEW img \in Image
    PROVE  /\ \A k \in CheckKey : linked(img.hdr, img.body)[k] \in covered(k)
           /\ \A k \in CheckKey \ StackKey :
                 linked(img.hdr, img.body)[k] = verdict(k, img.hdr, img.body)
           /\ StackProtectionPassed(linked(img.hdr, img.body))
                 <=> StackProtectionPassed(verdicts(img.hdr, img.body))
PROOF
<1> DEFINE h == img.hdr
           b == img.body
           v == verdicts(h, b)
<1>1. h \in Header /\ b \in Body
  BY DEF Image
<1>2. v \in CheckTable /\ \A k \in CheckKey : v[k] = verdict(k, h, b)
  BY <1>1, VerdictTable DEF verdicts
<1>3. \A k \in CheckKey : v[k] \in possible(k)
  BY <1>1, <1>2, VerdictPossible
<1>4. stackWinner(v) \in StackKey
  BY DEF stackWinner, StackKey
<1> HIDE DEF v
<1>5. linked(h, b) = linkStackProtection(v)
  BY DEF linked, v
<1>6. \A k \in CheckKey :
         \/ linkStackProtection(v)[k] = v[k]
         \/ k \in StackKey /\ linkStackProtection(v)[k] = OK(CoveredBy(stackWinner(v)))
  BY <1>2, LinkEntry
<1>7. \A k \in CheckKey : linkStackProtection(v)[k] \in covered(k)
  BY <1>3, <1>4, <1>6 DEF covered
<1>8. StackProtectionPassed(linkStackProtection(v)) <=> StackProtectionPassed(v)
  BY <1>2, LinkPasses
<1>9. \A k \in CheckKey \ StackKey : linkStackProtection(v)[k] = verdict(k, h, b)
  BY <1>2, <1>6
<1> QED BY <1>5, <1>7, <1>8, <1>9 DEF v

\* What both gates have looked at when they pass a table.
passesBoth(c) ==
    /\ StackProtectionPassed(c)
    /\ \A k \in {"relro", "nx", "pie", "bind_now", "rpath"} : c[k].status # "bad"

LEMMA CoreEvidence ==
    ASSUME NEW img \in Image, parses(img), wellFormed(img), unambiguous(img),
           passesBoth(linked(img.hdr, img.body))
    PROVE  hardenedCore(img)
PROOF
<1> DEFINE h == img.hdr
           b == img.body
           c == linked(h, b)
<1>1. \A k \in {"relro", "nx", "pie", "bind_now", "rpath"} : verdict(k, h, b).status # "bad"
  <2>1. \A k \in {"relro", "nx", "pie", "bind_now", "rpath"} : c[k] = verdict(k, h, b)
    BY LinkedEntries DEF CheckKey, StackKey
  <2> QED BY <2>1 DEF passesBoth
<1>2. /\ RELRO(h, b).status # "bad" /\ NX(h, b).status # "bad" /\ PIE(h, b).status # "bad"
      /\ BindNow(h, b).status # "bad" /\ RPATH(h, b).status # "bad"
  BY <1>1 DEF verdict
<1>3. hasStackProtection(img)
  BY LinkedEntries, StackEvidence DEF passesBoth
<1> QED BY <1>2, <1>3, DynamicEvidence, HeaderEvidence DEF hardenedCore

LEMMA TableGate ==
    ASSUME NEW img \in Image, NEW p, parses(img), wellFormed(img), unambiguous(img),
           ~fails(reportOf(p, img))
    PROVE  Hardened(img)
PROOF
<1> DEFINE c == linked(img.hdr, img.body)
<1>1. reportOf(p, img).checks = c
  BY DEF reportOf, linked
<1>2. StackProtectionPassed(c) /\ \A k \in failKeys \ {"canary"} : c[k].status # "bad"
  <2> HIDE DEF c
  <2> QED BY <1>1 DEF fails, failKeys
<1>3. hardenedCore(img)
  BY <1>2, CoreEvidence DEF failKeys, passesBoth
<1>4. c["pic"] = PIC(img.hdr, img.body)
  BY LinkedEntries DEF CheckKey, StackKey, verdict
<1>5. ~hasTextRelocations(img)
  BY <1>2, <1>4, DynamicEvidence DEF failKeys
<1> QED BY <1>3, <1>5 DEF Hardened

LEMMA ComplianceGate ==
    ASSUME NEW img \in Image, NEW p, parses(img), wellFormed(img), unambiguous(img),
           ~violates(reportOf(p, img))
    PROVE  Compliant(img)
PROOF
<1> DEFINE h == img.hdr
           b == img.body
           c == linked(h, b)
<1>1. reportOf(p, img).checks = c
  BY DEF reportOf, linked
<1>2. /\ pieRule(c) # "bad" /\ stackRule(c) # "bad" /\ relroRule(c) # "bad"
      /\ bindNowRule(c) # "bad" /\ nxRule(c) # "bad"
      /\ strippedRule(c) # "bad" /\ rpathRule(c) # "bad"
  BY <1>1 DEF violates, RuleId, ruleVerdict
<1>3. \A k \in CheckKey : c[k] \in covered(k)
  BY LinkedEntries
<1> HIDE DEF c
<1>4. StackProtectionPassed(c)
  BY <1>2 DEF stackRule
<1>5. /\ c["relro"].status # "bad" /\ c["nx"].status # "bad" /\ c["pie"].status # "bad"
      /\ c["bind_now"].status # "bad" /\ c["rpath"].status # "bad"
      /\ c["symbols"].status # "bad"
      /\ c["pie"].value = "DSO (shared library)" => c["pic"].status # "bad"
  BY <1>2, <1>3, EntriesJudged
<1>6. passesBoth(c)
  BY <1>4, <1>5 DEF passesBoth
<1>7. hardenedCore(img)
  BY <1>6, CoreEvidence DEF c
<1>8. /\ c["pic"] = PIC(h, b) /\ c["pie"] = PIE(h, b) /\ c["symbols"] = Symbols(h, b)
  <2>1. \A k \in CheckKey \ StackKey : c[k] = verdict(k, h, b)
    BY LinkedEntries DEF c
  <2> QED BY <2>1 DEF CheckKey, StackKey, verdict
<1>9. hasTextRelocations(img) => isPIE(img)
  <2> SUFFICES ASSUME hasTextRelocations(img) PROVE isPIE(img)
    OBVIOUS
  <2>1. PIC(h, b).status = "bad" /\ h.type = "DYN"
    BY DynamicEvidence DEF hasTextRelocations
  <2>2. PIE(h, b).value # "DSO (shared library)"
    BY <1>5, <1>8, <2>1
  <2> QED BY <2>1, <2>2, PieEvidence
<1>10. b.symtab = {}
  BY <1>5, <1>8, DynamicEvidence
<1> QED BY <1>7, <1>9, <1>10 DEF Compliant

-----------------------------------------------------------------------------
(***************************************************************************)
(* The converse: an image that has what is required, where the headers lead  *)
(* to it, is passed.                                                        *)
(***************************************************************************)
LEMMA ProtectionFound ==
    ASSUME NEW img \in Image, evident(img), hasStackProtection(img)
    PROVE  StackProtectionPassed(verdicts(img.hdr, img.body))
PROOF
<1> DEFINE h == img.hdr
           b == img.body
           v == verdicts(h, b)
<1>1. /\ v["canary"] = Canary(h, b) /\ v["ohos_retguard"] = OhosRetguard(h, b)
      /\ v["pac_cfi"] = PacCFI(h, b)
  BY DEF verdicts, verdict, CheckKey
<1>2. ASSUME NEW n \in linkedSymbols(img), n.base \in CanaryBase
      PROVE  Canary(h, b).status = "good"
  <2>1. isCanarySymbol(n)
    BY <1>2 DEF isCanarySymbol
  <2>2. PICK s \in b.dynsym \cup b.symtab : n = s.name
    BY <1>2 DEF linkedSymbols
  <2>3. CASE s \in b.dynsym
    <3>1. n \in phdrSymbolNames(h, b) \cup importedNames(h, b)
      BY <2>1, <2>2, <2>3 DEF evident
    <3>2. n \in allSymbolNames(h, b)
      BY <3>1 DEF importedNames, allSymbolNames
    <3> QED BY <2>1, <3>2 DEF Canary, OK
  <2>4. CASE s \in b.symtab
    <3>1. s \in ElfSymbols(h, b)
      BY <2>4 DEF evident, ElfSymbols
    <3>2. n \in allSymbolNames(h, b)
      BY <2>2, <3>1 DEF allSymbolNames
    <3> QED BY <2>1, <3>2 DEF Canary, OK
  <2> QED BY <2>2, <2>3, <2>4
<1>3. ASSUME h.machine = "AARCH64", "text" \in b.pac
      PROVE  PacCFI(h, b).status = "good"
  BY <1>3 DEF evident, PacCFI, OK
<1>4. ASSUME h.machine = "AARCH64", ".ohos.randomdata" \in h.sections \/ "RETGUARD" \in h.segs
      PROVE  OhosRetguard(h, b).status = "good"
  BY <1>4 DEF OhosRetguard, OK
<1>5. \E k \in StackKey : v[k].status = "good"
  BY <1>1, <1>2, <1>3, <1>4 DEF hasStackProtection, StackKey
<1> QED BY <1>5 DEF StackProtectionPassed

LEMMA RequirementsFound ==
    ASSUME NEW img \in Image, evident(img), hardenedCore(img)
    PROVE  /\ passesBoth(linked(img.hdr, img.body))
           /\ PIC(img.hdr, img.body).status = "bad" => hasTextRelocations(img)
           /\ img.body.symtab = {} => Symbols(img.hdr, img.body).status # "bad"
PROOF
<1> DEFINE h == img.hdr
           b == img.body
           c == linked(h, b)
<1>1. parsePTDynamic(h, b) \cup ElfDynValue(h, b) = b.dyn
  BY DEF evident, parsePTDynamic, ElfDynValue
<1>2. bindNowOf(h, b)
  <2>1. PICK tag \in {"BIND_NOW", "DF_BIND_NOW", "DF_1_NOW"} : tag \in b.dyn
    BY DEF hardenedCore, bindsNow
  <2> QED BY <1>1, <2>1 DEF bindNowOf, hasDynFlag
<1>3. RELRO(h, b).status # "bad"
  BY <1>2 DEF hardenedCore, RELRO, NA, OK
<1>4. NX(h, b).status # "bad"
  BY DEF evident, hardenedCore, NX, Warn, OK
<1>5. PIE(h, b).status # "bad"
  <2>1. h.type = "DYN" \/ h.type = "REL"
    BY DEF hardenedCore, Image, Header, FileType
  <2> QED BY <2>1 DEF PIE, OK, Info, Warn
<1>6. BindNow(h, b).status # "bad"
  BY <1>2 DEF BindNow, OK
<1>7. RPATH(h, b).status # "bad"
  BY DEF hardenedCore, RPATH, dynamicStringsFor, ElfDynString, dynStringPH, OK
<1>8. PIC(h, b).status = "bad" => hasTextRelocations(img)
  BY DEF PIC, NA, OK, hasTextRelocations, parsePTDynamic
<1>9. b.symtab = {} => Symbols(h, b).status # "bad"
  BY DEF Symbols, ElfSymbols, OK
<1>10. StackProtectionPassed(c)
  BY ProtectionFound, LinkedEntries DEF hardenedCore
<1>11. \A k \in {"relro", "nx", "pie", "bind_now", "rpath"} : c[k] = verdict(k, h, b)
  BY LinkedEntries DEF CheckKey, StackKey
<1> HIDE DEF c
<1>12. \A k \in {"relro", "nx", "pie", "bind_now", "rpath"} : c[k].status # "bad"
  BY <1>3, <1>4, <1>5, <1>6, <1>7, <1>11 DEF verdict
<1>13. passesBoth(c)
  BY <1>10, <1>12 DEF passesBoth
<1> QED BY <1>8, <1>9, <1>13 DEF c

LEMMA TableGatePasses ==
    ASSUME NEW img \in Image, NEW p, evident(img), Hardened(img)
    PROVE  ~fails(reportOf(p, img))
PROOF
<1> DEFINE c == linked(img.hdr, img.body)
<1>1. reportOf(p, img).checks = c /\ reportOf(p, img).error = ""
  BY DEF reportOf, linked, Hardened, hardenedCore
<1>2. passesBoth(c)
  BY RequirementsFound DEF Hardened
<1>3. c["pic"] = PIC(img.hdr, img.body)
  BY LinkedEntries DEF CheckKey, StackKey, verdict
<1>4. PIC(img.hdr, img.body).status # "bad"
  BY RequirementsFound DEF Hardened
<1> HIDE DEF c
<1> QED BY <1>1, <1>2, <1>3, <1>4 DEF fails, failKeys, passesBoth

LEMMA ComplianceGatePasses ==
    ASSUME NEW img \in Image, NEW p, evident(img), Compliant(img)
    PROVE  ~violates(reportOf(p, img))
PROOF
<1> DEFINE h == img.hdr
           b == img.body
           c == linked(h, b)
<1>1. reportOf(p, img).checks = c
  BY DEF reportOf, linked, Compliant, hardenedCore
<1>2. passesBoth(c)
  BY RequirementsFound DEF Compliant
<1>3. \A k \in CheckKey : c[k] \in covered(k)
  BY LinkedEntries
<1>4. /\ c["pic"] = PIC(h, b) /\ c["pie"] = PIE(h, b) /\ c["symbols"] = Symbols(h, b)
  <2>1. \A k \in CheckKey \ StackKey : c[k] = verdict(k, h, b)
    BY LinkedEntries
  <2> HIDE DEF c
  <2> QED BY <2>1 DEF CheckKey, StackKey, verdict
<1>5. c["pic"].status = "bad" => c["pie"].value # "DSO (shared library)"
  <2> SUFFICES ASSUME PIC(h, b).status = "bad" PROVE PIE(h, b).value # "DSO (shared library)"
    BY <1>4
  <2>1. isPIE(img)
    BY RequirementsFound DEF Compliant
  <2>2. h.type = "DYN" /\ "DYNAMIC" \in h.segs
    BY DEF PIC, NA, OK, parsePTDynamic
  <2>3. "INTERP" \in h.segs \/ hasDynFlag(h, b, "DF_1_PIE")
    BY <2>1, <2>2 DEF isPIE, hasDynFlag, parsePTDynamic
  <2> QED BY <2>2, <2>3 DEF PIE, OK
<1>6. c["symbols"].status # "bad"
  BY <1>4, RequirementsFound DEF Compliant
<1> HIDE DEF c
<1>7. stackRule(c) # "bad"
  BY <1>2 DEF passesBoth, stackRule
<1>8. /\ c["relro"].status # "bad" /\ c["nx"].status # "bad" /\ c["pie"].status # "bad"
      /\ c["bind_now"].status # "bad" /\ c["rpath"].status # "bad"
  BY <1>2 DEF passesBoth
<1>9. /\ pieRule(c) # "bad" /\ relroRule(c) # "bad" /\ bindNowRule(c) # "bad"
      /\ nxRule(c) # "bad" /\ strippedRule(c) # "bad" /\ rpathRule(c) # "bad"
  BY <1>3, <1>5, <1>6, <1>8, EntriesJudged
<1> QED BY <1>1, <1>7, <1>9 DEF violates, RuleId, ruleVerdict

\* An error report fails both gates.
LEMMA ErrorGate ==
    ASSUME NEW r, r.error # "", r.checks = initialChecks
    PROVE  fails(r) /\ violates(r)
PROOF
<1>1. fails(r)
  BY DEF fails
<1>2. r.checks["pie"] = Err /\ Err.value = "error checking"
  BY DEF initialChecks, CheckKey, Err, Bad
<1>3. pieRule(r.checks) = "bad"
  BY <1>2 DEF pieRule
<1> QED BY <1>1, <1>3 DEF violates, RuleId, ruleVerdict

-----------------------------------------------------------------------------
(***************************************************************************)
(* run reaches the gate with a report for every target, at least one, and    *)
(* exit code 0 with targets, and any exit code 2, is the gate's.            *)
(***************************************************************************)
IExit ==
    /\ phase = "gate" => Len(reports) = Len(paths) /\ paths # <<>>
    /\ exit = 0 /\ paths # <<>> =>
          /\ phase = "exit" /\ Len(reports) = Len(paths)
          /\ ~gateFails(job.format, reports)
    /\ exit = 2 => phase = "exit" /\ gateFails(job.format, reports)

LEMMA ExitInit == Init => IExit
  BY DEF Init, IExit, NotExited

LEMMA ExitNext == ITypes /\ IExit /\ [Next]_vars => IExit'
PROOF
<1> SUFFICES ASSUME ITypes, IExit, [Next]_vars PROVE IExit'
  OBVIOUS
<1>a. exit = NotExited <=> phase # "exit"
  BY DEF ITypes, TypeOK, RunTypes
<1>b. phase = "start" => paths = <<>>
  BY DEF ITypes, Started
<1>1. CASE Usage \/ StartFails
  <2>1. phase' = "exit" /\ exit' \in {0, 1} /\ paths' = <<>>
    BY <1>1, <1>b DEF Usage, StartFails, return
  <2> QED BY <2>1 DEF IExit
<1>2. CASE StartFile \/ ReadList \/ StartDir \/ VisitDir \/ VisitFile \/ WalkDone
  <2>1. phase \in {"start", "walk"} /\ exit' = exit
    BY <1>2 DEF StartFile, ReadList, StartDir, VisitDir, VisitFile, WalkDone, walking
  <2>2. phase' \in {"walk", "check"}
    BY <1>2 DEF StartFile, ReadList, StartDir, VisitDir, VisitFile, WalkDone, walking
  <2> QED BY <1>a, <2>1, <2>2 DEF IExit, NotExited
<1>3. CASE ReadDirFails \/ NoBinaries
  BY <1>3, <1>a DEF ReadDirFails, NoBinaries, walking, return, IExit
<1>4. CASE OpenFails \/ Open \/ ParseFails \/ Parse \/ RunCheck \/ Return
  BY <1>4, <1>a
  DEF OpenFails, Open, ParseFails, Parse, RunCheck, Return, checking, IExit, NotExited
<1>5. CASE PrintReports
  BY <1>5, <1>a DEF PrintReports, printing, IExit, NotExited
<1>6. CASE PrintReportsFails
  BY <1>6, <1>a DEF PrintReportsFails, printing, return, IExit, NotExited
<1>7. CASE Gate
  <2>1. CASE gateFails(job.format, reports)
    BY <1>7, <2>1 DEF Gate, return, IExit
  <2>2. CASE ~gateFails(job.format, reports)
    BY <1>7, <2>2 DEF Gate, return, IExit
  <2> QED BY <2>1, <2>2
<1>8. CASE Writer \/ UNCHANGED vars
  BY <1>8, WriterKeepsProc DEF vars, procVars, IExit
<1> QED
  BY <1>1, <1>2, <1>3, <1>4, <1>5, <1>6, <1>7, <1>8 DEF Next, scc

(***************************************************************************)
(* Exit code 0 after a scan means that every target was opened and parsed,   *)
(* and that the image opened has all that the format's gate requires, if it  *)
(* was linked and nothing in it only looks like protection.  Assumed: no     *)
(* patch in place.                                                          *)
(***************************************************************************)
THEOREM ExitZeroTheorem ==
    ASSUME ~InPlace
    PROVE  Spec => []ExitZeroSound
PROOF
<1>1. ASSUME ITypes, ISnapshot, IExit PROVE ExitZeroSound
  <2> SUFFICES ASSUME exit = 0, paths # <<>>
               PROVE  /\ Len(seen) = Len(paths)
                      /\ \A i \in DOMAIN seen : vouched(seen[i])
    BY DEF ExitZeroSound
  <2>1. /\ phase = "exit" /\ Len(reports) = Len(paths) /\ ~gateFails(job.format, reports)
    BY <1>1 DEF IExit
  <2>2. Len(seen) = Len(reports) /\ DOMAIN seen = DOMAIN reports
    BY <1>1, <2>1 DEF ITypes, TypeOK, RunTypes, CheckTypes
  <2>3. ASSUME NEW i \in DOMAIN seen PROVE vouched(seen[i])
    <3>1. reports[i] = owed(paths[i], seen[i])
      BY <1>1, <2>2 DEF ISnapshot, ReportsOwed
    <3>2. /\ job.format \in complianceFormat => ~violates(reports[i])
          /\ job.format \notin complianceFormat => ~fails(reports[i])
      BY <2>1, <2>2 DEF gateFails
    <3>3. reports[i].error = "" \/ reports[i].checks # initialChecks
      BY <3>2, ErrorGate
    <3>4. seen[i] # NoImage /\ parses(seen[i])
      <4>1. \A p : /\ openError(p).error # "" /\ openError(p).checks = initialChecks
                   /\ parseError(p).error # "" /\ parseError(p).checks = initialChecks
        BY DEF openError, parseError
      <4>2. reports[i] # openError(paths[i]) /\ reports[i] # parseError(paths[i])
        BY <3>3, <4>1
      <4> QED BY <3>1, <4>2 DEF owed, reportOf
    <3>5. seen[i] \in Content /\ seen[i] \in Image
      BY <1>1, <3>4, ScanAssumption DEF ITypes, TypeOK, CheckTypes
    <3>6. reports[i] = reportOf(paths[i], seen[i])
      BY <3>1, <3>4 DEF owed
    <3>7. wellFormed(seen[i]) /\ unambiguous(seen[i]) => required(seen[i])
      BY <3>2, <3>4, <3>5, <3>6, TableGate, ComplianceGate DEF required
    <3> QED BY <3>4, <3>7 DEF vouched
  <2> QED BY <2>1, <2>2, <2>3
<1>2. ITypes /\ ISnapshot /\ IExit => ExitZeroSound
  BY <1>1
<1> QED
  BY <1>2, TypesInit, TypesNext, SnapshotInit, SnapshotNext, ExitInit, ExitNext, PTL DEF Spec

(***************************************************************************)
(* And exit code 2 means that a target could not be opened, or that its      *)
(* image lacks something required: nothing fails a gate that has it where    *)
(* the headers lead.  Assumed: no patch in place.                           *)
(***************************************************************************)
THEOREM ExitTwoTheorem ==
    ASSUME ~InPlace
    PROVE  Spec => []ExitTwoJustified
PROOF
<1>1. ASSUME ITypes, ISnapshot, IExit PROVE ExitTwoJustified
  <2> SUFFICES ASSUME exit = 2, \A i \in DOMAIN seen : seen[i] # NoImage => evident(seen[i])
               PROVE  \E i \in DOMAIN seen : seen[i] = NoImage \/ ~required(seen[i])
    BY DEF ExitTwoJustified
  <2>1. phase = "exit" /\ gateFails(job.format, reports)
    BY <1>1 DEF IExit
  <2>2. DOMAIN seen = DOMAIN reports
    BY <1>1, <2>1 DEF ITypes, TypeOK, RunTypes, CheckTypes
  <2>3. PICK i \in DOMAIN seen : IF job.format \in complianceFormat
                                 THEN violates(reports[i]) ELSE fails(reports[i])
    BY <2>1, <2>2 DEF gateFails
  <2>4. reports[i] = owed(paths[i], seen[i])
    BY <1>1, <2>2 DEF ISnapshot, ReportsOwed
  <2>5. CASE seen[i] = NoImage
    BY <2>5
  <2>6. CASE seen[i] # NoImage
    <3>1. seen[i] \in Image /\ evident(seen[i])
      BY <1>1, <2>6, ScanAssumption DEF ITypes, TypeOK, CheckTypes
    <3>2. reports[i] = reportOf(paths[i], seen[i])
      BY <2>4, <2>6 DEF owed
    <3>3. ~required(seen[i])
      BY <2>3, <3>1, <3>2, TableGatePasses, ComplianceGatePasses DEF required
    <3> QED BY <3>3
  <2> QED BY <2>5, <2>6
<1>2. ITypes /\ ISnapshot /\ IExit => ExitTwoJustified
  BY <1>1
<1> QED
  BY <1>2, TypesInit, TypesNext, SnapshotInit, SnapshotNext, ExitInit, ExitNext, PTL DEF Spec

-----------------------------------------------------------------------------
(***************************************************************************)
(* The order of run: a usable command line, reports only after the targets,  *)
(* output only after the reports, a verdict only after the output.          *)
(***************************************************************************)
IOrder ==
    /\ phase \notin {"start", "exit"} => usable
    /\ phase \in {"start", "walk"} => reports = <<>>
    /\ phase \in {"start", "walk", "check", "parse", "run"} => ~written
    /\ phase = "gate" => written \/ job.format \in {"table", "compliance"}
    /\ VerdictIsPublished

LEMMA OrderInit == Init => IOrder
  BY DEF Init, IOrder, VerdictIsPublished

LEMMA OrderNext == ITypes /\ IExit /\ IOrder /\ [Next]_vars => IOrder'
PROOF
<1> SUFFICES ASSUME ITypes, IExit, IOrder, [Next]_vars PROVE IOrder'
  OBVIOUS
<1>a. phase = "start" => paths = <<>>
  BY DEF ITypes, Started
<1>b. phase' # "exit" => VerdictIsPublished'
  BY DEF VerdictIsPublished
<1>c. UNCHANGED job => (usable <=> usable')
  BY DEF usable, scans
<1> USE <1>b, <1>c DEF IOrder
<1>1. CASE Usage \/ StartFails
  BY <1>1, <1>a DEF Usage, StartFails, return, VerdictIsPublished
<1>d. ASSUME phase \in {"start", "walk", "check", "parse", "run"},
             phase' \in {"walk", "check", "parse", "run"}, usable, UNCHANGED <<job, written>>,
             phase' = "walk" => reports' = <<>>
      PROVE  IOrder'
  BY <1>d
<1>2. CASE StartFile \/ ReadList \/ StartDir
  BY <1>2, <1>d DEF StartFile, ReadList, StartDir
<1>3. CASE VisitDir \/ VisitFile \/ WalkDone
  BY <1>3, <1>d DEF VisitDir, VisitFile, WalkDone, walking
<1>4. CASE ReadDirFails \/ NoBinaries
  BY <1>4 DEF ReadDirFails, NoBinaries, walking, return, VerdictIsPublished
<1>5. CASE OpenFails \/ Open \/ ParseFails
  BY <1>5, <1>d DEF OpenFails, Open, ParseFails, checking
<1>6. CASE Parse \/ RunCheck \/ Return
  BY <1>6, <1>d DEF Parse, RunCheck, Return
<1>7. CASE PrintReports
  BY <1>7 DEF PrintReports, printing
<1>8. CASE PrintReportsFails
  <2>1. CASE job.format \in {"table", "compliance"}
    BY <1>8, <2>1 DEF PrintReportsFails, printing
  <2>2. CASE job.format \notin {"table", "compliance"}
    BY <1>8, <2>2 DEF PrintReportsFails, printing, return, VerdictIsPublished
  <2> QED BY <2>1, <2>2
<1>9. CASE Gate
  BY <1>9 DEF Gate, return, VerdictIsPublished
<1>10. CASE Writer \/ UNCHANGED vars
  BY <1>10, WriterKeepsProc DEF vars, procVars, VerdictIsPublished
<1> QED
  BY <1>1, <1>2, <1>3, <1>4, <1>5, <1>6, <1>7, <1>8, <1>9, <1>10 DEF Next, scc

(***************************************************************************)
(* A machine-readable format never gives a verdict on targets whose reports  *)
(* did not reach standard output, nor an error after they did: printReports  *)
(* returns the error of the write before the gate is reached.               *)
(***************************************************************************)
THEOREM VerdictIsPublishedTheorem == Spec => []VerdictIsPublished
PROOF
<1>1. IOrder => VerdictIsPublished
  BY DEF IOrder
<1> QED
  BY <1>1, TypesInit, TypesNext, ExitInit, ExitNext, OrderInit, OrderNext, PTL DEF Spec

-----------------------------------------------------------------------------
(***************************************************************************)
(* The refinement.                                                          *)
(***************************************************************************)
targets == IF settled THEN paths ELSE <<>>

IRefine == ITypes /\ ISnapshot /\ IExit /\ IOrder

-----------------------------------------------------------------------------
(***************************************************************************)
(* The abstract state, by phase.                                            *)
(***************************************************************************)
LEMMA ContentKept ==
    ASSUME UNCHANGED fsVars
    PROVE  content' = content
  BY DEF fsVars, content, exists

\* Outside CheckFile nothing has been looked at but what is reported.
LEMMA LookedByPhase ==
    ASSUME CheckTypes
    PROVE  phase \notin {"parse", "run"} => fd = NoInode /\ looked = reports
  BY DEF CheckTypes, looked

\* The look of a target: its path names the image, or cannot be opened.
LEMMA LookOpens ==
    ASSUME FileTypes, NEW p \in Path
    PROVE  Atomic!look(p) = IF canOpen(p) THEN reportOf(p, disk[files[p]]) ELSE openError(p)
PROOF
<1>1. content[p] = IF exists(p) THEN disk[files[p]] ELSE NoImage
  BY DEF content
<1>2. Atomic!look(p) = IF content[p] = NoImage \/ ~content[p].readable
                       THEN openError(p) ELSE reportOf(p, content[p])
  BY DEF Atomic!look
<1>3. CASE exists(p)
  <2>1. disk[files[p]] \in Content
    BY <1>3 DEF FileTypes, exists
  <2>2. content[p] = disk[files[p]] /\ content[p] # NoImage
    BY <1>1, <1>3, <2>1, ScanAssumption
  <2>3. CASE disk[files[p]].readable
    BY <1>2, <1>3, <2>2, <2>3 DEF canOpen
  <2>4. CASE ~disk[files[p]].readable
    BY <1>2, <1>3, <2>2, <2>4 DEF canOpen
  <2> QED BY <2>3, <2>4
<1>4. CASE ~exists(p)
  BY <1>1, <1>2, <1>4 DEF canOpen
<1> QED BY <1>3, <1>4

LEMMA RefineInit == Init => Atomic!Init
PROOF
<1> SUFFICES ASSUME Init PROVE Atomic!Init
  OBVIOUS
<1>1. content \in [Path -> Content \cup {NoImage}]
  BY DEF Init, content, exists
<1>2. settled = FALSE /\ looked = <<>> /\ exit = NotExited
  BY DEF Init, settled, looked
<1> QED BY <1>1, <1>2 DEF Atomic!Init

-----------------------------------------------------------------------------
(***************************************************************************)
(* Before the targets are settled.                                          *)
(***************************************************************************)
stutters == UNCHANGED Atomic!vars

LEMMA StuttersIf ==
    ASSUME UNCHANGED <<content, settled, looked, exit>>, job'.format = job.format,
           settled => paths' = paths
    PROVE  stutters
  BY DEF stutters, Atomic!vars

LEMMA GivesUp ==
    ASSUME IRefine, Usage \/ StartFails \/ ReadDirFails
    PROVE  Atomic!NoVerdict
PROOF
<1>1. /\ phase \in {"start", "walk"} /\ phase' = "exit"
      /\ UNCHANGED <<job, paths, reports, fd, fsVars>>
  BY DEF Usage, StartFails, ReadDirFails, walking, return
<1>2. exit' \in {0, 1} /\ (~usable \/ exit' = 1)
  BY DEF Usage, StartFails, ReadDirFails, return
<1>3. reports = <<>> /\ exit = NotExited
  BY <1>1 DEF IRefine, IOrder, ITypes, TypeOK, RunTypes
<1>4. usable' => usable
  BY <1>1 DEF usable, scans
<1>5. settled = FALSE /\ settled' = FALSE
  BY <1>1, <1>2, <1>3, <1>4 DEF settled
<1>6. looked = reports /\ looked' = reports
  BY <1>1, LookedByPhase DEF IRefine, ITypes, TypeOK, looked
<1>7. content' = content
  BY <1>1, ContentKept
<1> QED
  BY <1>1, <1>2, <1>3, <1>5, <1>6, <1>7 DEF Atomic!NoVerdict, Atomic!running

LEMMA Settles ==
    ASSUME IRefine, IRefine', StartFile \/ ReadList \/ WalkDone
    PROVE  Atomic!Settle
PROOF
<1>1. /\ phase \in {"start", "walk"} /\ phase' = "check"
      /\ UNCHANGED <<job, reports, fd, exit, fsVars>>
  BY DEF StartFile, ReadList, WalkDone
<1>2. exit = NotExited /\ paths' \in Seq(Path)
  BY <1>1 DEF IRefine, ITypes, TypeOK, RunTypes
<1>3. settled = FALSE /\ settled' = TRUE
  BY <1>1 DEF settled
<1>4. looked = reports /\ looked' = reports
  BY <1>1, LookedByPhase DEF IRefine, ITypes, TypeOK, looked
<1>5. content' = content
  BY <1>1, ContentKept
<1> QED
  BY <1>1, <1>2, <1>3, <1>4, <1>5 DEF Atomic!Settle, Atomic!running

LEMMA WalkStutters ==
    ASSUME IRefine, StartDir \/ VisitDir \/ VisitFile
    PROVE  stutters
PROOF
<1>1. /\ phase \in {"start", "walk"} /\ phase' = "walk"
      /\ UNCHANGED <<job, reports, fd, exit, fsVars>>
  BY DEF StartDir, VisitDir, VisitFile, walking
<1>2. settled = FALSE /\ settled' = FALSE
  BY <1>1 DEF settled
<1>3. looked = reports /\ looked' = reports
  BY <1>1, LookedByPhase DEF IRefine, ITypes, TypeOK, looked
<1>4. content' = content
  BY <1>1, ContentKept
<1> QED BY <1>1, <1>2, <1>3, <1>4, StuttersIf

-----------------------------------------------------------------------------
(***************************************************************************)
(* CheckFile: the look happens at os.Open.                                  *)
(***************************************************************************)
LEMMA Looks ==
    ASSUME IRefine, OpenFails \/ Open
    PROVE  Atomic!Report
PROOF
<1>1. /\ phase = "check" /\ phase' \in {"check", "parse"} /\ Len(reports) < Len(paths)
      /\ UNCHANGED <<job, paths, exit, fsVars>>
  BY DEF OpenFails, Open, checking
<1>2. target \in Path /\ exit = NotExited
  BY <1>1 DEF IRefine, ITypes, TypeOK, RunTypes, target
<1>3. settled = TRUE /\ settled' = TRUE
  BY <1>1 DEF settled
<1>4. fd = NoInode /\ looked = reports /\ FileTypes
  BY <1>1, LookedByPhase DEF IRefine, ITypes, TypeOK
<1>5. looked' = Append(reports, Atomic!look(target))
  <2>1. CASE OpenFails
    <3>1. looked' = reports' /\ reports' = Append(reports, openError(target)) /\ ~canOpen(target)
      BY <1>4, <2>1 DEF OpenFails, looked
    <3> QED BY <1>2, <1>4, <3>1, LookOpens
  <2>2. CASE Open
    <3>1. /\ canOpen(target) /\ fd' = files[target]
          /\ UNCHANGED <<reports, paths, disk>>
      BY <2>2 DEF Open, fsVars
    <3>2. fd' # NoInode /\ target' = target
      BY <3>1 DEF canOpen, exists, target
    <3>3. looked' = Append(reports, reportOf(target, disk[files[target]]))
      BY <3>1, <3>2 DEF looked
    <3> QED BY <1>2, <1>4, <3>1, <3>3, LookOpens
  <2> QED BY <2>1, <2>2
<1>6. content' = content
  BY <1>1, ContentKept
<1>7. target = paths[Len(reports) + 1]
  BY DEF target
<1> HIDE DEF target
<1> QED
  BY <1>1, <1>2, <1>3, <1>4, <1>5, <1>6, <1>7 DEF Atomic!Report, Atomic!running

LEMMA CheckStutters ==
    ASSUME IRefine, ~InPlace, ParseFails \/ Parse \/ RunCheck \/ Return
    PROVE  stutters
PROOF
<1>1. /\ phase \in {"parse", "run"} /\ phase' \in {"parse", "run", "check"}
      /\ UNCHANGED <<job, paths, exit, fsVars>>
  BY DEF ParseFails, Parse, RunCheck, Return
<1>2. settled = TRUE /\ settled' = TRUE
  BY <1>1 DEF settled
<1>3. fd \in Inode /\ fd # NoInode /\ disk[fd] \in Image
  BY <1>1, ScanAssumption DEF IRefine, ITypes, TypeOK, CheckTypes, FileTypes
<1>4. looked' = looked
  <2>1. CASE ParseFails
    <3>1. reports' = Append(reports, parseError(target)) /\ fd' = NoInode /\ ~parses(disk[fd])
      BY <2>1 DEF ParseFails
    <3>2. reportOf(target, disk[fd]) = parseError(target)
      BY <3>1 DEF reportOf
    <3> QED BY <1>3, <3>1, <3>2 DEF looked
  <2>2. CASE Parse \/ RunCheck
    <3>1. UNCHANGED <<reports, fd, paths, disk>>
      BY <2>2 DEF Parse, RunCheck, fsVars
    <3> QED BY <3>1 DEF looked, target
  <2>3. CASE Return
    <3>1. reports' = Append(reports, [name |-> target, error |-> "", checks |-> checks])
      BY <2>3 DEF Return
    <3>2. fd' = NoInode /\ step > LastStep
      BY <2>3 DEF Return
    <3>3. step = LastStep + 1
      BY <3>2, LastStepIs13 DEF IRefine, ITypes, TypeOK, CheckTypes
    <3>4. checks = linked(disk[fd].hdr, disk[fd].body) /\ parses(disk[fd])
      BY <2>3, <1>3, <3>3, TableEnds DEF Return, IRefine, ISnapshot, Building, Image
    <3>5. reportOf(target, disk[fd]) = [name |-> target, error |-> "", checks |-> checks]
      BY <3>4 DEF reportOf, linked
    <3> QED BY <1>3, <3>1, <3>2, <3>5 DEF looked
  <2> QED BY <2>1, <2>2, <2>3
<1>5. content' = content
  BY <1>1, ContentKept
<1> QED BY <1>1, <1>2, <1>4, <1>5, StuttersIf

-----------------------------------------------------------------------------
(***************************************************************************)
(* Output and verdict.                                                      *)
(***************************************************************************)
LEMMA Decides ==
    ASSUME IRefine, NoBinaries \/ Gate
    PROVE  Atomic!Verdict
PROOF
<1>1. /\ phase \in {"check", "gate"} /\ phase' = "exit"
      /\ UNCHANGED <<job, paths, reports, fd, fsVars>>
  BY DEF NoBinaries, Gate, return
<1>2. exit = NotExited /\ usable
  BY <1>1 DEF IRefine, IOrder, ITypes, TypeOK, RunTypes
<1>3. Len(reports) = Len(paths)
  <2>1. CASE NoBinaries
    BY <2>1 DEF NoBinaries, IRefine, ITypes, TypeOK, RunTypes
  <2>2. CASE Gate
    BY <2>2 DEF Gate, IRefine, IExit
  <2> QED BY <2>1, <2>2
<1>4. exit' = IF gateFails(job.format, reports) THEN 2 ELSE 0
  <2>1. CASE NoBinaries
    <3>1. DOMAIN reports = {} /\ exit' = 0
      BY <1>3, <2>1 DEF NoBinaries, return, IRefine, ITypes, TypeOK, RunTypes
    <3> QED BY <3>1 DEF gateFails
  <2>2. CASE Gate
    BY <2>2 DEF Gate, return
  <2> QED BY <2>1, <2>2
<1>5. usable' /\ exit' \in {0, 2}
  BY <1>1, <1>2, <1>4 DEF usable, scans
<1>6. settled = TRUE /\ settled' = TRUE
  BY <1>1, <1>5 DEF settled
<1>7. looked = reports /\ looked' = reports
  BY <1>1, LookedByPhase DEF IRefine, ITypes, TypeOK, looked
<1>8. gateFails(job.format, reports) <=> \E i \in DOMAIN looked : Atomic!fmtFails(looked[i])
  BY <1>7 DEF gateFails, complianceFormat, Atomic!fmtFails
<1>9. content' = content
  BY <1>1, ContentKept
<1> QED
  BY <1>1, <1>2, <1>3, <1>4, <1>6, <1>7, <1>8, <1>9 DEF Atomic!Verdict, Atomic!running

LEMMA Prints ==
    ASSUME IRefine, PrintReports \/ PrintReportsFails
    PROVE  Atomic!NoVerdict \/ stutters
PROOF
<1>1. /\ phase = "check" /\ paths # <<>> /\ Len(reports) = Len(paths)
      /\ UNCHANGED <<job, paths, reports, fd, fsVars>>
  BY DEF PrintReports, PrintReportsFails, printing
<1>2. exit = NotExited /\ usable /\ settled = TRUE
  BY <1>1 DEF IRefine, IOrder, ITypes, TypeOK, RunTypes, settled
<1>3. looked = reports /\ looked' = reports
  BY <1>1, LookedByPhase DEF IRefine, ITypes, TypeOK, looked
<1>4. content' = content
  BY <1>1, ContentKept
<1>5. CASE phase' = "gate" /\ exit' = exit
  <2>1. settled' = TRUE
    BY <1>5 DEF settled
  <2> QED BY <1>1, <1>2, <1>3, <1>4, <1>5, <2>1, StuttersIf
<1>6. CASE phase' = "exit" /\ exit' = 1
  <2>1. reports # <<>>
    BY <1>1 DEF IRefine, ITypes, TypeOK, RunTypes
  <2>2. settled' = TRUE
    BY <1>1, <1>2, <1>6, <2>1 DEF settled, usable, scans
  <2> QED
    BY <1>1, <1>2, <1>3, <1>4, <1>6, <2>2 DEF Atomic!NoVerdict, Atomic!running
<1> QED
  BY <1>5, <1>6 DEF PrintReports, PrintReportsFails, return

-----------------------------------------------------------------------------
(***************************************************************************)
(* The other processes.                                                     *)
(***************************************************************************)
LEMMA Changes ==
    ASSUME IRefine, IRefine', ~InPlace, Writer
    PROVE  Atomic!Change
PROOF
<1>1. UNCHANGED <<job, phase, paths, reports, fd, exit>>
  BY WriterKeepsProc DEF procVars
<1>2. exit = NotExited
  BY DEF Writer, mayWrite, IRefine, ITypes, TypeOK, RunTypes
<1>3. content' \in [Path -> Content \cup {NoImage}]
  <2>1. FileTypes'
    BY DEF IRefine, ITypes, TypeOK
  <2> QED BY <2>1 DEF FileTypes, content, exists
<1>4. settled' = settled
  BY <1>1 DEF settled, usable, scans
<1>5. looked' = looked
  <2>1. fd # NoInode => disk'[fd] = disk[fd]
    BY DescriptorSafe DEF IRefine, ITypes, TypeOK, CheckTypes
  <2>2. target' = target
    BY <1>1 DEF target
  <2> QED BY <1>1, <2>1, <2>2 DEF looked
<1> QED
  BY <1>1, <1>2, <1>3, <1>4, <1>5 DEF Atomic!Change, Atomic!running

LEMMA RefineStep ==
    ASSUME IRefine, IRefine', ~InPlace, [Next]_vars
    PROVE  [Atomic!Next]_Atomic!vars
PROOF
<1>1. CASE UNCHANGED vars
  <2>1. UNCHANGED <<job, phase, paths, reports, fd, exit, fsVars>>
    BY <1>1 DEF vars, procVars
  <2>2. settled' = settled
    BY <2>1 DEF settled, usable, scans
  <2>3. looked' = looked
    BY <2>1 DEF looked, target, fsVars
  <2> QED BY <2>1, <2>2, <2>3, ContentKept, StuttersIf DEF stutters
<1>2. CASE Next
  BY <1>2, GivesUp, Settles, WalkStutters, Looks, CheckStutters, Decides, Prints, Changes
  DEF Next, scc, stutters, Atomic!Next
<1> QED BY <1>1, <1>2

(***************************************************************************)
(* Thirteen reads of a file that other processes replace, move and remove    *)
(* meanwhile amount to one look at its os.Open, in target order, and the     *)
(* exit code is a verdict on those looks.  Assumed: no patch in place.       *)
(***************************************************************************)
THEOREM RefinementTheorem ==
    ASSUME ~InPlace
    PROVE  Spec => ImplementsAtomicScan
PROOF
<1>1. Init => IRefine
  BY TypesInit, SnapshotInit, ExitInit, OrderInit DEF IRefine
<1>2. IRefine /\ [Next]_vars => IRefine'
  BY TypesNext, SnapshotNext, ExitNext, OrderNext DEF IRefine
<1>3. IRefine /\ IRefine' /\ [Next]_vars => [Atomic!Next]_Atomic!vars
  BY RefineStep
<1> QED
  BY <1>1, <1>2, <1>3, RefineInit, PTL DEF Spec, Atomic!Spec, ImplementsAtomicScan
=============================================================================
