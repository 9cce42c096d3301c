---------------------------- MODULE VerdictProofs ---------------------------
(***************************************************************************)
(* What becomes of a verdict: when the section headers of the image are      *)
(* stripped, when a protection is added, when the report is printed, and     *)
(* when the image was generated.                                            *)
(***************************************************************************)
EXTENDS Stripping, Output, ElfGen, GateProofs, FiniteSetTheorems

\* At the gate, report i is that of image i.
LEMMA ReportsScanned ==
    ASSUME ITypes, ISnapshot, ~InPlace, NEW i \in scanned
    PROVE  /\ seen[i] \in Content /\ seen[i] \in Image /\ parses(seen[i])
           /\ reports[i] = reportOf(paths[i], seen[i])
PROOF
<1>1. i \in DOMAIN reports /\ phase = "gate" /\ seen[i] # NoImage /\ parses(seen[i])
  BY DEF scanned
<1>2. DOMAIN seen = DOMAIN reports
  BY <1>1 DEF ITypes, TypeOK, RunTypes, CheckTypes
<1>3. seen[i] \in Content
  BY <1>1, <1>2 DEF ITypes, TypeOK, CheckTypes
<1>4. reports[i] = owed(paths[i], seen[i])
  BY <1>1 DEF ISnapshot, ReportsOwed
<1> QED BY <1>1, <1>3, <1>4, ScanAssumption DEF owed

LEMMA ScannedInvariant == Spec => [](ITypes /\ ISnapshot)
  BY TypesInit, TypesNext, SnapshotInit, SnapshotNext, PTL DEF Spec

\* The checks of an image that parses.
LEMMA ReportEntries ==
    ASSUME NEW img \in Image, NEW p, parses(img)
    PROVE  /\ reportOf(p, img).error = ""
           /\ reportOf(p, img).checks = linked(img.hdr, img.body)
  BY DEF reportOf, linked

-----------------------------------------------------------------------------
(***************************************************************************)
(* Stripping.                                                               *)
(***************************************************************************)
LEMMA StripFields ==
    ASSUME NEW img \in Image
    PROVE  /\ strip(img) \in Image
           /\ strip(img).kind = img.kind
           /\ strip(img).hdr.machine = img.hdr.machine /\ strip(img).hdr.type = img.hdr.type
           /\ strip(img).hdr.segs = img.hdr.segs /\ strip(img).hdr.sections = {}
           /\ strip(img).body.dyn = img.body.dyn /\ strip(img).body.needed = img.body.needed
           /\ strip(img).body.rpath = img.body.rpath
           /\ strip(img).body.runpath = img.body.runpath
           /\ strip(img).body.dynsym = img.body.dynsym /\ strip(img).body.symtab = {}
           /\ strip(img).body.trailing = img.body.trailing
           /\ strip(img).body.pac = img.body.pac
PROOF
<1>1. img.hdr \in Header /\ img.body \in Body
  BY DEF Image
<1>2. /\ strip(img).hdr = [img.hdr EXCEPT !.sections = {}]
      /\ strip(img).body = [img.body EXCEPT !.symtab = {}]
      /\ strip(img).kind = img.kind /\ strip(img).readable = img.readable
  BY DEF strip, Image
<1>3. strip(img).hdr \in Header /\ strip(img).body \in Body
  BY <1>1, <1>2 DEF Header, Body
<1>4. strip(img) \in Image
  BY <1>3 DEF strip, Image
<1> QED BY <1>1, <1>2, <1>4 DEF Header, Body

\* Both readers see the dynamic section of a well-formed image.
LEMMA DynamicViews ==
    ASSUME NEW img \in Image, wellFormed(img)
    PROVE  /\ parsePTDynamic(img.hdr, img.body) = img.body.dyn
           /\ \A tag : hasDynFlag(img.hdr, img.body, tag) <=> tag \in img.body.dyn
           /\ dynamicStringsFor(img.hdr, img.body, img.body.rpath) = img.body.rpath
           /\ dynamicStringsFor(img.hdr, img.body, img.body.runpath) = img.body.runpath
PROOF
<1> DEFINE h == img.hdr
           b == img.body
<1>1. parsePTDynamic(h, b) = b.dyn
  BY DynamicEvidence
<1>2. \A tag : hasDynFlag(h, b, tag) <=> tag \in b.dyn
  BY <1>1 DEF hasDynFlag, ElfDynValue
<1>3. b.rpath \cup b.runpath # {} => dynamicStrings(h, b)
  BY <1>1 DEF wellFormed, dynamicStrings
<1>4. /\ dynamicStringsFor(h, b, b.rpath) = b.rpath
      /\ dynamicStringsFor(h, b, b.runpath) = b.runpath
  BY <1>3 DEF dynamicStringsFor, ElfDynString, dynStringPH
<1> QED BY <1>1, <1>2, <1>4

\* So the checks that read no symbols return the same without sections.
LEMMA ToolsKept ==
    ASSUME NEW img \in Image, wellFormed(img), NEW k \in tools
    PROVE  verdict(k, strip(img).hdr, strip(img).body) = verdict(k, img.hdr, img.body)
PROOF
<1> DEFINE h == img.hdr
           b == img.body
           g == strip(img).hdr
           a == strip(img).body
<1>1. strip(img) \in Image /\ wellFormed(strip(img))
  BY StripFields DEF wellFormed
<1>2. /\ g.segs = h.segs /\ g.type = h.type /\ a.dyn = b.dyn
      /\ a.rpath = b.rpath /\ a.runpath = b.runpath
  BY StripFields
<1>3. /\ parsePTDynamic(g, a) = parsePTDynamic(h, b)
      /\ \A tag : hasDynFlag(g, a, tag) <=> hasDynFlag(h, b, tag)
      /\ dynamicStringsFor(g, a, a.rpath) = dynamicStringsFor(h, b, b.rpath)
      /\ dynamicStringsFor(g, a, a.runpath) = dynamicStringsFor(h, b, b.runpath)
  BY <1>1, <1>2, DynamicViews
<1> HIDE DEF h, b, g, a
<1>4. bindNowOf(g, a) <=> bindNowOf(h, b)
  BY <1>3 DEF bindNowOf
<1>5. RELRO(g, a) = RELRO(h, b) /\ BindNow(g, a) = BindNow(h, b)
  BY <1>2, <1>4 DEF RELRO, BindNow
<1>6. NX(g, a) = NX(h, b) /\ PIE(g, a) = PIE(h, b) /\ PIC(g, a) = PIC(h, b)
  BY <1>2, <1>3 DEF NX, PIE, PIC
<1>7. RPATH(g, a) = RPATH(h, b) /\ RUNPATH(g, a) = RUNPATH(h, b)
  BY <1>3 DEF RPATH, RUNPATH
<1> QED BY <1>5, <1>6, <1>7 DEF tools, verdict, h, b, g, a

\* What program headers show of the symbols does not depend on sections.
LEMMA PhdrKept ==
    ASSUME NEW img \in Image
    PROVE  /\ phdrSymbolNames(strip(img).hdr, strip(img).body) = phdrSymbolNames(img.hdr, img.body)
           /\ dynamicStrings(strip(img).hdr, strip(img).body) = dynamicStrings(img.hdr, img.body)
PROOF
<1> DEFINE h == img.hdr
           b == img.body
           g == strip(img).hdr
           a == strip(img).body
<1>1. g.segs = h.segs /\ a.dyn = b.dyn /\ a.dynsym = b.dynsym /\ a.trailing = b.trailing
  BY StripFields
<1> HIDE DEF h, b, g, a
<1>2. parsePTDynamic(g, a) = parsePTDynamic(h, b)
  BY <1>1 DEF parsePTDynamic
<1>3. dynamicStrings(g, a) = dynamicStrings(h, b)
  BY <1>1, <1>2 DEF dynamicStrings
<1> QED BY <1>1, <1>2, <1>3 DEF phdrSymbolNames, h, b, g, a

\* Stack protection found without sections is found with them.
LEMMA PassedKept ==
    ASSUME NEW img \in Image, unambiguous(img),
           StackProtectionPassed(verdicts(strip(img).hdr, strip(img).body))
    PROVE  StackProtectionPassed(verdicts(img.hdr, img.body))
PROOF
<1> DEFINE h == img.hdr
           b == img.body
           g == strip(img).hdr
           a == strip(img).body
<1>1. /\ g.segs = h.segs /\ g.sections = {} /\ g.machine = h.machine
      /\ a.symtab = {} /\ a.pac = b.pac
      /\ phdrSymbolNames(g, a) = phdrSymbolNames(h, b)
      /\ b.pac \subseteq {"text", "other"} /\ b.pac # {"other"}
  BY StripFields, PhdrKept DEF Image, Body, unambiguous
<1> HIDE DEF h, b, g, a
<1>2. Canary(g, a).status = "good" => Canary(h, b).status = "good"
  <2>1. allSymbolNames(g, a) \subseteq allSymbolNames(h, b)
    BY <1>1 DEF allSymbolNames, ElfSymbols, ElfDynamicSymbols
  <2> QED BY <2>1 DEF Canary, OK, Bad
<1>3. OhosRetguard(g, a).status = "good" => OhosRetguard(h, b).status = "good"
  BY <1>1 DEF OhosRetguard, OK, Bad, NA
<1>4. PacCFI(g, a).status = "good" => PacCFI(h, b).status = "good"
  BY <1>1 DEF PacCFI, OK, Bad, NA
<1>5. \A f, d : /\ verdicts(f, d)["canary"] = Canary(f, d)
                /\ verdicts(f, d)["ohos_retguard"] = OhosRetguard(f, d)
                /\ verdicts(f, d)["pac_cfi"] = PacCFI(f, d)
  BY DEF verdicts, verdict, CheckKey
<1> QED BY <1>2, <1>3, <1>4, <1>5 DEF StackProtectionPassed, StackKey, h, b, g, a

(***************************************************************************)
(* Stripping the section headers of a linked image changes none of the       *)
(* entries that read no symbols, and no verdict of hasFailures, when its     *)
(* protection has evidence that survives.  Assumed: no patch in place.       *)
(***************************************************************************)
THEOREM StripKeepsTheorem ==
    ASSUME ~InPlace
    PROVE  Spec => []StripKeepsVerdicts
PROOF
<1>1. ASSUME ITypes, ISnapshot, NEW i \in scanned, wellFormed(seen[i])
      PROVE  LET img   == seen[i]
                 whole == reports[i]
                 bare  == reportOf(paths[i], strip(img))
             IN  /\ \A k \in tools : bare.checks[k] = whole.checks[k]
                 /\ unambiguous(img) /\ evident(strip(img)) /\ hasStackProtection(strip(img))
                       => (fails(bare) <=> fails(whole))
  <2> DEFINE img   == seen[i]
             whole == reports[i]
             bare  == reportOf(paths[i], strip(img))
  <2>1. img \in Image /\ parses(img) /\ whole = reportOf(paths[i], img)
    BY <1>1, ReportsScanned
  <2>2. strip(img) \in Image /\ parses(strip(img))
    BY <2>1, StripFields DEF parses
  <2>3. /\ whole.error = "" /\ whole.checks = linked(img.hdr, img.body)
        /\ bare.error = "" /\ bare.checks = linked(strip(img).hdr, strip(img).body)
    BY <2>1, <2>2, ReportEntries
  <2>4. tools \subseteq CheckKey \ StackKey
    BY DEF tools, CheckKey, StackKey
  <2>5. \A k \in tools : bare.checks[k] = whole.checks[k]
    <3> SUFFICES ASSUME NEW k \in tools PROVE bare.checks[k] = whole.checks[k]
      OBVIOUS
    <3>1. linked(strip(img).hdr, strip(img).body)[k] = verdict(k, strip(img).hdr, strip(img).body)
      BY <2>2, <2>4, LinkedEntries
    <3>2. linked(img.hdr, img.body)[k] = verdict(k, img.hdr, img.body)
      BY <2>1, <2>4, LinkedEntries
    <3>3. verdict(k, strip(img).hdr, strip(img).body) = verdict(k, img.hdr, img.body)
      BY <1>1, <2>1, ToolsKept
    <3> QED BY <2>3, <3>1, <3>2, <3>3
  <2>6. ASSUME unambiguous(img), evident(strip(img)), hasStackProtection(strip(img))
        PROVE  fails(bare) <=> fails(whole)
    <3>1. StackProtectionPassed(verdicts(strip(img).hdr, strip(img).body))
      BY <2>2, <2>6, ProtectionFound
    <3>2. StackProtectionPassed(verdicts(img.hdr, img.body))
      BY <2>1, <2>6, <3>1, PassedKept
    <3>3. StackProtectionPassed(bare.checks) /\ StackProtectionPassed(whole.checks)
      BY <2>1, <2>2, <2>3, <3>1, <3>2, LinkedEntries
    <3>4. failKeys \ {"canary"} \subseteq tools
      BY DEF failKeys, tools
    <3> QED BY <2>3, <2>5, <3>3, <3>4 DEF fails
  <2> QED BY <2>5, <2>6
<1>2. ITypes /\ ISnapshot => StripKeepsVerdicts
  BY <1>1 DEF StripKeepsVerdicts
<1> QED BY <1>2, ScannedInvariant, PTL

-----------------------------------------------------------------------------
(***************************************************************************)
(* FORTIFY, the one check that counts.                                       *)
(***************************************************************************)
LEMMA ChkNamesFinite ==
    ASSUME NEW img \in Content, img.body.trailing = {}
    PROVE  IsFiniteSet(fortifiedChkNames(img.hdr, img.body))
PROOF
<1> DEFINE h == img.hdr
           b == img.body
           S == b.dynsym \cup b.symtab
           f == [s \in S |-> baseSymbolName(s.name)]
           T == {f[s] : s \in S}
<1>1. IsFiniteSet(S)
  BY SymbolsAssumption
<1>2. f \in Surjection(S, T)
  BY DEF Surjection
<1>3. IsFiniteSet(T)
  <2> HIDE DEF f, T, S
  <2> QED BY <1>1, <1>2, FS_Surjection
<1>4. fortifiedChkNames(h, b) \subseteq T
  <2>1. phdrSymbolNames(h, b) \subseteq {s.name : s \in b.dynsym}
    BY DEF phdrSymbolNames
  <2>2. {s.name : s \in {r \in ElfDynamicSymbols(h, b) \cup ElfSymbols(h, b) :
                           r.type \in {"FUNC", "NOTYPE"}}} \subseteq {s.name : s \in S}
    BY DEF ElfDynamicSymbols, ElfSymbols
  <2>3. ASSUME NEW n \in fortifiedChkNames(h, b) PROVE n \in T
    <3>1. PICK s \in S : n = baseSymbolName(s.name)
      BY <2>1, <2>2 DEF fortifiedChkNames
    <3>2. f[s] = n
      BY <3>1
    <3> QED BY <3>1, <3>2
  <2> QED BY <2>3
<1> QED BY <1>3, <1>4, FS_Subset

LEMMA FortifyKept ==
    ASSUME NEW img \in Content, img \in Image, unambiguous(img), ".dynsym" \in img.hdr.sections,
           verdict("fortify", strip(img).hdr, strip(img).body).status = "good"
    PROVE  verdict("fortify", img.hdr, img.body).status = "good"
PROOF
<1> DEFINE h == img.hdr
           b == img.body
           g == strip(img).hdr
           a == strip(img).body
           bare  == fortifiedChkNames(g, a)
           whole == fortifiedChkNames(h, b)
<1>1. /\ g.segs = h.segs /\ g.sections = {} /\ a.needed = b.needed
      /\ a.symtab = {} /\ b.trailing = {}
      /\ phdrSymbolNames(g, a) = phdrSymbolNames(h, b)
      /\ dynamicStrings(g, a) = dynamicStrings(h, b)
  BY StripFields, PhdrKept DEF unambiguous
<1>2. IsFiniteSet(whole)
  BY <1>1, ChkNamesFinite
<1>3. Fortify(g, a, resolveLibcFlag(g, a)).fortify.status = "good"
  BY DEF verdict
<1> HIDE DEF h, b, g, a
<1>4. resolveLibcFlag(g, a) # "none" /\ Cardinality(bare) > 0
  <2>1. ".symtab" \notin g.sections
    BY <1>1
  <2> HIDE DEF bare
  <2>2. CASE resolveLibcFlag(g, a) = "none"
    BY <1>3, <2>1, <2>2 DEF Fortify, NA
  <2>3. CASE resolveLibcFlag(g, a) # "none" /\ ~(Cardinality(bare) > 0)
    BY <1>3, <2>3 DEF Fortify, bare, Warn, Info
  <2> QED BY <2>2, <2>3
<1>5. resolveLibcFlag(h, b) # "none"
  <2>1. /\ "DYNAMIC" \in g.segs
        /\ dynamicStringsFor(g, a, a.needed) \cap LibcLibrary # {}
    BY <1>4 DEF resolveLibcFlag
  <2>2. dynamicStringsFor(g, a, a.needed) = dynamicStringsFor(h, b, b.needed)
    BY <1>1, <2>1 DEF dynamicStringsFor, ElfDynString, dynStringPH
  <2> QED BY <1>1, <2>1, <2>2 DEF resolveLibcFlag
<1>6. bare \subseteq whole
  BY <1>1 DEF fortifiedChkNames, ElfSymbols, ElfDynamicSymbols
<1> HIDE DEF bare, whole
<1>7. bare # {}
  BY <1>4, FS_EmptySet
<1>8. Cardinality(whole) > 0
  <2>1. whole # {}
    BY <1>6, <1>7
  <2>2. Cardinality(whole) \in Nat /\ Cardinality(whole) # 0
    BY <1>2, <2>1, FS_CardinalityType, FS_EmptySet
  <2> QED BY <2>2
<1>9. Fortify(h, b, resolveLibcFlag(h, b)).fortify.status = "good"
  BY <1>5, <1>8 DEF Fortify, whole, OK
<1> QED BY <1>9 DEF verdict, h, b

\* After linkStackProtection a stack column is good when any mechanism passes.
LEMMA StackColumnGood ==
    ASSUME NEW img \in Image, NEW k \in StackKey
    PROVE  linked(img.hdr, img.body)[k].status = "good"
              <=> StackProtectionPassed(verdicts(img.hdr, img.body))
PROOF
<1> DEFINE v == verdicts(img.hdr, img.body)
<1>1. v \in CheckTable
  BY VerdictTable DEF Image
<1> HIDE DEF v
<1>2. \A j \in StackKey : linkStackProtection(v)[j].status = "good"
                             <=> linkStackProtection(v)[k].status = "good"
  BY <1>1, LinkAgrees
<1>3. StackProtectionPassed(linkStackProtection(v)) <=> linkStackProtection(v)[k].status = "good"
  BY <1>2 DEF StackProtectionPassed
<1> QED BY <1>1, <1>3, LinkPasses DEF linked, v

(***************************************************************************)
(* No stack protection, and no fortified call, is reported for a stripped    *)
(* image that is not reported for the whole one.  Assumed: no patch in       *)
(* place.                                                                   *)
(***************************************************************************)
THEOREM StripInventsTheorem ==
    ASSUME ~InPlace
    PROVE  Spec => []StripInventsNothing
PROOF
<1>1. ASSUME ITypes, ISnapshot, NEW i \in scanned, unambiguous(seen[i]),
             ".dynsym" \in seen[i].hdr.sections, NEW k \in StackKey \cup {"fortify"},
             reportOf(paths[i], strip(seen[i])).checks[k].status = "good"
      PROVE  reports[i].checks[k].status = "good"
  <2> DEFINE img == seen[i]
  <2>1. /\ img \in Content /\ img \in Image /\ parses(img)
        /\ reports[i] = reportOf(paths[i], img)
    BY <1>1, ReportsScanned
  <2>2. strip(img) \in Image /\ parses(strip(img))
    BY <2>1, StripFields DEF parses
  <2>3. /\ reports[i].checks = linked(img.hdr, img.body)
        /\ linked(strip(img).hdr, strip(img).body)[k].status = "good"
    BY <1>1, <2>1, <2>2, ReportEntries
  <2>4. CASE k \in StackKey
    <3>1. StackProtectionPassed(verdicts(strip(img).hdr, strip(img).body))
      BY <2>2, <2>3, <2>4, StackColumnGood
    <3>2. StackProtectionPassed(verdicts(img.hdr, img.body))
      BY <1>1, <2>1, <3>1, PassedKept
    <3> QED BY <2>1, <2>3, <2>4, <3>2, StackColumnGood
  <2>5. CASE k = "fortify"
    <3>0. "fortify" \in CheckKey \ StackKey
      BY DEF CheckKey, StackKey
    <3>1. verdict("fortify", strip(img).hdr, strip(img).body).status = "good"
      BY <2>2, <2>3, <2>5, <3>0, LinkedEntries
    <3>2. verdict("fortify", img.hdr, img.body).status = "good"
      BY <1>1, <2>1, <3>1, FortifyKept
    <3> QED BY <2>1, <2>3, <2>5, <3>0, <3>2, LinkedEntries
  <2> QED BY <2>4, <2>5
<1>2. ITypes /\ ISnapshot => StripInventsNothing
  BY <1>1 DEF StripInventsNothing
<1> QED BY <1>2, ScannedInvariant, PTL

-----------------------------------------------------------------------------
(***************************************************************************)
(* Hardening.                                                               *)
(***************************************************************************)
stackSegs == {"GNU_STACK", "GNU_STACK_X"}
textRels  == {"TEXTREL", "DF_TEXTREL"}

\* What every member of hardenings does to an image, or less.
improves(old, new) ==
    /\ new.hdr.machine = old.hdr.machine /\ new.hdr.type = old.hdr.type
    /\ new.hdr.sections = old.hdr.sections
    /\ old.hdr.segs \ stackSegs \subseteq new.hdr.segs
    /\ new.hdr.segs \ old.hdr.segs \subseteq {"GNU_RELRO", "RETGUARD", "GNU_STACK"}
    /\ old.body.dyn \ textRels \subseteq new.body.dyn
    /\ new.body.dyn \ old.body.dyn \subseteq {"BIND_NOW", "DF_BIND_NOW", "DF_1_NOW", "DF_1_PIE"}
    /\ new.body.rpath \subseteq old.body.rpath
    /\ old.body.dynsym \subseteq new.body.dynsym
    /\ new.body.symtab = old.body.symtab /\ new.body.trailing = old.body.trailing
    /\ old.body.pac \subseteq new.body.pac

LEMMA HardeningsImprove ==
    ASSUME NEW img \in Image, NEW new \in hardenings(img)
    PROVE  new \in Image /\ new.kind = img.kind /\ improves(img, new)
PROOF
<1> DEFINE h == img.hdr
           b == img.body
           goal == new \in Image /\ new.kind = img.kind /\ improves(img, new)
<1>1. h \in Header /\ b \in Body
  BY DEF Image
<1>2. ASSUME NEW g \in Header, g.machine = h.machine, g.type = h.type,
             g.sections = h.sections, h.segs \ stackSegs \subseteq g.segs,
             g.segs \ h.segs \subseteq {"GNU_RELRO", "RETGUARD", "GNU_STACK"},
             new = [img EXCEPT !.hdr = g]
      PROVE  goal
  <2>1. new \in Image /\ new.hdr = g /\ new.body = b /\ new.kind = img.kind
    BY <1>2 DEF Image
  <2> QED BY <1>2, <2>1 DEF improves
<1>3. ASSUME NEW a \in Body, b.dyn \ textRels \subseteq a.dyn,
             a.dyn \ b.dyn \subseteq {"BIND_NOW", "DF_BIND_NOW", "DF_1_NOW", "DF_1_PIE"},
             a.rpath \subseteq b.rpath, b.dynsym \subseteq a.dynsym,
             a.symtab = b.symtab, a.trailing = b.trailing, b.pac \subseteq a.pac,
             new = [img EXCEPT !.body = a]
      PROVE  goal
  <2>1. new \in Image /\ new.hdr = h /\ new.body = a /\ new.kind = img.kind
    BY <1>3 DEF Image
  <2> QED BY <1>3, <2>1 DEF improves
<1> HIDE DEF goal
<1>4. CASE \E tag \in {"BIND_NOW", "DF_BIND_NOW", "DF_1_NOW", "DF_1_PIE"} : new = bind(img, tag)
  <2>1. PICK tag \in {"BIND_NOW", "DF_BIND_NOW", "DF_1_NOW", "DF_1_PIE"} : new = bind(img, tag)
    BY <1>4
  <2> DEFINE a == [b EXCEPT !.dyn = @ \cup {tag}]
  <2>2. a \in Body /\ new = [img EXCEPT !.body = a]
    BY <1>1, <2>1 DEF Body, DynTag, bind, Image
  <2> QED BY <1>1, <1>3, <2>2 DEF Body, goal
<1>5. CASE \E s \in {"GNU_RELRO", "RETGUARD"} : new = segment(img, s)
  <2>1. PICK s \in {"GNU_RELRO", "RETGUARD"} : new = segment(img, s)
    BY <1>5
  <2> DEFINE g == [h EXCEPT !.segs = @ \cup {s}]
  <2>2. g \in Header /\ new = [img EXCEPT !.hdr = g]
    BY <1>1, <2>1 DEF Header, Segment, segment, Image
  <2> QED BY <1>1, <1>2, <2>2 DEF Header, goal
<1>6. CASE new = [img EXCEPT !.hdr.segs = (@ \ {"GNU_STACK_X"}) \cup {"GNU_STACK"}]
  <2> DEFINE g == [h EXCEPT !.segs = (@ \ {"GNU_STACK_X"}) \cup {"GNU_STACK"}]
  <2>1. g \in Header /\ new = [img EXCEPT !.hdr = g]
    BY <1>1, <1>6 DEF Header, Segment, Image
  <2> QED BY <1>1, <1>2, <2>1 DEF Header, stackSegs, goal
<1>7. CASE new = [img EXCEPT !.body.dyn = @ \ {"TEXTREL", "DF_TEXTREL"}]
  <2> DEFINE a == [b EXCEPT !.dyn = @ \ {"TEXTREL", "DF_TEXTREL"}]
  <2>1. a \in Body /\ new = [img EXCEPT !.body = a]
    BY <1>1, <1>7 DEF Body, Image
  <2> QED BY <1>1, <1>3, <2>1 DEF Body, textRels, goal
<1>8. CASE new = [img EXCEPT !.body.rpath = {}]
  <2> DEFINE a == [b EXCEPT !.rpath = {}]
  <2>1. a \in Body /\ new = [img EXCEPT !.body = a]
    BY <1>1, <1>8 DEF Body, Image
  <2> QED BY <1>1, <1>3, <2>1 DEF Body, goal
<1>9. CASE new = [img EXCEPT !.body.dynsym = @ \cup {CanarySymbol}]
  <2> DEFINE a == [b EXCEPT !.dynsym = @ \cup {CanarySymbol}]
  <2>1. a \in Body /\ new = [img EXCEPT !.body = a]
    BY <1>1, <1>9, SymbolsAssumption DEF Body, Image
  <2> QED BY <1>1, <1>3, <2>1 DEF Body, goal
<1>10. CASE new = [img EXCEPT !.body.pac = @ \cup {"text"}]
  <2> DEFINE a == [b EXCEPT !.pac = @ \cup {"text"}]
  <2>1. a \in Body /\ new = [img EXCEPT !.body = a]
    BY <1>1, <1>10 DEF Body, Image
  <2> QED BY <1>1, <1>3, <2>1 DEF Body, goal
<1> QED BY <1>4, <1>5, <1>6, <1>7, <1>8, <1>9, <1>10 DEF hardenings, goal

judgedKeys == {"relro", "nx", "pie", "pic", "bind_now", "rpath", "symbols"}

noWorse(c, d) ==
    /\ StackProtectionPassed(c) => StackProtectionPassed(d)
    /\ \A k \in judgedKeys : d[k].status = "bad" => c[k].status = "bad"
    /\ d["pie"].value = "DSO (shared library)" => c["pie"].value = "DSO (shared library)"

\* The program headers lead to as much, and to no rpath that was not there.
LEMMA ViewsImprove ==
    ASSUME NEW old \in Image, NEW new \in Image, improves(old, new)
    PROVE  /\ \A tag \in {"BIND_NOW", "DF_BIND_NOW", "DF_1_NOW", "DF_1_PIE"} :
                 hasDynFlag(old.hdr, old.body, tag) => hasDynFlag(new.hdr, new.body, tag)
           /\ parsePTDynamic(new.hdr, new.body) \cap textRels
                 \subseteq parsePTDynamic(old.hdr, old.body)
           /\ dynamicStrings(new.hdr, new.body) = dynamicStrings(old.hdr, old.body)
           /\ allSymbolNames(old.hdr, old.body) \subseteq allSymbolNames(new.hdr, new.body)
PROOF
<1> DEFINE h == old.hdr
           b == old.body
           g == new.hdr
           a == new.body
<1>1. /\ g.sections = h.sections
      /\ \A s \in {"LOAD", "DYNAMIC"} : s \in g.segs <=> s \in h.segs
      /\ b.dyn \ textRels \subseteq a.dyn /\ b.dynsym \subseteq a.dynsym
      /\ a.dyn \ b.dyn \subseteq {"BIND_NOW", "DF_BIND_NOW", "DF_1_NOW", "DF_1_PIE"}
      /\ a.symtab = b.symtab /\ a.trailing = b.trailing
  BY DEF improves, stackSegs
<1> HIDE DEF h, b, g, a
<1>2. \A tag \in {"BIND_NOW", "DF_BIND_NOW", "DF_1_NOW", "DF_1_PIE"} :
         hasDynFlag(h, b, tag) => hasDynFlag(g, a, tag)
  BY <1>1 DEF hasDynFlag, ElfDynValue, parsePTDynamic, textRels
<1>3. parsePTDynamic(g, a) \cap textRels \subseteq parsePTDynamic(h, b)
  BY <1>1 DEF parsePTDynamic, textRels
<1>4. \A tag \in {"STRTAB", "SYMTAB"} : tag \in parsePTDynamic(g, a) <=> tag \in parsePTDynamic(h, b)
  BY <1>1 DEF parsePTDynamic, textRels
<1>5. dynamicStrings(g, a) = dynamicStrings(h, b)
  BY <1>1, <1>4 DEF dynamicStrings
<1>6. phdrSymbolNames(h, b) \subseteq phdrSymbolNames(g, a)
  BY <1>1, <1>4, <1>5 DEF phdrSymbolNames
<1>7. allSymbolNames(h, b) \subseteq allSymbolNames(g, a)
  BY <1>1, <1>6 DEF allSymbolNames, ElfSymbols, ElfDynamicSymbols
<1> QED BY <1>2, <1>3, <1>5, <1>7 DEF h, b, g, a

LEMMA ChecksImprove ==
    ASSUME NEW old \in Image, NEW new \in Image, improves(old, new), old.hdr.segs # {}
    PROVE  noWorse(linked(old.hdr, old.body), linked(new.hdr, new.body))
PROOF
<1> DEFINE h == old.hdr
           b == old.body
           g == new.hdr
           a == new.body
           c == linked(h, b)
           d == linked(g, a)
<1>1. /\ g.machine = h.machine /\ g.type = h.type /\ g.sections = h.sections
      /\ \A s \in {"LOAD", "INTERP"} : s \in g.segs <=> s \in h.segs
      /\ \A s \in {"GNU_RELRO", "RETGUARD"} : s \in h.segs => s \in g.segs
      /\ "GNU_STACK_X" \in g.segs => "GNU_STACK_X" \in h.segs
      /\ "CROWD" \in g.segs <=> "CROWD" \in h.segs
      /\ a.rpath \subseteq b.rpath /\ a.symtab = b.symtab /\ b.pac \subseteq a.pac
      /\ h.segs # {} /\ h.type \in FileType
  BY DEF improves, stackSegs, Image, Header
<1>2. /\ \A tag \in {"BIND_NOW", "DF_BIND_NOW", "DF_1_NOW", "DF_1_PIE"} :
            hasDynFlag(h, b, tag) => hasDynFlag(g, a, tag)
      /\ parsePTDynamic(g, a) \cap textRels \subseteq parsePTDynamic(h, b)
      /\ dynamicStrings(g, a) = dynamicStrings(h, b)
      /\ allSymbolNames(h, b) \subseteq allSymbolNames(g, a)
  BY ViewsImprove
<1>3. /\ \A k \in CheckKey \ StackKey : c[k] = verdict(k, h, b) /\ d[k] = verdict(k, g, a)
      /\ StackProtectionPassed(c) <=> StackProtectionPassed(verdicts(h, b))
      /\ StackProtectionPassed(d) <=> StackProtectionPassed(verdicts(g, a))
  BY LinkedEntries
<1> HIDE DEF h, b, g, a, c, d
<1>4. StackProtectionPassed(verdicts(h, b)) => StackProtectionPassed(verdicts(g, a))
  <2>1. Canary(h, b).status = "good" => Canary(g, a).status = "good"
    BY <1>2 DEF Canary, OK, Bad
  <2>2. OhosRetguard(h, b).status = "good" => OhosRetguard(g, a).status = "good"
    BY <1>1 DEF OhosRetguard, OK, Bad, NA
  <2>3. PacCFI(h, b).status = "good" => PacCFI(g, a).status = "good"
    BY <1>1 DEF PacCFI, OK, Bad, NA
  <2>4. \A f, e : /\ verdicts(f, e)["canary"] = Canary(f, e)
                  /\ verdicts(f, e)["ohos_retguard"] = OhosRetguard(f, e)
                  /\ verdicts(f, e)["pac_cfi"] = PacCFI(f, e)
    BY DEF verdicts, verdict, CheckKey
  <2> QED BY <2>1, <2>2, <2>3, <2>4 DEF StackProtectionPassed, StackKey
<1>5. RELRO(g, a).status = "bad" => RELRO(h, b).status = "bad"
  BY <1>1 DEF RELRO, OK, Bad, Warn, NA
<1>6. NX(g, a).status = "bad" => NX(h, b).status = "bad"
  BY <1>1 DEF NX, OK, Bad, Warn, Err
<1>7. /\ PIE(g, a).status = "bad" => PIE(h, b).status = "bad"
      /\ PIE(g, a).value = "DSO (shared library)" => PIE(h, b).value = "DSO (shared library)"
  BY <1>1, <1>2 DEF PIE, OK, Bad, Warn, Info, FileType
<1>8. PIC(g, a).status = "bad" => PIC(h, b).status = "bad"
  BY <1>1, <1>2 DEF PIC, OK, Bad, NA, textRels
<1>9. BindNow(g, a).status = "bad" => BindNow(h, b).status = "bad"
  BY <1>2 DEF BindNow, bindNowOf, OK, Bad
<1>10. RPATH(g, a).status = "bad" => RPATH(h, b).status = "bad"
  BY <1>1, <1>2 DEF RPATH, dynamicStringsFor, ElfDynString, dynStringPH, OK, Bad
<1>11. Symbols(g, a).status = "bad" => Symbols(h, b).status = "bad"
  BY <1>1 DEF Symbols, ElfSymbols, OK, Bad
<1>12. ASSUME NEW k \in judgedKeys, d[k].status = "bad" PROVE c[k].status = "bad"
  <2>1. c[k] = verdict(k, h, b) /\ d[k] = verdict(k, g, a)
    BY <1>3 DEF judgedKeys, CheckKey, StackKey
  <2>2. verdict(k, g, a).status = "bad"
    BY <1>12, <2>1
  <2>3. verdict(k, h, b).status = "bad"
    BY <1>5, <1>6, <1>7, <1>8, <1>9, <1>10, <1>11, <2>2 DEF judgedKeys, verdict
  <2> QED BY <2>1, <2>3
<1>13. c["pie"] = PIE(h, b) /\ d["pie"] = PIE(g, a)
  BY <1>3 DEF CheckKey, StackKey, verdict
<1> QED BY <1>3, <1>4, <1>7, <1>12, <1>13 DEF noWorse, h, b, g, a, c, d

\* Such a table fails no gate that the other passes.
LEMMA GatesMonotone ==
    ASSUME NEW r, NEW s, s.error = "", noWorse(r.checks, s.checks),
           \A k \in CheckKey : r.checks[k] \in covered(k) /\ s.checks[k] \in covered(k)
    PROVE  /\ fails(s) => fails(r)
           /\ violates(s) => violates(r)
PROOF
<1> DEFINE c == r.checks
           d == s.checks
<1>1. fails(s) => fails(r)
  <2>1. failKeys \ {"canary"} \subseteq judgedKeys
    BY DEF failKeys, judgedKeys
  <2> QED BY <2>1 DEF fails, noWorse
<1>2. violates(s) => violates(r)
  <2> DEFINE rules(t) == \/ pieRule(t) = "bad" \/ stackRule(t) = "bad" \/ relroRule(t) = "bad"
                         \/ bindNowRule(t) = "bad" \/ nxRule(t) = "bad"
                         \/ strippedRule(t) = "bad" \/ rpathRule(t) = "bad"
  <2>1. (violates(r) <=> rules(c)) /\ (violates(s) <=> rules(d))
    BY DEF violates, RuleId, ruleVerdict
  <2>2. /\ StackProtectionPassed(c) => StackProtectionPassed(d)
        /\ \A k \in {"relro", "nx", "pie", "pic", "bind_now", "rpath", "symbols"} :
              d[k].status = "bad" => c[k].status = "bad"
        /\ d["pie"].value = "DSO (shared library)" => c["pie"].value = "DSO (shared library)"
    BY DEF noWorse, judgedKeys
  <2>3. stackRule(d) = "bad" => stackRule(c) = "bad"
    BY <2>2 DEF stackRule
  <2>4. rules(d) => rules(c)
    BY <2>2, <2>3, EntriesJudged
  <2> QED BY <2>1, <2>4
<1> QED BY <1>1, <1>2

(***************************************************************************)
(* One more protection never fails hasFailures or a compliance rule.         *)
(* Assumed: no patch in place.                                              *)
(***************************************************************************)
THEOREM HardeningTheorem ==
    ASSUME ~InPlace
    PROVE  Spec => []HardeningMonotone
PROOF
<1>1. ASSUME ITypes, ISnapshot, NEW i \in scanned, seen[i].hdr.segs # {},
             NEW new \in hardenings(seen[i])
      PROVE  LET r == reportOf(paths[i], new)
             IN  /\ fails(r) => fails(reports[i])
                 /\ violates(r) => violates(reports[i])
  <2> DEFINE old == seen[i]
  <2>1. old \in Image /\ parses(old) /\ reports[i] = reportOf(paths[i], old)
    BY <1>1, ReportsScanned
  <2>2. new \in Image /\ parses(new) /\ improves(old, new)
    BY <1>1, <2>1, HardeningsImprove DEF parses
  <2>3. /\ reports[i].checks = linked(old.hdr, old.body)
        /\ reportOf(paths[i], new).checks = linked(new.hdr, new.body)
        /\ reportOf(paths[i], new).error = ""
    BY <2>1, <2>2, ReportEntries
  <2>4. noWorse(linked(old.hdr, old.body), linked(new.hdr, new.body))
    BY <1>1, <2>1, <2>2, ChecksImprove
  <2>5. \A k \in CheckKey : /\ linked(old.hdr, old.body)[k] \in covered(k)
                            /\ linked(new.hdr, new.body)[k] \in covered(k)
    BY <2>1, <2>2, LinkedEntries
  <2> DEFINE r == reports[i]
             s == reportOf(paths[i], new)
  <2>6. noWorse(r.checks, s.checks)
    BY <2>3, <2>4
  <2>7. \A k \in CheckKey : r.checks[k] \in covered(k) /\ s.checks[k] \in covered(k)
    BY <2>3, <2>5
  <2>8. s.error = ""
    BY <2>3
  <2> HIDE DEF r, s
  <2>9. (fails(s) => fails(r)) /\ (violates(s) => violates(r))
    BY <2>6, <2>7, <2>8, GatesMonotone
  <2> QED BY <2>9 DEF r, s
<1>2. ITypes /\ ISnapshot => HardeningMonotone
  BY <1>1 DEF HardeningMonotone
<1> QED BY <1>2, ScannedInvariant, PTL
-----------------------------------------------------------------------------
(***************************************************************************)
(* Printing.  A format that prints values shows as much as one that prints   *)
(* statuses: the strings of the bad results are no other result's.          *)
(***************************************************************************)
LEMMA BadCells ==
    ASSUME NEW k \in DOMAIN badCell, NEW x \in covered(k)
    PROVE  x.value \in {badCell[k], Err.value} <=> x.status = "bad"
PROOF
<1> DEFINE Shown(y) == y.value \in {badCell[k], "error checking"} <=> y.status = "bad"
<1>1. k \in {"relro", "nx", "pie", "pic", "bind_now", "rpath"}
  BY DEF badCell
<1>2. x \in possible(k)
  BY <1>1 DEF covered, StackKey
<1>3. CASE k = "relro"
  <2>1. badCell[k] = "No RELRO"
    BY <1>3 DEF badCell
  <2>2. /\ Shown(NA("N/A")) /\ Shown(Bad("No RELRO")) /\ Shown(OK("Full RELRO"))
        /\ Shown(Warn("Partial RELRO"))
    BY <2>1 DEF OK, Bad, Warn, Info, NA
  <2> HIDE DEF Shown
  <2>3. Shown(x)
    BY <1>2, <1>3, <2>2 DEF possible
  <2> QED BY <2>3 DEF Shown, Err, Bad
<1>4. CASE k = "nx"
  <2>1. badCell[k] = "NX disabled"
    BY <1>4 DEF badCell
  <2>2. /\ Shown(Warn("NX unknown (no GNU_STACK)")) /\ Shown(Bad("NX disabled"))
        /\ Shown(OK("NX enabled")) /\ Shown(Err)
    BY <2>1 DEF OK, Bad, Warn, Info, NA, Err
  <2> HIDE DEF Shown
  <2>3. Shown(x)
    BY <1>2, <1>4, <2>2 DEF possible
  <2> QED BY <2>3 DEF Shown, Err, Bad
<1>5. CASE k = "pie"
  <2>1. badCell[k] = "PIE disabled"
    BY <1>5 DEF badCell
  <2>2. /\ Shown(OK("Static PIE")) /\ Shown(OK("PIE enabled"))
        /\ Shown(Info("DSO (shared library)"))
        /\ Shown(Warn("REL (relocatable object)")) /\ Shown(Bad("PIE disabled"))
    BY <2>1 DEF OK, Bad, Warn, Info, NA
  <2> HIDE DEF Shown
  <2>3. Shown(x)
    BY <1>2, <1>5, <2>2 DEF possible
  <2> QED BY <2>3 DEF Shown, Err, Bad
<1>6. CASE k = "pic"
  <2>1. badCell[k] = "Text relocations (not PIC)"
    BY <1>6 DEF badCell
  <2>2. /\ Shown(NA("N/A")) /\ Shown(Bad("Text relocations (not PIC)"))
        /\ Shown(OK("PIC enabled (no text relocations)"))
    BY <2>1 DEF OK, Bad, Warn, Info, NA
  <2> HIDE DEF Shown
  <2>3. Shown(x)
    BY <1>2, <1>6, <2>2 DEF possible
  <2> QED BY <2>3 DEF Shown, Err, Bad
<1>7. CASE k = "bind_now"
  <2>1. badCell[k] = "Lazy binding"
    BY <1>7 DEF badCell
  <2>2. /\ Shown(OK("Bind now")) /\ Shown(Bad("Lazy binding"))
    BY <2>1 DEF OK, Bad, Warn, Info, NA
  <2> HIDE DEF Shown
  <2>3. Shown(x)
    BY <1>2, <1>7, <2>2 DEF possible
  <2> QED BY <2>3 DEF Shown, Err, Bad
<1>8. CASE k = "rpath"
  <2>1. badCell[k] = "RPATH (prohibited)"
    BY <1>8 DEF badCell
  <2>2. /\ Shown(OK("No RPATH")) /\ Shown(Bad("RPATH (prohibited)"))
    BY <2>1 DEF OK, Bad, Warn, Info, NA
  <2> HIDE DEF Shown
  <2>3. Shown(x)
    BY <1>2, <1>8, <2>2 DEF possible
  <2> QED BY <2>3 DEF Shown, Err, Bad
<1> QED BY <1>1, <1>3, <1>4, <1>5, <1>6, <1>7, <1>8

LEMMA CoveredCells ==
    ASSUME NEW k \in StackKey, NEW x \in covered(k)
    PROVE  x.value \in coveredCell <=> x.status = "good"
PROOF
<1> DEFINE Shown(y) == y.value \in coveredCell <=> y.status = "good"
<1>1. coveredCell = {"Canary found", "Retguard enabled", "PAC CFI enabled", "Covered by SP",
                     "Covered by Retguard", "Covered by PAC CFI"}
  BY DEF coveredCell, CoveredBy, StackKey
<1>2. \A j \in StackKey : Shown(OK(CoveredBy(j)))
  BY DEF coveredCell, OK
<1>3. /\ Shown(OK("Canary found")) /\ Shown(Bad("No canary found"))
      /\ Shown(NA("N/A (not AArch64)"))
      /\ Shown(OK("Retguard enabled")) /\ Shown(Bad("No retguard"))
      /\ Shown(OK("PAC CFI enabled")) /\ Shown(Bad("No PAC CFI"))
  BY <1>1 DEF OK, Bad, NA
<1>4. x \in possible(k) \/ \E j \in StackKey : x = OK(CoveredBy(j))
  BY DEF covered
<1> HIDE DEF Shown
<1>5. Shown(x)
  BY <1>2, <1>3, <1>4 DEF possible, StackKey
<1> QED BY <1>5 DEF Shown

\* The rows of the formats, and the count a compliance document shows.
LEMMA SomeCounted ==
    ASSUME NEW r
    PROVE  counted(r, "bad") > 0 <=> violates(r)
PROOF
<1> DEFINE S == {id \in RuleId : verdictsOf(r)[id] = "bad"}
<1>1. IsFiniteSet(RuleId)
  <2>1. RuleId = {"pie"} \cup {"stack_protector"} \cup {"relro"} \cup {"bind_now"} \cup {"nx"}
                     \cup {"stripped"} \cup {"no_rpath"}
    BY DEF RuleId
  <2> QED BY <2>1, FS_Singleton, FS_Union
<1>2. IsFiniteSet(S) /\ Cardinality(S) \in Nat
  BY <1>1, FS_Subset, FS_CardinalityType
<1>3. Cardinality(S) = 0 <=> S = {}
  BY <1>2, FS_EmptySet
<1>4. S # {} <=> violates(r)
  BY DEF verdictsOf, violates
<1>5. counted(r, "bad") = Cardinality(S)
  BY DEF counted
<1> HIDE DEF S
<1> QED BY <1>2, <1>3, <1>4, <1>5

LEMMA RowsRead ==
    ASSUME NEW r, NEW several
    PROVE  /\ rowFails("table", printedRow("table", r, several)) <=>
                  r.error # "" \/ failsByValues(valuesOf(r))
           /\ rowFails("json", printedRow("json", r, several)) <=>
                  r.error # "" \/ failsByStatuses(statusesOf(r))
           /\ rowFails("csv", printedRow("csv", r, several)) <=> failsByValues(valuesOf(r))
           /\ rowFails("xml", printedRow("xml", r, several)) <=> failsByStatuses(statusesOf(r))
           /\ rowFails("compliance", printedRow("compliance", r, several)) <=>
                  r.error # "" \/ counted(r, "bad") > 0
           /\ rowFails("compliance-json", printedRow("compliance-json", r, several)) <=>
                  counted(r, "bad") > 0
PROOF
<1>1. rowFails("table", tableRow(r, several)) <=> r.error # "" \/ failsByValues(valuesOf(r))
  <2>1. CASE r.error # ""
    <3>1. "error" \in DOMAIN tableRow(r, several)
      BY <2>1 DEF tableRow
    <3> QED BY <2>1, <3>1 DEF rowFails
  <2>2. CASE r.error = ""
    <3>1. /\ "error" \notin DOMAIN tableRow(r, several)
          /\ tableRow(r, several).values = valuesOf(r)
      BY <2>2 DEF tableRow
    <3> QED BY <2>2, <3>1 DEF rowFails
  <2> QED BY <2>1, <2>2
<1>2. rowFails("compliance", complianceRow(r)) <=> r.error # "" \/ counted(r, "bad") > 0
  <2>1. CASE r.error # ""
    <3>1. "error" \in DOMAIN complianceRow(r)
      BY <2>1 DEF complianceRow
    <3> QED BY <2>1, <3>1 DEF rowFails
  <2>2. CASE r.error = ""
    <3>1. /\ "error" \notin DOMAIN complianceRow(r)
          /\ complianceRow(r).fail = counted(r, "bad")
      BY <2>2 DEF complianceRow
    <3> QED BY <2>2, <3>1 DEF rowFails
  <2> QED BY <2>1, <2>2
<1>3. /\ csvRow(r).values = valuesOf(r) /\ xmlRow(r).statuses = statusesOf(r)
      /\ complianceJSONRow(r).fail = counted(r, "bad")
  BY DEF csvRow, xmlRow, complianceJSONRow
<1> QED BY <1>1, <1>2, <1>3 DEF rowFails, printedRow

\* What a reader concludes from the columns is what the gates conclude.
LEMMA ReaderAgrees ==
    ASSUME NEW r \in Report, sound(r)
    PROVE  /\ fails(r) <=> failsByValues(valuesOf(r))
           /\ fails(r) <=> failsByStatuses(statusesOf(r))
           /\ r.error # "" => violates(r)
PROOF
<1> DEFINE c == r.checks
<1>1. /\ \A k \in CheckKey : valuesOf(r)[k] = c[k].value /\ statusesOf(r)[k] = c[k].status
      /\ StackKey \subseteq CheckKey
      /\ DOMAIN badCell = failKeys \ {"canary"} /\ DOMAIN badCell \subseteq CheckKey
  BY DEF valuesOf, statusesOf, StackKey, CheckKey, badCell, failKeys
<1>2. failsByStatuses(statusesOf(r)) <=>
         ~StackProtectionPassed(c) \/ \E k \in failKeys \ {"canary"} : c[k].status = "bad"
  BY <1>1 DEF failsByStatuses, StackProtectionPassed
<1>3. failsByValues(valuesOf(r)) <=>
         \/ \E k \in DOMAIN badCell : c[k].value \in {badCell[k], Err.value}
         \/ \A k \in StackKey : c[k].value \notin coveredCell
  BY <1>1 DEF failsByValues
<1>4. fails(r) <=> \/ r.error # "" \/ ~StackProtectionPassed(c)
                   \/ \E k \in failKeys \ {"canary"} : c[k].status = "bad"
  BY DEF fails, failKeys
<1>5. CASE r.error = ""
  <2>1. \A k \in CheckKey : c[k] \in covered(k)
    BY <1>5 DEF sound
  <2> HIDE DEF c
  <2>2. \A k \in DOMAIN badCell : c[k].value \in {badCell[k], Err.value} <=> c[k].status = "bad"
    BY <1>1, <2>1, BadCells
  <2>3. \A k \in StackKey : c[k].value \in coveredCell <=> c[k].status = "good"
    BY <1>1, <2>1, CoveredCells
  <2> QED BY <1>1, <1>2, <1>3, <1>4, <1>5, <2>2, <2>3 DEF StackProtectionPassed
<1>6. CASE r.error # ""
  <2>1. \A k \in CheckKey : c[k] = Err
    BY <1>6 DEF sound, initialChecks
  <2>2. Err.value = "error checking" /\ Err.status = "bad"
    BY DEF Err, Bad
  <2>3. "pie" \in CheckKey /\ "pie" \in DOMAIN badCell
    BY DEF CheckKey, badCell
  <2>4. violates(r)
    BY <2>1, <2>2, <2>3 DEF violates, RuleId, ruleVerdict, pieRule
  <2> HIDE DEF c
  <2>5. c["pie"].value \in {badCell["pie"], Err.value} /\ c["pie"].status = "bad"
    BY <2>1, <2>2, <2>3
  <2> QED BY <1>1, <1>2, <1>3, <1>4, <1>6, <2>3, <2>4, <2>5
<1> QED BY <1>5, <1>6

(***************************************************************************)
(* Whatever the format, and whatever other processes do to the files, row i  *)
(* of the printed document alone tells whether target i fails its gate.     *)
(***************************************************************************)
THEOREM PrintedVerdictTheorem == Spec => []PrintedVerdict
PROOF
<1>1. ASSUME ITypes, IReports, NEW fmt \in Format, NEW i \in DOMAIN reports
      PROVE  rowFails(fmt, printed(fmt, reports)[i]) <=> gateFails(fmt, <<reports[i]>>)
  <2> DEFINE r == reports[i]
             several == Len(reports) > 1
  <2>1. r \in Report /\ sound(r)
    BY <1>1 DEF ITypes, TypeOK, RunTypes, IReports
  <2>2. printed(fmt, reports)[i] = printedRow(fmt, r, several)
    BY <1>1 DEF printed
  <2>3. gateFails(fmt, <<r>>) <=> IF fmt \in complianceFormat THEN violates(r) ELSE fails(r)
    <3>1. DOMAIN <<r>> = {1} /\ <<r>>[1] = r
      OBVIOUS
    <3> HIDE DEF r
    <3> QED BY <3>1 DEF gateFails
  <2>4. r.error # "" => fails(r)
    BY DEF fails
  <2> HIDE DEF r, several
  <2>5. rowFails(fmt, printedRow(fmt, r, several)) <=>
           IF fmt \in complianceFormat THEN violates(r) ELSE fails(r)
    BY <2>1, <2>4, RowsRead, ReaderAgrees, SomeCounted DEF Format, complianceFormat
  <2> QED BY <2>2, <2>3, <2>5 DEF r
<1>2. ITypes /\ IReports => PrintedVerdict
  BY <1>1 DEF PrintedVerdict
<1> QED BY <1>2, ReportsInvariant, PTL

-----------------------------------------------------------------------------
(***************************************************************************)
(* Generated files.                                                         *)
(***************************************************************************)
LEMMA LayoutFields ==
    ASSUME NEW l \in Layout
    PROVE  /\ l.Pie \in BOOLEAN /\ l.ETDyn \in BOOLEAN /\ l.Interp \in BOOLEAN
           /\ l.GnuStackX \in BOOLEAN /\ l.NoStack \in BOOLEAN /\ l.Relro \in BOOLEAN
           /\ l.BindNow \in BOOLEAN /\ l.Flags1Pie \in BOOLEAN /\ l.FlagsBind \in BOOLEAN
           /\ l.TextRel \in BOOLEAN /\ l.FlagsTextRel \in BOOLEAN
           /\ l.Retguard \in BOOLEAN /\ l.PacIBSP \in BOOLEAN /\ l.Machine \in Machine
  BY DEF Layout

LEMMA OnMember == \A f \in BOOLEAN : \A x : \A y : y \in on(f, x) <=> f /\ y = x
  BY DEF on

\* What the fields of a layout put into the file.
LEMMA BuiltParts ==
    ASSUME NEW l \in Layout
    PROVE  LET h == Build(l).hdr
               b == Build(l).body
           IN  /\ parses(Build(l)) /\ Build(l).readable
               /\ h.machine = l.Machine /\ h.type = (IF l.Pie \/ l.ETDyn THEN "DYN" ELSE "EXEC")
               /\ h.segs = segments(l) /\ h.sections = {}
               /\ b.dyn = dynamicEntries(l) /\ b.rpath = l.Rpath
               /\ b.dynsym = typed(l.DynSyms, "FUNC") \cup typed(l.ObjectSyms, "OBJECT")
               /\ b.symtab = {} /\ b.trailing = {} /\ b.pac = on(l.PacIBSP, "other")
  BY DEF Build, parses

LEMMA BuiltSegments ==
    ASSUME NEW l \in Layout
    PROVE  /\ "LOAD" \in segments(l) /\ "CROWD" \notin segments(l)
           /\ "INTERP" \in segments(l) <=> l.Interp \/ l.Pie
           /\ "DYNAMIC" \in segments(l) <=> hasDyn(l)
           /\ "GNU_RELRO" \in segments(l) <=> l.Relro
           /\ "RETGUARD" \in segments(l) <=> l.Retguard
           /\ "GNU_STACK_X" \in segments(l) <=> ~l.NoStack /\ l.GnuStackX
           /\ "GNU_STACK" \in segments(l) <=> ~l.NoStack /\ ~l.GnuStackX
PROOF
<1>1. hasDyn(l) \in BOOLEAN /\ (~l.NoStack) \in BOOLEAN
  BY DEF hasDyn
<1>2. \A y : y \in segments(l) <=>
         \/ y = "LOAD"
         \/ (l.Interp \/ l.Pie) /\ y = "INTERP"
         \/ hasDyn(l) /\ y = "DYNAMIC"
         \/ l.Relro /\ y = "GNU_RELRO"
         \/ l.Retguard /\ y = "RETGUARD"
         \/ ~l.NoStack /\ y = (IF l.GnuStackX THEN "GNU_STACK_X" ELSE "GNU_STACK")
  BY <1>1, LayoutFields, OnMember DEF segments
<1> QED
  BY <1>2

LEMMA BuiltEntries ==
    ASSUME NEW l \in Layout
    PROVE  /\ "STRTAB" \in dynamicEntries(l) <=> hasSymbols(l)
           /\ "SYMTAB" \in dynamicEntries(l) <=> hasSymbols(l)
           /\ "BIND_NOW" \in dynamicEntries(l) <=> l.BindNow
           /\ "DF_BIND_NOW" \in dynamicEntries(l) <=> l.FlagsBind
           /\ "DF_1_NOW" \notin dynamicEntries(l)
           /\ "TEXTREL" \in dynamicEntries(l) <=> l.TextRel
           /\ "DF_TEXTREL" \in dynamicEntries(l) <=> l.FlagsTextRel
           /\ "DF_1_PIE" \in dynamicEntries(l) <=> l.Flags1Pie
PROOF
<1>1. \A y : y \in dynamicEntries(l) <=>
         \/ hasSymbols(l) /\ y \in {"STRTAB", "SYMTAB"}
         \/ l.BindNow /\ y = "BIND_NOW"
         \/ l.TextRel /\ y = "TEXTREL"
         \/ l.FlagsBind /\ y = "DF_BIND_NOW"
         \/ l.FlagsTextRel /\ y = "DF_TEXTREL"
         \/ l.Flags1Pie /\ y = "DF_1_PIE"
  BY LayoutFields, OnMember DEF dynamicEntries
<1> QED
  BY <1>1

\* The checks read every dynamic entry, and the strings when there are symbols.
LEMMA BuiltViews ==
    ASSUME NEW l \in Layout
    PROVE  LET h == Build(l).hdr
               b == Build(l).body
           IN  /\ parsePTDynamic(h, b) = dynamicEntries(l) /\ ElfDynValue(h, b) = {}
               /\ dynamicStringsFor(h, b, b.rpath) = IF hasSymbols(l) THEN l.Rpath ELSE {}
               /\ (\E n \in allSymbolNames(h, b) : isCanarySymbol(n))
                     <=> \E n \in l.DynSyms : isCanarySymbol(n)
PROOF
<1> DEFINE h == Build(l).hdr
           b == Build(l).body
<1>1. /\ h.segs = segments(l) /\ h.sections = {} /\ b.dyn = dynamicEntries(l)
      /\ b.rpath = l.Rpath /\ b.trailing = {}
      /\ b.dynsym = typed(l.DynSyms, "FUNC") \cup typed(l.ObjectSyms, "OBJECT")
  BY BuiltParts
<1> HIDE DEF h, b
<1>2. parsePTDynamic(h, b) = dynamicEntries(l)
  BY <1>1, BuiltSegments DEF parsePTDynamic, hasDyn
<1>3. dynamicStrings(h, b) <=> hasSymbols(l)
  BY <1>1, <1>2, BuiltSegments, BuiltEntries DEF dynamicStrings
<1>4. ElfDynValue(h, b) = {} /\ ElfDynString(h, b, b.rpath) = {}
  BY <1>1 DEF ElfDynValue, ElfDynString
<1>5. dynamicStringsFor(h, b, b.rpath) = IF hasSymbols(l) THEN l.Rpath ELSE {}
  BY <1>1, <1>3, <1>4 DEF dynamicStringsFor, dynStringPH
<1>6. \A x \in b.dynsym : x.type = "FUNC" => x.name \in l.DynSyms
  BY <1>1 DEF typed
<1>7. \A y \in l.DynSyms : \E x \in b.dynsym : x.type = "FUNC" /\ x.name = y
  <2> TAKE y \in l.DynSyms
  <2>1. [name |-> y, type |-> "FUNC"] \in b.dynsym
    BY <1>1 DEF typed
  <2> QED BY <2>1
<1>8. ElfSymbols(h, b) = {} /\ ElfDynamicSymbols(h, b) = {}
  BY <1>1 DEF ElfSymbols, ElfDynamicSymbols
<1>9. allSymbolNames(h, b) = phdrSymbolNames(h, b)
  BY <1>8 DEF allSymbolNames
<1>10. phdrSymbolNames(h, b) = l.DynSyms
  <2>1. CASE hasSymbols(l)
    <3>1. dynamicStrings(h, b) /\ "SYMTAB" \in parsePTDynamic(h, b)
      BY <1>2, <1>3, <2>1, BuiltEntries
    <3>2. phdrSymbolNames(h, b) = {s.name : s \in {t \in b.dynsym \cup b.trailing : t.type = "FUNC"}}
      BY <3>1 DEF phdrSymbolNames
    <3> QED BY <1>1, <1>6, <1>7, <3>2
  <2>2. CASE ~hasSymbols(l)
    BY <1>3, <2>2 DEF phdrSymbolNames, hasSymbols
  <2> QED BY <2>1, <2>2
<1> QED
  BY <1>2, <1>4, <1>5, <1>9, <1>10 DEF h, b

LEMMA BuiltStack ==
    ASSUME NEW l \in Layout
    PROVE  StackProtectionPassed(verdicts(Build(l).hdr, Build(l).body)) <=> asksStack(l)
PROOF
<1> DEFINE h == Build(l).hdr
           b == Build(l).body
           v == verdicts(h, b)
<1>1. /\ h.segs = segments(l) /\ h.sections = {} /\ h.machine = l.Machine
      /\ b.pac = on(l.PacIBSP, "other")
  BY BuiltParts
<1>2. /\ v["canary"] = Canary(h, b) /\ v["ohos_retguard"] = OhosRetguard(h, b)
      /\ v["pac_cfi"] = PacCFI(h, b)
  BY DEF verdicts, verdict, CheckKey
<1> HIDE DEF v
<1>3. Canary(h, b).status = "good" <=> \E n \in l.DynSyms : isCanarySymbol(n)
  BY BuiltViews DEF Canary, OK, Bad
<1> HIDE DEF h, b
<1>4. OhosRetguard(h, b).status = "good" <=> l.Machine = "AARCH64" /\ l.Retguard
  BY <1>1, BuiltSegments DEF OhosRetguard, OK, Bad, NA
<1>5. b.pac \cap {"text", "other"} # {} <=> l.PacIBSP
  BY <1>1, LayoutFields, OnMember
<1>6. PacCFI(h, b).status = "good" <=> l.Machine = "AARCH64" /\ l.PacIBSP
  <2>1. ".text" \notin h.sections /\ "LOAD" \in h.segs
    BY <1>1, BuiltSegments
  <2>2. CASE h.machine = "AARCH64"
    BY <1>1, <1>5, <2>1, <2>2 DEF PacCFI, OK, Bad, NA
  <2>3. CASE h.machine # "AARCH64"
    BY <1>1, <2>3 DEF PacCFI, OK, Bad, NA
  <2> QED BY <2>2, <2>3
<1>7. StackProtectionPassed(v) <=> \/ v["canary"].status = "good"
                                   \/ v["ohos_retguard"].status = "good"
                                   \/ v["pac_cfi"].status = "good"
  BY DEF StackProtectionPassed, StackKey
<1> QED
  BY <1>2, <1>3, <1>4, <1>6, <1>7 DEF v, h, b, asksStack

LEMMA BuiltChecks ==
    ASSUME NEW l \in Layout
    PROVE  LET h == Build(l).hdr
               b == Build(l).body
           IN  /\ RELRO(h, b).value = asksRELRO(l) /\ PIE(h, b).value = asksPIE(l)
               /\ RELRO(h, b).status = "bad" <=> ~l.Relro
               /\ PIE(h, b).status = "bad" <=> ~l.Pie /\ ~l.ETDyn
               /\ asksPIE(l) = "PIE disabled" <=> ~l.Pie /\ ~l.ETDyn
               /\ NX(h, b).status = "bad" <=> ~l.NoStack /\ l.GnuStackX
               /\ PIC(h, b).status = "bad" <=> (l.Pie \/ l.ETDyn) /\ (l.TextRel \/ l.FlagsTextRel)
               /\ BindNow(h, b).status = "bad" <=> ~l.BindNow /\ ~l.FlagsBind
               /\ RPATH(h, b).status = "bad" <=> hasSymbols(l) /\ l.Rpath # {}
PROOF
<1> DEFINE h == Build(l).hdr
           b == Build(l).body
<1>1. h.segs = segments(l) /\ h.type = (IF l.Pie \/ l.ETDyn THEN "DYN" ELSE "EXEC")
  BY BuiltParts
<1>2. /\ parsePTDynamic(h, b) = dynamicEntries(l) /\ ElfDynValue(h, b) = {}
      /\ dynamicStringsFor(h, b, b.rpath) = IF hasSymbols(l) THEN l.Rpath ELSE {}
  BY BuiltViews
<1> HIDE DEF h, b
<1>3. bindNowOf(h, b) <=> l.BindNow \/ l.FlagsBind
  BY <1>2, BuiltEntries DEF bindNowOf, hasDynFlag
<1>4. RELRO(h, b).value = asksRELRO(l) /\ (RELRO(h, b).status = "bad" <=> ~l.Relro)
  BY <1>1, <1>3, BuiltSegments DEF RELRO, asksRELRO, OK, Bad, Warn, NA
<1>5. /\ hasDynFlag(h, b, "DF_1_PIE") <=> l.Flags1Pie
      /\ "INTERP" \in h.segs <=> l.Interp \/ l.Pie
  BY <1>1, <1>2, BuiltEntries, BuiltSegments DEF hasDynFlag
<1>6. PIE(h, b).value = asksPIE(l) /\ (PIE(h, b).status = "bad" <=> ~l.Pie /\ ~l.ETDyn)
  BY <1>1, <1>5 DEF PIE, asksPIE, OK, Bad, Warn, Info
<1>7. asksPIE(l) = "PIE disabled" <=> ~l.Pie /\ ~l.ETDyn
  BY DEF asksPIE
<1>8. NX(h, b).status = "bad" <=> ~l.NoStack /\ l.GnuStackX
  BY <1>1, BuiltSegments DEF NX, OK, Bad, Warn
<1>9. PIC(h, b).status = "bad" <=> (l.Pie \/ l.ETDyn) /\ (l.TextRel \/ l.FlagsTextRel)
  <2>1. {"TEXTREL", "DF_TEXTREL"} \cap parsePTDynamic(h, b) # {} <=> l.TextRel \/ l.FlagsTextRel
    BY <1>2, BuiltEntries
  <2> QED BY <1>1, <2>1 DEF PIC, OK, Bad, NA
<1>10. BindNow(h, b).status = "bad" <=> ~l.BindNow /\ ~l.FlagsBind
  BY <1>3 DEF BindNow, OK, Bad
<1>11. RPATH(h, b).status = "bad" <=> hasSymbols(l) /\ l.Rpath # {}
  BY <1>2 DEF RPATH, OK, Bad
<1> QED
  BY <1>4, <1>6, <1>7, <1>8, <1>9, <1>10, <1>11 DEF h, b
\* The gate of the table formats on a generated file.
LEMMA BuiltGate ==
    ASSUME NEW l \in Layout, Build(l) \in Image, NEW p
    PROVE  /\ reportOf(p, Build(l)).checks["relro"].value = asksRELRO(l)
           /\ reportOf(p, Build(l)).checks["pie"].value = asksPIE(l)
           /\ fails(reportOf(p, Build(l))) <=>
                 ~(asksHardened(l) /\ (hasSymbols(l) => l.Rpath = {}))
PROOF
<1> DEFINE h == Build(l).hdr
           b == Build(l).body
           c == linked(h, b)
           r == reportOf(p, Build(l))
<1>1. r.error = "" /\ r.checks = c
  BY BuiltParts, ReportEntries
<1>2. /\ c["relro"] = RELRO(h, b) /\ c["nx"] = NX(h, b) /\ c["pie"] = PIE(h, b)
      /\ c["pic"] = PIC(h, b) /\ c["bind_now"] = BindNow(h, b) /\ c["rpath"] = RPATH(h, b)
  <2>1. \A k \in {"relro", "nx", "pie", "pic", "bind_now", "rpath"} : c[k] = verdict(k, h, b)
    BY LinkedEntries DEF CheckKey, StackKey
  <2> QED BY <2>1 DEF verdict
<1>3. StackProtectionPassed(c) <=> asksStack(l)
  BY LinkedEntries, BuiltStack
<1>4. /\ RELRO(h, b).value = asksRELRO(l) /\ PIE(h, b).value = asksPIE(l)
      /\ RELRO(h, b).status = "bad" <=> ~l.Relro
      /\ PIE(h, b).status = "bad" <=> ~l.Pie /\ ~l.ETDyn
      /\ asksPIE(l) = "PIE disabled" <=> ~l.Pie /\ ~l.ETDyn
      /\ NX(h, b).status = "bad" <=> ~l.NoStack /\ l.GnuStackX
      /\ PIC(h, b).status = "bad" <=> (l.Pie \/ l.ETDyn) /\ (l.TextRel \/ l.FlagsTextRel)
      /\ BindNow(h, b).status = "bad" <=> ~l.BindNow /\ ~l.FlagsBind
      /\ RPATH(h, b).status = "bad" <=> hasSymbols(l) /\ l.Rpath # {}
  BY BuiltChecks
<1> HIDE DEF r, c, h, b
<1>5. fails(r) <=> \/ ~StackProtectionPassed(c)
                  \/ c["relro"].status = "bad" \/ c["nx"].status = "bad"
                  \/ c["pie"].status = "bad" \/ c["pic"].status = "bad"
                  \/ c["bind_now"].status = "bad" \/ c["rpath"].status = "bad"
  BY <1>1 DEF fails, failKeys
<1>6. fails(r) <=> ~(asksHardened(l) /\ (hasSymbols(l) => l.Rpath = {}))
  BY <1>2, <1>3, <1>4, <1>5 DEF asksHardened
<1> QED
  BY <1>1, <1>2, <1>4, <1>6 DEF r

(***************************************************************************)
(* The inductive invariant: there is one image, and every target has been    *)
(* found to hold it.                                                        *)
(***************************************************************************)
IGenerated ==
    /\ layout \in Layout /\ job.cmd = "file" /\ job.format \notin complianceFormat
    /\ \A i \in Inode : disk[i] = Build(layout)
    /\ \A i \in DOMAIN job.rest : exists(job.rest[i])
    /\ phase # "walk" /\ (phase \in {"check", "parse", "run", "gate"} => paths = job.rest)
    /\ \A i \in DOMAIN seen : seen[i] = Build(layout) /\ seen[i] # NoImage

LEMMA GeneratedStart == GeneratedInit => IGenerated
PROOF
<1> SUFFICES ASSUME GeneratedInit PROVE IGenerated
  OBVIOUS
<1>1. phase = "start" /\ seen = <<>> /\ DOMAIN seen = {}
  BY DEF GeneratedInit, Init
<1> QED BY <1>1 DEF GeneratedInit, IGenerated

LEMMA GeneratedNext ==
    ITypes /\ IGenerated /\ [scc /\ UNCHANGED layout]_<<vars, layout>> => IGenerated'
PROOF
<1> SUFFICES ASSUME ITypes, IGenerated, scc, UNCHANGED layout PROVE IGenerated'
  BY DEF IGenerated, vars, procVars, fsVars, exists
<1> USE DEF IGenerated
<1>a. UNCHANGED <<job, disk, files>>
  BY DEF scc, Usage, StartFile, ReadList, StartFails, StartDir, VisitDir, ReadDirFails, VisitFile,
         WalkDone, NoBinaries, OpenFails, Open, ParseFails, Parse, RunCheck, Return,
         PrintReports, PrintReportsFails, Gate, fsVars
<1>b. (\A i \in DOMAIN job.rest : exists(job.rest[i]))'
  BY <1>a DEF exists
<1>c. CheckTypes /\ RunTypes /\ FileTypes
  BY DEF ITypes, TypeOK
<1>1. CASE Usage \/ StartFile \/ NoBinaries
  BY <1>1, <1>a, <1>b DEF Usage, StartFile, NoBinaries, return
<1>2. CASE ReadList \/ StartFails \/ StartDir
  BY <1>2 DEF ReadList, StartFails, StartDir
<1>3. CASE VisitDir \/ ReadDirFails \/ VisitFile \/ WalkDone
  BY <1>3 DEF VisitDir, ReadDirFails, VisitFile, WalkDone, walking
<1>4. CASE ParseFails \/ Parse \/ RunCheck \/ Return \/ PrintReports \/ PrintReportsFails \/ Gate
  BY <1>4, <1>a, <1>b
  DEF ParseFails, Parse, RunCheck, Return, PrintReports, PrintReportsFails, Gate, return, printing
<1>5. ASSUME checking
      PROVE  /\ target \in Path /\ canOpen(target) /\ files[target] \in Inode
             /\ disk[files[target]] = Build(layout) /\ Build(layout) # NoImage
  <2>1. paths = job.rest /\ paths \in Seq(Path) /\ Len(reports) + 1 \in DOMAIN paths
    BY <1>5, <1>c DEF checking, RunTypes
  <2>2. target \in Path /\ exists(target)
    <3>1. paths[Len(reports) + 1] \in Path
      BY <2>1
    <3>2. \A i \in DOMAIN job.rest : exists(job.rest[i])
      OBVIOUS
    <3> QED BY <2>1, <3>1, <3>2 DEF target
  <2>3. files[target] \in Inode
    BY <1>c, <2>2 DEF FileTypes, exists
  <2>4. disk[files[target]] = Build(layout) /\ disk[files[target]] \in Content
    BY <1>c, <2>3 DEF FileTypes
  <2> QED BY <2>2, <2>3, <2>4, BuiltParts, ScanAssumption DEF canOpen
<1>6. CASE OpenFails
  BY <1>5, <1>6 DEF OpenFails
<1>7. CASE Open
  <2>1. seen' = Append(seen, Build(layout)) /\ Build(layout) # NoImage /\ seen \in Seq(Content \cup {NoImage})
    BY <1>5, <1>7, <1>c DEF Open, CheckTypes
  <2>2. \A i \in DOMAIN seen' : seen'[i] = Build(layout)
    BY <2>1
  <2>3. paths' = paths /\ phase' = "parse" /\ phase = "check"
    BY <1>7 DEF Open, checking
  <2> QED BY <1>a, <1>b, <2>1, <2>2, <2>3
<1> QED
  BY <1>1, <1>2, <1>3, <1>4, <1>6, <1>7 DEF scc

(***************************************************************************)
(* The report of a file built from any layout shows the RELRO and PIE class  *)
(* the layout asks for, and the scan exits with 0 exactly when the layout    *)
(* asks for every hardening (elfgen.Build against CheckFile).  Assumed: no   *)
(* patch in place.                                                          *)
(***************************************************************************)
THEOREM LayoutTheorem ==
    ASSUME ~InPlace
    PROVE  GeneratedSpec => []LayoutIsVisible
PROOF
<1>1. ASSUME ITypes, ISnapshot, IExit, IGenerated PROVE LayoutIsVisible
  <2> SUFFICES ASSUME reports # <<>>
               PROVE  /\ reports[1].checks["relro"].value = asksRELRO(layout)
                      /\ reports[1].checks["pie"].value = asksPIE(layout)
                      /\ exit \in {0, 2} =>
                            (exit = 0 <=> asksHardened(layout)
                                             /\ (hasSymbols(layout) => layout.Rpath = {}))
    BY DEF LayoutIsVisible
  <2>1. /\ reports \in Seq(Report) /\ Len(reports) <= Len(paths) /\ paths \in Seq(Path)
        /\ DOMAIN reports \subseteq DOMAIN seen /\ seen \in Seq(Content \cup {NoImage})
    BY <1>1 DEF ITypes, TypeOK, RunTypes, CheckTypes
  <2>2. ASSUME NEW i \in DOMAIN reports
        PROVE  reports[i] = reportOf(paths[i], Build(layout)) /\ Build(layout) \in Image
    <3>1. seen[i] = Build(layout) /\ seen[i] # NoImage /\ seen[i] \in Content
      BY <1>1, <2>1 DEF IGenerated
    <3> QED BY <1>1, <3>1, ScanAssumption DEF ISnapshot, ReportsOwed, owed
  <2>3. 1 \in DOMAIN reports /\ paths # <<>>
    BY <2>1
  <2>4. layout \in Layout /\ job.format \notin complianceFormat
    BY <1>1 DEF IGenerated
  <2>5. ASSUME NEW i \in DOMAIN reports
        PROVE  fails(reports[i]) <=> ~(asksHardened(layout)
                                          /\ (hasSymbols(layout) => layout.Rpath = {}))
    BY <2>2, <2>4, BuiltGate
  <2>6. gateFails(job.format, reports) <=> ~(asksHardened(layout)
                                                /\ (hasSymbols(layout) => layout.Rpath = {}))
    BY <2>3, <2>4, <2>5 DEF gateFails
  <2>7. exit = 0 => ~gateFails(job.format, reports)
    BY <1>1, <2>3 DEF IExit
  <2>8. exit = 2 => gateFails(job.format, reports)
    BY <1>1 DEF IExit
  <2>9. /\ reports[1].checks["relro"].value = asksRELRO(layout)
        /\ reports[1].checks["pie"].value = asksPIE(layout)
    BY <2>2, <2>3, <2>4, BuiltGate
  <2> QED BY <2>6, <2>7, <2>8, <2>9
<1>2. ITypes /\ ISnapshot /\ IExit /\ IGenerated => LayoutIsVisible
  BY <1>1
<1>3. GeneratedInit => Init
  BY DEF GeneratedInit
<1>4. [scc /\ UNCHANGED layout]_<<vars, layout>> => [Next]_vars
  BY DEF Next
<1> QED
  BY <1>2, <1>3, <1>4, TypesInit, TypesNext, SnapshotInit, SnapshotNext, ExitInit, ExitNext,
     GeneratedStart, GeneratedNext, PTL
  DEF GeneratedSpec
=============================================================================
