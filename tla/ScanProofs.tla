------------------------------ MODULE ScanProofs ----------------------------
(***************************************************************************)
(* Theorems about Scan, for every set of paths, directory tree, set of       *)
(* images and list of commands.                                             *)
(***************************************************************************)
EXTENDS Scan, SequenceTheorems, TLAPS

(***************************************************************************)
(* Facts about the operators of Checks that the proofs about Scan rest on:   *)
(* what each statement of CheckFile stores, and what the thirteen of them    *)
(* amount to when they all read one image.                                   *)
(***************************************************************************)

LEMMA Constructors ==
    ASSUME NEW v \in Value
    PROVE  /\ OK(v) \in Result /\ Bad(v) \in Result /\ Warn(v) \in Result
           /\ Info(v) \in Result /\ NA(v) \in Result
  BY DEF OK, Bad, Warn, Info, NA, Result, Status

-----------------------------------------------------------------------------
(***************************************************************************)
(* The results each check can return, for any header and body: the cases of  *)
(* each are exhaustive.                                                     *)
(***************************************************************************)
possible(k) ==
    CASE k = "relro" -> {NA("N/A"), Bad("No RELRO"), OK("Full RELRO"), Warn("Partial RELRO")}
      [] k = "canary" -> {OK("Canary found"), Bad("No canary found")}
      [] k = "ohos_retguard" -> {NA("N/A (not AArch64)"), OK("Retguard enabled"), Bad("No retguard")}
      [] k = "pac_cfi" -> {NA("N/A (not AArch64)"), OK("PAC CFI enabled"), Bad("No PAC CFI")}
      [] k = "nx" -> {Warn("NX unknown (no GNU_STACK)"), Bad("NX disabled"), OK("NX enabled"),
                      Err}
      [] k = "pie" -> {OK("Static PIE"), OK("PIE enabled"), Info("DSO (shared library)"),
                       Warn("REL (relocatable object)"), Bad("PIE disabled")}
      [] k = "pic" -> {NA("N/A"), Bad("Text relocations (not PIC)"),
                       OK("PIC enabled (no text relocations)")}
      [] k = "bind_now" -> {OK("Bind now"), Bad("Lazy binding")}
      [] k = "rpath" -> {OK("No RPATH"), Bad("RPATH (prohibited)")}
      [] k = "runpath" -> {OK("No RUNPATH"), Bad("RUNPATH"), Warn("RUNPATH"), Info("RUNPATH")}
      [] k = "symbols" -> {Bad("symbols"), OK("No symbols (stripped)")}
      [] k = "fortify" -> {NA("N/A"), OK("Fortified calls found"), Info("No fortified calls"),
                           OK("Yes"), Warn("No"), Info("No fortifiable calls")}
      [] k \in {"fortified", "fortifiable"} -> {NA("N/A")} \cup
                           {Info(v) : v \in {"0", "1", "2", "3", "4 or more"}}

LEMMA PossibleIsResult ==
    ASSUME NEW k \in CheckKey
    PROVE  possible(k) \subseteq Result
PROOF
<1>1. CASE k \in {"relro", "canary", "ohos_retguard", "pac_cfi", "nx"}
  BY <1>1, Constructors DEF possible, Value, Err
<1>2. CASE k \in {"pie", "pic", "bind_now", "rpath"}
  BY <1>2, Constructors DEF possible, Value
<1>3. CASE k \in {"runpath", "symbols", "fortify"}
  BY <1>3, Constructors DEF possible, Value
<1>4. CASE k \in {"fortified", "fortifiable"}
  <2>1. \A v \in {"0", "1", "2", "3", "4 or more"} : Info(v) \in Result
    BY Constructors DEF Value
  <2>2. NA("N/A") \in Result
    BY Constructors DEF Value
  <2>3. possible(k) = {NA("N/A")} \cup {Info(v) : v \in {"0", "1", "2", "3", "4 or more"}}
    BY <1>4 DEF possible
  <2> QED BY <2>1, <2>2, <2>3
<1> QED
  BY <1>1, <1>2, <1>3, <1>4 DEF CheckKey

LEMMA RelroPossible ==
    \A h, b : RELRO(h, b) \in possible("relro")
PROOF
<1> SUFFICES ASSUME NEW h, NEW b PROVE RELRO(h, b) \in possible("relro")
  OBVIOUS
<1>1. CASE bindNowOf(h, b)
  BY <1>1 DEF RELRO, possible
<1>2. CASE ~bindNowOf(h, b)
  BY <1>2 DEF RELRO, possible
<1> QED BY <1>1, <1>2

LEMMA StackPossible ==
    \A h, b : /\ Canary(h, b) \in possible("canary")
              /\ OhosRetguard(h, b) \in possible("ohos_retguard")
              /\ PacCFI(h, b) \in possible("pac_cfi")
PROOF
<1> SUFFICES ASSUME NEW h, NEW b
             PROVE  /\ Canary(h, b) \in possible("canary")
                    /\ OhosRetguard(h, b) \in possible("ohos_retguard")
                    /\ PacCFI(h, b) \in possible("pac_cfi")
  OBVIOUS
<1>1. Canary(h, b) = OK("Canary found") \/ Canary(h, b) = Bad("No canary found")
  BY Zenon DEF Canary
<1>2. OhosRetguard(h, b) \in possible("ohos_retguard")
  BY DEF OhosRetguard, possible
<1>3. PacCFI(h, b) \in possible("pac_cfi")
  BY DEF PacCFI, possible
<1> QED BY <1>1, <1>2, <1>3 DEF possible

LEMMA LayoutPossible ==
    ASSUME NEW h \in Header, NEW b \in Body
    PROVE  /\ NX(h, b) \in possible("nx")
           /\ PIE(h, b) \in possible("pie")
           /\ PIC(h, b) \in possible("pic")
           /\ BindNow(h, b) \in possible("bind_now")
           /\ RPATH(h, b) \in possible("rpath")
           /\ Symbols(h, b) \in possible("symbols")
PROOF
<1>1. NX(h, b) \in possible("nx")
  <2>1. CASE "CROWD" \in h.segs
    BY <2>1 DEF NX, possible
  <2>2. CASE "CROWD" \notin h.segs
    BY <2>2 DEF NX, possible
  <2> QED BY <2>1, <2>2
<1>2. PIE(h, b) \in possible("pie")
  BY DEF PIE, possible, Header, FileType
<1>3. PIC(h, b) \in possible("pic")
  BY DEF PIC, possible
<1>4. BindNow(h, b) \in possible("bind_now")
  BY DEF BindNow, possible
<1>5. RPATH(h, b) \in possible("rpath")
  BY DEF RPATH, possible
<1>6. Symbols(h, b) \in possible("symbols")
  BY DEF Symbols, possible
<1> QED
  BY <1>1, <1>2, <1>3, <1>4, <1>5, <1>6

LEMMA RunpathPossible ==
    ASSUME NEW h \in Header, NEW b \in Body
    PROVE  RUNPATH(h, b) \in possible("runpath")
PROOF
<1> DEFINE entries == dynamicStringsFor(h, b, b.runpath)
           risks == {EntryRisk[e] : e \in entries}
<1>1. entries \subseteq RunEntry
  BY DEF dynamicStringsFor, ElfDynString, dynStringPH, Body
<1>2. risks \subseteq {rpSafe, rpWarn, rpInsecure}
  BY <1>1, RiskAssumption
<1>3. RUNPATH(h, b) =
        CASE risks = {} -> OK("No RUNPATH")
          [] rpInsecure \in risks -> Bad("RUNPATH")
          [] rpWarn \in risks /\ rpInsecure \notin risks -> Warn("RUNPATH")
          [] risks = {rpSafe} -> Info("RUNPATH")
  BY DEF RUNPATH
<1> HIDE DEF risks
<1>4. \/ risks = {}
      \/ rpInsecure \in risks
      \/ rpWarn \in risks /\ rpInsecure \notin risks
      \/ risks = {rpSafe}
  BY <1>2
<1>5. \/ RUNPATH(h, b) = OK("No RUNPATH") \/ RUNPATH(h, b) = Bad("RUNPATH")
      \/ RUNPATH(h, b) = Warn("RUNPATH") \/ RUNPATH(h, b) = Info("RUNPATH")
  BY <1>3, <1>4
<1> QED
  BY <1>5 DEF possible

LEMMA FortifyPossible ==
    \A h, b, libc :
        /\ Fortify(h, b, libc).fortify \in possible("fortify")
        /\ Fortify(h, b, libc).fortified \in possible("fortified")
        /\ Fortify(h, b, libc).fortifiable \in possible("fortifiable")
PROOF
<1> SUFFICES ASSUME NEW h, NEW b, NEW libc
             PROVE  /\ Fortify(h, b, libc).fortify \in possible("fortify")
                    /\ Fortify(h, b, libc).fortified \in possible("fortified")
                    /\ Fortify(h, b, libc).fortifiable \in possible("fortifiable")
  OBVIOUS
<1>1. \A n : countValue(n) \in {"0", "1", "2", "3", "4 or more"}
  BY DEF countValue
<1>2. Fortify(h, b, libc).fortify \in possible("fortify")
  BY DEF Fortify, possible
<1>3. Fortify(h, b, libc).fortified \in possible("fortified")
  BY <1>1 DEF Fortify, possible
<1>4. Fortify(h, b, libc).fortifiable \in possible("fortifiable")
  BY <1>1 DEF Fortify, possible
<1> QED
  BY <1>2, <1>3, <1>4

(***************************************************************************)
(* No check fails to yield a result, whatever it reads.                      *)
(***************************************************************************)
LEMMA VerdictPossible ==
    ASSUME NEW h \in Header, NEW b \in Body, NEW k \in CheckKey
    PROVE  verdict(k, h, b) \in possible(k)
  BY RelroPossible, StackPossible, LayoutPossible, RunpathPossible, FortifyPossible
  DEF verdict, CheckKey

-----------------------------------------------------------------------------
(***************************************************************************)
(* linkStackProtection keeps a table a table, touches only the three stack   *)
(* keys, and depends only on them; afterwards all three pass or none does.   *)
(***************************************************************************)
LEMMA LinkTable ==
    ASSUME NEW c \in CheckTable
    PROVE  linkStackProtection(c) \in CheckTable
PROOF
<1>1. OK(CoveredBy(stackWinner(c))) \in Result
  BY Constructors DEF CoveredBy, stackWinner, Value
<1> QED
  BY <1>1 DEF linkStackProtection, CheckTable

LEMMA LinkEntry ==
    ASSUME NEW c \in CheckTable, NEW k \in CheckKey
    PROVE  \/ linkStackProtection(c)[k] = c[k]
           \/ k \in StackKey /\ linkStackProtection(c)[k] = OK(CoveredBy(stackWinner(c)))
PROOF
<1>1. DOMAIN c = CheckKey
  BY DEF CheckTable
<1>2. CASE k \notin StackKey
  BY <1>1, <1>2 DEF linkStackProtection
<1>3. CASE k \in StackKey /\ StackProtectionPassed(c)
  BY <1>1, <1>3 DEF linkStackProtection
<1>4. CASE k \in StackKey /\ ~StackProtectionPassed(c)
  BY <1>1, <1>4 DEF linkStackProtection
<1> QED BY <1>2, <1>3, <1>4

LEMMA LinkAgrees ==
    ASSUME NEW c \in CheckTable, NEW k \in StackKey, NEW l \in StackKey
    PROVE  linkStackProtection(c)[k].status = "good"
              <=> linkStackProtection(c)[l].status = "good"
PROOF
<1>1. StackKey \subseteq CheckKey /\ DOMAIN c = CheckKey
  BY DEF StackKey, CheckKey, CheckTable
<1>2. CASE StackProtectionPassed(c)
  <2>1. \A j \in StackKey : linkStackProtection(c)[j].status = "good"
    BY <1>1, <1>2 DEF linkStackProtection, OK
  <2> QED BY <2>1
<1>3. CASE ~StackProtectionPassed(c)
  <2>1. \A j \in StackKey : linkStackProtection(c)[j] = c[j]
    BY <1>1, <1>3 DEF linkStackProtection
  <2> QED BY <2>1, <1>3 DEF StackProtectionPassed
<1> QED BY <1>2, <1>3

LEMMA LinkPasses ==
    ASSUME NEW c \in CheckTable
    PROVE  StackProtectionPassed(linkStackProtection(c)) <=> StackProtectionPassed(c)
PROOF
<1>1. StackKey \subseteq CheckKey /\ DOMAIN c = CheckKey
  BY DEF StackKey, CheckKey, CheckTable
<1>2. CASE StackProtectionPassed(c)
  <2>1. \A j \in StackKey : linkStackProtection(c)[j].status = "good"
    BY <1>1, <1>2 DEF linkStackProtection, OK
  <2> QED BY <2>1, <1>2 DEF StackProtectionPassed
<1>3. CASE ~StackProtectionPassed(c)
  <2>1. \A j \in StackKey : linkStackProtection(c)[j] = c[j]
    BY <1>1, <1>3 DEF linkStackProtection
  <2> QED BY <2>1, <1>3 DEF StackProtectionPassed
<1> QED BY <1>2, <1>3

LEMMA LinkLocal ==
    ASSUME NEW c \in CheckTable, NEW d \in CheckTable,
           \A k \in StackKey : c[k] = d[k]
    PROVE  /\ \A k \in StackKey : linkStackProtection(c)[k] = linkStackProtection(d)[k]
           /\ \A k \in CheckKey \ StackKey : linkStackProtection(c)[k] = c[k]
PROOF
<1>1. DOMAIN c = CheckKey /\ DOMAIN d = CheckKey /\ StackKey \subseteq CheckKey
  BY DEF CheckTable, StackKey, CheckKey
<1>2. StackProtectionPassed(c) <=> StackProtectionPassed(d)
  BY DEF StackProtectionPassed
<1>3. stackWinner(c) = stackWinner(d)
  BY DEF stackWinner, StackKey
<1>4. ASSUME NEW k \in StackKey
      PROVE  linkStackProtection(c)[k] = linkStackProtection(d)[k]
  <2>1. CASE StackProtectionPassed(c)
    BY <1>1, <1>2, <1>3, <2>1 DEF linkStackProtection
  <2>2. CASE ~StackProtectionPassed(c)
    BY <1>1, <1>2, <2>2 DEF linkStackProtection
  <2> QED BY <2>1, <2>2
<1>5. ASSUME NEW k \in CheckKey \ StackKey
      PROVE  linkStackProtection(c)[k] = c[k]
  BY <1>1 DEF linkStackProtection
<1> QED BY <1>4, <1>5

-----------------------------------------------------------------------------
(***************************************************************************)
(* The table before statement n when every statement so far read (h, b):     *)
(* the verdicts stored so far, linked once statement 5 is past.              *)
(***************************************************************************)
position(k) ==
    CASE k = "relro" -> 1 [] k = "canary" -> 2 [] k = "ohos_retguard" -> 3
      [] k = "pac_cfi" -> 4 [] k = "nx" -> 6 [] k = "pie" -> 7 [] k = "pic" -> 8
      [] k = "bind_now" -> 9 [] k = "rpath" -> 10 [] k = "runpath" -> 11
      [] k = "symbols" -> 12 [] k \in {"fortify", "fortified", "fortifiable"} -> 13

linked(h, b) == linkStackProtection(verdicts(h, b))

tableBefore(n, h, b) ==
    [k \in CheckKey |-> IF position(k) >= n THEN Err
                        ELSE IF n <= 5 THEN verdict(k, h, b) ELSE linked(h, b)[k]]

LEMMA ErrResult == Err \in Result
  BY Constructors DEF Err, Value

LEMMA VerdictTable ==
    ASSUME NEW h \in Header, NEW b \in Body
    PROVE  /\ verdicts(h, b) \in CheckTable
           /\ \A k \in CheckKey : verdict(k, h, b) \in Result
  BY VerdictPossible, PossibleIsResult DEF verdicts, CheckTable

LEMMA LastStepIs13 == LastStep = 13
  BY DEF LastStep, CheckSteps

(***************************************************************************)
(* Statement n of CheckFile stores the verdicts at position n and nothing    *)
(* else, unless it is linkStackProtection.                                   *)
(***************************************************************************)
LEMMA StatementStores ==
    ASSUME NEW c \in CheckTable, NEW h, NEW b, NEW n \in 1..LastStep, n # 5
    PROVE  runCheck(c, CheckSteps[n], h, b)
              = [k \in CheckKey |-> IF position(k) = n THEN verdict(k, h, b) ELSE c[k]]
PROOF
<1> DEFINE stored == [k \in CheckKey |-> IF position(k) = n THEN verdict(k, h, b) ELSE c[k]]
<1>0. c = [k \in CheckKey |-> c[k]]
  BY DEF CheckTable
<1>1. n \in {1, 2, 3, 4, 6, 7, 8, 9, 10, 11, 12, 13}
  BY LastStepIs13
<1>2. CASE n = 1
  BY <1>0, <1>2 DEF runCheck, CheckSteps, position, verdict, CheckKey
<1>3. CASE n = 2
  BY <1>0, <1>3 DEF runCheck, CheckSteps, position, verdict, CheckKey
<1>4. CASE n = 3
  BY <1>0, <1>4 DEF runCheck, CheckSteps, position, verdict, CheckKey
<1>5. CASE n = 4
  BY <1>0, <1>5 DEF runCheck, CheckSteps, position, verdict, CheckKey
<1>6. CASE n = 6
  BY <1>0, <1>6 DEF runCheck, CheckSteps, position, verdict, CheckKey
<1>7. CASE n = 7
  BY <1>0, <1>7 DEF runCheck, CheckSteps, position, verdict, CheckKey
<1>8. CASE n = 8
  BY <1>0, <1>8 DEF runCheck, CheckSteps, position, verdict, CheckKey
<1>9. CASE n = 9
  BY <1>0, <1>9 DEF runCheck, CheckSteps, position, verdict, CheckKey
<1>10. CASE n = 10
  BY <1>0, <1>10 DEF runCheck, CheckSteps, position, verdict, CheckKey
<1>11. CASE n = 11
  BY <1>0, <1>11 DEF runCheck, CheckSteps, position, verdict, CheckKey
<1>12. CASE n = 12
  BY <1>0, <1>12 DEF runCheck, CheckSteps, position, verdict, CheckKey
<1>13. CASE n = 13
  BY <1>0, <1>13 DEF runCheck, CheckSteps, position, verdict, CheckKey
<1> QED
  BY <1>1, <1>2, <1>3, <1>4, <1>5, <1>6, <1>7, <1>8, <1>9, <1>10, <1>11, <1>12, <1>13

LEMMA StatementLinks ==
    ASSUME NEW c, NEW h, NEW b
    PROVE  runCheck(c, CheckSteps[5], h, b) = linkStackProtection(c)
  BY DEF runCheck, CheckSteps

(***************************************************************************)
(* Whatever header and body a statement reads, it leaves a table of results. *)
(***************************************************************************)
LEMMA StatementTable ==
    ASSUME NEW c \in CheckTable, NEW h \in Header, NEW b \in Body, NEW n \in 1..LastStep
    PROVE  runCheck(c, CheckSteps[n], h, b) \in CheckTable
PROOF
<1>1. CASE n = 5
  BY <1>1, StatementLinks, LinkTable
<1>2. CASE n # 5
  <2>1. \A k \in CheckKey : verdict(k, h, b) \in Result /\ c[k] \in Result
    BY VerdictTable DEF CheckTable
  <2>2. runCheck(c, CheckSteps[n], h, b)
          = [k \in CheckKey |-> IF position(k) = n THEN verdict(k, h, b) ELSE c[k]]
    BY <1>2, StatementStores
  <2>3. \A k \in CheckKey :
          (IF position(k) = n THEN verdict(k, h, b) ELSE c[k]) \in Result
    BY <2>1
  <2> QED BY <2>2, <2>3 DEF CheckTable
<1> QED BY <1>1, <1>2

(***************************************************************************)
(* Thirteen statements that read one image build the linked verdicts of that *)
(* image: linking in the middle, when nine entries are still unset, is       *)
(* linking at the end.                                                      *)
(***************************************************************************)
LEMMA TableStarts ==
    ASSUME NEW h, NEW b PROVE tableBefore(1, h, b) = initialChecks
  BY DEF tableBefore, initialChecks, position, CheckKey

LEMMA TableAdvances ==
    ASSUME NEW h \in Header, NEW b \in Body, NEW n \in 1..LastStep
    PROVE  runCheck(tableBefore(n, h, b), CheckSteps[n], h, b) = tableBefore(n + 1, h, b)
PROOF
<1> DEFINE before == tableBefore(n, h, b)
           after == tableBefore(n + 1, h, b)
<1>1. \A k \in CheckKey : position(k) \in (1..13) \ {5}
  BY DEF position, CheckKey
<1>2. linked(h, b) \in CheckTable /\ verdicts(h, b) \in CheckTable
  BY VerdictTable, LinkTable DEF linked
<1>3. before \in CheckTable
  BY <1>2, VerdictTable, ErrResult DEF tableBefore, CheckTable
<1>4. \A k \in CheckKey \ StackKey : linked(h, b)[k] = verdict(k, h, b)
  BY <1>2, LinkLocal DEF linked, verdicts
<1>5. \A k \in CheckKey : position(k) > 5 => k \notin StackKey
  BY DEF position, StackKey
<1>6. CASE n = 5
  <2>1. \A k \in StackKey : before[k] = verdicts(h, b)[k]
    BY <1>6 DEF tableBefore, position, StackKey, CheckKey, verdicts
  <2>2. /\ \A k \in StackKey : linkStackProtection(before)[k] = linked(h, b)[k]
        /\ \A k \in CheckKey \ StackKey : linkStackProtection(before)[k] = before[k]
    BY <2>1, <1>2, <1>3, LinkLocal DEF linked
  <2>3. ASSUME NEW k \in CheckKey PROVE linkStackProtection(before)[k] = after[k]
    <3>1. CASE k \in StackKey
      <4>1. position(k) < 5
        BY <3>1 DEF position, StackKey
      <4>2. after[k] = linked(h, b)[k]
        BY <4>1, <1>1, <1>6 DEF tableBefore
      <4> QED BY <3>1, <4>2, <2>2
    <3>2. CASE k \notin StackKey
      BY <3>2, <2>2, <1>1, <1>4, <1>6 DEF tableBefore
    <3> QED BY <3>1, <3>2
  <2>4. linkStackProtection(before) \in CheckTable /\ after = [k \in CheckKey |-> after[k]]
    BY <1>3, LinkTable DEF tableBefore
  <2> QED BY <2>3, <2>4, <1>6, StatementLinks DEF CheckTable
<1>7. CASE n # 5
  <2>1. runCheck(before, CheckSteps[n], h, b)
          = [k \in CheckKey |-> IF position(k) = n THEN verdict(k, h, b) ELSE before[k]]
    BY <1>3, <1>7, StatementStores
  <2>2. ASSUME NEW k \in CheckKey
        PROVE  (IF position(k) = n THEN verdict(k, h, b) ELSE before[k]) = after[k]
    BY <1>1, <1>4, <1>5, <1>7, LastStepIs13 DEF tableBefore
  <2> QED BY <2>1, <2>2 DEF tableBefore
<1> QED BY <1>6, <1>7

LEMMA TableEnds ==
    ASSUME NEW h \in Header, NEW b \in Body
    PROVE  tableBefore(LastStep + 1, h, b) = linked(h, b)
PROOF
<1>1. linked(h, b) \in CheckTable
  BY VerdictTable, LinkTable DEF linked
<1>2. \A k \in CheckKey : position(k) \in 1..13
  BY DEF position, CheckKey
<1> QED
  BY <1>1, <1>2, LastStepIs13 DEF tableBefore, CheckTable

(***************************************************************************)
(* Facts about sequences and Scan's own operators, and its type invariant.   *)
(***************************************************************************)
LEMMA AppendOne ==
    ASSUME NEW S, NEW s \in Seq(S), NEW e \in S
    PROVE  /\ Append(s, e) \in Seq(S)
           /\ Len(Append(s, e)) = Len(s) + 1
           /\ DOMAIN Append(s, e) = 1..(Len(s) + 1)
           /\ Append(s, e)[Len(s) + 1] = e
           /\ \A i \in 1..Len(s) : Append(s, e)[i] = s[i]
  OBVIOUS

LEMMA ReportTypes ==
    ASSUME NEW p \in Path
    PROVE  /\ initialChecks \in CheckTable
           /\ openError(p) \in Report
           /\ parseError(p) \in Report
           /\ \A c \in CheckTable : [name |-> p, error |-> "", checks |-> c] \in Report
  BY ErrResult DEF initialChecks, CheckTable, openError, parseError, Report

-----------------------------------------------------------------------------
(***************************************************************************)
(* Types.  Nothing has been collected when run starts; without that the      *)
(* targets a command names could be fewer than the reports already made.     *)
(***************************************************************************)
Started == phase = "start" => paths = <<>> /\ reports = <<>>

ITypes == TypeOK /\ Started

LEMMA FilesKept == ASSUME FileTypes, Writer PROVE FileTypes'
PROOF
<1> USE DEF FileTypes
<1>1. PICK p \in Path : \/ Unlink(p)
                        \/ \E q \in Path : Move(p, q)
                        \/ \E img \in Content : Install(p, img) \/ Rewrite(p, img)
  BY DEF Writer
<1>2. writes + 1 \in 0..MaxWrites
  BY ScanAssumption DEF Writer, mayWrite
<1>3. CASE Unlink(p)
  BY <1>2, <1>3 DEF Unlink
<1>4. CASE \E q \in Path : Move(p, q)
  <2>1. PICK q \in Path : Move(p, q)
    BY <1>4
  <2>2. files' \in [Path -> Inode \cup {NoInode}]
    BY <2>1 DEF Move
  <2>3. \A r, s \in Path : files'[r] = files'[s] /\ files'[r] # NoInode => r = s
    BY <2>1 DEF Move, exists
  <2> QED BY <1>2, <2>1, <2>2, <2>3 DEF Move
<1>5. CASE \E img \in Content : Install(p, img)
  <2>1. PICK img \in Content, i \in Inode \ inUse :
           /\ files' = [files EXCEPT ![p] = i]
           /\ disk' = [disk EXCEPT ![i] = img]
           /\ writes' = writes + 1 /\ touched' = touched \cup {p}
    BY <1>5 DEF Install
  <2>2. \A r \in Path : files[r] # i
    BY <2>1 DEF inUse
  <2>3. \A r, s \in Path : files'[r] = files'[s] /\ files'[r] # NoInode => r = s
    BY <2>1, <2>2
  <2> QED BY <1>2, <2>1, <2>3
<1>6. CASE \E img \in Content : Rewrite(p, img)
  BY <1>2, <1>6 DEF Rewrite, exists
<1> QED BY <1>1, <1>3, <1>4, <1>5, <1>6

LEMMA SccKeepsFiles == ASSUME scc PROVE UNCHANGED fsVars
PROOF
<1>1. CASE Usage \/ StartFile \/ ReadList \/ StartFails \/ StartDir
  BY <1>1 DEF Usage, StartFile, ReadList, StartFails, StartDir
<1>2. CASE VisitDir \/ ReadDirFails \/ VisitFile \/ WalkDone \/ NoBinaries
  BY <1>2 DEF VisitDir, ReadDirFails, VisitFile, WalkDone, NoBinaries
<1>3. CASE OpenFails \/ Open \/ ParseFails \/ Parse \/ RunCheck \/ Return
  BY <1>3 DEF OpenFails, Open, ParseFails, Parse, RunCheck, Return
<1>4. CASE PrintReports \/ PrintReportsFails \/ Gate
  BY <1>4 DEF PrintReports, PrintReportsFails, Gate
<1> QED BY <1>1, <1>2, <1>3, <1>4 DEF scc

LEMMA WriterKeepsProc == ASSUME Writer PROVE UNCHANGED procVars
  BY DEF Writer, Unlink, Move, Install, Rewrite

LEMMA TypesInit == Init => ITypes
PROOF
<1> SUFFICES ASSUME Init PROVE ITypes
  OBVIOUS
<1>1. noHdr \in Header /\ initialChecks \in CheckTable
  BY ErrResult DEF noHdr, Header, Machine, FileType, initialChecks, CheckTable
<1>2. RunTypes /\ Started
  <2>1. <<>> \in Seq(Report) /\ <<>> \in Seq(Path) /\ Len(<<>>) = 0
    BY EmptySeq
  <2>2. /\ job \in Job /\ phase = "start" /\ paths = <<>> /\ reports = <<>>
        /\ written = FALSE /\ exit = NotExited
    BY DEF Init
  <2>3. paths \in Seq(Path) /\ reports \in Seq(Report) /\ Len(reports) <= Len(paths)
    BY <2>1, <2>2
  <2>4. exit \in Exit /\ (exit # NotExited <=> phase = "exit")
    BY <2>2 DEF Exit, NotExited
  <2> QED BY <2>2, <2>3, <2>4 DEF RunTypes, Started
<1>3. CheckTypes
  BY <1>1, LastStepIs13, EmptySeq DEF Init, CheckTypes
<1>4. FileTypes
  BY ScanAssumption DEF Init, FileTypes
<1> QED BY <1>2, <1>3, <1>4 DEF ITypes, TypeOK

LEMMA TypesNext == ITypes /\ [Next]_vars => ITypes'
PROOF
<1> SUFFICES ASSUME ITypes, [Next]_vars PROVE ITypes'
  OBVIOUS
<1>a. RunTypes /\ CheckTypes /\ FileTypes /\ Started
  BY DEF ITypes, TypeOK
<1>b. ASSUME scc, RunTypes', CheckTypes', Started' PROVE ITypes'
  BY <1>a, <1>b, SccKeepsFiles DEF FileTypes, fsVars, ITypes, TypeOK
<1>c. paths = <<>> => Len(paths) = 0
  OBVIOUS
<1>1. CASE Usage
  BY <1>a, <1>b, <1>1 DEF scc, Usage, return, RunTypes, CheckTypes, Started, Exit, NotExited
<1>2. CASE StartFile
  <2>1. paths' \in Seq(Path) /\ reports = <<>>
    BY <1>a, <1>2, JobAssumption DEF StartFile, RunTypes, Started
  <2> QED BY <1>a, <1>b, <1>2, <2>1
      DEF scc, StartFile, RunTypes, CheckTypes, Started, Exit, NotExited
<1>3. CASE ReadList
  <2>1. paths' \in Seq(Path) /\ reports = <<>>
    BY <1>a, <1>3, JobAssumption DEF ReadList, RunTypes, Started
  <2> QED BY <1>a, <1>b, <1>3, <2>1
      DEF scc, ReadList, RunTypes, CheckTypes, Started, Exit, NotExited
<1>4. CASE StartFails
  <2>1. /\ phase = "start" /\ exit' = 1 /\ phase' = "exit"
        /\ UNCHANGED <<job, paths, reports, fd, hdr, checks, step, written, seen>>
    BY <1>4 DEF StartFails, return
  <2> QED BY <1>a, <1>b, <1>4, <2>1 DEF scc, RunTypes, CheckTypes, Started, Exit, NotExited
<1>5. CASE StartDir
  BY <1>a, <1>b, <1>5 DEF scc, StartDir, RunTypes, CheckTypes, Started, Exit, NotExited
<1>6. CASE VisitDir
  BY <1>a, <1>b, <1>6 DEF scc, VisitDir, walking, RunTypes, CheckTypes, Started, Exit, NotExited
<1>7. CASE ReadDirFails
  BY <1>a, <1>b, <1>7
  DEF scc, ReadDirFails, walking, return, RunTypes, CheckTypes, Started, Exit, NotExited
<1>8. CASE VisitFile
  <2>1. paths' \in Seq(Path) /\ Len(paths') >= Len(paths)
    BY <1>a, <1>8, AppendOne DEF VisitFile, walking, RunTypes
  <2> QED BY <1>a, <1>b, <1>8, <2>1
      DEF scc, VisitFile, walking, RunTypes, CheckTypes, Started, Exit, NotExited
<1>9. CASE WalkDone
  BY <1>a, <1>b, <1>9 DEF scc, WalkDone, RunTypes, CheckTypes, Started, Exit, NotExited
<1>10. CASE NoBinaries
  BY <1>a, <1>b, <1>10 DEF scc, NoBinaries, return, RunTypes, CheckTypes, Started, Exit, NotExited
<1>d. ASSUME Len(reports) < Len(paths) PROVE target \in Path
  BY <1>a, <1>d DEF target, RunTypes
<1>e. ASSUME NEW r \in Report, reports' = Append(reports, r)
      PROVE  reports' \in Seq(Report) /\ Len(reports') = Len(reports) + 1
  BY <1>a, <1>e, AppendOne DEF RunTypes
<1>f. ASSUME NEW img \in Content \cup {NoImage}, seen' = Append(seen, img)
      PROVE  seen' \in Seq(Content \cup {NoImage}) /\ Len(seen') = Len(seen) + 1
  BY <1>a, <1>f, AppendOne DEF CheckTypes
<1>g. initialChecks \in CheckTable /\ (fd # NoInode => disk[fd] \in Image)
  BY <1>a, ErrResult, ScanAssumption DEF initialChecks, CheckTable, FileTypes, CheckTypes
<1>11. CASE OpenFails
  <2>1. openError(target) \in Report
    BY <1>d, <1>11, ReportTypes DEF OpenFails, checking
  <2>2. /\ reports' \in Seq(Report) /\ Len(reports') = Len(reports) + 1
        /\ seen' \in Seq(Content \cup {NoImage}) /\ Len(seen') = Len(seen) + 1
    BY <1>e, <1>f, <1>11, <2>1 DEF OpenFails
  <2>3. RunTypes'
    BY <1>a, <1>11, <2>2 DEF OpenFails, checking, RunTypes
  <2>4. CheckTypes'
    BY <1>a, <1>11, <2>2 DEF OpenFails, checking, RunTypes, CheckTypes
  <2> QED BY <1>b, <1>11, <2>3, <2>4 DEF scc, OpenFails, checking, Started
<1>12. CASE Open
  <2>1. files[target] \in Inode /\ disk[files[target]] \in Content
    BY <1>a, <1>d, <1>12 DEF Open, checking, canOpen, exists, FileTypes
  <2>2. seen' \in Seq(Content \cup {NoImage}) /\ Len(seen') = Len(seen) + 1
    BY <1>f, <1>12, <2>1 DEF Open
  <2>3. RunTypes'
    BY <1>a, <1>12 DEF Open, checking, RunTypes, Exit, NotExited
  <2>4. CheckTypes'
    BY <1>a, <1>g, <1>12, <2>1, <2>2, ScanAssumption DEF Open, checking, RunTypes, CheckTypes
  <2> QED BY <1>b, <1>12, <2>3, <2>4 DEF scc, Open, Started
<1>13. CASE ParseFails
  <2>1. Len(reports) < Len(paths) /\ fd # NoInode
    BY <1>a, <1>13 DEF ParseFails, CheckTypes
  <2>2. reports' \in Seq(Report) /\ Len(reports') = Len(reports) + 1
    BY <1>d, <1>e, <1>13, <2>1, ReportTypes DEF ParseFails
  <2>3. RunTypes'
    BY <1>a, <1>13, <2>1, <2>2 DEF ParseFails, RunTypes, Exit, NotExited
  <2>4. CheckTypes'
    BY <1>a, <1>13, <2>1, <2>2 DEF ParseFails, RunTypes, CheckTypes
  <2> QED BY <1>b, <1>13, <2>3, <2>4 DEF scc, ParseFails, Started
<1>14. CASE Parse
  <2>1. fd # NoInode /\ hdr' \in Header
    BY <1>a, <1>g, <1>14 DEF Parse, CheckTypes, Image
  <2>2. RunTypes'
    BY <1>a, <1>14 DEF Parse, RunTypes, Exit, NotExited
  <2>3. CheckTypes'
    BY <1>a, <1>14, <2>1, LastStepIs13 DEF Parse, CheckTypes
  <2> QED BY <1>b, <1>14, <2>2, <2>3 DEF scc, Parse, Started
<1>15. CASE RunCheck
  <2>1. fd # NoInode /\ step \in 1..LastStep /\ disk[fd].body \in Body /\ hdr \in Header
    BY <1>a, <1>g, <1>15, LastStepIs13 DEF RunCheck, CheckTypes, Image
  <2>2. checks' \in CheckTable
    BY <1>a, <1>15, <2>1, StatementTable DEF RunCheck, CheckTypes
  <2>3. RunTypes'
    BY <1>a, <1>15 DEF RunCheck, RunTypes
  <2>4. CheckTypes'
    BY <1>a, <1>15, <2>1, <2>2, LastStepIs13 DEF RunCheck, CheckTypes
  <2> QED BY <1>b, <1>15, <2>3, <2>4 DEF scc, RunCheck, Started
<1>16. CASE Return
  <2>1. Len(reports) < Len(paths) /\ fd # NoInode /\ checks \in CheckTable
    BY <1>a, <1>16 DEF Return, CheckTypes
  <2>2. reports' \in Seq(Report) /\ Len(reports') = Len(reports) + 1
    BY <1>d, <1>e, <1>16, <2>1, ReportTypes DEF Return
  <2>3. /\ phase = "run" /\ phase' = "check" /\ fd' = NoInode
        /\ UNCHANGED <<job, paths, hdr, checks, step, written, exit, seen>>
    BY <1>16 DEF Return
  <2>4. RunTypes'
    BY <1>a, <2>1, <2>2, <2>3 DEF RunTypes, Exit, NotExited
  <2>5. CheckTypes'
    BY <1>a, <2>1, <2>2, <2>3 DEF RunTypes, CheckTypes
  <2> QED BY <1>b, <1>16, <2>4, <2>5 DEF scc, Return, Started
<1>17. CASE PrintReports
  BY <1>a, <1>b, <1>17
  DEF scc, PrintReports, printing, RunTypes, CheckTypes, Started, Exit, NotExited
<1>18. CASE PrintReportsFails
  BY <1>a, <1>b, <1>18
  DEF scc, PrintReportsFails, printing, return, RunTypes, CheckTypes, Started, Exit, NotExited
<1>19. CASE Gate
  BY <1>a, <1>b, <1>19 DEF scc, Gate, return, RunTypes, CheckTypes, Started, Exit, NotExited
<1>20. CASE Writer
  BY <1>a, <1>20, FilesKept, WriterKeepsProc
  DEF procVars, RunTypes, CheckTypes, Started, ITypes, TypeOK
<1>21. CASE UNCHANGED vars
  BY <1>a, <1>21
  DEF vars, procVars, fsVars, RunTypes, CheckTypes, FileTypes, Started, ITypes, TypeOK
<1> QED
  BY <1>1, <1>2, <1>3, <1>4, <1>5, <1>6, <1>7, <1>8, <1>9, <1>10, <1>11, <1>12, <1>13,
     <1>14, <1>15, <1>16, <1>17, <1>18, <1>19, <1>20, <1>21 DEF Next, scc

(***************************************************************************)
(* The state of run and CheckFile keeps its types; in particular a           *)
(* descriptor is open exactly inside CheckFile, and no inode ever has two    *)
(* names.                                                                   *)
(***************************************************************************)
THEOREM TypesInvariant == Spec => []TypeOK
PROOF
<1>1. ITypes => TypeOK
  BY DEF ITypes
<1> QED BY <1>1, TypesInit, TypesNext, PTL DEF Spec
=============================================================================
