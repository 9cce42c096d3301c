----------------------------- MODULE ReportProofs ---------------------------
(***************************************************************************)
(* What the reports of a scan look like, files patched in place included:    *)
(* the thirteen statements may each read a different body, so all that can   *)
(* be said of an entry is which results its check can return, and of two     *)
(* entries what follows from the header they share.                          *)
(***************************************************************************)
EXTENDS ScanProofs

covered(k) ==
    possible(k) \cup IF k \in StackKey THEN {OK(CoveredBy(j)) : j \in StackKey} ELSE {}

agreed(c) ==
    \A k, l \in StackKey : c[k].status = "good" <=> c[l].status = "good"

\* The table before statement n of CheckFile on a file with header h.
partial(c, n, h) ==
    /\ \A k \in CheckKey : position(k) < n => c[k] \in covered(k)
    /\ \A k \in CheckKey : position(k) >= n => c[k] = Err
    /\ n > 5 => agreed(c)
    /\ n > 7 => (c["pie"].value = "REL (relocatable object)" => h.type # "DYN")
    /\ n > 8 => (c["pic"].status = "bad" => h.type = "DYN")

sound(r) ==
    IF r.error = ""
    THEN /\ \A k \in CheckKey : r.checks[k] \in covered(k)
         /\ agreed(r.checks)
         /\ r.checks["pie"].value = "REL (relocatable object)" => r.checks["pic"].status # "bad"
    ELSE r.checks = initialChecks

LEMMA PositionRange ==
    ASSUME NEW k \in CheckKey
    PROVE  /\ position(k) \in (1..13) \ {5}
           /\ k \in StackKey => position(k) < 5
PROOF
<1>1. position(k) \in (1..13) \ {5}
  BY DEF position, CheckKey
<1>2. k \in StackKey => position(k) < 5
  BY DEF position, StackKey
<1>3. position(k) < 5 => k = "relro" \/ k \in StackKey
  BY DEF position, CheckKey, StackKey
<1> QED BY <1>1, <1>2, <1>3

LEMMA StatementSound ==
    ASSUME NEW h \in Header, NEW b \in Body, NEW n \in 1..LastStep,
           NEW c \in CheckTable, partial(c, n, h)
    PROVE  partial(runCheck(c, CheckSteps[n], h, b), n + 1, h)
PROOF
<1> DEFINE d == runCheck(c, CheckSteps[n], h, b)
<1>1. CASE n = 5
  <2>1. d = linkStackProtection(c)
    BY <1>1, StatementLinks
  <2>2. ASSUME NEW k \in CheckKey
        PROVE  /\ position(k) < 6 => d[k] \in covered(k)
               /\ position(k) >= 6 => d[k] = Err
    <3>1. CASE k \in StackKey
      <4>1. c[k] \in covered(k)
        BY <1>1, <3>1, PositionRange DEF partial
      <4>2. stackWinner(c) \in StackKey
        BY DEF stackWinner, StackKey
      <4>3. d[k] = c[k] \/ d[k] = OK(CoveredBy(stackWinner(c)))
        BY <2>1 DEF linkStackProtection, CheckTable
      <4> QED BY <3>1, <4>1, <4>2, <4>3, PositionRange DEF covered
    <3>2. CASE k \notin StackKey
      <4>1. d[k] = c[k]
        BY <2>1, <3>2 DEF linkStackProtection, CheckTable
      <4>2. position(k) \in (1..13) \ {5}
        BY PositionRange
      <4> QED BY <1>1, <4>1, <4>2 DEF partial
    <3> QED BY <3>1, <3>2
  <2>3. agreed(d)
    BY <2>1, LinkAgrees DEF agreed
  <2> QED BY <1>1, <2>2, <2>3 DEF partial
<1>2. CASE n # 5
  <2>1. d = [k \in CheckKey |-> IF position(k) = n THEN verdict(k, h, b) ELSE c[k]]
    BY <1>2, StatementStores
  <2> HIDE DEF d
  <2>2. ASSUME NEW k \in CheckKey
        PROVE  /\ position(k) < n + 1 => d[k] \in covered(k)
               /\ position(k) >= n + 1 => d[k] = Err
    <3>1. CASE position(k) = n
      BY <2>1, <3>1, VerdictPossible DEF covered
    <3>2. CASE position(k) # n
      <4>1. d[k] = c[k]
        BY <2>1, <3>2
      <4>2. /\ position(k) < n + 1 => position(k) < n
            /\ position(k) >= n + 1 => position(k) >= n
        BY <3>2, LastStepIs13, PositionRange
      <4> QED BY <4>1, <4>2 DEF partial
    <3> QED BY <3>1, <3>2
  <2>3. n + 1 > 5 => agreed(d)
    <3>1. n + 1 > 5 => \A k \in StackKey : d[k] = c[k]
      BY <1>2, <2>1, PositionRange DEF StackKey, CheckKey
    <3>2. n + 1 > 5 => n > 5
      BY <1>2, LastStepIs13
    <3>3. n > 5 => agreed(c)
      BY DEF partial
    <3> QED BY <3>1, <3>2, <3>3 DEF agreed
  <2>4. n + 1 > 7 => (d["pie"].value = "REL (relocatable object)" => h.type # "DYN")
    <3>1. "pie" \in CheckKey /\ position("pie") = 7
      BY DEF CheckKey, position
    <3>2. CASE n = 7
      <4>1. d["pie"] = PIE(h, b)
        BY <2>1, <3>1, <3>2 DEF verdict
      <4>2. h.type = "DYN" => PIE(h, b).value # "REL (relocatable object)"
        BY DEF PIE, OK, Info
      <4> QED BY <4>1, <4>2
    <3>3. CASE n # 7
      <4>1. d["pie"] = c["pie"]
        BY <2>1, <3>1, <3>3
      <4>2. n + 1 > 7 => n > 7
        BY <3>3, LastStepIs13
      <4>3. n > 7 => (c["pie"].value = "REL (relocatable object)" => h.type # "DYN")
        BY DEF partial
      <4> QED BY <4>1, <4>2, <4>3
    <3> QED BY <3>2, <3>3
  <2>5. n + 1 > 8 => (d["pic"].status = "bad" => h.type = "DYN")
    <3>1. "pic" \in CheckKey /\ position("pic") = 8
      BY DEF CheckKey, position
    <3>2. CASE n = 8
      <4>1. d["pic"] = PIC(h, b)
        BY <2>1, <3>1, <3>2 DEF verdict
      <4>2. h.type # "DYN" => PIC(h, b).status # "bad"
        BY DEF PIC, NA
      <4> QED BY <4>1, <4>2
    <3>3. CASE n # 8
      <4>1. d["pic"] = c["pic"]
        BY <2>1, <3>1, <3>3
      <4>2. n + 1 > 8 => n > 8
        BY <3>3, LastStepIs13
      <4>3. n > 8 => (c["pic"].status = "bad" => h.type = "DYN")
        BY DEF partial
      <4> QED BY <4>1, <4>2, <4>3
    <3> QED BY <3>2, <3>3
  <2>6. partial(d, n + 1, h)
    BY <2>2, <2>3, <2>4, <2>5 DEF partial
  <2> QED BY <2>6 DEF d
<1> QED BY <1>1, <1>2

LEMMA TableSound ==
    ASSUME NEW c, NEW h, NEW p, NEW n \in Nat, n > 13, partial(c, n, h)
    PROVE  sound([name |-> p, error |-> "", checks |-> c])
PROOF
<1>1. n > 5 /\ n > 7 /\ n > 8 /\ \A k \in CheckKey : position(k) < n
  BY PositionRange
<1>2. \A k \in CheckKey : c[k] \in covered(k)
  BY <1>1 DEF partial
<1>3. /\ agreed(c)
      /\ c["pie"].value = "REL (relocatable object)" => h.type # "DYN"
      /\ c["pic"].status = "bad" => h.type = "DYN"
  BY <1>1 DEF partial
<1> QED BY <1>2, <1>3 DEF sound

-----------------------------------------------------------------------------
(***************************************************************************)
(* The inductive invariant.                                                 *)
(***************************************************************************)
IReports ==
    /\ phase = "parse" => checks = initialChecks
    /\ phase = "run" => partial(checks, step, hdr)
    /\ \A i \in DOMAIN reports : sound(reports[i])

LEMMA OneMore ==
    ASSUME IReports, reports \in Seq(Report), NEW r \in Report, sound(r),
           reports' = Append(reports, r)
    PROVE  \A i \in DOMAIN reports' : sound(reports'[i])
PROOF
<1>1. /\ DOMAIN reports' = 1..(Len(reports) + 1) /\ DOMAIN reports = 1..Len(reports)
      /\ reports'[Len(reports) + 1] = r
      /\ \A i \in 1..Len(reports) : reports'[i] = reports[i]
  BY AppendOne
<1>2. \A i \in 1..(Len(reports) + 1) : i \in 1..Len(reports) \/ i = Len(reports) + 1
  OBVIOUS
<1> QED BY <1>1, <1>2 DEF IReports

LEMMA ReportsInit == Init => IReports
  BY DEF Init, IReports

LEMMA ReportsNext == ITypes /\ IReports /\ [Next]_vars => IReports'
PROOF
<1> SUFFICES ASSUME ITypes, IReports, [Next]_vars PROVE IReports'
  OBVIOUS
<1>a. RunTypes /\ CheckTypes /\ FileTypes
  BY DEF ITypes, TypeOK
<1>b. fd # NoInode => disk[fd] \in Image
  BY <1>a, ScanAssumption DEF FileTypes, CheckTypes
<1>c. ASSUME Len(reports) < Len(paths) PROVE target \in Path
  BY <1>a, <1>c DEF target, RunTypes
<1>1. CASE OpenFails
  <2>1. openError(target) \in Report /\ sound(openError(target))
    BY <1>1, <1>c, ReportTypes DEF OpenFails, checking, openError, sound
  <2> QED BY <1>1, <1>a, <2>1, OneMore DEF OpenFails, checking, IReports, RunTypes
<1>2. CASE Open
  BY <1>2 DEF Open, IReports
<1>3. CASE ParseFails
  <2>1. parseError(target) \in Report
    BY <1>3, <1>a, <1>c, ReportTypes DEF ParseFails, CheckTypes
  <2>2. sound(parseError(target))
    BY DEF parseError, sound
  <2> QED BY <1>3, <1>a, <2>1, <2>2, OneMore DEF ParseFails, IReports, RunTypes
<1>4. CASE Parse
  <2>1. \A k \in CheckKey : initialChecks[k] = Err /\ position(k) >= 1
    BY PositionRange DEF initialChecks
  <2>2. partial(initialChecks, 1, hdr')
    BY <2>1, PositionRange DEF partial
  <2> QED BY <1>4, <2>2 DEF Parse, IReports
<1>5. CASE RunCheck
  <2>1. step \in 1..LastStep /\ disk[fd].body \in Body /\ hdr \in Header /\ checks \in CheckTable
    BY <1>5, <1>a, <1>b, LastStepIs13 DEF RunCheck, CheckTypes, Image
  <2>2. partial(checks', step + 1, hdr)
    BY <1>5, <2>1, StatementSound DEF RunCheck, IReports
  <2> QED BY <1>5, <2>2 DEF RunCheck, IReports
<1>6. CASE Return
  <2> DEFINE r == [name |-> target, error |-> "", checks |-> checks]
  <2>0. step \in Nat
    BY <1>a, LastStepIs13 DEF CheckTypes
  <2>1. phase = "run" /\ step > 13 /\ step \in Nat
    BY <1>6, <2>0, LastStepIs13 DEF Return
  <2>2. sound(r)
    BY <2>1, TableSound DEF IReports
  <2>3. r \in Report
    BY <1>6, <1>a, <1>c, ReportTypes DEF Return, CheckTypes
  <2>4. reports' = Append(reports, r) /\ phase' = "check"
    BY <1>6 DEF Return
  <2> HIDE DEF r
  <2> QED BY <1>a, <2>2, <2>3, <2>4, OneMore DEF IReports, RunTypes
<1>7. CASE Usage \/ StartFile \/ ReadList \/ StartFails \/ StartDir
  BY <1>7 DEF Usage, StartFile, ReadList, StartFails, StartDir, return, IReports
<1>8. CASE VisitDir \/ ReadDirFails \/ VisitFile \/ WalkDone \/ NoBinaries
  BY <1>8 DEF VisitDir, ReadDirFails, VisitFile, WalkDone, NoBinaries, walking, return, IReports
<1>9. CASE PrintReports \/ PrintReportsFails \/ Gate
  BY <1>9 DEF PrintReports, PrintReportsFails, Gate, return, IReports
<1>10. CASE Writer \/ UNCHANGED vars
  BY <1>10, WriterKeepsProc DEF vars, procVars, IReports
<1> QED
  BY <1>1, <1>2, <1>3, <1>4, <1>5, <1>6, <1>7, <1>8, <1>9, <1>10 DEF Next, scc

LEMMA ReportsInvariant == Spec => [](ITypes /\ IReports)
  BY TypesInit, TypesNext, ReportsInit, ReportsNext, PTL DEF Spec

-----------------------------------------------------------------------------
(***************************************************************************)
(* linkStackProtection leaves the three stack columns all good or none good  *)
(* in every report, whatever other processes do to the files meanwhile.      *)
(***************************************************************************)
THEOREM StackColumnsTheorem == Spec => []StackColumnsAgree
PROOF
<1>1. IReports => StackColumnsAgree
  <2>1. ASSUME NEW r, sound(r) PROVE agreed(r.checks)
    <3>1. CASE r.error = ""
      BY <2>1, <3>1 DEF sound
    <3>2. CASE r.error # ""
      <4>1. r.checks = initialChecks
        BY <2>1, <3>2 DEF sound
      <4>2. \A k \in StackKey : r.checks[k] = Err
        BY <4>1 DEF initialChecks, StackKey, CheckKey
      <4> QED BY <4>2 DEF agreed
    <3> QED BY <3>1, <3>2
  <2> QED BY <2>1 DEF IReports, StackColumnsAgree, agreed
<1> QED BY <1>1, ReportsInvariant, PTL

(***************************************************************************)
(* What each gate looks at in an entry is determined by which of its check's *)
(* results it is: the value a rule switches on is the value of a bad result  *)
(* exactly when the status is bad.                                          *)
(***************************************************************************)
badValue(k) ==
    CASE k = "relro" -> "No RELRO"
      [] k = "pie" -> "PIE disabled"
      [] k = "bind_now" -> "Lazy binding"

otherValues(k) ==
    CASE k = "relro" -> {"N/A", "Full RELRO", "Partial RELRO"}
      [] k = "pie" -> {"PIE enabled", "Static PIE", "DSO (shared library)",
                       "REL (relocatable object)"}
      [] k = "bind_now" -> {"Bind now"}

byValue(k, x) ==
    \/ x.status = "bad" /\ x.value = badValue(k)
    \/ x.status # "bad" /\ x.value \in otherValues(k)

byStatus(x) == x.status \in {"good", "bad", "warn"}

LEMMA EntriesByValue ==
    ASSUME NEW k \in {"relro", "pie", "bind_now"}, NEW x \in possible(k)
    PROVE  byValue(k, x)
PROOF
<1> USE DEF OK, Bad, Warn, Info, NA, byValue, badValue, otherValues
<1>1. CASE k = "relro"
  <2>1. /\ byValue("relro", NA("N/A")) /\ byValue("relro", Bad("No RELRO"))
        /\ byValue("relro", OK("Full RELRO")) /\ byValue("relro", Warn("Partial RELRO"))
    OBVIOUS
  <2> HIDE DEF OK, Bad, Warn, NA, byValue
  <2> QED BY <1>1, <2>1 DEF possible
<1>2. CASE k = "pie"
  <2>1. /\ byValue("pie", OK("Static PIE")) /\ byValue("pie", OK("PIE enabled"))
        /\ byValue("pie", Info("DSO (shared library)"))
        /\ byValue("pie", Warn("REL (relocatable object)"))
        /\ byValue("pie", Bad("PIE disabled"))
    OBVIOUS
  <2> HIDE DEF OK, Bad, Warn, Info, byValue
  <2> QED BY <1>2, <2>1 DEF possible
<1>3. CASE k = "bind_now"
  <2>1. byValue("bind_now", OK("Bind now")) /\ byValue("bind_now", Bad("Lazy binding"))
    OBVIOUS
  <2> HIDE DEF OK, Bad, byValue
  <2> QED BY <1>3, <2>1 DEF possible
<1> QED BY <1>1, <1>2, <1>3

LEMMA EntriesByStatus ==
    ASSUME NEW k \in {"nx", "rpath", "symbols"}, NEW x \in possible(k)
    PROVE  /\ byStatus(x)
           /\ k # "nx" => x.status # "warn"
PROOF
<1> DEFINE P(y) == byStatus(y) /\ (k # "nx" => y.status # "warn")
<1>1. CASE k = "nx"
  <2>1. /\ P(Warn("NX unknown (no GNU_STACK)")) /\ P(Bad("NX disabled"))
        /\ P(OK("NX enabled")) /\ P(Err)
    BY <1>1 DEF byStatus, OK, Bad, Warn, Err
  <2> HIDE DEF P
  <2>2. P(x)
    BY <1>1, <2>1 DEF possible
  <2> QED BY <2>2 DEF P
<1>2. CASE k = "rpath"
  <2>1. P(OK("No RPATH")) /\ P(Bad("RPATH (prohibited)"))
    BY DEF byStatus, OK, Bad
  <2> HIDE DEF P
  <2>2. P(x)
    BY <1>2, <2>1 DEF possible
  <2> QED BY <2>2 DEF P
<1>3. CASE k = "symbols"
  <2>1. P(Bad("symbols")) /\ P(OK("No symbols (stripped)"))
    BY DEF byStatus, OK, Bad
  <2> HIDE DEF P
  <2>2. P(x)
    BY <1>3, <2>1 DEF possible
  <2> QED BY <2>2 DEF P
<1> QED BY <1>1, <1>2, <1>3

(***************************************************************************)
(* Hence every rule but "pie" is bad exactly when its entry is; and "pie" is *)
(* bad, too, for a shared library with text relocations.                    *)
(***************************************************************************)
LEMMA EntriesJudged ==
    ASSUME NEW c, \A k \in CheckKey : c[k] \in covered(k)
    PROVE  /\ c["relro"].status = "bad" <=> relroRule(c) = "bad"
           /\ c["nx"].status = "bad" <=> nxRule(c) = "bad"
           /\ c["bind_now"].status = "bad" <=> bindNowRule(c) = "bad"
           /\ c["rpath"].status = "bad" <=> rpathRule(c) = "bad"
           /\ pieRule(c) = "bad" <=>
                 \/ c["pie"].status = "bad"
                 \/ c["pie"].value = "DSO (shared library)" /\ c["pic"].status = "bad"
           /\ c["pie"].value \in {"PIE enabled", "Static PIE", "DSO (shared library)",
                                  "REL (relocatable object)"} \/ c["pie"].status = "bad"
           /\ strippedRule(c) = "bad" <=> c["symbols"].status = "bad"
PROOF
<1>1. /\ c["relro"] \in possible("relro") /\ c["nx"] \in possible("nx")
      /\ c["bind_now"] \in possible("bind_now") /\ c["rpath"] \in possible("rpath")
      /\ c["pie"] \in possible("pie") /\ c["symbols"] \in possible("symbols")
  BY DEF covered, CheckKey, StackKey
<1>2. /\ byValue("relro", c["relro"]) /\ byValue("pie", c["pie"])
      /\ byValue("bind_now", c["bind_now"])
  BY <1>1, EntriesByValue
<1>3. /\ byStatus(c["nx"]) /\ byStatus(c["rpath"]) /\ byStatus(c["symbols"])
      /\ c["rpath"].status # "warn" /\ c["symbols"].status # "warn"
  BY <1>1, EntriesByStatus
<1>4. c["relro"].status = "bad" <=> relroRule(c) = "bad"
  BY <1>2 DEF relroRule, byValue, badValue, otherValues
<1>5. c["nx"].status = "bad" <=> nxRule(c) = "bad"
  BY <1>3 DEF nxRule, byStatus
<1>6. c["bind_now"].status = "bad" <=> bindNowRule(c) = "bad"
  BY <1>2 DEF bindNowRule, byValue, badValue, otherValues, Err, Bad
<1>7. c["rpath"].status = "bad" <=> rpathRule(c) = "bad"
  BY <1>3 DEF rpathRule, byStatus
<1>8. /\ c["pie"].value \in {"PIE enabled", "Static PIE", "DSO (shared library)",
                             "REL (relocatable object)"} \/ c["pie"].status = "bad"
      /\ pieRule(c) = "bad" <=>
            \/ c["pie"].status = "bad"
            \/ c["pie"].value = "DSO (shared library)" /\ c["pic"].status = "bad"
  BY <1>2 DEF pieRule, byValue, badValue, otherValues
<1>9. strippedRule(c) = "bad" <=> c["symbols"].status = "bad"
  BY <1>3 DEF strippedRule, byStatus
<1> QED BY <1>4, <1>5, <1>6, <1>7, <1>8, <1>9

LEMMA JudgedAlike ==
    ASSUME NEW r, sound(r)
    PROVE  /\ fails(r) => \/ violates(r)
                          \/ /\ r.checks["pie"].value \in {"PIE enabled", "Static PIE"}
                             /\ r.checks["pic"].status = "bad"
           /\ violates(r) => fails(r) \/ r.checks["symbols"].status = "bad"
PROOF
<1> DEFINE c == r.checks
<1>v. violates(r) <=> \/ pieRule(c) = "bad" \/ stackRule(c) = "bad" \/ relroRule(c) = "bad"
                      \/ bindNowRule(c) = "bad" \/ nxRule(c) = "bad"
                      \/ strippedRule(c) = "bad" \/ rpathRule(c) = "bad"
  BY DEF violates, RuleId, ruleVerdict
<1>f. fails(r) <=> \/ r.error # "" \/ ~StackProtectionPassed(c)
                   \/ \E k \in failKeys \ {"canary"} : c[k].status = "bad"
  BY DEF fails, failKeys
<1>s. stackRule(c) = "bad" <=> ~StackProtectionPassed(c)
  BY DEF stackRule
<1>1. CASE r.error = ""
  <2>1. \A k \in CheckKey : c[k] \in covered(k)
    BY <1>1 DEF sound
  <2>2. c["pie"].value = "REL (relocatable object)" => c["pic"].status # "bad"
    BY <1>1 DEF sound
  <2> HIDE DEF c
  <2> QED BY <1>1, <1>v, <1>f, <1>s, <2>1, <2>2, EntriesJudged DEF failKeys, c
<1>2. CASE r.error # ""
  <2>0. c = initialChecks
    BY <1>2 DEF sound
  <2>1. c["pie"] = Err /\ Err.value = "error checking"
    BY <2>0 DEF initialChecks, CheckKey, Err, Bad
  <2>2. pieRule(c) = "bad"
    BY <2>1 DEF pieRule
  <2> QED BY <1>2, <1>v, <1>f, <2>2
<1> QED BY <1>1, <1>2

(***************************************************************************)
(* hasFailures and the compliance rules judge every report of every scan     *)
(* alike, but for a PIE with text relocations and an unstripped binary.      *)
(***************************************************************************)
THEOREM GatesTheorem == Spec => []GatesAgree
PROOF
<1>1. IReports => GatesAgree
  BY JudgedAlike DEF IReports, GatesAgree
<1> QED BY <1>1, ReportsInvariant, PTL

-----------------------------------------------------------------------------
(***************************************************************************)
(* Without patches in place: when nobody overwrites an inode, a report is    *)
(* what CheckFile says of one image.                                         *)
(***************************************************************************)

\* The report owed for path p when os.Open found img.
owed(p, img) == IF img = NoImage THEN openError(p) ELSE reportOf(p, img)

ReportsOwed == \A i \in DOMAIN reports : reports[i] = owed(paths[i], seen[i])

(***************************************************************************)
(* The inductive invariant: the open descriptor still holds the image that   *)
(* os.Open found, the header is that image's, and the statements already run *)
(* have built the table tableBefore says.                                   *)
(***************************************************************************)
Holding == fd # NoInode => seen[Len(seen)] = disk[fd]

Building ==
    phase = "run" =>
        /\ parses(disk[fd]) /\ hdr = disk[fd].hdr
        /\ checks = tableBefore(step, disk[fd].hdr, disk[fd].body)

ISnapshot ==
    ~InPlace => Holding /\ Building /\ ReportsOwed /\ (phase = "parse" => checks = initialChecks)

LEMMA SnapshotInit == Init => ISnapshot
  BY DEF Init, ISnapshot, Holding, Building, ReportsOwed

\* Neither rename nor unlink reaches the inode of an open descriptor.
LEMMA DescriptorSafe ==
    ASSUME FileTypes, Writer, ~InPlace, fd \in Inode
    PROVE  disk'[fd] = disk[fd]
PROOF
<1>1. PICK p \in Path : \/ Unlink(p)
                        \/ \E q \in Path : Move(p, q)
                        \/ \E img \in Content : Install(p, img) \/ Rewrite(p, img)
  BY DEF Writer
<1>2. CASE Unlink(p) \/ \E q \in Path : Move(p, q)
  BY <1>2 DEF Unlink, Move
<1>3. CASE \E img \in Content : Install(p, img)
  <2>1. PICK img \in Content, i \in Inode \ inUse : disk' = [disk EXCEPT ![i] = img]
    BY <1>3 DEF Install
  <2>2. i # fd
    BY <2>1 DEF inUse
  <2> QED BY <2>1, <2>2 DEF FileTypes
<1> QED BY <1>1, <1>2, <1>3 DEF Rewrite

LEMMA SnapshotNext == ITypes /\ ISnapshot /\ [Next]_vars => ISnapshot'
PROOF
<1> SUFFICES ASSUME ITypes, ISnapshot, [Next]_vars, ~InPlace
             PROVE  (Holding /\ Building /\ ReportsOwed
                        /\ (phase = "parse" => checks = initialChecks))'
  BY DEF ISnapshot
<1>a. RunTypes /\ CheckTypes /\ FileTypes /\ Started
  BY DEF ITypes, TypeOK
<1>b. Holding /\ Building /\ ReportsOwed /\ (phase = "parse" => checks = initialChecks)
  BY DEF ISnapshot
<1>c. fd # NoInode => disk[fd] \in Content /\ disk[fd] # NoImage /\ disk[fd] \in Image
  BY <1>a, ScanAssumption DEF FileTypes, CheckTypes
<1>d. ASSUME NEW r \in Report, reports' = Append(reports, r), paths' = paths,
             r = owed(target, seen'[Len(reports) + 1]),
             \A i \in 1..Len(reports) : seen'[i] = seen[i]
      PROVE  ReportsOwed'
  <2>1. /\ DOMAIN reports' = 1..(Len(reports) + 1) /\ DOMAIN reports = 1..Len(reports)
        /\ reports'[Len(reports) + 1] = r
        /\ \A i \in 1..Len(reports) : reports'[i] = reports[i]
    BY <1>a, <1>d, AppendOne DEF RunTypes
  <2>2. \A i \in 1..(Len(reports) + 1) : i \in 1..Len(reports) \/ i = Len(reports) + 1
    BY <1>a DEF RunTypes
  <2> QED BY <1>b, <1>d, <2>1, <2>2 DEF ReportsOwed, target
<1>e. ASSUME Len(reports) < Len(paths) PROVE target \in Path
  BY <1>a, <1>e DEF target, RunTypes
<1>f. ASSUME NEW img \in Content \cup {NoImage}, seen' = Append(seen, img)
      PROVE  /\ Len(seen') = Len(seen) + 1 /\ seen'[Len(seen) + 1] = img
             /\ \A i \in 1..Len(seen) : seen'[i] = seen[i]
  BY <1>a, <1>f, AppendOne DEF CheckTypes
<1>1. CASE OpenFails
  <2>1. openError(target) \in Report /\ fd = NoInode /\ phase = "check"
    BY <1>1, <1>a, <1>e, ReportTypes DEF OpenFails, checking, CheckTypes
  <2>2. Len(seen) = Len(reports)
    BY <1>a, <2>1 DEF CheckTypes
  <2>3. /\ seen'[Len(reports) + 1] = NoImage
        /\ \A i \in 1..Len(reports) : seen'[i] = seen[i]
    BY <1>1, <1>f, <2>2 DEF OpenFails
  <2>4. ReportsOwed'
    BY <1>1, <1>d, <2>1, <2>3 DEF OpenFails, owed
  <2> QED BY <1>1, <2>1, <2>4 DEF OpenFails, Holding, Building
<1>2. CASE Open
  <2>1. files[target] \in Inode /\ disk[files[target]] \in Content /\ fd = NoInode
    BY <1>2, <1>a, <1>e DEF Open, checking, canOpen, exists, FileTypes, CheckTypes
  <2>2. Len(seen) = Len(reports) /\ DOMAIN reports = 1..Len(reports)
    BY <1>a, <2>1 DEF CheckTypes, RunTypes
  <2>3. /\ seen'[Len(seen')] = disk[files[target]]
        /\ \A i \in 1..Len(reports) : seen'[i] = seen[i]
    BY <1>2, <1>f, <2>1, <2>2 DEF Open
  <2>4. ReportsOwed'
    BY <1>2, <1>b, <2>2, <2>3 DEF Open, ReportsOwed
  <2> QED BY <1>2, <2>3, <2>4 DEF Open, fsVars, Holding, Building
<1>3. CASE ParseFails
  <2>1. fd # NoInode /\ Len(reports) < Len(paths) /\ Len(seen) = Len(reports) + 1
    BY <1>3, <1>a DEF ParseFails, CheckTypes
  <2>2. parseError(target) \in Report
    BY <1>e, <2>1, ReportTypes
  <2>3. parseError(target) = owed(target, seen[Len(reports) + 1])
    BY <1>3, <1>b, <1>c, <2>1 DEF ParseFails, Holding, owed, reportOf
  <2>4. ReportsOwed'
    BY <1>3, <1>d, <2>2, <2>3 DEF ParseFails
  <2> QED BY <1>3, <2>4 DEF ParseFails, Holding, Building
<1>4. CASE Parse
  <2>1. checks = initialChecks
    BY <1>4, <1>b DEF Parse
  <2>2. Building'
    BY <1>4, <2>1, TableStarts DEF Parse, fsVars, Building
  <2> QED BY <1>4, <1>b, <2>2 DEF Parse, fsVars, Holding, ReportsOwed
<1>5. CASE RunCheck
  <2>1. /\ step \in 1..LastStep /\ disk[fd].body \in Body /\ disk[fd].hdr \in Header
        /\ parses(disk[fd]) /\ hdr = disk[fd].hdr
        /\ checks = tableBefore(step, disk[fd].hdr, disk[fd].body)
    BY <1>5, <1>a, <1>b, <1>c, LastStepIs13 DEF RunCheck, CheckTypes, Image, Building
  <2>2. checks' = tableBefore(step + 1, disk[fd].hdr, disk[fd].body)
    BY <1>5, <2>1, TableAdvances DEF RunCheck
  <2>3. Building'
    BY <1>5, <2>1, <2>2 DEF RunCheck, fsVars, Building
  <2> QED BY <1>5, <1>b, <2>3 DEF RunCheck, fsVars, Holding, ReportsOwed
<1>6. CASE Return
  <2> DEFINE r == [name |-> target, error |-> "", checks |-> checks]
  <2>1. fd # NoInode /\ Len(reports) < Len(paths) /\ Len(seen) = Len(reports) + 1
    BY <1>6, <1>a DEF Return, CheckTypes
  <2>2. step = LastStep + 1
    <3>1. step > LastStep
      BY <1>6 DEF Return
    <3> QED BY <1>a, <3>1, LastStepIs13 DEF CheckTypes
  <2>3. r \in Report
    BY <1>6, <1>a, <1>e, <2>1, ReportTypes DEF CheckTypes
  <2>4. checks = linked(disk[fd].hdr, disk[fd].body) /\ parses(disk[fd])
    BY <1>6, <1>b, <1>c, <2>1, <2>2, TableEnds DEF Return, Building, Image
  <2>5. r = owed(target, seen[Len(reports) + 1])
    BY <1>b, <1>c, <2>1, <2>4 DEF Holding, owed, reportOf, linked
  <2>6. /\ reports' = Append(reports, r) /\ phase' = "check" /\ fd' = NoInode
        /\ paths' = paths /\ seen' = seen
    BY <1>6 DEF Return
  <2> HIDE DEF r
  <2>7. ReportsOwed'
    BY <1>d, <2>3, <2>5, <2>6
  <2> QED BY <2>6, <2>7 DEF Holding, Building
<1>7. CASE Usage \/ StartFile \/ ReadList \/ StartFails \/ StartDir
  <2>1. phase = "start" /\ reports = <<>> /\ reports' = <<>> /\ fd = NoInode /\ fd' = NoInode
    BY <1>7, <1>a
    DEF Usage, StartFile, ReadList, StartFails, StartDir, Started, CheckTypes
  <2>2. phase' \notin {"parse", "run"}
    BY <1>7 DEF Usage, StartFile, ReadList, StartFails, StartDir, return
  <2> QED BY <2>1, <2>2 DEF Holding, Building, ReportsOwed
<1>8. CASE VisitFile
  <2>1. /\ \A i \in 1..Len(paths) : paths'[i] = paths[i]
        /\ DOMAIN reports \subseteq 1..Len(paths)
    BY <1>8, <1>a, AppendOne DEF VisitFile, walking, RunTypes
  <2> QED BY <1>8, <1>b, <2>1 DEF VisitFile, walking, fsVars, Holding, Building, ReportsOwed
<1>9. CASE VisitDir \/ ReadDirFails \/ WalkDone \/ NoBinaries
  BY <1>9, <1>b
  DEF VisitDir, ReadDirFails, WalkDone, NoBinaries, walking, return, fsVars,
      Holding, Building, ReportsOwed
<1>10. CASE PrintReports \/ PrintReportsFails \/ Gate
  BY <1>10, <1>b
  DEF PrintReports, PrintReportsFails, Gate, return, fsVars, Holding, Building, ReportsOwed
<1>11. CASE Writer
  <2>1. fd \in Inode => disk'[fd] = disk[fd]
    BY <1>11, <1>a, DescriptorSafe
  <2>2. phase = "run" => fd \in Inode
    BY <1>a DEF CheckTypes
  <2> QED BY <1>11, <1>a, <1>b, <2>1, <2>2, WriterKeepsProc
      DEF procVars, CheckTypes, Holding, Building, ReportsOwed
<1>12. CASE UNCHANGED vars
  BY <1>12, <1>b DEF vars, procVars, fsVars, Holding, Building, ReportsOwed
<1> QED
  BY <1>1, <1>2, <1>3, <1>4, <1>5, <1>6, <1>7, <1>8, <1>9, <1>10, <1>11, <1>12 DEF Next, scc

LEMMA SnapshotInvariant == Spec => [](ITypes /\ IReports /\ ISnapshot)
  BY TypesInit, TypesNext, ReportsInit, ReportsNext, SnapshotInit, SnapshotNext, PTL DEF Spec

(***************************************************************************)
(* Files may be installed, moved and removed in any order during a scan:     *)
(* every report is what CheckFile says of the one image its os.Open found.   *)
(***************************************************************************)
THEOREM SnapshotTheorem == Spec => []SnapshotReports
PROOF
<1>1. ISnapshot => SnapshotReports
  BY DEF ISnapshot, ReportsOwed, owed, SnapshotReports
<1> QED BY <1>1, SnapshotInvariant, PTL

relroBinds(r) == r.checks["relro"].value = "Full RELRO" => r.checks["bind_now"].value = "Bind now"

LEMMA RelroBinds ==
    ASSUME NEW p, NEW img
    PROVE  relroBinds(owed(p, img))
PROOF
<1> DEFINE h == img.hdr
           b == img.body
           c == owed(p, img).checks
<1>1. CASE img = NoImage \/ ~parses(img)
  <2>1. c = initialChecks
    BY <1>1 DEF owed, reportOf, openError, parseError
  <2>2. c["relro"] = Err /\ Err.value = "error checking"
    BY <2>1 DEF initialChecks, CheckKey, Err, Bad
  <2> QED BY <2>2 DEF relroBinds
<1>2. CASE img # NoImage /\ parses(img)
  <2>1. c = linkStackProtection(verdicts(h, b))
    BY <1>2 DEF owed, reportOf
  <2>2. c["relro"] = RELRO(h, b) /\ c["bind_now"] = BindNow(h, b)
    BY <2>1 DEF linkStackProtection, verdicts, verdict, CheckKey, StackKey
  <2>3. ~bindNowOf(h, b) => RELRO(h, b).value # "Full RELRO"
    BY DEF RELRO, NA, Bad, Warn
  <2>4. bindNowOf(h, b) => BindNow(h, b).value = "Bind now"
    BY DEF BindNow, OK
  <2> QED BY <2>2, <2>3, <2>4 DEF relroBinds
<1> QED BY <1>1, <1>2

(***************************************************************************)
(* Then "Full RELRO" never stands beside "Lazy binding".  With a file        *)
(* patched in place between the two statements it may.                       *)
(***************************************************************************)
THEOREM FullRelroTheorem ==
    ASSUME ~InPlace
    PROVE  Spec => []FullRelroIsBoundNow
PROOF
<1>1. ISnapshot => FullRelroIsBoundNow
  <2>1. \A p, img : relroBinds(owed(p, img))
    BY RelroBinds
  <2>2. ISnapshot => \A i \in DOMAIN reports : relroBinds(reports[i])
    BY <2>1 DEF ISnapshot, ReportsOwed
  <2> QED BY <2>2 DEF FullRelroIsBoundNow, relroBinds
<1> QED BY <1>1, SnapshotInvariant, PTL

-----------------------------------------------------------------------------
(***************************************************************************)
(* What nobody touched is as the scan found it.                             *)
(***************************************************************************)
LEMMA UntouchedKept ==
    ASSUME FileTypes, Writer, NEW p \in Path, p \notin touched'
    PROVE  /\ p \notin touched /\ files'[p] = files[p]
           /\ exists(p) => disk'[files[p]] = disk[files[p]]
PROOF
<1>1. PICK q \in Path : \/ Unlink(q)
                        \/ \E r \in Path : Move(q, r)
                        \/ \E img \in Content : Install(q, img) \/ Rewrite(q, img)
  BY DEF Writer
<1>2. CASE Unlink(q)
  BY <1>2 DEF Unlink, FileTypes
<1>3. CASE \E r \in Path : Move(q, r)
  BY <1>3 DEF Move, FileTypes
<1>4. CASE \E img \in Content : Install(q, img)
  <2>1. PICK img \in Content, i \in Inode \ inUse :
           /\ files' = [files EXCEPT ![q] = i] /\ disk' = [disk EXCEPT ![i] = img]
           /\ touched' = touched \cup {q}
    BY <1>4 DEF Install
  <2>2. i # files[p] /\ p # q
    BY <2>1 DEF inUse
  <2> QED BY <2>1, <2>2 DEF FileTypes, exists
<1>5. CASE \E img \in Content : Rewrite(q, img)
  <2>1. PICK img \in Content : disk' = [disk EXCEPT ![files[q]] = img]
    BY <1>5 DEF Rewrite
  <2>2. exists(q) /\ files' = files /\ touched' = touched \cup {q}
    BY <1>5 DEF Rewrite
  <2>3. p # q /\ (exists(p) => files[p] # files[q])
    BY <2>2 DEF FileTypes, exists
  <2> QED BY <2>1, <2>2, <2>3 DEF FileTypes, exists
<1> QED BY <1>1, <1>2, <1>3, <1>4, <1>5

LEMMA UntouchedElf ==
    ASSUME FileTypes, Writer, NEW p \in Path, p \notin touched', isELF(p)
    PROVE  p \notin touched /\ isELF(p)'
  BY UntouchedKept DEF isELF, canOpen, exists

\* A patch in place keeps an ELF file an ELF file.
LEMMA DescriptorKind ==
    ASSUME FileTypes, Writer, fd \in Inode
    PROVE  disk'[fd].kind = disk[fd].kind
PROOF
<1>1. CASE \E p \in Path, img \in Content : Rewrite(p, img)
  <2>1. PICK p \in Path, img \in Content : Rewrite(p, img)
    BY <1>1
  <2>2. disk' = [disk EXCEPT ![files[p]] = img] /\ disk[files[p]].kind = img.kind
    BY <2>1 DEF Rewrite
  <2> QED BY <2>2 DEF FileTypes
<1>2. CASE \E p \in Path, img \in Content : Install(p, img)
  <2>1. PICK p \in Path, img \in Content, i \in Inode \ inUse : disk' = [disk EXCEPT ![i] = img]
    BY <1>2 DEF Install
  <2>2. i # fd
    BY <2>1 DEF inUse
  <2> QED BY <2>1, <2>2 DEF FileTypes
<1>3. CASE \E p \in Path : Unlink(p) \/ \E q \in Path : Move(p, q)
  BY <1>3 DEF Unlink, Move
<1> QED BY <1>1, <1>2, <1>3 DEF Writer

(***************************************************************************)
(* The inductive invariant of a directory scan: a target nobody touched      *)
(* still has the ELF magic the walk saw; what CheckFile has open had it at    *)
(* its os.Open, and is the same kind of file still.                         *)
(***************************************************************************)
magic(img) == img.kind \in {"elf", "truncated"}

explained(i) ==
    reports[i].error # "" => \/ paths[i] \in touched
                             \/ seen[i] # NoImage /\ seen[i].kind = "truncated"

dirScan == usable /\ job.cmd = "dir"

IWalked ==
    dirScan =>
        /\ \A i \in DOMAIN paths : paths[i] \in touched \/ isELF(paths[i])
        /\ fd # NoInode => /\ seen[Len(seen)] \in Content
                           /\ seen[Len(seen)].kind = disk[fd].kind
                           /\ target \in touched \/ magic(disk[fd])
        /\ \A i \in DOMAIN reports : explained(i)

LEMMA JobKept == ASSUME [Next]_vars PROVE job' = job
PROOF
<1>1. CASE scc
  BY <1>1
  DEF scc, Usage, StartFile, ReadList, StartFails, StartDir, VisitDir, ReadDirFails, VisitFile,
      WalkDone, NoBinaries, OpenFails, Open, ParseFails, Parse, RunCheck, Return,
      PrintReports, PrintReportsFails, Gate
<1>2. CASE Writer \/ UNCHANGED vars
  BY <1>2, WriterKeepsProc DEF vars, procVars
<1> QED BY <1>1, <1>2 DEF Next

LEMMA WalkedInit == Init => IWalked
  BY DEF Init, IWalked

LEMMA WalkedNext == ITypes /\ IWalked /\ [Next]_vars => IWalked'
PROOF
<1> SUFFICES ASSUME ITypes, IWalked, [Next]_vars, dirScan'
             PROVE  /\ (\A i \in DOMAIN paths : paths[i] \in touched \/ isELF(paths[i]))'
                    /\ (fd # NoInode => /\ seen[Len(seen)] \in Content
                                        /\ seen[Len(seen)].kind = disk[fd].kind
                                        /\ target \in touched \/ magic(disk[fd]))'
                    /\ (\A i \in DOMAIN reports : explained(i))'
  BY DEF IWalked
<1>a. RunTypes /\ CheckTypes /\ FileTypes /\ Started
  BY DEF ITypes, TypeOK
<1>b. job' = job
  BY JobKept
<1>c. dirScan
  BY <1>b DEF dirScan, usable, scans
<1>d. /\ \A i \in DOMAIN paths : paths[i] \in touched \/ isELF(paths[i])
      /\ fd # NoInode => /\ seen[Len(seen)] \in Content
                         /\ seen[Len(seen)].kind = disk[fd].kind
                         /\ target \in touched \/ magic(disk[fd])
      /\ \A i \in DOMAIN reports : explained(i)
  BY <1>c DEF IWalked
<1>e. fd # NoInode => fd \in Inode
  BY <1>a DEF CheckTypes
<1>f. /\ DOMAIN paths = 1..Len(paths) /\ DOMAIN reports = 1..Len(reports)
      /\ Len(paths) \in Nat /\ Len(reports) \in Nat /\ Len(reports) <= Len(paths)
      /\ \A i \in DOMAIN paths : paths[i] \in Path
      /\ Len(seen) = Len(reports) + (IF fd = NoInode THEN 0 ELSE 1)
  BY <1>a DEF RunTypes, CheckTypes
\* A step of scc that leaves the files, and so what the walk saw, alone.
<1>g. ASSUME UNCHANGED <<files, disk, touched>>
      PROVE  \A p \in Path : isELF(p)' <=> isELF(p)
  BY <1>g DEF isELF, canOpen, exists
\* ... and makes no report, or one more.
<1>h. ASSUME UNCHANGED <<paths, reports, seen, fd>>, UNCHANGED fsVars
      PROVE  /\ (\A i \in DOMAIN paths : paths[i] \in touched \/ isELF(paths[i]))'
             /\ (fd # NoInode => /\ seen[Len(seen)] \in Content
                                 /\ seen[Len(seen)].kind = disk[fd].kind
                                 /\ target \in touched \/ magic(disk[fd]))'
             /\ (\A i \in DOMAIN reports : explained(i))'
  BY <1>d, <1>h DEF fsVars, isELF, canOpen, exists, target, explained
<1>i. ASSUME UNCHANGED <<paths, touched>>, NEW r \in Report, reports' = Append(reports, r),
             \A i \in 1..Len(reports) : seen'[i] = seen[i],
             r.error # "" => \/ target \in touched
                             \/ /\ seen'[Len(reports) + 1] # NoImage
                                /\ seen'[Len(reports) + 1].kind = "truncated"
      PROVE  (\A i \in DOMAIN reports : explained(i))'
  <2>0. reports \in Seq(Report) /\ reports' = Append(reports, r)
    BY <1>a, <1>i DEF RunTypes
  <2>1. /\ DOMAIN reports' = 1..(Len(reports) + 1) /\ reports'[Len(reports) + 1] = r
        /\ \A i \in 1..Len(reports) : reports'[i] = reports[i]
    BY <2>0, AppendOne
  <2>2. \A i \in 1..(Len(reports) + 1) : i \in 1..Len(reports) \/ i = Len(reports) + 1
    BY <1>f
  <2> QED BY <1>d, <1>f, <1>i, <2>1, <2>2 DEF explained, target
<1>j. ASSUME NEW img \in Content \cup {NoImage}, seen' = Append(seen, img)
      PROVE  /\ Len(seen') = Len(seen) + 1 /\ seen'[Len(seen) + 1] = img
             /\ \A i \in 1..Len(seen) : seen'[i] = seen[i]
  BY <1>a, <1>j, AppendOne DEF CheckTypes
<1>k. ASSUME Len(reports) < Len(paths)
      PROVE  target \in Path /\ (target \in touched \/ isELF(target))
  <2>1. Len(reports) + 1 \in DOMAIN paths
    BY <1>f, <1>k
  <2> QED BY <1>d, <1>f, <2>1 DEF target
<1>1. CASE Usage \/ StartFails \/ StartDir \/ VisitDir \/ ReadDirFails
  BY <1>1, <1>h DEF Usage, StartFails, StartDir, VisitDir, ReadDirFails
<1>2. CASE StartFile \/ ReadList
  BY <1>2, <1>c DEF StartFile, ReadList, dirScan
<1>3. CASE VisitFile
  <2>0. UNCHANGED <<reports, fd, seen, files, disk, touched>>
    BY <1>3 DEF VisitFile, fsVars
  <2>1. /\ DOMAIN paths' \subseteq 1..(Len(paths) + 1)
        /\ \A i \in 1..Len(paths) : paths'[i] = paths[i]
        /\ Len(paths) + 1 \in DOMAIN paths' => isELF(paths'[Len(paths) + 1])
    <3>1. CASE isELF(Head(todo))
      BY <1>3, <1>a, <3>1, AppendOne DEF VisitFile, walking, RunTypes
    <3>2. CASE ~isELF(Head(todo))
      BY <1>3, <1>f, <3>2 DEF VisitFile
    <3> QED BY <3>1, <3>2
  <2>2. \A i \in 1..(Len(paths) + 1) : i \in 1..Len(paths) \/ i = Len(paths) + 1
    BY <1>f
  <2>3. (\A i \in DOMAIN paths : paths[i] \in touched \/ isELF(paths[i]))'
    BY <1>d, <1>f, <2>0, <2>1, <2>2 DEF isELF, canOpen, exists
  <2>4. fd = NoInode
    BY <1>3, <1>a DEF VisitFile, walking, CheckTypes
  <2>5. \A i \in DOMAIN reports : paths'[i] = paths[i]
    BY <1>f, <2>1
  <2>6. (\A i \in DOMAIN reports : explained(i))'
    BY <1>d, <2>0, <2>5 DEF explained
  <2> QED BY <2>0, <2>3, <2>4, <2>6
<1>4. CASE WalkDone \/ NoBinaries
  BY <1>4, <1>h DEF WalkDone, NoBinaries
<1>5. CASE OpenFails
  <2>1. /\ Len(reports) < Len(paths) /\ ~canOpen(target) /\ fd = NoInode /\ fd' = NoInode
        /\ UNCHANGED <<paths, files, disk, touched>>
    BY <1>5, <1>a DEF OpenFails, checking, CheckTypes, fsVars
  <2>2. target \in touched /\ openError(target) \in Report
    BY <1>k, <2>1, ReportTypes DEF isELF
  <2>3. \A i \in 1..Len(reports) : seen'[i] = seen[i]
    BY <1>5, <1>f, <1>j, <2>1 DEF OpenFails
  <2>4. (\A i \in DOMAIN reports : explained(i))'
    BY <1>5, <1>i, <2>1, <2>2, <2>3 DEF OpenFails
  <2> QED BY <1>d, <2>1, <2>4 DEF isELF, canOpen, exists
<1>6. CASE Open
  <2> DEFINE img == disk[files[target]]
  <2>1. /\ Len(reports) < Len(paths) /\ canOpen(target) /\ fd = NoInode
        /\ UNCHANGED <<paths, reports, files, disk, touched>>
        /\ seen' = Append(seen, img) /\ fd' = files[target]
    BY <1>6, <1>a DEF Open, checking, CheckTypes, fsVars
  <2>2. img \in Content
    BY <1>a, <1>k, <2>1 DEF canOpen, exists, FileTypes
  <2>3. target \in touched \/ magic(img)
    BY <1>k, <2>1 DEF isELF, magic
  <2>4. /\ seen'[Len(seen')] = img
        /\ \A i \in 1..Len(reports) : seen'[i] = seen[i]
    BY <1>f, <1>j, <2>1, <2>2
  <2>5. (\A i \in DOMAIN reports : explained(i))'
    BY <1>d, <1>f, <2>1, <2>4 DEF explained
  <2>6. target' = target
    BY <2>1 DEF target
  <2> QED BY <1>d, <2>1, <2>2, <2>3, <2>4, <2>5, <2>6 DEF isELF, canOpen, exists
<1>7. CASE ParseFails
  <2>1. /\ fd # NoInode /\ Len(reports) < Len(paths) /\ Len(seen) = Len(reports) + 1
        /\ disk[fd].kind # "elf" /\ fd' = NoInode
        /\ UNCHANGED <<paths, seen, files, disk, touched>>
    BY <1>7, <1>a DEF ParseFails, CheckTypes, parses, fsVars
  <2>2. \/ target \in touched
        \/ seen[Len(reports) + 1] # NoImage /\ seen[Len(reports) + 1].kind = "truncated"
    BY <1>d, <2>1, ScanAssumption DEF magic
  <2>3. (\A i \in DOMAIN reports : explained(i))'
    BY <1>7, <1>i, <1>k, <2>1, <2>2, ReportTypes DEF ParseFails
  <2> QED BY <1>d, <2>1, <2>3 DEF isELF, canOpen, exists
<1>8. CASE Parse \/ RunCheck
  BY <1>8, <1>h DEF Parse, RunCheck
<1>9. CASE Return
  <2> DEFINE r == [name |-> target, error |-> "", checks |-> checks]
  <2>1. fd # NoInode /\ Len(reports) < Len(paths) /\ checks \in CheckTable
    BY <1>9, <1>a DEF Return, CheckTypes
  <2>2. r \in Report /\ r.error = ""
    BY <1>k, <2>1, ReportTypes
  <2>3. /\ reports' = Append(reports, r) /\ fd' = NoInode
        /\ UNCHANGED <<paths, seen, files, disk, touched>>
    BY <1>9 DEF Return, fsVars
  <2> HIDE DEF r
  <2>4. (\A i \in DOMAIN reports : explained(i))'
    BY <1>i, <2>2, <2>3
  <2> QED BY <1>d, <2>3, <2>4 DEF isELF, canOpen, exists
<1>10. CASE PrintReports \/ PrintReportsFails \/ Gate
  BY <1>10, <1>h DEF PrintReports, PrintReportsFails, Gate
<1>11. CASE Writer
  <2>1. UNCHANGED <<paths, reports, seen, fd>>
    BY <1>11, WriterKeepsProc DEF procVars
  <2>2. touched \subseteq touched'
    BY <1>11 DEF Writer, Unlink, Move, Install, Rewrite
  <2>3. (\A i \in DOMAIN paths : paths[i] \in touched \/ isELF(paths[i]))'
    <3> SUFFICES ASSUME NEW i \in DOMAIN paths, paths[i] \notin touched' PROVE isELF(paths[i])'
      BY <2>1
    <3>1. isELF(paths[i]) /\ paths[i] \in Path
      BY <1>d, <1>f, <2>2
    <3>2. PICK p \in Path : p = paths[i]
      BY <3>1
    <3>3. isELF(p)'
      BY <1>11, <1>a, <3>1, <3>2, UntouchedElf
    <3>4. p = paths'[i]
      BY <2>1, <3>2
    <3> QED BY <3>3, <3>4 DEF isELF, canOpen, exists
  <2>4. fd # NoInode => disk'[fd].kind = disk[fd].kind
    BY <1>11, <1>a, <1>e, DescriptorKind
  <2>5. target' = target
    BY <2>1 DEF target
  <2> QED BY <1>d, <2>1, <2>2, <2>3, <2>4, <2>5 DEF magic, explained
<1>12. CASE UNCHANGED vars
  BY <1>12, <1>h DEF vars, procVars
<1> QED
  BY <1>1, <1>2, <1>3, <1>4, <1>5, <1>6, <1>7, <1>8, <1>9, <1>10, <1>11, <1>12 DEF Next, scc

(***************************************************************************)
(* A directory scan reports an error only for a file that was touched after  *)
(* the walk saw its magic, or that has the magic and is damaged; also when   *)
(* files are patched in place.                                              *)
(***************************************************************************)
THEOREM DirErrorsTheorem == Spec => []DirErrorsExplained
PROOF
<1>1. IWalked => DirErrorsExplained
  BY DEF IWalked, dirScan, explained, DirErrorsExplained
<1> QED BY <1>1, TypesInit, TypesNext, WalkedInit, WalkedNext, PTL DEF Spec
=============================================================================
