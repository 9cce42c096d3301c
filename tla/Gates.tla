------------------------------- MODULE Gates --------------------------------
(***************************************************************************)
(* The two gates that turn reports into an exit code: hasFailures of         *)
(* cmd/scc/main.go for the table, json, csv and xml formats, and the         *)
(* secure-compile rules of compliance.go for the compliance formats.  Below  *)
(* them, reference definitions of what a gate should let through, written    *)
(* on the image and not on the report.                                      *)
(***************************************************************************)
EXTENDS Checks

\* Faults: a key that was never added to the list.
failKeysNoBind == {"relro", "canary", "nx", "pie", "pic", "rpath"}
failKeysNoNX   == {"relro", "canary", "pie", "pic", "bind_now", "rpath"}

failKeys == {"relro", "canary", "nx", "pie", "pic", "bind_now", "rpath"}

\* hasFailures, for one report.
fails(r) ==
    \/ r.error # ""
    \/ \E k \in failKeys :
          IF k = "canary" THEN ~StackProtectionPassed(r.checks)
                          ELSE r.checks[k].status = "bad"

-----------------------------------------------------------------------------
(***************************************************************************)
(* complianceRules: the status of each rule's verdict on a table of checks.  *)
(***************************************************************************)
RuleId == {"pie", "stack_protector", "relro", "bind_now", "nx", "stripped",
           "no_rpath"}

pieRule(c) ==
    CASE c["pie"].value \in {"PIE enabled", "Static PIE"} -> "good"
      [] c["pie"].value = "DSO (shared library)" ->
            IF c["pic"].status = "bad" THEN "bad" ELSE "good"
      [] c["pie"].value = "REL (relocatable object)" -> "n/a"
      [] OTHER -> "bad"

stackRule(c) == IF StackProtectionPassed(c) THEN "good" ELSE "bad"

relroRule(c) ==
    CASE c["relro"].value \in {"Full RELRO", "Partial RELRO"} -> "good"
      [] c["relro"].value = "N/A" -> "n/a"
      [] OTHER -> "bad"

\* "error checking bind_now" is the one error value the rules know.
bindNowRule(c) ==
    CASE c["bind_now"].value = "Bind now" -> "good"
      [] c["bind_now"].value = Err.value -> "n/a"
      [] OTHER -> "bad"

\* Fault: a missing GNU_STACK is a violation.
nxRuleStrict(c) ==
    CASE c["nx"].status = "good" -> "good"
      [] c["nx"].status = "n/a"  -> "n/a"
      [] OTHER -> "bad"

nxRule(c) ==
    CASE c["nx"].status = "good" -> "good"
      [] c["nx"].status \in {"warn", "n/a"} -> "n/a"
      [] OTHER -> "bad"

strippedRule(c) == IF c["symbols"].status = "good" THEN "good" ELSE "bad"

rpathRule(c) == IF c["rpath"].status \in {"good", "bad"}
                THEN c["rpath"].status ELSE "n/a"

ruleVerdict(id, c) ==
    CASE id = "pie"             -> pieRule(c)
      [] id = "stack_protector" -> stackRule(c)
      [] id = "relro"           -> relroRule(c)
      [] id = "bind_now"        -> bindNowRule(c)
      [] id = "nx"              -> nxRule(c)
      [] id = "stripped"        -> strippedRule(c)
      [] id = "no_rpath"        -> rpathRule(c)

\* Compliance(r).Fail > 0.
violates(r) == \E id \in RuleId : ruleVerdict(id, r.checks) = "bad"

-----------------------------------------------------------------------------
(***************************************************************************)
(* References: what a link editor put into the image, with no regard to      *)
(* which headers are left to find it with.                                   *)
(***************************************************************************)
linkedSymbols(img) == {s.name : s \in img.body.dynsym \cup img.body.symtab}

hasStackProtection(img) ==
    \/ \E n \in linkedSymbols(img) : n.base \in CanaryBase
    \/ /\ img.hdr.machine = "AARCH64"
       /\ \/ "text" \in img.body.pac
          \/ ".ohos.randomdata" \in img.hdr.sections
          \/ "RETGUARD" \in img.hdr.segs

bindsNow(img) == img.body.dyn \cap {"BIND_NOW", "DF_BIND_NOW", "DF_1_NOW"} # {}

isPIE(img) == /\ img.hdr.type = "DYN"
              /\ "INTERP" \in img.hdr.segs \/ "DF_1_PIE" \in img.body.dyn

hasTextRelocations(img) ==
    img.hdr.type = "DYN" /\ img.body.dyn \cap {"TEXTREL", "DF_TEXTREL"} # {}

\* A linked image: dynamic entries, and the tables they name, lie in a segment
\* that a PT_DYNAMIC / PT_LOAD reaches; strings need a string table; a table
\* found only by its section has that section.
wellFormed(img) ==
    LET h == img.hdr
        b == img.body
    IN  /\ b.dyn # {} => {"DYNAMIC", "LOAD"} \subseteq h.segs /\ {"STRTAB", "SYMTAB"} \subseteq b.dyn
        /\ b.rpath \cup b.runpath \cup b.needed # {} => b.dyn # {}
        /\ b.symtab # {} => ".symtab" \in h.sections

\* Nothing is mistaken for protection: no bytes after the symbol table read as
\* a symbol, and pacibsp does not occur only in stubs outside .text.
unambiguous(img) == img.body.trailing = {} /\ img.body.pac # {"other"}

\* The checks can find what is there: a canary symbol is in a table that has a
\* section or is an imported function, the dynamic entries and the symbol table
\* are where some header says, the code has a section or segment, and NX looks
\* at all program headers.
evident(img) ==
    LET h == img.hdr
        b == img.body
        reachable == phdrSymbolNames(h, b) \cup importedNames(h, b)
    IN  /\ \A s \in b.dynsym : isCanarySymbol(s.name) => s.name \in reachable
        /\ b.symtab # {} => ".symtab" \in h.sections
        /\ b.dyn # {} => "DYNAMIC" \in h.segs \/ ".dynamic" \in h.sections
        /\ b.pac # {} => "LOAD" \in h.segs \/ ".text" \in h.sections
        /\ "CROWD" \notin h.segs

\* The requirements both gates share.
hardenedCore(img) ==
    /\ parses(img)
    /\ hasStackProtection(img)
    /\ img.hdr.type # "EXEC"
    /\ "GNU_RELRO" \in img.hdr.segs \/ img.hdr.segs = {}
    /\ bindsNow(img)
    /\ "GNU_STACK_X" \notin img.hdr.segs
    /\ img.body.rpath = {}

\* What the table formats gate on ...
Hardened(img) == hardenedCore(img) /\ ~hasTextRelocations(img)

\* ... and what the compliance formats gate on.
Compliant(img) ==
    /\ hardenedCore(img)
    /\ hasTextRelocations(img) => isPIE(img)
    /\ img.body.symtab = {}
=============================================================================
