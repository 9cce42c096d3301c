------------------------------ MODULE Stripping -----------------------------
(***************************************************************************)
(* How verdicts move when the image does: the section headers are stripped,  *)
(* or one more protection is linked in.  The properties compare the report   *)
(* a scan made of an image with the report of the changed image.             *)
(***************************************************************************)
EXTENDS Scan

CONSTANT CanarySymbol   \* an imported canary function

\* The symbol tables of a file are finite.
ASSUME SymbolsAssumption ==
    /\ CanarySymbol \in Symbol /\ isCanarySymbol(CanarySymbol.name)
    /\ \A img \in Content : IsFiniteSet(img.body.dynsym \cup img.body.symtab)

\* sstrip, llvm-objcopy --strip-sections: the section header table and what
\* only a section leads to are gone, segments stay.
strip(img) == [img EXCEPT !.hdr.sections = {}, !.body.symtab = {}]

\* The reports of images that parse, when the exit code is about to be chosen.
scanned == {i \in DOMAIN reports : phase = "gate" /\ seen[i] # NoImage /\ parses(seen[i])}

tools == {"relro", "bind_now", "pie", "pic", "nx", "rpath", "runpath"}

(***************************************************************************)
(* Stripping the section headers of a linked image changes no verdict that   *)
(* counts, as long as its stack protection has evidence that survives: the   *)
(* program-header path of dyn.go returns what the section path of debug/elf  *)
(* returned.                                                                *)
(***************************************************************************)
StripKeepsVerdicts ==
    \A i \in scanned :
        LET img   == seen[i]
            whole == reports[i]
            bare  == reportOf(paths[i], strip(img))
        IN  wellFormed(img) =>
              /\ \A k \in tools : bare.checks[k] = whole.checks[k]
              /\ unambiguous(img) /\ evident(strip(img)) /\ hasStackProtection(strip(img))
                    => (fails(bare) <=> fails(whole))

(***************************************************************************)
(* Stripping never makes a protection appear: stack protection and fortified *)
(* calls are reported for the stripped image only if they are for the whole. *)
(***************************************************************************)
StripInventsNothing ==
    \A i \in scanned :
        LET bare == reportOf(paths[i], strip(seen[i]))
        IN  unambiguous(seen[i]) /\ ".dynsym" \in seen[i].hdr.sections =>
              \A k \in StackKey \cup {"fortify"} :
                  bare.checks[k].status = "good" => reports[i].checks[k].status = "good"

-----------------------------------------------------------------------------
\* Ways to link one more protection into an image.
bind(img, tag)  == [img EXCEPT !.body.dyn = @ \cup {tag}]
segment(img, s) == [img EXCEPT !.hdr.segs = @ \cup {s}]

hardenings(img) ==
    {bind(img, tag) : tag \in {"BIND_NOW", "DF_BIND_NOW", "DF_1_NOW", "DF_1_PIE"}}
        \cup {segment(img, s) : s \in {"GNU_RELRO", "RETGUARD"}}
        \cup {[img EXCEPT !.hdr.segs = (@ \ {"GNU_STACK_X"}) \cup {"GNU_STACK"}],
              [img EXCEPT !.body.dyn = @ \ {"TEXTREL", "DF_TEXTREL"}],
              [img EXCEPT !.body.rpath = {}],
              [img EXCEPT !.body.dynsym = @ \cup {CanarySymbol}],
              [img EXCEPT !.body.pac = @ \cup {"text"}]}

(***************************************************************************)
(* More protection never fails a gate: a linked image that passes            *)
(* hasFailures, or the compliance rules, still does with one more            *)
(* protection, whichever columns linkStackProtection then rewrites and       *)
(* whichever way PIE and PIC classify it.                                    *)
(***************************************************************************)
HardeningMonotone ==
    \A i \in scanned : seen[i].hdr.segs # {} =>
        \A img \in hardenings(seen[i]) :
            LET r == reportOf(paths[i], img)
            IN  /\ fails(r) => fails(reports[i])
                /\ violates(r) => violates(reports[i])
=============================================================================
