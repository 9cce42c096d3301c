----------------------------- MODULE Documented -----------------------------
(***************************************************************************)
(* What the documentation, the usage text and the comments say of a scan,    *)
(* where the code does something else.  Each statement is refuted by a run   *)
(* of its own.                                                              *)
(***************************************************************************)
EXTENDS Stripping

(***************************************************************************)
(* main.go:57: exit code 1 for an I/O error; 0 and 2 are verdicts on what    *)
(* was printed.  Table and Compliance drop the error of the write.           *)
(***************************************************************************)
VerdictIsPrinted == exit \in {0, 2} /\ paths # <<>> => written

(***************************************************************************)
(* README.md:24: without section headers the dynamic symbol table is read    *)
(* through the program headers and detection stays valid.  Only STT_FUNC     *)
(* names are read that way.                                                 *)
(***************************************************************************)
StrippedStillDetected ==
    \A i \in scanned :
        LET img == seen[i]
        IN  wellFormed(img) /\ unambiguous(img) /\ hasStackProtection(strip(img)) =>
                (fails(reportOf(paths[i], strip(img))) <=> fails(reports[i]))
=============================================================================
