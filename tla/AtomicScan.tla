----------------------------- MODULE AtomicScan -----------------------------
(***************************************************************************)
(* What a scan promises when files are replaced but never patched in place:  *)
(* it settles on a list of targets, reports each of them in order by one     *)
(* atomic look at what its path names, and then passes one verdict on all    *)
(* the reports, or gives up with exit code 1 and no verdict.                 *)
(*                                                                          *)
(* No inode, descriptor, header, statement counter or walk is visible here.  *)
(***************************************************************************)
EXTENDS Naturals, Sequences

CONSTANTS
    Path, NoImage, Content, NotExited,
    openError(_), reportOf(_, _),   \* what CheckFile reports
    fails(_), violates(_)           \* the gates on one report

VARIABLES
    content,   \* Path -> the image it names, or NoImage
    format,    \* the format of the command line
    targets,   \* <<>> until the scan has settled on its targets
    settled,
    reports,
    exit

vars == <<content, format, targets, settled, reports, exit>>

Init ==
    /\ content \in [Path -> Content \cup {NoImage}]
    /\ targets = <<>> /\ settled = FALSE /\ reports = <<>> /\ exit = NotExited

\* One look at a path: the whole of CheckFile.
look(p) ==
    IF content[p] = NoImage \/ ~content[p].readable
    THEN openError(p) ELSE reportOf(p, content[p])

fmtFails(r) == IF format \in {"compliance", "compliance-json"} THEN violates(r) ELSE fails(r)

running == exit = NotExited

Settle ==
    /\ running /\ ~settled
    /\ targets' \in Seq(Path)
    /\ settled' = TRUE
    /\ UNCHANGED <<content, format, reports, exit>>

Report ==
    /\ running /\ settled /\ Len(reports) < Len(targets)
    /\ reports' = Append(reports, look(targets[Len(reports) + 1]))
    /\ UNCHANGED <<content, format, targets, settled, exit>>

\* 0 when no report fails (there may be none), else 2.
Verdict ==
    /\ running /\ settled /\ Len(reports) = Len(targets)
    /\ exit' = IF \E i \in DOMAIN reports : fmtFails(reports[i]) THEN 2 ELSE 0
    /\ UNCHANGED <<content, format, targets, settled, reports>>

\* A command that scans nothing, or an error before the first report or
\* after the last one.
NoVerdict ==
    /\ running
    /\ \/ ~settled /\ exit' \in {0, 1}
       \/ settled /\ Len(reports) = Len(targets) /\ targets # <<>> /\ exit' = 1
    /\ UNCHANGED <<content, format, targets, settled, reports>>

Change ==
    /\ running
    /\ content' \in [Path -> Content \cup {NoImage}]
    /\ UNCHANGED <<format, targets, settled, reports, exit>>

Next == Settle \/ Report \/ Verdict \/ NoVerdict \/ Change

Spec == Init /\ [][Next]_vars
=============================================================================
