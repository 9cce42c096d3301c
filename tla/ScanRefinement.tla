--------------------------- MODULE ScanRefinement ---------------------------
(***************************************************************************)
(* Scan implements AtomicScan when nobody patches an inode in place.  The    *)
(* atomic look of a target happens at its os.Open: from there to the Return  *)
(* of CheckFile the report is already determined, though most of its entries *)
(* have not been computed.                                                  *)
(***************************************************************************)
EXTENDS Scan

content == [p \in Path |-> IF exists(p) THEN disk[files[p]] ELSE NoImage]

looked ==
    IF fd = NoInode THEN reports
    ELSE Append(reports, reportOf(target, disk[fd]))

\* The targets are settled: CheckFile has been reached, and did not have to be.
settled ==
    \/ phase \in {"check", "parse", "run", "gate"}
    \/ phase = "exit" /\ usable /\ (exit \in {0, 2} \/ reports # <<>>)

Atomic == INSTANCE AtomicScan WITH
    format  <- job.format,
    targets <- IF settled THEN paths ELSE <<>>,
    reports <- looked

(***************************************************************************)
(* Every execution of scc is one of AtomicScan: thirteen reads of a file     *)
(* that other processes replace, move and remove meanwhile amount to one     *)
(* look, in target order, and the exit code is a verdict on those looks.     *)
(***************************************************************************)
ImplementsAtomicScan == Atomic!Spec
=============================================================================
