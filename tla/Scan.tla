-------------------------------- MODULE Scan --------------------------------
(***************************************************************************)
(* One execution of scc (run of cmd/scc/main.go): collect the targets, run   *)
(* CheckFile on each, print, choose the exit code; while other processes     *)
(* install, move, remove or patch the files being scanned.                   *)
(*                                                                          *)
(* A path names an inode and an inode holds an image.  isELF and CheckFile   *)
(* open the path anew, and between os.Open and the end of CheckFile the      *)
(* descriptor keeps its inode whatever happens to the path.                  *)
(***************************************************************************)
EXTENDS Gates

CONSTANTS
    Path,        \* paths of regular files
    Dir,         \* paths of directories
    Entries,     \* Dir -> Seq(Path \cup Dir): names in lexical order
    Inode,       \* inode numbers
    NoInode,     \* "no such file", "no open descriptor"
    NoImage,     \* what is seen when os.Open fails
    Content,     \* the images files may hold
    Job,         \* the command lines considered
    MaxWrites,   \* bound on the steps of other processes
    InPlace      \* whether they may rewrite an inode in place

Format == {"table", "json", "csv", "xml", "compliance", "compliance-json"}
complianceFormat == {"compliance", "compliance-json"}

ASSUME ScanAssumption ==
    /\ Path \cap Dir = {}
    /\ Entries \in [Dir -> Seq(Path \cup Dir)]
    /\ NoInode \notin Inode
    /\ Inode \subseteq Nat
    /\ NoImage \notin Content
    /\ Content \subseteq Image
    /\ MaxWrites \in Nat
    /\ InPlace \in BOOLEAN

inside(d) == {Entries[d][n] : n \in DOMAIN Entries[d]}

\* A directory and everything beneath it; a file alone.
below(n) ==
    {m \in Path \cup Dir :
        \A S \in SUBSET (Path \cup Dir) :
            n \in S /\ (\A d \in S \cap Dir : inside(d) \subseteq S) => m \in S}

\* The directories are a forest: WalkDir follows no symbolic link.
ASSUME TreeAssumption ==
    \A d \in Dir :
        /\ \A m, n \in DOMAIN Entries[d] : Entries[d][m] = Entries[d][n] => m = n
        /\ \A e \in Dir : inside(d) \cap inside(e) # {} => d = e
        /\ \A n \in inside(d) : d \notin below(n)

\* readList: blank lines and #-comments are dropped.
readList(lines) == SelectSeq(lines, LAMBDA l : l \notin {"", "#"})

ASSUME JobAssumption ==
    \A j \in Job : /\ j.cmd = "file" => j.rest \in Seq(Path)
                   /\ j.cmd = "list" => readList(j.lines) \in Seq(Path)
                   /\ j.cmd = "dir" /\ j.rest # <<>> => j.rest[1] \in Path \cup Dir

VARIABLES
    job,       \* the command line: [cmd, flagsOK, rest, recursive, format, lines]
    phase,     \* where run is
    todo,      \* names filepath.WalkDir has still to visit
    paths,     \* targets collected
    reports,   \* one FileReport per target already checked
    fd,        \* inode CheckFile has open
    hdr,       \* header in the *elf.File
    checks,    \* report.Checks of the file being checked
    step,      \* next statement of CheckFile, an index into CheckSteps
    written,   \* the reports reached standard output
    exit,      \* exit code
    files,     \* Path -> inode
    disk,      \* Inode -> image
    writes,    \* steps taken by other processes
    seen,      \* history: what each os.Open of CheckFile found
    touched    \* history: paths other processes changed

procVars == <<job, phase, todo, paths, reports, fd, hdr, checks, step, written,
              exit, seen>>
fsVars   == <<files, disk, writes, touched>>
vars     == <<procVars, fsVars>>

NotExited == 3

noHdr == [machine |-> "other", type |-> "EXEC", segs |-> {}, sections |-> {}]

Init ==
    /\ job \in Job
    /\ phase = "start" /\ todo = <<>> /\ paths = <<>> /\ reports = <<>>
    /\ fd = NoInode /\ hdr = noHdr /\ checks = initialChecks /\ step = 1
    /\ written = FALSE /\ exit = NotExited
    /\ files \in [Path -> Inode \cup {NoInode}]
    /\ \A p, q \in Path : files[p] = files[q] /\ files[p] # NoInode => p = q
    /\ disk \in [Inode -> Content]
    /\ writes = 0 /\ seen = <<>> /\ touched = {}

-----------------------------------------------------------------------------
exists(p)  == files[p] # NoInode
canOpen(p) == exists(p) /\ disk[files[p]].readable

\* Fault: the magic is not compared.
isELFByOpen(p) == canOpen(p)

\* isELF: an open that fails and a wrong magic are the same answer.
isELF(p) == canOpen(p) /\ disk[files[p]].kind \in {"elf", "truncated"}

return(code) ==
    /\ exit' = code
    /\ phase' = "exit"

-----------------------------------------------------------------------------
(***************************************************************************)
(* The command line.                                                        *)
(***************************************************************************)
scans == job.cmd \in {"file", "dir", "list"}

usable == scans /\ job.flagsOK /\ job.rest # <<>> /\ job.format \in Format

Usage ==
    /\ phase = "start"
    /\ ~usable
    /\ return(IF job.cmd \in {"version", "help"} THEN 0 ELSE 1)
    /\ UNCHANGED <<job, todo, paths, reports, fd, hdr, checks, step, written, seen, fsVars>>

StartFile ==
    /\ phase = "start" /\ usable /\ job.cmd = "file"
    /\ paths' = job.rest
    /\ phase' = "check"
    /\ UNCHANGED <<job, todo, reports, fd, hdr, checks, step, written, exit, seen, fsVars>>

ReadList ==
    /\ phase = "start" /\ usable /\ job.cmd = "list"
    /\ paths' = readList(job.lines)
    /\ phase' = "check"
    /\ UNCHANGED <<job, todo, reports, fd, hdr, checks, step, written, exit, seen, fsVars>>

\* The list file cannot be read; the root of a dir scan cannot be stat'ed.
StartFails ==
    /\ phase = "start" /\ usable /\ job.cmd \in {"list", "dir"}
    /\ job.cmd = "dir" => job.rest[1] \in Path /\ ~exists(job.rest[1])
    /\ return(1)
    /\ UNCHANGED <<job, todo, paths, reports, fd, hdr, checks, step, written, seen, fsVars>>

\* Only the first target of a dir scan is used.
StartDir ==
    /\ phase = "start" /\ usable /\ job.cmd = "dir"
    /\ job.rest[1] \in Path => exists(job.rest[1])
    /\ todo' = <<job.rest[1]>>
    /\ phase' = "walk"
    /\ UNCHANGED <<job, paths, reports, fd, hdr, checks, step, written, exit, seen, fsVars>>

-----------------------------------------------------------------------------
(***************************************************************************)
(* collectDir: WalkDir visits names depth first in lexical order; the names  *)
(* of a directory are those os.ReadDir returns on entering it.               *)
(***************************************************************************)
walking == phase = "walk" /\ todo # <<>>

descends(d) == job.recursive \/ d = job.rest[1]

\* The names of d that are there, by position, and the one sequence that has
\* them in order.
listed(d) == {n \in DOMAIN Entries[d] : Entries[d][n] \in Path => exists(Entries[d][n])}

listings(d) ==
    {[i \in DOMAIN at |-> Entries[d][at[i]]] :
        at \in {f \in [1..Cardinality(listed(d)) -> listed(d)] :
                  \A i, j \in DOMAIN f : i < j => f[i] < f[j]}}

\* Fault: filepath.SkipDir for a directory that is not descended into also
\* skips what follows it in its parent (SkipAll).
VisitDirSkipAll ==
    /\ walking /\ Head(todo) \in Dir
    /\ \/ /\ descends(Head(todo))
          /\ \E s \in listings(Head(todo)) : todo' = s \o Tail(todo)
       \/ ~descends(Head(todo)) /\ todo' = <<>>
    /\ UNCHANGED <<job, phase, paths, reports, fd, hdr, checks, step, written, exit, seen, fsVars>>

\* Fault: a skipped directory is put back to be visited again.
VisitDirAgain ==
    /\ walking /\ Head(todo) \in Dir
    /\ \/ /\ descends(Head(todo))
          /\ \E s \in listings(Head(todo)) : todo' = s \o Tail(todo)
       \/ ~descends(Head(todo)) /\ todo' = Append(Tail(todo), Head(todo))
    /\ UNCHANGED <<job, phase, paths, reports, fd, hdr, checks, step, written, exit, seen, fsVars>>

VisitDir ==
    /\ walking /\ Head(todo) \in Dir
    /\ \/ /\ descends(Head(todo))
          /\ \E s \in listings(Head(todo)) : todo' = s \o Tail(todo)
       \/ ~descends(Head(todo)) /\ todo' = Tail(todo)              \* SkipDir
    /\ UNCHANGED <<job, phase, paths, reports, fd, hdr, checks, step, written, exit, seen, fsVars>>

\* One unreadable directory ends the whole scan.
ReadDirFails ==
    /\ walking /\ Head(todo) \in Dir
    /\ descends(Head(todo))
    /\ return(1)
    /\ UNCHANGED <<job, todo, paths, reports, fd, hdr, checks, step, written, seen, fsVars>>

VisitFile ==
    /\ walking /\ Head(todo) \in Path
    /\ todo' = Tail(todo)
    /\ paths' = IF isELF(Head(todo)) THEN Append(paths, Head(todo)) ELSE paths
    /\ UNCHANGED <<job, phase, reports, fd, hdr, checks, step, written, exit, seen, fsVars>>

WalkDone ==
    /\ phase = "walk" /\ todo = <<>>
    /\ phase' = "check"
    /\ UNCHANGED <<job, todo, paths, reports, fd, hdr, checks, step, written, exit, seen, fsVars>>

NoBinaries ==
    /\ phase = "check" /\ paths = <<>>
    /\ return(0)
    /\ UNCHANGED <<job, todo, paths, reports, fd, hdr, checks, step, written, seen, fsVars>>

-----------------------------------------------------------------------------
(***************************************************************************)
(* CheckFile on the next target.                                            *)
(***************************************************************************)
target == paths[Len(reports) + 1]

checking == phase = "check" /\ Len(reports) < Len(paths)

OpenFails ==
    /\ checking /\ ~canOpen(target)
    /\ reports' = Append(reports, openError(target))
    /\ seen' = Append(seen, NoImage)
    /\ UNCHANGED <<job, phase, todo, paths, fd, hdr, checks, step, written, exit, fsVars>>

Open ==
    /\ checking /\ canOpen(target)
    /\ fd' = files[target]
    /\ seen' = Append(seen, disk[files[target]])
    /\ checks' = initialChecks
    /\ phase' = "parse"
    /\ UNCHANGED <<job, todo, paths, reports, hdr, step, written, exit, fsVars>>

\* Fault: a file that does not parse is taken for one that is still being
\* written, and opened again.
ParseFailsRetries ==
    /\ phase = "parse" /\ ~parses(disk[fd])
    /\ fd' = NoInode
    /\ phase' = "check"
    /\ UNCHANGED <<job, todo, paths, reports, hdr, checks, step, written, exit, seen, fsVars>>

ParseFails ==
    /\ phase = "parse" /\ ~parses(disk[fd])
    /\ reports' = Append(reports, parseError(target))
    /\ fd' = NoInode
    /\ phase' = "check"
    /\ UNCHANGED <<job, todo, paths, hdr, checks, step, written, exit, seen, fsVars>>

Parse ==
    /\ phase = "parse" /\ parses(disk[fd])
    /\ hdr' = disk[fd].hdr
    /\ step' = 1
    /\ phase' = "run"
    /\ UNCHANGED <<job, todo, paths, reports, fd, checks, written, exit, seen, fsVars>>

\* Fault: a check opens the path again instead of reading from raw.
RunCheckByPath ==
    /\ phase = "run" /\ step <= LastStep
    /\ checks' = runCheck(checks, CheckSteps[step], hdr,
                          disk[IF exists(target) THEN files[target] ELSE fd].body)
    /\ step' = step + 1
    /\ UNCHANGED <<job, phase, todo, paths, reports, fd, hdr, written, exit, seen, fsVars>>

RunCheck ==
    /\ phase = "run" /\ step <= LastStep
    /\ checks' = runCheck(checks, CheckSteps[step], hdr, disk[fd].body)
    /\ step' = step + 1
    /\ UNCHANGED <<job, phase, todo, paths, reports, fd, hdr, written, exit, seen, fsVars>>

\* Fault: no deferred Close.
ReturnLeaky ==
    /\ phase = "run" /\ step > LastStep
    /\ reports' = Append(reports, [name |-> target, error |-> "", checks |-> checks])
    /\ phase' = "check"
    /\ UNCHANGED <<job, todo, paths, fd, hdr, checks, step, written, exit, seen, fsVars>>

Return ==
    /\ phase = "run" /\ step > LastStep
    /\ reports' = Append(reports, [name |-> target, error |-> "", checks |-> checks])
    /\ fd' = NoInode
    /\ phase' = "check"
    /\ UNCHANGED <<job, todo, paths, hdr, checks, step, written, exit, seen, fsVars>>

-----------------------------------------------------------------------------
(***************************************************************************)
(* Output and exit code.                                                    *)
(***************************************************************************)
printing == phase = "check" /\ paths # <<>> /\ Len(reports) = Len(paths)

PrintReports ==
    /\ printing
    /\ written' = TRUE
    /\ phase' = "gate"
    /\ UNCHANGED <<job, todo, paths, reports, fd, hdr, checks, step, exit, seen, fsVars>>

\* Fault: no writer's error is looked at.
PrintReportsDrops ==
    /\ printing
    /\ phase' = "gate"
    /\ UNCHANGED <<job, todo, paths, reports, fd, hdr, checks, step, written, exit, seen, fsVars>>

\* Table and Compliance drop the error of the write; the others return it.
PrintReportsFails ==
    /\ printing
    /\ IF job.format \in {"table", "compliance"}
       THEN phase' = "gate" /\ UNCHANGED exit
       ELSE return(1)
    /\ UNCHANGED <<job, todo, paths, reports, fd, hdr, checks, step, written, seen, fsVars>>

\* Fault: a result overwritten by every report, so that the last one decides.
gateFailsLast(fmt, rs) ==
    \E i \in {Len(rs)} : IF fmt \in complianceFormat THEN violates(rs[i]) ELSE fails(rs[i])

gateFails(fmt, rs) ==
    \E i \in DOMAIN rs : IF fmt \in complianceFormat THEN violates(rs[i]) ELSE fails(rs[i])

Gate ==
    /\ phase = "gate"
    /\ return(IF gateFails(job.format, reports) THEN 2 ELSE 0)
    /\ UNCHANGED <<job, todo, paths, reports, fd, hdr, checks, step, written, seen, fsVars>>

-----------------------------------------------------------------------------
(***************************************************************************)
(* The other processes.                                                     *)
(***************************************************************************)
mayWrite == writes < MaxWrites /\ phase # "exit"

inUse == {files[p] : p \in Path} \cup {fd}

\* Install img under p: write a new file, rename it over p.
Install(p, img) ==
    /\ \E i \in Inode \ inUse :
          /\ \A j \in Inode \ inUse : i <= j
          /\ files' = [files EXCEPT ![p] = i]
          /\ disk' = [disk EXCEPT ![i] = img]
    /\ writes' = writes + 1
    /\ touched' = touched \cup {p}
    /\ UNCHANGED procVars

Unlink(p) ==
    /\ exists(p)
    /\ files' = [files EXCEPT ![p] = NoInode]
    /\ writes' = writes + 1
    /\ touched' = touched \cup {p}
    /\ UNCHANGED <<procVars, disk>>

Move(p, q) ==
    /\ exists(p) /\ p # q
    /\ files' = [files EXCEPT ![q] = files[p], ![p] = NoInode]
    /\ writes' = writes + 1
    /\ touched' = touched \cup {p, q}
    /\ UNCHANGED <<procVars, disk>>

\* chrpath, execstack, prelink: patch an ELF file where it lies, keeping the
\* layout of its sections.
Rewrite(p, img) ==
    /\ InPlace /\ exists(p)
    /\ LET old == disk[files[p]]
       IN  /\ old.kind = "elf" /\ img.kind = "elf" /\ img # old
           /\ img.hdr.sections = old.hdr.sections
           /\ img.hdr.machine = old.hdr.machine
           /\ img.readable = old.readable
    /\ disk' = [disk EXCEPT ![files[p]] = img]
    /\ writes' = writes + 1
    /\ touched' = touched \cup {p}
    /\ UNCHANGED <<procVars, files>>

Writer ==
    /\ mayWrite
    /\ \E p \in Path :
          \/ Unlink(p)
          \/ \E q \in Path : Move(p, q)
          \/ \E img \in Content : Install(p, img) \/ Rewrite(p, img)

-----------------------------------------------------------------------------
scc ==
    \/ Usage \/ StartFile \/ ReadList \/ StartFails \/ StartDir
    \/ VisitDir \/ ReadDirFails \/ VisitFile \/ WalkDone \/ NoBinaries
    \/ OpenFails \/ Open \/ ParseFails \/ Parse \/ RunCheck \/ Return
    \/ PrintReports \/ PrintReportsFails \/ Gate

Next == scc \/ Writer

Spec == Init /\ [][Next]_vars

\* The operating system keeps running a process that can run; nothing is
\* assumed of the other processes.
FairSpec == Spec /\ WF_vars(scc)

-----------------------------------------------------------------------------
(***************************************************************************)
(* Properties.                                                              *)
(***************************************************************************)
Exit == {0, 1, 2, NotExited}

Report == [name : Path, error : {"", "cannot open", "not an ELF file"},
           checks : CheckTable]

(***************************************************************************)
(* The state of run and CheckFile, and of the files, keeps its types; a      *)
(* descriptor is open exactly inside CheckFile, an exit code is set exactly  *)
(* at the exit, and no inode has two names.                                  *)
(***************************************************************************)
RunTypes ==
    /\ phase \in {"start", "walk", "check", "parse", "run", "gate", "exit"}
    /\ job \in Job
    /\ paths \in Seq(Path)
    /\ reports \in Seq(Report) /\ Len(reports) <= Len(paths)
    /\ written \in BOOLEAN
    /\ exit \in Exit /\ (exit # NotExited <=> phase = "exit")

CheckTypes ==
    /\ fd \in Inode \cup {NoInode} /\ (fd # NoInode <=> phase \in {"parse", "run"})
    /\ fd # NoInode => Len(reports) < Len(paths)
    /\ hdr \in Header /\ checks \in CheckTable /\ step \in 1..(LastStep + 1)
    /\ seen \in Seq(Content \cup {NoImage})
    /\ Len(seen) = Len(reports) + (IF fd = NoInode THEN 0 ELSE 1)

FileTypes ==
    /\ files \in [Path -> Inode \cup {NoInode}] /\ disk \in [Inode -> Content]
    /\ \A p, q \in Path : files[p] = files[q] /\ files[p] # NoInode => p = q
    /\ writes \in 0..MaxWrites /\ touched \subseteq Path

TypeOK == RunTypes /\ CheckTypes /\ FileTypes

(***************************************************************************)
(* However other processes install, move and remove files during the scan,  *)
(* every report is exactly what CheckFile says of the one image its os.Open  *)
(* found: the fourteen entries never mix two versions of a file, none keeps  *)
(* its initial error, and report i is about target i.  (Nobody patches an    *)
(* inode in place.)                                                         *)
(***************************************************************************)
SnapshotReports ==
    ~InPlace =>
        \A i \in DOMAIN reports :
            reports[i] = IF seen[i] = NoImage THEN openError(paths[i])
                         ELSE reportOf(paths[i], seen[i])

(***************************************************************************)
(* "Full RELRO" and the BIND_NOW column come from the same detection         *)
(* (bindNowOf), seven statements apart: a report never claims the first      *)
(* beside "Lazy binding".                                                   *)
(***************************************************************************)
FullRelroIsBoundNow ==
    \A i \in DOMAIN reports :
        reports[i].checks["relro"].value = "Full RELRO"
            => reports[i].checks["bind_now"].value = "Bind now"

(***************************************************************************)
(* The two gates judge a report alike, error reports and reports torn by an  *)
(* in-place patch included: what fails hasFailures violates a compliance     *)
(* rule, except a PIE with text relocations (the "pie" rule looks at "pic"   *)
(* for shared libraries only); what violates a rule fails hasFailures,       *)
(* except a binary that is merely unstripped.                                *)
(***************************************************************************)
GatesAgree ==
    \A i \in DOMAIN reports :
        LET r == reports[i]
            c == reports[i].checks
        IN  /\ fails(r) => \/ violates(r)
                           \/ /\ c["pie"].value \in {"PIE enabled", "Static PIE"}
                              /\ c["pic"].status = "bad"
            /\ violates(r) => fails(r) \/ c["symbols"].status = "bad"

(***************************************************************************)
(* linkStackProtection leaves the three stack-protection columns all good or *)
(* none good, in every report, also when an inode is patched between the     *)
(* three checks.                                                            *)
(***************************************************************************)
StackColumnsAgree ==
    \A i \in DOMAIN reports : \A k, l \in StackKey :
        reports[i].checks[k].status = "good" <=> reports[i].checks[l].status = "good"

(***************************************************************************)
(* A directory scan that gets past its walk has as a target, exactly once,   *)
(* every readable ELF file under the directory that nobody touched meanwhile *)
(* (in a subdirectory only with -recursive).                                *)
(***************************************************************************)
inScope(p) ==
    \/ job.rest[1] = p
    \/ job.rest[1] \in Dir /\ p \in inside(job.rest[1])
    \/ job.recursive /\ p \in below(job.rest[1])

walked == /\ usable /\ job.cmd = "dir"
          /\ phase \in {"check", "parse", "run", "gate"} \/ exit \in {0, 2}

StableElfCollected ==
    walked => \A p \in Path \ touched :
        inScope(p) /\ isELF(p) => Cardinality({i \in DOMAIN paths : paths[i] = p}) = 1

(***************************************************************************)
(* In a directory scan an error report is explained: the file was touched    *)
(* between the walk's isELF and CheckFile, or it has the ELF magic and is    *)
(* damaged.                                                                 *)
(***************************************************************************)
DirErrorsExplained ==
    usable /\ job.cmd = "dir" =>
        \A i \in DOMAIN reports :
            reports[i].error # "" => \/ paths[i] \in touched
                                     \/ seen[i] # NoImage /\ seen[i].kind = "truncated"

(***************************************************************************)
(* Exit codes, judged by the images the scan opened and not by its reports.  *)
(* 0 after a scan means every target was opened and parsed, and every image  *)
(* satisfies what the format's gate requires (Hardened, Compliant), unless   *)
(* its headers lead nowhere or something in it is mistaken for protection.   *)
(***************************************************************************)
required(img) == IF job.format \in complianceFormat THEN Compliant(img) ELSE Hardened(img)

vouched(img) == /\ img # NoImage /\ parses(img)
                /\ wellFormed(img) /\ unambiguous(img) => required(img)

ExitZeroSound ==
    exit = 0 /\ paths # <<>> =>
        /\ Len(seen) = Len(paths)
        /\ \A i \in DOMAIN seen : vouched(seen[i])

(***************************************************************************)
(* 2 means that some target could not be opened or its image lacks something *)
(* required, when every image keeps what the checks look for within reach    *)
(* of its headers.                                                          *)
(***************************************************************************)
ExitTwoJustified ==
    exit = 2 /\ (\A i \in DOMAIN seen : seen[i] # NoImage => evident(seen[i])) =>
        \E i \in DOMAIN seen : seen[i] = NoImage \/ ~required(seen[i])

(***************************************************************************)
(* A machine-readable format never gives a verdict (0 or 2) on targets whose *)
(* reports did not reach standard output, and never reports a usage or I/O   *)
(* error (1) after they did.                                                *)
(***************************************************************************)
VerdictIsPublished ==
    phase = "exit" /\ paths # <<>> /\ job.format \notin {"table", "compliance"} =>
        (exit \in {0, 2} <=> written)

(***************************************************************************)
(* No step of scc goes back, whatever the other processes do: it reaches a   *)
(* later stage of run; or the walk has fewer names to visit, and none it had *)
(* not; or a report is added for targets that stay as they are; or CheckFile *)
(* is further in its statements.  No name is visited twice, no target        *)
(* checked twice, and the number of steps is bounded.                       *)
(***************************************************************************)
stage == CASE phase = "start" -> 0
           [] phase = "walk"  -> 1
           [] phase \in {"check", "parse", "run"} -> 2
           [] phase = "gate"  -> 3
           [] phase = "exit"  -> 4

turn == CASE phase = "run"   -> step + 1
          [] phase = "parse" -> 1
          [] phase \notin {"parse", "run"} -> 0

\* What the walk of command j will visit from n on.
span(j, n) == IF j.recursive THEN below(n)
              ELSE IF n \in Dir /\ n = j.rest[1] THEN {n} \cup inside(n) ELSE {n}

toVisit == UNION {span(job, todo[k]) : k \in DOMAIN todo}

goesOn ==
    \/ stage' > stage
    \/ /\ stage = 1 /\ stage' = 1
       /\ toVisit' \subseteq toVisit /\ toVisit' # toVisit
    \/ /\ stage = 2 /\ stage' = 2 /\ paths' = paths
       /\ \/ Len(reports') > Len(reports)
          \/ Len(reports') = Len(reports) /\ turn' > turn

NeverBack == [][goesOn]_procVars

(***************************************************************************)
(* Every execution ends, whatever the other processes do.                    *)
(***************************************************************************)
Termination == <>(phase = "exit")
=============================================================================
