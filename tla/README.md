# Verification of secCompileCheck (scc)

TLA+ modules, TLC runs and TLAPS proofs for `scc`, the ELF hardening checker of
this repository, and for the two workflows that release it. Paths below are
relative to `src/`. `PROJECT.json` lists the runs, the source lines of every
definition, the hazards and the theorems.

## 1. The system

`scc file|dir|list <target>...` collects ELF files, runs fourteen checks on each
through `checksec.CheckFile`, prints the reports in one of six formats and turns
them into an exit code: 0, 1 (usage or I/O), 2 (a binary fails).

| Part | State it keeps | Operations | Talks to |
|---|---|---|---|
| ELF readers (`dyn.go`, `debug/elf`) | none; the bytes of an open file | read the dynamic table, strings and symbols through section headers, and again through program headers | the file, at every call |
| Checks (`relro.go` ... `fortify.go`, `libc.go`) | none | one `Result` per check | the readers |
| `CheckFile`, `linkStackProtection` (`report.go`) | `report.Checks`, the descriptor `raw`, the parsed `*elf.File` | open, parse, thirteen statements, return | checks; driver |
| Gates (`hasFailures`, `compliance.go`) | none | reports to pass/fail | the driver |
| Driver (`cmd/scc/main.go`) | `paths`, `reports`, the walk, the exit code | command line, `collectDir`, `readList`, loop, `printReports`, gate | file system, stdout |
| Renderers (`internal/output`) | none | six formats | stdout |
| `reorderArgs` | none | flags before positional arguments | package `flag` |
| ELF generator (`internal/elfgen`) | none | a layout to an ELF file | tests |
| GitHub release workflow | tags, releases and their assets, artifacts of each run | `validate`, `test`, `release` (a matrix), `publish`; started by dispatch or by a pushed tag, not serialised | the hosting service; the maintainer who re-runs |
| GitCode release workflow | the same on another server | the same jobs; one run at a time; assets uploaded one by one | the hosting service |

`scc` is one thread. What makes it hard is outside it: it looks at a file
several times (`isELF` in the walk, `os.Open` in `CheckFile`, then reads by each
check), and other processes replace, move, remove or patch that file meanwhile.
What makes it hard inside is duplication: two ways to read the same fact
(section and program headers), two checks on the same flags (RELRO and
BIND_NOW), two gates on the same report, columns rewritten by
`linkStackProtection` after they were computed, two passes over the command line.
`dyn.go` also computes with 64-bit words that come from the file.

The release workflows are distributed programs: two runs of one version race for
a tag, every step may fail and be re-run days later, lookups take an error for
"not there", and artifacts expire. `PROJECT.json` lists these as
hazards, each at its line and with the properties that cover it.

What makes each part correct:

- readers: stripping section headers changes no verdict and invents no protection;
- `CheckFile`: a report describes one version of one file;
- `linkStackProtection`: the three columns agree;
- gates: they agree with each other, and with what the binary contains;
  adding a protection never makes a binary fail;
- table reader: it finds what the linker put there, stays in its segment and
  returns, whatever the headers say and whenever the file is truncated;
- command line: both passes agree, so flags mean the same on either side of the targets;
- renderers: each document alone tells which targets fail;
- ELF generator: a file shows what its layout asks for;
- releases: built from the tag's commit, which passed the tests; never changed
  once published; a green job means that the release (it may still be a draft) holds
  exactly the files of its run, a pushed tag gets one;
- driver: every stable ELF file is a target once, errors have a cause, an exit
  code is a verdict on reports that were published, and every scan ends.

## 2. The modules

| Module | Models |
|---|---|
| `ElfImage` | a file as the checks can tell it apart: a header (parsed once by `elf.NewFile`) and a body (read again by each check); `dyn.go` and `debug/elf` as two readers of it; the name patterns |
| `Checks` (extends `ElfImage`) | every check, FORTIFY, `linkStackProtection`, the statements of `CheckFile` (`CheckSteps`, `runCheck`), and `reportOf`, what they amount to on one image |
| `Gates` (extends `Checks`) | `hasFailures`, the seven `complianceRules`, and reference requirements (`Hardened`, `Compliant`) written on the image instead of the report |
| `Scan` (extends `Gates`) | one execution of `run`, one action per step that can interleave with the rest of the system, and the other processes |
| `AtomicScan` | the abstract promise: targets, one atomic look at each, one verdict; what a report and a gate say are operator constants |
| `ScanRefinement` | the refinement mapping from `Scan` to `AtomicScan` |
| `Stripping` (extends `Scan`) | reports of stripped and of hardened variants of the images scanned |
| `CommandLine` (extends `Scan`) | `reorderArgs` and package `flag`, from the arguments to the `job` of `Scan`; a one-pass reference |
| `Output` (extends `Scan`) | the rows each format prints, and what a reader concludes from them alone |
| `ElfGen` (extends `Scan`) | `elfgen.Build` from a layout to an image; what the layout asks for |
| `Documented` (extends `Stripping`) | what README and usage text say and the code does not do |
| `DynTable` | `parsePTDynamic`, `dynamicStrings` and `phdrSymbolNames` on cells and words of `w` bits, one read per step, with a process that truncates the file |
| `ReleaseRuns` | what the two release workflows share: tags, releases, runs, the jobs `validate`, `test` and `release`, failures, re-runs, expiry |
| `GitHubRelease` (extends `ReleaseRuns`) | triggers, conditions and the publish job of `.github/workflows/release.yml` |
| `GitCodeRelease` (extends `ReleaseRuns`) | the same of `.gitcode/workflows/release.yml` |
| `Channels` | both workflows side by side, and what RELEASE.md says of them that they do not do |
| `MCScan`, `MCSweep`, `MCDynTable`, `MCRelease` | instances for TLC |
| `ScanProofs` | lemmas on the operators of `Checks`, types of `Scan` |
| `ReportProofs` (extends `ScanProofs`) | what reports say: columns, gates, one image, directory errors |
| `GateProofs` (extends `ScanRefinement`, `ReportProofs`) | exit codes, lemmas on each check against the image, and that `Scan` implements `AtomicScan` |
| `WalkProofs` (extends `ReportProofs`) | what a directory walk collects, and that no step of `scc` goes back |
| `CommandProofs` (extends `CommandLine`, `ReportProofs`) | what is scanned is what the arguments ask for |
| `VerdictProofs` (extends `Stripping`, `Output`, `ElfGen`, `GateProofs`) | stripping, hardening, printed documents, generated files |
| `DynProofs` (extends `DynTable`) | the table reader on words of any width |
| `ReleaseProofs` (extends `Channels`) | the release workflows |

A definition written next to another and introduced by "Fault:" is a plausible
mistake in the code; replacing the definition by it must break a property
(`mutants` in `PROJECT.json`).

### How `Scan` corresponds to the code

| Variable | Code |
|---|---|
| `job` | the command line after `reorderArgs` and `fs.Parse`: `cmd`, `rest`, `-format`, `-recursive`, whether parsing succeeded, the lines of the list file |
| `phase` | the program counter of `run` and `CheckFile` |
| `todo` | names `filepath.WalkDir` has still to visit |
| `paths`, `reports` | the variables of `run` |
| `fd`, `hdr`, `checks`, `step` | `raw`, `f`, `report.Checks`, next statement of `CheckFile` |
| `written` | the reports reached stdout |
| `files`, `disk` | the file system: path to inode, inode to image |
| `seen`, `touched` | history only: the image each `os.Open` of `CheckFile` found; paths other processes changed |

`Usage`, `StartFile`, `ReadList`, `StartFails`, `StartDir` are the beginning of
`run`; `VisitDir`, `ReadDirFails`, `VisitFile`, `WalkDone` are `collectDir` under
`WalkDir`; `OpenFails`, `Open`, `ParseFails`, `Parse`, `RunCheck`, `Return` are
`CheckFile`, with one `RunCheck` per statement of its body; `PrintReports`,
`PrintReportsFails`, `Gate`, `NoBinaries` are the end of `run`. `Install`
(write and rename), `Unlink`, `Move` and `Rewrite` (patch in place, only when
`InPlace`) are other processes. A renamed or removed file keeps its inode as
long as it is open.

Abstractions: result values keep what code compares and drop diagnostic detail
(symbol counts, entry lists); symbol names are a base and a version suffix;
string patterns are sets of base names; counts above 3 are one value; addresses,
offsets and entry sizes appear in `DynTable` only; `os.Stat` of a RUNPATH entry is the
constant `EntryRisk`. A read that fails (truncated table) yields nothing, like
an absent one. The limit of 10001 program headers behind which `NX` gives up is the
kind "CROWD" among the segments. Other processes do not create or remove directories.

### How `DynTable` corresponds to the code

A file is a sequence of cells, and every size (16 bytes of a dynamic entry, 24 or
16 of a symbol, the caps) is counted in cells. `ReadDynamic` is one turn of
`parsePTDynamic`; `ReadStrings` and `NoStrings` are `dynamicStrings` and the early
returns before it; `FindSymbols` computes `symOff`, `syment` and `limit`;
`ReadSymbol`, `SymbolsDone` and `Panics` are the turns of the loop. `uint` and
`int` are the conversions between `uint64` and `int64`; `Half` stands for 2^63.
`Truncate` may come between any two reads. `image.link` is the reference: the
symbol and string tables as the linker placed them. `SymbolsFound` is what
`ElfImage!phdrSymbolNames` says in one line about an image whose headers are in
order, `trailing` included.

### How the release modules correspond to the workflows

| Variable | Workflow |
|---|---|
| `tags`, `releases` | what `git ls-remote` and the release API answer, per platform and version |
| `runs[r].job` | `needs.<job>.result`; "pending" until the job has ended |
| `runs[r].step` | the step the publish job is about to take |
| `runs[r].done`, `.artifacts` | matrix jobs that succeeded, uploaded artifacts |
| `faults` | failures so far |

`Validate`, `Test`, `Build` (one matrix job) and `Skip` are the jobs up to
`release`; `HubLookTag`, `HubPushTag`, `HubVerify`, `HubView`, `HubCreate` and
`CodeLookTag`, `CodePushTag`, `CodeVerify`, `CodeCreate`, `CodeUpload` are the
steps of the two publish jobs. `JobFails` ends any job at any step (a lost runner,
a failed download, a checksum that does not match; a cancelled job counts as
failed); `TagIsNotSeen` is also a lookup that failed; `HubCreateKilled` leaves a
draft with some assets, alone, beside another draft, or beside the published
release of the tag when the lookup missed it; `Expire` is the end of the retention
time. A maintainer dispatches, pushes tags, and re-runs the failed jobs or all
jobs.

Assumed of the environment, because it is not in the repository: nobody moves or
deletes a tag or replaces an asset by hand (RELEASE.md section 9); a push without
force refuses a tag that points elsewhere; a re-run keeps the commit and inputs of
its run, and a re-run of the failed jobs keeps the artifacts of the others; the
artifacts of one run expire together; `gh release create` makes a draft, uploads,
then publishes, and the platforms refuse a second published release of a tag; of a
tag with several, `gh release view` finds the published one, or else either draft,
and that one is the release of the tag in the model. A binary is
the pair of its commit and its toolchain; `checksums.txt` follows from the
binaries and is not an asset of its own.

## 3. The runs

All runs set `CHECK_DEADLOCK FALSE`: `scc` exits, a function returns, and a
release that is out needs no further step.

| Run | Question | Instance | Distinct states |
|---|---|---|---|
| `ScanWalk` | are stable files collected once, are errors explained? | 3 files, 1 subdirectory, 2 changes | 1.0 million |
| `ScanReports` | are reports those of the images opened, do exit codes follow from the images? | up to 2 targets, all formats, lists, bad command lines, 4 images, 2 changes, 4 inodes | 814 thousand |
| `ScanAtomic` | does `Scan` implement `AtomicScan`, never go back, and end? | 2 files, 5 images incl. truncated and unreadable, 1 change, file and dir, `WF(scc)` | 63 thousand |
| `ScanPatched` | do columns and gates agree in torn reports? | 4 images, 2 changes incl. in place | 345 thousand |
| `Sweep` | do the pure parts compute what they should over all their inputs? | 2909 images with two formats, 1278 layouts, 1661 command lines | 163 thousand |
| `DynTable` | is the table reader right on words that wrap, and on a file that shrinks? | 277 files of at most 25 cells, 6-bit words, 1 truncation | 89 thousand |
| `Release` | are releases of the tag's tested commit, final, and made? | up to 2 runs and 2 failures, 3 together | 70 thousand |

**Bounds.** Two changes suffice for every scenario of the first runs: replace and
move back, move ahead of the walk and remove, patch before and after a check. A
third file after the subdirectory lets a change pass ahead of the walk and
behind it. Four inodes are two names, one deleted file still open and one new
file; `Install` takes the smallest free inode, which loses nothing because an
inode number is never looked at. `MCInit` gives path `a` inode 1 and so on, and
unused inodes one content, for the same reason. The images of `MCScan` differ
from each other in every check; those of `MCSweep` are the products of
everything two related checks look at (machine, sections, stack evidence;
type, segments, dynamic flags, RPATH; libc, imported and static names).
`MaxWrites` bounds the other processes, never `scc`.

Command lines have up to three arguments of an alphabet with operands, flags of
either kind, both ways to write a value, unknown and malformed flags, `-` and
`--`, and up to four of a smaller one: a flag, its value, an operand on either side
is what the two passes can disagree on.

`DynTable` has words of six bits, which is enough for a segment in the middle of
the address space, one that ends at its top and one that wraps; two symbols, in
front of the strings and behind them, in one segment or in two, the one that
comes first in the headers or the other; segments whose addresses map to offsets
beyond int64; entry sizes 0 to 63, of which 32 and more
are negative; and caps (`Cap`, `DefaultLimit`) that the damaged files exceed. One
truncation suffices: a second one between the same reads is a longer first one.

`Release` has one platform and one version per behaviour, because neither share
state. Two runs of it race; three would add a second loser. `MaxRuns` and
`MaxFaults` are 2, and `MCRelease!bounded` keeps their sum at 3: two runs and one
failure, or one run and two (an expiry and a lost job, say). A malformed version
and a commit that fails its tests run alone: they end at their gate whatever the
other run does. Where there are two runs, each builds its targets in one order
and with one toolchain (`plainBuilds`); mixed and partial builds are runs on
their own. Two green commits and two toolchains make every mix of files
visible; two targets make a partial set.

**Fairness.** `FairSpec` assumes weak fairness of `scc` as a whole: the operating
system runs a process that can run, and the program has one thread. Nothing is
assumed of other processes. With that, `Termination` holds because every loop of
the code runs over a finite list it does not extend behind itself: `NeverBack`
says so of every step. Blocking on a FIFO is outside the model (section 6).
`DynTable` assumes weak fairness of the function's steps, and nothing of
`Truncate`; `Returns` excludes entry sizes of 2^63 and more, for which the code
panics. `HubFairness` assumes that the runners take the steps that are due, and
that a maintainer re-runs a run that can be re-run, in both ways, again and again
(RELEASE.md 6.4 asks for it); failures are bounded and never forced.
`PushedTagIsReleased` needs the re-runs: a lost runner leaves the run concluded.
It promises a release that may be a draft, since a killed `gh release create`
leaves one that later runs take for the release.

**Conditions inside the properties.** `ExitTwoJustified` assumes `evident`: no
table of the image is out of reach of the headers that are left (a `.symtab` has
its section, dynamic entries have their segment or section, every imported canary
is found by one of the readers, `NX` looks at all program headers).
`ExitZeroSound` claims nothing of an image that is not `wellFormed` and
`unambiguous` (a table that a linker would place, no bytes that merely look like
protection), and `Sweep` uses such images only. `SymbolsFound` and `NamesAreCut`
assume headers that are `inOrder`: one `PT_DYNAMIC`, any number of `PT_LOAD`s, and
each of the two tables where the first `PT_LOAD` that holds its address puts it;
that segment ends inside the address space and the file, and the symbols end
inside theirs; `DynTypes`, `SymbolsInSegment` and `Returns` hold of any headers.
`StableElfCollected` and `DirErrorsExplained` speak of files nobody touched and of
errors of those somebody did. `ScannedAsAsked` leaves out `dashFirst` and
`valueMissing` (below).

### Disagreements with the documentation

Each of these runs checks one statement and TLC refutes it.

| Run | The text | The code |
|---|---|---|
| `DocWriteError` | main.go:57: 1 for an I/O error | `Table`, `Compliance` drop the write error |
| `DocStripped` | README.md:24: detection stays valid without section headers | the fallback keeps `STT_FUNC` names only |
| `DocAllAssets` | RELEASE.md:121, 137: publish uploads all assets, seven of them | release.yml:192 takes the artifacts that are left after expiry |
| `DocRerun` | RELEASE.md:129: re-run the workflow, publish is idempotent | release.yml:57: validate refuses the tag the failed run left |
| `DocSameFiles` | RELEASE.md:163: GitCode gets the files GitHub released | .gitcode release.yml:111 builds them again |

Known divergences, each visible in the definition named and left without a run:

- README.md:86 and main.go:60 list what fails a binary; `failKeys` also has
  `bind_now`. README.md:84 says 0 means that all checks pass; `symbols` and
  `runpath` are not in `failKeys`.
- README.md:20: FORTIFY for any libc; `resolveLibcFlag` takes a binary that needs
  `libc.musl-x86_64.so.1` for a static one.
- dyn.go:148: `phdrSymbolNames` reads the dynamic symbol table; it reads on to the
  end of the segment (`trailingNames`), so bytes behind the table may be reported
  as a canary.
- main.go:43: "every ELF binary in a directory"; `isELF` leaves out silently one
  that it cannot open.
- README.md:59, main.go:78: `-libc` is parsed and never used (`setFlag`).
- `reorderArgs` drops `--`, so a first operand behind it that starts with a dash is
  parsed as a flag (`dashFirst`); a last flag without its value takes the first
  operand for it (`valueMissing`).
- The table prints a single cell for a report with an error (`tableRow`): for an
  ELF file that does not parse the row does not name the file.
- RELEASE.md:121 puts the verification of checksums before the tag;
  release.yml:168-211 pushes the tag first (`HubPushTag`, then `HubVerify`).
- RELEASE.md:199 has the format of a pushed tag checked by the version the build
  injects; nothing compares the two with a pattern, and any `v*` name is released
  (`OnlyGated` speaks of tags the workflow pushes).
- release.yml:265 calls a complete draft "published".
- GitCode: a release whose upload failed cannot be resumed (`CodeCreate` is
  refused), and an annotated tag is refused because ls-remote lists the tag object
  (`CodeLookTag`).

## 4. What is proved

Proved with TLAPS for every value of the constants: any number of files, images,
targets, command lines and changes by other processes, directory trees of any
depth, words of any width, any number of runs, versions and failures. "No patch"
marks the theorems with the hypothesis `~InPlace`: other processes install, move
and remove files but do not write into one that exists. With such patches the
statement is about bytes read at thirteen moments and is false.

| Theorem | Statement | No patch |
|---|---|---|
| `TypesInvariant` | `Spec => []TypeOK` | |
| `StackColumnsTheorem` | `Spec => []StackColumnsAgree` | |
| `GatesTheorem` | `Spec => []GatesAgree` | |
| `SnapshotTheorem` | `Spec => []SnapshotReports` (the property has the condition) | |
| `FullRelroTheorem` | `Spec => []FullRelroIsBoundNow` | x |
| `DirErrorsTheorem` | `Spec => []DirErrorsExplained` | |
| `CollectedTheorem` | `Spec => []StableElfCollected` | |
| `NeverBackTheorem` | `Spec => NeverBack` (an action property) | |
| `ScannedAsAskedTheorem` | `CommandSpec => []ScannedAsAsked` | |
| `VerdictIsPublishedTheorem` | `Spec => []VerdictIsPublished` | |
| `ExitZeroTheorem` | `Spec => []ExitZeroSound` | x |
| `ExitTwoTheorem` | `Spec => []ExitTwoJustified` | x |
| `RefinementTheorem` | `Spec => Atomic!Spec` | x |
| `StripKeepsTheorem` | `Spec => []StripKeepsVerdicts` | x |
| `StripInventsTheorem` | `Spec => []StripInventsNothing` | x |
| `HardeningTheorem` | `Spec => []HardeningMonotone` | x |
| `PrintedVerdictTheorem` | `Spec => []PrintedVerdict` | |
| `LayoutTheorem` | `GeneratedSpec => []LayoutIsVisible` | x |
| `DynTypesTheorem` | `Spec => []DynTypes` | |
| `SymbolsInSegmentTheorem` | `Spec => []SymbolsInSegment` | |
| `NamesAreCutTheorem` | `Spec => []NamesAreCut` | |
| `SymbolsFoundTheorem` | `Spec => []SymbolsFound` | |
| `ReleaseTypesTheorem` | `Spec => []ReleaseTypes` | |
| `AssetsFromTagTheorem` | `Spec => []AssetsFromTag` | |
| `OnlyGatedTheorem` | `Spec => []OnlyGated` | |
| `PublishedIsFinalTheorem` | `Spec => PublishedIsFinal` (an action property) | |
| `GreenMeansPublishedTheorem` | `Spec => GreenMeansPublished` (an action property) | |

`ExitZeroSound` says of every target that it was opened and parsed, and of every
one that is well formed and unambiguous that it satisfies the gate. Of the others
it can say nothing: bytes after the symbol table can stand in for a canary.

**Assumptions on the constants**, evaluated by TLC on every instance:

- `NamesAssumption`, `RiskAssumption` (`ElfImage`): the name patterns and the
  verdict of `os.Stat` on a RUNPATH entry have their types.
- `ScanAssumption`, `TreeAssumption`, `JobAssumption` (`Scan`): paths are not
  directories, `WalkDir` sees each name of a directory once and follows no link
  (so the tree is a forest), and what a command line names is a path or, for
  `dir`, a directory.
- `SymbolsAssumption` (`Stripping`): symbol tables are finite.
- `LexAssumption` (`CommandLine`): what package `flag` sees of an argument has its
  types, the marker for an argument without `=` is no text `strconv.ParseBool` accepts,
  and `--` is two dashes.
- `DynAssumption` (`DynTable`): `elf.NewFile` refuses negative offsets and sizes;
  a file is shorter than 2^63; the caps and the size of a symbol are positive.
- `LinkAssumption` (`DynTable`): `image.link` describes the cells of the image, so
  that "what the linker placed" is not a second file. It speaks of cells and NULs
  only, not of the operators that model `dyn.go`.
- `ReleaseAssumption`, `NoneAssumption` (`ReleaseRuns`): both platforms exist, and
  "none" is not a tag, a release, a run or a binary.

The arguments:

- *Types.* `TypeOK` is not inductive: `StartFile` replaces `paths`, so it keeps
  `Len(reports) <= Len(paths)` only because nothing has been reported before.
  `ITypes` adds that (`Started`). The table lemmas at the head of `ScanProofs`
  (`StatementTable`, `LinkEntry`) say that one statement changes its own keys of
  `report.Checks` and keeps the table well typed.
- *Columns and gates* hold of a report whatever bytes each statement read.
  `IReports` says of the table under construction that each entry is one its
  check can return, or `linkStackProtection` can put there, once its statement
  has run, and the initial error before; that the columns agree after `link`;
  and that `pie` and `pic` come from the same `e_type`, which is part of the
  header parsed once. This is why patching in place does not matter.
- *Snapshot.* `ISnapshot` adds that the open descriptor's inode still holds the
  image seen at `os.Open` (`Holding`: `Install` takes an inode that is not in
  use, and nobody patches one), and that `checks` is the table that the
  statements run so far build from that image (`Building`).
- *Exit codes.* `IExit` ties the exit code to the gate's verdict on a report per
  target. From it and `ISnapshot`, the reports at the gate are `reportOf` of the
  images seen; lemmas about each check turn "no key of `failKeys` is bad", or
  "no rule is bad", into `Hardened` or `Compliant` of the image, and, for an
  `evident` image, back.
- *Order of output.* `IOrder`: a usable command line before the walk, reports
  only after the targets, output after the reports, a verdict after the output.
- *Directory errors.* `IWalked` follows one file from `isELF` in the walk to its
  report: a target that nobody touched still has its magic, and what `CheckFile`
  has open is the kind of file it opened.
- *The walk.* `IWalk` says that the names still to visit span disjoint parts of
  the tree, none of them collected yet, and that every file in scope that nobody
  touched is collected or in one of those parts. The step that replaces a
  directory by its entries needs the forest, and a lemma that what lies below a
  directory lies below one of its entries.
- *Nothing goes back.* `NeverBack` orders the moments of an execution: the stages
  of `run`, the names still to visit, the reports, the statements of `CheckFile`.
  A visited name is replaced by names beneath it, and the rest of `todo` spans
  other parts of the tree (`IWalk`), so what is left to visit loses at least the
  visited name (`VisitShrinks`). The set is finite, and `ITypes` bounds the reports
  by the targets and the statements by their table: only a scheduler that stops
  `scc` can keep it from ending.
- *Command line.* `CommandSpec` are the scans of any arguments whose job is what
  `run` makes of them; the behaviours of `Sweep` are among them. `agree` relates
  three passes: `reorderArgs` in state r, `Parse` of what it has moved to the front
  in state f, and the single pass in state p. One argument keeps them together
  (`PassStep`), so any number does (`PassesAgree`). That is an induction over a set
  of numbers (`CountUp`) and not over a formula; the passes are recursive
  functions, and `PassExists` gives the function each CHOOSE finds. Behind the
  flags `Parse` meets only operands (`OperandsRead`), and an error stays
  (`ErrorStays`). `ICommand` ties the job to the arguments up to the lines of a
  list file, which are not on the command line.
- *Refinement.* `IRefine` joins the invariants above. `Settle` happens where
  `CheckFile` is first reached, `Report` at `os.Open`; the parse, the thirteen
  statements and `Return` stutter because `ISnapshot` already determines what
  `Return` will append. Changes of the file system map to changes of `content`.
- *Stripping.* `DynamicViews` and `PhdrKept` say that the two readers agree on a
  linked image, so that seven columns keep their entries. FORTIFY may lose
  `.symtab` names but gains no call, and its count over finite tables only falls.
- *Hardening.* `improves` says what one more protection does to an image,
  `ViewsImprove` what that does to every reader, `ChecksImprove` that no entry
  either gate looks at turns bad (`noWorse`), and `GatesMonotone` that no verdict
  does.
- *Printing.* Every value an entry can have is told by its printed cell
  (`BadCells`, `CoveredCells`), and a row counts as failing exactly the entries
  the gate of its format counts. No image occurs in it, so patches do not matter.
- *Generated files.* `GeneratedSpec` is a scan of files that hold `Build(layout)` and
  that no other process knows of (`writeElf` of `checksec_test.go`), printed by a
  format whose gate is `hasFailures`; the behaviours of `Sweep` with a layout are
  among them. Each field of a layout is followed into segments and dynamic
  entries, these through the readers without section headers (`BuiltViews`), and
  those through the checks (`BuiltChecks`, `BuiltStack`).
- *Table reader.* `ITable` says where `symOff` comes from. A segment that covers
  an address cannot have wrapped below it, and then neither can the offset, which
  gives `SymbolsInSegment`. `Mapped`: of the segments that hold an address the
  first is the one the code finds, since whatever covers an address holds it, and
  a first one that ends inside the address space covers what it holds; so both
  tables of a file in order are found, whichever segments they are in. `ICut`:
  what is left of the file begins the whole file, so a table read from it is the
  whole one padded with zeroes, and a string cut by a zero begins the string.
  `IFound`: the names found are those of the entries before `off`. That `least`
  finds the first NUL is the well-foundedness of the order on naturals.
- *Releases.* `IRuns` says of one run that it is past the tests of its commit
  when it builds, that its artifacts are built from its commit, and that it has
  compared or pushed the tag when it is past that step. `IReleased` adds the
  properties themselves: what a step releases comes from such a run, and tags do
  not move. `IPublish` adds that GitCode runs one at a time (`OneActive`), and
  that while a run uploads, the release holds nothing but its files.

Only model-checked:

- `Termination`, `Returns` and `PushedTagIsReleased`: liveness under fairness, and
  the ENABLED it is made of, are out of the prover's reach. `NeverBack` is the
  part of `Termination` that can be stated of single steps. That `scc` is never
  stuck before its exit is left to TLC.

## 5. Plan

Every safety invariant and action property that a passing run checks is proved.
What could follow:

1. A measure for the loops of `DynTable`, as `NeverBack` is one for `Scan`.
2. `CommandLine` with the values `-libc` takes, once the program reads them.

## 6. Not modelled

- Widths, colours, escaping and the wording of values: no property here depends
  on them. `-no-color` changes nothing else, `-verbose` and `-libc` are not read.
- A FIFO under a scanned directory blocks `os.Open` in `isELF`; the model's paths
  are regular files. Directories do not appear or vanish during a walk.
- Memory: the buffer for PT_DYNAMIC has the size its header gives (dyn.go:32).
- `findHostLibc` and `SCC_LIBC`: `Fortify` compares the path with "none" only.
- Padding, addresses and offsets of generated ELF files.
- Tests, CI scripts and the daily build: sequential, without state of their own.
- Releases: release notes, prerelease flags, permissions, and what GitHub and
  GitCode do inside (section 2 lists what is assumed of them).
