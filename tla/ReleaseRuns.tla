----------------------------- MODULE ReleaseRuns ----------------------------
(***************************************************************************)
(* What the two release workflows, .github/workflows/release.yml and         *)
(* .gitcode/workflows/release.yml, have in common: the tags and releases a   *)
(* platform holds, and runs of the jobs validate, test, release, publish.    *)
(*                                                                          *)
(* A binary is known by the commit and the Go toolchain it was built from:   *)
(* setup-go resolves "1.24" anew in every job, so that two builds of one     *)
(* commit need not have the same checksum.                                  *)
(***************************************************************************)
EXTENDS Naturals, FiniteSets

CONSTANTS
    Platform,    \* "github", "gitcode"
    Version,     \* version inputs and names of v* tags
    WellFormed,  \* those of the form vX.Y.Z[-(alpha|beta|rc).N]
    Commit,
    Green,       \* commits that go vet, go test and gofmt accept
    Toolchain,   \* what "1.24" may resolve to
    Target,      \* goos/goarch pairs
    None,        \* no tag, no release, no run, no file
    MaxRuns,     \* bound on the runs started
    MaxFaults    \* bound on failures of runners, network and services

ASSUME ReleaseAssumption ==
    /\ WellFormed \subseteq Version
    /\ Green \subseteq Commit
    /\ {"github", "gitcode"} \subseteq Platform
    /\ MaxRuns \in Nat /\ MaxFaults \in Nat

Run    == 1..MaxRuns
Job    == {"validate", "test", "release", "publish"}
Result == {"pending", "success", "failure", "skipped"}
Step   == {"lookTag", "pushTag", "verify", "view", "create", "upload"}

Binary == [commit : Commit, go : Toolchain]
Files  == [Target -> Binary \cup {None}]
noFiles == [t \in Target |-> None]

\* by: pushed by the publish job or by a maintainer.
Tag     == [commit : Commit, annotated : BOOLEAN, by : {"workflow", "maintainer"}]
Release == [draft : BOOLEAN, assets : Files]

RunRecord == [on : Platform, event : {"dispatch", "push"}, version : Version,
              commit : Commit, job : [Job -> Result], step : Step,
              done : SUBSET Target,      \* matrix jobs of "release" that succeeded
              artifacts : Files]

ASSUME NoneAssumption ==
    /\ None \notin Binary /\ None \notin Tag
    /\ None \notin Release /\ None \notin RunRecord

VARIABLES
    tags,      \* Platform -> Version -> Tag or None
    releases,  \* Platform -> Version -> Release or None
    runs,      \* Run -> RunRecord or None
    faults     \* failures so far

releaseVars == <<tags, releases, runs, faults>>

Init ==
    /\ tags = [p \in Platform |-> [v \in Version |-> None]]
    /\ releases = [p \in Platform |-> [v \in Version |-> None]]
    /\ runs = [r \in Run |-> None]
    /\ faults = 0

-----------------------------------------------------------------------------
started == {r \in Run : runs[r] # None}

needs == [validate |-> {}, test |-> {"validate"}, release |-> {"validate", "test"},
          publish |-> {"validate", "release"}]

\* The job's turn has come: what it needs has ended, it has not.
due(r, j) ==
    /\ r \in started
    /\ runs[r].job[j] = "pending"
    /\ \A n \in needs[j] : runs[r].job[n] # "pending"

concluded(r) == r \in started /\ \A j \in Job : runs[r].job[j] # "pending"

ended(run, j, result) == [run EXCEPT !.job[j] = result]

\* The run continues as a new record.
Continue(r, run) == runs' = [runs EXCEPT ![r] = run]

Fault == faults < MaxFaults /\ faults' = faults + 1

NoFault == UNCHANGED faults

Start(r, run) ==
    /\ r \in Run \ started
    /\ \A q \in Run \ started : r <= q
    /\ Continue(r, run)

newRun(platform, event, v, c) ==
    [on |-> platform, event |-> event, version |-> v, commit |-> c,
     job |-> [j \in Job |-> "pending"], step |-> "lookTag", done |-> {},
     artifacts |-> noFiles]

-----------------------------------------------------------------------------
\* What `if git ls-remote --exit-code` decides: a tag that is there, but also
\* an error, which counts as "no such tag".
TagIsSeen(p, v)    == tags[p][v] # None /\ NoFault
TagIsNotSeen(p, v) == IF tags[p][v] = None THEN NoFault ELSE Fault

\* git push of a lightweight tag, without force: refused unless the tag is new
\* or already the same.
pushable(p, v, c) == tags[p][v] = None \/ (tags[p][v].commit = c /\ ~tags[p][v].annotated)

pushed(p, v, c) ==
    IF tags[p][v] = None
    THEN [tags EXCEPT ![p][v] = [commit |-> c, annotated |-> FALSE, by |-> "workflow"]]
    ELSE tags

-----------------------------------------------------------------------------
(***************************************************************************)
(* The steps both workflows have.  `may` is the job's condition.            *)
(***************************************************************************)
Skip(r, j, may) ==
    /\ due(r, j) /\ ~may
    /\ Continue(r, ended(runs[r], j, "skipped"))
    /\ NoFault /\ UNCHANGED <<tags, releases>>

\* The whitelist, then the look at the tag.
Validate(r, may) ==
    LET run == runs[r] IN
    /\ due(r, "validate") /\ may
    /\ \/ /\ run.version \in WellFormed
          /\ TagIsNotSeen(run.on, run.version)
          /\ Continue(r, ended(run, "validate", "success"))
       \/ /\ run.version \notin WellFormed /\ NoFault
          /\ Continue(r, ended(run, "validate", "failure"))
       \/ /\ TagIsSeen(run.on, run.version)
          /\ Continue(r, ended(run, "validate", "failure"))
    /\ UNCHANGED <<tags, releases>>

Test(r, may) ==
    /\ due(r, "test") /\ may
    /\ Continue(r, ended(runs[r], "test",
                         IF runs[r].commit \in Green THEN "success" ELSE "failure"))
    /\ NoFault /\ UNCHANGED <<tags, releases>>

\* One job of the build matrix: build, sum, upload the artifact.
Build(r, t, may) ==
    LET run == runs[r] IN
    /\ due(r, "release") /\ may
    /\ t \notin run.done
    /\ \E go \in Toolchain :
          LET next == [run EXCEPT !.done = @ \cup {t},
                                  !.artifacts[t] = [commit |-> run.commit, go |-> go]]
          IN  Continue(r, IF next.done = Target THEN ended(next, "release", "success")
                                                ELSE next)
    /\ NoFault /\ UNCHANGED <<tags, releases>>

\* Fault: a lost runner leaves a result the conditions do not know.
JobIsCancelled(r, j, may) ==
    /\ due(r, j) /\ may
    /\ Continue(r, ended(runs[r], j, "cancelled"))
    /\ Fault /\ UNCHANGED <<tags, releases>>

\* A runner is lost, a command or a download fails, a checksum does not match.
\* Matrix jobs that had succeeded keep their artifacts.
JobFails(r, j, may) ==
    /\ due(r, j) /\ may
    /\ Continue(r, ended(runs[r], j, "failure"))
    /\ Fault /\ UNCHANGED <<tags, releases>>

-----------------------------------------------------------------------------
(***************************************************************************)
(* What maintainers and time do to a run.                                   *)
(***************************************************************************)
\* "Re-run failed jobs": they and what was skipped after them start again.
RerunFailed(r) ==
    /\ concluded(r)
    /\ \E j \in Job : runs[r].job[j] = "failure"
    /\ Continue(r, [runs[r] EXCEPT !.step = "lookTag",
                       !.job = [j \in Job |-> IF @[j] = "success" THEN "success"
                                                                  ELSE "pending"]])
    /\ NoFault /\ UNCHANGED <<tags, releases>>

\* "Re-run all jobs".
RerunAll(r) ==
    /\ concluded(r)
    /\ Continue(r, newRun(runs[r].on, runs[r].event, runs[r].version, runs[r].commit))
    /\ NoFault /\ UNCHANGED <<tags, releases>>

\* retention-days: 7.
Expire(r) ==
    /\ concluded(r) /\ runs[r].artifacts # noFiles
    /\ Continue(r, [runs[r] EXCEPT !.artifacts = noFiles])
    /\ Fault /\ UNCHANGED <<tags, releases>>

-----------------------------------------------------------------------------
Entry == Platform \X Version

tagOf(e)     == tags[e[1]][e[2]]
releaseOf(e) == releases[e[1]][e[2]]

\* The types of tags, releases and runs (both release.yml).
ReleaseTypes ==
    /\ tags \in [Platform -> [Version -> Tag \cup {None}]]
    /\ releases \in [Platform -> [Version -> Release \cup {None}]]
    /\ runs \in [Run -> RunRecord \cup {None}]
    /\ faults \in 0..MaxFaults

(***************************************************************************)
(* What is released under a tag was built from the commit the tag points to, *)
(* whichever runs raced for the tag, whatever was re-run and however often   *)
(* ls-remote failed (release.yml:168-187: "refusing to move it").           *)
(***************************************************************************)
AssetsFromTag ==
    \A e \in Entry : releaseOf(e) # None =>
        /\ tagOf(e) # None
        /\ \A t \in Target :
              releaseOf(e).assets[t] # None =>
                  releaseOf(e).assets[t].commit = tagOf(e).commit

(***************************************************************************)
(* Nothing is released, and no tag pushed by a workflow, that the test job   *)
(* did not accept, though `if: always()` makes jobs run after others were    *)
(* skipped; nor does a workflow push a tag the whitelist refuses             *)
(* (release.yml:63 "so a release can never ship an untested build").        *)
(***************************************************************************)
OnlyGated ==
    \A e \in Entry :
        /\ releaseOf(e) # None => tagOf(e) # None /\ tagOf(e).commit \in Green
        /\ tagOf(e) # None /\ tagOf(e).by = "workflow"
              => tagOf(e).commit \in Green /\ e[2] \in WellFormed

(***************************************************************************)
(* A file once published under a tag stays that file, through re-runs that   *)
(* build it again with another toolchain, second runs of the version and     *)
(* lookups that miss the release (release.yml:246-267: "refusing to          *)
(* overwrite"; RELEASE.md section 9).                                       *)
(***************************************************************************)
PublishedIsFinal ==
    [][\A e \in Entry : releaseOf(e) # None /\ ~releaseOf(e).draft =>
          /\ releaseOf(e)' # None /\ ~releaseOf(e)'.draft
          /\ \A t \in Target : releaseOf(e).assets[t] # None =>
                releaseOf(e)'.assets[t] = releaseOf(e).assets[t]]_releaseVars

(***************************************************************************)
(* A publish job turns green only on a release that holds exactly the        *)
(* artifacts of its run: created by it, or found identical to them           *)
(* (release.yml:246-266), or uploaded one by one (.gitcode release.yml:241). *)
(***************************************************************************)
GreenMeansPublished ==
    [][\A r \in started :
          LET run == runs[r]' IN
          run.job["publish"] = "success" /\ runs[r].job["publish"] # "success" =>
              /\ releases'[run.on][run.version] # None
              /\ releases'[run.on][run.version].assets = run.artifacts]_releaseVars
=============================================================================
