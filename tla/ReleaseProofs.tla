---------------------------- MODULE ReleaseProofs ---------------------------
(***************************************************************************)
(* Theorems about the two release workflows, for every set of versions,      *)
(* commits, toolchains and targets, and any number of runs and failures.     *)
(***************************************************************************)
EXTENDS Channels, TLAPS

(***************************************************************************)
(* A job's condition, as far as the proofs need it: on neither platform is   *)
(* the validate job of a dispatch skipped, or a job run that builds what the *)
(* tests did not accept.                                                    *)
(***************************************************************************)
gate(r, m) ==
    /\ ~m["validate"] => runs[r].event = "push"
    /\ m["release"] => runs[r].job["test"] = "success"
    /\ m["publish"] => /\ runs[r].job["release"] = "success"
                       /\ runs[r].job["validate"] \in {"success", "skipped"}

\* The steps the two workflows share.
shared(r, m) ==
    \/ \E j \in Job : Skip(r, j, m[j])
    \/ Validate(r, m["validate"])
    \/ Test(r, m["test"])
    \/ \E t \in Target : Build(r, t, m["release"])
    \/ \E j \in Job : JobFails(r, j, m[j])
    \/ Expire(r)

rerun(r) == RerunFailed(r) \/ RerunAll(r)

hubPublish(r) ==
    HubLookTag(r) \/ HubPushTag(r) \/ HubVerify(r) \/ HubView(r) \/ HubCreate(r)
        \/ HubCreateKilled(r)

codePublish(r) ==
    CodeLookTag(r) \/ CodePushTag(r) \/ CodeVerify(r) \/ CodeCreate(r) \/ CodeUpload(r)

LEMMA Gates ==
    ASSUME NEW r \in started, runs[r] \in RunRecord
    PROVE  gate(r, may(r)) /\ gate(r, allNeeded(r))
PROOF
<1>1. runs[r].event \in {"dispatch", "push"} /\ runs[r].job \in [Job -> Result]
  BY DEF RunRecord
<1>2. gate(r, may(r))
  <2>1. ~may(r)["validate"] => runs[r].event # "dispatch"
    BY DEF may
  <2>2. may(r)["release"] => runs[r].job["test"] = "success"
    BY DEF may
  <2>3. may(r)["publish"] => runs[r].job["release"] = "success" /\ validated(r)
    BY DEF may
  <2> QED BY <1>1, <2>1, <2>2, <2>3 DEF gate, validated
<1>3. gate(r, allNeeded(r))
  BY <1>1 DEF gate, allNeeded, needs, Job
<1> QED BY <1>2, <1>3

LEMMA Actions ==
    ASSUME Next
    PROVE  \/ CodePush
           \/ \E r \in Run :
                 \/ HubDispatch(r) \/ HubPush(r) \/ CodeDispatch(r)
                 \/ onGitHub(r) /\ (shared(r, may(r)) \/ rerun(r) \/ hubPublish(r))
                 \/ onGitCode(r) /\ (shared(r, allNeeded(r)) \/ codePublish(r))
                 \/ onGitCode(r) /\ idle /\ rerun(r)
PROOF
<1>1. CASE HubNext
  <2>1. PICK r \in Run : HubSteps(r) \/ HubFaults(r) \/ HubMaintainer(r)
    BY <1>1 DEF HubNext
  <2>2. \/ HubDispatch(r) \/ HubPush(r)
        \/ onGitHub(r) /\ (shared(r, may(r)) \/ rerun(r) \/ hubPublish(r))
    BY <2>1 DEF HubSteps, HubFaults, HubMaintainer, shared, rerun, hubPublish, Job, may
  <2> QED BY <2>2
<1>2. CASE CodePush
  BY <1>2
<1>3. CASE \E r \in Run : CodeSteps(r) \/ CodeFaults(r) \/ CodeMaintainer(r)
  <2>1. PICK r \in Run : CodeSteps(r) \/ CodeFaults(r) \/ CodeMaintainer(r)
    BY <1>3
  <2>2. allNeeded(r)["validate"] = TRUE
    BY DEF allNeeded, needs, Job
  <2>3. \/ CodeDispatch(r)
        \/ onGitCode(r) /\ (shared(r, allNeeded(r)) \/ codePublish(r))
        \/ onGitCode(r) /\ idle /\ rerun(r)
    BY <2>1, <2>2 DEF CodeSteps, CodeFaults, CodeMaintainer, shared, rerun, codePublish
  <2> QED BY <2>3
<1> QED BY <1>1, <1>2, <1>3 DEF Next, CodeNext

-----------------------------------------------------------------------------
(***************************************************************************)
(* How an action changes one run.                                           *)
(***************************************************************************)
LEMMA NewRun ==
    ASSUME NEW p \in Platform, NEW e \in {"dispatch", "push"}, NEW v \in Version,
           NEW c \in Commit
    PROVE  newRun(p, e, v, c) \in RunRecord
  BY DEF newRun, RunRecord, Result, Step, Files, noFiles

\* What a run's results say of what it was started with.
accepted(run) ==
    /\ run.job["test"] = "success" => run.commit \in Green
    /\ run.job["release"] = "success" => run.commit \in Green
    /\ run.job["validate"] = "success" => run.version \in WellFormed
    /\ run.job["validate"] = "skipped" => run.event = "push"
    /\ run.step # "lookTag" => run.job["release"] = "success"
    /\ \A t \in Target : run.artifacts[t] # None => run.artifacts[t].commit = run.commit

same(run, old) ==
    run.on = old.on /\ run.event = old.event /\ run.version = old.version /\ run.commit = old.commit

\* Run r continues as the record run.
becomes(r, run) ==
    /\ run \in RunRecord /\ accepted(run) /\ same(run, runs[r])
    /\ runs' = [runs EXCEPT ![r] = run]

LEMMA EndedAccepted ==
    ASSUME NEW run \in RunRecord, accepted(run), NEW j \in Job, NEW x \in Result,
           run.job[j] = "pending",
           x = "success" /\ j \in {"test", "release"} => run.commit \in Green,
           x = "success" /\ j = "validate" => run.version \in WellFormed,
           x = "skipped" /\ j = "validate" => run.event = "push"
    PROVE  ended(run, j, x) \in RunRecord /\ accepted(ended(run, j, x))
               /\ same(ended(run, j, x), run) /\ ended(run, j, x).step = run.step
PROOF
<1> DEFINE e == ended(run, j, x)
<1>1. /\ e \in RunRecord /\ same(e, run) /\ e.step = run.step
      /\ e.artifacts = run.artifacts /\ e.job[j] = x
      /\ \A i \in Job \ {j} : e.job[i] = run.job[i]
  BY DEF ended, RunRecord, same
<1> HIDE DEF e
<1>2. accepted(e)
  BY <1>1 DEF accepted, same, Job
<1> QED BY <1>1, <1>2 DEF e

LEMMA SharedStep ==
    ASSUME ReleaseTypes, NEW r \in started, accepted(runs[r]), NEW m, gate(r, m), shared(r, m)
    PROVE  /\ UNCHANGED <<tags, releases>> /\ faults' \in 0..MaxFaults
           /\ \E run : becomes(r, run) /\ run.step = runs[r].step
PROOF
<1> DEFINE old == runs[r]
<1>a. old \in RunRecord /\ r \in Run
  BY DEF started, ReleaseTypes
<1>b. /\ NoFault => faults' \in 0..MaxFaults
      /\ Fault => faults' \in 0..MaxFaults
  BY ReleaseAssumption DEF ReleaseTypes, NoFault, Fault
<1>c. {"success", "failure", "skipped"} \subseteq Result
  BY DEF Result
<1>j. /\ "validate" \in Job /\ "test" \in Job /\ "release" \in Job /\ "publish" \in Job
  BY DEF Job
<1>d. ASSUME NEW j \in Job, NEW x \in Result, Continue(r, ended(old, j, x)),
             old.job[j] = "pending",
             x = "success" /\ j \in {"test", "release"} => old.commit \in Green,
             x = "success" /\ j = "validate" => old.version \in WellFormed,
             x = "skipped" /\ j = "validate" => old.event = "push"
      PROVE  \E run : becomes(r, run) /\ run.step = old.step
  <2> DEFINE run == ended(old, j, x)
  <2>1. run \in RunRecord /\ accepted(run) /\ same(run, old) /\ run.step = old.step
    BY <1>a, <1>d, EndedAccepted
  <2>2. runs' = [runs EXCEPT ![r] = run]
    BY <1>d DEF Continue
  <2> HIDE DEF run
  <2>3. becomes(r, run)
    BY <2>1, <2>2 DEF becomes
  <2> QED BY <2>1, <2>3
<1>1. ASSUME NEW j \in Job, Skip(r, j, m[j])
      PROVE  /\ UNCHANGED <<tags, releases>> /\ faults' \in 0..MaxFaults
             /\ \E run : becomes(r, run) /\ run.step = old.step
  <2>1. /\ Continue(r, ended(old, j, "skipped")) /\ old.job[j] = "pending" /\ NoFault
        /\ UNCHANGED <<tags, releases>>
    BY <1>1 DEF Skip, due
  <2>2. j = "validate" => old.event = "push"
    BY <1>1 DEF Skip, gate
  <2>3. \E run : becomes(r, run) /\ run.step = old.step
    BY <1>c, <1>d, <2>1, <2>2
  <2> QED BY <1>b, <2>1, <2>3
<1>2. CASE Validate(r, m["validate"])
  <2>1. /\ UNCHANGED <<tags, releases>> /\ faults' \in 0..MaxFaults
        /\ \/ Continue(r, ended(old, "validate", "success")) /\ old.version \in WellFormed
           \/ Continue(r, ended(old, "validate", "failure"))
    BY <1>2, <1>b DEF Validate, TagIsSeen, TagIsNotSeen
  <2>2. old.job["validate"] = "pending"
    BY <1>2 DEF Validate, due
  <2> QED BY <1>c, <1>d, <1>j, <2>1, <2>2
<1>3. CASE Test(r, m["test"])
  <2> DEFINE x == IF old.commit \in Green THEN "success" ELSE "failure"
  <2>1. x \in {"success", "failure"} /\ (x = "success" => old.commit \in Green)
    OBVIOUS
  <2>2. /\ Continue(r, ended(old, "test", x)) /\ old.job["test"] = "pending" /\ NoFault
        /\ UNCHANGED <<tags, releases>>
    BY <1>3 DEF Test, due
  <2> HIDE DEF x
  <2>3. \E run : becomes(r, run) /\ run.step = old.step
    BY <1>c, <1>d, <1>j, <2>1, <2>2
  <2> QED BY <1>b, <2>2, <2>3
<1>4. ASSUME NEW t \in Target, Build(r, t, m["release"])
      PROVE  /\ UNCHANGED <<tags, releases>> /\ faults' \in 0..MaxFaults
             /\ \E run : becomes(r, run) /\ run.step = old.step
  <2>1. PICK go \in Toolchain :
          LET next == [old EXCEPT !.done = @ \cup {t},
                                  !.artifacts[t] = [commit |-> old.commit, go |-> go]]
          IN  Continue(r, IF next.done = Target THEN ended(next, "release", "success")
                                                ELSE next)
    BY <1>4 DEF Build
  <2> DEFINE next == [old EXCEPT !.done = @ \cup {t},
                                 !.artifacts[t] = [commit |-> old.commit, go |-> go]]
  <2>2. /\ next \in RunRecord /\ same(next, old) /\ next.step = old.step
        /\ next.job = old.job
        /\ next.artifacts = [old.artifacts EXCEPT ![t] = [commit |-> old.commit, go |-> go]]
    BY <1>a DEF RunRecord, Files, Binary, same
  <2>3. old.job["release"] = "pending" /\ old.job["test"] = "success"
    BY <1>4 DEF Build, due, gate
  <2>4. accepted(next)
    BY <1>a, <2>2, NoneAssumption DEF accepted, same, RunRecord, Files
  <2> HIDE DEF next
  <2>5. CASE next.done = Target
    <3> DEFINE run == ended(next, "release", "success")
    <3>1. next.job["release"] = "pending" /\ next.commit \in Green
      BY <2>2, <2>3 DEF accepted, same
    <3>2. run \in RunRecord /\ accepted(run) /\ same(run, next) /\ run.step = next.step
      BY <1>c, <1>j, <2>2, <2>4, <3>1, EndedAccepted
    <3>3. runs' = [runs EXCEPT ![r] = run]
      BY <2>1, <2>5 DEF Continue, next
    <3> HIDE DEF run
    <3>4. becomes(r, run) /\ run.step = old.step
      BY <2>2, <3>2, <3>3 DEF becomes, same
    <3> QED BY <1>4, <1>b, <3>4 DEF Build
  <2>6. CASE next.done # Target
    <3>1. becomes(r, next)
      BY <2>1, <2>2, <2>4, <2>6 DEF becomes, Continue, next
    <3> QED BY <1>4, <1>b, <2>2, <3>1 DEF Build
  <2> QED BY <2>5, <2>6
<1>5. ASSUME NEW j \in Job, JobFails(r, j, m[j])
      PROVE  /\ UNCHANGED <<tags, releases>> /\ faults' \in 0..MaxFaults
             /\ \E run : becomes(r, run) /\ run.step = old.step
  <2>1. /\ Continue(r, ended(old, j, "failure")) /\ old.job[j] = "pending" /\ Fault
        /\ UNCHANGED <<tags, releases>>
    BY <1>5 DEF JobFails, due
  <2>2. \E run : becomes(r, run) /\ run.step = old.step
    BY <1>c, <1>d, <2>1
  <2> QED BY <1>b, <2>1, <2>2
<1>6. CASE Expire(r)
  <2> DEFINE run == [old EXCEPT !.artifacts = noFiles]
  <2>1. run \in RunRecord /\ same(run, old) /\ run.step = old.step /\ run.job = old.job
    BY <1>a DEF RunRecord, Files, noFiles, same
  <2>2. run.artifacts = noFiles
    BY <1>a DEF RunRecord
  <2>3. Continue(r, run) /\ Fault /\ UNCHANGED <<tags, releases>>
    BY <1>6 DEF Expire
  <2> HIDE DEF run
  <2>4. accepted(run)
    BY <2>1, <2>2 DEF accepted, noFiles, same
  <2> QED BY <1>b, <2>1, <2>3, <2>4 DEF becomes, Continue
<1> QED BY <1>1, <1>2, <1>3, <1>4, <1>5, <1>6 DEF shared

LEMMA RerunStep ==
    ASSUME ReleaseTypes, NEW r \in started, accepted(runs[r]), rerun(r)
    PROVE  /\ concluded(r) /\ UNCHANGED <<tags, releases, faults>>
           /\ \E run : becomes(r, run) /\ run.step = "lookTag"
PROOF
<1> DEFINE old == runs[r]
<1>a. old \in RunRecord /\ r \in Run
  BY DEF started, ReleaseTypes
<1>1. CASE RerunFailed(r)
  <2> DEFINE jobs == [j \in Job |-> IF old.job[j] = "success" THEN "success" ELSE "pending"]
             run  == [old EXCEPT !.step = "lookTag", !.job = jobs]
  <2>1. jobs \in [Job -> Result]
    BY DEF Result
  <2>2. /\ run \in RunRecord /\ same(run, old) /\ run.step = "lookTag"
        /\ run.artifacts = old.artifacts /\ run.job = jobs
    BY <1>a, <2>1 DEF RunRecord, Step, same
  <2>3. runs' = [runs EXCEPT ![r] = run]
    BY <1>1, <1>a DEF RerunFailed, Continue, RunRecord
  <2>4. /\ \A j \in Job : jobs[j] = "success" => old.job[j] = "success"
        /\ \A j \in Job : jobs[j] # "skipped"
    OBVIOUS
  <2> HIDE DEF jobs, run
  <2>5. accepted(run)
    BY <2>2, <2>4 DEF accepted, same, Job
  <2> QED BY <1>1, <2>2, <2>3, <2>5 DEF RerunFailed, becomes, NoFault
<1>2. CASE RerunAll(r)
  <2> DEFINE run == newRun(old.on, old.event, old.version, old.commit)
  <2>1. run \in RunRecord
    BY <1>a, NewRun DEF RunRecord
  <2>2. accepted(run) /\ same(run, old) /\ run.step = "lookTag"
    BY DEF newRun, accepted, same, noFiles, Job
  <2>3. runs' = [runs EXCEPT ![r] = run]
    BY <1>2 DEF RerunAll, Continue
  <2> HIDE DEF run
  <2> QED BY <1>2, <2>1, <2>2, <2>3 DEF RerunAll, becomes, NoFault
<1> QED BY <1>1, <1>2 DEF rerun

\* A run starts as the record run.
starts(r, run) ==
    /\ r \in Run \ started
    /\ run \in RunRecord /\ accepted(run) /\ run.step = "lookTag"
    /\ runs' = [runs EXCEPT ![r] = run]

LEMMA StartStep ==
    ASSUME ReleaseTypes, NEW r \in Run, HubDispatch(r) \/ HubPush(r) \/ CodeDispatch(r)
    PROVE  /\ UNCHANGED <<releases, faults>>
           /\ \E run : starts(r, run)
PROOF
<1>1. PICK p \in {GH, GC}, e \in {"dispatch", "push"}, v \in Version, c \in Commit :
         Start(r, newRun(p, e, v, c))
  BY DEF HubDispatch, HubPush, CodeDispatch
<1>2. p \in Platform
  BY ReleaseAssumption DEF GH, GC
<1> DEFINE run == newRun(p, e, v, c)
<1>3. run \in RunRecord
  BY <1>2, NewRun
<1>4. accepted(run) /\ run.step = "lookTag"
  BY DEF newRun, accepted, noFiles, Job
<1>5. r \in Run \ started /\ runs' = [runs EXCEPT ![r] = run]
  BY <1>1 DEF Start, Continue
<1> HIDE DEF run
<1>6. starts(r, run)
  BY <1>3, <1>4, <1>5 DEF starts
<1> QED BY <1>6 DEF HubDispatch, HubPush, CodeDispatch, NoFault

-----------------------------------------------------------------------------
(***************************************************************************)
(* Tags.  None is moved, and a run that is past the push of its tag has it   *)
(* on its commit.                                                           *)
(***************************************************************************)
tagged(run) ==
    run.step \notin {"lookTag", "pushTag"} =>
        /\ tags[run.on][run.version] # None
        /\ tags[run.on][run.version].commit = run.commit

TagsStay == \A p \in Platform, v \in Version : tags[p][v] # None => tags'[p][v] = tags[p][v]

LEMMA Platforms == GH \in Platform /\ GC \in Platform /\ GH # GC
  BY ReleaseAssumption DEF GH, GC

LEMMA Pushes ==
    ASSUME ReleaseTypes, NEW p \in Platform, NEW v \in Version, NEW tag \in Tag,
           tags[p][v] = None, tags' = [tags EXCEPT ![p][v] = tag]
    PROVE  /\ tags' \in [Platform -> [Version -> Tag \cup {None}]] /\ TagsStay
           /\ tags'[p][v] = tag
           /\ \A q \in Platform, u \in Version :
                 tags'[q][u] # tags[q][u] => q = p /\ u = v
  BY DEF ReleaseTypes, TagsStay

LEMMA Pushed ==
    ASSUME ReleaseTypes, NEW r \in started, NEW p \in Platform, p = runs[r].on,
           pushable(p, runs[r].version, runs[r].commit),
           tags' = pushed(p, runs[r].version, runs[r].commit)
    PROVE  /\ tags' \in [Platform -> [Version -> Tag \cup {None}]] /\ TagsStay
           /\ tags'[p][runs[r].version] # None
           /\ tags'[p][runs[r].version].commit = runs[r].commit
           /\ \A q \in Platform, u \in Version :
                 tags'[q][u] # tags[q][u] => q = p /\ u = runs[r].version
PROOF
<1> DEFINE v == runs[r].version
           c == runs[r].commit
<1>1. v \in Version /\ c \in Commit
  BY DEF ReleaseTypes, RunRecord, started
<1>2. CASE tags[p][v] = None
  <2> DEFINE tag == [commit |-> c, annotated |-> FALSE, by |-> "workflow"]
  <2>1. tag \in Tag /\ tag.commit = c
    BY <1>1 DEF Tag
  <2>2. tags' = [tags EXCEPT ![p][v] = tag]
    BY <1>2 DEF pushed
  <2> HIDE DEF tag
  <2>3. /\ tags' \in [Platform -> [Version -> Tag \cup {None}]] /\ TagsStay
        /\ tags'[p][v] = tag
        /\ \A q \in Platform, u \in Version : tags'[q][u] # tags[q][u] => q = p /\ u = v
    BY <1>1, <1>2, <2>1, <2>2 DEF ReleaseTypes, TagsStay
  <2> QED BY <2>1, <2>3, NoneAssumption
<1>3. CASE tags[p][v] # None
  <2>1. tags' = tags /\ tags[p][v].commit = c
    BY <1>3 DEF pushed, pushable
  <2> QED BY <1>3, <2>1 DEF ReleaseTypes, TagsStay
<1> QED BY <1>2, <1>3

LEMMA TaggedStays ==
    ASSUME ReleaseTypes, TagsStay, NEW old \in RunRecord, tagged(old),
           NEW run \in RunRecord, same(run, old),
           run.step \in {old.step, "lookTag", "pushTag"}
    PROVE  tagged(run)'
PROOF
<1>1. old.on \in Platform /\ old.version \in Version
  BY DEF RunRecord
<1> QED BY <1>1 DEF tagged, same, TagsStay

LEMMA ProceedStep ==
    ASSUME ReleaseTypes, NEW r \in started, accepted(runs[r]),
           runs[r].job["release"] = "success", NEW s \in Step,
           runs' = [runs EXCEPT ![r] = [runs[r] EXCEPT !.step = s]],
           s # "pushTag" => /\ tags'[runs[r].on][runs[r].version] # None
                            /\ tags'[runs[r].on][runs[r].version].commit = runs[r].commit
    PROVE  \E run : becomes(r, run) /\ run.step = s /\ tagged(run)'
PROOF
<1>0. PICK run : run = [runs[r] EXCEPT !.step = s]
  OBVIOUS
<1>1. runs[r] \in RunRecord
  BY DEF started, ReleaseTypes
<1>2. /\ run \in RunRecord /\ run.step = s /\ run.job = runs[r].job
      /\ same(run, runs[r]) /\ run.artifacts = runs[r].artifacts
  BY <1>0, <1>1 DEF RunRecord, same
<1>3. accepted(run)
  BY <1>2 DEF accepted, same
<1>4. becomes(r, run)
  BY <1>0, <1>2, <1>3 DEF becomes
<1>5. tagged(run)'
  BY <1>2 DEF tagged, same
<1> QED BY <1>2, <1>4, <1>5

LEMMA FinishStep ==
    ASSUME ReleaseTypes, NEW r \in started, accepted(runs[r]), tagged(runs[r]), TagsStay,
           runs[r].job["publish"] = "pending", NEW x \in {"success", "failure"},
           runs' = [runs EXCEPT ![r] = ended(runs[r], "publish", x)]
    PROVE  \E run : becomes(r, run) /\ run.step = runs[r].step /\ tagged(run)'
PROOF
<1>0. PICK run : run = ended(runs[r], "publish", x)
  OBVIOUS
<1>1. runs[r] \in RunRecord /\ x \in Result /\ "publish" \in Job
  BY DEF started, ReleaseTypes, Result, Job
<1>2. run \in RunRecord /\ accepted(run) /\ same(run, runs[r]) /\ run.step = runs[r].step
  BY <1>0, <1>1, EndedAccepted
<1>3. runs' = [runs EXCEPT ![r] = run]
  BY <1>0
<1>4. becomes(r, run)
  BY <1>2, <1>3 DEF becomes
<1>5. tagged(run)'
  BY <1>1, <1>2, TaggedStays
<1> QED BY <1>2, <1>4, <1>5

LEMMA HubPublishStep ==
    ASSUME ReleaseTypes, NEW r, onGitHub(r), accepted(runs[r]), tagged(runs[r]), hubPublish(r)
    PROVE  /\ tags' \in [Platform -> [Version -> Tag \cup {None}]] /\ TagsStay
           /\ faults' \in 0..MaxFaults
           /\ \E run : becomes(r, run) /\ tagged(run)'
PROOF
<1> DEFINE old == runs[r]
           v   == runs[r].version
<1>a. /\ r \in started /\ old \in RunRecord /\ old.on = GH /\ v \in Version
      /\ old.commit \in Commit
  BY DEF onGitHub, started, ReleaseTypes, RunRecord
<1>b. /\ old.job["release"] = "success" /\ old.job["publish"] = "pending"
  BY <1>a, Gates DEF hubPublish, HubLookTag, HubPushTag, HubVerify, HubView, HubCreate,
     HubCreateKilled, publishing, due, gate
<1>c. /\ tags' = tags => TagsStay
      /\ tags' = tags => tags' \in [Platform -> [Version -> Tag \cup {None}]]
      /\ NoFault => faults' \in 0..MaxFaults
      /\ Fault => faults' \in 0..MaxFaults
  BY ReleaseAssumption DEF TagsStay, ReleaseTypes, NoFault, Fault
<1>d. ASSUME NEW s \in Step, proceed(r, s),
             s # "pushTag" => tags'[GH][v] # None /\ tags'[GH][v].commit = old.commit
      PROVE  \E run : becomes(r, run) /\ tagged(run)'
  BY <1>a, <1>b, <1>d, ProceedStep DEF proceed, Continue
<1>e. ASSUME NEW x \in {"success", "failure"}, finish(r, x), TagsStay
      PROVE  \E run : becomes(r, run) /\ tagged(run)'
  BY <1>a, <1>b, <1>e, FinishStep DEF finish, Continue
<1>f. {"verify", "pushTag", "view", "create"} \subseteq Step
  BY DEF Step
<1>1. CASE HubLookTag(r)
  <2>1. tags' = tags /\ faults' \in 0..MaxFaults
    BY <1>1, <1>c DEF HubLookTag, TagIsSeen, TagIsNotSeen
  <2>2. \/ proceed(r, "verify") /\ tags[GH][v] # None /\ tags[GH][v].commit = old.commit
        \/ finish(r, "failure")
        \/ proceed(r, "pushTag")
    BY <1>1 DEF HubLookTag, TagIsSeen, peeled
  <2>3. CASE proceed(r, "verify") /\ tags[GH][v] # None /\ tags[GH][v].commit = old.commit
    <3>1. tags'[GH][v] # None /\ tags'[GH][v].commit = old.commit
      BY <2>1, <2>3
    <3> QED BY <1>c, <1>d, <1>f, <2>1, <2>3, <3>1
  <2>4. CASE finish(r, "failure")
    BY <1>c, <1>e, <2>1, <2>4
  <2>5. CASE proceed(r, "pushTag")
    <3>1. \E run : becomes(r, run) /\ tagged(run)'
      BY <1>d, <1>f, <2>5
    <3> QED BY <1>c, <2>1, <3>1
  <2> QED BY <2>2, <2>3, <2>4, <2>5
<1>2. CASE HubPushTag(r)
  <2>1. faults' \in 0..MaxFaults
    BY <1>2, <1>c DEF HubPushTag
  <2>2. \/ /\ proceed(r, "verify") /\ pushable(GH, v, old.commit)
           /\ tags' = pushed(GH, v, old.commit)
        \/ finish(r, "failure") /\ tags' = tags
    BY <1>2 DEF HubPushTag
  <2>3. CASE finish(r, "failure") /\ tags' = tags
    BY <1>c, <1>e, <2>1, <2>3
  <2>4. CASE /\ proceed(r, "verify") /\ pushable(GH, v, old.commit)
             /\ tags' = pushed(GH, v, old.commit)
    <3>1. /\ tags' \in [Platform -> [Version -> Tag \cup {None}]] /\ TagsStay
          /\ tags'[GH][v] # None /\ tags'[GH][v].commit = old.commit
      BY <1>a, <2>4, Platforms, Pushed
    <3> QED BY <1>d, <1>f, <2>1, <2>4, <3>1
  <2> QED BY <2>2, <2>3, <2>4
<1>3. CASE HubVerify(r) \/ HubView(r)
  <2>1. tags' = tags /\ faults' \in 0..MaxFaults
    BY <1>3, <1>c DEF HubVerify, HubView
  <2>2. \/ \E s \in {"view", "create"} : proceed(r, s)
        \/ \E x \in {"success", "failure"} : finish(r, x)
    BY <1>3 DEF HubVerify, HubView
  <2>3. tags[GH][v] # None /\ tags[GH][v].commit = old.commit
    BY <1>3, <1>a DEF HubVerify, HubView, publishing, tagged
  <2> QED BY <1>c, <1>d, <1>e, <1>f, <2>1, <2>2, <2>3
<1>4. CASE HubCreate(r) \/ HubCreateKilled(r)
  <2>1. tags' = tags /\ faults' \in 0..MaxFaults
    BY <1>4, <1>c DEF HubCreate, HubCreateKilled
  <2>2. \E x \in {"success", "failure"} : finish(r, x)
    BY <1>4 DEF HubCreate, HubCreateKilled
  <2> QED BY <1>c, <1>e, <2>1, <2>2
<1> QED BY <1>1, <1>2, <1>3, <1>4 DEF hubPublish

LEMMA CodePublishStep ==
    ASSUME ReleaseTypes, NEW r, onGitCode(r), accepted(runs[r]), tagged(runs[r]), codePublish(r)
    PROVE  /\ tags' \in [Platform -> [Version -> Tag \cup {None}]] /\ TagsStay
           /\ faults' \in 0..MaxFaults
           /\ \E run : becomes(r, run) /\ tagged(run)'
PROOF
<1> DEFINE old == runs[r]
           v   == runs[r].version
<1>a. /\ r \in started /\ old \in RunRecord /\ old.on = GC /\ v \in Version
      /\ old.commit \in Commit
  BY DEF onGitCode, started, ReleaseTypes, RunRecord
<1>b. /\ old.job["release"] = "success" /\ old.job["publish"] = "pending"
  BY <1>a, Gates DEF codePublish, CodeLookTag, CodePushTag, CodeVerify, CodeCreate,
     CodeUpload, uploading, due, gate
<1>c. /\ tags' = tags => TagsStay
      /\ tags' = tags => tags' \in [Platform -> [Version -> Tag \cup {None}]]
      /\ NoFault => faults' \in 0..MaxFaults
      /\ Fault => faults' \in 0..MaxFaults
  BY ReleaseAssumption DEF TagsStay, ReleaseTypes, NoFault, Fault
<1>d. ASSUME NEW s \in Step, codeProceed(r, s),
             s # "pushTag" => tags'[GC][v] # None /\ tags'[GC][v].commit = old.commit
      PROVE  \E run : becomes(r, run) /\ tagged(run)'
  BY <1>a, <1>b, <1>d, ProceedStep DEF codeProceed, Continue
<1>e. ASSUME NEW x \in {"success", "failure"}, codeFinish(r, x), TagsStay
      PROVE  \E run : becomes(r, run) /\ tagged(run)'
  BY <1>a, <1>b, <1>e, FinishStep DEF codeFinish, Continue
<1>f. {"verify", "pushTag", "create", "upload"} \subseteq Step
  BY DEF Step
<1>1. CASE CodeLookTag(r)
  <2>1. tags' = tags /\ faults' \in 0..MaxFaults
    BY <1>1, <1>c DEF CodeLookTag, TagIsSeen, TagIsNotSeen
  <2>2. \/ codeProceed(r, "verify") /\ tags[GC][v] # None /\ tags[GC][v].commit = old.commit
        \/ codeFinish(r, "failure")
        \/ codeProceed(r, "pushTag")
    BY <1>1 DEF CodeLookTag, TagIsSeen
  <2>3. CASE codeProceed(r, "verify") /\ tags[GC][v] # None /\ tags[GC][v].commit = old.commit
    <3>1. tags'[GC][v] # None /\ tags'[GC][v].commit = old.commit
      BY <2>1, <2>3
    <3> QED BY <1>c, <1>d, <1>f, <2>1, <2>3, <3>1
  <2>4. CASE codeFinish(r, "failure")
    BY <1>c, <1>e, <2>1, <2>4
  <2>5. CASE codeProceed(r, "pushTag")
    <3>1. \E run : becomes(r, run) /\ tagged(run)'
      BY <1>d, <1>f, <2>5
    <3> QED BY <1>c, <2>1, <3>1
  <2> QED BY <2>2, <2>3, <2>4, <2>5
<1>2. CASE CodePushTag(r)
  <2>1. faults' \in 0..MaxFaults
    BY <1>2, <1>c DEF CodePushTag
  <2>2. \/ /\ codeProceed(r, "verify") /\ pushable(GC, v, old.commit)
           /\ tags' = pushed(GC, v, old.commit)
        \/ codeFinish(r, "failure") /\ tags' = tags
    BY <1>2 DEF CodePushTag
  <2>3. CASE codeFinish(r, "failure") /\ tags' = tags
    BY <1>c, <1>e, <2>1, <2>3
  <2>4. CASE /\ codeProceed(r, "verify") /\ pushable(GC, v, old.commit)
             /\ tags' = pushed(GC, v, old.commit)
    <3>1. /\ tags' \in [Platform -> [Version -> Tag \cup {None}]] /\ TagsStay
          /\ tags'[GC][v] # None /\ tags'[GC][v].commit = old.commit
      BY <1>a, <2>4, Platforms, Pushed
    <3> QED BY <1>d, <1>f, <2>1, <2>4, <3>1
  <2> QED BY <2>2, <2>3, <2>4
<1>3. CASE CodeVerify(r) \/ CodeCreate(r) \/ CodeUpload(r)
  <2>1. tags' = tags /\ faults' \in 0..MaxFaults
    BY <1>3, <1>c DEF CodeVerify, CodeCreate, CodeUpload
  <2>2. \/ \E s \in {"create", "upload"} : codeProceed(r, s)
        \/ \E x \in {"success", "failure"} : codeFinish(r, x)
    BY <1>3 DEF CodeVerify, CodeCreate, CodeUpload
  <2>3. tags[GC][v] # None /\ tags[GC][v].commit = old.commit
    BY <1>3, <1>a DEF CodeVerify, CodeCreate, CodeUpload, uploading, tagged
  <2> QED BY <1>c, <1>d, <1>e, <1>f, <2>1, <2>2, <2>3
<1> QED BY <1>1, <1>2, <1>3 DEF codePublish

-----------------------------------------------------------------------------
(***************************************************************************)
(* The inductive invariant of single runs.                                  *)
(***************************************************************************)
\* A run that uploads has created the release it uploads to.
placed(run) == run.step = "upload" => releases[run.on][run.version] # None

IRuns ==
    /\ ReleaseTypes
    /\ \A r \in started : accepted(runs[r]) /\ tagged(runs[r]) /\ placed(runs[r])

(***************************************************************************)
(* What a step may do to releases: none disappears, a published one only     *)
(* grows, and what is added was built by a run whose commit has the tag and  *)
(* passed the tests.                                                        *)
(***************************************************************************)
kept(old, new) ==
    old # None => /\ new # None
                  /\ ~old.draft => /\ ~new.draft
                                   /\ \A t \in Target : old.assets[t] # None =>
                                         new.assets[t] = old.assets[t]

built(r, old, new) ==
    \A t \in Target :
        \/ new.assets[t] \in {None, runs[r].artifacts[t]}
        \/ old # None /\ new.assets[t] = old.assets[t]

fromRun(p, v, r, old, new) ==
    /\ r \in started /\ runs[r].on = p /\ runs[r].version = v
    /\ tags[p][v] # None /\ tags[p][v].commit = runs[r].commit /\ runs[r].commit \in Green
    /\ built(r, old, new)

Releasing ==
    /\ releases' \in [Platform -> [Version -> Release \cup {None}]]
    /\ \A p \in Platform, v \in Version :
          \/ releases'[p][v] = releases[p][v]
          \/ /\ kept(releases[p][v], releases'[p][v])
             /\ releases'[p][v] # None
             /\ \E r \in started : fromRun(p, v, r, releases[p][v], releases'[p][v])

LEMMA NoRelease ==
    ASSUME ReleaseTypes, releases' = releases PROVE Releasing
  BY DEF ReleaseTypes, Releasing

LEMMA Written ==
    ASSUME IRuns, NEW r \in started, runs[r].step \in {"create", "upload"},
           NEW p \in Platform, p = runs[r].on, NEW v \in Version, v = runs[r].version,
           releases' \in [Platform -> [Version -> Release \cup {None}]],
           releases'[p][v] # None,
           \A q \in Platform, u \in Version :
              q # p \/ u # v => releases'[q][u] = releases[q][u],
           kept(releases[p][v], releases'[p][v]), built(r, releases[p][v], releases'[p][v])
    PROVE  Releasing
PROOF
<1>1. fromRun(p, v, r, releases[p][v], releases'[p][v])
  BY DEF IRuns, accepted, tagged, fromRun
<1>2. ASSUME NEW q \in Platform, NEW u \in Version
      PROVE  \/ releases'[q][u] = releases[q][u]
             \/ /\ kept(releases[q][u], releases'[q][u])
                /\ releases'[q][u] # None
                /\ \E s \in started : fromRun(q, u, s, releases[q][u], releases'[q][u])
  <2>1. CASE q = p /\ u = v
    <3>1. /\ fromRun(q, u, r, releases[q][u], releases'[q][u]) /\ releases'[q][u] # None
          /\ kept(releases[q][u], releases'[q][u])
      BY <1>1, <2>1
    <3> QED BY <3>1
  <2>2. CASE ~(q = p /\ u = v)
    BY <2>2
  <2> QED BY <2>1, <2>2
<1> QED BY <1>2 DEF Releasing

LEMMA HubReleases ==
    ASSUME IRuns, NEW r \in Run, onGitHub(r), HubCreate(r) \/ HubCreateKilled(r)
    PROVE  Releasing
PROOF
<1> DEFINE v == runs[r].version
<1>1. /\ r \in started /\ runs[r] \in RunRecord /\ runs[r].on = GH /\ v \in Version
      /\ runs[r].artifacts \in Files
  BY DEF IRuns, ReleaseTypes, onGitHub, started, RunRecord
<1>2. runs[r].step = "create"
  BY DEF HubCreate, HubCreateKilled, publishing
<1>3. CASE HubCreate(r)
  <2> DEFINE new == [draft |-> FALSE, assets |-> runs[r].artifacts]
  <2>1. new \in Release /\ ~new.draft /\ new.assets = runs[r].artifacts
    BY <1>1 DEF Release
  <2>2. \/ releases' = releases
        \/ /\ releases' = [releases EXCEPT ![GH][v] = new]
           /\ releases[GH][v] # None => releases[GH][v].draft
    BY <1>3 DEF HubCreate, hub
  <2> HIDE DEF new
  <2>3. /\ (releases[GH][v] # None => releases[GH][v].draft) => kept(releases[GH][v], new)
        /\ built(r, releases[GH][v], new)
    BY <2>1, NoneAssumption DEF kept, built
  <2>4. CASE /\ releases' = [releases EXCEPT ![GH][v] = new]
             /\ releases[GH][v] # None => releases[GH][v].draft
    <3>1. /\ releases' \in [Platform -> [Version -> Release \cup {None}]]
          /\ releases'[GH][v] = new /\ new # None
          /\ \A q \in Platform, u \in Version :
                q # GH \/ u # v => releases'[q][u] = releases[q][u]
      BY <1>1, <2>1, <2>4, Platforms, NoneAssumption
         DEF IRuns, ReleaseTypes
    <3> QED BY <1>1, <1>2, <2>3, <2>4, <3>1, Platforms, Written
  <2> QED BY <2>2, <2>4, NoRelease DEF IRuns
<1>4. CASE HubCreateKilled(r)
  <2>1. \/ releases' = releases
        \/ /\ releases[GH][v] # None => releases[GH][v].draft
           /\ \E up \in SUBSET Target :
                 releases' = [releases EXCEPT ![GH][v] =
                    [draft |-> TRUE, assets |-> [t \in Target |->
                        IF t \in up THEN runs[r].artifacts[t] ELSE None]]]
    BY <1>4 DEF HubCreateKilled, hub
  <2> SUFFICES ASSUME releases[GH][v] # None => releases[GH][v].draft,
                      NEW up \in SUBSET Target,
                      releases' = [releases EXCEPT ![GH][v] =
                         [draft |-> TRUE, assets |-> [t \in Target |->
                             IF t \in up THEN runs[r].artifacts[t] ELSE None]]]
               PROVE  Releasing
    BY <2>1, NoRelease DEF IRuns
  <2> DEFINE files == [t \in Target |-> IF t \in up THEN runs[r].artifacts[t] ELSE None]
             new   == [draft |-> TRUE, assets |-> files]
  <2>2. files \in Files /\ \A t \in Target : files[t] \in {None, runs[r].artifacts[t]}
    BY <1>1 DEF Files
  <2>3. new \in Release /\ new.assets = files
    BY <2>2 DEF Release
  <2>4. releases' = [releases EXCEPT ![GH][v] = new]
    OBVIOUS
  <2> HIDE DEF files, new
  <2>5. kept(releases[GH][v], new) /\ built(r, releases[GH][v], new)
    BY <2>2, <2>3, NoneAssumption DEF kept, built
  <2>6. /\ releases' \in [Platform -> [Version -> Release \cup {None}]]
        /\ releases'[GH][v] = new /\ new # None
        /\ \A q \in Platform, u \in Version :
              q # GH \/ u # v => releases'[q][u] = releases[q][u]
    BY <1>1, <2>3, <2>4, Platforms, NoneAssumption
         DEF IRuns, ReleaseTypes
  <2>7. /\ kept(releases[GH][v], releases'[GH][v]) /\ built(r, releases[GH][v], releases'[GH][v])
        /\ releases'[GH][v] # None
    BY <2>5, <2>6
  <2> QED BY <1>1, <1>2, <2>6, <2>7, Platforms, Written
<1> QED BY <1>3, <1>4

LEMMA CodeReleases ==
    ASSUME IRuns, NEW r \in Run, onGitCode(r), CodeCreate(r) \/ CodeUpload(r)
    PROVE  /\ Releasing
           /\ CodeCreate(r) => releases'[GC][runs[r].version] # None \/ runs'[r].step = "create"
           /\ CodeUpload(r) => releases'[GC][runs[r].version] # None
PROOF
<1> DEFINE v == runs[r].version
<1>1. /\ r \in started /\ runs[r] \in RunRecord /\ runs[r].on = GC /\ v \in Version
      /\ runs[r].artifacts \in Files /\ runs \in [Run -> RunRecord \cup {None}]
      /\ releases[GC][v] \in Release \cup {None}
  BY Platforms DEF IRuns, ReleaseTypes, onGitCode, started, RunRecord
<1>2. CASE CodeCreate(r)
  <2> DEFINE new == [draft |-> FALSE, assets |-> noFiles]
  <2>0. runs[r].step = "create"
    BY <1>2 DEF CodeCreate, uploading
  <2>1. new \in Release /\ \A t \in Target : new.assets[t] = None
    BY DEF Release, Files, noFiles
  <2>2. \/ releases' = releases /\ codeFinish(r, "failure")
        \/ releases' = [releases EXCEPT ![GC][v] = new] /\ releases[GC][v] = None
    BY <1>2 DEF CodeCreate, code
  <2> HIDE DEF new
  <2>3. releases[GC][v] = None => kept(releases[GC][v], new)
    BY DEF kept
  <2>4. CASE releases' = releases /\ codeFinish(r, "failure")
    <3>1. runs'[r].step = "create"
      BY <1>1, <2>0, <2>4 DEF codeFinish, Continue, ended, RunRecord
    <3>2. ~CodeUpload(r)
      BY <2>0 DEF CodeUpload, uploading
    <3> QED BY <2>4, <3>1, <3>2, NoRelease DEF IRuns
  <2>5. CASE releases' = [releases EXCEPT ![GC][v] = new] /\ releases[GC][v] = None
    <3>0. kept(releases[GC][v], new) /\ built(r, releases[GC][v], new)
      BY <2>1, <2>3, <2>5 DEF built
    <3>1. /\ releases' \in [Platform -> [Version -> Release \cup {None}]]
          /\ releases'[GC][v] = new /\ new # None
          /\ \A q \in Platform, u \in Version :
                q # GC \/ u # v => releases'[q][u] = releases[q][u]
      BY <1>1, <2>1, <2>5, Platforms, NoneAssumption
         DEF IRuns, ReleaseTypes
    <3> QED BY <1>1, <2>0, <3>0, <3>1, Platforms, Written
  <2> QED BY <2>2, <2>4, <2>5
<1>3. CASE CodeUpload(r)
  <2>1. PICK t \in Target :
           /\ releases[GC][v].assets[t] = None
           /\ releases' = [releases EXCEPT ![GC][v].assets[t] = runs[r].artifacts[t]]
    BY <1>3 DEF CodeUpload, code
  <2> DEFINE old == releases[GC][v]
             new == [old EXCEPT !.assets[t] = runs[r].artifacts[t]]
  <2>2. runs[r].step = "upload" /\ old \in Release
    BY <1>1, <1>3 DEF CodeUpload, uploading, IRuns, placed
  <2>3. /\ new \in Release /\ new.draft = old.draft
        /\ new.assets = [old.assets EXCEPT ![t] = runs[r].artifacts[t]]
    BY <1>1, <2>2 DEF Release, Files
  <2>4. releases' = [releases EXCEPT ![GC][v] = new]
    BY <2>1
  <2> HIDE DEF new
  <2>5. /\ \A u \in Target : new.assets[u] = IF u = t THEN runs[r].artifacts[t] ELSE old.assets[u]
        /\ old # None
    BY <2>2, <2>3, NoneAssumption DEF Release, Files
  <2>6. kept(old, new)
    BY <2>1, <2>2, <2>3, <2>5, NoneAssumption DEF kept
  <2>7. /\ releases' \in [Platform -> [Version -> Release \cup {None}]]
        /\ releases'[GC][v] = new /\ new # None
        /\ \A q \in Platform, u \in Version :
              q # GC \/ u # v => releases'[q][u] = releases[q][u]
    BY <1>1, <2>3, <2>4, Platforms, NoneAssumption
         DEF IRuns, ReleaseTypes
  <2>8. Releasing
    <3>1. built(r, old, new)
      BY <2>5 DEF built
    <3> QED BY <1>1, <2>2, <2>6, <2>7, <3>1, Platforms, Written
  <2>9. ~CodeCreate(r)
    BY <2>2 DEF CodeCreate, uploading
  <2> QED BY <2>7, <2>8, <2>9
<1> QED BY <1>2, <1>3

LEMMA NoUpload ==
    ASSUME ReleaseTypes, NEW r \in started,
           hubPublish(r) \/ CodeLookTag(r) \/ CodePushTag(r) \/ CodeVerify(r)
    PROVE  runs'[r].step # "upload"
PROOF
<1>1. runs[r] \in RunRecord /\ runs \in [Run -> RunRecord \cup {None}] /\ r \in Run
  BY DEF ReleaseTypes, started
<1>2. runs[r].step # "upload"
  BY DEF hubPublish, HubLookTag, HubPushTag, HubVerify, HubView, HubCreate, HubCreateKilled,
     publishing, CodeLookTag, CodePushTag, CodeVerify, uploading
<1>3. \/ \E s \in Step \ {"upload"} : Continue(r, [runs[r] EXCEPT !.step = s])
      \/ \E x \in {"success", "failure"} : Continue(r, ended(runs[r], "publish", x))
  <2>1. CASE hubPublish(r)
    BY <2>1 DEF hubPublish, HubLookTag, HubPushTag, HubVerify, HubView, HubCreate,
       HubCreateKilled, proceed, finish, Step
  <2>2. CASE CodeLookTag(r) \/ CodePushTag(r) \/ CodeVerify(r)
    BY <2>2 DEF CodeLookTag, CodePushTag, CodeVerify, codeProceed, codeFinish, Step
  <2> QED BY <2>1, <2>2
<1>4. ASSUME NEW s \in Step \ {"upload"}, Continue(r, [runs[r] EXCEPT !.step = s])
      PROVE  runs'[r].step # "upload"
  BY <1>1, <1>4 DEF Continue, RunRecord
<1>5. ASSUME NEW x \in {"success", "failure"}, Continue(r, ended(runs[r], "publish", x))
      PROVE  runs'[r].step # "upload"
  <2>1. ended(runs[r], "publish", x).step = runs[r].step
    BY <1>1 DEF ended, RunRecord
  <2> QED BY <1>1, <1>2, <1>5, <2>1 DEF Continue
<1> QED BY <1>3, <1>4, <1>5

\* What a step does to the run it is a step of.
moves ==
    \/ UNCHANGED runs
    \/ \E r \in Run : \E run : starts(r, run)
    \/ \E r \in started : \E run : becomes(r, run) /\ tagged(run)' /\ placed(run)'

LEMMA Effects ==
    ASSUME IRuns, Next
    PROVE  /\ tags' \in [Platform -> [Version -> Tag \cup {None}]] /\ TagsStay
           /\ Releasing /\ faults' \in 0..MaxFaults /\ moves
PROOF
<1> USE DEF IRuns
<1>0. /\ UNCHANGED tags => TagsStay /\ tags' \in [Platform -> [Version -> Tag \cup {None}]]
      /\ UNCHANGED faults => faults' \in 0..MaxFaults
  BY DEF ReleaseTypes, TagsStay
<1>a. ASSUME NEW r \in started, NEW m, gate(r, m), shared(r, m)
      PROVE  /\ UNCHANGED <<tags, releases>> /\ faults' \in 0..MaxFaults /\ moves
  <2>1. PICK run : becomes(r, run) /\ run.step = runs[r].step
    BY <1>a, SharedStep
  <2>2. UNCHANGED <<tags, releases>> /\ faults' \in 0..MaxFaults
    BY <1>a, SharedStep
  <2>3. tagged(run)' /\ placed(run)'
    BY <2>1, <2>2 DEF becomes, tagged, placed, same
  <2> QED BY <2>1, <2>2, <2>3 DEF moves
<1>b. ASSUME NEW r \in started, rerun(r)
      PROVE  UNCHANGED <<tags, releases, faults>> /\ moves
  <2>1. PICK run : becomes(r, run) /\ run.step = "lookTag"
    BY <1>b, RerunStep
  <2>2. tagged(run)' /\ placed(run)'
    BY <2>1 DEF tagged, placed
  <2> QED BY <1>b, <2>1, <2>2, RerunStep DEF moves
<1>1. CASE CodePush
  <2>1. PICK r \in started, c \in Commit, a \in BOOLEAN :
           /\ runs[r].on = GC /\ tags[GC][runs[r].version] = None
           /\ tags' = [tags EXCEPT ![GC][runs[r].version] =
                          [commit |-> c, annotated |-> a, by |-> "maintainer"]]
    BY <1>1 DEF CodePush
  <2>2. [commit |-> c, annotated |-> a, by |-> "maintainer"] \in Tag
    BY DEF Tag
  <2>3. runs[r].version \in Version
    BY DEF started, ReleaseTypes, RunRecord
  <2>4. tags' \in [Platform -> [Version -> Tag \cup {None}]] /\ TagsStay
    BY <2>1, <2>2, <2>3, Platforms, Pushes
  <2> QED BY <1>0, <1>1, <2>4, NoRelease DEF CodePush, NoFault, moves
<1>2. ASSUME NEW r \in Run, HubDispatch(r) \/ HubPush(r) \/ CodeDispatch(r)
      PROVE  /\ tags' \in [Platform -> [Version -> Tag \cup {None}]] /\ TagsStay
             /\ Releasing /\ faults' \in 0..MaxFaults /\ moves
  <2>1. UNCHANGED <<releases, faults>> /\ moves
    BY <1>2, StartStep DEF moves
  <2>2. CASE HubDispatch(r) \/ CodeDispatch(r)
    BY <1>0, <2>1, <2>2, NoRelease DEF HubDispatch, CodeDispatch
  <2>3. CASE HubPush(r)
    <3>1. PICK v \in Version, c \in Commit, a \in BOOLEAN :
             /\ tags[GH][v] = None
             /\ tags' = [tags EXCEPT ![GH][v] =
                            [commit |-> c, annotated |-> a, by |-> "maintainer"]]
      BY <2>3 DEF HubPush
    <3>2. [commit |-> c, annotated |-> a, by |-> "maintainer"] \in Tag
      BY DEF Tag
    <3>3. tags' \in [Platform -> [Version -> Tag \cup {None}]] /\ TagsStay
      BY <3>1, <3>2, Platforms, Pushes
    <3> QED BY <1>0, <2>1, <3>3, NoRelease
  <2> QED BY <1>2, <2>2, <2>3
<1>3. ASSUME NEW r \in Run, onGitHub(r), shared(r, may(r)) \/ rerun(r) \/ hubPublish(r)
      PROVE  /\ tags' \in [Platform -> [Version -> Tag \cup {None}]] /\ TagsStay
             /\ Releasing /\ faults' \in 0..MaxFaults /\ moves
  <2>0. r \in started /\ runs[r] \in RunRecord
    BY <1>3 DEF onGitHub, started, ReleaseTypes
  <2>1. CASE shared(r, may(r))
    BY <1>0, <1>a, <2>0, <2>1, Gates, NoRelease
  <2>2. CASE rerun(r)
    BY <1>0, <1>b, <2>0, <2>2, NoRelease
  <2>3. CASE hubPublish(r)
    <3>1. /\ tags' \in [Platform -> [Version -> Tag \cup {None}]] /\ TagsStay
          /\ faults' \in 0..MaxFaults
      BY <1>3, <2>0, <2>3, HubPublishStep
    <3>2. PICK run : becomes(r, run) /\ tagged(run)'
      BY <1>3, <2>0, <2>3, HubPublishStep
    <3>3. Releasing
      <4>1. CASE HubCreate(r) \/ HubCreateKilled(r)
        BY <1>3, <4>1, HubReleases
      <4>2. CASE HubLookTag(r) \/ HubPushTag(r) \/ HubVerify(r) \/ HubView(r)
        BY <4>2, NoRelease DEF HubLookTag, HubPushTag, HubVerify, HubView
      <4> QED BY <2>3, <4>1, <4>2 DEF hubPublish
    <3>4. runs'[r] = run /\ runs'[r].step # "upload"
      BY <2>0, <2>3, <3>2, NoUpload DEF becomes, ReleaseTypes, started
    <3>5. placed(run)'
      BY <3>4 DEF placed
    <3> QED BY <2>0, <3>1, <3>2, <3>3, <3>5 DEF moves
  <2> QED BY <1>3, <2>1, <2>2, <2>3
<1>4. ASSUME NEW r \in Run, onGitCode(r), shared(r, allNeeded(r)) \/ codePublish(r) \/ rerun(r)
      PROVE  /\ tags' \in [Platform -> [Version -> Tag \cup {None}]] /\ TagsStay
             /\ Releasing /\ faults' \in 0..MaxFaults /\ moves
  <2>0. r \in started /\ runs[r] \in RunRecord
    BY <1>4 DEF onGitCode, started, ReleaseTypes
  <2>1. CASE shared(r, allNeeded(r))
    BY <1>0, <1>a, <2>0, <2>1, Gates, NoRelease
  <2>2. CASE rerun(r)
    BY <1>0, <1>b, <2>0, <2>2, NoRelease
  <2>3. CASE codePublish(r)
    <3>1. /\ tags' \in [Platform -> [Version -> Tag \cup {None}]] /\ TagsStay
          /\ faults' \in 0..MaxFaults
      BY <1>4, <2>0, <2>3, CodePublishStep
    <3>2. PICK run : becomes(r, run) /\ tagged(run)'
      BY <1>4, <2>0, <2>3, CodePublishStep
    <3>3. runs'[r] = run /\ run.on = GC /\ run.version = runs[r].version
      BY <1>4, <2>0, <3>2 DEF becomes, same, ReleaseTypes, started, onGitCode
    <3>4. CASE CodeCreate(r) \/ CodeUpload(r)
      <4>1. Releasing /\ placed(run)'
        BY <1>4, <3>3, <3>4, CodeReleases DEF placed
      <4> QED BY <2>0, <3>1, <3>2, <4>1 DEF moves
    <3>5. CASE CodeLookTag(r) \/ CodePushTag(r) \/ CodeVerify(r)
      <4>1. Releasing
        BY <3>5, NoRelease DEF CodeLookTag, CodePushTag, CodeVerify
      <4>2. placed(run)'
        BY <2>0, <3>3, <3>5, NoUpload DEF placed
      <4> QED BY <2>0, <3>1, <3>2, <4>1, <4>2 DEF moves
    <3> QED BY <2>3, <3>4, <3>5 DEF codePublish
  <2> QED BY <1>4, <2>1, <2>2, <2>3
<1> QED BY <1>1, <1>2, <1>3, <1>4, Actions

LEMMA ReleasesStay ==
    ASSUME Releasing, NEW p \in Platform, NEW v \in Version, releases[p][v] # None
    PROVE  releases'[p][v] # None
  BY DEF Releasing

LEMMA IRunsNext ==
    ASSUME IRuns, [Next]_releaseVars
    PROVE  IRuns' /\ TagsStay /\ Releasing
PROOF
<1>1. CASE Next
  <2>1. /\ tags' \in [Platform -> [Version -> Tag \cup {None}]] /\ TagsStay
        /\ Releasing /\ faults' \in 0..MaxFaults /\ moves
    BY <1>1, Effects
  <2>0. ReleaseTypes
    BY DEF IRuns
  <2>2. ASSUME NEW r \in started
        PROVE  accepted(runs[r]) /\ tagged(runs[r])' \in BOOLEAN
    BY DEF IRuns, tagged
  <2>3. ASSUME NEW r \in started, NEW run, run = runs[r]
        PROVE  run \in RunRecord /\ accepted(run) /\ tagged(run)' /\ placed(run)'
    <3>1. run \in RunRecord /\ accepted(run) /\ tagged(run) /\ placed(run)
      BY <2>3 DEF IRuns, started, ReleaseTypes
    <3>2. run.on \in Platform /\ run.version \in Version
      BY <3>1 DEF RunRecord
    <3>3. tagged(run)'
      BY <2>0, <2>1, <3>1, TaggedStays DEF same
    <3>4. placed(run)'
      BY <2>1, <3>1, <3>2, ReleasesStay DEF placed
    <3> QED BY <3>1, <3>3, <3>4
  <2>4. CASE UNCHANGED runs
    <3>1. ASSUME NEW r \in started'
          PROVE  accepted(runs'[r]) /\ tagged(runs[r])' /\ placed(runs[r])'
      <4>1. r \in started /\ runs'[r] = runs[r]
        BY <2>4 DEF started
      <4>2. PICK run : run = runs[r]
        OBVIOUS
      <4>3. accepted(run) /\ tagged(run)' /\ placed(run)' /\ run = runs'[r]
        BY <2>3, <4>1, <4>2
      <4> QED BY <4>3
    <3> QED BY <2>0, <2>1, <2>4, <3>1 DEF IRuns, ReleaseTypes, Releasing
  <2>5. ASSUME NEW r \in Run, NEW new, runs' = [runs EXCEPT ![r] = new],
               new \in RunRecord, accepted(new), tagged(new)', placed(new)'
        PROVE  IRuns'
    <3>0. runs \in [Run -> RunRecord \cup {None}]
      BY <2>0 DEF ReleaseTypes
    <3>1. ASSUME NEW q \in started'
          PROVE  accepted(runs'[q]) /\ tagged(runs[q])' /\ placed(runs[q])'
      <4>1. PICK run : run = runs'[q]
        OBVIOUS
      <4>2. CASE q = r
        <5>1. run = new
          BY <2>5, <3>0, <4>1, <4>2
        <5> QED BY <2>5, <4>1, <5>1
      <4>3. CASE q # r
        <5>1. q \in started /\ run = runs[q]
          BY <2>5, <3>0, <4>1, <4>3 DEF started
        <5>2. accepted(run) /\ tagged(run)' /\ placed(run)'
          BY <2>3, <5>1
        <5> QED BY <4>1, <5>2
      <4> QED BY <4>2, <4>3
    <3>2. runs' \in [Run -> RunRecord \cup {None}]
      BY <2>5, <3>0
    <3> QED BY <2>0, <2>1, <3>1, <3>2 DEF IRuns, ReleaseTypes, Releasing
  <2>6. ASSUME NEW r \in Run, NEW run, starts(r, run) PROVE IRuns'
    <3>1. tagged(run)' /\ placed(run)'
      BY <2>6 DEF starts, tagged, placed
    <3> QED BY <2>5, <2>6, <3>1 DEF starts
  <2>7. ASSUME NEW r \in started, NEW run, becomes(r, run), tagged(run)', placed(run)'
        PROVE  IRuns'
    BY <2>5, <2>7 DEF becomes, started
  <2> QED BY <2>1, <2>4, <2>6, <2>7 DEF moves
<1>2. CASE UNCHANGED releaseVars
  BY <1>2, NoRelease DEF IRuns, releaseVars, ReleaseTypes, started, accepted, tagged, placed,
     TagsStay
<1> QED BY <1>1, <1>2

-----------------------------------------------------------------------------
(***************************************************************************)
(* What is under a tag: a workflow only pushes a tag after its gates.        *)
(***************************************************************************)
gatedTag(p, v) ==
    tags[p][v] # None /\ tags[p][v].by = "workflow" =>
        tags[p][v].commit \in Green /\ v \in WellFormed

LEMMA WorkflowTags ==
    ASSUME IRuns, NEW r \in started, NEW p \in Platform, p = runs[r].on,
           runs[r].commit \in Green, runs[r].version \in WellFormed,
           tags' = pushed(p, runs[r].version, runs[r].commit),
           NEW q \in Platform, NEW u \in Version, gatedTag(q, u)
    PROVE  gatedTag(q, u)'
PROOF
<1> DEFINE v == runs[r].version
           tag == [commit |-> runs[r].commit, annotated |-> FALSE, by |-> "workflow"]
<1>1. /\ v \in Version /\ v \in WellFormed /\ tag.commit \in Green
      /\ tags \in [Platform -> [Version -> Tag \cup {None}]]
  BY DEF IRuns, ReleaseTypes, started, RunRecord
<1>2. CASE tags[p][v] = None
  <2>1. tags' = [tags EXCEPT ![p][v] = tag]
    BY <1>2 DEF pushed
  <2> HIDE DEF tag
  <2>2. tags'[q][u] = IF q = p /\ u = v THEN tag ELSE tags[q][u]
    BY <1>1, <2>1
  <2> QED BY <1>1, <2>2 DEF gatedTag
<1>3. CASE tags[p][v] # None
  BY <1>3 DEF pushed, gatedTag
<1> QED BY <1>2, <1>3

LEMMA MaintainerTags ==
    ASSUME ReleaseTypes, NEW p \in Platform, NEW v \in Version, NEW tag \in Tag,
           tag.by = "maintainer", tags' = [tags EXCEPT ![p][v] = tag],
           NEW q \in Platform, NEW u \in Version, gatedTag(q, u)
    PROVE  gatedTag(q, u)'
PROOF
<1>1. tags'[q][u] = IF q = p /\ u = v THEN tag ELSE tags[q][u]
  BY DEF ReleaseTypes
<1> QED BY <1>1 DEF gatedTag

LEMMA TagsGated ==
    ASSUME IRuns, [Next]_releaseVars, NEW q \in Platform, NEW u \in Version, gatedTag(q, u)
    PROVE  gatedTag(q, u)'
PROOF
<1>0. UNCHANGED tags => gatedTag(q, u)'
  BY DEF gatedTag
<1>1. CASE CodePush
  <2>1. PICK r \in started, c \in Commit, a \in BOOLEAN :
           /\ runs[r].on = GC
           /\ tags' = [tags EXCEPT ![GC][runs[r].version] =
                          [commit |-> c, annotated |-> a, by |-> "maintainer"]]
    BY <1>1 DEF CodePush
  <2> DEFINE tag == [commit |-> c, annotated |-> a, by |-> "maintainer"]
  <2>2. tag \in Tag /\ tag.by = "maintainer" /\ runs[r].version \in Version
    BY DEF Tag, IRuns, started, ReleaseTypes, RunRecord
  <2>3. tags' = [tags EXCEPT ![GC][runs[r].version] = tag]
    BY <2>1
  <2> QED BY <2>2, <2>3, Platforms, MaintainerTags DEF IRuns
<1>2. ASSUME NEW r \in Run, HubPush(r)
      PROVE  gatedTag(q, u)'
  <2>1. PICK v \in Version, c \in Commit, a \in BOOLEAN :
           tags' = [tags EXCEPT ![GH][v] =
                          [commit |-> c, annotated |-> a, by |-> "maintainer"]]
    BY <1>2 DEF HubPush
  <2> DEFINE tag == [commit |-> c, annotated |-> a, by |-> "maintainer"]
  <2>2. tag \in Tag /\ tag.by = "maintainer"
    BY DEF Tag
  <2>3. tags' = [tags EXCEPT ![GH][v] = tag]
    BY <2>1
  <2> QED BY <2>2, <2>3, Platforms, MaintainerTags DEF IRuns
<1>3. ASSUME NEW r \in Run, HubDispatch(r) \/ CodeDispatch(r) PROVE gatedTag(q, u)'
  BY <1>0, <1>3 DEF HubDispatch, CodeDispatch
<1>4. ASSUME NEW r \in started, NEW m, gate(r, m), shared(r, m) PROVE gatedTag(q, u)'
  BY <1>0, <1>4, SharedStep DEF IRuns
<1>5. ASSUME NEW r \in started, rerun(r) PROVE gatedTag(q, u)'
  BY <1>0, <1>5, RerunStep DEF IRuns
<1>6. ASSUME NEW r \in Run, onGitHub(r), hubPublish(r) PROVE gatedTag(q, u)'
  <2>0. r \in started /\ runs[r] \in RunRecord /\ runs[r].on = GH
    BY <1>6 DEF onGitHub, started, IRuns, ReleaseTypes
  <2>1. CASE HubPushTag(r)
    <3>1. \/ tags' = tags
          \/ /\ runs[r].event = "dispatch"
             /\ tags' = pushed(GH, runs[r].version, runs[r].commit)
      BY <2>1 DEF HubPushTag
    <3>2. /\ runs[r].job["release"] = "success"
          /\ runs[r].job["validate"] \in {"success", "skipped"}
      BY <2>0, <2>1, Gates DEF HubPushTag, publishing, gate
    <3>3. CASE runs[r].event = "dispatch"
      <4>1. runs[r].commit \in Green /\ runs[r].version \in WellFormed
        BY <2>0, <3>2, <3>3 DEF IRuns, accepted
      <4> QED BY <1>0, <2>0, <3>1, <4>1, Platforms, WorkflowTags
    <3> QED BY <1>0, <3>1, <3>3
  <2>2. CASE ~HubPushTag(r)
    BY <1>0, <1>6, <2>2 DEF hubPublish, HubLookTag, HubVerify, HubView, HubCreate,
       HubCreateKilled
  <2> QED BY <2>1, <2>2
<1>7. ASSUME NEW r \in Run, onGitCode(r), codePublish(r) PROVE gatedTag(q, u)'
  <2>0. r \in started /\ runs[r] \in RunRecord /\ runs[r].on = GC
    BY <1>7 DEF onGitCode, started, IRuns, ReleaseTypes
  <2>1. CASE CodePushTag(r)
    <3>1. \/ tags' = tags
          \/ tags' = pushed(GC, runs[r].version, runs[r].commit)
      BY <2>1 DEF CodePushTag
    <3>2. runs[r].job["release"] = "success" /\ runs[r].job["validate"] = "success"
      BY <2>1 DEF CodePushTag, uploading, allNeeded, needs, Job
    <3>3. runs[r].commit \in Green /\ runs[r].version \in WellFormed
      BY <2>0, <3>2 DEF IRuns, accepted
    <3> QED BY <1>0, <2>0, <3>1, <3>3, Platforms, WorkflowTags
  <2>2. CASE ~CodePushTag(r)
    BY <1>0, <1>7, <2>2 DEF codePublish, CodeLookTag, CodeVerify, CodeCreate, CodeUpload
  <2> QED BY <2>1, <2>2
<1>8. ASSUME Next PROVE gatedTag(q, u)'
  <2>1. ASSUME NEW r \in Run, onGitHub(r), shared(r, may(r)) \/ rerun(r) \/ hubPublish(r)
        PROVE  gatedTag(q, u)'
    BY <1>4, <1>5, <1>6, <2>1, Gates DEF onGitHub, IRuns, ReleaseTypes, started
  <2>2. ASSUME NEW r \in Run, onGitCode(r), shared(r, allNeeded(r)) \/ rerun(r) \/ codePublish(r)
        PROVE  gatedTag(q, u)'
    BY <1>4, <1>5, <1>7, <2>2, Gates DEF onGitCode, IRuns, ReleaseTypes, started
  <2> QED BY <1>1, <1>2, <1>3, <1>8, <2>1, <2>2, Actions
<1> QED BY <1>0, <1>8 DEF releaseVars

(***************************************************************************)
(* The inductive invariant of what is released.                             *)
(***************************************************************************)
IReleased == IRuns /\ AssetsFromTag /\ OnlyGated

LEMMA InitReleased == ASSUME Init PROVE IReleased
PROOF
<1>1. /\ \A p \in Platform, v \in Version : tags[p][v] = None /\ releases[p][v] = None
      /\ started = {}
  BY DEF Init, started
<1>2. ReleaseTypes
  BY ReleaseAssumption DEF Init, ReleaseTypes
<1>3. \A e \in Entry : releaseOf(e) = None /\ tagOf(e) = None
  BY <1>1 DEF Entry, releaseOf, tagOf
<1> QED BY <1>1, <1>2, <1>3 DEF IReleased, IRuns, AssetsFromTag, OnlyGated

LEMMA ReleasedNext ==
    ASSUME IReleased, [Next]_releaseVars
    PROVE  IReleased'
PROOF
<1>0. IRuns /\ IRuns' /\ TagsStay /\ Releasing
  BY IRunsNext DEF IReleased
<1>1. ASSUME NEW p \in Platform, NEW v \in Version, releases'[p][v] # None
      PROVE  /\ tags'[p][v] # None /\ tags'[p][v].commit \in Green
             /\ \A t \in Target : releases'[p][v].assets[t] # None =>
                   releases'[p][v].assets[t].commit = tags'[p][v].commit
  <2> DEFINE old == releases[p][v]
             new == releases'[p][v]
  <2>1. old # None =>
           /\ tags[p][v] # None /\ tags[p][v].commit \in Green
           /\ \A t \in Target : old.assets[t] # None =>
                 old.assets[t].commit = tags[p][v].commit
    <3>1. <<p, v>> \in Entry /\ releaseOf(<<p, v>>) = old /\ tagOf(<<p, v>>) = tags[p][v]
      BY DEF Entry, releaseOf, tagOf
    <3> QED BY <3>1 DEF IReleased, AssetsFromTag, OnlyGated
  <2>2. CASE new = old
    BY <1>0, <1>1, <2>1, <2>2 DEF TagsStay
  <2>3. CASE \E r \in started : fromRun(p, v, r, old, new)
    <3>1. PICK r \in started : fromRun(p, v, r, old, new)
      BY <2>3
    <3>2. tags'[p][v] = tags[p][v] /\ tags[p][v] # None /\ tags[p][v].commit \in Green
      BY <1>0, <3>1 DEF TagsStay, fromRun
    <3>3. ASSUME NEW t \in Target, new.assets[t] # None
          PROVE  new.assets[t].commit = tags[p][v].commit
      <4>1. CASE new.assets[t] = runs[r].artifacts[t]
        BY <1>0, <3>1, <3>3, <4>1 DEF IRuns, accepted, fromRun
      <4>2. CASE old # None /\ new.assets[t] = old.assets[t]
        BY <2>1, <3>3, <4>2
      <4> QED BY <3>1, <3>3, <4>1, <4>2 DEF fromRun, built
    <3> QED BY <3>2, <3>3
  <2> QED BY <1>0, <2>2, <2>3 DEF Releasing
<1>2. ASSUME NEW p \in Platform, NEW v \in Version PROVE gatedTag(p, v)'
  <2>1. gatedTag(p, v)
    <3>1. <<p, v>> \in Entry /\ tagOf(<<p, v>>) = tags[p][v] /\ <<p, v>>[2] = v
      BY DEF Entry, tagOf
    <3> QED BY <3>1 DEF IReleased, OnlyGated, gatedTag
  <2> QED BY <1>0, <2>1, TagsGated
<1>3. ASSUME NEW e \in Entry
      PROVE  /\ e[1] \in Platform /\ e[2] \in Version
  BY DEF Entry
<1>4. AssetsFromTag'
  BY <1>1, <1>3 DEF AssetsFromTag, releaseOf, tagOf
<1>5. OnlyGated'
  BY <1>1, <1>2, <1>3 DEF OnlyGated, releaseOf, tagOf, gatedTag
<1> QED BY <1>0, <1>4, <1>5 DEF IReleased

(***************************************************************************)
(* The types of tags, releases and runs (both release.yml).                 *)
(***************************************************************************)
THEOREM ReleaseTypesTheorem == Spec => []ReleaseTypes
PROOF
<1>1. IReleased => ReleaseTypes
  BY DEF IReleased, IRuns
<1> QED BY <1>1, InitReleased, ReleasedNext, PTL DEF Spec

(***************************************************************************)
(* Whichever runs race for a tag and whatever is re-run, what is released    *)
(* under a tag was built from the commit it points to (release.yml:168-187). *)
(***************************************************************************)
THEOREM AssetsFromTagTheorem == Spec => []AssetsFromTag
PROOF
<1>1. IReleased => AssetsFromTag
  BY DEF IReleased
<1> QED BY <1>1, InitReleased, ReleasedNext, PTL DEF Spec

(***************************************************************************)
(* Nothing is released, and no tag pushed by a workflow, that the test job   *)
(* did not accept, nor a tag the whitelist refuses (release.yml:63).         *)
(***************************************************************************)
THEOREM OnlyGatedTheorem == Spec => []OnlyGated
PROOF
<1>1. IReleased => OnlyGated
  BY DEF IReleased
<1> QED BY <1>1, InitReleased, ReleasedNext, PTL DEF Spec

(***************************************************************************)
(* A file once published stays that file (release.yml:246-267 "refusing to   *)
(* overwrite").                                                             *)
(***************************************************************************)
THEOREM PublishedIsFinalTheorem == Spec => PublishedIsFinal
PROOF
<1>1. ASSUME IReleased, [Next]_releaseVars,
             NEW e \in Entry, releaseOf(e) # None, ~releaseOf(e).draft
      PROVE  /\ releaseOf(e)' # None /\ ~releaseOf(e)'.draft
             /\ \A t \in Target : releaseOf(e).assets[t] # None =>
                   releaseOf(e)'.assets[t] = releaseOf(e).assets[t]
  <2>1. Releasing
    BY <1>1, IRunsNext DEF IReleased
  <2>2. e[1] \in Platform /\ e[2] \in Version
    BY DEF Entry
  <2> QED BY <1>1, <2>1, <2>2 DEF Releasing, kept, releaseOf
<1>2. IReleased /\ [Next]_releaseVars =>
         [\A e \in Entry : releaseOf(e) # None /\ ~releaseOf(e).draft =>
             /\ releaseOf(e)' # None /\ ~releaseOf(e)'.draft
             /\ \A t \in Target : releaseOf(e).assets[t] # None =>
                   releaseOf(e)'.assets[t] = releaseOf(e).assets[t]]_releaseVars
  BY <1>1
<1> QED BY <1>2, InitReleased, ReleasedNext, PTL DEF Spec, PublishedIsFinal

-----------------------------------------------------------------------------
(***************************************************************************)
(* GreenMeansPublished.  The steps that both workflows share leave the       *)
(* result of the publish job, and the artifacts once they are all built.    *)
(***************************************************************************)
LEMMA SharedKeeps ==
    ASSUME ReleaseTypes, NEW r \in started, NEW m, shared(r, m)
    PROVE  /\ runs'[r].job["publish"] = "success" => runs[r].job["publish"] = "success"
           /\ runs'[r].job["publish"] = "pending" => runs[r].job["publish"] = "pending"
           /\ concluded(r) => runs'[r].job = runs[r].job
           /\ \/ runs'[r].artifacts = runs[r].artifacts
              \/ concluded(r) \/ runs[r].job["release"] = "pending"
PROOF
<1>0. r \in Run /\ runs[r] \in RunRecord /\ runs \in [Run -> RunRecord \cup {None}]
  BY DEF ReleaseTypes, started
<1>1. ASSUME NEW j \in Job, NEW x, runs[r].job[j] = "pending", x # "pending",
             j = "publish" => x # "success",
             NEW run \in RunRecord, run.job = runs[r].job,
             run.artifacts = runs[r].artifacts \/ runs[r].job["release"] = "pending",
             Continue(r, ended(run, j, x))
      PROVE  /\ runs'[r].job["publish"] = "success" => runs[r].job["publish"] = "success"
             /\ runs'[r].job["publish"] = "pending" => runs[r].job["publish"] = "pending"
             /\ ~concluded(r)
             /\ \/ runs'[r].artifacts = runs[r].artifacts
                \/ runs[r].job["release"] = "pending"
  <2>1. runs'[r] = ended(run, j, x)
    BY <1>0, <1>1 DEF Continue
  <2>2. /\ runs'[r].artifacts = run.artifacts
        /\ runs'[r].job = [run.job EXCEPT ![j] = x]
    BY <1>0, <1>1, <2>1 DEF ended, RunRecord
  <2>3. runs'[r].job["publish"] = IF j = "publish" THEN x ELSE runs[r].job["publish"]
    BY <1>0, <1>1, <2>2 DEF RunRecord, Job
  <2> QED BY <1>1, <2>2, <2>3 DEF concluded
<1>2. CASE \E j \in Job : Skip(r, j, m[j])
  BY <1>0, <1>1, <1>2 DEF Skip, due
<1>3. CASE \E j \in Job : JobFails(r, j, m[j])
  BY <1>0, <1>1, <1>3 DEF JobFails, due
<1>4. CASE Validate(r, m["validate"])
  BY <1>0, <1>1, <1>4 DEF Validate, due, Job
<1>5. CASE Test(r, m["test"])
  <2>1. PICK x \in {"success", "failure"} : Continue(r, ended(runs[r], "test", x))
    BY <1>5 DEF Test
  <2> QED BY <1>0, <1>1, <1>5, <2>1 DEF Test, due, Job
<1>6. ASSUME NEW t \in Target, Build(r, t, m["release"])
      PROVE  /\ runs'[r].job["publish"] = "success" => runs[r].job["publish"] = "success"
             /\ runs'[r].job["publish"] = "pending" => runs[r].job["publish"] = "pending"
             /\ ~concluded(r) /\ runs[r].job["release"] = "pending"
  <2>1. PICK go \in Toolchain :
          LET next == [runs[r] EXCEPT !.done = @ \cup {t},
                          !.artifacts[t] = [commit |-> runs[r].commit, go |-> go]]
          IN  Continue(r, IF next.done = Target THEN ended(next, "release", "success")
                                                ELSE next)
    BY <1>6 DEF Build
  <2> DEFINE next == [runs[r] EXCEPT !.done = @ \cup {t},
                         !.artifacts[t] = [commit |-> runs[r].commit, go |-> go]]
  <2>2. next \in RunRecord /\ next.job = runs[r].job
    BY <1>0 DEF RunRecord, Files, Binary
  <2>3. Continue(r, ended(next, "release", "success")) \/ Continue(r, next)
    BY <2>1
  <2>4. runs[r].job["release"] = "pending" /\ "release" \in Job
    BY <1>6 DEF Build, due, Job
  <2> HIDE DEF next
  <2>5. CASE Continue(r, ended(next, "release", "success"))
    BY <1>1, <2>2, <2>4, <2>5
  <2>6. CASE Continue(r, next)
    BY <1>0, <2>2, <2>4, <2>6 DEF Continue, concluded
  <2> QED BY <2>3, <2>4, <2>5, <2>6
<1>7. CASE Expire(r)
  BY <1>0, <1>7 DEF Expire, Continue, RunRecord
<1> QED BY <1>2, <1>3, <1>4, <1>5, <1>6, <1>7 DEF shared

\* Of the runs on GitCode at most one is not over: the file's concurrency group.
active(r) == r \in started /\ runs[r].on = GC /\ ~concluded(r)

OneActive == \A r, q \in Run : active(r) /\ active(q) => r = q

LEMMA ActiveStep ==
    ASSUME ReleaseTypes, OneActive, NEW r \in Run, NEW new \in RunRecord,
           runs' = [runs EXCEPT ![r] = new],
           new.on # GC \/ idle \/ active(r) \/ \A j \in Job : new.job[j] # "pending"
    PROVE  OneActive'
PROOF
<1>1. /\ runs \in [Run -> RunRecord \cup {None}] /\ runs'[r] = new /\ new # None
      /\ \A q \in Run \ {r} : runs'[q] = runs[q]
  BY NoneAssumption DEF ReleaseTypes
<1>2. \A q \in Run \ {r} : active(q)' => active(q)
  BY <1>1 DEF active, started, concluded
<1>3. active(r)' => \A q \in Run : active(q) => q = r
  BY <1>1 DEF active, idle, concluded, started, OneActive
<1> QED BY <1>2, <1>3 DEF OneActive

LEMMA ActiveNext ==
    ASSUME IRuns, OneActive, [Next]_releaseVars
    PROVE  OneActive'
PROOF
<1>0. ReleaseTypes
  BY DEF IRuns
<1>1. CASE UNCHANGED runs
  BY <1>1 DEF OneActive, active, started, concluded
<1>2. ASSUME NEW r \in Run, HubDispatch(r) \/ HubPush(r) PROVE OneActive'
  <2>1. PICK e \in {"dispatch", "push"}, v \in Version, c \in Commit :
           Start(r, newRun(GH, e, v, c))
    BY <1>2 DEF HubDispatch, HubPush
  <2>2. PICK new : new = newRun(GH, e, v, c)
    OBVIOUS
  <2>3. new \in RunRecord /\ new.on # GC /\ runs' = [runs EXCEPT ![r] = new]
    BY <2>1, <2>2, NewRun, Platforms DEF newRun, Start, Continue
  <2> QED BY <1>0, <2>3, ActiveStep
<1>3. ASSUME NEW r \in Run, CodeDispatch(r) PROVE OneActive'
  <2>1. PICK run : starts(r, run)
    BY <1>0, <1>3, StartStep
  <2> QED BY <1>0, <1>3, <2>1, ActiveStep DEF starts, CodeDispatch
<1>4. ASSUME NEW r \in started, runs[r].on # GC, NEW run, becomes(r, run) PROVE OneActive'
  BY <1>0, <1>4, ActiveStep DEF becomes, same, started
<1>5. ASSUME NEW r \in started, rerun(r), idle PROVE OneActive'
  <2>1. PICK run : becomes(r, run)
    BY <1>0, <1>5, RerunStep DEF IRuns
  <2> QED BY <1>0, <1>5, <2>1, ActiveStep DEF becomes, started
<1>6. ASSUME NEW r \in started, runs[r].on = GC, NEW run, becomes(r, run),
             concluded(r) => run.job = runs[r].job
      PROVE  OneActive'
  <2>1. CASE concluded(r)
    BY <1>0, <1>6, <2>1, ActiveStep DEF becomes, started, concluded
  <2>2. CASE ~concluded(r)
    BY <1>0, <1>6, <2>2, ActiveStep DEF becomes, started, active
  <2> QED BY <2>1, <2>2
<1>7. ASSUME NEW r \in Run, onGitHub(r), shared(r, may(r)) \/ rerun(r) \/ hubPublish(r)
      PROVE  OneActive'
  <2>1. r \in started /\ runs[r] \in RunRecord /\ runs[r].on # GC
    BY <1>0, <1>7, Platforms DEF onGitHub, started, ReleaseTypes
  <2>2. \E run : becomes(r, run)
    BY <1>0, <1>7, <2>1, Gates, SharedStep, RerunStep, HubPublishStep DEF IRuns
  <2> QED BY <1>4, <2>1, <2>2
<1>8. ASSUME NEW r \in Run, onGitCode(r), shared(r, allNeeded(r)) PROVE OneActive'
  <2>1. r \in started /\ runs[r] \in RunRecord /\ runs[r].on = GC /\ r \in Run
    BY <1>0, <1>8 DEF onGitCode, started, ReleaseTypes
  <2>2. PICK run : becomes(r, run)
    BY <1>0, <1>8, <2>1, Gates, SharedStep DEF IRuns
  <2>3. runs'[r] = run
    BY <1>0, <2>1, <2>2 DEF becomes, ReleaseTypes
  <2> QED BY <1>0, <1>6, <1>8, <2>1, <2>2, <2>3, SharedKeeps
<1>9. ASSUME NEW r \in Run, onGitCode(r), codePublish(r) PROVE OneActive'
  <2>1. r \in started /\ runs[r].on = GC
    BY <1>9 DEF onGitCode
  <2>2. ~concluded(r)
    BY <1>9 DEF codePublish, CodeLookTag, CodePushTag, CodeVerify, CodeCreate, CodeUpload,
       uploading, due, concluded, Job
  <2>3. \E run : becomes(r, run)
    BY <1>0, <1>9, <2>1, CodePublishStep DEF IRuns
  <2> QED BY <1>6, <2>1, <2>2, <2>3
<1>10. ASSUME Next PROVE OneActive'
  <2>1. CodePush => UNCHANGED runs
    BY DEF CodePush
  <2> QED BY <1>1, <1>2, <1>3, <1>5, <1>7, <1>8, <1>9, <1>10, <2>1, Actions DEF onGitCode
<1> QED BY <1>1, <1>10 DEF releaseVars

(***************************************************************************)
(* A publish job on GitCode has all artifacts once it creates the release,   *)
(* and what the release holds while it uploads is its own.                  *)
(***************************************************************************)
ownUploads(run) ==
    run.on = GC /\ run.job["publish"] = "pending" =>
        /\ run.step \in {"create", "upload"} => \A t \in Target : run.artifacts[t] # None
        /\ run.step = "upload" => \A t \in Target :
              releases[GC][run.version].assets[t] \in {None, run.artifacts[t]}

IPublish == IRuns /\ OneActive /\ \A r \in started : ownUploads(runs[r])

\* The release one turn of the upload loop makes.
LEMMA UploadStep ==
    ASSUME IPublish, NEW r \in Run, onGitCode(r), NEW t \in Target,
           runs[r].step = "upload", runs[r].job["publish"] = "pending",
           releases' = [releases EXCEPT ![GC][runs[r].version].assets[t] = runs[r].artifacts[t]]
    PROVE  /\ releases[GC][runs[r].version] \in Release
           /\ releases'[GC][runs[r].version] \in Release
           /\ releases'[GC][runs[r].version].assets[t] = runs[r].artifacts[t]
           /\ \A u \in Target \ {t} : releases'[GC][runs[r].version].assets[u] =
                                     releases[GC][runs[r].version].assets[u]
           /\ \A u \in Target : releases'[GC][runs[r].version].assets[u]
                                   \in {None, runs[r].artifacts[u]}
PROOF
<1> DEFINE v == runs[r].version
           old == releases[GC][v]
           new == [old EXCEPT !.assets[t] = runs[r].artifacts[t]]
<1>1. /\ runs[r] \in RunRecord /\ v \in Version /\ runs[r].on = GC /\ r \in started
      /\ runs[r].artifacts \in Files
      /\ releases \in [Platform -> [Version -> Release \cup {None}]]
  BY DEF IPublish, IRuns, ReleaseTypes, onGitCode, started, RunRecord
<1>2. old \in Release
  BY <1>1, Platforms DEF IPublish, IRuns, placed
<1>3. new \in Release /\ new.assets = [old.assets EXCEPT ![t] = runs[r].artifacts[t]]
  BY <1>1, <1>2 DEF Release, Files
<1>4. releases' = [releases EXCEPT ![GC][v] = new]
  OBVIOUS
<1> HIDE DEF new
<1>5. releases'[GC][v] = new
  BY <1>1, <1>4, Platforms
<1>6. new.assets[t] = runs[r].artifacts[t] /\ \A u \in Target \ {t} : new.assets[u] = old.assets[u]
  BY <1>2, <1>3 DEF Release, Files
<1>7. \A u \in Target : old.assets[u] \in {None, runs[r].artifacts[u]}
  BY <1>1 DEF IPublish, ownUploads
<1> QED BY <1>2, <1>3, <1>5, <1>6, <1>7

LEMMA OwnUploadsNext ==
    ASSUME IPublish, NEW r \in Run, onGitCode(r), codePublish(r)
    PROVE  ownUploads(runs[r])'
PROOF
<1>0. /\ runs[r] \in RunRecord /\ runs \in [Run -> RunRecord \cup {None}] /\ runs[r].on = GC
      /\ runs[r].version \in Version /\ r \in started
      /\ releases \in [Platform -> [Version -> Release \cup {None}]]
  BY DEF IPublish, IRuns, ReleaseTypes, onGitCode, started, RunRecord
<1>1. runs[r].job["publish"] = "pending"
  BY DEF codePublish, CodeLookTag, CodePushTag, CodeVerify, CodeCreate, CodeUpload, uploading, due
<1>2. ASSUME NEW x \in {"success", "failure"}, codeFinish(r, x)
      PROVE  ownUploads(runs[r])'
  <2>1. runs'[r] = ended(runs[r], "publish", x)
    BY <1>0, <1>2 DEF codeFinish, Continue
  <2>2. runs'[r].job["publish"] = x
    BY <1>0, <2>1 DEF ended, RunRecord, Job
  <2> QED BY <2>2 DEF ownUploads
<1>3. ASSUME NEW s, codeProceed(r, s)
      PROVE  /\ runs'[r].step = s /\ runs'[r].artifacts = runs[r].artifacts
             /\ runs'[r].version = runs[r].version
  BY <1>0, <1>3 DEF codeProceed, Continue, RunRecord
<1>4. CASE CodeLookTag(r) \/ CodePushTag(r)
  <2>1. \/ \E x \in {"success", "failure"} : codeFinish(r, x)
        \/ codeProceed(r, "verify") \/ codeProceed(r, "pushTag")
    BY <1>4 DEF CodeLookTag, CodePushTag
  <2>2. CASE codeProceed(r, "verify") \/ codeProceed(r, "pushTag")
    <3>1. runs'[r].step \notin {"create", "upload"}
      BY <1>3, <2>2
    <3> QED BY <3>1 DEF ownUploads
  <2> QED BY <1>2, <2>1, <2>2
<1>5. CASE CodeVerify(r)
  <2>1. CASE codeFinish(r, "failure")
    BY <1>2, <2>1
  <2>2. CASE codeProceed(r, "create") /\ \A t \in Target : runs[r].artifacts[t] # None
    <3>1. runs'[r].step = "create" /\ runs'[r].artifacts = runs[r].artifacts
      BY <1>3, <2>2
    <3> QED BY <2>2, <3>1 DEF ownUploads
  <2> QED BY <1>5, <2>1, <2>2 DEF CodeVerify
<1>6. CASE CodeCreate(r)
  <2>1. CASE codeFinish(r, "failure")
    BY <1>2, <2>1
  <2>2. CASE /\ codeProceed(r, "upload")
             /\ releases' = [releases EXCEPT ![GC][runs[r].version] =
                                [draft |-> FALSE, assets |-> noFiles]]
    <3>1. /\ runs'[r].step = "upload" /\ runs'[r].artifacts = runs[r].artifacts
          /\ runs'[r].version = runs[r].version
      BY <1>3, <2>2
    <3>2. \A t \in Target : runs[r].artifacts[t] # None
      BY <1>0, <1>1, <1>6 DEF CodeCreate, uploading, IPublish, ownUploads
    <3>3. releases'[GC][runs[r].version].assets = noFiles
      BY <1>0, <2>2, Platforms
    <3>4. \A t \in Target : releases'[GC][runs[r].version].assets[t] = None
      BY <3>3 DEF noFiles
    <3> QED BY <3>1, <3>2, <3>4 DEF ownUploads
  <2> QED BY <1>6, <2>1, <2>2 DEF CodeCreate, code
<1>7. CASE CodeUpload(r)
  <2>1. CASE codeFinish(r, "success")
    BY <1>2, <2>1
  <2>2. CASE codeProceed(r, "upload")
    <3>1. /\ runs'[r].artifacts = runs[r].artifacts /\ runs'[r].version = runs[r].version
      BY <1>3, <2>2
    <3>2. \A t \in Target : runs[r].artifacts[t] # None
      BY <1>0, <1>1, <1>7 DEF CodeUpload, uploading, IPublish, ownUploads
    <3>3. \A u \in Target : releases'[GC][runs[r].version].assets[u]
                               \in {None, runs[r].artifacts[u]}
      <4>1. PICK t \in Target :
               releases' = [releases EXCEPT ![GC][runs[r].version].assets[t] =
                               runs[r].artifacts[t]]
        BY <1>7 DEF CodeUpload
      <4>2. runs[r].step = "upload"
        BY <1>7 DEF CodeUpload, uploading
      <4> QED BY <1>1, <4>1, <4>2, UploadStep
    <3> QED BY <3>1, <3>2, <3>3 DEF ownUploads
  <2> QED BY <1>7, <2>1, <2>2 DEF CodeUpload
<1> QED BY <1>4, <1>5, <1>6, <1>7 DEF codePublish

\* Only the one active run changes releases on GitCode.
LEMMA OthersKeepCode ==
    ASSUME IPublish, [Next]_releaseVars, NEW q \in Run, active(q),
           releases'[GC] # releases[GC]
    PROVE  codePublish(q)
PROOF
<1>1. ASSUME NEW r \in Run, HubCreate(r) \/ HubCreateKilled(r)
      PROVE  releases'[GC] = releases[GC]
  BY <1>1, Platforms DEF HubCreate, HubCreateKilled, IPublish, IRuns, ReleaseTypes
<1>2. ASSUME NEW r \in Run, onGitHub(r), hubPublish(r)
      PROVE  releases'[GC] = releases[GC]
  BY <1>1, <1>2 DEF hubPublish, HubLookTag, HubPushTag, HubVerify, HubView
<1>3. ASSUME NEW r \in Run, onGitHub(r) \/ onGitCode(r), shared(r, may(r)) \/ shared(r, allNeeded(r)) \/ rerun(r)
      PROVE  releases' = releases
  <2>1. r \in started /\ runs[r] \in RunRecord
    BY <1>3 DEF onGitHub, onGitCode, started, IPublish, IRuns, ReleaseTypes
  <2> QED BY <1>3, <2>1, Gates, SharedStep, RerunStep DEF IPublish, IRuns
<1>4. \E r \in Run : onGitCode(r) /\ codePublish(r)
  BY <1>2, <1>3, Actions, StartStep DEF IPublish, IRuns, CodePush, releaseVars
<1>5. PICK r \in Run : onGitCode(r) /\ codePublish(r)
  BY <1>4
<1>6. active(r)
  BY <1>5 DEF active, onGitCode, concluded, Job, codePublish, CodeLookTag, CodePushTag,
     CodeVerify, CodeCreate, CodeUpload, uploading, due
<1> QED BY <1>5, <1>6 DEF IPublish, OneActive

LEMMA PublishNext ==
    ASSUME IPublish, [Next]_releaseVars
    PROVE  IPublish'
PROOF
<1>0. IRuns /\ IRuns' /\ OneActive'
  BY IRunsNext, ActiveNext DEF IPublish
<1>1. runs \in [Run -> RunRecord \cup {None}]
  BY <1>0 DEF IRuns, ReleaseTypes
<1>2. ASSUME NEW q \in started, runs'[q] = runs[q]
      PROVE  ownUploads(runs[q])'
  <2>1. PICK run : run = runs[q]
    OBVIOUS
  <2>2. ownUploads(run) /\ run = runs'[q]
    BY <1>2, <2>1 DEF IPublish
  <2>3. CASE run.on = GC /\ run.job["publish"] = "pending"
    <3>1. active(q) /\ q \in Run
      BY <2>1, <2>3 DEF active, concluded, started, Job
    <3>2. CASE codePublish(q)
      BY <2>1, <2>3, <3>1, <3>2, OwnUploadsNext DEF onGitCode
    <3>3. CASE ~codePublish(q)
      <4>1. releases'[GC] = releases[GC]
        BY <3>1, <3>3, OthersKeepCode
      <4> QED BY <2>2, <4>1 DEF ownUploads
    <3> QED BY <3>2, <3>3
  <2>4. CASE ~(run.on = GC /\ run.job["publish"] = "pending")
    BY <2>2, <2>4 DEF ownUploads
  <2> QED BY <2>3, <2>4
<1>3. ASSUME NEW r \in Run, runs'[r].on # GC PROVE ownUploads(runs[r])'
  BY <1>3 DEF ownUploads
<1>4. ASSUME NEW r \in Run, runs'[r].step = "lookTag" PROVE ownUploads(runs[r])'
  BY <1>4 DEF ownUploads
<1>5. ASSUME NEW r \in Run, onGitCode(r), shared(r, allNeeded(r)) PROVE ownUploads(runs[r])'
  <2>0. r \in started /\ runs[r] \in RunRecord /\ gate(r, allNeeded(r)) /\ accepted(runs[r])
    BY <1>0, <1>5, Gates DEF onGitCode, started, IRuns, ReleaseTypes
  <2>1. PICK run : becomes(r, run) /\ run.step = runs[r].step
    BY <1>0, <1>5, <2>0, SharedStep DEF IRuns
  <2>2. releases' = releases
    BY <1>0, <1>5, <2>0, SharedStep DEF IRuns
  <2>3. /\ runs'[r].step = runs[r].step /\ runs'[r].version = runs[r].version
        /\ runs'[r].on = runs[r].on
    BY <1>1, <2>0, <2>1 DEF becomes, same, started
  <2>4. ownUploads(runs[r])
    BY <2>0 DEF IPublish
  <2>5. CASE runs'[r].job["publish"] = "pending" /\ runs'[r].step \in {"create", "upload"}
    <3>1. runs[r].job["publish"] = "pending" /\ ~concluded(r)
      BY <1>0, <1>5, <2>0, <2>5, SharedKeeps DEF IRuns, concluded, Job
    <3>2. runs[r].job["release"] = "success"
      BY <2>0, <2>3, <2>5 DEF accepted
    <3>3. runs'[r].artifacts = runs[r].artifacts
      BY <1>0, <1>5, <2>0, <3>1, <3>2, SharedKeeps DEF IRuns
    <3> QED BY <2>2, <2>3, <2>4, <3>1, <3>3 DEF ownUploads
  <2>6. CASE ~(runs'[r].job["publish"] = "pending" /\ runs'[r].step \in {"create", "upload"})
    BY <2>6 DEF ownUploads
  <2> QED BY <2>5, <2>6
<1>6. ASSUME NEW r \in Run, NEW new, runs' = [runs EXCEPT ![r] = new], ownUploads(runs[r])'
      PROVE  \A q \in started' : ownUploads(runs[q])'
  <2> SUFFICES ASSUME NEW q \in started', q # r PROVE ownUploads(runs[q])'
    BY <1>6
  <2>1. runs'[q] = runs[q] /\ q \in started
    BY <1>1, <1>6 DEF started
  <2> QED BY <1>2, <2>1
<1>7. ASSUME NEW r \in Run, NEW run, starts(r, run) \/ becomes(r, run)
      PROVE  /\ runs' = [runs EXCEPT ![r] = run] /\ runs'[r] = run
             /\ becomes(r, run) => run.on = runs[r].on
  BY <1>1, <1>7 DEF starts, becomes, same
<1>8. ASSUME UNCHANGED runs
      PROVE  \A q \in started' : ownUploads(runs[q])'
  BY <1>2, <1>8 DEF started
<1>9. ASSUME NEW r \in Run, HubDispatch(r) \/ HubPush(r) \/ CodeDispatch(r)
      PROVE  \A q \in started' : ownUploads(runs[q])'
  <2>1. PICK run : starts(r, run)
    BY <1>0, <1>9, StartStep DEF IRuns
  <2> QED BY <1>4, <1>6, <1>7, <2>1 DEF starts
<1>10. ASSUME NEW r \in Run, onGitHub(r), shared(r, may(r)) \/ rerun(r) \/ hubPublish(r)
       PROVE  \A q \in started' : ownUploads(runs[q])'
  <2>1. r \in started /\ runs[r] \in RunRecord /\ runs[r].on # GC
    BY <1>0, <1>10, Platforms DEF onGitHub, started, IRuns, ReleaseTypes
  <2>2. PICK run : becomes(r, run)
    BY <1>0, <1>10, <2>1, Gates, SharedStep, RerunStep, HubPublishStep DEF IRuns
  <2> QED BY <1>3, <1>6, <1>7, <2>1, <2>2
<1>11. ASSUME NEW r \in Run, onGitCode(r), shared(r, allNeeded(r)) \/ codePublish(r)
       PROVE  \A q \in started' : ownUploads(runs[q])'
  <2>1. r \in started /\ runs[r] \in RunRecord
    BY <1>0, <1>11 DEF onGitCode, started, IRuns, ReleaseTypes
  <2>2. PICK run : becomes(r, run)
    BY <1>0, <1>11, <2>1, Gates, SharedStep, CodePublishStep DEF IRuns
  <2> QED BY <1>5, <1>6, <1>7, <1>11, <2>2, OwnUploadsNext
<1>12. ASSUME NEW r \in Run, onGitCode(r), rerun(r)
       PROVE  \A q \in started' : ownUploads(runs[q])'
  <2>1. PICK run : becomes(r, run) /\ run.step = "lookTag"
    BY <1>0, <1>12, RerunStep DEF IRuns, onGitCode
  <2> QED BY <1>4, <1>6, <1>7, <2>1
<1>13. CodePush => UNCHANGED runs
  BY DEF CodePush
<1>14. UNCHANGED releaseVars => UNCHANGED runs
  BY DEF releaseVars
<1>15. ASSUME Next
       PROVE  \A q \in started' : ownUploads(runs[q])'
  BY <1>8, <1>9, <1>10, <1>11, <1>12, <1>13, <1>15, Actions
<1>16. \A q \in started' : ownUploads(runs[q])'
  BY <1>8, <1>14, <1>15
<1> QED BY <1>0, <1>16 DEF IPublish

\* The steps that end a publish job well.
LEMMA PublishSucceeds ==
    ASSUME IRuns, Next, NEW r \in started, runs'[r].job["publish"] = "success",
           runs[r].job["publish"] # "success"
    PROVE  \/ onGitHub(r) /\ (HubView(r) \/ HubCreate(r))
           \/ onGitCode(r) /\ CodeUpload(r)
PROOF
<1>0. /\ r \in Run /\ runs[r] \in RunRecord /\ runs \in [Run -> RunRecord \cup {None}]
      /\ ReleaseTypes /\ accepted(runs[r])
  BY DEF IRuns, ReleaseTypes, started
<1>1. ASSUME NEW q \in Run, NEW run, starts(q, run) \/ becomes(q, run) PROVE q = r
  BY <1>0, <1>1 DEF starts, becomes, started
<1>2. ASSUME NEW q \in Run, onGitHub(q) \/ onGitCode(q) PROVE q \in started /\ runs[q] \in RunRecord
  BY <1>2 DEF onGitHub, onGitCode, started, IRuns, ReleaseTypes
<1>3. ~CodePush
  BY DEF CodePush
<1>4. ASSUME NEW q \in Run, HubDispatch(q) \/ HubPush(q) \/ CodeDispatch(q) PROVE FALSE
  <2>1. PICK run : starts(q, run)
    BY <1>0, <1>4, StartStep
  <2> QED BY <1>1, <2>1 DEF starts
<1>5. ASSUME NEW q \in started, NEW m, gate(q, m), shared(q, m) PROVE FALSE
  <2>1. PICK run : becomes(q, run)
    BY <1>0, <1>5, SharedStep DEF IRuns
  <2>2. q = r
    BY <1>1, <2>1 DEF started
  <2> QED BY <1>0, <1>5, <2>2, SharedKeeps
<1>6. ASSUME NEW q \in started, rerun(q) PROVE FALSE
  <2>1. PICK run : becomes(q, run)
    BY <1>0, <1>6, RerunStep DEF IRuns
  <2>2. q = r
    BY <1>1, <2>1 DEF started
  <2>3. runs'[r].job["publish"] = "success" => runs[r].job["publish"] = "success"
    <3>1. CASE RerunFailed(r)
      <4> DEFINE jobs == [j \in Job |-> IF runs[r].job[j] = "success" THEN "success"
                                                                     ELSE "pending"]
      <4>1. runs'[r] = [runs[r] EXCEPT !.step = "lookTag", !.job = jobs]
        BY <1>0, <3>1 DEF RerunFailed, Continue, RunRecord
      <4>2. runs'[r].job = jobs
        BY <1>0, <4>1 DEF RunRecord
      <4> QED BY <4>2 DEF Job
    <3>2. CASE RerunAll(r)
      BY <1>0, <3>2 DEF RerunAll, Continue, newRun, Job
    <3> QED BY <1>6, <2>2, <3>1, <3>2 DEF rerun
  <2> QED BY <2>3
<1>7. ASSUME NEW q \in Run, NEW s, Continue(q, [runs[q] EXCEPT !.step = s]), runs[q] \in RunRecord
      PROVE  FALSE
  <2>1. runs'[q].job = runs[q].job /\ \A i \in Run \ {q} : runs'[i] = runs[i]
    BY <1>0, <1>7 DEF Continue, RunRecord
  <2> QED BY <1>0, <2>1
<1>8. ASSUME NEW q \in Run, Continue(q, ended(runs[q], "publish", "failure")),
             runs[q] \in RunRecord
      PROVE  FALSE
  <2>1. runs'[q].job["publish"] = "failure" /\ \A i \in Run \ {q} : runs'[i] = runs[i]
    BY <1>0, <1>8 DEF Continue, RunRecord, ended, Job
  <2> QED BY <1>0, <2>1
<1>9. ASSUME NEW q \in Run, onGitHub(q), hubPublish(q)
      PROVE  q = r /\ (HubView(r) \/ HubCreate(r))
  <2>1. q \in started /\ accepted(runs[q]) /\ tagged(runs[q])
    BY <1>2, <1>9 DEF IRuns
  <2>2. PICK run : becomes(q, run)
    BY <1>0, <1>9, <2>1, HubPublishStep
  <2>3. q = r
    BY <1>1, <2>2
  <2>4. ~HubLookTag(q) /\ ~HubPushTag(q) /\ ~HubVerify(q) /\ ~HubCreateKilled(q)
    BY <1>2, <1>7, <1>8, <1>9 DEF HubLookTag, HubPushTag, HubVerify, HubCreateKilled,
       proceed, finish
  <2> QED BY <1>9, <2>3, <2>4 DEF hubPublish
<1>10. ASSUME NEW q \in Run, onGitCode(q), codePublish(q)
       PROVE  q = r /\ CodeUpload(r)
  <2>1. q \in started /\ accepted(runs[q]) /\ tagged(runs[q])
    BY <1>2, <1>10 DEF IRuns
  <2>2. PICK run : becomes(q, run)
    BY <1>0, <1>10, <2>1, CodePublishStep
  <2>3. q = r
    BY <1>1, <2>2
  <2>4. ~CodeLookTag(q) /\ ~CodePushTag(q) /\ ~CodeVerify(q) /\ ~CodeCreate(q)
    BY <1>2, <1>7, <1>8, <1>10 DEF CodeLookTag, CodePushTag, CodeVerify, CodeCreate,
       codeProceed, codeFinish
  <2> QED BY <1>10, <2>3, <2>4 DEF codePublish
<1> QED BY <1>2, <1>3, <1>4, <1>5, <1>6, <1>9, <1>10, Gates, Actions

LEMMA InitPublish == ASSUME Init PROVE IPublish
PROOF
<1>1. started = {}
  BY DEF Init, started
<1>2. IRuns
  BY InitReleased DEF IReleased
<1> QED BY <1>1, <1>2 DEF IPublish, OneActive, active

LEMMA GreenStep ==
    ASSUME IPublish, Next, NEW r \in started, runs'[r].job["publish"] = "success",
           runs[r].job["publish"] # "success"
    PROVE  /\ releases'[runs'[r].on][runs'[r].version] # None
           /\ releases'[runs'[r].on][runs'[r].version].assets = runs'[r].artifacts
PROOF
<1> DEFINE v == runs[r].version
<1>0. /\ runs[r] \in RunRecord /\ runs \in [Run -> RunRecord \cup {None}]
      /\ r \in Run /\ v \in Version /\ IRuns /\ runs[r].artifacts \in Files
      /\ releases \in [Platform -> [Version -> Release \cup {None}]]
  BY DEF IPublish, IRuns, ReleaseTypes, started, RunRecord
<1>1. ASSUME NEW x, Continue(r, ended(runs[r], "publish", x))
      PROVE  /\ runs'[r].on = runs[r].on /\ runs'[r].version = v
             /\ runs'[r].artifacts = runs[r].artifacts /\ runs'[r].job["publish"] = x
  BY <1>0, <1>1 DEF Continue, ended, RunRecord, Job
<1>2. ASSUME NEW s, Continue(r, [runs[r] EXCEPT !.step = s]) PROVE FALSE
  BY <1>0, <1>2 DEF Continue, RunRecord
<1>3. CASE onGitHub(r) /\ HubView(r)
  <2>1. \/ /\ hub[v] # None /\ hub[v].assets = runs[r].artifacts /\ releases' = releases
           /\ finish(r, "success")
        \/ finish(r, "failure") \/ proceed(r, "create")
    BY <1>3 DEF HubView
  <2>2. CASE hub[v] # None /\ hub[v].assets = runs[r].artifacts /\ releases' = releases
             /\ finish(r, "success")
    <3>1. /\ runs'[r].on = GH /\ runs'[r].version = v
          /\ runs'[r].artifacts = runs[r].artifacts
      BY <1>1, <1>3, <2>2 DEF finish, onGitHub
    <3> QED BY <2>2, <3>1 DEF hub
  <2>3. CASE finish(r, "failure")
    BY <1>1, <2>3 DEF finish
  <2>4. ~proceed(r, "create")
    BY <1>2 DEF proceed
  <2> QED BY <2>1, <2>2, <2>3, <2>4
<1>4. CASE onGitHub(r) /\ HubCreate(r)
  <2> DEFINE new == [draft |-> FALSE, assets |-> runs[r].artifacts]
  <2>1. new \in Release /\ new.assets = runs[r].artifacts
    BY <1>0 DEF Release
  <2>2. \/ finish(r, "success") /\ releases' = [releases EXCEPT ![GH][v] = new]
        \/ finish(r, "failure")
    BY <1>4 DEF HubCreate
  <2> HIDE DEF new
  <2>3. releases' = [releases EXCEPT ![GH][v] = new] => releases'[GH][v] = new
    BY <1>0, Platforms
  <2>4. CASE finish(r, "success") /\ releases' = [releases EXCEPT ![GH][v] = new]
    <3>1. /\ runs'[r].on = GH /\ runs'[r].version = v
          /\ runs'[r].artifacts = runs[r].artifacts
      BY <1>1, <1>4, <2>4 DEF finish, onGitHub
    <3> QED BY <2>1, <2>3, <2>4, <3>1, NoneAssumption
  <2>5. CASE finish(r, "failure")
    BY <1>1, <2>5 DEF finish
  <2> QED BY <2>2, <2>4, <2>5
<1>5. CASE onGitCode(r) /\ CodeUpload(r)
  <2>1. PICK t \in Target :
           /\ releases' = [releases EXCEPT ![GC][v].assets[t] = runs[r].artifacts[t]]
           /\ \/ /\ \A u \in Target \ {t} : code[v].assets[u] # None
                 /\ codeFinish(r, "success")
              \/ codeProceed(r, "upload")
    BY <1>5 DEF CodeUpload
  <2>2. runs[r].step = "upload" /\ runs[r].job["publish"] = "pending"
    BY <1>5 DEF CodeUpload, uploading, due
  <2>3. codeFinish(r, "success") /\ \A u \in Target \ {t} : releases[GC][v].assets[u] # None
    BY <1>2, <2>1 DEF codeProceed, code
  <2>4. /\ releases'[GC][v] \in Release
        /\ \A u \in Target \ {t} : releases'[GC][v].assets[u] = releases[GC][v].assets[u]
        /\ releases'[GC][v].assets[t] = runs[r].artifacts[t]
        /\ \A u \in Target : releases'[GC][v].assets[u] \in {None, runs[r].artifacts[u]}
    BY <1>0, <1>5, <2>1, <2>2, UploadStep
  <2>5. \A u \in Target : releases'[GC][v].assets[u] = runs[r].artifacts[u]
    BY <2>3, <2>4
  <2>6. releases'[GC][v].assets \in Files
    BY <2>4 DEF Release
  <2>7. releases'[GC][v].assets = runs[r].artifacts
    BY <1>0, <2>5, <2>6 DEF Files
  <2> QED BY <1>1, <1>5, <2>3, <2>4, <2>7, NoneAssumption DEF codeFinish, onGitCode
<1> QED BY <1>0, <1>3, <1>4, <1>5, PublishSucceeds

(***************************************************************************)
(* A publish job turns green only on a release that holds exactly the        *)
(* artifacts of its run (release.yml:246-266, .gitcode release.yml:241).     *)
(***************************************************************************)
THEOREM GreenMeansPublishedTheorem == Spec => GreenMeansPublished
PROOF
<1>1. ASSUME IPublish, [Next]_releaseVars
      PROVE  [\A r \in started :
                LET run == runs[r]' IN
                run.job["publish"] = "success" /\ runs[r].job["publish"] # "success" =>
                    /\ releases'[run.on][run.version] # None
                    /\ releases'[run.on][run.version].assets = run.artifacts]_releaseVars
  BY <1>1, GreenStep
<1> QED BY <1>1, InitPublish, PublishNext, PTL DEF Spec, GreenMeansPublished
=============================================================================
