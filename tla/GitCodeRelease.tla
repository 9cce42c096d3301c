--------------------------- MODULE GitCodeRelease ---------------------------
(***************************************************************************)
(* .gitcode/workflows/release.yml.  One run at a time: a dispatch while one   *)
(* is active is ignored.  The release is created first and its assets are    *)
(* uploaded to it one by one.                                                *)
(***************************************************************************)
EXTENDS ReleaseRuns

GC == "gitcode"

onGitCode(r) == r \in started /\ runs[r].on = GC

code == releases[GC]

\* concurrency: max 1, exceed-action IGNORE.
idle == \A r \in started : runs[r].on = GC => concluded(r)

\* Jobs without `if:` need every job they need to have succeeded.
allNeeded(r) ==
    [j \in Job |-> \A n \in needs[j] : runs[r].job[n] = "success"]

-----------------------------------------------------------------------------
CodeDispatch(r) ==
    /\ idle
    /\ \E v \in Version, c \in Commit : Start(r, newRun(GC, "dispatch", v, c))
    /\ NoFault /\ UNCHANGED <<tags, releases>>

\* A maintainer pushes a tag; no workflow starts.  Tags of versions that no run
\* was dispatched for are left out: nothing looks at them.
CodePush ==
    /\ \E v \in {runs[r].version : r \in {q \in started : runs[q].on = GC}},
          c \in Commit, a \in BOOLEAN :
          /\ tags[GC][v] = None
          /\ tags' = [tags EXCEPT ![GC][v] = [commit |-> c, annotated |-> a,
                                              by |-> "maintainer"]]
    /\ NoFault /\ UNCHANGED <<releases, runs>>

-----------------------------------------------------------------------------
uploading(r, step) ==
    /\ onGitCode(r) /\ due(r, "publish") /\ allNeeded(r)["publish"]
    /\ runs[r].step = step

codeProceed(r, step) == Continue(r, [runs[r] EXCEPT !.step = step])
codeFinish(r, result) == Continue(r, ended(runs[r], "publish", result))

\* The id under the exact ref is the tag object's when the tag is annotated,
\* and then differs from every commit.
CodeLookTag(r) ==
    LET run == runs[r]
        tag == tags[GC][run.version]
    IN
    /\ uploading(r, "lookTag")
    /\ \/ /\ TagIsSeen(GC, run.version)
          /\ IF tag.commit = run.commit /\ ~tag.annotated
             THEN codeProceed(r, "verify") ELSE codeFinish(r, "failure")
       \/ /\ TagIsNotSeen(GC, run.version)
          /\ codeProceed(r, "pushTag")
    /\ UNCHANGED <<tags, releases>>

CodePushTag(r) ==
    LET run == runs[r]
        ok  == pushable(GC, run.version, run.commit)
    IN
    /\ uploading(r, "pushTag")
    /\ IF ok THEN codeProceed(r, "verify") ELSE codeFinish(r, "failure")
    /\ tags' = IF ok THEN pushed(GC, run.version, run.commit) ELSE tags
    /\ NoFault /\ UNCHANGED releases

\* Each artifact is downloaded by its name: one that is missing fails the step.
CodeVerify(r) ==
    /\ uploading(r, "verify")
    /\ IF \A t \in Target : runs[r].artifacts[t] # None
       THEN codeProceed(r, "create") ELSE codeFinish(r, "failure")
    /\ NoFault /\ UNCHANGED <<tags, releases>>

\* POST .../releases: refused when the tag has a release.
CodeCreate(r) ==
    LET v == runs[r].version IN
    /\ uploading(r, "create")
    /\ IF code[v] = None
       THEN /\ codeProceed(r, "upload")
            /\ releases' = [releases EXCEPT ![GC][v] =
                                [draft |-> FALSE, assets |-> noFiles]]
       ELSE /\ codeFinish(r, "failure")
            /\ UNCHANGED releases
    /\ NoFault /\ UNCHANGED tags

\* One turn of the upload loop; the job ends with the last one.
CodeUpload(r) ==
    LET v == runs[r].version IN
    /\ uploading(r, "upload")
    /\ \E t \in Target :
          /\ code[v].assets[t] = None
          /\ releases' = [releases EXCEPT ![GC][v].assets[t] = runs[r].artifacts[t]]
          /\ IF \A u \in Target \ {t} : code[v].assets[u] # None
             THEN codeFinish(r, "success")
             ELSE codeProceed(r, "upload")
    /\ NoFault /\ UNCHANGED tags

-----------------------------------------------------------------------------
CodeSteps(r) ==
    /\ onGitCode(r)
    /\ \/ \E j \in Job : Skip(r, j, allNeeded(r)[j])
       \/ Validate(r, TRUE)
       \/ Test(r, allNeeded(r)["test"])
       \/ \E t \in Target : Build(r, t, allNeeded(r)["release"])
       \/ CodeLookTag(r) \/ CodePushTag(r) \/ CodeVerify(r)
       \/ CodeCreate(r) \/ CodeUpload(r)

CodeFaults(r) ==
    /\ onGitCode(r)
    /\ \/ \E j \in Job : JobFails(r, j, allNeeded(r)[j])
       \/ Expire(r)

CodeMaintainer(r) ==
    \/ CodeDispatch(r)
    \/ onGitCode(r) /\ idle /\ (RerunFailed(r) \/ RerunAll(r))

CodeNext == CodePush \/ \E r \in Run : CodeSteps(r) \/ CodeFaults(r) \/ CodeMaintainer(r)
=============================================================================
