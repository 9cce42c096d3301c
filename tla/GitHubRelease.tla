---------------------------- MODULE GitHubRelease ---------------------------
(***************************************************************************)
(* .github/workflows/release.yml.  Runs are not serialised (the file has no  *)
(* concurrency group): two of one version may be anywhere at the same time.  *)
(* Nobody moves or deletes a tag or replaces an asset by hand (RELEASE.md    *)
(* section 9).                                                              *)
(***************************************************************************)
EXTENDS ReleaseRuns

GH == "github"

onGitHub(r) == r \in started /\ runs[r].on = GH

hub == releases[GH]

\* Fault: no always(), so that a skipped job skips those that need it.
validatedStrictly(r) == runs[r].job["validate"] = "success"

\* always() with needs.<job>.result: "skipped" validate is what a tag push has.
validated(r) == runs[r].job["validate"] \in {"success", "skipped"}

\* Fault: the release job needs the test job but not its success.
mayUntested(r) == [validate |-> runs[r].event = "dispatch",
                   test     |-> validated(r),
                   release  |-> validated(r),
                   publish  |-> runs[r].job["release"] = "success" /\ validated(r)]

\* The `if:` of each job.
may(r) == [validate |-> runs[r].event = "dispatch",
           test     |-> validated(r),
           release  |-> runs[r].job["test"] = "success" /\ validated(r),
           publish  |-> runs[r].job["release"] = "success" /\ validated(r)]

-----------------------------------------------------------------------------
\* workflow_dispatch, on the head of any branch.
HubDispatch(r) ==
    /\ \E v \in Version, c \in Commit : Start(r, newRun(GH, "dispatch", v, c))
    /\ NoFault /\ UNCHANGED <<tags, releases>>

\* A maintainer pushes a new v* tag.  The tag pushed by the publish job starts
\* no run: it is pushed with GITHUB_TOKEN.
HubPush(r) ==
    /\ \E v \in Version, c \in Commit, a \in BOOLEAN :
          /\ tags[GH][v] = None
          /\ Start(r, newRun(GH, "push", v, c))
          /\ tags' = [tags EXCEPT ![GH][v] = [commit |-> c, annotated |-> a,
                                              by |-> "maintainer"]]
    /\ NoFault /\ UNCHANGED releases

-----------------------------------------------------------------------------
publishing(r, step) ==
    /\ onGitHub(r) /\ due(r, "publish") /\ may(r).publish
    /\ runs[r].step = step

proceed(r, step) == Continue(r, [runs[r] EXCEPT !.step = step])
finish(r, result) == Continue(r, ended(runs[r], "publish", result))

\* The commit a tag stands for: ls-remote lists the peeled commit of an
\* annotated tag under "<ref>^{}".
peeled(tag) == tag.commit

\* Fault: a tag that exists is taken for the run's own.
HubLookTagTrusting(r) ==
    /\ publishing(r, "lookTag")
    /\ \/ TagIsSeen(GH, runs[r].version) /\ proceed(r, "verify")
       \/ TagIsNotSeen(GH, runs[r].version) /\ proceed(r, "pushTag")
    /\ UNCHANGED <<tags, releases>>

HubLookTag(r) ==
    LET run == runs[r] IN
    /\ publishing(r, "lookTag")
    /\ \/ /\ TagIsSeen(GH, run.version)
          /\ IF peeled(tags[GH][run.version]) = run.commit
             THEN proceed(r, "verify") ELSE finish(r, "failure")
       \/ /\ TagIsNotSeen(GH, run.version)
          /\ proceed(r, "pushTag")
    /\ UNCHANGED <<tags, releases>>

\* git tag fails where the checkout of a tag push already has the tag.
HubPushTag(r) ==
    LET run == runs[r]
        ok  == run.event = "dispatch" /\ pushable(GH, run.version, run.commit)
    IN
    /\ publishing(r, "pushTag")
    /\ IF ok THEN proceed(r, "verify") ELSE finish(r, "failure")
    /\ tags' = IF ok THEN pushed(GH, run.version, run.commit) ELSE tags
    /\ NoFault /\ UNCHANGED releases

\* Whatever artifacts match release-* are downloaded and their sums verified;
\* with none there is no *.sha256 and sed fails.
HubVerify(r) ==
    /\ publishing(r, "verify")
    /\ IF runs[r].artifacts # noFiles THEN proceed(r, "view") ELSE finish(r, "failure")
    /\ NoFault /\ UNCHANGED <<tags, releases>>

\* Fault: names are compared, checksums are not.
HubViewNames(r) ==
    LET run   == runs[r]
        named(files) == {t \in Target : files[t] # None}
    IN
    /\ publishing(r, "view")
    /\ \/ /\ hub[run.version] # None /\ NoFault
          /\ finish(r, IF named(hub[run.version].assets) = named(run.artifacts)
                       THEN "success" ELSE "failure")
       \/ /\ IF hub[run.version] = None THEN NoFault ELSE Fault
          /\ proceed(r, "create")
    /\ UNCHANGED <<tags, releases>>

\* gh release view also finds a draft; its failure means "no release yet".
HubView(r) ==
    LET run == runs[r] IN
    /\ publishing(r, "view")
    /\ \/ /\ hub[run.version] # None /\ NoFault
          /\ finish(r, IF hub[run.version].assets = run.artifacts
                       THEN "success" ELSE "failure")
       \/ /\ IF hub[run.version] = None THEN NoFault ELSE Fault
          /\ proceed(r, "create")
    /\ UNCHANGED <<tags, releases>>

\* Fault: assets of a release that exists are overwritten (upload --clobber).
HubCreateClobber(r) ==
    /\ publishing(r, "create")
    /\ finish(r, "success")
    /\ releases' = [releases EXCEPT ![GH][runs[r].version] =
                        [draft |-> FALSE, assets |-> runs[r].artifacts]]
    /\ NoFault /\ UNCHANGED tags

\* gh release create --verify-tag: a draft, its assets, then its publication,
\* which GitHub refuses when the tag has a published release.
HubCreate(r) ==
    LET v  == runs[r].version
        ok == tags[GH][v] # None /\ (hub[v] # None => hub[v].draft)
    IN
    /\ publishing(r, "create")
    /\ finish(r, IF ok THEN "success" ELSE "failure")
    /\ releases' = IF ok THEN [releases EXCEPT ![GH][v] =
                                  [draft |-> FALSE, assets |-> runs[r].artifacts]]
                         ELSE releases
    /\ NoFault /\ UNCHANGED tags

\* gh is killed on the way: the draft stays, with the assets uploaded so far.
\* Of two drafts gh release view may find either; a draft beside a published
\* release is never what it finds.
HubCreateKilled(r) ==
    LET v == runs[r].version IN
    /\ publishing(r, "create")
    /\ \/ /\ hub[v] # None => hub[v].draft
          /\ \E up \in SUBSET Target :
                releases' = [releases EXCEPT ![GH][v] =
                    [draft |-> TRUE, assets |-> [t \in Target |->
                        IF t \in up THEN runs[r].artifacts[t] ELSE None]]]
       \/ hub[v] # None /\ UNCHANGED releases
    /\ finish(r, "failure")
    /\ Fault /\ UNCHANGED tags

-----------------------------------------------------------------------------
HubSteps(r) ==
    /\ onGitHub(r)
    /\ \/ \E j \in Job : Skip(r, j, may(r)[j])
       \/ Validate(r, may(r).validate)
       \/ Test(r, may(r).test)
       \/ \E t \in Target : Build(r, t, may(r).release)
       \/ HubLookTag(r) \/ HubPushTag(r) \/ HubVerify(r) \/ HubView(r) \/ HubCreate(r)

HubFaults(r) ==
    /\ onGitHub(r)
    /\ \/ \E j \in Job : JobFails(r, j, may(r)[j])
       \/ HubCreateKilled(r)
       \/ Expire(r)

HubMaintainer(r) ==
    \/ HubDispatch(r) \/ HubPush(r)
    \/ onGitHub(r) /\ (RerunFailed(r) \/ RerunAll(r))

HubNext == \E r \in Run : HubSteps(r) \/ HubFaults(r) \/ HubMaintainer(r)

\* Runners take every step that is due and maintainers re-run what failed, from
\* the failed jobs or from the start (RELEASE.md 6.4); failures are bounded by
\* MaxFaults and nothing makes them happen.
HubFairness ==
    \A r \in Run : /\ WF_releaseVars(HubSteps(r))
                   /\ SF_releaseVars(onGitHub(r) /\ RerunFailed(r))
                   /\ SF_releaseVars(onGitHub(r) /\ RerunAll(r))

(***************************************************************************)
(* A tag pushed by a maintainer on a commit that passes the tests gets its   *)
(* release, annotated or not, whatever failed on the way.  (The validate     *)
(* job is skipped for it: the `always()` of release.yml:66, 97 and 161.      *)
(* A draft left by a killed gh release create is as far as it may get.)     *)
(***************************************************************************)
PushedTagIsReleased ==
    \A v \in Version :
        (tags[GH][v] # None /\ tags[GH][v].by = "maintainer" /\ tags[GH][v].commit \in Green)
            ~> (hub[v] # None)
=============================================================================
