------------------------------ MODULE Channels ------------------------------
(***************************************************************************)
(* Both release channels: one repository on each platform, the same commits, *)
(* and maintainers who start either workflow.  What RELEASE.md says of the   *)
(* two, and the workflows do not do.                                        *)
(***************************************************************************)
EXTENDS GitHubRelease, GitCodeRelease

Next == HubNext \/ CodeNext

Spec == Init /\ [][Next]_releaseVars

HubSpec == Init /\ [][HubNext]_releaseVars /\ HubFairness

(***************************************************************************)
(* RELEASE.md:121: the publish job creates the release and uploads all       *)
(* assets.  (release.yml:189-194 downloads whatever artifacts are left.)    *)
(***************************************************************************)
AllAssetsReleased ==
    \A v \in Version : hub[v] # None /\ ~hub[v].draft =>
        \A t \in Target : hub[v].assets[t] # None

(***************************************************************************)
(* RELEASE.md:129: when publish fails after the tag was created, re-run the  *)
(* workflow; publish is idempotent.  (release.yml:57: validate then refuses  *)
(* the tag the failed publish job left.)                                    *)
(***************************************************************************)
RerunCompletes ==
    \A v \in Version :
        (tags[GH][v] # None /\ tags[GH][v].by = "workflow") ~> (hub[v] # None)

(***************************************************************************)
(* RELEASE.md:163: GitCode gets the artifacts GitHub released; building      *)
(* another set there is forbidden.  (.gitcode release.yml:69-122 builds.)   *)
(***************************************************************************)
SameFilesOnBoth ==
    \A v \in Version : hub[v] # None /\ code[v] # None =>
        \A t \in Target :
            hub[v].assets[t] = None \/ code[v].assets[t] = None
                \/ hub[v].assets[t] = code[v].assets[t]
=============================================================================
