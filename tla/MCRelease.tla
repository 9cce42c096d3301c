------------------------------ MODULE MCRelease -----------------------------
(***************************************************************************)
(* Up to two runs of one workflow.  The platforms share no state, and        *)
(* neither do two versions on one platform, so every behaviour here has one  *)
(* platform and one version; the properties range over all of them.          *)
(***************************************************************************)
EXTENDS Channels

VARIABLES channel, asked   \* the platform and the version of this behaviour

mcVars == <<releaseVars, channel, asked>>

MCInit == Init /\ channel \in Platform /\ asked \in Version

\* Green commits are alike: the first run is not the one of the second of them.
firstCommit == runs[1] # None => runs[1].commit # "c2"

\* Where there are two runs, each builds its targets in one order with one
\* toolchain; a run that mixes them is a run on its own.
plainBuilds ==
    Cardinality(started) = 2 => \A r \in started :
        /\ runs[r].done # {"darwin"}
        /\ Cardinality({b.go : b \in {runs[r].artifacts[t] : t \in Target} \ {None}}) <= 1

\* Two runs and one failure, or one run and two; a malformed version and a
\* commit that fails its tests are runs on their own.
bounded ==
    /\ Cardinality(started) + faults <= 3
    /\ asked \notin WellFormed \/ (\E r \in started : runs[r].commit \notin Green)
          => Cardinality(started) <= 1

MCNext ==
    /\ \/ channel = GH /\ HubNext
       \/ channel = GC /\ CodeNext
    /\ UNCHANGED <<channel, asked>>
    /\ (\A r \in started : runs[r].version = asked)'
    /\ firstCommit' /\ plainBuilds' /\ bounded'

MCSpec == MCInit /\ [][MCNext]_mcVars /\ HubFairness
=============================================================================
