---------------------------- MODULE DraftRelease ----------------------------
(***************************************************************************)
(* scripts/ci/create-draft-release.mjs, run by the workflow of the main    *)
(* branch for each push once CI has passed.  The workflow cancels a job    *)
(* that still runs when the next commit arrives, between any two steps.    *)
(***************************************************************************)
EXTENDS Naturals, FiniteSets

CONSTANTS
  Versions,         \* values of VERSION: records num, rc (rc = 0: no prerelease)
  MaxCommits        \* bound: commits on the main branch

VARIABLES
  history,          \* the main branch: VERSION at each commit
  tags,             \* the repository's v* tags: the commit of each version
  releases,         \* the draft releases: the creating job's commit and
                    \* the commits that the notes list
  job               \* the running job

releaseVars == <<history, tags, releases, job>>

NoVersion == [num |-> 0, rc |-> 0]

\* What is compared with when there is no tag, "0.0.0", is released by no job.
ASSUME VersionsAssumption == Versions \subseteq [num : Nat \ {0}, rc : Nat]

(***************************************************************************)
(* compareSemver(a, b) > 0.  Two prereleases are compared as text, which   *)
(* for rc.N orders the numbers digit by digit.                             *)
(***************************************************************************)
Digits(n) == IF n < 10 THEN 11 * n ELSE (11 * (n \div 10) + 1) + (n % 10)

\* Mutant: any other version counts as greater.
Differs(a, b) == a # b

Greater(a, b) ==
  \/ a.num > b.num
  \/ a.num = b.num /\ a.rc = 0 /\ b.rc # 0
  \/ a.num = b.num /\ a.rc # 0 /\ b.rc # 0 /\ Digits(a.rc) > Digits(b.rc)

\* git's --sort=-v:refname: numeric, a name before its extensions.
SortsAfter(a, b) == a.num > b.num \/ (a.num = b.num /\ a.rc > b.rc)

\* Precedence as semver.org defines it.
Precedes(a, b) ==
  \/ a.num < b.num
  \/ a.num = b.num /\ a.rc # 0 /\ (b.rc = 0 \/ a.rc < b.rc)

LastTag(own) ==
  LET others == DOMAIN tags \ {own}
  IN  IF others = {} THEN NoVersion
      ELSE CHOOSE v \in others : \A w \in others \ {v} : SortsAfter(v, w)

\* How a job ends: exit 0 twice, exit 1 once.
Ended == {"skipped", "released", "failed"}

NoJob == [pc |-> "failed", at |-> 0, last |-> NoVersion]

End(result) == job' = [job EXCEPT !.pc = result, !.last = NoVersion]

ReleaseInit ==
  /\ history = << >>
  /\ tags = << >>
  /\ releases = << >>
  /\ job = NoJob

HeadCommit == job.at
HeadVersion == history[HeadCommit]

\* A commit arrives on main: a running job is cancelled, a new one starts.
Push ==
  /\ Cardinality(DOMAIN history) < MaxCommits
  /\ \E v \in Versions :
       history' = [c \in DOMAIN history \cup {Cardinality(DOMAIN history) + 1} |->
                     IF c \in DOMAIN history THEN history[c] ELSE v]
  /\ job' = [pc |-> "check", at |-> Cardinality(DOMAIN history) + 1, last |-> NoVersion]
  /\ UNCHANGED <<tags, releases>>

\* The job of any commit is started once more by hand.
Rerun ==
  /\ job.pc \in Ended
  /\ \E c \in DOMAIN history : job' = [pc |-> "check", at |-> c, last |-> NoVersion]
  /\ UNCHANGED <<history, tags, releases>>

\* The release exists, or VERSION is not greater than at the last tag.
Skip ==
  LET last == LastTag(HeadVersion)
      previous == IF last = NoVersion THEN NoVersion ELSE history[tags[last]]
  IN  /\ job.pc = "check"
      /\ HeadVersion \in DOMAIN releases \/ ~Greater(HeadVersion, previous)
      /\ End("skipped")
      /\ UNCHANGED <<history, tags, releases>>

Proceed ==
  LET last == LastTag(HeadVersion)
      previous == IF last = NoVersion THEN NoVersion ELSE history[tags[last]]
  IN  /\ job.pc = "check"
      /\ HeadVersion \notin DOMAIN releases
      /\ Greater(HeadVersion, previous)
      /\ job' = [job EXCEPT !.pc = "tag", !.last = last]
      /\ UNCHANGED <<history, tags, releases>>

\* The tag is created and pushed, unless the checkout has it already.
PushTag ==
  /\ job.pc = "tag"
  /\ tags' = IF HeadVersion \in DOMAIN tags THEN tags
             ELSE [v \in DOMAIN tags \cup {HeadVersion} |->
                     IF v = HeadVersion THEN HeadCommit ELSE tags[v]]
  /\ job' = [job EXCEPT !.pc = "release"]
  /\ UNCHANGED <<history, releases>>

\* Mutant: the notes leave the commit after the last tag out.
CreateReleaseFromNext ==
  LET from == IF job.last = NoVersion THEN 1 ELSE tags[job.last] + 1
  IN  /\ job.pc = "release"
      /\ releases' = [v \in DOMAIN releases \cup {HeadVersion} |->
                        IF v = HeadVersion
                        THEN [at |-> HeadCommit, notes |-> (from + 1)..HeadCommit]
                        ELSE releases[v]]
      /\ End("released")
      /\ UNCHANGED <<history, tags>>

\* The notes are the subjects of lastTag..HEAD.
CreateRelease ==
  LET from == IF job.last = NoVersion THEN 0 ELSE tags[job.last]
  IN  /\ job.pc = "release"
      /\ releases' = [v \in DOMAIN releases \cup {HeadVersion} |->
                        IF v = HeadVersion THEN [at |-> HeadCommit, notes |-> (from + 1)..HeadCommit]
                        ELSE releases[v]]
      /\ End("released")
      /\ UNCHANGED <<history, tags>>

\* git or gh fails: fail() ends the job.
JobFails ==
  /\ job.pc \in {"check", "tag", "release"}
  /\ End("failed")
  /\ UNCHANGED <<history, tags, releases>>

ReleaseNext ==
  \/ Push \/ Rerun \/ Skip \/ Proceed \/ PushTag \/ CreateRelease \/ JobFails

ReleaseSpec == ReleaseInit /\ [][ReleaseNext]_releaseVars

(***************************************************************************)
(* Properties.                                                             *)
(***************************************************************************)

\* No release is created below one that exists already.
ReleasesIncrease ==
  [][\A v \in DOMAIN releases' \ DOMAIN releases :
       \A w \in DOMAIN releases : Precedes(w, v)]_releaseVars

\* A commit that a released tag contains is missing from the notes of every
\* release only where the tag and the release are of two jobs: a tag above
\* it was left without its release by a cancelled job, or the release was
\* created by a job that was started again for an older commit.
NotesCoverCommits ==
  \A v \in DOMAIN releases : \A c \in 1..tags[v] :
    \/ \E w \in DOMAIN releases : c \in releases[w].notes
    \/ \E u \in DOMAIN tags \ DOMAIN releases : c <= tags[u]
    \/ \E w \in DOMAIN releases : releases[w].at < c /\ c <= tags[w]

=============================================================================
