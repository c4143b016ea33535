--------------------------- MODULE BuildEvidence ---------------------------
(***************************************************************************)
(* How `ces build` comes to ship what an agent has done.  The workspace is *)
(* compared before and after the agent ran; the claim of the agent is      *)
(* verified, the commands of the project and the sensors are run, and what *)
(* is wrong becomes a blocker of the approval, which the user or --yes     *)
(* gives; a merge needs all of it.                                         *)
(*                                                                         *)
(* The agent writes while it runs, the user and other processes write at   *)
(* any time; what a file says is an input of the step that reads it.  Of a *)
(* claim it matters whether it holds by itself, whether it lists the       *)
(* profile and whether it says the tests were run; of the completion       *)
(* artifacts one stands for all four.                                      *)
(***************************************************************************)
EXTENDS Integers, FiniteSets

CONSTANTS
  Files,      \* product files
  Profile,    \* .ces/verification-profile.json
  TestReport, \* pytest-results.json
  Suites      \* commands that can be inferred from the project

ASSUME EvidenceConstants == Profile \notin Files /\ TestReport \notin Files /\ Profile # TestReport

VARIABLES
  build,      \* what the command holds
  changed     \* paths written since the first snapshot and before the second

evidenceVars == <<build, changed>>

Paths == Files \cup {Profile, TestReport}
Profiles == {"none", "required", "relaxed"}     \* what it asks of the tests
Reports == {"absent", "green", "red"}
Tiers == {"A", "B", "C"}
TrustStatuses == {"trusted", "candidate", "watch", "constrained"}
Modes == {"greenfield", "brownfield"}
BlockerKinds == {"claim", "suites", "scope", "sensors", "unknown_scope", "side_effects"}
BuildPhases == {"running", "ended", "verified", "tested", "judged", "decided", "merging",
           "closed", "dead"}

Claims == [given : BOOLEAN, sound : BOOLEAN, lists : BOOLEAN, ran : BOOLEAN]

Builds ==
  [at : BuildPhases, mode : Modes, scope : SUBSET Paths, exit : {"none", "ok", "failed"},
   verification : {"none", "passed", "failed"}, excused : BOOLEAN,
   inferred : SUBSET Suites, passed : SUBSET Suites, failed : SUBSET Suites,
   yes : BOOLEAN, governance : BOOLEAN, tier : Tiers, green : BOOLEAN,
   blockers : SUBSET BlockerKinds, approved : BOOLEAN, merged : BOOLEAN,
   session : {"running", "awaiting_review", "completed", "blocked"}]

NewBuild(mode, scope) ==
  [at |-> "running", mode |-> mode, scope |-> scope, exit |-> "none",
   verification |-> "none", excused |-> FALSE, inferred |-> {}, passed |-> {}, failed |-> {},
   yes |-> FALSE, governance |-> FALSE, tier |-> "C", green |-> FALSE, blockers |-> {},
   approved |-> FALSE, merged |-> FALSE, session |-> "running"]

(* The manifest is signed and stored in flight, the workspace is captured, *)
(* and the agent starts.  In a greenfield project the manifest names no    *)
(* file; in a brownfield one those the brief names, if any.                *)
EvidenceInit ==
  /\ \E s \in SUBSET Files : build \in {NewBuild("greenfield", {}), NewBuild("brownfield", s)}
  /\ changed = {}

-----------------------------------------------------------------------------

(* Somebody writes a path while the agent runs: the agent, the user or     *)
(* another process.  The snapshots do not tell who it was.                 *)
WritePath(p) ==
  /\ build.at = "running"
  /\ changed' = changed \cup {p}
  /\ UNCHANGED build

(* A greenfield manifest without files takes the changed ones but those of *)
(* CES for its scope; that of a brownfield manifest is not widened by what *)
(* was changed.                                                            *)
EffectiveScope ==
  IF build.mode = "greenfield" /\ build.scope = {} THEN changed \ {Profile} ELSE build.scope

(* The agent ends, and the workspace is captured again.                    *)
RuntimeEnds ==
  /\ build.at = "running"
  /\ \E exit \in {"ok", "failed"} :
       build' = [build EXCEPT !.at = "ended", !.exit = exit, !.scope = EffectiveScope]
  /\ UNCHANGED changed

(* A profile counts unless the claim c itself lists it as changed.         *)
Trusted(c) == ~c.lists

(* A missing report is no failure when the profile does not ask for it.    *)
Excused(c, profile, report) == Trusted(c) /\ profile = "relaxed" /\ report = "absent"

(* Where no profile asks for a report, a successful test command in the    *)
(* claim stands for it.                                                    *)
ReducedEvidence(c, profile, report) ==
  report = "absent" /\ ~(Trusted(c) /\ profile # "none") /\ c.ran

TestsPass(c, profile, report) ==
  \/ report = "green"
  \/ Excused(c, profile, report)
  \/ ReducedEvidence(c, profile, report)

(* A claim that lists the profile fails for that alone.                    *)
ClaimHolds(c, profile, report) ==
  c.given /\ c.sound /\ ~c.lists /\ TestsPass(c, profile, report)

(* The claim, if one can be parsed, is verified with the profile and the   *)
(* report as they are now, whatever the age of the report.  After a failed *)
(* run there is no verification and no finding.                            *)
VerifyClaim ==
  /\ build.at = "ended"
  /\ \E c \in Claims, p \in Profiles, r \in Reports :
       build' = [build EXCEPT !.at = "verified",
                   !.excused = build.exit = "ok" /\ c.given /\ Excused(c, p, r),
                   !.verification = IF build.exit = "failed" THEN "none"
                                    ELSE IF ClaimHolds(c, p, r) THEN "passed" ELSE "failed"]
  /\ UNCHANGED changed

(* The contract is written anew from the project as it is by now, and its  *)
(* commands, if there are any, are run after a run that succeeded.         *)
InferSuites ==
  /\ build.at = "verified"
  /\ \E suites \in SUBSET Suites :
       build' = [build EXCEPT !.at = "tested",
                   !.inferred = IF build.exit = "ok" THEN suites ELSE {}]
  /\ UNCHANGED changed

(* One after the other, whatever the outcome of the ones before.           *)
RunSuite(s) ==
  /\ build.at = "tested" /\ s \in build.inferred \ (build.passed \cup build.failed)
  /\ build' \in {[build EXCEPT !.passed = @ \cup {s}], [build EXCEPT !.failed = @ \cup {s}]}
  /\ UNCHANGED changed

-----------------------------------------------------------------------------

(* A result of a sensor: its pack, its most severe finding, and whether    *)
(* that is of an artifact that is missing and not asked for.               *)
Severity == [info |-> 0, low |-> 1, medium |-> 2, high |-> 3, critical |-> 4]

SensorResults ==
  [strict : BOOLEAN, passed : BOOLEAN, optional : BOOLEAN, severity : {0, 2, 3, 4}]

(* strict: the packs for performance and resilience, whose findings block  *)
(* from a severity on that depends on the tier, passed or not.             *)
Alarms(tier, r) ==
  /\ ~r.optional
  /\ IF r.strict
     THEN r.severity >= CASE tier = "A" -> Severity.medium
                          [] tier = "B" -> Severity.high
                          [] OTHER      -> Severity.critical
     ELSE ~r.passed /\ r.severity >= Severity.high

(* What at most two sensors can come to, for each tier: whether all passed *)
(* (no sensor at all is not green) and whether one of them alarms.         *)
SensorOutcomes ==
  [tier \in Tiers |->
     {[green |-> \A r \in {a, b} : r.passed, alarm |-> \E r \in {a, b} : Alarms(tier, r)] :
        a \in SensorResults, b \in SensorResults}
     \cup {[green |-> FALSE, alarm |-> FALSE]}]

TriageColor(tier, trust, green) ==
  CASE tier = "C" /\ trust = "trusted" -> IF green THEN "green" ELSE "yellow"
    [] \/ tier = "C" /\ trust \in {"candidate", "watch"}
       \/ tier = "B" /\ trust \in {"trusted", "candidate"}
       \/ tier = "A" /\ trust = "trusted" -> IF green THEN "yellow" ELSE "red"
    [] OTHER -> "red"

(* Faulty variant, used by a mutant of PROJECT.json only: the files of CES *)
(* are no product files and left out.                                      *)
ProductViolations == IF build.scope = {} THEN {} ELSE (changed \ build.scope) \ {Profile}

(* Paths of the delta outside the scope.  A manifest without any scope has *)
(* no violations: neither product files nor the profile.                   *)
ScopeViolations == IF build.scope = {} THEN {} ELSE changed \ build.scope

BlockersOf(yes, alarm, enforced, accepted) ==
  {k \in BlockerKinds :
     \/ k = "claim" /\ build.verification = "failed"
     \/ k = "suites" /\ build.failed # {}
     \/ k = "scope" /\ ScopeViolations # {}
     \/ k = "sensors" /\ alarm
     \/ k = "unknown_scope" /\ yes /\ build.mode = "brownfield" /\ build.scope = {}
     \/ k = "side_effects" /\ yes /\ ~enforced /\ ~accepted}

(* All commands have been run; now the sensors are, and the evidence is    *)
(* stored before anybody is asked.  tier, yes and the rest are options of  *)
(* the command and of the manifest, which nothing has depended on so far.  *)
SavePacket ==
  /\ build.at = "tested" /\ build.inferred = build.passed \cup build.failed
  /\ \E tier \in Tiers, yes, governance, enforced, accepted \in BOOLEAN :
       \E o \in SensorOutcomes[tier] :
         build' = [build EXCEPT !.at = "judged", !.tier = tier, !.yes = yes,
                     !.governance = governance, !.green = o.green,
                     !.blockers = BlockersOf(yes, o.alarm, enforced, accepted),
                     !.session = "awaiting_review"]
  /\ UNCHANGED changed

(* The agent failed: the session is blocked and the command raises.        *)
RuntimeFailed ==
  /\ build.at = "judged" /\ build.exit = "failed"
  /\ build' = [build EXCEPT !.at = "closed", !.session = "blocked"]
  /\ UNCHANGED changed

(* --yes approves when nothing blocks; a user may approve anyway.          *)
Decide ==
  /\ build.at = "judged" /\ build.exit = "ok"
  /\ \E approve \in BOOLEAN :
       /\ build.yes => approve = (build.blockers = {})
       /\ build' = [build EXCEPT !.at = "decided", !.approved = approve]
  /\ UNCHANGED changed

GovernanceClear ==
  build.governance =>
    "sensors" \notin build.blockers /\ TriageColor(build.tier, "trusted", build.green) # "red"

ReadyToShip(allowed) ==
  /\ build.exit = "ok" /\ build.blockers = {} /\ GovernanceClear
  /\ build.approved /\ allowed

(* The checks of the merge controller may refuse; a review that is not     *)
(* complete cannot be the reason here.                                     *)
Merge ==
  /\ build.at = "decided"
  /\ \E allowed \in BOOLEAN :
       build' = [build EXCEPT !.at = "merging", !.merged = ReadyToShip(allowed)]
  /\ UNCHANGED changed

(* The session follows the manifest, in a write of its own.                *)
CloseBuild ==
  /\ build.at = "merging"
  /\ build' = [build EXCEPT !.at = "closed",
                 !.session = IF build.merged THEN "completed" ELSE "blocked"]
  /\ UNCHANGED changed

(* The process dies, or a step raises (the kill switch halts the sensors,  *)
(* the working directory of a command is outside of the project).          *)
BuildDies ==
  /\ build.at \notin {"closed", "dead"}
  /\ build' = [build EXCEPT !.at = "dead"]
  /\ UNCHANGED changed

EvidenceNext ==
  \/ \E p \in Paths : WritePath(p)
  \/ RuntimeEnds \/ VerifyClaim \/ InferSuites
  \/ \E s \in Suites : RunSuite(s)
  \/ SavePacket \/ RuntimeFailed \/ Decide \/ Merge \/ CloseBuild \/ BuildDies

EvidenceSpec == EvidenceInit /\ [][EvidenceNext]_evidenceVars

-----------------------------------------------------------------------------

EvidenceTypeOK ==
  build \in Builds /\ changed \in SUBSET Paths

(* What was merged is the work of a run that ended well, whose claim was   *)
(* verified, whose commands, if any could be inferred, all passed, about   *)
(* which no sensor alarmed and which was approved; under governance every  *)
(* sensor passed unless the tier is C.  A user who approves in spite of    *)
(* blockers does not bring about a merge.                                  *)
MergeBacked ==
  build.merged =>
    /\ build.exit = "ok" /\ build.verification = "passed" /\ build.approved
    /\ build.inferred = build.passed /\ "sensors" \notin build.blockers
    /\ build.governance /\ build.tier # "C" => build.green

(* Whatever was changed while the agent ran, by it or by anybody, a merge  *)
(* stays within the scope, if there is one: --yes never merges a           *)
(* brownfield build without, and a greenfield build that changed a product *)
(* file has not changed the profile too.                                   *)
ScopeKept ==
  build.merged =>
    /\ build.scope # {} => changed \subseteq build.scope
    /\ build.mode = "brownfield" /\ build.yes => build.scope # {}
    /\ build.mode = "greenfield" /\ Profile \in changed => changed = {Profile}

(* A missing report excused by a profile which was changed during the very *)
(* run lets nothing be merged, except where no file is in any scope.       *)
ProfileNotLowered ==
  build.merged /\ build.excused /\ Profile \in changed =>
    build.scope = {} /\ ~(build.mode = "brownfield" /\ build.yes)

(* The session is completed only with a merge, and a command that ends     *)
(* leaves no merge behind which its session does not know.                 *)
SessionFollows ==
  /\ build.session = "completed" => build.merged
  /\ build.at = "closed" /\ build.merged => build.session = "completed"

(* A build merges what was verified and is in scope, and its session       *)
(* knows.                                                                  *)
EvidenceSound ==
  EvidenceTypeOK /\ MergeBacked /\ ScopeKept /\ ProfileNotLowered /\ SessionFollows
=============================================================================
