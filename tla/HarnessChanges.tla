--------------------------- MODULE HarnessChanges ---------------------------
(***************************************************************************)
(* Changes of the harness: a manifest predicts what a change fixes and may *)
(* break, `ces harness analyze` distils the transcript of a run, and a     *)
(* verdict compares both.  A verdict reads the manifest in one transaction *)
(* and is saved in later ones; its time is that of the comparison.  The    *)
(* report tells the operator what to do.                                   *)
(***************************************************************************)
EXTENDS Naturals, FiniteSets

CONSTANTS
  HarnessIds,     \* changes
  Comparers,      \* processes that run `ces harness verdict`
  MaxVerdicts     \* bound on the verdicts computed

ASSUME VerdictBound == MaxVerdicts \in Nat

VARIABLES
  manifests,      \* the changes that were added
  comparing,      \* of each process: the verdict it is about to save
  verdicts,       \* the stored verdicts
  compared        \* how many were computed; the time of the next one

changeVars == <<manifests, comparing, verdicts, compared>>

-----------------------------------------------------------------------------
(* The analysis of a transcript                                            *)

Transcripts == [failMarker : BOOLEAN, passMarker : BOOLEAN]

ClassifyOutcome(t) ==
  CASE t.failMarker -> "fail" [] ~t.failMarker /\ t.passMarker -> "pass"
    [] OTHER -> "unknown"

(* The cause is that of the class of failure, whose two labels for a run   *)
(* that failed are not told apart.                                         *)
SuspectedCause(t) ==
  CASE ClassifyOutcome(t) = "pass" -> "no failure detected"
    [] ClassifyOutcome(t) = "fail" -> "a command or the execution failed"
    [] OTHER -> "insufficient evidence"

(* What the comparison finds: which predicted fixes and whether a predicted*)
(* regression are in the text of the analysis, and whether its cause is in *)
(* a prediction, as the whole of it or as a part.                          *)
Comparisons ==
  {f \in [transcript : Transcripts, fixes : {"all", "some", "none"},
          predicted : BOOLEAN, named : {"no", "part", "whole"}] :
     f.named = "whole" => f.predicted}

Unexpected(f) ==
  /\ ClassifyOutcome(f.transcript) = "fail"
  /\ SuspectedCause(f.transcript) # "insufficient evidence"
  /\ f.named = "no"

Missed(f) == f.fixes # "all"

NetVerdict(f) ==
  IF f.predicted \/ Unexpected(f) THEN "rollback"
  ELSE IF ClassifyOutcome(f.transcript) = "unknown" /\ f.fixes = "none" THEN "inconclusive"
  ELSE IF Missed(f) THEN "revise" ELSE "keep"

Verdicts == [change : HarnessIds, found : Comparisons, at : 1..MaxVerdicts]

NotComparing == {}

-----------------------------------------------------------------------------

ChangesInit ==
  /\ manifests = {} /\ verdicts = {} /\ compared = 0
  /\ comparing = [p \in Comparers |-> NotComparing]

(* save_harness_change replaces a manifest that is there already.          *)
AddChange(c) ==
  manifests' = manifests \cup {c} /\ UNCHANGED <<comparing, verdicts, compared>>

CompareChange(p, c, f) ==
  /\ comparing[p] = NotComparing /\ c \in manifests /\ compared < MaxVerdicts
  /\ compared' = compared + 1
  /\ comparing' = [comparing EXCEPT ![p] = {[change |-> c, found |-> f, at |-> compared']}]
  /\ UNCHANGED <<manifests, verdicts>>

SaveVerdict(p) ==
  /\ comparing[p] # NotComparing
  /\ verdicts' = verdicts \cup comparing[p]
  /\ comparing' = [comparing EXCEPT ![p] = NotComparing]
  /\ UNCHANGED <<manifests, compared>>

ComparerDies(p) ==
  /\ comparing[p] # NotComparing
  /\ comparing' = [comparing EXCEPT ![p] = NotComparing]
  /\ UNCHANGED <<manifests, verdicts, compared>>

ChangesNext ==
  \/ \E c \in HarnessIds : AddChange(c)
  \/ \E p \in Comparers :
       \/ \E c \in HarnessIds, f \in Comparisons : CompareChange(p, c, f)
       \/ SaveVerdict(p) \/ ComparerDies(p)

ChangesSpec == ChangesInit /\ [][ChangesNext]_changeVars

-----------------------------------------------------------------------------
(* The report                                                              *)

VerdictsOf(c) == {v \in verdicts : v.change = c}

(* list_harness_change_verdicts orders by the time of the comparison.      *)
LatestVerdict(c) ==
  CHOOSE v \in VerdictsOf(c) : \A w \in VerdictsOf(c) : w.at <= v.at

WithVerdict == {c \in manifests : VerdictsOf(c) # {}}

LatestIs(c, verdict) ==
  c \in WithVerdict /\ NetVerdict(LatestVerdict(c).found) = verdict

RollbackCandidates ==
  {c \in WithVerdict : LET f == LatestVerdict(c).found
                       IN NetVerdict(f) = "rollback" \/ Unexpected(f) \/ f.predicted}

Recommendations ==
  {r \in {"compute", "rollback", "revise"} :
     \/ r = "compute" /\ manifests # WithVerdict
     \/ r # "compute" /\ \E c \in manifests : LatestIs(c, r)}

(* When nothing is recommended, every change was compared, and none of the *)
(* newest comparisons saw a regression or missed a fix it could judge,     *)
(* although verdicts are saved in any order.                               *)
QuietReport ==
  Recommendations = {} =>
    /\ RollbackCandidates = {}
    /\ \A c \in manifests :
         \E v \in VerdictsOf(c) :
           /\ \A w \in VerdictsOf(c) : w.at <= v.at
           /\ ~v.found.predicted
           /\ v.found.fixes = "all" \/
              (v.found.fixes = "none" /\ ClassifyOutcome(v.found.transcript) = "unknown")

(* A change is kept on the word of a run that failed only if the cause of  *)
(* the failure is part of a regression that was predicted in more words.   *)
KeptRunsPassed ==
  \A v \in verdicts :
    NetVerdict(v.found) = "keep" /\ v.found.transcript.failMarker =>
      v.found.named = "part"

(* What an operator may rely on when the report is quiet or keeps a change.*)
ReportHonest == QuietReport /\ KeptRunsPassed
=============================================================================
