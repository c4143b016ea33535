--------------------------- MODULE SemanticReview ---------------------------
(***************************************************************************)
(* The semantic reviews under .ces/reviews: `ces review generate` computes *)
(* one from the diff and from the record of the last verification and      *)
(* writes it file by file, its metadata first; `ces approve` (and the      *)
(* proof card in the same way) takes the latest, asks whether it is stale, *)
(* and cites it in the audit entry of the decision.  Meanwhile the tree is *)
(* edited, verifications replace their record, and other reviews are       *)
(* generated.  A diff is abstracted to the tree it is computed from, and   *)
(* the contracts to whether they demand more than some trees implement.    *)
(***************************************************************************)
EXTENDS Naturals, FiniteSets

CONSTANTS
  Trees,         \* contents of the repository
  Risky,         \* those whose risk map is high or critical unless they were verified
  RiskyIfFailed, \* those for which that takes a verification that failed
  Unresolved,    \* those that lack something a demanding contract requires
  Generators,    \* processes, each of which generates one review
  Approvers

ASSUME SemanticConstants == Risky \cup RiskyIfFailed \cup Unresolved \subseteq Trees

VARIABLES
  tree,
  outcome_of,  \* what .ces/latest-verification.json says
  reviews,     \* of each generator: the review, and how far it is
  made,        \* reviews that got their time of creation
  approving    \* of each approver: the review it has read and what it will say

semanticVars == <<tree, outcome_of, reviews, made, approving>>

Outcomes == {"absent", "failed", "passed"}

(* summary is what the review says of the verification, asked the contract *)
(* whose requirements it lists, print the hash of the record it is about;  *)
(* raced is history: the record was replaced between summary and print.    *)
NoReviewYet ==
  [stage |-> "none", diff |-> "none", summary |-> "absent", asked |-> FALSE,
   print |-> "absent", created |-> 0, raced |-> FALSE]

(* moved is history: tree or record changed since they were compared.      *)
Undecided ==
  [step |-> "none", review |-> "none", stale |-> FALSE, warnings |-> {}, moved |-> FALSE]

SemanticInit ==
  /\ tree \in Trees /\ outcome_of = "absent"
  /\ reviews = [g \in Generators |-> NoReviewYet] /\ made = 0
  /\ approving = [a \in Approvers |-> Undecided]

Advance(g, stage) == reviews' = [reviews EXCEPT ![g].stage = stage]

-----------------------------------------------------------------------------

Moves(compared) ==
  approving' = [a \in Approvers |->
    IF approving[a].step \in compared THEN [approving[a] EXCEPT !.moved = TRUE] ELSE approving[a]]

(* The tree, or the commit that a ref stands for, changes.                 *)
Edit ==
  /\ tree' \in Trees \ {tree}
  /\ Moves({"compared", "decide"})
  /\ UNCHANGED <<outcome_of, reviews, made>>

ReplaceRecord ==
  /\ outcome_of' \in {"failed", "passed"} \ {outcome_of}
  /\ reviews' = [g \in Generators |->
       IF reviews[g].stage \in {"verified", "covered"}
       THEN [reviews[g] EXCEPT !.raced = TRUE] ELSE reviews[g]]
  /\ Moves({"decide"})
  /\ UNCHANGED <<tree, made>>

(* generate: the diff index ...                                            *)
IndexDiff(g) ==
  /\ reviews[g].stage = "none"
  /\ reviews' = [reviews EXCEPT ![g].stage = "indexed", ![g].diff = tree]
  /\ UNCHANGED <<tree, outcome_of, made, approving>>

(* ... what is known of the verification, for the risk map and coverage,   *)
LoadVerification(g) ==
  /\ reviews[g].stage = "indexed"
  /\ reviews' = [reviews EXCEPT ![g].stage = "verified", ![g].summary = outcome_of]
  /\ UNCHANGED <<tree, outcome_of, made, approving>>

(* ... what the contracts require that intakes and builds have left, which *)
(* may be anything by now, and how far that is implemented, ...            *)
CoverIntent(g) ==
  /\ reviews[g].stage = "verified"
  /\ \E demanding \in BOOLEAN :
       reviews' = [reviews EXCEPT ![g].stage = "covered", ![g].asked = demanding]
  /\ UNCHANGED <<tree, outcome_of, made, approving>>

(* ... and the metadata, with a time and with a hash of the record.        *)
Stamp(g) ==
  /\ reviews[g].stage = "covered"
  /\ made' = made + 1
  /\ reviews' = [reviews EXCEPT ![g].stage = "stamped", ![g].created = made + 1,
                                ![g].print = outcome_of]
  /\ UNCHANGED <<tree, outcome_of, approving>>

(* The bundle: metadata.json, then the other five artifacts that are read  *)
(* back, and then texts, which are not told apart here.                    *)
WriteBundle(g) ==
  /\ \/ reviews[g].stage = "stamped" /\ Advance(g, "metadata")
     \/ reviews[g].stage = "metadata" /\ Advance(g, "whole")
  /\ UNCHANGED <<tree, outcome_of, made, approving>>

-----------------------------------------------------------------------------

Listed == {g \in Generators : reviews[g].stage \in {"metadata", "whole"}}

(* Faulty variant, used by a mutant of PROJECT.json only: the record is    *)
(* not compared.                                                           *)
SameRecordUnread(g) == reviews[g].print \in Outcomes

IsLatest(g) == g \in Listed /\ \A h \in Listed : reviews[h].created <= reviews[g].created

SameRecord(g) == reviews[g].print = outcome_of

(* Risk for want of a verification that passed, which weighs more when it  *)
(* failed; and what a contract requires and the diff does not touch.       *)
RiskUnverified(t, outcome) ==
  outcome # "passed" /\ (t \in Risky \/ (outcome = "failed" /\ t \in RiskyIfFailed))

Lacks(t, asked) == asked /\ t \in Unresolved

DecideWith(a, warnings) ==
  approving' = [approving EXCEPT ![a].step = "decide", ![a].warnings = warnings]

(* approve: without a review it warns; one that cannot be read whole is    *)
(* treated like none, and an older one is not tried.                       *)
LoadLatest(a) ==
  /\ approving[a].step = "none"
  /\ \/ Listed = {} /\ DecideWith(a, {"missing"})
     \/ \E g \in Listed :
          /\ IsLatest(g)
          /\ IF reviews[g].stage = "metadata"
             THEN DecideWith(a, {"unreadable"})
             ELSE approving' = [approving EXCEPT ![a].step = "loaded", ![a].review = g]
  /\ UNCHANGED <<tree, outcome_of, reviews, made>>

(* is_stale computes the diff anew ...                                     *)
CompareDiff(a) ==
  /\ approving[a].step = "loaded"
  /\ approving' = [approving EXCEPT ![a].step = "compared",
                     ![a].stale = reviews[approving[a].review].diff # tree]
  /\ UNCHANGED <<tree, outcome_of, reviews, made>>

(* ... and where that is the same, hashes the record.  Then the warnings.  *)
Warn(a) ==
  LET g == approving[a].review
      r == reviews[g]
  IN  /\ approving[a].step = "compared"
      /\ DecideWith(a, {w \in {"stale", "high-risk", "unresolved"} :
                    \/ w = "stale" /\ (approving[a].stale \/ ~SameRecord(g))
                    \/ w = "high-risk" /\ RiskUnverified(r.diff, r.summary)
                    \/ w = "unresolved" /\ Lacks(r.diff, r.asked)})
      /\ UNCHANGED <<tree, outcome_of, reviews, made>>

(* The user answers, after any time, and the decision cites the review.    *)
Record(a) ==
  /\ approving[a].step = "decide"
  /\ approving' = [approving EXCEPT ![a] = Undecided]
  /\ UNCHANGED <<tree, outcome_of, reviews, made>>

(* A generation or an approval that dies stays where it is.                *)
SemanticNext ==
  \/ Edit \/ ReplaceRecord
  \/ \E g \in Generators :
       IndexDiff(g) \/ LoadVerification(g) \/ CoverIntent(g) \/ Stamp(g) \/ WriteBundle(g)
  \/ \E a \in Approvers : LoadLatest(a) \/ CompareDiff(a) \/ Warn(a) \/ Record(a)

SemanticSpec == SemanticInit /\ [][SemanticNext]_semanticVars

-----------------------------------------------------------------------------

Quiet(a) == approving[a].step = "decide" /\ approving[a].warnings = {}

(* A decision without a warning cites a review of this very diff, which    *)
(* lacks nothing of the contract the review was generated with, and made   *)
(* with the verification that is on record, which leaves no risk: as long  *)
(* as tree and record did not change while the user made up his mind, and  *)
(* unless the record was replaced while the review was generated.  A       *)
(* contract that was replaced since makes no review stale (is_stale).      *)
ReviewCurrent ==
  \A a \in Approvers : Quiet(a) /\ ~approving[a].moved =>
    LET r == reviews[approving[a].review]
    IN  /\ r.diff = tree /\ ~Lacks(tree, r.asked)
        /\ ~r.raced => r.summary = outcome_of /\ ~RiskUnverified(tree, outcome_of)
=============================================================================
