--------------------------- MODULE ReviewDispatch ---------------------------
(***************************************************************************)
(* A review of one manifest: reviewers of different models are assigned,   *)
(* asked at the same time, and answer with text from which findings are    *)
(* read.  `ces review` stores what they found and `ces approve --yes`      *)
(* decides by it later; `ces dogfood --approve` does both at once.  The    *)
(* first reviewer that fails ends the review for all.  A review may be     *)
(* repeated.                                                               *)
(***************************************************************************)
EXTENDS Naturals, Sequences, SequencesExt, FiniteSets

CONSTANTS
  Rosters,         \* lists of models that the settings may name
  MaxRounds        \* reviews of the manifest

ASSUME ReviewConstants ==
  MaxRounds \in Nat /\ \A r \in Rosters : r \in Seq(Nat) /\ Len(r) >= 3

VARIABLES
  roster,      \* the models of the settings; 0 is the builder's own
  triad,       \* the manifest is of risk tier A
  command,     \* the command that reviews
  round,
  at,          \* where the command is
  reviewers,   \* the models of the reviewers, in the order of their roles
  answers,     \* what each has answered
  kept,        \* the stored review of the manifest
  outcome,     \* how the last review ended
  escalated,   \* rounds for which the ledger holds an escalation
  decided      \* the last decision, and the stored review it was made on

reviewVars == <<roster, triad, command, round, at, reviewers, answers, kept, outcome,
                escalated, decided>>

BuilderModel == 0

(* Models are told apart and nothing else: a roster is one of those that   *)
(* name them in the order in which they first occur.                       *)
RostersOf(length) ==
  {r \in [1..length -> 0..length] :
     \A i \in 1..length :
       r[i] \in {BuilderModel, 1} \/ \E j \in 1..(i - 1) : r[j] = r[i] - 1}

(* The default: the builder's default model and two others.                *)
ShippedRosters == {<<BuilderModel, 1, 2>>}

(* What an answer may hold: items of a list, of which one may name no      *)
(* known severity and one may be no finding at all, or text without a      *)
(* list.                                                                   *)
Items == {"critical", "low", "unknown", "malformed"}
Prose == {"prose"}
AnswerTexts == {Prose} \cup {{}} \cup {{i} : i \in Items} \cup {{"critical", "malformed"}}
Silent == {"silent"}

NoReview == [round |-> 0, critical |-> 0, high |-> 0, zero |-> FALSE]
NoDecision == [choice |-> "none", on |-> NoReview, round |-> 0]

(* dogfood names a builder whose model no roster has.                      *)
ReviewInit ==
  /\ roster \in Rosters /\ triad \in BOOLEAN /\ command \in {"review", "dogfood"}
  /\ command = "dogfood" => BuilderModel \notin Range(roster)
  /\ round = 0 /\ at = "idle" /\ reviewers = <<>> /\ answers = <<>>
  /\ kept = NoReview /\ outcome = "none" /\ escalated = {} /\ decided = NoDecision

-----------------------------------------------------------------------------
(* Assignment.                                                             *)

(* The models of the roster that are not the builder's, in their order.    *)
Available ==
  LET among[i \in 0..Len(roster)] ==
        IF i = 0 THEN <<>>
        ELSE IF roster[i] = BuilderModel THEN among[i - 1]
        ELSE Append(among[i - 1], roster[i])
  IN  among[Len(roster)]

(* The three validators: the agents are named after roles and models, so   *)
(* none is the builder.                                                    *)
Independent(models) ==
  /\ \A i, j \in DOMAIN models : i # j => models[i] # models[j]
  /\ \A i \in DOMAIN models : models[i] # BuilderModel

(* Faulty variant, used by a mutant of PROJECT.json only: the first three  *)
(* entries, without the validation.                                        *)
AssignAnyTriad == IF Len(roster) >= 3 THEN <<SubSeq(roster, 1, 3)>> ELSE <<>>

(* A list of one assignment, or of none when the method raises.            *)
AssignTriad ==
  IF Len(Available) >= 3 /\ Independent(SubSeq(Available, 1, 3))
    THEN <<SubSeq(Available, 1, 3)>> ELSE <<>>

AssignSingle == IF Available = <<>> THEN <<>> ELSE <<<<Head(Available)>>>>

Ends(how) ==
  /\ at' = "idle" /\ outcome' = how
  /\ reviewers' = <<>> /\ answers' = <<>>

Constant == UNCHANGED <<roster, triad, command>>

(* A halt of task issuance, or a roster that cannot be assigned, ends the  *)
(* command; a manifest under review stays so.                              *)
AssignReviewers(halted) ==
  /\ at = "idle" /\ round < MaxRounds /\ round' = round + 1
  /\ LET assigned == IF triad THEN AssignTriad ELSE AssignSingle
     IN  IF halted \/ assigned = <<>>
         THEN Ends(IF halted THEN "halted" ELSE "unassigned")
         ELSE /\ reviewers' = assigned[1] /\ at' = "asking" /\ outcome' = "none"
              /\ answers' = [i \in DOMAIN assigned[1] |-> Silent]
  /\ Constant /\ UNCHANGED <<kept, escalated, decided>>

-----------------------------------------------------------------------------
(* The reviewers, in any order.                                            *)

ReviewerAnswers(i, text) ==
  /\ at = "asking" /\ answers[i] = Silent
  /\ answers' = [answers EXCEPT ![i] = text]
  /\ at' = IF \A j \in DOMAIN answers : answers'[j] # Silent THEN "answered" ELSE "asking"
  /\ Constant /\ UNCHANGED <<round, reviewers, kept, outcome, escalated, decided>>

(* gather raises the first error; a RuntimeError is swallowed by the       *)
(* command, which goes on without a review, and any other ends it.         *)
ReviewerFails(i, swallowed) ==
  /\ at = "asking" /\ answers[i] = Silent
  /\ Ends(IF swallowed THEN "without" ELSE "failed")
  /\ Constant /\ UNCHANGED <<round, kept, escalated, decided>>

(* _parse_findings: a list yields a finding for each item that is one, at  *)
(* severity info when its own is unknown; text without a list is one       *)
(* finding of severity high.                                               *)
SeverityOf(item) == IF item = "unknown" THEN "info" ELSE item

ParseFindings(text) ==
  IF text = Prose THEN {"high"} ELSE {SeverityOf(i) : i \in text \ {"malformed"}}

(* How many reviewers found something of a severity (the findings of one   *)
(* reviewer with one severity are not told apart), and whether every one   *)
(* found nothing.                                                          *)
FoundBy(severity) == Cardinality({i \in DOMAIN answers : severity \in ParseFindings(answers[i])})

Aggregate ==
  [round |-> round, critical |-> FoundBy("critical"), high |-> FoundBy("high"),
   zero |-> answers # <<>> /\ \A i \in DOMAIN answers : ParseFindings(answers[i]) = {}]

(* check, escalate and store: an escalation whose audit raises ends the    *)
(* command before anything is stored.                                      *)
Escalate ==
  /\ at = "answered" /\ Aggregate.zero
  /\ \/ escalated' = escalated \cup {round} /\ at' = "storing"
        /\ UNCHANGED <<reviewers, answers, outcome>>
     \/ UNCHANGED escalated /\ Ends("failed")
  /\ Constant /\ UNCHANGED <<round, kept, decided>>

SaveFindings ==
  /\ at = "storing" \/ (at = "answered" /\ ~Aggregate.zero)
  /\ kept' = Aggregate
  /\ IF command = "dogfood"
       THEN at' = "deciding" /\ UNCHANGED <<reviewers, answers, outcome>>
       ELSE Ends("stored")
  /\ Constant /\ UNCHANGED <<round, escalated, decided>>

-----------------------------------------------------------------------------
(* The decisions.                                                          *)

Decides(choice, on) == decided' = [choice |-> choice, on |-> on, round |-> round]

(* dogfood --approve, by the review it holds in memory.                    *)
DogfoodDecides ==
  /\ at = "deciding"
  /\ LET review == Aggregate
     IN  Decides(IF review.zero \/ review.critical > 0 THEN "rejected" ELSE "approved",
                 review)
  /\ Ends("stored")
  /\ Constant /\ UNCHANGED <<round, kept, escalated>>

(* approve --yes reads the stored review, whenever it is called; without   *)
(* one there is nothing that refuses it, and the merge is blocked as       *)
(* unreviewed afterwards (ManifestLifecycle).                              *)
ApproveYes ==
  /\ command = "review" /\ at = "idle" /\ round > 0
  /\ Decides(IF kept.zero THEN "refused" ELSE "approved", kept)
  /\ Constant
  /\ UNCHANGED <<round, at, reviewers, answers, kept, outcome, escalated>>

ReviewNext ==
  \/ \E halted \in BOOLEAN : AssignReviewers(halted)
  \/ \E i \in DOMAIN answers :
       \/ \E text \in AnswerTexts : ReviewerAnswers(i, text)
       \/ \E swallowed \in BOOLEAN : ReviewerFails(i, swallowed)
  \/ Escalate \/ SaveFindings \/ DogfoodDecides \/ ApproveYes

ReviewSpec == ReviewInit /\ [][ReviewNext]_reviewVars

-----------------------------------------------------------------------------

(* D-05, T-03-07: whoever reviews, the models differ from each other and   *)
(* from the builder's; tier A has three of them.  A roster that names no   *)
(* model twice is refused only when it is too short.                       *)
AssignmentSound ==
  /\ at # "idle" => Independent(reviewers) /\ (Len(reviewers) = 3 <=> triad)
  /\ outcome = "unassigned" =>
       Len(Available) < 3 \/ Cardinality(Range(Available)) < Len(Available)

(* A stored review is that of the last round that was answered by every    *)
(* reviewer, and is outdated only when a later round was not: refused,     *)
(* ended by a failure, or passed over in silence.                          *)
KeptIsLatest ==
  at = "idle" /\ kept.round < round =>
    outcome \in {"halted", "unassigned", "failed", "without"}

(* A review without findings is never decided upon without a human: it is  *)
(* in the ledger as escalated, and neither --yes nor dogfood approves it;  *)
(* nor is a critical finding approved by dogfood.                          *)
ZeroIsEscalated ==
  /\ kept.zero => kept.round \in escalated
  /\ decided.choice = "approved" => ~decided.on.zero
  /\ decided.choice = "approved" /\ command = "dogfood" => decided.on.critical = 0

(* While the answers are at hand: what counts as a review without findings *)
(* is that no answer has a finding that can be read, and text that cannot  *)
(* be read at all is never taken for silence.                              *)
UnreadIsSerious ==
  at \in {"answered", "storing", "deciding"} =>
    /\ (\E i \in DOMAIN answers : answers[i] = Prose) =>
         ~Aggregate.zero /\ Aggregate.high > 0
    /\ Aggregate.zero <=> \A i \in DOMAIN answers : answers[i] \subseteq {"malformed"}

(* What holds of reviews, of what is stored of them, and of the decisions  *)
(* that are made on it.                                                    *)
ReviewsSound ==
  AssignmentSound /\ KeptIsLatest /\ ZeroIsEscalated /\ UnreadIsSerious

(* "Tier A always gets triad regardless of gate type" (determine_review_   *)
(* type): a review of tier A that no halt refuses has its reviewers.       *)
TierAGetsTriad == triad => outcome # "unassigned"
=============================================================================
