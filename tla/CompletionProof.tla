-------------------------- MODULE CompletionProof --------------------------
(***************************************************************************)
(* The proof that a build is complete: the completion contract a build     *)
(* writes, the record `ces verify` leaves after it ran the commands of a   *)
(* contract, and the proof card that `ces approve` computes from both.     *)
(*                                                                         *)
(* Contract and record are files, each replaced in one rename.  A verify   *)
(* reads the contract, runs commands for minutes, and writes its record;   *)
(* builds and intakes may replace theirs meanwhile.  The card compares     *)
(* the two by their file times, by a hash over the objective, and by the   *)
(* commands.  Text is abstracted: an objective stands for request and      *)
(* acceptance criteria, a delta for its most demanding category.           *)
(***************************************************************************)
EXTENDS Naturals, FiniteSets

CONSTANTS
  Objectives,
  CheckCommands,   \* the commands that can be inferred from a project
  Verifiers,       \* processes that run `ces verify`
  MaxBuilds        \* contracts written

ASSUME ProofConstants == "verification" \notin Objectives /\ MaxBuilds \in Nat

VARIABLES
  completion,     \* .ces/completion-contract.json
  verification,   \* .ces/latest-verification.json
  newest,         \* which of contract and record has been written last
  verifying,      \* of each verifier: the contract it has read
  reading,        \* what the approval has read for its card
  card

proofVars == <<completion, verification, newest, verifying, reading, card>>

(* "preserved" stands for modified as well, "removed" for none unknown.    *)
Deltas == {"none", "preserved", "removed", "unknown"}

Artifacts == {"readme", "regression", "rollback"}

Contracts == [objective : Objectives \cup {"verification"}, delta : Deltas,
              commands : SUBSET CheckCommands, build : 0..MaxBuilds]

NoContract == [objective |-> "none", delta |-> "none", commands |-> {}, build |-> 0]

(* A record names the contract file, and holds the binding of the contract *)
(* that was read and the commands with their outcome.  subject is what the *)
(* run was about, and build the contract of the project when the run ended *)
(* (history).                                                              *)
NoRecord == [path |-> "none", binding |-> <<>>, ran |-> {}, passed |-> {},
             subject |-> <<>>, build |-> 0]

NotVerifying == [path |-> "none", contract |-> NoContract]

NotReading == [at |-> "idle", contract |-> NoContract, delta |-> "none", record |-> NoRecord]

NoCard == [proof |-> "none", safety |-> "none", decision |-> "none",
           freshness |-> "none", candidate |-> FALSE, open |-> FALSE,
           contract |-> NoContract, record |-> NoRecord, lacks |-> {}, delta |-> "none",
           torn |-> FALSE]

ProofInit ==
  /\ completion = NoContract /\ verification = NoRecord /\ newest = "none"
  /\ verifying = [v \in Verifiers |-> NotVerifying]
  /\ reading = NotReading /\ card = NoCard

-----------------------------------------------------------------------------

(* Required beside the documents of any project: evidence of regression    *)
(* tests, or a way back and a signature.                                   *)
RiskArtifacts(delta) ==
  CASE delta \in {"removed", "unknown"} -> {"rollback"}
    [] delta = "preserved"              -> {"regression"}
    [] OTHER                            -> {}

(* `ces build` and `ces continue` write the contract before the agent runs *)
(* and once more when it has ended.  Its delta is that of the execution    *)
(* contract, another file which may hold any at any time, or else what     *)
(* must not break; its commands are inferred from the project as it is     *)
(* then.                                                                   *)
WriteContract ==
  /\ completion.build < MaxBuilds
  /\ \E o \in Objectives, d \in Deltas, cs \in SUBSET CheckCommands :
       completion' = [objective |-> o, delta |-> d, commands |-> cs,
                      build |-> completion.build + 1]
  /\ newest' = "contract"
  /\ UNCHANGED <<verification, verifying, reading, card>>

(* verify takes the contract of the project, or one the user names; where  *)
(* there is none it infers one, and writes it when it is asked to.         *)
ReadContract(v) ==
  /\ verifying[v] = NotVerifying
  /\ \/ /\ completion # NoContract
        /\ verifying' = [verifying EXCEPT ![v] = [path |-> "default", contract |-> completion]]
        /\ UNCHANGED <<completion, newest>>
     \/ /\ \E o \in Objectives, cs \in SUBSET CheckCommands :
             verifying' = [verifying EXCEPT ![v].path = "other",
                                            ![v].contract.objective = o,
                                            ![v].contract.commands = cs]
        /\ UNCHANGED <<completion, newest>>
     \/ /\ completion = NoContract
        /\ \E cs \in SUBSET CheckCommands, persist \in BOOLEAN :
             LET inferred == [objective |-> "verification", delta |-> "none",
                              commands |-> cs, build |-> 1]
             IN  /\ verifying' = [verifying EXCEPT ![v] =
                                    [path |-> "default", contract |-> inferred]]
                 /\ completion' = IF persist THEN inferred ELSE NoContract
                 /\ newest' = IF persist THEN "contract" ELSE newest
  /\ UNCHANGED <<verification, reading, card>>

(* Faulty variants, used by mutants of PROJECT.json only: the hash covers  *)
(* the commands alone.                                                     *)
BindingOfCommands(c) == <<c.commands>>

(* What the hash over a contract covers.                                   *)
Binding(c) == <<c.objective, c.delta, c.commands>>

(* All commands of the contract that was read have been run, whether they  *)
(* passed or not, and the record replaces the last one.                    *)
WriteRecord(v) ==
  LET c == verifying[v].contract
  IN  /\ verifying[v] # NotVerifying
      /\ \E passed \in SUBSET c.commands :
           verification' = [path |-> verifying[v].path, binding |-> Binding(c),
                            ran |-> c.commands, passed |-> passed,
                            subject |-> <<c.objective, c.delta>>, build |-> completion.build]
      /\ newest' = "record"
      /\ verifying' = [verifying EXCEPT ![v] = NotVerifying]
      /\ UNCHANGED <<completion, reading, card>>

(* The command dies or raises: the last record stays.                      *)
VerifierDies(v) ==
  /\ verifying[v] # NotVerifying
  /\ verifying' = [verifying EXCEPT ![v] = NotVerifying]
  /\ UNCHANGED <<completion, verification, newest, reading, card>>

-----------------------------------------------------------------------------

(* `ces approve` of a project with a contract reads it first ...           *)
BeginCard ==
  /\ reading.at = "idle" /\ completion # NoContract
  /\ reading' = [reading EXCEPT !.at = "contract", !.contract = completion]
  /\ UNCHANGED <<completion, verification, newest, verifying, card>>

(* The delta of the contract counts when it has any entry.                 *)
DeltaShown(c, delta) == IF c.delta # "none" THEN c.delta ELSE delta

(* ... then the execution contract and the record of the last verify.      *)
LoadRecord ==
  /\ reading.at = "contract"
  /\ \E d \in Deltas :
       reading' = [reading EXCEPT !.at = "record", !.record = verification,
                     !.delta = DeltaShown(reading.contract, d)]
  /\ UNCHANGED <<completion, verification, newest, verifying, card>>

HasPassed(r) == r.ran # {} /\ r.passed = r.ran

(* The times are those of the files as they are when they are compared.    *)
IsFresh == verification # NoRecord /\ newest = "record"

BindingStatus(c, r) ==
  IF r = NoRecord THEN "missing" ELSE IF r.binding = Binding(c) THEN "matched" ELSE "mismatched"

MatchesContract(c, r) ==
  /\ r # NoRecord /\ r.path = "default"
  /\ c.commands \subseteq r.passed

(* "evidence" is the artifact a passed verification stands for.            *)
Missing(c, r, artifacts) ==
  (({"readme"} \cup RiskArtifacts(c.delta)) \ artifacts)
    \cup IF HasPassed(r) THEN {} ELSE {"evidence"}

ProofStatus(r, fresh, matches, unproven) ==
  IF r = NoRecord THEN "unproven"
  ELSE IF ~HasPassed(r) THEN "contradicted"
  ELSE IF ~(fresh /\ matches) THEN "unproven"
  ELSE IF unproven THEN "partially_proven"
  ELSE "proven"

ApprovalSafety(proof, r, fresh, matches) ==
  IF proof = "proven" THEN "safe-to-review"
  ELSE IF proof = "contradicted" THEN "blocked"
  ELSE IF r = NoRecord \/ ~fresh \/ ~matches THEN "needs-fresh-verification"
  ELSE "needs-evidence"

ReviewDecision(proof, safety) ==
  IF proof = "proven" /\ safety = "safe-to-review" THEN "ready-for-review"
  ELSE IF proof = "contradicted" \/ safety = "blocked" THEN "blocked"
  ELSE IF safety = "needs-fresh-verification" THEN "needs-verification"
  ELSE "needs-evidence"

FreshnessLabel(r, fresh, binding) ==
  IF r = NoRecord THEN "missing-verification"
  ELSE IF ~fresh THEN "stale"
  ELSE IF binding = "mismatched" THEN "stale-objective"
  ELSE "fresh"

(* The card of what has been read, with the artifacts of the project,      *)
(* which the agent or the user may edit at any time, and the file times of *)
(* this moment.  Approval goes on only when the card is proven.            *)
BuildProofCard ==
  /\ reading.at = "record"
  /\ \E artifacts \in SUBSET Artifacts :
       LET c        == reading.contract
           r        == reading.record
           fresh    == IsFresh
           binding  == BindingStatus(c, r)
           matches  == MatchesContract(c, r) /\ binding = "matched"
           missing  == Missing(c, r, artifacts)
           unproven == \/ missing # {} \/ c.commands = {} \/ reading.delta = "unknown"
                       \/ ~HasPassed(r) \/ ~fresh \/ ~matches
           proof    == ProofStatus(r, fresh, matches, unproven)
           safety   == ApprovalSafety(proof, r, fresh, matches)
       IN  card' = [proof |-> proof, safety |-> safety,
                    decision |-> ReviewDecision(proof, safety),
                    freshness |-> FreshnessLabel(r, fresh, binding),
                    candidate |-> HasPassed(r) /\ fresh /\ matches /\ ~unproven,
                    open |-> proof = "proven" /\ safety = "safe-to-review",
                    contract |-> c, record |-> r, lacks |-> missing \ {"evidence"},
                    delta |-> reading.delta, torn |-> c # completion \/ r # verification]
  /\ reading' = NotReading
  /\ UNCHANGED <<completion, verification, newest, verifying>>

ApprovalGoesOn == card # NoCard /\ card' = NoCard /\ UNCHANGED
  <<completion, verification, newest, verifying, reading>>

ProofNext ==
  \/ /\ card = NoCard
     /\ \/ WriteContract
        \/ \E v \in Verifiers : ReadContract(v) \/ WriteRecord(v) \/ VerifierDies(v)
        \/ BeginCard \/ LoadRecord \/ BuildProofCard
  \/ ApprovalGoesOn

ProofSpec == ProofInit /\ [][ProofNext]_proofVars

-----------------------------------------------------------------------------

(* An approval that is let through rests on one run of every command of    *)
(* the contract it has read, for that objective and that delta and no      *)
(* other, with every artifact there and nothing ambiguous; and unless a    *)
(* file was replaced while the card was computed, that run ended in the    *)
(* time of this contract, not of an earlier build of the same objective:   *)
(* whatever builds and verifications did while the commands ran.           *)
OpenIsEarned ==
  card.open =>
    /\ card.record.subject = <<card.contract.objective, card.contract.delta>>
    /\ card.contract.commands # {}
    /\ card.contract.commands \subseteq card.record.passed
    /\ card.torn \/ card.record.build = card.contract.build
    /\ card.lacks = {} /\ card.delta # "unknown"

(* The words on a card agree with each other, and a verification that did  *)
(* not pass is never shown as a mere lack of evidence.                     *)
CardAgrees ==
  card # NoCard =>
    /\ card.open <=> card.proof = "proven"
    /\ card.open <=> card.candidate
    /\ card.open <=> card.decision = "ready-for-review"
    /\ card.open => card.freshness = "fresh"
    /\ card.record # NoRecord =>
         (card.decision = "blocked" <=> card.record.passed # card.record.ran \/ card.record.ran = {})

(* An approval is open only where it was earned, and every part of the     *)
(* card says the same.                                                     *)
ProofSound == OpenIsEarned /\ CardAgrees
=============================================================================
