--------------------------- MODULE IntakeContracts ---------------------------
(***************************************************************************)
(* `ces intake` turns a text into an execution contract and leaves it in   *)
(* four files, one after the other: the contract, the copy that stands for *)
(* the latest one, a page to read, and a specification of one story that   *)
(* `ces spec decompose` and `ces build --from-contract` work on.  Builds   *)
(* and proof cards take the latest contract for their own, whatever they   *)
(* are about.                                                              *)
(*                                                                         *)
(* A text is abstracted to what its words say of the risk and to whether   *)
(* its first line leaves an objective.                                     *)
(***************************************************************************)
EXTENDS Naturals, Sequences, SequencesExt

CONSTANTS
  Hints,           \* what the words of a text can say of its risk
  Makers,          \* processes that run `ces intake`
  MaxContracts

ASSUME IntakeConstants ==
  /\ MaxContracts \in Nat
  /\ Hints \subseteq {"plain", "attention", "access"}

VARIABLES
  filed,      \* .ces/contracts/<id>.json
  latest,     \* .ces/contracts/latest.json
  pages,      \* docs/contracts/<id>.md
  specs,      \* docs/specs/<id>.md
  making,     \* of each maker: the contract it is about to leave
  template,   \* the project has a template for specifications of intakes
  stories,    \* specifications that have a manifest, with its tier
  intended,   \* the completion contract: whether there is one, and whose delta
  running,    \* a build is between its two writes of it
  asking,     \* a proof card, or a preview, between its two reads
  told,       \* what a command has just said, until it is read
  order       \* history: the contracts, as they became the latest

intakeVars == <<filed, latest, pages, specs, making, template, stories,
                intended, running, asking, told, order>>

Ids == 1..MaxContracts

Texts == [words : Hints, objective : BOOLEAN]

NoContractYet == [id |-> 0, of |-> "none"]

IdleMaker == [at |-> "idle", contract |-> NoContractYet]

(* Whose delta: none, that of the brief, or that of an execution contract. *)
NoWords == [from |-> "none", id |-> 0]

NothingIntended == [there |-> FALSE, words |-> NoWords]

NotAsking == [command |-> "none", words |-> NoWords, id |-> 0]

NothingTold == [command |-> "none", says |-> "none", words |-> NoWords, id |-> 0]

IntakeInit ==
  /\ filed = {} /\ latest = NoContractYet /\ pages = {} /\ specs = {}
  /\ making = [p \in Makers |-> IdleMaker]
  /\ template = FALSE /\ stories = {}
  /\ intended = NothingIntended /\ running = FALSE
  /\ asking = NotAsking /\ told = NothingTold /\ order = <<>>

-----------------------------------------------------------------------------
(* Making a contract.                                                      *)

Used == {c.id : c \in filed} \cup {making[p].contract.id : p \in Makers}

(* The text is read and normalized.  Criteria, evidence and the delta have *)
(* defaults; a contract has a random part in its id.                       *)
Normalize(p) ==
  /\ making[p].at = "idle"
  /\ \E text \in Texts, id \in Ids :
       /\ id \notin Used /\ \A lower \in 1..(id - 1) : lower \in Used
       /\ making' = [making EXCEPT ![p] = [at |-> "json", contract |-> [id |-> id, of |-> text]]]
  /\ UNCHANGED <<filed, latest, pages, specs, template, stories, intended, running, asking,
                 told, order>>

Goto(p, at) == making' = [making EXCEPT ![p].at = at]

(* Faulty variants, used by mutants of PROJECT.json only: the copy is      *)
(* written first, the contract after it.                                   *)
WriteLatestToo(p) ==
  /\ making[p].at = "json"
  /\ latest' = making[p].contract
  /\ order' = Append(order, making[p].contract.id)
  /\ Goto(p, "latest")
  /\ UNCHANGED <<filed, pages, specs, template, stories, intended, running, asking, told>>

WriteJson(p) ==
  /\ making[p].at = "json"
  /\ filed' = filed \cup {making[p].contract}
  /\ Goto(p, "latest")
  /\ UNCHANGED <<latest, pages, specs, template, stories, intended, running, asking, told, order>>

WriteLatest(p) ==
  /\ making[p].at = "latest"
  /\ latest' = making[p].contract
  /\ order' = Append(order, making[p].contract.id)
  /\ Goto(p, "page")
  /\ UNCHANGED <<filed, pages, specs, template, stories, intended, running, asking, told>>

WritePage(p) ==
  /\ making[p].at = "page"
  /\ pages' = pages \cup {making[p].contract.id}
  /\ Goto(p, "spec")
  /\ UNCHANGED <<filed, latest, specs, template, stories, intended, running, asking, told, order>>

(* Approval is called safe when the contract lacks nothing: an objective   *)
(* is the one thing that has no default.                                   *)
Safe(contract) == IF contract.of.objective THEN "safe" ELSE "unsafe"

WriteSpec(p) ==
  /\ making[p].at = "spec"
  /\ specs' = specs \cup {making[p].contract.id}
  /\ making' = [making EXCEPT ![p] = IdleMaker]
  /\ told' = [NothingTold EXCEPT !.command = "intake", !.says = Safe(making[p].contract),
                                 !.id = making[p].contract.id]
  /\ UNCHANGED <<filed, latest, pages, template, stories, intended, running, asking, order>>

(* A write that raises ends the command as well.                           *)
MakerDies(p) ==
  /\ making[p].at \in {"json", "latest", "page", "spec"}
  /\ Goto(p, "dead")
  /\ UNCHANGED <<filed, latest, pages, specs, template, stories, intended, running, asking,
                 told, order>>

-----------------------------------------------------------------------------
(* The specification of a contract.                                        *)

(* Its signals: words of access in the objective mean tier A, words that   *)
(* ask for attention anywhere a whole module and tier B.                   *)
SpecTier(contract) ==
  CASE contract.of.words = "access"    -> "A"
    [] contract.of.words = "attention" -> "B"
    [] OTHER                           -> "C"

(* The user adds the template that the specification asks for.             *)
AddTemplate ==
  /\ ~template /\ template' = TRUE
  /\ UNCHANGED <<filed, latest, pages, specs, making, stories, intended, running, asking,
                 told, order>>

(* `ces spec decompose` validates against the template the specification   *)
(* names, "intake-execution-contract", and the program brings "default"    *)
(* only: the error is not one it expects.  A story without a title is not  *)
(* read as one, and then no manifest is written.  A second manifest that   *)
(* is forced is not told apart from the first.                             *)
DecomposeSpec ==
  \E c \in filed, force \in BOOLEAN :
    LET known == \E s \in stories : s.id = c.id
    IN  /\ c.id \in specs
        /\ stories' = IF template /\ c.of.objective /\ (force \/ ~known)
                      THEN stories \cup {[id |-> c.id, tier |-> SpecTier(c)]} ELSE stories
        /\ told' = [NothingTold EXCEPT !.command = "decompose", !.id = c.id, !.says =
                      IF ~template THEN "template not found"
                      ELSE IF known /\ ~force THEN "has manifests" ELSE "written"]
        /\ UNCHANGED <<filed, latest, pages, specs, making, template, intended, running,
                       asking, order>>

(* `ces build --from-contract` reads where the specification of the latest *)
(* contract is ...                                                         *)
PreviewLatest ==
  /\ asking = NotAsking /\ latest # NoContractYet
  /\ asking' = [NotAsking EXCEPT !.command = "preview", !.id = latest.id]
  /\ UNCHANGED <<filed, latest, pages, specs, making, template, stories, intended, running,
                 told, order>>

(* ... and shows the build order of its manifests.                         *)
Preview ==
  /\ asking.command = "preview"
  /\ told' = [NothingTold EXCEPT !.command = "preview", !.id = asking.id, !.says =
                IF asking.id \notin specs THEN "spec not found"
                ELSE IF ~\E s \in stories : s.id = asking.id THEN "decompose first"
                ELSE "order"]
  /\ asking' = NotAsking
  /\ UNCHANGED <<filed, latest, pages, specs, making, template, stories, intended, running, order>>

(* `ces intake review`, of a contract by its id or of the latest.          *)
ReviewContract ==
  \E c \in filed \cup ({latest} \ {NoContractYet}) :
    /\ told' = [NothingTold EXCEPT !.command = "review", !.says = Safe(c), !.id = c.id]
    /\ UNCHANGED <<filed, latest, pages, specs, making, template, stories, intended, running,
                   asking, order>>

-----------------------------------------------------------------------------
(* Builds and proof cards.                                                 *)

(* The delta of a build: that of the latest contract, which always has     *)
(* one, or else what the user said must not break.                         *)
DeltaOf(guarded) ==
  IF latest # NoContractYet THEN [from |-> "intake", id |-> latest.id]
  ELSE IF guarded THEN [from |-> "brief", id |-> 0]
  ELSE NoWords

(* `ces build` writes its completion contract before the agent runs, and   *)
(* once more when it has ended.                                            *)
BeginBuild ==
  /\ ~running /\ running' = TRUE
  /\ \E guarded \in BOOLEAN : intended' = [there |-> TRUE, words |-> DeltaOf(guarded)]
  /\ UNCHANGED <<filed, latest, pages, specs, making, template, stories, asking, told, order>>

EndBuild ==
  /\ running /\ running' = FALSE
  /\ \/ intended' = [intended EXCEPT !.words = DeltaOf(intended.words.from = "brief")]
     \/ UNCHANGED intended   \* the build ended early
  /\ UNCHANGED <<filed, latest, pages, specs, making, template, stories, asking, told, order>>

(* The proof card reads the completion contract ...                        *)
BeginProof ==
  /\ asking = NotAsking /\ intended # NothingIntended
  /\ asking' = [NotAsking EXCEPT !.command = "proof", !.words = intended.words]
  /\ UNCHANGED <<filed, latest, pages, specs, making, template, stories, intended, running,
                 told, order>>

(* ... then the latest contract, which it names, and whose delta it shows  *)
(* if there is no other.                                                   *)
ShowProof ==
  /\ asking.command = "proof"
  /\ told' = [NothingTold EXCEPT !.command = "proof", !.id = latest.id,
                !.words = IF asking.words = NoWords THEN DeltaOf(FALSE) ELSE asking.words]
  /\ asking' = NotAsking
  /\ UNCHANGED <<filed, latest, pages, specs, making, template, stories, intended, running, order>>

(* The user reads what a command said; nothing else moves meanwhile.       *)
Heard ==
  /\ told' = NothingTold
  /\ UNCHANGED <<filed, latest, pages, specs, making, template, stories, intended, running,
                 asking, order>>

IntakeStep ==
  \/ \E p \in Makers :
       \/ Normalize(p) \/ WriteJson(p) \/ WriteLatest(p) \/ WritePage(p) \/ WriteSpec(p)
       \/ MakerDies(p)
  \/ AddTemplate \/ DecomposeSpec \/ PreviewLatest \/ Preview \/ ReviewContract
  \/ BeginBuild \/ EndBuild \/ BeginProof \/ ShowProof

IntakeNext ==
  \/ told # NothingTold /\ Heard
  \/ told = NothingTold /\ IntakeStep

IntakeSpec == IntakeInit /\ [][IntakeNext]_intakeVars

-----------------------------------------------------------------------------
(* Properties.                                                             *)

IntakeTypeOK ==
  /\ filed \subseteq [id : Ids, of : Texts] /\ pages \cup specs \subseteq Ids
  /\ making \in [Makers -> [at : {"idle", "json", "latest", "page", "spec", "dead"},
                            contract : [id : Ids, of : Texts] \cup {NoContractYet}]]
  /\ \A s \in stories : s.id \in specs

\* However commands interleave and die, the latest contract is one that can be
\* loaded by its id, and a specification belongs to a contract that is there.
NothingDangles ==
  /\ latest = NoContractYet \/ latest \in filed
  /\ \A id \in specs : id \in pages /\ \E c \in filed : c.id = id

\* When no intake is under way and none broke off, every contract, the latest
\* one too, has the specification that a preview looks for.
WholeWhenIdle ==
  (\A p \in Makers : making[p].at = "idle") => specs = {c.id : c \in filed}

\* Position of a contract in the order in which they became the latest.
Turn(id) == SelectInSeq(order, LAMBDA other : other = id)

\* A proof card never shows the delta of a contract that came after the one it
\* names: what it calls the intake is at least as new as what it rests on.
ProofInOrder ==
  told.command = "proof" /\ told.words.from = "intake" => Turn(told.words.id) <= Turn(told.id)

\* What intakes leave behind hangs together (contracts.py, save, and
\* proof_card.py, build_proof_card).
IntakeSound == IntakeTypeOK /\ NothingDangles /\ WholeWhenIdle /\ ProofInOrder

\* The specification an intake generates can be decomposed, as docs/Intake.md:30
\* says it can.
SidecarDecomposes == told.says # "template not found"

=============================================================================
