--------------------------- MODULE HarnessLessons ---------------------------
(***************************************************************************)
(* The lessons a harness has learnt: drafted from the analysis of a run,   *)
(* activated or archived by an operator, and put into the prompts of later *)
(* runs while they are active.  A draft is saved in one transaction; an    *)
(* activation or an archiving reads the lesson in one and saves it in      *)
(* another, and other commands may come between, or death.                 *)
(***************************************************************************)
EXTENDS Naturals, Sequences, SequencesExt

CONSTANTS
  Lessons,        \* named by the hash of their content
  Operators,      \* processes that run `ces harness memory`
  MaxActive       \* lessons a prompt may hold

ASSUME LessonConstants == MaxActive \in Nat \ {0}

VARIABLES
  shelf,        \* the stored lessons, the one saved last first
  standing,     \* the status of each lesson
  revising,     \* of each operator: the lesson read and the status to save
  decided,      \* the last decision that was saved on each lesson (history)
  prompt        \* the lessons in the prompt of the last run

lessonVars == <<shelf, standing, revising, decided, prompt>>

Idle == [lesson |-> "none", status |-> "none"]

LessonTypeOK ==
  /\ shelf \in Seq(Lessons) /\ IsInjective(shelf)
  /\ standing \in [Lessons -> {"absent", "draft", "active", "archived"}]
  /\ \A l \in Lessons : standing[l] = "absent" <=> l \notin ToSet(shelf)
  /\ revising \in [Operators ->
       [lesson : Lessons, status : {"active", "archived"}] \cup {Idle}]
  /\ decided \in [Lessons -> {"none", "active", "archived"}]
  /\ prompt \in Seq(Lessons) /\ Len(prompt) <= MaxActive

LessonInit ==
  /\ shelf = <<>> /\ standing = [l \in Lessons |-> "absent"]
  /\ revising = [p \in Operators |-> Idle]
  /\ decided = [l \in Lessons |-> "none"]
  /\ prompt = <<>>

-----------------------------------------------------------------------------

(* Faulty variant, used by a mutant of PROJECT.json only: what is saved    *)
(* already keeps its status, and a draft of an archived lesson renews it.  *)
KeptRevived(l, status) ==
  IF status = "draft" /\ standing[l] \in {"active", "archived"} THEN "active" ELSE status

(* A draft of a lesson that is active stays active; a draft of an archived *)
(* one is a draft again.                                                   *)
KeptStatus(l, status) ==
  IF status = "draft" /\ standing[l] = "active" THEN "active" ELSE status

(* Those of a list that are among these, in its order.                     *)
Keeping(list, these) ==
  LET kept[n \in 0..Len(list)] ==
        IF n = 0 THEN <<>>
        ELSE IF list[n] \in these THEN Append(kept[n - 1], list[n]) ELSE kept[n - 1]
  IN  kept[Len(list)]

SaveLesson(l, status) ==
  /\ shelf' = <<l>> \o Keeping(shelf, Lessons \ {l})
  /\ standing' = [standing EXCEPT ![l] = KeptStatus(l, status)]

DraftLesson(l) ==
  SaveLesson(l, "draft") /\ UNCHANGED <<revising, decided, prompt>>

ReadLesson(p, l, status) ==
  /\ revising[p] = Idle /\ standing[l] # "absent"
  /\ revising' = [revising EXCEPT ![p] = [lesson |-> l, status |-> status]]
  /\ UNCHANGED <<shelf, standing, decided, prompt>>

WriteLesson(p) ==
  /\ revising[p] # Idle
  /\ SaveLesson(revising[p].lesson, revising[p].status)
  /\ decided' = [decided EXCEPT ![revising[p].lesson] = revising[p].status]
  /\ revising' = [revising EXCEPT ![p] = Idle]
  /\ UNCHANGED prompt

OperatorDies(p) ==
  /\ revising[p] # Idle
  /\ revising' = [revising EXCEPT ![p] = Idle]
  /\ UNCHANGED <<shelf, standing, decided, prompt>>

SelectActive ==
  LET active == Keeping(shelf, {l \in Lessons : standing[l] = "active"})
  IN SubSeq(active, 1, IF Len(active) < MaxActive THEN Len(active) ELSE MaxActive)

StartRun ==
  prompt' = SelectActive /\ UNCHANGED <<shelf, standing, revising, decided>>

LessonNext ==
  \/ \E l \in Lessons : DraftLesson(l)
  \/ \E p \in Operators :
       \/ \E l \in Lessons, status \in {"active", "archived"} : ReadLesson(p, l, status)
       \/ WriteLesson(p) \/ OperatorDies(p)
  \/ StartRun

LessonSpec == LessonInit /\ [][LessonNext]_lessonVars

-----------------------------------------------------------------------------

(* No lesson reaches a prompt that an operator did not activate, or that   *)
(* one archived since, however often it is drafted anew and whatever other *)
(* commands do between the two transactions of an activation.              *)
ActiveWasActivated ==
  \A l \in Lessons : standing[l] = "active" => decided[l] = "active"

(* A prompt leaves an active lesson out only when it is full of lessons    *)
(* that are active, too.                                                   *)
PromptIsFull ==
  \A l \in Lessons : standing[l] = "active" /\ l \notin ToSet(SelectActive) =>
    Len(SelectActive) = MaxActive

LessonsSafe == LessonTypeOK /\ ActiveWasActivated /\ PromptIsFull
=============================================================================
