--------------------------- MODULE KnowledgeVault ---------------------------
(***************************************************************************)
(* The notes of the knowledge vault: written, trusted more or less,        *)
(* deleted, invalidated when an artifact they rest on changes, and faded   *)
(* with time (vault_service.py, trust_decay.py), while other callers do    *)
(* the same; what is found, filtered, and picked for a prompt              *)
(* (vault_query_filter.py, note_ranker.py).                                *)
(*                                                                         *)
(* The repository of notes is not in the source: it is taken for a table   *)
(* whose calls are atomic, which may or may not date a note anew when its  *)
(* level changes.  The commands of the program have none at all, and then  *)
(* a note is announced and audited, but not kept.                          *)
(***************************************************************************)
EXTENDS Integers, FiniteSets, Sequences

CONSTANTS
  Keepers,        \* callers of the vault
  MaxNotes,       \* bound on the notes ever written
  MaxDeeds,       \* bound on the calls
  NoteCategories, \* categories that are written
  Dates           \* days on which something happens

FadesAfter ==  \* days
  [decisions |-> 90, patterns |-> 60, escapes |-> 30, discovery |-> 30, calibration |-> 45,
   harness |-> 60, domain |-> 90, stakeholders |-> 90, sessions |-> 14]

ASSUME VaultBounds ==
  /\ MaxNotes \in Nat /\ MaxDeeds \in Nat
  /\ NoteCategories \subseteq DOMAIN FadesAfter /\ Dates \subseteq Nat /\ 0 \in Dates

-----------------------------------------------------------------------------
(* What is found.  A note speaks of policy in so many words.               *)

Levels == {"verified", "inferred", "stale"}
IsPolicyAdjacent(category, words) == IF category = "decisions" THEN words >= 1 ELSE words >= 2
FilterInformational(found) == {n \in found : ~IsPolicyAdjacent(n.category, n.words)}

(* share is the percentage of the words of a question that a note has.     *)
FindVerifiedAnswer(found) ==
  {n \in found : /\ n.level = "verified" /\ n.share > 30
                 /\ \A m \in found : m.level = "verified" => m.share <= n.share}

(* What a prompt gets: notes in the order of their score (times 730), and  *)
(* of two with the same score the one that was listed first.               *)
TrustWeight == [verified |-> 2190, inferred |-> 1095, stale |-> 0]
Score(note) ==
  TrustWeight[note.level] + 730 * note.overlap + (IF note.age < 365 THEN 365 - note.age ELSE 0)
RankedBefore(list, i, j) ==
  Score(list[i]) > Score(list[j]) \/ (Score(list[i]) = Score(list[j]) /\ i < j)

TierLimits == [C |-> 10, B |-> 5, A |-> 3]
SelectForTier(list, tier) ==
  LET active == {i \in DOMAIN list : list[i].level # "stale"} IN
  {i \in active : Cardinality({j \in active : RankedBefore(list, j, i)}) < TierLimits[tier]}

-----------------------------------------------------------------------------
VARIABLES
  notes,     \* the table
  vaultLog,  \* notes whose creation is in the ledger
  lost,      \* history: notes whose creation a death kept out of the ledger
  keepers,   \* what each caller is doing
  date,
  deeds,     \* calls so far
  stocked    \* there is a repository

vaultVars == <<notes, vaultLog, lost, keepers, date, deeds, stocked>>

NoteIds == 1..MaxNotes
NoNote == [category |-> "none", level |-> "stale", related |-> FALSE, words |-> 0, dated |-> 0]

(* rows: what was read of the table and is not dealt with yet, as pairs of *)
(* a note and the level it had; touched: notes others changed since.       *)
NoDeed == [at |-> "idle", deed |-> "none", note |-> 0, rows |-> {}, left |-> {}, touched |-> {}]

VaultInit ==
  /\ notes = [n \in NoteIds |-> NoNote] /\ vaultLog = {} /\ lost = {}
  /\ keepers = [k \in Keepers |-> NoDeed] /\ date = 0 /\ deeds = 0 /\ stocked \in BOOLEAN

Exists(n) == notes[n] # NoNote
QueryVault(wanted) ==
  IF stocked THEN FilterInformational({notes[n] : n \in {m \in NoteIds : Exists(m) /\ wanted[m]}})
  ELSE {}
ShownOf(category) == QueryVault([n \in NoteIds |-> notes[n].category = category])

Doing(k, label) == keepers[k].at = label
Ready(k) == Doing(k, "idle") /\ deeds < MaxDeeds /\ deeds' = deeds + 1

\* k goes on as told, and everybody else's reading of n is out of date
Touch(k, n, next) ==
  keepers' = [j \in Keepers |->
    IF j = k THEN next
    ELSE IF Doing(j, "idle") THEN keepers[j] ELSE [keepers[j] EXCEPT !.touched = @ \cup {n}]]
Proceeds(k, next) == keepers' = [keepers EXCEPT ![k] = next]

NextNote(n) ==
  /\ ~Exists(n) /\ n \notin vaultLog \cup lost /\ \A k \in Keepers : keepers[k].note # n
  /\ \A m \in 1..(n - 1) : Exists(m) \/ m \in vaultLog \cup lost \/ \E k \in Keepers : keepers[k].note = m

\* the command of the program, which has no repository, never verifies
WrittenLevels == IF stocked THEN {"verified", "inferred"} ELSE {"inferred"}

WriteNote(k) ==
  \E n \in NoteIds, category \in NoteCategories, level \in WrittenLevels,
    related \in BOOLEAN, words \in 0..1 :
    /\ words = 0 \/ category = "decisions"
    /\ Ready(k) /\ NextNote(n)
    /\ notes' = IF stocked
                THEN [notes EXCEPT ![n] = [category |-> category, level |-> level,
                                           related |-> related, words |-> words, dated |-> date]]
                ELSE notes
    /\ Touch(k, n, [NoDeed EXCEPT !.at = "log", !.deed = "write", !.note = n])
    /\ UNCHANGED <<vaultLog, lost, date, stocked>>

AuditNote(k) ==
  /\ Doing(k, "log")
  /\ vaultLog' = vaultLog \cup {keepers[k].note} /\ Proceeds(k, NoDeed)
  /\ UNCHANGED <<notes, lost, date, deeds, stocked>>

(* update_trust_level of the repository.                                   *)
Releveled(n, level) ==
  \E day \in {notes[n].dated, date} :
    notes' = [notes EXCEPT ![n].level = level, ![n].dated = day]

UpdateTrustLevel(k) ==
  \E n \in NoteIds, level \in Levels :
    /\ Ready(k) /\ Exists(n)
    /\ Releveled(n, level) /\ Touch(k, n, NoDeed)
    /\ UNCHANGED <<vaultLog, lost, date, stocked>>

DeleteNote(k) ==
  \E n \in NoteIds :
    /\ Ready(k) /\ Exists(n)
    /\ notes' = [notes EXCEPT ![n] = NoNote] /\ Touch(k, n, NoDeed)
    /\ lost' = lost \cup ({n} \ vaultLog)
    /\ UNCHANGED <<vaultLog, date, stocked>>

-----------------------------------------------------------------------------
(* trigger_invalidation: the inferred notes, then the verified ones.       *)

RowsOf(level) == {<<n, level>> : n \in {m \in NoteIds : Exists(m) /\ notes[m].level = level}}

ReadInferred(k) ==
  /\ Ready(k) /\ stocked
  /\ Proceeds(k, [NoDeed EXCEPT !.at = "second", !.deed = "invalidate", !.rows = RowsOf("inferred")])
  /\ UNCHANGED <<notes, vaultLog, lost, date, stocked>>

ReadVerified(k) ==
  /\ Doing(k, "second")
  /\ Proceeds(k, [keepers[k] EXCEPT !.at = "rows", !.rows = @ \cup RowsOf("verified")])
  /\ UNCHANGED <<notes, vaultLog, lost, date, deeds, stocked>>

(* Every row that rests on the artifact, and is still there, turns stale.  *)
InvalidateRow(k) ==
  \E row \in keepers[k].rows :
    LET n == row[1]  rest == [keepers[k] EXCEPT !.rows = @ \ {row}] IN
    /\ Doing(k, "rows") /\ keepers[k].deed = "invalidate"
    /\ IF Exists(n) /\ notes[n].related
       THEN Releveled(n, "stale") /\ Touch(k, n, rest)
       ELSE UNCHANGED notes /\ Proceeds(k, rest)
    /\ UNCHANGED <<vaultLog, lost, date, deeds, stocked>>

(* decay_stale_notes: one category after the other, by the day it began.   *)
BeginDecay(k) ==
  /\ Ready(k) /\ stocked
  /\ Proceeds(k, [NoDeed EXCEPT !.at = "rows", !.deed = "decay", !.note = -date, !.left = NoteCategories])
  /\ UNCHANGED <<notes, vaultLog, lost, date, stocked>>

IsOld(note, day) == day - note.dated > FadesAfter[note.category]

ReadCategory(k) ==
  \E category \in keepers[k].left :
    LET found == {n \in NoteIds : Exists(n) /\ notes[n].category = category} IN
    /\ Doing(k, "rows") /\ keepers[k].rows = {}
    /\ Proceeds(k, [keepers[k] EXCEPT !.left = @ \ {category}, !.rows =
         {<<n, "inferred">> : n \in {m \in found : notes[m].level = "inferred"
                                                   /\ IsOld(notes[m], -keepers[k].note)}}])
    /\ UNCHANGED <<notes, vaultLog, lost, date, deeds, stocked>>

DecayRow(k) ==
  \E row \in keepers[k].rows :
    LET n == row[1]  rest == [keepers[k] EXCEPT !.rows = @ \ {row}] IN
    /\ Doing(k, "rows") /\ keepers[k].deed = "decay"
    /\ IF Exists(n) THEN Releveled(n, "stale") /\ Touch(k, n, rest)
       ELSE UNCHANGED notes /\ Proceeds(k, rest)
    /\ UNCHANGED <<vaultLog, lost, date, deeds, stocked>>

DeedDone(k) == Doing(k, "rows") /\ keepers[k].rows = {} /\ keepers[k].left = {}

Returned(k) ==
  /\ DeedDone(k) /\ Proceeds(k, NoDeed)
  /\ UNCHANGED <<notes, vaultLog, lost, date, deeds, stocked>>

KeeperDies(k) ==
  /\ ~Doing(k, "idle") /\ Proceeds(k, NoDeed)
  /\ lost' = lost \cup ({n \in NoteIds : Doing(k, "log") /\ n = keepers[k].note} \ vaultLog)
  /\ UNCHANGED <<notes, vaultLog, date, deeds, stocked>>

TimePasses ==
  /\ \E d \in Dates : d > date /\ date' = d
  /\ UNCHANGED <<notes, vaultLog, lost, keepers, deeds, stocked>>

VaultNext ==
  \/ \E k \in Keepers :
       \/ WriteNote(k) \/ AuditNote(k) \/ UpdateTrustLevel(k) \/ DeleteNote(k)
       \/ ReadInferred(k) \/ ReadVerified(k) \/ InvalidateRow(k)
       \/ BeginDecay(k) \/ ReadCategory(k) \/ DecayRow(k)
       \/ Returned(k) \/ KeeperDies(k)
  \/ TimePasses

VaultSpec == VaultInit /\ [][VaultNext]_vaultVars

-----------------------------------------------------------------------------
VaultTypeOK ==
  /\ \A n \in NoteIds : Exists(n) =>
       notes[n].category \in NoteCategories /\ notes[n].level \in Levels
       /\ notes[n].related \in BOOLEAN /\ notes[n].dated \in Dates
  /\ vaultLog \subseteq NoteIds /\ lost \subseteq NoteIds /\ date \in Dates
  /\ \A k \in Keepers : keepers[k].at \in {"idle", "log", "second", "rows"}

(* An invalidation that has come to its end left alone only what somebody  *)
(* else wrote or changed meanwhile (a note demoted between its two reads   *)
(* is in neither).                                                         *)
InvalidationWhole ==
  \A k \in Keepers : DeedDone(k) /\ keepers[k].deed = "invalidate" =>
    \A n \in NoteIds :
      Exists(n) /\ notes[n].related /\ notes[n].level # "stale" => n \in keepers[k].touched

(* A note that is kept is on record or its writer is at it or died, and no *)
(* query shows a decision that speaks of policy.                           *)
NotesOnRecord ==
  /\ \A n \in NoteIds : Exists(n) =>
       n \in vaultLog \cup lost \/ \E k \in Keepers : Doing(k, "log") /\ keepers[k].note = n
  /\ "decisions" \in NoteCategories => \A note \in ShownOf("decisions") : note.words = 0

(* Time takes the trust of a verified note only where it was verified      *)
(* after the decay had read it.                                            *)
VerifiedOutlives ==
  \A n \in NoteIds, k \in Keepers :
    Doing(k, "rows") /\ keepers[k].deed = "decay" /\ <<n, "inferred">> \in keepers[k].rows
    /\ Exists(n) /\ notes[n].level = "verified" => n \in keepers[k].touched

(* No stale note reaches a prompt, a higher risk never sees more, and a    *)
(* verified note gives way to an inferred one only for a shared tag more.  *)
Listed == [level : {"verified", "inferred"}, overlap : 0..1, age : {0, 400}]
            \cup [level : {"stale"}, overlap : {2}, age : {0}]
PromptsSound ==
  \A list \in [1..4 -> Listed] :
    LET few == SelectForTier(list, "A") IN
    /\ few \subseteq SelectForTier(list, "B") /\ Cardinality(few) <= 3
    /\ \A i \in few : /\ list[i].level # "stale"
                      /\ \A j \in DOMAIN list \ few :
                           list[j].level = "verified" /\ list[i].level = "inferred" =>
                             list[j].overlap < list[i].overlap

(* What answers a question without a person asked is verified, and if a    *)
(* query does not show it, then because it speaks of policy.               *)
Found == [category : {"decisions", "sessions"}, words : 0..2, level : Levels, share : {30, 31, 90}]
AnswersSound ==
  \A a, b \in Found : \A n \in FindVerifiedAnswer({a, b}) :
    /\ n.level = "verified"
    /\ n \notin FilterInformational({a, b}) => n.words >= (IF n.category = "decisions" THEN 1 ELSE 2)

(* The knowledge vault, whoever uses it at the same time.                  *)
VaultSound ==
  /\ PromptsSound /\ AnswersSound /\ VaultTypeOK
  /\ InvalidationWhole /\ NotesOnRecord /\ VerifiedOutlives
=============================================================================
