--------------------------- MODULE LegacyRegister ---------------------------
(***************************************************************************)
(* The register of observed legacy behaviors and the brownfield review of  *)
(* a builder session that fills it.  Two kinds of actors share state.db:   *)
(*                                                                         *)
(*   - the builder (ces build, ces continue) asks the user about each      *)
(*     candidate behavior, group by group, registers and reviews an entry  *)
(*     for it, and keeps a checkpoint in the session so that an            *)
(*     interrupted review resumes where it stopped;                        *)
(*   - users give ces brownfield register, review, promote and discard.    *)
(*                                                                         *)
(* Every access to the database is one action and commands die between any *)
(* two of them.  Builders do not overlap here (BuilderSession is about     *)
(* that), and the audit entry that ends each command is in AuditLedger.    *)
(***************************************************************************)
EXTENDS Integers, Sequences, FiniteSets

CONSTANTS
  Users,        \* processes of ces brownfield
  Groups,       \* number of candidates in each group of the review
  Dispositions, \* the verdicts of a review
  MaxEntries,   \* bound on the entries
  MaxCommands,  \* bound on the commands of users
  MaxRuns,      \* bound on the builds and continues
  MaxDeaths     \* bound on the processes that are killed

ASSUME RegisterConstants ==
  /\ IsFiniteSet(Users) /\ "builder" \notin Users
  /\ Groups \in Seq(Nat \ {0})
  /\ "retire" \in Dispositions /\ "none" \notin Dispositions
  /\ {MaxEntries, MaxCommands, MaxRuns, MaxDeaths} \subseteq Nat

VARIABLES
  entries,      \* legacy_behaviors, oldest first
  prl,          \* prl_items
  session,      \* what the builder session says of the review
  builder,      \* the build or continue at work
  users,        \* the command each user's process is in
  issued,       \* PRL ids drawn so far
  commands, runs, deaths,
  raced,        \* history: entries two commands worked on at the same time
  missed        \* history: a builder ended between brief and first checkpoint

stored == <<entries, prl, session>>
counts == <<commands, runs, deaths>>
legacyVars == <<stored, builder, users, issued, counts, raced, missed>>

Candidates == UNION {{<<g, i>> : i \in 1..Groups[g]} : g \in DOMAIN Groups}

Other == <<0, 0>>      \* a behavior outside the builder's candidates

LegacyEntries ==
  [about : Candidates \cup {Other}, disposition : Dispositions \cup {"none"},
   promoted : 0..MaxCommands,   \* promoted_to_prl_id, 0 for None
   discarded : BOOLEAN]

NewEntry(about) == [about |-> about, disposition |-> "none",
                    promoted |-> 0, discarded |-> FALSE]

(* A position of the review: the next item of a group.                     *)
FirstStop == <<1, 1>>

Checkpoints ==
  [at : (1..Len(Groups) + 1) \X Nat, reviewed : SUBSET Candidates,
   ids : SUBSET (1..MaxEntries), asked : SUBSET DOMAIN Groups]

NoCheckpoint == [at |-> FirstStop, reviewed |-> {}, ids |-> {}, asked |-> {}]

(* "saved" tells a stored checkpoint from brownfield_review_state = None.  *)
Sessions ==
  [saved : BOOLEAN, review : Checkpoints,
   last : {"brief_captured", "execution_started", "review_in_progress",
           "review_completed", "other"},
   next : {"run", "review_brownfield", "review_evidence"}]

BuilderLabels == {"idle", "mark", "ask_save", "ask", "register", "review",
                  "verdict", "advance", "finish", "launch"}

Builders ==
  [pc : BuilderLabels, resumed : BOOLEAN, must : BOOLEAN,
   review : Checkpoints, stop : (0..Len(Groups) + 1) \X Nat,
   entry : 0..MaxEntries]

RestingBuilder == [pc |-> "idle", resumed |-> FALSE, must |-> FALSE,
                   review |-> NoCheckpoint, stop |-> <<0, 0>>, entry |-> 0]

NoCommand == [pc |-> "idle", entry |-> 0, item |-> 0]

LegacyTypeOK ==
  /\ entries \in Seq(LegacyEntries) /\ Len(entries) <= MaxEntries
  /\ prl \subseteq [id : 1..issued, entry : DOMAIN entries]
  /\ session \in Sessions /\ builder \in Builders
  /\ users \in [Users -> [pc : {"idle", "verdict", "mark", "save_item", "retire"},
                          entry : 0..Len(entries), item : 0..issued]]
  /\ issued \in 0..commands
  /\ commands \in 0..MaxCommands /\ runs \in 0..MaxRuns /\ deaths \in 0..MaxDeaths
  /\ raced \subseteq DOMAIN entries /\ missed \in BOOLEAN

LegacyInit ==
  /\ entries = <<>> /\ prl = {} /\ issued = 0
  /\ session = [saved |-> FALSE, review |-> NoCheckpoint,
                last |-> "brief_captured", next |-> "run"]
  /\ builder = RestingBuilder
  /\ users = [u \in Users |-> NoCommand]
  /\ commands = 0 /\ runs = 0 /\ deaths = 0
  /\ raced = {} /\ missed = FALSE

-----------------------------------------------------------------------------
(* The store                                                               *)

(* save_legacy_behavior_row, for an entry that is new.                     *)
SaveEntry(about) ==
  /\ Len(entries) < MaxEntries
  /\ entries' = Append(entries, NewEntry(about))

(* update_legacy_behavior_disposition writes its columns and no other.     *)
UpdateDisposition(e, d) == entries' = [entries EXCEPT ![e].disposition = d]

MarkPromoted(e, item) == entries' = [entries EXCEPT ![e].promoted = item]

(* What a command requires of the row it reads.                            *)
Reviewable(e) == entries[e].disposition = "none"

Promotable(e) ==
  /\ entries[e].disposition # "none"
  /\ ~entries[e].discarded
  /\ entries[e].promoted = 0

Discardable(e) == entries[e].promoted = 0

-----------------------------------------------------------------------------
(* ces brownfield                                                          *)

GivesCommand(u) ==
  /\ users[u].pc = "idle"
  /\ commands < MaxCommands /\ commands' = commands + 1
  /\ UNCHANGED <<session, builder, runs, deaths>>

ReadsEntry(u, e, label, item) ==
  /\ GivesCommand(u)
  /\ users' = [users EXCEPT ![u] = [pc |-> label, entry |-> e, item |-> item]]
  /\ UNCHANGED <<entries, prl>>

Returns(u) == users' = [users EXCEPT ![u] = NoCommand]

Register(u) ==
  /\ GivesCommand(u)
  /\ SaveEntry(Other)
  /\ UNCHANGED <<prl, users, issued>>

Review(u, e) ==
  Reviewable(e) /\ ReadsEntry(u, e, "verdict", 0) /\ UNCHANGED issued

Promote(u, e) ==
  /\ Promotable(e)
  /\ issued' = issued + 1
  /\ ReadsEntry(u, e, "mark", issued')

Discard(u, e) ==
  Discardable(e) /\ ReadsEntry(u, e, "retire", 0) /\ UNCHANGED issued

Verdict(u, d) ==
  /\ users[u].pc = "verdict"
  /\ UpdateDisposition(users[u].entry, d)
  /\ Returns(u)
  /\ UNCHANGED <<prl, session, builder, issued, counts>>

Mark(u) ==
  /\ users[u].pc = "mark"
  /\ MarkPromoted(users[u].entry, users[u].item)
  /\ users' = [users EXCEPT ![u].pc = "save_item"]
  /\ UNCHANGED <<prl, session, builder, issued, counts>>

(* save_prl_item, after the back-reference.                                *)
SaveItem(u) ==
  /\ users[u].pc = "save_item"
  /\ prl' = prl \cup {[id |-> users[u].item, entry |-> users[u].entry]}
  /\ Returns(u)
  /\ UNCHANGED <<entries, session, builder, issued, counts>>

(* Faulty variant, used by a mutant of PROJECT.json only: the row as it    *)
(* was read is stored again.                                               *)
RetireWholeRow(u) ==
  /\ users[u].pc = "retire"
  /\ entries' = [entries EXCEPT ![users[u].entry] =
       [@ EXCEPT !.disposition = "retire", !.discarded = TRUE, !.promoted = 0]]
  /\ Returns(u)
  /\ UNCHANGED <<prl, session, builder, issued, counts>>

(* The record the store returns is frozen: setting discarded on it raises, *)
(* so the verdict is stored and the flag is not.                           *)
Retire(u) ==
  /\ users[u].pc = "retire"
  /\ UpdateDisposition(users[u].entry, "retire")
  /\ Returns(u)
  /\ UNCHANGED <<prl, session, builder, issued, counts>>

UserStep(u) ==
  \/ Register(u)
  \/ \E e \in DOMAIN entries : Review(u, e) \/ Promote(u, e) \/ Discard(u, e)
  \/ \E d \in Dispositions : Verdict(u, d)
  \/ Mark(u) \/ SaveItem(u) \/ Retire(u)

-----------------------------------------------------------------------------
(* ces build and ces continue of a brownfield request                      *)

Before(a, b) == a[1] < b[1] \/ (a[1] = b[1] /\ a[2] < b[2])

(* What the review still asks from where it is: the default of a group,    *)
(* <<g, 0>>, and its items.                                                *)
Stops(r) ==
  {<<g, 0>> : g \in {g \in DOMAIN Groups \ r.asked : g >= r.at[1]}} \cup
  {c \in Candidates \ r.reviewed : ~Before(c, r.at)}

Proceed(b) ==
  LET stops == Stops(b.review)
  IN  IF stops = {}
      THEN builder' = [b EXCEPT !.pc = "finish", !.stop = <<0, 0>>, !.entry = 0]
      ELSE builder' = [b EXCEPT !.pc = "ask_save", !.entry = 0,
             !.stop = CHOOSE s \in stops : \A t \in stops : ~Before(t, s)]

BuilderAt(label) == builder.pc = label /\ UNCHANGED <<prl, users, issued>>

(* should_run_brownfield_review                                            *)
ShouldReview(s) ==
  s.saved \/ s.next = "review_brownfield" \/ s.last = "brief_captured"

(* The command reads the session; only a session that waits for its review *)
(* keeps its manifest.                                                     *)
BeginBuild ==
  /\ BuilderAt("idle")
  /\ runs < MaxRuns /\ runs' = runs + 1
  /\ builder' = [RestingBuilder EXCEPT !.pc = "mark",
                   !.resumed = session.next = "review_brownfield",
                   !.must = ShouldReview(session), !.review = session.review]
  /\ UNCHANGED <<stored, commands, deaths>>

(* No runtime is installed, or its side effects are not accepted.          *)
RuntimeBlocked ==
  /\ BuilderAt("mark")
  /\ session' = [session EXCEPT !.last = "other", !.next = "run"]
  /\ builder' = RestingBuilder
  /\ UNCHANGED <<entries, counts>>

(* The session says running before its review has begun; whether there is  *)
(* one is decided on the session as it was read.                           *)
MarkRunning ==
  /\ BuilderAt("mark")
  /\ session' = [session EXCEPT !.last = "execution_started",
                                !.next = "review_evidence"]
  /\ IF builder.must THEN Proceed(builder)
     ELSE builder' = [builder EXCEPT !.pc = "launch"]
  /\ UNCHANGED <<entries, prl, counts>>

Position(stop) == IF stop[2] = 0 THEN <<stop[1], 1>> ELSE stop

SaveCheckpoint(review) ==
  session' = [session EXCEPT !.saved = TRUE, !.review = review,
                !.last = "review_in_progress", !.next = "review_brownfield"]

SaveBeforeAsking ==
  /\ BuilderAt("ask_save")
  /\ LET review == [builder.review EXCEPT !.at = Position(builder.stop)]
     IN  SaveCheckpoint(review)
         /\ builder' = [builder EXCEPT !.pc = "ask", !.review = review]
  /\ UNCHANGED <<entries, counts>>

(* The user answers: the default of a group, or an item.                   *)
Answer ==
  /\ BuilderAt("ask")
  /\ IF builder.stop[2] = 0
     THEN Proceed([builder EXCEPT !.review.asked = @ \cup {builder.stop[1]}])
     ELSE builder' = [builder EXCEPT !.pc = "register",
                                     !.review.reviewed = @ \cup {builder.stop}]
  /\ UNCHANGED <<stored, counts>>

RegisterCandidate ==
  /\ BuilderAt("register")
  /\ SaveEntry(builder.stop)
  /\ builder' = [builder EXCEPT !.pc = "review", !.entry = Len(entries')]
  /\ UNCHANGED <<session, counts>>

(* review_behavior raises, and the command with it, if somebody reviewed   *)
(* the new entry first.                                                    *)
ReviewCandidate ==
  /\ BuilderAt("review")
  /\ builder' = IF Reviewable(builder.entry)
                THEN [builder EXCEPT !.pc = "verdict"] ELSE RestingBuilder
  /\ UNCHANGED <<stored, counts>>

VerdictOfCandidate(d) ==
  /\ BuilderAt("verdict")
  /\ UpdateDisposition(builder.entry, d)
  /\ builder' = [builder EXCEPT !.pc = "advance", !.entry = 0,
                                !.review.ids = @ \cup {builder.entry}]
  /\ UNCHANGED <<session, counts>>

(* Faulty variant, used by a mutant of PROJECT.json only: the last item of *)
(* a group is taken for the next group.                                    *)
AfterEarly(c) ==
  IF c[2] + 1 < Groups[c[1]] THEN <<c[1], c[2] + 1>> ELSE <<c[1] + 1, 1>>

(* _advance_review_position                                                *)
After(c) == IF c[2] < Groups[c[1]] THEN <<c[1], c[2] + 1>> ELSE <<c[1] + 1, 1>>

AdvanceReview ==
  /\ BuilderAt("advance")
  /\ LET review == [builder.review EXCEPT !.at = After(builder.stop)]
     IN  SaveCheckpoint(review) /\ Proceed([builder EXCEPT !.review = review])
  /\ UNCHANGED <<entries, counts>>

FinishReview ==
  /\ BuilderAt("finish")
  /\ session' = [saved |-> FALSE, review |-> NoCheckpoint,
                 last |-> "review_completed", next |-> "review_evidence"]
  /\ builder' = [builder EXCEPT !.pc = "launch"]
  /\ UNCHANGED <<entries, counts>>

(* The manifest goes in flight and the run sooner or later replaces        *)
(* last_action.  The manifest of a resumed review is a row of the store,   *)
(* which cannot be saved: that command raises here.                        *)
Launch ==
  /\ BuilderAt("launch")
  /\ session' = IF builder.resumed THEN session
                ELSE [session EXCEPT !.last = "other"]
  /\ builder' = RestingBuilder
  /\ UNCHANGED <<entries, counts>>

(* The user leaves at the question.                                        *)
Pause ==
  /\ BuilderAt("ask") /\ builder' = RestingBuilder /\ UNCHANGED <<stored, counts>>

BuilderStep ==
  \/ BeginBuild \/ RuntimeBlocked \/ MarkRunning \/ SaveBeforeAsking \/ Answer \/ Pause
  \/ RegisterCandidate \/ ReviewCandidate \/ AdvanceReview \/ FinishReview \/ Launch
  \/ \E d \in Dispositions : VerdictOfCandidate(d)

-----------------------------------------------------------------------------

Dies == deaths < MaxDeaths /\ deaths' = deaths + 1 /\ UNCHANGED <<stored, issued, commands, runs>>

UserDies(u) ==
  users[u].pc # "idle" /\ Dies /\ Returns(u) /\ UNCHANGED builder

BuilderDies ==
  builder.pc # "idle" /\ Dies /\ builder' = RestingBuilder /\ UNCHANGED users

(* The builder ends when its session no longer says brief_captured and     *)
(* holds no checkpoint yet.                                                *)
Misses ==
  /\ builder.pc \in {"mark", "ask_save"} /\ builder.must
  /\ builder'.pc = "idle" /\ ~session'.saved /\ session'.last # "brief_captured"

Workers(e) ==
  {u \in Users : users[u].entry = e} \cup {b \in {"builder"} : builder.entry = e}

LegacyNext ==
  /\ \/ BuilderStep \/ BuilderDies
     \/ \E u \in Users : UserStep(u) \/ UserDies(u)
  /\ raced' = raced \cup {e \in DOMAIN entries : Cardinality(Workers(e)') > 1}
  /\ missed' = (missed \/ Misses)

LegacySpec == LegacyInit /\ [][LegacyNext]_legacyVars

-----------------------------------------------------------------------------

(* Nothing becomes product truth that no human has reviewed, however the   *)
(* commands overlap and wherever they die (BROWN-02, BROWN-03).            *)
TruthIsReviewed ==
  \A item \in prl : entries[item.entry].disposition # "none"

(* A promotion is one back-reference and one item.  Without a kill every   *)
(* back-reference has its item as soon as the command has ended, and an    *)
(* entry on which no two commands overlapped has no item but that one.     *)
PromotionWhole ==
  /\ \A e \in DOMAIN entries :
       entries[e].promoted > 0 /\ deaths = 0 =>
         \/ \E item \in prl : item.id = entries[e].promoted /\ item.entry = e
         \/ \E u \in Users : users[u].pc = "save_item" /\ users[u].entry = e
  /\ \A item \in prl :
       item.entry \in raced \/ entries[item.entry].promoted = item.id

RegisterSound == TruthIsReviewed /\ PromotionWhole

(* The register keeps what it learnt: a promotion is never undone, and an  *)
(* entry on which no two commands overlapped is settled once promoted and  *)
(* changes its verdict only to be retired.                                 *)
Settled ==
  [][\A e \in DOMAIN entries :
       LET old == entries[e] new == entries'[e]
       IN  /\ old.promoted > 0 => new.promoted > 0
           /\ e \notin raced' =>
                /\ old.promoted > 0 => new = old
                /\ old.disposition # "none" =>
                     new.disposition \in {old.disposition, "retire"}]_legacyVars

Reviewed(c) ==
  \E e \in DOMAIN entries : entries[e].about = c /\ entries[e].disposition # "none"

(* A checkpoint claims no answer that is not in the register, so that a    *)
(* resumed review skips nothing that was lost.                             *)
CheckpointHonest ==
  /\ \A c \in session.review.reviewed : Reviewed(c)
  /\ \A e \in session.review.ids : entries[e].disposition # "none"

(* An agent is let loose on an existing system only after every candidate  *)
(* behavior was reviewed, whatever interrupts the review once its first    *)
(* checkpoint is stored.                                                   *)
LaunchReviewed ==
  builder.pc = "launch" /\ ~missed => \A c \in Candidates : Reviewed(c)

(* Leaving at a question costs nothing: without a kill or a verdict of     *)
(* somebody else no candidate is registered twice.                         *)
AskedOnce ==
  deaths = 0 /\ raced = {} =>
    \A c \in Candidates :
      Cardinality({e \in DOMAIN entries :
                     entries[e].about = c /\ entries[e].disposition # "none"}) <= 1

(* What the review of existing behavior promises, whoever interrupts it.   *)
ReviewHonest == CheckpointHonest /\ LaunchReviewed /\ AskedOnce

(* What is decided about existing behavior is in the register once, and a  *)
(* review claims no more than that.                                        *)
LegacySound == LegacyTypeOK /\ RegisterSound /\ ReviewHonest
=============================================================================
