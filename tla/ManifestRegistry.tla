-------------------------- MODULE ManifestRegistry --------------------------
(***************************************************************************)
(* How a manifest comes to be: the rating of a request, the audit entry    *)
(* and the row of the new manifest, its signature, the time it may live,   *)
(* and its first launch.  Commands overlap and die between any two writes. *)
(* A command reads the row of a manifest once and writes its whole copy    *)
(* back.  What happens to a manifest under way is ManifestLifecycle; here  *)
(* a command just ends with one of the states it can store.                *)
(*                                                                         *)
(* How similar a request is to a rule of the table is a score from 0 to    *)
(* 100, and any rule may be the most similar one.                          *)
(***************************************************************************)
EXTENDS Integers, FiniteSets, Sequences

CONSTANTS
  Clerks,        \* processes that run a command each
  MaxManifests,  \* bound on the manifests ever begun
  SampledRules,  \* rules of the table that requests come close to
  StoryRadii,    \* radii of change of the stories that are decomposed
  Scores,        \* similarities that occur
  Days           \* days on which something happens

ASSUME RegistryBounds ==
  /\ MaxManifests \in Nat /\ SampledRules \subseteq 1..38
  /\ StoryRadii \subseteq {"isolated", "module", "system", "cross-cutting"}
  /\ Scores \subseteq 0..100 /\ Days \subseteq Nat /\ 0 \in Days

-----------------------------------------------------------------------------
(* Ratings: risk tier (C < B < A), behavior confidence, change class.      *)

Tiers == {"A", "B", "C"}
TierRank == [C |-> 1, B |-> 2, A |-> 3]
Rated(tier, confidence, class) ==
  [tier |-> tier, confidence |-> confidence, class |-> class]

ChangesToProducts ==
  <<Rated("C", 1, 1), Rated("B", 1, 1), Rated("A", 1, 3), Rated("C", 1, 2), Rated("B", 1, 2),
    Rated("A", 2, 2), Rated("B", 1, 2), Rated("B", 1, 3), Rated("A", 2, 3), Rated("C", 1, 1),
    Rated("B", 2, 5), Rated("C", 1, 2), Rated("B", 2, 2), Rated("A", 2, 2), Rated("A", 3, 2)>>
ChangesToSystems ==
  <<Rated("A", 2, 2), Rated("A", 2, 3), Rated("B", 2, 3), Rated("A", 2, 4), Rated("A", 3, 4),
    Rated("B", 1, 4), Rated("C", 1, 5), Rated("A", 2, 5), Rated("A", 3, 5), Rated("C", 1, 3),
    Rated("C", 2, 2), Rated("B", 3, 1), Rated("A", 3, 2), Rated("A", 2, 2), Rated("B", 1, 2)>>
ChangesToGovernance ==
  <<Rated("A", 3, 4), Rated("A", 2, 4), Rated("A", 2, 4), Rated("A", 3, 4), Rated("A", 2, 3),
    Rated("A", 2, 3), Rated("B", 2, 3), Rated("B", 1, 2)>>
Table == ChangesToProducts \o ChangesToSystems \o ChangesToGovernance

(* A request: the words of a rule, or something more or less like one.     *)
Requests ==
  [exact : {TRUE}, best : SampledRules, score : {100}]
    \cup [exact : {FALSE}, best : SampledRules, score : Scores]

(* The oracle accepts by itself from 90 on, and proposes a rule from 70.   *)
Classify(request) ==
  [matched |-> IF request.exact \/ request.score >= 70 THEN {Table[request.best]} ELSE {},
   action |-> IF request.exact \/ request.score >= 90 THEN "auto_accept"
              ELSE IF request.score >= 70 THEN "human_review" ELSE "human_classify"]

Elect(matched, default) == IF matched = {} THEN default ELSE CHOOSE r \in matched : TRUE

(* ces manifest asks the oracle and falls back on the highest risk; with   *)
(* --auto it takes the fixed proposal of the runtime's adapter; ces build  *)
(* takes that proposal unless the oracle knows better.                     *)
Assisted == Rated("B", 2, 2)
RateCautiously(request) == Elect(Classify(request).matched, Rated("A", 3, 5))
RateForBuild(request) == Elect(Classify(request).matched, Assisted)

\* ces classify shows what the oracle makes of a description, or Unknown
ClassifyTask(request) == Classify(request).matched

(* Stories are rated by the signals of their specification.                *)
Hints ==
  [change : {"feature", "bug", "refactor", "infra", "doc"},
   radius : {"isolated", "module", "system", "cross-cutting"},
   sensitive : BOOLEAN, risk : {"", "A", "B", "C"}]
ClassOfChange == [feature |-> 3, bug |-> 2, refactor |-> 2, infra |-> 4, doc |-> 1]
Higher(t, u) == IF TierRank[t] >= TierRank[u] THEN t ELSE u
Baseline(hints) ==
  IF hints.sensitive \/ hints.radius \in {"system", "cross-cutting"} THEN "A"
  ELSE IF hints.radius = "module" THEN "B" ELSE "C"
ClassifyHints(hints) ==
  Rated(IF hints.risk = "" THEN Baseline(hints) ELSE Higher(Baseline(hints), hints.risk),
        2, ClassOfChange[hints.change])

Story(radius) == [change |-> "feature", radius |-> radius, sensitive |-> FALSE, risk |-> ""]

Highest(S) == CHOOSE x \in S : \A y \in S : y <= x
Aggregate(ratings) ==
  Rated(CHOOSE t \in {r.tier : r \in ratings} : \A r \in ratings : TierRank[r.tier] <= TierRank[t],
        Highest({r.confidence : r \in ratings}), Highest({r.class : r \in ratings}))
CheckDowngrade(proposed, existing) ==
  \/ TierRank[proposed.tier] < TierRank[existing.tier]
  \/ proposed.confidence < existing.confidence

(* Days a manifest may live.                                               *)
TimeToLive == [A |-> 2, B |-> 7, C |-> 14]

-----------------------------------------------------------------------------
VARIABLES
  rows,    \* the stored manifests
  noted,   \* the creations in the ledger: of which manifest, and by which command
  signed,  \* manifests whose signing is in the ledger
  today,
  clerk    \* what each process is doing, with its copy of a manifest

registryVars == <<rows, noted, signed, today, clerk>>

Ids == 1..MaxManifests
Terminal == {"merged", "deployed", "rejected", "failed", "cancelled"}

(* The signature covers everything but itself and the artifact status: a   *)
(* seal is the rating and the state at the time.                           *)
Ratings == {Table[i] : i \in SampledRules} \cup {Assisted, Rated("A", 3, 5)}
             \cup {ClassifyHints(Story(radius)) : radius \in StoryRadii}
NoManifest == [by |-> "none", rating |-> Assisted, state |-> "queued", born |-> 0, seal |-> {}]
NewManifest(by, rating) ==
  [NoManifest EXCEPT !.by = by, !.rating = rating, !.born = today]
SigningPayload(copy) == [rating |-> copy.rating, state |-> copy.state]
SignManifest(copy) == [copy EXCEPT !.seal = {SigningPayload(copy)}]

IsExpired(copy) == today > copy.born + TimeToLive[copy.rating.tier]
IsActive(copy) == copy.by # "none" /\ copy.state \notin Terminal /\ ~IsExpired(copy)

NoErrand == [at |-> "idle", cmd |-> "none", id |-> 0, copy |-> NoManifest]
Begun(m) == rows[m].by # "none" \/ (\E entry \in noted : entry.id = m) \/ \E p \in Clerks : clerk[p].id = m
FreshId(m) == ~Begun(m) /\ \A n \in Ids : n < m => Begun(n)

Is(p, label) == clerk[p].at = label
Go(p, label) == clerk' = [clerk EXCEPT ![p].at = label]
Finish(p) == clerk' = [clerk EXCEPT ![p] = NoErrand]

RegistryInit ==
  /\ rows = [m \in Ids |-> NoManifest] /\ noted = {} /\ signed = {}
  /\ today = 0
  /\ clerk = [p \in Clerks |-> NoErrand]

(* ces manifest, ces manifest --auto and ces build propose a manifest, and *)
(* its creation is audited before it is stored.                            *)
Propose(p, m, by, rating) ==
  /\ Is(p, "idle") /\ FreshId(m)
  /\ clerk' = [clerk EXCEPT ![p] = [NoErrand EXCEPT !.at = "create", !.cmd = by, !.id = m,
                                      !.copy = NewManifest(by, rating)]]
  /\ UNCHANGED <<rows, noted, signed, today>>

ProposeAny(p) ==
  \E m \in Ids :
    \/ \E request \in Requests : \/ Propose(p, m, "manifest", RateCautiously(request))
                                 \/ Propose(p, m, "build", RateForBuild(request))
    \/ Propose(p, m, "auto", Assisted)

AuditCreation(p) ==
  /\ Is(p, "create")
  /\ noted' = noted \cup {[id |-> clerk[p].id, by |-> clerk[p].cmd]}
  /\ Go(p, "store")
  /\ UNCHANGED <<rows, signed, today>>

PersistManifest(p) ==
  /\ Is(p, "store")
  /\ rows' = [rows EXCEPT ![clerk[p].id] = clerk[p].copy]
  /\ IF clerk[p].cmd = "build" THEN Go(p, "sign") ELSE Finish(p)
  /\ UNCHANGED <<noted, signed, today>>

(* ces spec decompose stores the manifest of a story and audits it later.  *)
StoreStory(p) ==
  \E m \in Ids, radius \in StoryRadii :
    /\ Is(p, "idle") /\ FreshId(m)
    /\ rows' = [rows EXCEPT ![m] = NewManifest("spec", ClassifyHints(Story(radius)))]
    /\ clerk' = [clerk EXCEPT ![p] = [NoErrand EXCEPT !.at = "note", !.cmd = "spec", !.id = m]]
    /\ UNCHANGED <<noted, signed, today>>

AuditStory(p) ==
  /\ Is(p, "note")
  /\ noted' = noted \cup {[id |-> clerk[p].id, by |-> clerk[p].cmd]}
  /\ Finish(p)
  /\ UNCHANGED <<rows, signed, today>>

(* Later commands read the row of a manifest.                              *)
CanBegin(cmd, copy) ==
  cmd = "execute" => copy.state \in {"queued", "in_flight"}

GetManifest(p) ==
  \E m \in Ids, cmd \in {"execute", "approve"} :
    /\ Is(p, "idle") /\ rows[m].by # "none" /\ CanBegin(cmd, rows[m])
    /\ clerk' = [clerk EXCEPT ![p] =
                   [NoErrand EXCEPT !.at = IF cmd = "execute" THEN "start" ELSE "sign",
                                    !.cmd = cmd, !.id = m, !.copy = rows[m]]]
    /\ UNCHANGED <<rows, noted, signed, today>>

(* Faulty variant: the signature is stored, its audit entry is forgotten.  *)
SignSilently(p) ==
  /\ Is(p, "sign") /\ clerk[p].copy.seal = {}
  /\ Go(p, "seal")
  /\ UNCHANGED <<rows, noted, signed, today>>

(* build and approve sign what has no signature yet: the ledger first.     *)
NextAfterSeal(cmd) == IF cmd = "build" THEN "start" ELSE "decide"

AuditSigning(p) ==
  /\ Is(p, "sign") /\ clerk[p].copy.seal = {}
  /\ signed' = signed \cup {clerk[p].id}
  /\ Go(p, "seal")
  /\ UNCHANGED <<rows, noted, today>>

AlreadySigned(p) ==
  /\ Is(p, "sign") /\ clerk[p].copy.seal # {}
  /\ Go(p, NextAfterSeal(clerk[p].cmd))
  /\ UNCHANGED <<rows, noted, signed, today>>

SaveSealed(p) ==
  LET sealed == SignManifest(clerk[p].copy) IN
  /\ Is(p, "seal")
  /\ rows' = [rows EXCEPT ![clerk[p].id] = sealed]
  /\ clerk' = [clerk EXCEPT ![p].copy = sealed, ![p].at = NextAfterSeal(clerk[p].cmd)]
  /\ UNCHANGED <<noted, signed, today>>

(* The launch: in flight first, in the row and in the copy, then the agent *)
(* runner's preconditions.  A refused execute stores the failure, a        *)
(* refused build leaves its manifest in flight.                            *)
SaveInFlight(p) ==
  LET moved == [clerk[p].copy EXCEPT !.state = "in_flight"] IN
  /\ Is(p, "start")
  /\ rows' = IF clerk[p].cmd = "execute" /\ clerk[p].copy.state = "in_flight" THEN rows
             ELSE [rows EXCEPT ![clerk[p].id] = moved]
  /\ clerk' = [clerk EXCEPT ![p].copy = moved, ![p].at = "launch"]
  /\ UNCHANGED <<noted, signed, today>>

MayLaunch(copy) == ~IsExpired(copy) /\ copy.state = "in_flight"

LaunchAgent(p) ==
  /\ Is(p, "launch") /\ MayLaunch(clerk[p].copy)
  /\ Go(p, "agent")
  /\ UNCHANGED <<rows, noted, signed, today>>

Refused(p) ==
  /\ Is(p, "launch") /\ ~MayLaunch(clerk[p].copy)
  /\ rows' = IF clerk[p].cmd = "execute"
             THEN [rows EXCEPT ![clerk[p].id] = [clerk[p].copy EXCEPT !.state = "failed"]]
             ELSE rows
  /\ Finish(p)
  /\ UNCHANGED <<noted, signed, today>>

(* What a command stores at its end; an approval may also be called off.   *)
Outcomes(cmd) ==
  CASE cmd = "approve" -> {"approved", "merged", "rejected"}
    [] cmd = "execute" -> {"under_review", "failed"}
    [] OTHER           -> {"merged", "under_review", "rejected"}

SaveOutcome(p) ==
  /\ \/ Is(p, "agent")
     \/ Is(p, "decide") /\ clerk[p].copy.state # "merged"
  /\ \E state \in Outcomes(clerk[p].cmd) :
       rows' = [rows EXCEPT ![clerk[p].id] = [clerk[p].copy EXCEPT !.state = state]]
  /\ Finish(p)
  /\ UNCHANGED <<noted, signed, today>>

(* A process is killed, an exception ends it, or its user says no.         *)
ClerkLeaves(p) ==
  /\ ~Is(p, "idle")
  /\ Finish(p)
  /\ UNCHANGED <<rows, noted, signed, today>>

DaysPass ==
  /\ \E d \in Days : d > today /\ today' = d
  /\ UNCHANGED <<rows, noted, signed, clerk>>

RegistryNext ==
  \/ \E p \in Clerks :
       \/ ProposeAny(p) \/ AuditCreation(p) \/ PersistManifest(p)
       \/ StoreStory(p) \/ AuditStory(p) \/ GetManifest(p)
       \/ AuditSigning(p) \/ AlreadySigned(p) \/ SaveSealed(p)
       \/ SaveInFlight(p) \/ LaunchAgent(p) \/ Refused(p)
       \/ SaveOutcome(p) \/ ClerkLeaves(p)
  \/ DaysPass

RegistrySpec == RegistryInit /\ [][RegistryNext]_registryVars

-----------------------------------------------------------------------------
RegistryTypeOK ==
  /\ DOMAIN rows = Ids /\ noted \subseteq [id : Ids, by : {"manifest", "auto", "build", "spec"}] /\ signed \subseteq Ids
  /\ today \in Days
  /\ \A m \in Ids : rows[m].by \in {"none", "manifest", "auto", "build", "spec"}
                    /\ rows[m].rating \in Ratings /\ rows[m].born \in Days
                    /\ Cardinality(rows[m].seal) <= 1

(* A manifest of a request is never stored without its creation on record, *)
(* and no creation of a story is on record without its row: whichever of   *)
(* the two writes comes first, a death in between errs on that side.       *)
CreationOnRecord ==
  \A m \in Ids :
    /\ rows[m].by \in {"manifest", "auto", "build"} => [id |-> m, by |-> rows[m].by] \in noted
    /\ [id |-> m, by |-> "spec"] \in noted => rows[m].by = "spec"

(* Every signature in the store is on record, and the rating it covers is  *)
(* the rating the manifest still has.                                      *)
SealsOnRecord ==
  \A m \in Ids : rows[m].seal # {} =>
    /\ m \in signed
    /\ \A payload \in rows[m].seal : payload.rating = rows[m].rating

(* However a request is put, ces manifest never rates it below ces build,  *)
(* and what ces classify knows is what both go by; the rating of several   *)
(* tasks is no downgrade of any of them; a hint, a wider radius or a       *)
(* sensitive area never lowers a story; and who is rated higher does not   *)
(* live longer.                                                            *)
RatingsOrdered ==
  /\ \A request \in Requests :
       /\ ~CheckDowngrade(RateCautiously(request), RateForBuild(request))
       /\ ClassifyTask(request) \subseteq {RateCautiously(request)} \cap {RateForBuild(request)}
  /\ \A i, j \in 1..38 : LET both == Aggregate({Table[i], Table[j]}) IN
       ~CheckDowngrade(both, Table[i]) /\ ~CheckDowngrade(both, Table[j])
  /\ \A h \in Hints :
       /\ ~CheckDowngrade(ClassifyHints(h), ClassifyHints([h EXCEPT !.risk = ""]))
       /\ ~CheckDowngrade(ClassifyHints([h EXCEPT !.sensitive = TRUE]), ClassifyHints(h))
       /\ ~CheckDowngrade(ClassifyHints([h EXCEPT !.radius = "system"]), ClassifyHints(h))
  /\ \A t, u \in Tiers : TierRank[t] <= TierRank[u] => TimeToLive[u] <= TimeToLive[t]

(* A stored manifest loses its signature only to a command that read it    *)
(* before it was signed and writes its copy back.                          *)
UnsealedByStaleCopy ==
  \A m \in Ids : rows[m].seal # {} /\ rows'[m].seal = {} =>
    \E p \in Clerks : clerk[p].id = m /\ clerk[p].cmd = "execute" /\ clerk[p].copy.seal = {}

(* Whatever a command read and how long it took to get there: an agent     *)
(* starts only on a manifest that a status would list, by the clock of     *)
(* that instant, and the agent of build on a signed one.                   *)
StartsOnActive ==
  \A p \in Clerks : Is(p, "launch") /\ Is(p, "agent")' =>
    IsActive(clerk[p].copy) /\ (clerk[p].cmd = "build" => clerk[p].copy.seal # {})

(* The registry of manifests (manifest_manager.py, classification.py and   *)
(* the commands around them).                                              *)
RegistrySound ==
  /\ [](RatingsOrdered /\ RegistryTypeOK /\ CreationOnRecord /\ SealsOnRecord)
  /\ [][UnsealedByStaleCopy /\ StartsOnActive]_registryVars
=============================================================================
