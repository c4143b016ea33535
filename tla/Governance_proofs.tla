-------------------------- MODULE Governance_proofs --------------------------
(***************************************************************************)
(* What a halt, an emergency and earned trust are worth, for any number of *)
(* processes with switches of their own and any write that may raise.      *)
(***************************************************************************)
EXTENDS Governance, TLAPS

-----------------------------------------------------------------------------
(* The inductive invariant.  A switch that loads the rows takes over halts *)
(* it never recorded itself, so HaltsRecorded needs that a stored halt is  *)
(* recorded too, unless the change of its class raised.                    *)

RowsRecorded == \A c \in Classes : rows[c] = "halted" => c \in recorded \cup raised

SwitchTyped ==
  /\ wired \in BOOLEAN
  /\ halted \in [Procs -> SUBSET Classes]
  /\ rows \in [Classes -> {"absent", "halted", "clear"}]
  /\ recorded \subseteq Classes /\ raised \subseteq Classes

SwitchInv == SwitchTyped /\ HaltsRecorded /\ HaltsStored /\ RowsRecorded

EmergencyTyped ==
  /\ active \in [Procs -> Emergencies \cup {None}]
  /\ deadlines \in [Procs -> SUBSET Emergencies]
  /\ declared \subseteq Emergencies /\ lifted \subseteq Procs

EmergencyInv == EmergencyTyped /\ EmergencyContained

Profiles == [status : Statuses, escapes : 0..MaxEscapes, earned : BOOLEAN]

TrustInv ==
  /\ profile \in [Keepers -> Profiles]
  /\ \A p \in Keepers : profile[p].status = "trusted" => profile[p].earned

GovernanceInv == SwitchInv /\ EmergencyInv /\ TrustInv

-----------------------------------------------------------------------------
(* One change of the switch, whatever it raises.                           *)

\* what a change does to the cache of its own process and of the others
Switched(p, done, halt) ==
  /\ halted'[p] = IF halt THEN halted[p] \cup done ELSE halted[p] \ done
  /\ \A q \in Procs \ {p} : halted'[q] = halted[q]

LEMMA HaltKeeps ==
  ASSUME SwitchInv, NEW p \in Procs, NEW done \in SUBSET Classes, NEW last \in done,
         NEW outcome, Change(p, done, last, TRUE, outcome)
  PROVE  SwitchInv' /\ Switched(p, done, TRUE)
<1> DEFINE stored == IF ~wired THEN {} ELSE IF outcome = "upsert" THEN done \ {last} ELSE done
           logged == IF outcome = "returns" THEN done ELSE done \ {last}
<1>1. /\ halted' = [halted EXCEPT ![p] = @ \cup done]
      /\ rows' = [c \in Classes |-> IF c \in stored THEN "halted" ELSE rows[c]]
      /\ recorded' = recorded \cup logged
      /\ raised' = raised \cup (done \ logged) /\ wired' = wired
  BY DEF Change
<1>2. stored \subseteq done /\ logged \subseteq done /\ (wired => logged \subseteq stored)
  OBVIOUS
<1> HIDE DEF stored, logged
<1>3. SwitchTyped
  BY DEF SwitchInv
<1>4. Switched(p, done, TRUE)
  BY <1>1, <1>3 DEF Switched, SwitchTyped
<1>5. SwitchTyped'
  <2>1. wired' \in BOOLEAN
    BY <1>1, <1>3 DEF SwitchTyped
  <2>2. halted' \in [Procs -> SUBSET Classes]
    BY <1>1, <1>3 DEF SwitchTyped
  <2>3. rows' \in [Classes -> {"absent", "halted", "clear"}]
    BY <1>1, <1>3 DEF SwitchTyped
  <2>4. recorded' \subseteq Classes /\ raised' \subseteq Classes
    BY <1>1, <1>2, <1>3 DEF SwitchTyped
  <2> QED
    BY <2>1, <2>2, <2>3, <2>4 DEF SwitchTyped
<1>6. HaltsRecorded'
  BY <1>1, <1>2, <1>4 DEF SwitchInv, HaltsRecorded, Switched
<1>7. RowsRecorded'
  BY <1>1, <1>2 DEF SwitchInv, RowsRecorded
<1>8. HaltsStored'
  <2> SUFFICES ASSUME wired', NEW c \in Classes \ raised',
                      \A q \in Procs : c \in halted'[q]
               PROVE  rows'[c] = "halted"
    BY DEF HaltsStored, IsHalted
  <2>1. CASE c \in done
    BY <2>1, <1>1, <1>2
  <2>2. CASE c \notin done
    <3>1. \A q \in Procs : c \in halted[q]
      BY <2>2, <1>4 DEF Switched
    <3>2. rows[c] = "halted"
      BY <3>1, <1>1 DEF SwitchInv, HaltsStored, IsHalted
    <3> QED
      BY <3>2, <1>1
  <2> QED
    BY <2>1, <2>2
<1> QED
  BY <1>4, <1>5, <1>6, <1>7, <1>8 DEF SwitchInv

LEMMA ClearKeeps ==
  ASSUME SwitchInv, NEW p \in Procs, NEW done \in SUBSET Classes, NEW last \in done,
         NEW outcome, Change(p, done, last, FALSE, outcome)
  PROVE  SwitchInv' /\ Switched(p, done, FALSE)
<1> DEFINE stored == IF ~wired THEN {} ELSE IF outcome = "upsert" THEN done \ {last} ELSE done
           logged == IF outcome = "returns" THEN done ELSE done \ {last}
<1>1. /\ halted' = [halted EXCEPT ![p] = @ \ done]
      /\ rows' = [c \in Classes |-> IF c \in stored THEN "clear" ELSE rows[c]]
      /\ recorded' = recorded
      /\ raised' = raised \cup (done \ logged) /\ wired' = wired
  BY DEF Change
<1>2. stored \subseteq done /\ logged \subseteq done
  OBVIOUS
<1> HIDE DEF stored, logged
<1>3. SwitchTyped
  BY DEF SwitchInv
<1>4. Switched(p, done, FALSE)
  BY <1>1, <1>3 DEF Switched, SwitchTyped
<1>5. SwitchTyped'
  <2>1. wired' \in BOOLEAN
    BY <1>1, <1>3 DEF SwitchTyped
  <2>2. halted' \in [Procs -> SUBSET Classes]
    BY <1>1, <1>3 DEF SwitchTyped
  <2>3. rows' \in [Classes -> {"absent", "halted", "clear"}]
    BY <1>1, <1>3 DEF SwitchTyped
  <2>4. recorded' \subseteq Classes /\ raised' \subseteq Classes
    BY <1>1, <1>2, <1>3 DEF SwitchTyped
  <2> QED
    BY <2>1, <2>2, <2>3, <2>4 DEF SwitchTyped
<1>6. HaltsRecorded'
  BY <1>1, <1>2, <1>4 DEF SwitchInv, HaltsRecorded, Switched
<1>7. RowsRecorded'
  BY <1>1, <1>2 DEF SwitchInv, RowsRecorded
<1>8. HaltsStored'
  <2> SUFFICES ASSUME wired', NEW c \in Classes \ raised',
                      \A q \in Procs : c \in halted'[q]
               PROVE  rows'[c] = "halted"
    BY DEF HaltsStored, IsHalted
  <2>1. c \notin done
    BY <1>4 DEF Switched
  <2>2. \A q \in Procs : c \in halted[q]
    BY <1>4 DEF Switched
  <2>3. rows[c] = "halted"
    BY <2>2, <1>1 DEF SwitchInv, HaltsStored, IsHalted
  <2> QED
    BY <2>1, <2>3, <1>1, <1>2
<1> QED
  BY <1>4, <1>5, <1>6, <1>7, <1>8 DEF SwitchInv

\* the rows replace what is cached of the classes that have one
LEMMA LoadKeeps ==
  ASSUME SwitchInv, NEW p \in Procs, LoadFromDb(p)
  PROVE  SwitchInv'
<1>1. /\ wired /\ wired' = wired /\ rows' = rows
      /\ recorded' = recorded /\ raised' = raised
      /\ halted' = [halted EXCEPT ![p] = Loaded(@)]
  BY DEF LoadFromDb
<1>2. SwitchTyped
  BY DEF SwitchInv
<1>3. Loaded(halted[p]) \subseteq Classes
  BY DEF Loaded
<1>4. /\ halted'[p] = Loaded(halted[p])
      /\ \A q \in Procs \ {p} : halted'[q] = halted[q]
  BY <1>1, <1>2 DEF SwitchTyped
<1>5. SwitchTyped'
  <2>1. halted' \in [Procs -> SUBSET Classes]
    <3> DEFINE set == Loaded(halted[p])
    <3>1. set \in SUBSET Classes /\ halted' = [halted EXCEPT ![p] = set]
      BY <1>1, <1>3
    <3> HIDE DEF set
    <3> QED
      BY <3>1, <1>2 DEF SwitchTyped
  <2>2. wired' \in BOOLEAN
    BY <1>1, <1>2 DEF SwitchTyped
  <2> QED
    BY <2>1, <2>2, <1>1, <1>2 DEF SwitchTyped
<1>6. HaltsRecorded'
  <2> SUFFICES ASSUME NEW q \in Procs, NEW c \in halted'[q], c \notin raised
               PROVE  c \in recorded
    BY <1>1 DEF HaltsRecorded
  <2>1. CASE q = p
    BY <2>1, <1>4 DEF Loaded, SwitchInv, HaltsRecorded, RowsRecorded
  <2>2. CASE q # p
    BY <2>2, <1>4 DEF SwitchInv, HaltsRecorded
  <2> QED
    BY <2>1, <2>2
<1>7. HaltsStored'
  <2> SUFFICES ASSUME NEW c \in Classes \ raised, \A q \in Procs : c \in halted'[q]
               PROVE  rows[c] = "halted"
    BY <1>1 DEF HaltsStored, IsHalted
  <2>1. c \in Loaded(halted[p])
    BY <1>4
  <2>2. CASE rows[c] = "absent"
    <3>1. \A q \in Procs : c \in halted[q]
      BY <2>1, <2>2, <1>4 DEF Loaded
    <3> QED
      BY <3>1, <1>1 DEF SwitchInv, HaltsStored, IsHalted
  <2>3. CASE rows[c] # "absent"
    BY <2>1, <2>3 DEF Loaded
  <2> QED
    BY <2>2, <2>3
<1> QED
  BY <1>1, <1>5, <1>6, <1>7 DEF SwitchInv, RowsRecorded

\* a process loses its cache, and no row changes with it
LEMMA RestartKeepsSwitch ==
  ASSUME SwitchInv, NEW p \in Procs, Restart(p)
  PROVE  SwitchInv'
<1>1. /\ wired' = wired /\ rows' = rows /\ recorded' = recorded /\ raised' = raised
      /\ halted' = [halted EXCEPT ![p] = {}]
  BY DEF Restart
<1>2. /\ halted'[p] = {}
      /\ \A q \in Procs \ {p} : halted'[q] = halted[q]
      /\ halted' \in [Procs -> SUBSET Classes]
  BY <1>1 DEF SwitchInv, SwitchTyped
<1>3. wired' \in BOOLEAN
  BY <1>1 DEF SwitchInv, SwitchTyped
<1>4. SwitchTyped'
  BY <1>1, <1>2, <1>3 DEF SwitchInv, SwitchTyped
<1>5. HaltsStored'
  BY <1>2 DEF HaltsStored, IsHalted
<1>6. HaltsRecorded' /\ RowsRecorded'
  BY <1>1, <1>2 DEF SwitchInv, HaltsRecorded, RowsRecorded
<1> QED
  BY <1>4, <1>5, <1>6 DEF SwitchInv

LEMMA SwitchUnchanged ==
  ASSUME SwitchInv, UNCHANGED switchVars
  PROVE  SwitchInv'
<1>1. /\ wired' = wired /\ rows' = rows /\ recorded' = recorded /\ raised' = raised
      /\ halted' = halted
  BY DEF switchVars
<1>2. wired' \in BOOLEAN
  BY <1>1 DEF SwitchInv, SwitchTyped
<1>3. SwitchTyped'
  BY <1>1, <1>2 DEF SwitchInv, SwitchTyped
<1> QED
  BY <1>1, <1>3 DEF SwitchInv, HaltsRecorded, HaltsStored, IsHalted, RowsRecorded

-----------------------------------------------------------------------------
(* Emergencies.  What counts of a step is which of the halts of task       *)
(* issuance it took back, and of which process.                            *)

\* a step that lifts no halt of task issuance unseen
Contains ==
  \A p \in Procs : "task_issuance" \in halted[p] /\ p \notin lifted' =>
    "task_issuance" \in halted'[p]

LEMMA ContainedWhileCalm ==
  ASSUME EmergencyInv, Contains, UNCHANGED <<active, deadlines, declared>>,
         lifted \subseteq lifted', lifted' \subseteq Procs
  PROVE  EmergencyInv'
BY DEF EmergencyInv, EmergencyTyped, EmergencyContained, Contains, IsHalted

LEMMA DeclareContains ==
  ASSUME EmergencyInv, NEW p \in Procs, NEW m \in Emergencies, Declare(p, m),
         Switched(p, {"task_issuance"}, TRUE)
  PROVE  EmergencyInv'
<1>1. PICK switched \in BOOLEAN, going \in BOOLEAN :
        /\ going => switched
        /\ deadlines' = [deadlines EXCEPT ![p] = IF switched THEN @ \cup {m} ELSE @]
        /\ active' = [active EXCEPT ![p] = IF going THEN m ELSE @]
  <2>1. PICK outcome \in Outcomes \cup {"declaration"} :
          /\ deadlines' = [deadlines EXCEPT ![p] =
               IF outcome \in {"returns", "declaration"} THEN @ \cup {m} ELSE @]
          /\ active' = [active EXCEPT ![p] = IF outcome = "returns" THEN m ELSE @]
    BY DEF Declare
  <2> DEFINE switched == outcome \in {"returns", "declaration"}
             going    == outcome = "returns"
  <2>2. switched \in BOOLEAN /\ going \in BOOLEAN /\ (going => switched)
    OBVIOUS
  <2> QED
    BY <2>1, <2>2
<1>2. EmergencyTyped
  BY DEF EmergencyInv
<1>3. /\ declared' = declared \cup {m} /\ lifted' = lifted \ {p} /\ active[p] = None
  BY DEF Declare
<1>4. /\ deadlines'[p] = IF switched THEN deadlines[p] \cup {m} ELSE deadlines[p]
      /\ active'[p] = IF going THEN m ELSE active[p]
      /\ \A q \in Procs \ {p} : deadlines'[q] = deadlines[q] /\ active'[q] = active[q]
  BY <1>1, <1>2 DEF EmergencyTyped
<1>5. EmergencyTyped'
  <2>1. deadlines' \in [Procs -> SUBSET Emergencies]
    BY <1>1, <1>2 DEF EmergencyTyped
  <2>2. active' \in [Procs -> Emergencies \cup {None}]
    BY <1>1, <1>2 DEF EmergencyTyped
  <2> QED
    BY <2>1, <2>2, <1>2, <1>3 DEF EmergencyTyped
<1>6. EmergencyContained'
  <2> SUFFICES ASSUME NEW q \in Procs, active'[q] # None, q \notin lifted'
               PROVE  "task_issuance" \in halted'[q] /\ active'[q] \in deadlines'[q]
    BY DEF EmergencyContained, IsHalted
  <2>1. CASE q = p
    BY <2>1, <1>1, <1>3, <1>4 DEF Switched
  <2>2. CASE q # p
    BY <2>2, <1>3, <1>4 DEF Switched, EmergencyInv, EmergencyContained, IsHalted
  <2> QED
    BY <2>1, <2>2
<1> QED
  BY <1>5, <1>6 DEF EmergencyInv

LEMMA ResolveContains ==
  ASSUME EmergencyInv, NEW p \in Procs, NEW m \in Emergencies, Resolve(p, m),
         Switched(p, {"task_issuance"}, FALSE)
  PROVE  EmergencyInv'
<1>1. PICK switched \in BOOLEAN, ended \in BOOLEAN :
        /\ deadlines' = [deadlines EXCEPT ![p] = IF switched THEN @ \ {m} ELSE @]
        /\ active' = [active EXCEPT ![p] = IF ended THEN None ELSE @]
  <2>1. PICK outcome \in Outcomes \cup {"resolution"} :
          /\ deadlines' = [deadlines EXCEPT ![p] =
               IF outcome \in {"returns", "resolution"} THEN @ \ {m} ELSE @]
          /\ active' = [active EXCEPT ![p] = IF outcome = "returns" THEN None ELSE @]
    BY DEF Resolve
  <2> DEFINE switched == outcome \in {"returns", "resolution"}
             ended    == outcome = "returns"
  <2>2. switched \in BOOLEAN /\ ended \in BOOLEAN
    OBVIOUS
  <2> QED
    BY <2>1, <2>2
<1>2. EmergencyTyped
  BY DEF EmergencyInv
<1>3. declared' = declared /\ lifted' = lifted \cup {p}
  BY DEF Resolve
<1>4. \A q \in Procs \ {p} : deadlines'[q] = deadlines[q] /\ active'[q] = active[q]
  BY <1>1, <1>2 DEF EmergencyTyped
<1>5. EmergencyTyped'
  <2>1. deadlines' \in [Procs -> SUBSET Emergencies]
    BY <1>1, <1>2 DEF EmergencyTyped
  <2>2. active' \in [Procs -> Emergencies \cup {None}]
    BY <1>1, <1>2 DEF EmergencyTyped
  <2> QED
    BY <2>1, <2>2, <1>2, <1>3 DEF EmergencyTyped
<1>6. EmergencyContained'
  BY <1>3, <1>4 DEF Switched, EmergencyInv, EmergencyContained, IsHalted
<1> QED
  BY <1>5, <1>6 DEF EmergencyInv

LEMMA RestartContains ==
  ASSUME EmergencyInv, SwitchInv, NEW p \in Procs, Restart(p)
  PROVE  EmergencyInv'
<1>1. /\ halted' = [halted EXCEPT ![p] = {}]
      /\ active' = [active EXCEPT ![p] = None]
      /\ deadlines' = [deadlines EXCEPT ![p] = {}]
      /\ lifted' = lifted \ {p} /\ declared' = declared
  BY DEF Restart
<1>2. EmergencyTyped'
  BY <1>1 DEF EmergencyInv, EmergencyTyped
<1>3. EmergencyContained'
  BY <1>1 DEF EmergencyInv, EmergencyTyped, EmergencyContained, IsHalted, SwitchInv, SwitchTyped
<1> QED
  BY <1>2, <1>3 DEF EmergencyInv

-----------------------------------------------------------------------------
(* Trust.                                                                  *)

\* an action of the profile of p: one record replaces another
LEMMA ProfileMoves ==
  ASSUME TrustInv, NEW p \in Keepers, NEW new \in Profiles,
         profile' = [profile EXCEPT ![p] = new],
         new.status = "trusted" => new.earned
  PROVE  TrustInv' /\ profile'[p] = new /\ \A q \in Keepers \ {p} : profile'[q] = profile[q]
BY DEF TrustInv

\* what one of the four actions of a profile makes of it
TrustStep(p) ==
  \E new \in Profiles :
    /\ profile' = [profile EXCEPT ![p] = new]
    /\ new.status = "trusted" => new.earned
    /\ IsBlocked(p) => new.status = profile[p].status
    /\ \/ new.escapes = profile[p].escapes
       \/ new.status = Contracted[profile[p].status] /\ profile[p].status # "constrained"
    /\ UNCHANGED <<switchVars, emergencyVars>>

LEMMA KeptProfile == ASSUME TrustInv, NEW p \in Keepers
                     PROVE  /\ profile[p] \in Profiles
                            /\ profile[p].status = "trusted" => profile[p].earned
                            /\ profile[p].status \in Statuses
                            /\ profile[p].escapes \in 0..MaxEscapes
                            /\ profile[p].earned \in BOOLEAN
<1>1. profile[p] \in Profiles /\ (profile[p].status = "trusted" => profile[p].earned)
  BY DEF TrustInv
<1>2. /\ profile[p].status \in Statuses /\ profile[p].escapes \in 0..MaxEscapes
      /\ profile[p].earned \in BOOLEAN
  BY <1>1, Zenon DEF Profiles
<1> QED
  BY <1>1, <1>2

LEMMA EarnStep == ASSUME TrustInv, NEW p \in Keepers, Earn(p) PROVE TrustStep(p)
<1> DEFINE yes == TRUE
           new == [status |-> profile[p].status, escapes |-> profile[p].escapes, earned |-> yes]
<1>1. yes \in BOOLEAN /\ yes
  OBVIOUS
<1>2. profile[p] = [status |-> profile[p].status, escapes |-> profile[p].escapes,
                    earned |-> profile[p].earned]
  BY KeptProfile DEF Profiles
<1>3. profile' = [profile EXCEPT ![p].earned = yes]
  BY DEF Earn
<1> HIDE DEF yes
<1>4. [profile[p] EXCEPT !.earned = yes] = new
  BY <1>2
<1>5. profile' = [profile EXCEPT ![p] = new]
  BY <1>3, <1>4 DEF TrustInv
<1>6. new \in Profiles
  BY <1>1, KeptProfile, Zenon DEF Profiles
<1>7. new.status = profile[p].status /\ new.escapes = profile[p].escapes /\ new.earned = yes
  OBVIOUS
<1>8. UNCHANGED <<switchVars, emergencyVars>>
  BY DEF Earn
<1> HIDE DEF new
<1> QED
  BY <1>1, <1>5, <1>6, <1>7, <1>8, Zenon DEF TrustStep

LEMMA MovesStep ==
  ASSUME TrustInv, NEW p \in Keepers, NEW status \in Statuses, TrustMoves(p, status),
         ~IsBlocked(p), status = "trusted" => profile[p].earned
  PROVE  TrustStep(p)
<1> DEFINE new == [status |-> status, escapes |-> profile[p].escapes, earned |-> profile[p].earned]
<1>1. profile[p] = [status |-> profile[p].status, escapes |-> profile[p].escapes,
                    earned |-> profile[p].earned]
  BY KeptProfile DEF Profiles
<1>2. [profile[p] EXCEPT !.status = status] = new
  BY <1>1
<1>3. profile' = [profile EXCEPT ![p] = new]
  BY <1>2 DEF TrustMoves, TrustInv
<1>4. new \in Profiles
  BY KeptProfile, Zenon DEF Profiles
<1>5. new.status = status /\ new.escapes = profile[p].escapes /\ new.earned = profile[p].earned
  OBVIOUS
<1>6. UNCHANGED <<switchVars, emergencyVars>>
  BY DEF TrustMoves
<1> HIDE DEF new
<1> QED
  BY <1>3, <1>4, <1>5, <1>6, Zenon DEF TrustStep

LEMMA EscapeStep == ASSUME TrustInv, NEW p \in Keepers, RecordEscape(p) PROVE TrustStep(p)
<1> DEFINE old == profile[p]
           new == [status |-> Contracted[old.status], escapes |-> old.escapes + 1,
                   earned |-> old.earned]
<1>1. profile[p] = [status |-> old.status, escapes |-> old.escapes, earned |-> old.earned]
  BY KeptProfile DEF Profiles
<1>2. /\ ~IsBlocked(p) /\ old.status # "constrained" /\ old.escapes < MaxEscapes
      /\ profile' = [profile EXCEPT ![p].status = Contracted[@], ![p].escapes = @ + 1]
  BY DEF RecordEscape
<1>3. profile'[p] = new /\ profile' = [profile EXCEPT ![p] = profile'[p]]
  <2>1. profile' = [[profile EXCEPT ![p] = [old EXCEPT !.status = Contracted[old.status]]]
                      EXCEPT ![p].escapes = old.escapes + 1]
    BY <1>1, <1>2 DEF TrustInv
  <2>2. profile'[p] = [[old EXCEPT !.status = Contracted[old.status]] EXCEPT !.escapes = old.escapes + 1]
    BY <2>1 DEF TrustInv
  <2>3. profile'[p] = new
    BY <2>2, <1>1
  <2> QED
    BY <2>1, <2>3 DEF TrustInv
<1>4. profile' = [profile EXCEPT ![p] = new]
  BY <1>3
<1>5. Contracted[old.status] \in {"watch", "constrained"}
  BY <1>2, KeptProfile DEF Contracted, Statuses
<1>6. new \in Profiles
  <2>1. old.escapes + 1 \in 0..MaxEscapes
    BY <1>2, KeptProfile, GovernanceConstants
  <2>2. Contracted[old.status] \in Statuses
    BY <1>5 DEF Statuses
  <2> QED
    BY <2>1, <2>2, KeptProfile, Zenon DEF Profiles
<1>7. new.status = Contracted[old.status] /\ new.status # "trusted"
  BY <1>5
<1>8. UNCHANGED <<switchVars, emergencyVars>>
  BY DEF RecordEscape
<1> HIDE DEF new
<1> QED
  BY <1>2, <1>4, <1>6, <1>7, <1>8, Zenon DEF TrustStep

LEMMA KeeperStep ==
  ASSUME TrustInv, NEW p \in Keepers,
         Earn(p) \/ EvaluatePromotion(p) \/ RecordEscape(p) \/ AttemptRecovery(p)
  PROVE  TrustStep(p)
<1>1. CASE EvaluatePromotion(p)
  BY <1>1, MovesStep DEF EvaluatePromotion, Statuses
<1>2. CASE AttemptRecovery(p)
  <2>1. /\ ~IsBlocked(p)
        /\ \/ profile[p].earned /\ TrustMoves(p, "trusted")
           \/ TrustMoves(p, "candidate")
    BY <1>2 DEF AttemptRecovery
  <2>2. {"trusted", "candidate"} \subseteq Statuses
    BY DEF Statuses
  <2> QED
    BY <2>1, <2>2, MovesStep
<1> QED
  BY <1>1, <1>2, EarnStep, EscapeStep

LEMMA TrustStepKeeps ==
  ASSUME GovernanceInv, NEW p \in Keepers, TrustStep(p)
  PROVE  GovernanceInv'
<1>1. TrustInv'
  BY ProfileMoves DEF TrustStep, GovernanceInv
<1>2. SwitchInv'
  BY SwitchUnchanged DEF GovernanceInv, TrustStep
<1>3. EmergencyInv'
  BY DEF GovernanceInv, EmergencyInv, EmergencyTyped, EmergencyContained, IsHalted, TrustStep,
         switchVars, emergencyVars
<1> QED
  BY <1>1, <1>2, <1>3 DEF GovernanceInv

LEMMA RestartTrust ==
  ASSUME TrustInv, NEW p \in Procs, Restart(p)
  PROVE  /\ TrustInv'
         /\ \A q \in Keepers : profile'[q] = IF q = p THEN NewProfile ELSE profile[q]
<1>1. profile' = [q \in Keepers |-> IF q = p THEN NewProfile ELSE profile[q]]
  BY DEF Restart
<1>2. NewProfile \in Profiles /\ NewProfile.status # "trusted"
  <2>1. 0 \in 0..MaxEscapes
    BY GovernanceConstants
  <2>2. "candidate" \in Statuses /\ FALSE \in BOOLEAN
    BY DEF Statuses
  <2>3. NewProfile \in Profiles
    BY <2>1, <2>2, Zenon DEF NewProfile, Profiles
  <2>4. NewProfile.status # "trusted"
    BY DEF NewProfile
  <2> QED
    BY <2>3, <2>4
<1> QED
  BY <1>1, <1>2 DEF TrustInv

-----------------------------------------------------------------------------
(* Every action keeps the inductive invariant.                             *)

LEMMA InitInv == GovernanceInit => GovernanceInv
<1> SUFFICES ASSUME GovernanceInit PROVE GovernanceInv
  OBVIOUS
<1>1. /\ halted = [p \in Procs |-> {}] /\ rows = [c \in Classes |-> "absent"]
      /\ recorded = {} /\ raised = {}
      /\ active = [p \in Procs |-> None] /\ deadlines = [p \in Procs |-> {}]
      /\ declared = {} /\ lifted = {}
      /\ profile = [p \in Keepers |-> NewProfile]
  BY DEF GovernanceInit
<1>2. wired \in BOOLEAN
  BY DEF GovernanceInit
<1>3. SwitchTyped
  BY <1>1, <1>2 DEF SwitchTyped
<1>4. HaltsRecorded /\ HaltsStored /\ RowsRecorded
  BY <1>1, GovernanceConstants DEF HaltsRecorded, HaltsStored, RowsRecorded, IsHalted
<1>5. EmergencyInv
  BY <1>1 DEF EmergencyInv, EmergencyTyped, EmergencyContained
<1>6. NewProfile \in Profiles /\ NewProfile.status # "trusted"
  <2>1. 0 \in 0..MaxEscapes
    BY GovernanceConstants
  <2>2. "candidate" \in Statuses /\ FALSE \in BOOLEAN
    BY DEF Statuses
  <2>3. NewProfile \in Profiles
    BY <2>1, <2>2, Zenon DEF NewProfile, Profiles
  <2> QED
    BY <2>3 DEF NewProfile
<1>7. TrustInv
  BY <1>1, <1>6 DEF TrustInv
<1> QED
  BY <1>3, <1>4, <1>5, <1>7 DEF GovernanceInv, SwitchInv

LEMMA ActivateKeeps ==
  ASSUME GovernanceInv, NEW p \in Procs, NEW c \in Classes, Activate(p, c)
  PROVE  GovernanceInv'
<1>1. SwitchInv' /\ Switched(p, {c}, TRUE)
  BY HaltKeeps DEF Activate, GovernanceInv
<1>2. Contains
  BY <1>1 DEF Contains, Switched
<1>3. UNCHANGED <<active, deadlines, declared, lifted, profile>>
  BY DEF Activate, emergencyVars
<1>4. EmergencyInv'
  BY <1>2, <1>3, ContainedWhileCalm DEF GovernanceInv, EmergencyInv, EmergencyTyped
<1> QED
  BY <1>1, <1>3, <1>4 DEF GovernanceInv, TrustInv

LEMMA RecoverKeeps ==
  ASSUME GovernanceInv, NEW p \in Procs, NEW c \in Classes, Recover(p, c)
  PROVE  GovernanceInv'
<1>1. SwitchInv' /\ Switched(p, {c}, FALSE)
  BY ClearKeeps DEF Recover, GovernanceInv
<1>2. /\ UNCHANGED <<active, deadlines, declared, profile>>
      /\ lifted' = IF c = "task_issuance" THEN lifted \cup {p} ELSE lifted
  BY DEF Recover
<1>3. Contains
  BY <1>1, <1>2 DEF Contains, Switched
<1>4. EmergencyInv'
  BY <1>2, <1>3, ContainedWhileCalm DEF GovernanceInv, EmergencyInv, EmergencyTyped
<1> QED
  BY <1>1, <1>2, <1>4 DEF GovernanceInv, TrustInv

LEMMA AutoTriggerKeeps ==
  ASSUME GovernanceInv, NEW p \in Procs, NEW trigger \in DOMAIN AutoTriggers,
         AutoTrigger(p, trigger)
  PROVE  GovernanceInv'
<1>1. PICK done \in SUBSET Classes, last \in Classes, outcome \in Outcomes :
        last \in done /\ Change(p, done, last, TRUE, outcome)
  <2> DEFINE classes == AutoTriggers[trigger]
             Due(i)  == classes[i] \in Classes /\ ~IsHalted(p, classes[i])
             Done(n) == {classes[i] : i \in {j \in 1..n : Due(j)}}
  <2>1. PICK n \in DOMAIN classes, outcome \in Outcomes :
          Due(n) /\ Change(p, Done(n), classes[n], TRUE, outcome)
    BY DEF AutoTrigger
  <2>2. n \in 1..n
    BY <2>1 DEF AutoTriggers
  <2>3. Done(n) \in SUBSET Classes /\ classes[n] \in Done(n)
    BY <2>1, <2>2
  <2> HIDE DEF Done, classes
  <2> QED
    BY <2>1, <2>3
<1>2. SwitchInv' /\ Switched(p, done, TRUE)
  BY <1>1, HaltKeeps DEF GovernanceInv
<1>3. Contains
  BY <1>2 DEF Contains, Switched
<1>4. UNCHANGED <<active, deadlines, declared, lifted, profile>>
  BY DEF AutoTrigger, emergencyVars
<1>5. EmergencyInv'
  BY <1>3, <1>4, ContainedWhileCalm DEF GovernanceInv, EmergencyInv, EmergencyTyped
<1> QED
  BY <1>2, <1>4, <1>5 DEF GovernanceInv, TrustInv

LEMMA LoadFromDbKeeps ==
  ASSUME GovernanceInv, NEW p \in Procs, LoadFromDb(p)
  PROVE  GovernanceInv'
<1>1. SwitchInv'
  BY LoadKeeps DEF GovernanceInv
<1>2. /\ UNCHANGED <<active, deadlines, declared, profile>>
      /\ halted' = [halted EXCEPT ![p] = Loaded(@)]
      /\ lifted' = IF "task_issuance" \in halted[p] \ Loaded(halted[p])
                     THEN lifted \cup {p} ELSE lifted
  BY DEF LoadFromDb
<1>3. Contains
  BY <1>2 DEF Contains, GovernanceInv, SwitchInv, SwitchTyped
<1>4. lifted \subseteq lifted' /\ lifted' \subseteq Procs
  BY <1>2 DEF GovernanceInv, EmergencyInv, EmergencyTyped
<1>5. EmergencyInv'
  BY <1>2, <1>3, <1>4, ContainedWhileCalm DEF GovernanceInv
<1> QED
  BY <1>1, <1>2, <1>5 DEF GovernanceInv, TrustInv

LEMMA DeclareKeeps ==
  ASSUME GovernanceInv, NEW p \in Procs, NEW m \in Emergencies, Declare(p, m)
  PROVE  GovernanceInv'
<1>1. {"task_issuance"} \in SUBSET Classes
  BY GovernanceConstants
<1>2. SwitchInv' /\ Switched(p, {"task_issuance"}, TRUE)
  <2>1. PICK outcome : Change(p, {"task_issuance"}, "task_issuance", TRUE, outcome)
    BY DEF Declare
  <2> QED
    BY <1>1, <2>1, HaltKeeps DEF GovernanceInv
<1>3. EmergencyInv'
  BY <1>2, DeclareContains DEF GovernanceInv
<1>4. profile' = profile
  BY DEF Declare
<1> QED
  BY <1>2, <1>3, <1>4 DEF GovernanceInv, TrustInv

LEMMA ResolveKeeps ==
  ASSUME GovernanceInv, NEW p \in Procs, NEW m \in Emergencies, Resolve(p, m)
  PROVE  GovernanceInv' /\ Switched(p, {"task_issuance"}, FALSE)
<1>1. {"task_issuance"} \in SUBSET Classes
  BY GovernanceConstants
<1>2. SwitchInv' /\ Switched(p, {"task_issuance"}, FALSE)
  <2>1. PICK outcome : Change(p, {"task_issuance"}, "task_issuance", FALSE, outcome)
    BY DEF Resolve
  <2> QED
    BY <1>1, <2>1, ClearKeeps DEF GovernanceInv
<1>3. EmergencyInv'
  BY <1>2, ResolveContains DEF GovernanceInv
<1>4. profile' = profile
  BY DEF Resolve
<1> QED
  BY <1>2, <1>3, <1>4 DEF GovernanceInv, TrustInv

LEMMA RestartKeeps ==
  ASSUME GovernanceInv, NEW p \in Procs, Restart(p)
  PROVE  GovernanceInv'
BY RestartKeepsSwitch, RestartContains, RestartTrust DEF GovernanceInv

LEMMA StutterKeeps == GovernanceInv /\ UNCHANGED governanceVars => GovernanceInv'
<1> SUFFICES ASSUME GovernanceInv, UNCHANGED governanceVars PROVE GovernanceInv'
  OBVIOUS
<1>1. SwitchInv'
  BY SwitchUnchanged DEF GovernanceInv, governanceVars
<1>2. EmergencyInv' /\ TrustInv'
  BY DEF GovernanceInv, governanceVars, switchVars, emergencyVars, EmergencyInv, EmergencyTyped,
         EmergencyContained, IsHalted, TrustInv
<1> QED
  BY <1>1, <1>2 DEF GovernanceInv

LEMMA StepKeeps == GovernanceInv /\ [GovernanceNext]_governanceVars => GovernanceInv'
<1> SUFFICES ASSUME GovernanceInv, GovernanceNext PROVE GovernanceInv'
  BY StutterKeeps
<1>1. PICK p \in Procs :
        \/ \E c \in Classes : Activate(p, c) \/ Recover(p, c)
        \/ \E trigger \in DOMAIN AutoTriggers : AutoTrigger(p, trigger)
        \/ LoadFromDb(p)
        \/ \E m \in Emergencies : Declare(p, m) \/ Resolve(p, m)
        \/ /\ p \in Keepers
           /\ Earn(p) \/ EvaluatePromotion(p) \/ RecordEscape(p) \/ AttemptRecovery(p)
        \/ Restart(p)
  BY DEF GovernanceNext
<1>2. CASE \E c \in Classes : Activate(p, c) \/ Recover(p, c)
  BY <1>2, ActivateKeeps, RecoverKeeps
<1>3. CASE \E trigger \in DOMAIN AutoTriggers : AutoTrigger(p, trigger)
  BY <1>3, AutoTriggerKeeps
<1>4. CASE LoadFromDb(p)
  BY <1>4, LoadFromDbKeeps
<1>5. CASE \E m \in Emergencies : Declare(p, m) \/ Resolve(p, m)
  BY <1>5, DeclareKeeps, ResolveKeeps
<1>6. CASE /\ p \in Keepers
           /\ Earn(p) \/ EvaluatePromotion(p) \/ RecordEscape(p) \/ AttemptRecovery(p)
  BY <1>6, KeeperStep, TrustStepKeeps DEF GovernanceInv
<1>7. CASE Restart(p)
  BY <1>7, RestartKeeps
<1> QED
  BY <1>1, <1>2, <1>3, <1>4, <1>5, <1>6, <1>7

-----------------------------------------------------------------------------
(* What a profile may do, by status.                                       *)

Confidences == {"BC1", "BC2", "BC3"}
Tiers == {"A", "B", "C"}

\* the ceiling of the two statuses apart from a trusted one
LEMMA Ceilings ==
  ASSUME NEW bc \in Confidences, NEW tier \in Tiers, NEW status \in Statuses
  PROVE  AutonomyCeiling(bc, tier, status) =
           IF bc = "BC3" \/ status = "constrained" THEN "human"
           ELSE IF bc = "BC2" THEN IF tier = "A" THEN "human" ELSE "hybrid"
           ELSE IF status = "trusted" /\ tier = "C" THEN "agent" ELSE "hybrid"
<1>1. CASE bc = "BC3" \/ status = "constrained"
  BY <1>1 DEF AutonomyCeiling
<1>2. CASE bc = "BC2" /\ status # "constrained"
  BY <1>2 DEF AutonomyCeiling
<1>3. CASE bc = "BC1" /\ status # "constrained"
  BY <1>3 DEF AutonomyCeiling
<1> QED
  BY <1>1, <1>2, <1>3 DEF Confidences

\* no contraction loosens the ceiling of any work
LEMMA ContractedTightens ==
  ASSUME NEW bc \in Confidences, NEW tier \in Tiers,
         NEW status \in Statuses \ {"constrained"}
  PROVE  /\ Contracted[status] \in Statuses \ {"candidate", "trusted"}
         /\ status = "watch" => Contracted[status] = "constrained"
         /\ GateRank[AutonomyCeiling(bc, tier, Contracted[status])]
              >= GateRank[AutonomyCeiling(bc, tier, status)]
<1>1. /\ Contracted[status] \in Statuses \ {"candidate", "trusted"}
      /\ status = "watch" => Contracted[status] = "constrained"
  BY DEF Contracted, Statuses
<1> DEFINE before == AutonomyCeiling(bc, tier, status)
           after  == AutonomyCeiling(bc, tier, Contracted[status])
<1>2. /\ before \in {"agent", "hybrid", "human"} /\ after \in {"agent", "hybrid", "human"}
      /\ before = "hybrid" => after \in {"hybrid", "human"}
      /\ before = "human" => after = "human"
  BY <1>1, Ceilings DEF Confidences, Tiers
<1> HIDE DEF before, after
<1>3. GateRank[after] >= GateRank[before]
  BY <1>2 DEF GateRank
<1> QED
  BY <1>1, <1>3 DEF before, after

-----------------------------------------------------------------------------
(* The invariants of every state.                                          *)

LEMMA InvSound == GovernanceInv => GovernanceSound
<1> SUFFICES ASSUME GovernanceInv PROVE GovernanceSound
  OBVIOUS
<1>1. GovernanceTypeOK
  BY DEF GovernanceInv, SwitchInv, SwitchTyped, EmergencyInv, EmergencyTyped, TrustInv, Profiles,
         GovernanceTypeOK
<1>2. HaltsAccounted
  BY <1>1 DEF HaltsAccounted, GovernanceInv, SwitchInv, EmergencyInv
<1>3. TrustEarned
  <2> SUFFICES ASSUME NEW p \in Keepers
               PROVE  LET status == profile[p].status
                      IN /\ status = "trusted" => profile[p].earned
                         /\ \A bc \in Confidences, tier \in Tiers :
                              AutonomyCeiling(bc, tier, status) = "agent" =>
                                profile[p].earned /\ bc = "BC1" /\ tier = "C"
    BY DEF TrustEarned, Confidences, Tiers
  <2>1. TrustInv
    BY DEF GovernanceInv
  <2>2. /\ profile[p].status \in Statuses
        /\ profile[p].status = "trusted" => profile[p].earned
    BY <2>1, KeptProfile
  <2>3. ASSUME NEW bc \in Confidences, NEW tier \in Tiers,
               AutonomyCeiling(bc, tier, profile[p].status) = "agent"
        PROVE  profile[p].status = "trusted" /\ bc = "BC1" /\ tier = "C"
    BY <2>2, <2>3, Ceilings DEF Confidences, Tiers
  <2> QED
    BY <2>2, <2>3
<1> QED
  BY <1>2, <1>3 DEF GovernanceSound

(* Of every state: what is halted is recorded, and stored where a          *)
(* repository is wired, unless its change raised; task issuance is halted  *)
(* under an active emergency, with its deadline running; and trust was     *)
(* earned.                                                                 *)
THEOREM GovernanceIsSound == GovernanceSpec => []GovernanceSound
BY InitInv, StepKeeps, InvSound, PTL DEF GovernanceSpec

-----------------------------------------------------------------------------
(* The claims on every step.                                               *)

LEMMA EndsWhole ==
  ASSUME GovernanceInv, [GovernanceNext]_governanceVars, NEW p \in Procs,
         active[p] # None, active'[p] = None, ~Restart(p)
  PROVE  "task_issuance" \notin halted'[p] /\ active[p] \notin deadlines'[p]
<1>1. /\ active \in [Procs -> Emergencies \cup {None}]
      /\ deadlines \in [Procs -> SUBSET Emergencies]
  BY DEF GovernanceInv, EmergencyInv, EmergencyTyped
<1>2. CASE UNCHANGED active
  BY <1>2
<1>3. CASE \E q \in Procs, m \in Emergencies : Declare(q, m)
  <2>1. PICK q \in Procs, m \in Emergencies : Declare(q, m)
    BY <1>3
  <2>2. PICK outcome : active' = [active EXCEPT ![q] = IF outcome = "returns" THEN m ELSE @]
    BY <2>1 DEF Declare
  <2>3. m # None
    BY GovernanceConstants
  <2> QED
    BY <1>1, <2>2, <2>3
<1>4. CASE \E q \in Procs, m \in Emergencies : Resolve(q, m)
  <2>1. PICK q \in Procs, m \in Emergencies : Resolve(q, m)
    BY <1>4
  <2>2. Switched(q, {"task_issuance"}, FALSE) /\ active[q] = m
    BY <2>1, ResolveKeeps DEF Resolve
  <2>3. PICK outcome :
          /\ deadlines' = [deadlines EXCEPT ![q] =
               IF outcome \in {"returns", "resolution"} THEN @ \ {m} ELSE @]
          /\ active' = [active EXCEPT ![q] = IF outcome = "returns" THEN None ELSE @]
    BY <2>1 DEF Resolve
  <2>4. q = p /\ outcome = "returns"
    BY <1>1, <2>3
  <2> QED
    BY <1>1, <2>2, <2>3, <2>4 DEF Switched
<1>5. CASE \E q \in Procs : Restart(q)
  <2>1. PICK q \in Procs : Restart(q)
    BY <1>5
  <2>2. q # p
    BY <2>1
  <2>3. active'[p] = active[p]
    BY <1>1, <2>1, <2>2 DEF Restart
  <2> QED
    BY <2>3
<1>6. CASE \E q \in Keepers : TrustStep(q)
  BY <1>6 DEF TrustStep, emergencyVars
<1> QED
  <2>1. \/ UNCHANGED active
        \/ \E q \in Procs, m \in Emergencies : Declare(q, m)
        \/ \E q \in Procs, m \in Emergencies : Resolve(q, m)
        \/ \E q \in Procs : Restart(q)
        \/ \E q \in Keepers : TrustStep(q)
    BY KeeperStep DEF GovernanceInv, GovernanceNext, governanceVars, emergencyVars, Activate,
       Recover, AutoTrigger, LoadFromDb
  <2> QED
    BY <2>1, <1>2, <1>3, <1>4, <1>5, <1>6

\* every step of a profile is one of the four actions or the end of its process
LEMMA ProfileSteps ==
  ASSUME GovernanceInv, [GovernanceNext]_governanceVars, NEW p \in Keepers
  PROVE  \/ profile'[p] = profile[p]
         \/ Restart(p) /\ profile'[p] = NewProfile
         \/ /\ IsBlocked(p) => profile'[p].status = profile[p].status
            /\ \/ profile'[p].escapes = profile[p].escapes
               \/ /\ profile'[p].status = Contracted[profile[p].status]
                  /\ profile[p].status # "constrained"
<1>1. \/ UNCHANGED profile
      \/ \E q \in Procs : Restart(q)
      \/ \E q \in Keepers : TrustStep(q)
  BY KeeperStep DEF GovernanceInv, GovernanceNext, governanceVars, Activate, Recover,
     AutoTrigger, LoadFromDb, Declare, Resolve
<1>2. CASE \E q \in Procs : Restart(q)
  BY <1>2, RestartTrust DEF GovernanceInv
<1>3. CASE \E q \in Keepers : TrustStep(q)
  <2>1. PICK q \in Keepers : TrustStep(q)
    BY <1>3
  <2>2. PICK new \in Profiles :
          /\ profile' = [profile EXCEPT ![q] = new]
          /\ IsBlocked(q) => new.status = profile[q].status
          /\ \/ new.escapes = profile[q].escapes
             \/ new.status = Contracted[profile[q].status] /\ profile[q].status # "constrained"
    BY <2>1 DEF TrustStep
  <2> QED
    BY <2>2 DEF GovernanceInv, TrustInv
<1> QED
  BY <1>1, <1>2, <1>3

LEMMA StepFrozen ==
  ASSUME GovernanceInv, [GovernanceNext]_governanceVars, NEW p \in Keepers,
         IsBlocked(p), ~Restart(p)
  PROVE  profile'[p].status = profile[p].status
BY ProfileSteps

LEMMA StepCosts ==
  ASSUME GovernanceInv, [GovernanceNext]_governanceVars, NEW p \in Keepers,
         profile'[p].escapes > profile[p].escapes
  PROVE  /\ profile[p].status = "watch" => profile'[p].status = "constrained"
         /\ \A bc \in Confidences, tier \in Tiers :
              GateRank[AutonomyCeiling(bc, tier, profile'[p].status)]
                >= GateRank[AutonomyCeiling(bc, tier, profile[p].status)]
<1>1. /\ profile[p].escapes \in 0..MaxEscapes /\ profile[p].status \in Statuses
  BY KeptProfile DEF GovernanceInv
<1>2. NewProfile.escapes = 0
  BY DEF NewProfile
<1>3. /\ profile'[p].status = Contracted[profile[p].status]
      /\ profile[p].status \in Statuses \ {"constrained"}
  BY <1>1, <1>2, ProfileSteps
<1> QED
  BY <1>3, ContractedTightens DEF Confidences, Tiers

(* An emergency ends whole, other than with its process; nothing moves a   *)
(* profile under a halt of registry writes; and no escape loosens what it  *)
(* may do.                                                                 *)
THEOREM GovernanceIsKept == GovernanceSpec => GovernanceKeeps
<1>1. GovernanceInv /\ [GovernanceNext]_governanceVars =>
        [\A p \in Procs :
           active[p] # None /\ active'[p] = None /\ ~Restart(p) =>
             /\ "task_issuance" \notin halted'[p]
             /\ active[p] \notin deadlines'[p]]_governanceVars
  BY EndsWhole
<1>2. GovernanceInv /\ [GovernanceNext]_governanceVars =>
        [\A p \in Keepers : IsBlocked(p) /\ ~Restart(p) =>
           profile'[p].status = profile[p].status]_governanceVars
  BY StepFrozen
<1>3. GovernanceInv /\ [GovernanceNext]_governanceVars =>
        [\A p \in Keepers :
           LET old == profile[p] new == profile'[p]
           IN new.escapes > old.escapes =>
                /\ old.status = "watch" => new.status = "constrained"
                /\ \A bc \in {"BC1", "BC2", "BC3"}, tier \in {"A", "B", "C"} :
                     GateRank[AutonomyCeiling(bc, tier, new.status)]
                       >= GateRank[AutonomyCeiling(bc, tier, old.status)]]_governanceVars
  BY StepCosts DEF Confidences, Tiers
<1> QED
  BY <1>1, <1>2, <1>3, InitInv, StepKeeps, PTL
  DEF GovernanceSpec, GovernanceKeeps, EmergencyEndsWhole, TrustKept, TrustFrozen, EscapeCosts
=============================================================================
