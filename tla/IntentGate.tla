----------------------------- MODULE IntentGate -----------------------------
(***************************************************************************)
(* The Intent Gate: what a request has to say of itself before an agent is *)
(* started on it.  `ces build` may judge one request up to four times:     *)
(* before the project exists, while the brief is collected, after it, and  *)
(* on entry to the flow that stores it; `ces continue` judges the stored   *)
(* brief again.  Each time the mode, the answers and whether anybody can   *)
(* be asked are found out anew.                                            *)
(*                                                                         *)
(* Of a request the gate reads whether it has a word of risk and whether   *)
(* it has acceptance criteria; "unfit" is one that the specification       *)
(* ledger refuses, with a secret in it or too long.  Low-risk wording      *)
(* leads to the same decision as any other plain request.                  *)
(***************************************************************************)
EXTENDS Integers, Sequences, FiniteSets

CONSTANTS
  Askers,        \* the commands users give, each once
  Settings,      \* what the configuration may say of the mode, "" for nothing
  MaxBriefs, MaxKills

Modes == {"off", "rules", "strict", "llm"}

ASSUME IntentConstants == Settings \subseteq Modes \cup {""} /\ {MaxBriefs, MaxKills} \subseteq Nat

VARIABLES
  ground,        \* the directory: its kind and whether it is a CES project
  setting,       \* reverse_preflight of configuration or environment
  briefs,        \* builder_briefs, oldest first
  sessionsOf,    \* of each builder session its brief, oldest first
  preflights,    \* intent_gate_preflights, oldest first
  asker,         \* the commands
  kills

intentVars == <<ground, setting, briefs, sessionsOf, preflights, asker, kills>>

Texts == {"plain", "risky", "unfit"}
Refusals == {"ask", "blocked", "raises"}

(* "silent" is --yes with a description, "yes" --yes without one, when the *)
(* brief is asked for all the same, "wizard" the guided way.  The source   *)
(* of truth and the flows of a brownfield brief are given or not.          *)
Orders ==
  {o \in [style : {"silent", "yes", "wizard"}, text : Texts, provided : BOOLEAN,
          flows : BOOLEAN, forced : {"", "greenfield", "brownfield"}, cli : Modes] :
     o.style # "silent" => o.flows /\ o.forced = ""}

(* A directory with a .git alone is brownfield for the check before the    *)
(* project exists only, one with a file of another kind for the brief only.*)
Grounds == {"empty", "git_only", "notes", "package"}
EarlyBrown(o) == o.forced = "brownfield" \/ ground.kind \in {"git_only", "package"}
LateBrown(o) ==
  o.forced = "brownfield" \/ (o.forced = "" /\ ground.kind \in {"notes", "package"})

NoOrder == [style |-> "wizard", text |-> "plain", provided |-> FALSE, flows |-> TRUE,
            forced |-> "", cli |-> "rules"]
Idle == [at |-> "idle", command |-> "none", order |-> NoOrder, mode |-> "none",
         text |-> "plain", criteria |-> FALSE, decision |-> "none", source |-> "none",
         asked |-> FALSE, brief |-> 0, session |-> 0]

-----------------------------------------------------------------------------
(* classify_intent                                                         *)
Classify(text, criteria, silent) ==
  IF text = "unfit" THEN "raises"
  ELSE IF criteria THEN "proceed"
  ELSE IF text = "plain" THEN "assume_and_proceed"
  ELSE IF silent THEN "blocked" ELSE "ask"

(* The mode of the command line counts unless it is the default one.       *)
ModeOf(cli) == IF cli # "rules" \/ setting = "" THEN cli ELSE setting

(* Every verdict of the gate on what a command holds, with where it comes  *)
(* from.  A model may say anything; what it says is only taken when it has *)
(* the form of a preflight, and otherwise the rules decide.                *)
Verdicts(a, silent) ==
  LET ruled == IF a.decision = "none" THEN Classify(a.text, a.criteria, silent) ELSE a.decision
  IN  CASE a.mode = "off" -> {<<"none", "off">>}
        [] a.mode = "rules" -> {<<ruled, "rules">>}
        [] a.mode = "strict" -> {<<IF ruled = "ask" THEN "blocked" ELSE ruled, "rules">>}
        [] a.mode = "llm" ->
             {<<ruled, "rules">>}
             \cup {<<d, "llm">> : d \in {"ask", "blocked", "assume_and_proceed", "proceed"}}

(* Faulty variant, used by a mutant of PROJECT.json only: a question that  *)
(* nobody was asked is no refusal.                                         *)
JudgedLeniently(a, silent, next) ==
  {IF v[1] \in {"blocked", "raises"}
     THEN [a EXCEPT !.at = "refused"]
     ELSE [a EXCEPT !.at = next, !.decision = v[1], !.source = v[2]] : v \in Verdicts(a, silent)}

(* _validate_intent_gate_allows_runtime                                    *)
Judged(a, silent, next) ==
  {IF v[1] \in Refusals
     THEN [a EXCEPT !.at = "refused"]
     ELSE [a EXCEPT !.at = next, !.decision = v[1], !.source = v[2]] : v \in Verdicts(a, silent)}

-----------------------------------------------------------------------------
IntentInit ==
  /\ ground \in [kind : Grounds, ces : {FALSE}] /\ setting \in Settings
  /\ briefs = <<>> /\ sessionsOf = <<>> /\ preflights = <<>>
  /\ asker = [u \in Askers |-> Idle] /\ kills = 0

Store(u, a) == asker' = [asker EXCEPT ![u] = a] /\ UNCHANGED kills

(* What a build without anybody to ask must be given; it is looked at      *)
(* before the project is made, with the mode of the command line.          *)
InputsSuffice(o) ==
  o.style = "silent" =>
    /\ o.cli \in {"rules", "strict"} => Classify(o.text, o.provided, TRUE) \notin Refusals
    /\ o.provided
    /\ o.forced # "greenfield" /\ EarlyBrown(o) => o.flows

StartBuild(u) ==
  /\ asker[u].at = "idle"
  /\ Cardinality({v \in Askers : asker[v].command = "build"}) < MaxBriefs
  /\ \E o \in Orders :
       Store(u, [Idle EXCEPT !.command = "build", !.order = o, !.text = o.text,
                             !.at = IF InputsSuffice(o) THEN "checked" ELSE "refused"])
  /\ UNCHANGED <<ground, setting, briefs, sessionsOf, preflights>>

(* _ensure_builder_project; then the mode is settled.                      *)
Bootstrap(u) ==
  /\ asker[u].at = "checked"
  /\ ground' = [ground EXCEPT !.ces = TRUE]
  /\ Store(u, [asker[u] EXCEPT !.at = "ready", !.mode = ModeOf(asker[u].order.cli)])
  /\ UNCHANGED <<setting, briefs, sessionsOf, preflights>>

(* collect_brief: whoever is asked at all is asked for criteria, and in    *)
(* the mode of rules once more for those the gate misses.                  *)
Collected(a) ==
  LET silent == a.order.style = "silent"
      gated == a.mode = "rules"
      First(criteria) ==
        [a EXCEPT !.at = "collected", !.criteria = criteria,
                  !.decision = IF gated THEN Classify(a.text, criteria, silent) ELSE "none"]
      Again(b) ==
        IF b.decision # "ask" THEN {b}
        ELSE {[b EXCEPT !.asked = TRUE],
              [b EXCEPT !.asked = TRUE, !.criteria = TRUE,
                        !.decision = Classify(a.text, TRUE, silent)]}
  IN  UNION {Again(First(c)) : c \in IF silent THEN {a.order.provided}
                                     ELSE {a.order.provided, TRUE}}

(* A brief without anybody to ask is also held against what was required   *)
(* of it before; the guided way ends in a question to the user.            *)
Complete(a) ==
  a.order.style = "silent" => a.criteria /\ (LateBrown(a.order) => a.order.flows)

Collect(u) ==
  /\ asker[u].at = "ready"
  /\ \E b \in Collected(asker[u]) :
       IF b.decision = "raises"
         THEN Store(u, [b EXCEPT !.at = "refused"])
         ELSE IF b.mode = "llm" \/ b.order.style = "yes"
           THEN Store(u, IF Complete(b) THEN b ELSE [b EXCEPT !.at = "refused"])
           ELSE \E j \in Judged(b, b.order.style = "silent", "collected") :
                  Store(u, IF Complete(b) THEN j ELSE [j EXCEPT !.at = "refused"])
  /\ UNCHANGED <<ground, setting, briefs, sessionsOf, preflights>>

Decline(u) ==
  /\ asker[u].at = "collected" /\ asker[u].command = "build"
  /\ asker[u].order.style = "wizard"
  /\ Store(u, [asker[u] EXCEPT !.at = "gone"])
  /\ UNCHANGED <<ground, setting, briefs, sessionsOf, preflights>>

(* continue_task takes the latest session, or makes one for the latest     *)
(* brief, and knows of no mode but the default one.                        *)
Resume(u) ==
  /\ asker[u].at = "idle" /\ ground.ces /\ briefs # <<>>
  /\ LET fresh == sessionsOf = <<>>
         sessions == IF fresh THEN <<Len(briefs)>> ELSE sessionsOf
         b == sessions[Len(sessions)]
     IN  /\ sessionsOf' = sessions
         /\ \E style \in {"silent", "wizard"} :
              Store(u, [Idle EXCEPT !.at = "collected", !.command = "continue", !.mode = "rules",
                          !.order = [NoOrder EXCEPT !.style = style], !.text = briefs[b].text,
                          !.criteria = briefs[b].criteria, !.brief = b, !.session = Len(sessions)])
  /\ UNCHANGED <<ground, setting, briefs, preflights>>

(* The entry of _run_brief_flow: the model is asked here, and a brief that *)
(* was judged keeps its preflight.                                         *)
Enter(u) ==
  /\ asker[u].at = "collected"
  /\ \E j \in Judged(asker[u], asker[u].order.style # "wizard", "passed") : Store(u, j)
  /\ UNCHANGED <<ground, setting, briefs, sessionsOf, preflights>>

SaveBrief(u) ==
  /\ asker[u].at = "passed" /\ asker[u].brief = 0
  /\ briefs' = Append(briefs, [text |-> asker[u].text, criteria |-> asker[u].criteria,
                               by |-> asker[u].source])
  /\ Store(u, [asker[u] EXCEPT !.brief = Len(briefs')])
  /\ UNCHANGED <<ground, setting, sessionsOf, preflights>>

SaveSession(u) ==
  /\ asker[u].at = "passed" /\ asker[u].brief # 0 /\ asker[u].session = 0
  /\ sessionsOf' = Append(sessionsOf, asker[u].brief)
  /\ Store(u, [asker[u] EXCEPT !.session = Len(sessionsOf')])
  /\ UNCHANGED <<ground, setting, briefs, preflights>>

(* A command that was not judged has no preflight to save.                 *)
SavePreflight(u) ==
  /\ asker[u].at = "passed" /\ asker[u].session # 0
  /\ preflights' = IF asker[u].decision = "none" THEN preflights
                   ELSE Append(preflights, [brief |-> asker[u].brief, session |-> asker[u].session,
                                            decision |-> asker[u].decision])
  /\ Store(u, [asker[u] EXCEPT !.at = "launched"])
  /\ UNCHANGED <<ground, setting, briefs, sessionsOf>>

Ended == {"idle", "refused", "launched", "gone"}

Kill(u) ==
  /\ asker[u].at \notin Ended /\ kills < MaxKills
  /\ asker' = [asker EXCEPT ![u].at = "gone"] /\ kills' = kills + 1
  /\ UNCHANGED <<ground, setting, briefs, sessionsOf, preflights>>

IntentNext ==
  \E u \in Askers :
    \/ StartBuild(u) \/ Bootstrap(u) \/ Collect(u) \/ Decline(u) \/ Resume(u)
    \/ Enter(u) \/ SaveBrief(u) \/ SaveSession(u) \/ SavePreflight(u) \/ Kill(u)

IntentSpec == IntentInit /\ [][IntentNext]_intentVars

(* What explain and report may show of a session: the last judged of the   *)
(* preflights of its own, else of those of its brief.  When each was       *)
(* judged is not kept here, so any of them may be the last.                *)
Shown(s) ==
  LET own == {i \in DOMAIN preflights : preflights[i].session = s}
      kin == {i \in DOMAIN preflights : preflights[i].brief = sessionsOf[s]}
  IN  {preflights[i].decision : i \in IF own # {} THEN own ELSE kin}

-----------------------------------------------------------------------------
IntentTypeOK ==
  /\ ground.kind \in Grounds /\ setting \in Settings
  /\ \A u \in Askers :
       /\ asker[u].at \in Ended \cup {"checked", "ready", "collected", "passed"}
       /\ asker[u].brief \in 0 .. Len(briefs) /\ asker[u].session \in 0 .. Len(sessionsOf)

NeedsCriteria(x) == x.text = "unfit" \/ (x.text = "risky" /\ ~x.criteria)

(* No agent is started, and no brief stored, for a risky request without   *)
(* criteria, over whichever of the four judgements it came, unless the     *)
(* gate is off or a model has let it pass.  `ces continue` knows neither.  *)
GateHeld ==
  /\ \A u \in Askers :
       asker[u].at \in {"passed", "launched"} /\ NeedsCriteria(asker[u]) =>
         asker[u].command = "build" /\ asker[u].source \in {"off", "llm"}
  /\ \A b \in DOMAIN briefs : NeedsCriteria(briefs[b]) => briefs[b].by \in {"off", "llm"}

(* Whoever answers the question of the gate is let through by it, and what *)
(* `ces build` has passed by the rules, `ces continue` passes.             *)
GateAgrees ==
  \A u \in Askers :
    asker[u].at = "refused" =>
      /\ ~(asker[u].asked /\ asker[u].criteria)
      /\ asker[u].command = "continue" => briefs[asker[u].brief].by \in {"off", "llm"}

(* A build that is refused stores no brief; and one that asks nobody makes *)
(* no project either, but where a model refuses it or the directory turns  *)
(* out brownfield by files that the first look does not know.              *)
RefusalLeavesNothing ==
  \A u \in Askers :
    asker[u].at = "refused" /\ asker[u].command = "build" =>
      /\ asker[u].brief = 0
      /\ asker[u].order.style = "silent" /\ asker[u].mode # "none" =>
           asker[u].mode = "llm" \/ (ground.kind = "notes" /\ ~asker[u].order.flows)

(* What is shown of a session is a decision by which an agent was let      *)
(* loose on its own brief; and whatever was started by the gate shows one, *)
(* whoever was killed in between.                                          *)
ShownDecides ==
  /\ \A i \in DOMAIN preflights :
       /\ preflights[i].decision \in {"assume_and_proceed", "proceed"}
       /\ preflights[i].brief = sessionsOf[preflights[i].session]
  /\ \A u \in Askers :
       asker[u].at = "launched" /\ asker[u].mode # "off" => Shown(asker[u].session) # {}

(* A build starts from what the gate decided and showed, whichever         *)
(* commands it took.                                                       *)
IntentSound ==
  IntentTypeOK /\ GateHeld /\ GateAgrees /\ RefusalLeavesNothing /\ ShownDecides
=============================================================================
