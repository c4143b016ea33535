---------------------------- MODULE Gates_proofs -----------------------------
(***************************************************************************)
(* The three gates a build passes: the Intent Gate before an agent is      *)
(* started, the proof card before an approval goes on, and the merge       *)
(* controller.  None can be walked around, however many commands build,    *)
(* verify and approve, whatever files are replaced meanwhile.              *)
(***************************************************************************)
EXTENDS MergeController, CompletionProof, IntentGate, TLAPS

-----------------------------------------------------------------------------
(* The Intent Gate.  A command carries the judgement it got from one of    *)
(* the four places to the next, so the invariant says of what it holds how *)
(* it was judged, and that it still is what its brief says.                *)

Passing == {"assume_and_proceed", "proceed"}
Decisions == Passing \cup Refusals
Sources == {"none", "off", "rules", "llm"}
Places == Ended \cup {"checked", "ready", "collected", "passed"}

Askings ==
  [at : Places, command : {"none", "build", "continue"}, order : Orders,
   mode : Modes \cup {"none"}, text : Texts, criteria : BOOLEAN,
   decision : Decisions \cup {"none"}, source : Sources, asked : BOOLEAN,
   brief : Nat, session : Nat]

Briefs == [text : Texts, criteria : BOOLEAN, by : Sources]
Preflights == [brief : Nat, session : Nat, decision : Decisions]

IntentTyped ==
  /\ ground \in [kind : Grounds, ces : BOOLEAN] /\ setting \in Settings
  /\ briefs \in Seq(Briefs) /\ sessionsOf \in Seq(Nat) /\ preflights \in Seq(Preflights)
  /\ asker \in [Askers -> Askings]

\* what is stored fits together, and was judged
StoredJudged ==
  /\ \A b \in DOMAIN briefs : NeedsCriteria(briefs[b]) => briefs[b].by \in {"off", "llm"}
  /\ \A s \in DOMAIN sessionsOf : sessionsOf[s] \in DOMAIN briefs
  /\ \A i \in DOMAIN preflights :
       /\ preflights[i].decision \in Passing
       /\ preflights[i].session \in DOMAIN sessionsOf
       /\ preflights[i].brief = sessionsOf[preflights[i].session]

\* what a command names is stored
NamesStored(a) ==
  /\ a.brief # 0 => a.brief \in DOMAIN briefs
  /\ a.session # 0 => a.session \in DOMAIN sessionsOf /\ sessionsOf[a.session] = a.brief
  /\ a.command = "continue" =>
       /\ a.brief # 0 /\ a.text = briefs[a.brief].text
       /\ a.criteria = briefs[a.brief].criteria
  /\ a.at = "launched" /\ a.mode # "off" =>
       \E i \in DOMAIN preflights : preflights[i].session = a.session
  /\ a.at = "launched" => a.session # 0

\* how a command has been judged where it stands
WasJudged(a) ==
  /\ a.command = "continue" => a.mode = "rules"
  /\ a.at = "checked" => a.mode = "none"
  /\ a.at \in {"ready", "collected", "passed", "launched"} => a.mode \in Modes
  /\ a.at = "collected" => a.source # "llm" /\ (a.mode \in {"off", "llm"} => a.decision = "none")
  /\ a.at \in {"checked", "ready"} => a.decision = "none" /\ a.source = "none" /\ ~a.asked
  /\ a.at = "collected" /\ a.command = "continue" => a.decision = "none"
  /\ a.at = "collected" /\ a.decision \in Passing => ~NeedsCriteria(a)
  /\ a.at \in {"passed", "launched"} =>
       /\ NeedsCriteria(a) => a.command = "build" /\ a.source \in {"off", "llm"}
       /\ a.decision \in Passing \/ (a.mode = "off" /\ a.decision = "none")
  /\ a.asked /\ a.criteria => a.decision = "proceed" /\ a.mode = "rules" /\ a.at # "refused"

\* a build without anybody to ask was given what the rules ask for
WasGiven(a) ==
  /\ a.at \in {"checked", "ready", "collected", "refused"} /\ a.command = "build" => a.brief = 0
  /\ a.at = "ready" => a.mode = ModeOf(a.order.cli)
  /\ a.at \in {"checked", "ready"} =>
       a.command = "build" /\ a.text = a.order.text /\ InputsSuffice(a.order)
  /\ a.at = "collected" /\ a.command = "build" /\ a.order.style = "silent" =>
       a.mode \in {"off", "llm"} \/ a.decision = "proceed"
  /\ a.at = "refused" /\ a.command = "build" /\ a.order.style = "silent" /\ a.mode # "none" =>
       a.mode = "llm" \/ (ground.kind = "notes" /\ ~a.order.flows)
  /\ a.at = "refused" /\ a.command = "continue" => briefs[a.brief].by \in {"off", "llm"}
  /\ a.at \in {"collected", "refused", "passed", "launched"} => a.command # "none"

Asks(a) == NamesStored(a) /\ WasJudged(a) /\ WasGiven(a)

IntentInv == IntentTyped /\ StoredJudged /\ \A u \in Askers : Asks(asker[u])

\* the stores only grow, and the directory stays what it is
Grown ==
  /\ ground'.kind = ground.kind /\ setting' = setting
  /\ DOMAIN briefs \subseteq DOMAIN briefs'
  /\ \A b \in DOMAIN briefs : briefs'[b] = briefs[b]
  /\ DOMAIN sessionsOf \subseteq DOMAIN sessionsOf'
  /\ \A s \in DOMAIN sessionsOf : sessionsOf'[s] = sessionsOf[s]
  /\ DOMAIN preflights \subseteq DOMAIN preflights'
  /\ \A i \in DOMAIN preflights : preflights'[i] = preflights[i]

LEMMA AsksOn ==
  ASSUME NEW a, Asks(a), Grown
  PROVE  /\ NamesStored(a)' /\ WasJudged(a)' /\ WasGiven(a)'
<1>1. NamesStored(a)'
  BY DEF Asks, NamesStored, Grown
<1>2. WasJudged(a)'
  BY DEF Asks, WasJudged
<1>3. WasGiven(a)'
  BY DEF Asks, WasGiven, NamesStored, Grown, InputsSuffice, ModeOf, EarlyBrown
<1> QED
  BY <1>1, <1>2, <1>3

LEMMA AskStep ==
  ASSUME IntentInv, NEW u \in Askers, asker' = [asker EXCEPT ![u] = asker'[u]],
         asker'[u] \in Askings, Asks(asker[u])', Grown, StoredJudged',
         ground' \in [kind : Grounds, ces : BOOLEAN], briefs' \in Seq(Briefs),
         sessionsOf' \in Seq(Nat), preflights' \in Seq(Preflights)
  PROVE  IntentInv'
<1>1. IntentTyped'
  <2>1. asker' \in [Askers -> Askings]
    BY DEF IntentInv, IntentTyped
  <2> QED
    BY <2>1 DEF IntentInv, IntentTyped, Grown
<1>2. ASSUME NEW v \in Askers PROVE Asks(asker[v])'
  <2>1. CASE v = u
    BY <2>1
  <2>2. CASE v # u
    <3>1. PICK a : a = asker[v]
      OBVIOUS
    <3>2. asker'[v] = a
      BY <2>2, <3>1 DEF IntentInv, IntentTyped
    <3>3. Asks(a)
      BY <3>1 DEF IntentInv
    <3>4. NamesStored(a)' /\ WasJudged(a)' /\ WasGiven(a)'
      BY <3>3, AsksOn
    <3>5. NamesStored(asker[v])'
      BY <3>2, <3>4 DEF NamesStored
    <3>6. WasJudged(asker[v])'
      BY <3>2, <3>4 DEF WasJudged
    <3>7. WasGiven(asker[v])'
      BY <3>2, <3>4 DEF WasGiven
    <3> QED
      BY <3>5, <3>6, <3>7 DEF Asks
  <2> QED
    BY <2>1, <2>2
<1> QED
  BY <1>1, <1>2 DEF IntentInv

\* a step that stores nothing
LEMMA AskAlone ==
  ASSUME IntentInv, NEW u \in Askers, asker' = [asker EXCEPT ![u] = asker'[u]],
         asker'[u] \in Askings, Asks(asker[u])',
         UNCHANGED <<setting, briefs, sessionsOf, preflights>>,
         ground' = ground \/ ground' = [ground EXCEPT !.ces = TRUE]
  PROVE  IntentInv'
<1>1. ground' \in [kind : Grounds, ces : BOOLEAN] /\ ground'.kind = ground.kind
  BY DEF IntentInv, IntentTyped
<1>2. Grown
  BY <1>1 DEF Grown
<1>3. StoredJudged'
  BY DEF IntentInv, StoredJudged
<1> QED
  BY <1>1, <1>2, <1>3, AskStep DEF IntentInv, IntentTyped

-----------------------------------------------------------------------------
(* Judgements.                                                             *)

LEMMA ClassifyWhat ==
  ASSUME NEW text \in Texts, NEW criteria \in BOOLEAN, NEW silent \in BOOLEAN
  PROVE  /\ Classify(text, criteria, silent) \in Decisions
         /\ Classify(text, criteria, silent) \in Refusals <=>
              text = "unfit" \/ (text = "risky" /\ ~criteria)
         /\ Classify(text, criteria, silent) \in Passing <=>
              ~(text = "unfit" \/ (text = "risky" /\ ~criteria))
         /\ criteria /\ text # "unfit" => Classify(text, criteria, silent) = "proceed"
         /\ Classify(text, criteria, silent) = "ask" => text # "unfit" /\ ~criteria /\ ~silent
BY DEF Classify, Texts, Decisions, Passing, Refusals

Ruled(a, silent) == IF a.decision = "none" THEN Classify(a.text, a.criteria, silent) ELSE a.decision

LEMMA AskingShape ==
  ASSUME NEW a \in Askings
  PROVE  /\ a.at \in Places /\ a.command \in {"none", "build", "continue"} /\ a.order \in Orders
         /\ a.mode \in Modes \cup {"none"} /\ a.text \in Texts /\ a.criteria \in BOOLEAN
         /\ a.decision \in Decisions \cup {"none"} /\ a.source \in Sources /\ a.asked \in BOOLEAN
         /\ a.brief \in Nat /\ a.session \in Nat
BY DEF Askings

\* what a judgement leaves alone
SameRequest(j, a) ==
  /\ j.command = a.command /\ j.order = a.order /\ j.mode = a.mode /\ j.text = a.text
  /\ j.criteria = a.criteria /\ j.asked = a.asked /\ j.brief = a.brief /\ j.session = a.session

LEMMA PutAt ==
  ASSUME NEW a \in Askings, NEW at \in Places, NEW b, b = [a EXCEPT !.at = at]
  PROVE  /\ b \in Askings /\ b.at = at /\ b.decision = a.decision /\ b.source = a.source
         /\ SameRequest(b, a)
BY DEF Askings, SameRequest

LEMMA JudgedWhat ==
  ASSUME NEW a \in Askings, a.mode \in Modes, NEW silent \in BOOLEAN, NEW next \in Places,
         NEW j \in Judged(a, silent, next)
  PROVE  /\ j \in Askings /\ SameRequest(j, a)
         /\ \/ /\ j.at = "refused" /\ j.decision = a.decision /\ a.mode # "off"
               /\ a.mode \in {"rules", "strict"} => Ruled(a, silent) \in Refusals
            \/ /\ j.at = next
               /\ a.mode = "off" => j.decision = "none" /\ j.source = "off"
               /\ a.mode # "off" => j.decision \in Passing
               /\ a.mode \in {"rules", "strict"} => j.source = "rules"
               /\ a.mode = "llm" => j.source \in {"rules", "llm"}
               /\ j.source = "rules" => j.decision = Ruled(a, silent)
<1>1. PICK v \in Verdicts(a, silent) :
        j = IF v[1] \in Refusals THEN [a EXCEPT !.at = "refused"]
            ELSE [a EXCEPT !.at = next, !.decision = v[1], !.source = v[2]]
  BY DEF Judged
<1>2. Ruled(a, silent) \in Decisions
  BY AskingShape, ClassifyWhat DEF Ruled
<1>3. /\ v[1] \in Decisions \cup {"none"} /\ v[2] \in {"off", "rules", "llm"}
      /\ a.mode = "off" => v[1] = "none" /\ v[2] = "off"
      /\ a.mode # "off" => v[1] \in Decisions
      /\ a.mode \in {"rules", "strict"} => v[2] = "rules"
      /\ a.mode = "llm" => v[2] \in {"rules", "llm"}
      /\ v[2] = "rules" => v[1] = Ruled(a, silent) \/ (Ruled(a, silent) = "ask" /\ v[1] = "blocked")
  <2> DEFINE ruled == Ruled(a, silent)
  <2>1. Verdicts(a, silent) =
          CASE a.mode = "off" -> {<<"none", "off">>}
            [] a.mode = "rules" -> {<<ruled, "rules">>}
            [] a.mode = "strict" -> {<<IF ruled = "ask" THEN "blocked" ELSE ruled, "rules">>}
            [] a.mode = "llm" ->
                 {<<ruled, "rules">>}
                 \cup {<<d, "llm">> : d \in {"ask", "blocked", "assume_and_proceed", "proceed"}}
    BY DEF Verdicts, Ruled
  <2>6. v \in Verdicts(a, silent)
    BY <1>1
  <2> HIDE DEF ruled
  <2>2. ruled \in Decisions
    BY <1>2 DEF ruled
  <2>3. CASE a.mode = "off"
    BY <2>1, <2>3, <2>6
  <2>4. CASE a.mode = "rules"
    BY <2>1, <2>2, <2>6, <2>4 DEF ruled
  <2>5. CASE a.mode = "strict"
    BY <2>1, <2>2, <2>6, <2>5 DEF ruled, Decisions, Refusals
  <2>7. CASE a.mode = "llm"
    BY <2>1, <2>2, <2>6, <2>7 DEF ruled, Decisions, Passing, Refusals
  <2> QED
    BY <2>3, <2>4, <2>5, <2>7 DEF Modes
<1>4. CASE v[1] \in Refusals
  <2>1. j = [a EXCEPT !.at = "refused"] /\ "refused" \in Places
    BY <1>1, <1>4 DEF Places, Ended
  <2>2. j \in Askings /\ SameRequest(j, a) /\ j.at = "refused" /\ j.decision = a.decision
    BY <2>1, PutAt
  <2>3. a.mode # "off" /\ (a.mode \in {"rules", "strict"} => Ruled(a, silent) \in Refusals)
    <3>1. a.mode # "off"
      BY <1>3, <1>4 DEF Refusals
    <3>2. a.mode \in {"rules", "strict"} => Ruled(a, silent) \in Refusals
      BY <1>3, <1>4 DEF Refusals
    <3> QED
      BY <3>1, <3>2
  <2> QED
    BY <2>2, <2>3
<1>5. CASE v[1] \notin Refusals
  <2>1. j = [a EXCEPT !.at = next, !.decision = v[1], !.source = v[2]]
    BY <1>1, <1>5
  <2> DEFINE d == v[1]
             src == v[2]
  <2>2. /\ j \in Askings /\ SameRequest(j, a) /\ j.at = next
        /\ j.decision = d /\ j.source = src
    <3>1. d \in Decisions \cup {"none"} /\ src \in Sources
      BY <1>3 DEF Sources
    <3>2. j = [a EXCEPT !.at = next, !.decision = d, !.source = src]
      BY <2>1
    <3> HIDE DEF d, src
    <3> QED
      BY <3>1, <3>2 DEF Askings, SameRequest
  <2>3. v[1] \in Decisions => v[1] \in Passing
    BY <1>5 DEF Decisions
  <2>4. v[2] = "rules" => v[1] = Ruled(a, silent)
    BY <1>3, <1>5 DEF Refusals
  <2> QED
    BY <1>3, <2>2, <2>3, <2>4
<1> QED
  BY <1>4, <1>5

-----------------------------------------------------------------------------
LEMMA IntentStarts == IntentInit => IntentInv
<1> SUFFICES ASSUME IntentInit PROVE IntentInv
  OBVIOUS
<1>1. NoOrder \in Orders
  BY DEF NoOrder, Orders, Texts, Modes
<1>2. Idle \in Askings
  BY <1>1 DEF Idle, Askings, Places, Ended, Texts, Sources, Modes
<1>3. ground \in [kind : Grounds, ces : BOOLEAN] /\ setting \in Settings
  BY DEF IntentInit
<1>4. IntentTyped
  BY <1>2, <1>3 DEF IntentInit, IntentTyped
<1>5. StoredJudged
  BY DEF IntentInit, StoredJudged
<1>6. ASSUME NEW u \in Askers PROVE Asks(asker[u])
  <2>1. asker[u] = Idle
    BY DEF IntentInit
  <2>2. NamesStored(Idle) /\ WasJudged(Idle) /\ WasGiven(Idle)
    BY DEF Idle, NamesStored, WasJudged, WasGiven
  <2> QED
    BY <2>1, <2>2 DEF Asks
<1> QED
  BY <1>4, <1>5, <1>6 DEF IntentInv

LEMMA StartBuildKeeps ==
  ASSUME IntentInv, NEW u \in Askers, StartBuild(u)
  PROVE  IntentInv'
<1>0. PICK o \in Orders :
        asker' = [asker EXCEPT ![u] =
                    [Idle EXCEPT !.command = "build", !.order = o, !.text = o.text,
                                 !.at = IF InputsSuffice(o) THEN "checked" ELSE "refused"]]
  BY DEF StartBuild, Store
<1>1. PICK e :
        /\ e = [Idle EXCEPT !.command = "build", !.order = o, !.text = o.text,
                            !.at = IF InputsSuffice(o) THEN "checked" ELSE "refused"]
        /\ asker' = [asker EXCEPT ![u] = e]
  BY <1>0
<1>2. UNCHANGED <<ground, setting, briefs, sessionsOf, preflights>>
  BY DEF StartBuild
<1>3. o.text \in Texts
  BY DEF Orders
<1>4. /\ e.command = "build" /\ e.order = o /\ e.text = o.text /\ e.mode = "none"
      /\ e.at \in {"checked", "refused"} /\ (e.at = "checked" => InputsSuffice(o))
      /\ e.decision = "none" /\ e.source = "none" /\ e.asked = FALSE
      /\ e.brief = 0 /\ e.session = 0
  BY <1>1 DEF Idle
<1>5. e \in Askings
  BY <1>1, <1>3, <1>4 DEF Idle, Askings, Places, Ended, Sources
<1>6. asker'[u] = e /\ asker' = [asker EXCEPT ![u] = asker'[u]]
  BY <1>1 DEF IntentInv, IntentTyped
<1>7. NamesStored(asker[u])' /\ WasJudged(asker[u])'
  BY <1>4, <1>6 DEF NamesStored, WasJudged
<1>8. WasGiven(asker[u])'
  BY <1>2, <1>4, <1>6 DEF WasGiven, InputsSuffice, EarlyBrown
<1> QED
  BY <1>2, <1>5, <1>6, <1>7, <1>8, AskAlone DEF Asks

LEMMA ModeOfKnown ==
  ASSUME IntentTyped, NEW o \in Orders
  PROVE  /\ ModeOf(o.cli) \in Modes
         /\ ModeOf(o.cli) \in {"rules", "strict"} => o.cli \in {"rules", "strict"}
BY IntentConstants DEF IntentTyped, Orders, ModeOf, Modes

LEMMA BootstrapKeeps ==
  ASSUME IntentInv, NEW u \in Askers, Bootstrap(u)
  PROVE  IntentInv'
<1>1. PICK a \in Askings : a = asker[u]
  BY DEF IntentInv, IntentTyped
<1>2. PICK e : /\ e = [a EXCEPT !.at = "ready", !.mode = ModeOf(a.order.cli)]
               /\ asker' = [asker EXCEPT ![u] = e]
  BY <1>1 DEF Bootstrap, Store
<1>3. /\ a.at = "checked" /\ ground' = [ground EXCEPT !.ces = TRUE]
      /\ UNCHANGED <<setting, briefs, sessionsOf, preflights>>
  BY <1>1 DEF Bootstrap
<1>4. ModeOf(a.order.cli) \in Modes
  BY AskingShape, ModeOfKnown DEF IntentInv
<1>5. /\ e \in Askings /\ e.at = "ready" /\ e.mode = ModeOf(a.order.cli)
      /\ e.command = a.command /\ e.order = a.order /\ e.text = a.text
      /\ e.criteria = a.criteria /\ e.decision = a.decision /\ e.source = a.source
      /\ e.asked = a.asked /\ e.brief = a.brief /\ e.session = a.session
  BY <1>2, <1>4 DEF Askings, Places
<1>6. asker'[u] = e /\ asker' = [asker EXCEPT ![u] = asker'[u]]
  BY <1>2 DEF IntentInv, IntentTyped
<1>7. Asks(a) /\ ground'.kind = ground.kind
  BY <1>1, <1>3 DEF IntentInv, IntentTyped
<1>8. NamesStored(asker[u])'
  BY <1>3, <1>5, <1>6, <1>7 DEF Asks, NamesStored, WasGiven
<1>9. WasJudged(asker[u])'
  BY <1>3, <1>4, <1>5, <1>6, <1>7 DEF Asks, WasJudged, WasGiven
<1>10. WasGiven(asker[u])'
  BY <1>3, <1>5, <1>6, <1>7 DEF Asks, WasGiven, InputsSuffice, EarlyBrown, ModeOf
<1> QED
  BY <1>3, <1>5, <1>6, <1>8, <1>9, <1>10, AskAlone DEF Asks

LEMMA GoneKeeps ==
  ASSUME IntentInv, NEW u \in Askers, asker' = [asker EXCEPT ![u].at = "gone"],
         UNCHANGED <<ground, setting, briefs, sessionsOf, preflights>>
  PROVE  IntentInv'
<1>1. PICK a \in Askings : a = asker[u]
  BY DEF IntentInv, IntentTyped
<1>2. PICK e : e = [a EXCEPT !.at = "gone"]
  OBVIOUS
<1>3. asker'[u] = e /\ asker' = [asker EXCEPT ![u] = asker'[u]]
  BY <1>1, <1>2 DEF IntentInv, IntentTyped
<1>4. e \in Askings /\ e.at = "gone" /\ SameRequest(e, a) /\ e.decision = a.decision
  BY <1>2, PutAt DEF Places, Ended
<1>5. Asks(a)
  BY <1>1 DEF IntentInv
<1>6. NamesStored(asker[u])'
  BY <1>3, <1>4, <1>5 DEF Asks, NamesStored, SameRequest
<1>7. WasJudged(asker[u])'
  BY <1>3, <1>4, <1>5 DEF Asks, WasJudged, SameRequest
<1>8. WasGiven(asker[u])'
  BY <1>3, <1>4, <1>5 DEF Asks, WasGiven, SameRequest
<1> QED
  BY <1>3, <1>4, <1>6, <1>7, <1>8, AskAlone DEF Asks

(* What the brief holds when it has been asked for.                        *)
LEMMA CollectedWhat ==
  ASSUME NEW a \in Askings, a.decision = "none", ~a.asked,
         NEW b \in Collected(a)
  PROVE  LET silent == a.order.style = "silent"
         IN  /\ b \in Askings /\ b.at = "collected"
             /\ b.command = a.command /\ b.order = a.order /\ b.mode = a.mode
             /\ b.text = a.text /\ b.source = a.source
             /\ b.brief = a.brief /\ b.session = a.session
             /\ silent => b.criteria = a.order.provided /\ ~b.asked
             /\ b.decision = IF a.mode = "rules" THEN Classify(a.text, b.criteria, silent)
                             ELSE "none"
             /\ b.asked => a.mode = "rules"
             /\ b.asked /\ b.criteria => b.decision = "proceed"
<1> DEFINE silent == a.order.style = "silent"
           First(c) == [a EXCEPT !.at = "collected", !.criteria = c,
                          !.decision = IF a.mode = "rules" THEN Classify(a.text, c, silent)
                                       ELSE "none"]
           Again(d) ==
             IF d.decision # "ask" THEN {d}
             ELSE {[d EXCEPT !.asked = TRUE],
                   [d EXCEPT !.asked = TRUE, !.criteria = TRUE,
                             !.decision = Classify(a.text, TRUE, silent)]}
<1>1. PICK c \in IF silent THEN {a.order.provided} ELSE {a.order.provided, TRUE} :
        b \in Again(First(c))
  BY Zenon DEF Collected
<1>2. /\ a.order \in Orders /\ a.text \in Texts /\ a.order.provided \in BOOLEAN
      /\ silent \in BOOLEAN
  BY DEF Askings, Orders
<1>3. c \in BOOLEAN /\ (silent => c = a.order.provided)
  BY <1>1, <1>2
<1>4. PICK d : d = First(c)
  OBVIOUS
<1>5. /\ Classify(a.text, c, silent) \in Decisions /\ Classify(a.text, TRUE, silent) \in Decisions
      /\ Classify(a.text, c, silent) = "ask" => a.text # "unfit" /\ ~c /\ ~silent
      /\ a.text # "unfit" => Classify(a.text, TRUE, silent) = "proceed"
  <2> HIDE DEF silent
  <2>1. /\ Classify(a.text, TRUE, silent) \in Decisions
        /\ a.text # "unfit" => Classify(a.text, TRUE, silent) = "proceed"
    BY DEF Classify, Decisions, Passing, Refusals
  <2>2. /\ Classify(a.text, c, silent) \in Decisions
        /\ Classify(a.text, c, silent) = "ask" => a.text # "unfit" /\ ~c /\ ~silent
    BY <1>2, <1>3, ClassifyWhat
  <2> QED
    BY <2>1, <2>2
<1> HIDE DEF silent
<1>6. /\ d \in Askings /\ d.at = "collected" /\ d.criteria = c
      /\ d.command = a.command /\ d.order = a.order /\ d.mode = a.mode
      /\ d.text = a.text /\ d.source = a.source /\ d.asked = a.asked
      /\ d.brief = a.brief /\ d.session = a.session
      /\ d.decision = IF a.mode = "rules" THEN Classify(a.text, c, silent) ELSE "none"
  BY <1>3, <1>4, <1>5 DEF Askings, Places
<1>7. b \in Again(d)
  BY <1>1, <1>4
<1>8. CASE d.decision # "ask"
  <2>1. b = d
    BY <1>7, <1>8
  <2> QED
    BY <1>3, <1>6, <2>1 DEF silent
<1>9. CASE d.decision = "ask"
  <2>1. a.mode = "rules" /\ a.text # "unfit" /\ ~c /\ ~silent
    BY <1>5, <1>6, <1>9
  <2>2. CASE b = [d EXCEPT !.asked = TRUE]
    <3>1. /\ b \in Askings /\ b.at = "collected" /\ b.criteria = c
          /\ b.command = a.command /\ b.order = a.order /\ b.mode = a.mode
          /\ b.text = a.text /\ b.source = a.source
          /\ b.brief = a.brief /\ b.session = a.session
          /\ b.decision = Classify(a.text, c, silent)
      BY <1>6, <2>1, <2>2 DEF Askings
    <3> QED
      BY <2>1, <3>1 DEF silent
  <2>3. CASE b = [d EXCEPT !.asked = TRUE, !.criteria = TRUE,
                           !.decision = Classify(a.text, TRUE, silent)]
    <3>1. /\ b \in Askings /\ b.at = "collected" /\ b.criteria = TRUE
          /\ b.command = a.command /\ b.order = a.order /\ b.mode = a.mode
          /\ b.text = a.text /\ b.source = a.source
          /\ b.brief = a.brief /\ b.session = a.session
          /\ b.decision = Classify(a.text, TRUE, silent)
      BY <1>5, <1>6, <2>1, <2>3 DEF Askings
    <3> QED
      BY <1>5, <2>1, <3>1 DEF silent
  <2> QED
    BY <1>7, <1>9, <2>2, <2>3
<1> QED
  BY <1>8, <1>9

\* where an asker stands that collects or enters
LEMMA AskingOf ==
  ASSUME IntentInv, NEW u \in Askers
  PROVE  asker[u] \in Askings /\ Asks(asker[u])
BY DEF IntentInv, IntentTyped

LEMMA CollectKeeps ==
  ASSUME IntentInv, NEW u \in Askers, Collect(u)
  PROVE  IntentInv'
<1>1. PICK a : a = asker[u]
  OBVIOUS
<1>2. a \in Askings /\ Asks(a) /\ a.at = "ready" /\ Collect(u)
  BY <1>1, AskingOf DEF Collect
<1>3. UNCHANGED <<ground, setting, briefs, sessionsOf, preflights>>
  BY DEF Collect
<1>4. /\ a.command = "build" /\ a.decision = "none" /\ a.source = "none" /\ ~a.asked
      /\ a.mode \in Modes /\ a.mode = ModeOf(a.order.cli) /\ a.text = a.order.text
      /\ a.brief = 0 /\ a.session = 0 /\ InputsSuffice(a.order) /\ a.order \in Orders
      /\ a.text \in Texts
  <2>1. /\ a.command = "build" /\ a.decision = "none" /\ a.source = "none" /\ ~a.asked
        /\ a.mode \in Modes /\ a.mode = ModeOf(a.order.cli) /\ a.text = a.order.text
        /\ a.brief = 0 /\ InputsSuffice(a.order)
    BY <1>2 DEF Asks, WasJudged, WasGiven
  <2>2. a.session = 0
    BY <1>2, <2>1, AskingShape DEF IntentInv, IntentTyped, StoredJudged, Asks, NamesStored
  <2> QED
    BY <1>2, <2>1, <2>2, AskingShape
<1>5. PICK b \in Collected(a) :
        IF b.decision = "raises" THEN Store(u, [b EXCEPT !.at = "refused"])
        ELSE IF b.mode = "llm" \/ b.order.style = "yes"
          THEN Store(u, IF Complete(b) THEN b ELSE [b EXCEPT !.at = "refused"])
          ELSE \E j \in Judged(b, b.order.style = "silent", "collected") :
                 Store(u, IF Complete(b) THEN j ELSE [j EXCEPT !.at = "refused"])
  BY <1>1, Zenon DEF Collect
<1> DEFINE silent == a.order.style = "silent"
<1>6. /\ b \in Askings /\ b.at = "collected"
      /\ b.command = "build" /\ b.order = a.order /\ b.mode = a.mode
      /\ b.text = a.order.text /\ b.source = "none" /\ b.brief = 0 /\ b.session = 0
      /\ silent => b.criteria = a.order.provided /\ ~b.asked
      /\ b.decision = IF a.mode = "rules" THEN Classify(a.text, b.criteria, silent) ELSE "none"
      /\ b.asked => a.mode = "rules"
      /\ b.asked /\ b.criteria => b.decision = "proceed"
  BY <1>2, <1>4, CollectedWhat
<1>7. /\ Classify(a.text, b.criteria, silent) \in Refusals <=> NeedsCriteria(b)
      /\ Classify(a.text, b.criteria, silent) \in Passing <=> ~NeedsCriteria(b)
      /\ b.criteria /\ ~NeedsCriteria(b) => Classify(a.text, b.criteria, silent) = "proceed"
  <2>1. a.text \in Texts /\ b.criteria \in BOOLEAN /\ silent \in BOOLEAN
    BY <1>4, <1>6, AskingShape
  <2>2. NeedsCriteria(b) <=> a.text = "unfit" \/ (a.text = "risky" /\ ~b.criteria)
    BY <1>4, <1>6 DEF NeedsCriteria
  <2> HIDE DEF silent
  <2>3. /\ Classify(a.text, b.criteria, silent) \in Refusals <=>
             a.text = "unfit" \/ (a.text = "risky" /\ ~b.criteria)
        /\ Classify(a.text, b.criteria, silent) \in Passing <=>
             ~(a.text = "unfit" \/ (a.text = "risky" /\ ~b.criteria))
        /\ b.criteria /\ a.text # "unfit" => Classify(a.text, b.criteria, silent) = "proceed"
    BY <2>1, ClassifyWhat
  <2> QED
    BY <2>2, <2>3
<1>8. silent =>
        /\ b.criteria = TRUE
        /\ a.mode \in {"rules", "strict"} => ~NeedsCriteria(b)
        /\ ~Complete(b) => ground.kind = "notes" /\ ~a.order.flows
  <2> SUFFICES ASSUME silent
               PROVE  /\ b.criteria = TRUE
                      /\ a.mode \in {"rules", "strict"} => ~NeedsCriteria(b)
                      /\ ~Complete(b) => ground.kind = "notes" /\ ~a.order.flows
    OBVIOUS
  <2>1. b.criteria = TRUE
    BY <1>4, <1>6 DEF InputsSuffice, Orders
  <2>2. a.mode \in {"rules", "strict"} =>
          Classify(a.order.text, a.order.provided, TRUE) \notin Refusals
    BY <1>4, ModeOfKnown DEF InputsSuffice, IntentInv
  <2>3. a.mode \in {"rules", "strict"} => ~NeedsCriteria(b)
    BY <1>4, <1>6, <1>7, <2>2
  <2>4. a.order.forced # "greenfield" /\ EarlyBrown(a.order) => a.order.flows
    BY <1>4 DEF InputsSuffice
  <2>5. ~Complete(b) => ground.kind = "notes" /\ ~a.order.flows
    BY <1>6, <2>1, <2>4 DEF Complete, LateBrown, EarlyBrown
  <2> QED
    BY <2>1, <2>3, <2>5
<1>9. silent \in BOOLEAN /\ "collected" \in Places /\ "refused" \in Places
  BY DEF Places, Ended
<1>10. ~silent => Complete(b)
  BY <1>6 DEF Complete
<1> HIDE DEF silent
<1>11. PICK e :
         /\ asker' = [asker EXCEPT ![u] = e]
         /\ \/ b.decision = "raises" /\ e = [b EXCEPT !.at = "refused"]
            \/ /\ b.decision # "raises" /\ (b.mode = "llm" \/ b.order.style = "yes")
               /\ e = IF Complete(b) THEN b ELSE [b EXCEPT !.at = "refused"]
            \/ /\ b.decision # "raises" /\ b.mode # "llm"
               /\ \E j \in Judged(b, silent, "collected") :
                    e = IF Complete(b) THEN j ELSE [j EXCEPT !.at = "refused"]
  BY <1>5, <1>6 DEF Store, silent
<1> DEFINE
     Refused == /\ e.at = "refused" /\ ~(e.asked /\ e.criteria)
                /\ silent => e.mode = "llm" \/ (ground.kind = "notes" /\ ~e.order.flows)
     Passes == /\ e.at = "collected" /\ e.source # "llm"
               /\ e.mode \in {"off", "llm"} => e.decision = "none"
               /\ e.decision \in Passing => ~NeedsCriteria(e)
               /\ silent => e.mode \in {"off", "llm"} \/ e.decision = "proceed"
               /\ e.asked /\ e.criteria => e.decision = "proceed"
<1>12. e \in Askings /\ SameRequest(e, b) /\ (Refused \/ Passes)
  <2>1. CASE b.decision = "raises" /\ e = [b EXCEPT !.at = "refused"]
    <3>1. e \in Askings /\ e.at = "refused" /\ SameRequest(e, b)
      BY <1>6, <1>9, <2>1, PutAt
    <3>2. NeedsCriteria(b) /\ a.mode = "rules"
      BY <1>6, <1>7, <2>1 DEF Refusals
    <3>3. ~silent
      BY <1>8, <3>2
    <3>4. ~(b.asked /\ b.criteria)
      BY <1>6, <2>1
    <3>5. Refused
      BY <3>1, <3>3, <3>4 DEF SameRequest
    <3> QED
      BY <3>1, <3>5
  <2>2. CASE /\ b.mode = "llm" \/ b.order.style = "yes"
             /\ e = IF Complete(b) THEN b ELSE [b EXCEPT !.at = "refused"]
    <3>1. CASE Complete(b)
      <4>1. e = b
        BY <2>2, <3>1
      <4>2. SameRequest(e, b)
        BY <4>1 DEF SameRequest
      <4>3. b.decision \in Passing => ~NeedsCriteria(b)
        BY <1>6, <1>7 DEF Passing
      <4>4. silent => b.mode \in {"off", "llm"}
        BY <1>6, <2>2 DEF silent
      <4>5. b.mode \in {"off", "llm"} => b.decision = "none"
        BY <1>6
      <4>6. Passes
        BY <1>6, <4>1, <4>3, <4>4, <4>5
      <4> QED
        BY <1>6, <4>1, <4>2, <4>6
    <3>2. CASE ~Complete(b)
      <4>1. e = [b EXCEPT !.at = "refused"] /\ silent
        BY <1>10, <2>2, <3>2
      <4>2. e \in Askings /\ e.at = "refused" /\ SameRequest(e, b)
        BY <1>6, <1>9, <4>1, PutAt
      <4>3. b.mode = "llm" /\ ~b.asked
        BY <1>6, <2>2, <4>1 DEF silent
      <4>4. Refused
        BY <4>2, <4>3 DEF SameRequest
      <4> QED
        BY <4>2, <4>4
    <3> QED
      BY <3>1, <3>2
  <2>3. CASE /\ b.mode # "llm"
             /\ \E j \in Judged(b, silent, "collected") :
                  e = IF Complete(b) THEN j ELSE [j EXCEPT !.at = "refused"]
    <3>1. PICK j \in Judged(b, silent, "collected") :
            e = IF Complete(b) THEN j ELSE [j EXCEPT !.at = "refused"]
      BY <2>3
    <3>2. /\ j \in Askings /\ SameRequest(j, b)
          /\ \/ /\ j.at = "refused" /\ b.mode # "off"
                /\ b.mode \in {"rules", "strict"} => Ruled(b, silent) \in Refusals
             \/ /\ j.at = "collected"
                /\ b.mode = "off" => j.decision = "none" /\ j.source = "off"
                /\ b.mode # "off" => j.decision \in Passing
                /\ b.mode \in {"rules", "strict"} => j.source = "rules"
                /\ j.source = "rules" => j.decision = Ruled(b, silent)
      BY <1>4, <1>6, <1>9, JudgedWhat
    <3>3. Ruled(b, silent) = Classify(a.text, b.criteria, silent)
      BY <1>4, <1>6 DEF Ruled
    <3>4. b.mode \in {"off", "rules", "strict"}
      BY <1>4, <1>6, <2>3 DEF Modes
    <3>5. b.asked /\ b.criteria => Ruled(b, silent) = "proceed" /\ b.mode = "rules"
      BY <1>6, <3>3
    <3>6. CASE j.at = "refused"
      <4>1. Ruled(b, silent) \in Refusals /\ b.mode \in {"rules", "strict"}
        BY <3>2, <3>4, <3>6
      <4>2. ~silent
        BY <1>6, <1>7, <1>8, <3>3, <4>1
      <4>3. e = j
        BY <1>10, <3>1, <4>2
      <4>4. ~(b.asked /\ b.criteria)
        BY <3>5, <4>1 DEF Refusals
      <4>5. Refused
        BY <3>2, <3>6, <4>2, <4>3, <4>4 DEF SameRequest
      <4> QED
        BY <3>2, <4>3, <4>5
    <3>7. CASE j.at = "collected" /\ ~Complete(b)
      <4>1. silent /\ e = [j EXCEPT !.at = "refused"]
        BY <1>10, <3>1, <3>7
      <4>2. e \in Askings /\ e.at = "refused" /\ SameRequest(e, j)
        BY <1>9, <3>2, <4>1, PutAt
      <4>3. SameRequest(e, b)
        BY <3>2, <4>2 DEF SameRequest
      <4>4. ~b.asked /\ ground.kind = "notes" /\ ~b.order.flows
        BY <1>6, <1>8, <3>7, <4>1
      <4>5. Refused
        BY <4>2, <4>3, <4>4 DEF SameRequest
      <4> QED
        BY <4>2, <4>3, <4>5
    <3>8. CASE j.at = "collected" /\ Complete(b)
      <4>1. e = j
        BY <3>1, <3>8
      <4>2. /\ b.mode = "off" => j.decision = "none" /\ j.source = "off"
            /\ b.mode # "off" => j.decision \in Passing /\ j.source = "rules"
                                 /\ j.decision = Classify(a.text, b.criteria, silent)
        BY <3>2, <3>3, <3>4, <3>8
      <4>3. j.decision \in Passing => ~NeedsCriteria(b)
        BY <1>7, <4>2 DEF Passing
      <4>4. NeedsCriteria(j) <=> NeedsCriteria(b)
        BY <3>2 DEF SameRequest, NeedsCriteria
      <4>5. silent => b.mode = "off" \/ j.decision = "proceed"
        BY <1>7, <1>8, <4>2, <4>3
      <4>6. b.asked /\ b.criteria => j.decision = "proceed"
        BY <3>3, <3>5, <4>2
      <4>7. j.source # "llm" /\ (b.mode \in {"off", "llm"} => j.decision = "none")
        BY <3>4, <4>2
      <4>8. Passes
        BY <3>2, <3>8, <4>1, <4>3, <4>4, <4>5, <4>6, <4>7 DEF SameRequest
      <4> QED
        BY <3>2, <4>1, <4>8
    <3> QED
      BY <3>2, <3>6, <3>7, <3>8
  <2> QED
    BY <1>11, <2>1, <2>2, <2>3
<1>13. asker'[u] = e /\ asker' = [asker EXCEPT ![u] = asker'[u]]
  BY <1>11 DEF IntentInv, IntentTyped
<1>14. /\ e.command = "build" /\ e.order = a.order /\ e.mode = a.mode
       /\ e.text = a.order.text /\ e.brief = 0 /\ e.session = 0
       /\ e.asked => e.mode = "rules"
  BY <1>6, <1>12 DEF SameRequest
<1>15. NamesStored(asker[u])'
  BY <1>12, <1>13, <1>14 DEF NamesStored
<1>16. WasJudged(asker[u])'
  BY <1>4, <1>12, <1>13, <1>14 DEF WasJudged
<1>17. WasGiven(asker[u])'
  BY <1>3, <1>12, <1>13, <1>14 DEF WasGiven, silent
<1> QED
  BY <1>3, <1>12, <1>13, <1>15, <1>16, <1>17, AskAlone DEF Asks

LEMMA ResumeKeeps ==
  ASSUME IntentInv, NEW u \in Askers, Resume(u)
  PROVE  IntentInv'
<1> DEFINE sessions == IF sessionsOf = <<>> THEN <<Len(briefs)>> ELSE sessionsOf
           b == sessions[Len(sessions)]
<1>1. PICK style \in {"silent", "wizard"} :
        asker' = [asker EXCEPT ![u] =
          [Idle EXCEPT !.at = "collected", !.command = "continue", !.mode = "rules",
                       !.order = [NoOrder EXCEPT !.style = style], !.text = briefs[b].text,
                       !.criteria = briefs[b].criteria, !.brief = b, !.session = Len(sessions)]]
  BY DEF Resume, Store
<1>2. /\ briefs # <<>> /\ sessionsOf' = sessions
      /\ UNCHANGED <<ground, setting, briefs, preflights>>
  BY DEF Resume
<1>3. IntentTyped /\ StoredJudged
  BY DEF IntentInv
<1>4. Len(briefs) \in DOMAIN briefs /\ Len(briefs) \in Nat
  BY <1>2, <1>3 DEF IntentTyped
<1>5. /\ sessions \in Seq(Nat) /\ Len(sessions) \in DOMAIN sessions /\ Len(sessions) \in Nat
      /\ \A s \in DOMAIN sessions : sessions[s] \in DOMAIN briefs
  BY <1>3, <1>4 DEF IntentTyped, StoredJudged
<1>6. /\ DOMAIN sessionsOf \subseteq DOMAIN sessions
      /\ \A s \in DOMAIN sessionsOf : sessions[s] = sessionsOf[s]
  BY <1>3 DEF IntentTyped
<1>7. b \in DOMAIN briefs /\ b \in Nat /\ briefs[b] \in Briefs /\ b # 0
  BY <1>3, <1>5 DEF IntentTyped
<1> HIDE DEF sessions
<1>8. PICK o : o = [NoOrder EXCEPT !.style = style]
  OBVIOUS
<1>9. o \in Orders
  BY <1>8 DEF NoOrder, Orders, Texts, Modes
<1>10. PICK e :
         e = [Idle EXCEPT !.at = "collected", !.command = "continue", !.mode = "rules",
                          !.order = o, !.text = briefs[b].text,
                          !.criteria = briefs[b].criteria, !.brief = b, !.session = Len(sessions)]
  OBVIOUS
<1>11. asker'[u] = e /\ asker' = [asker EXCEPT ![u] = asker'[u]]
  BY <1>1, <1>3, <1>8, <1>10 DEF IntentTyped
<1>12. /\ e.at = "collected" /\ e.command = "continue" /\ e.mode = "rules" /\ e.order = o
       /\ e.text = briefs[b].text /\ e.criteria = briefs[b].criteria /\ e.brief = b
       /\ e.session = Len(sessions) /\ e.decision = "none" /\ e.source = "none" /\ e.asked = FALSE
  BY <1>10 DEF Idle
<1>13. e \in Askings
  <2>1. briefs[b].text \in Texts /\ briefs[b].criteria \in BOOLEAN
    BY <1>7 DEF Briefs
  <2> QED
    BY <1>5, <1>7, <1>9, <1>10, <2>1 DEF Idle, Askings, Places, Modes, Sources
<1>14. Grown
  BY <1>2, <1>6 DEF Grown
<1>15. StoredJudged'
  BY <1>2, <1>3, <1>5, <1>6 DEF StoredJudged
<1>16. NamesStored(asker[u])'
  BY <1>2, <1>5, <1>7, <1>11, <1>12 DEF NamesStored
<1>17. WasJudged(asker[u])'
  BY <1>11, <1>12 DEF WasJudged, Modes, Passing
<1>18. WasGiven(asker[u])'
  BY <1>11, <1>12 DEF WasGiven
<1> QED
  BY <1>2, <1>3, <1>5, <1>11, <1>13, <1>14, <1>15, <1>16, <1>17, <1>18, AskStep
     DEF Asks, IntentTyped

LEMMA EnterKeeps ==
  ASSUME IntentInv, NEW u \in Askers, Enter(u)
  PROVE  IntentInv'
<1>1. PICK a : a = asker[u]
  OBVIOUS
<1>2. a \in Askings /\ Asks(a) /\ a.at = "collected"
  BY <1>1, AskingOf DEF Enter
<1>3. UNCHANGED <<ground, setting, briefs, sessionsOf, preflights>>
  BY DEF Enter
<1> DEFINE silent == a.order.style # "wizard"
<1>4. PICK j \in Judged(a, silent, "passed") : asker' = [asker EXCEPT ![u] = j]
  BY <1>1 DEF Enter, Store
<1>5. a.mode \in Modes /\ silent \in BOOLEAN /\ "passed" \in Places
  BY <1>2 DEF Asks, WasJudged, Places
<1>6. a.order.style = "silent" => silent
  OBVIOUS
<1> HIDE DEF silent
<1>7. /\ j \in Askings /\ SameRequest(j, a)
      /\ \/ /\ j.at = "refused" /\ j.decision = a.decision /\ a.mode # "off"
            /\ a.mode \in {"rules", "strict"} => Ruled(a, silent) \in Refusals
         \/ /\ j.at = "passed"
            /\ a.mode = "off" => j.decision = "none" /\ j.source = "off"
            /\ a.mode # "off" => j.decision \in Passing
            /\ a.mode \in {"rules", "strict"} => j.source = "rules"
            /\ a.mode = "llm" => j.source \in {"rules", "llm"}
            /\ j.source = "rules" => j.decision = Ruled(a, silent)
  BY <1>2, <1>5, JudgedWhat
<1>8. asker'[u] = j /\ asker' = [asker EXCEPT ![u] = asker'[u]]
  BY <1>4 DEF IntentInv, IntentTyped
<1>9. /\ Classify(a.text, a.criteria, silent) \in Refusals <=> NeedsCriteria(a)
      /\ Classify(a.text, a.criteria, silent) \in Passing <=> ~NeedsCriteria(a)
  BY <1>2, <1>5, AskingShape, ClassifyWhat DEF NeedsCriteria
<1>10. a.asked /\ a.criteria => Ruled(a, silent) = "proceed" /\ a.mode = "rules"
  BY <1>2 DEF Asks, WasJudged, Ruled
<1>11. Ruled(a, silent) \in Passing => ~NeedsCriteria(a)
  BY <1>2, <1>9 DEF Asks, WasJudged, Ruled
<1>12. NamesStored(asker[u])'
  BY <1>2, <1>3, <1>7, <1>8 DEF Asks, NamesStored, SameRequest
<1>13. WasJudged(asker[u])'
  <2>1. NeedsCriteria(j) <=> NeedsCriteria(a)
    BY <1>7 DEF SameRequest, NeedsCriteria
  <2>2. a.command = "continue" => a.mode = "rules"
    BY <1>2 DEF Asks, WasJudged
  <2>3. CASE j.at = "refused"
    <3>1. ~(a.asked /\ a.criteria)
      BY <1>7, <1>10, <2>3 DEF Refusals
    <3> QED
      BY <1>7, <1>8, <2>2, <2>3, <3>1 DEF WasJudged, SameRequest
  <2>4. CASE j.at = "passed"
    <3>1. j.decision \in Passing \/ (j.mode = "off" /\ j.decision = "none")
      BY <1>7, <2>4 DEF SameRequest
    <3>2. NeedsCriteria(a) => a.mode \in {"off", "llm"} /\ j.source \in {"off", "llm"}
      BY <1>5, <1>7, <1>11, <2>4 DEF Modes
    <3>3. a.command = "continue" \/ a.command = "build"
      BY <1>2, AskingShape DEF Asks, WasGiven
    <3>4. NeedsCriteria(j) => j.command = "build" /\ j.source \in {"off", "llm"}
      BY <1>7, <2>1, <2>2, <3>2, <3>3 DEF SameRequest
    <3>5. a.asked /\ a.criteria => j.decision = "proceed" /\ j.mode = "rules"
      BY <1>7, <1>10, <2>4 DEF SameRequest
    <3> QED
      BY <1>5, <1>7, <1>8, <2>2, <2>4, <3>1, <3>4, <3>5 DEF WasJudged, SameRequest
  <2> QED
    BY <1>7, <2>3, <2>4
<1>14. WasGiven(asker[u])'
  <2>1. CASE j.at = "refused"
    <3>1. a.command = "build" => a.brief = 0
      BY <1>2 DEF Asks, WasGiven
    <3>2. a.command = "build" /\ a.order.style = "silent" => a.mode = "llm"
      <4> SUFFICES ASSUME a.command = "build", a.order.style = "silent", a.mode # "llm"
                   PROVE  FALSE
        OBVIOUS
      <4>1. a.decision = "proceed"
        BY <1>2, <1>7, <2>1 DEF Asks, WasGiven
      <4>2. Ruled(a, silent) \in Refusals
        BY <1>5, <1>7, <2>1 DEF Modes
      <4> QED
        BY <4>1, <4>2 DEF Ruled, Refusals
    <3>3. a.command = "continue" => briefs[a.brief].by \in {"off", "llm"}
      <4> SUFFICES ASSUME a.command = "continue" PROVE briefs[a.brief].by \in {"off", "llm"}
        OBVIOUS
      <4>1. a.mode = "rules" /\ a.decision = "none"
        BY <1>2 DEF Asks, WasJudged
      <4>2. NeedsCriteria(a)
        BY <1>7, <1>9, <2>1, <4>1 DEF Ruled
      <4>3. a.brief \in DOMAIN briefs /\ NeedsCriteria(briefs[a.brief])
        BY <1>2, <4>2 DEF Asks, NamesStored, NeedsCriteria
      <4> QED
        BY <4>3 DEF IntentInv, StoredJudged
    <3>4. a.command # "none"
      BY <1>2 DEF Asks, WasGiven
    <3> QED
      BY <1>3, <1>7, <1>8, <2>1, <3>1, <3>2, <3>3, <3>4 DEF WasGiven, SameRequest
  <2>2. CASE j.at = "passed"
    BY <1>2, <1>7, <1>8, <2>2 DEF Asks, WasGiven, SameRequest
  <2> QED
    BY <1>7, <2>1, <2>2
<1> QED
  BY <1>3, <1>7, <1>8, <1>12, <1>13, <1>14, AskAlone DEF Asks

LEMMA AppendGrows ==
  ASSUME NEW S, NEW seq \in Seq(S), NEW e \in S
  PROVE  /\ Append(seq, e) \in Seq(S) /\ Len(Append(seq, e)) = Len(seq) + 1
         /\ Len(seq) + 1 \in DOMAIN Append(seq, e) /\ Len(seq) \in Nat
         /\ Append(seq, e)[Len(seq) + 1] = e
         /\ DOMAIN seq \subseteq DOMAIN Append(seq, e)
         /\ \A i \in DOMAIN seq : Append(seq, e)[i] = seq[i]
         /\ DOMAIN Append(seq, e) = DOMAIN seq \cup {Len(seq) + 1}
OBVIOUS

\* a command that has passed the gate writes the next of its three rows
LEMMA PassedAt ==
  ASSUME IntentInv, NEW u \in Askers, asker[u].at = "passed", NEW a, a = asker[u]
  PROVE  /\ IntentTyped /\ StoredJudged /\ a \in Askings /\ NamesStored(a) /\ WasJudged(a)
         /\ WasGiven(a) /\ a.at = "passed" /\ a.command # "none"
         /\ a.brief = 0 => a.session = 0 /\ a.command = "build"
BY AskingOf, AskingShape DEF IntentInv, IntentTyped, StoredJudged, Asks, NamesStored, WasGiven

LEMMA SaveBriefKeeps ==
  ASSUME IntentInv, NEW u \in Askers, SaveBrief(u)
  PROVE  IntentInv'
<1>1. PICK a : a = asker[u]
  OBVIOUS
<1>2. /\ IntentTyped /\ StoredJudged /\ a \in Askings /\ NamesStored(a) /\ WasJudged(a)
      /\ WasGiven(a) /\ a.at = "passed" /\ a.brief = 0 /\ a.session = 0 /\ a.command = "build"
  BY <1>1, PassedAt DEF SaveBrief
<1>3. PICK row : row = [text |-> a.text, criteria |-> a.criteria, by |-> a.source]
  OBVIOUS
<1>4. row \in Briefs /\ row.text = a.text /\ row.criteria = a.criteria /\ row.by = a.source
  BY <1>2, <1>3, AskingShape DEF Briefs
<1>5. /\ briefs' = Append(briefs, row) /\ UNCHANGED <<ground, setting, sessionsOf, preflights>>
      /\ asker' = [asker EXCEPT ![u] = [a EXCEPT !.brief = Len(briefs')]]
  BY <1>1, <1>3 DEF SaveBrief, Store
<1>6. briefs \in Seq(Briefs)
  BY <1>2 DEF IntentTyped
<1>7. /\ briefs' \in Seq(Briefs) /\ Len(briefs') = Len(briefs) + 1
      /\ Len(briefs') \in DOMAIN briefs' /\ Len(briefs') \in Nat /\ Len(briefs') # 0
      /\ briefs'[Len(briefs')] = row
      /\ DOMAIN briefs \subseteq DOMAIN briefs' /\ \A b \in DOMAIN briefs : briefs'[b] = briefs[b]
      /\ DOMAIN briefs' = DOMAIN briefs \cup {Len(briefs')}
  BY <1>4, <1>5, <1>6, AppendGrows
<1>8. PICK n \in Nat : n = Len(briefs')
  BY <1>7
<1>9. PICK e : e = [a EXCEPT !.brief = n]
  OBVIOUS
<1>10. /\ e \in Askings /\ e.brief = n /\ e.at = a.at /\ e.command = a.command
       /\ e.order = a.order /\ e.mode = a.mode /\ e.text = a.text /\ e.criteria = a.criteria
       /\ e.decision = a.decision /\ e.source = a.source /\ e.asked = a.asked
       /\ e.session = a.session
  BY <1>2, <1>9 DEF Askings
<1>11. asker'[u] = e /\ asker' = [asker EXCEPT ![u] = asker'[u]]
  BY <1>2, <1>5, <1>8, <1>9 DEF IntentTyped
<1>12. Grown
  BY <1>5, <1>7 DEF Grown
<1>13. NeedsCriteria(row) => row.by \in {"off", "llm"}
  BY <1>2, <1>4 DEF WasJudged, NeedsCriteria
<1>14. StoredJudged'
  BY <1>2, <1>5, <1>7, <1>13 DEF StoredJudged
<1>15. NamesStored(asker[u])'
  BY <1>2, <1>7, <1>8, <1>10, <1>11 DEF NamesStored
<1>16. WasJudged(asker[u])'
  BY <1>2, <1>10, <1>11 DEF WasJudged, NeedsCriteria
<1>17. WasGiven(asker[u])'
  BY <1>2, <1>10, <1>11 DEF WasGiven
<1> QED
  BY <1>2, <1>5, <1>7, <1>10, <1>11, <1>12, <1>14, <1>15, <1>16, <1>17, AskStep
     DEF Asks, IntentTyped

LEMMA SaveSessionKeeps ==
  ASSUME IntentInv, NEW u \in Askers, SaveSession(u)
  PROVE  IntentInv'
<1>1. PICK a : a = asker[u]
  OBVIOUS
<1>2. /\ IntentTyped /\ StoredJudged /\ a \in Askings /\ NamesStored(a) /\ WasJudged(a)
      /\ WasGiven(a) /\ a.at = "passed" /\ a.brief # 0 /\ a.session = 0 /\ a.command # "none"
  BY <1>1, PassedAt DEF SaveSession
<1>3. a.brief \in DOMAIN briefs /\ a.brief \in Nat
  BY <1>2, AskingShape DEF NamesStored
<1>4. /\ sessionsOf' = Append(sessionsOf, a.brief)
      /\ UNCHANGED <<ground, setting, briefs, preflights>>
      /\ asker' = [asker EXCEPT ![u] = [a EXCEPT !.session = Len(sessionsOf')]]
  BY <1>1 DEF SaveSession, Store
<1>5. sessionsOf \in Seq(Nat)
  BY <1>2 DEF IntentTyped
<1>6. /\ sessionsOf' \in Seq(Nat) /\ Len(sessionsOf') \in DOMAIN sessionsOf'
      /\ Len(sessionsOf') \in Nat /\ Len(sessionsOf') # 0
      /\ sessionsOf'[Len(sessionsOf')] = a.brief
      /\ DOMAIN sessionsOf \subseteq DOMAIN sessionsOf'
      /\ \A s \in DOMAIN sessionsOf : sessionsOf'[s] = sessionsOf[s]
      /\ DOMAIN sessionsOf' = DOMAIN sessionsOf \cup {Len(sessionsOf')}
  BY <1>3, <1>4, <1>5, AppendGrows
<1>7. PICK n \in Nat : n = Len(sessionsOf')
  BY <1>6
<1>8. PICK e : e = [a EXCEPT !.session = n]
  OBVIOUS
<1>9. /\ e \in Askings /\ e.brief = a.brief /\ e.at = a.at /\ e.command = a.command
      /\ e.order = a.order /\ e.mode = a.mode /\ e.text = a.text /\ e.criteria = a.criteria
      /\ e.decision = a.decision /\ e.source = a.source /\ e.asked = a.asked
      /\ e.session = n
  BY <1>2, <1>8 DEF Askings
<1>10. asker'[u] = e /\ asker' = [asker EXCEPT ![u] = asker'[u]]
  BY <1>2, <1>4, <1>7, <1>8 DEF IntentTyped
<1>11. Grown
  BY <1>4, <1>6 DEF Grown
<1>12. StoredJudged'
  BY <1>2, <1>3, <1>4, <1>6 DEF StoredJudged
<1>13. NamesStored(asker[u])'
  BY <1>2, <1>3, <1>4, <1>6, <1>7, <1>9, <1>10 DEF NamesStored
<1>14. WasJudged(asker[u])'
  BY <1>2, <1>9, <1>10 DEF WasJudged, NeedsCriteria
<1>15. WasGiven(asker[u])'
  BY <1>2, <1>9, <1>10 DEF WasGiven
<1> QED
  BY <1>2, <1>4, <1>6, <1>9, <1>10, <1>11, <1>12, <1>13, <1>14, <1>15, AskStep
     DEF Asks, IntentTyped

LEMMA SavePreflightKeeps ==
  ASSUME IntentInv, NEW u \in Askers, SavePreflight(u)
  PROVE  IntentInv'
<1>1. PICK a : a = asker[u]
  OBVIOUS
<1>2. /\ IntentTyped /\ StoredJudged /\ a \in Askings /\ NamesStored(a) /\ WasJudged(a)
      /\ WasGiven(a) /\ a.at = "passed" /\ a.session # 0 /\ a.command # "none"
  BY <1>1, PassedAt DEF SavePreflight
<1>3. PICK row : row = [brief |-> a.brief, session |-> a.session, decision |-> a.decision]
  OBVIOUS
<1>4. row.brief = a.brief /\ row.session = a.session /\ row.decision = a.decision
  BY <1>3
<1>5. /\ preflights' = IF a.decision = "none" THEN preflights ELSE Append(preflights, row)
      /\ UNCHANGED <<ground, setting, briefs, sessionsOf>>
      /\ asker' = [asker EXCEPT ![u] = [a EXCEPT !.at = "launched"]]
  BY <1>1, <1>3 DEF SavePreflight, Store
<1>6. preflights \in Seq(Preflights)
  BY <1>2 DEF IntentTyped
<1>7. /\ a.session \in DOMAIN sessionsOf /\ sessionsOf[a.session] = a.brief
      /\ a.decision \in Passing \/ (a.mode = "off" /\ a.decision = "none")
  BY <1>2 DEF NamesStored, WasJudged
<1>8. /\ preflights' \in Seq(Preflights) /\ DOMAIN preflights \subseteq DOMAIN preflights'
      /\ \A i \in DOMAIN preflights : preflights'[i] = preflights[i]
      /\ \A i \in DOMAIN preflights' : i \in DOMAIN preflights \/ preflights'[i] = row
      /\ a.decision # "none" => \E i \in DOMAIN preflights' : preflights'[i] = row
  <2>1. CASE a.decision = "none"
    BY <1>5, <1>6, <2>1
  <2>2. CASE a.decision # "none"
    <3>1. row \in Preflights
      BY <1>2, <1>3, <2>2, AskingShape DEF Preflights
    <3>2. preflights' = Append(preflights, row)
      BY <1>5, <2>2
    <3> QED
      BY <1>6, <3>1, <3>2, AppendGrows
  <2> QED
    BY <2>1, <2>2
<1>9. PICK e : e = [a EXCEPT !.at = "launched"]
  OBVIOUS
<1>10. /\ e \in Askings /\ e.at = "launched" /\ SameRequest(e, a)
       /\ e.decision = a.decision /\ e.source = a.source
  BY <1>2, <1>9, PutAt DEF Places, Ended
<1>11. asker'[u] = e /\ asker' = [asker EXCEPT ![u] = asker'[u]]
  BY <1>2, <1>5, <1>9 DEF IntentTyped
<1>12. Grown
  BY <1>5, <1>8 DEF Grown
<1>13. preflights' # preflights => a.decision \in Passing
  BY <1>5, <1>7
<1>14. StoredJudged'
  <2>1. ASSUME NEW i \in DOMAIN preflights'
        PROVE  /\ preflights'[i].decision \in Passing
               /\ preflights'[i].session \in DOMAIN sessionsOf
               /\ preflights'[i].brief = sessionsOf[preflights'[i].session]
    BY <1>2, <1>4, <1>5, <1>7, <1>8 DEF StoredJudged
  <2> QED
    BY <1>2, <1>5, <2>1 DEF StoredJudged
<1>15. NamesStored(asker[u])'
  <2>1. a.mode # "off" => \E i \in DOMAIN preflights' : preflights'[i].session = a.session
    BY <1>4, <1>7, <1>8 DEF Passing
  <2> QED
    BY <1>2, <1>5, <1>10, <1>11, <2>1 DEF NamesStored, SameRequest
<1>16. WasJudged(asker[u])'
  BY <1>2, <1>10, <1>11 DEF WasJudged, NeedsCriteria, SameRequest
<1>17. WasGiven(asker[u])'
  BY <1>2, <1>10, <1>11 DEF WasGiven, SameRequest
<1> QED
  BY <1>2, <1>5, <1>8, <1>10, <1>11, <1>12, <1>14, <1>15, <1>16, <1>17, AskStep
     DEF Asks, IntentTyped

-----------------------------------------------------------------------------
LEMMA IntentKeeps == IntentInv /\ [IntentNext]_intentVars => IntentInv'
<1> SUFFICES ASSUME IntentInv, [IntentNext]_intentVars PROVE IntentInv'
  OBVIOUS
<1>1. ASSUME NEW u \in Askers, Decline(u) \/ Kill(u) PROVE IntentInv'
  <2>1. /\ asker' = [asker EXCEPT ![u].at = "gone"]
        /\ UNCHANGED <<ground, setting, briefs, sessionsOf, preflights>>
    BY <1>1 DEF Decline, Kill, Store
  <2> QED
    BY <2>1, GoneKeeps
<1>2. CASE IntentNext
  BY <1>1, <1>2, StartBuildKeeps, BootstrapKeeps, CollectKeeps, ResumeKeeps, EnterKeeps,
     SaveBriefKeeps, SaveSessionKeeps, SavePreflightKeeps DEF IntentNext
<1>3. CASE UNCHANGED intentVars
  <2>1. IntentTyped' /\ StoredJudged'
    BY <1>3 DEF intentVars, IntentInv, IntentTyped, StoredJudged
  <2>2. ASSUME NEW u \in Askers PROVE Asks(asker[u])'
    BY <1>3 DEF intentVars, IntentInv, Asks, NamesStored, WasJudged, WasGiven, InputsSuffice,
                EarlyBrown, ModeOf
  <2> QED
    BY <2>1, <2>2 DEF IntentInv
<1> QED
  BY <1>2, <1>3

LEMMA ShownSome ==
  ASSUME NEW s, NEW i \in DOMAIN preflights, preflights[i].session = s
  PROVE  Shown(s) # {}
BY DEF Shown

(* However many commands build and continue, and whichever is killed: no   *)
(* judgement is walked around, the commands agree about it, a refusal      *)
(* leaves nothing behind, and what is shown was decided.                   *)
THEOREM IntentIsSound == IntentSpec => []IntentSound
<1>1. IntentInv => IntentSound
  <2> SUFFICES ASSUME IntentInv PROVE IntentSound
    OBVIOUS
  <2>1. IntentTypeOK
    <3>1. ASSUME NEW u \in Askers
          PROVE  /\ asker[u].at \in Ended \cup {"checked", "ready", "collected", "passed"}
                 /\ asker[u].brief \in 0 .. Len(briefs)
                 /\ asker[u].session \in 0 .. Len(sessionsOf)
      <4>1. PICK a : a = asker[u]
        OBVIOUS
      <4>2. a \in Askings /\ NamesStored(a)
        BY <4>1, AskingOf DEF Asks
      <4>3. a.at \in Places /\ a.brief \in Nat /\ a.session \in Nat
        BY <4>2, AskingShape
      <4>4. DOMAIN briefs = 1 .. Len(briefs) /\ DOMAIN sessionsOf = 1 .. Len(sessionsOf)
        BY DEF IntentInv, IntentTyped
      <4>5. Len(briefs) \in Nat /\ Len(sessionsOf) \in Nat
        BY DEF IntentInv, IntentTyped
      <4>6. a.brief \in 0 .. Len(briefs) /\ a.session \in 0 .. Len(sessionsOf)
        BY <4>2, <4>3, <4>4, <4>5 DEF NamesStored
      <4> QED
        BY <4>1, <4>3, <4>6 DEF Places
    <3>2. ground.kind \in Grounds /\ setting \in Settings
      BY DEF IntentInv, IntentTyped
    <3> QED
      BY <3>1, <3>2 DEF IntentTypeOK
  <2>2. GateHeld
    BY DEF GateHeld, IntentInv, StoredJudged, Asks, WasJudged
  <2>3. GateAgrees
    BY DEF GateAgrees, IntentInv, Asks, WasJudged, WasGiven
  <2>4. RefusalLeavesNothing
    BY DEF RefusalLeavesNothing, IntentInv, Asks, WasGiven
  <2>5. ShownDecides
    BY ShownSome DEF ShownDecides, IntentInv, StoredJudged, Asks, NamesStored, Passing
  <2> QED
    BY <2>1, <2>2, <2>3, <2>4, <2>5 DEF IntentSound
<1> QED
  BY IntentStarts, IntentKeeps, <1>1, PTL DEF IntentSpec

-----------------------------------------------------------------------------
(* The proof card.  That a record binds what its run was about, and that   *)
(* the last of the two files is the one that knows the other, is decided   *)
(* when a file is written, long before a card compares them.               *)

\* the hash over a contract is taken of the contract the commands were run for
Bound(r) ==
  r = NoRecord \/ \E c : r.binding = Binding(c) /\ r.subject = <<c.objective, c.delta>>

\* no build has replaced the contract since the record was written
LastWritten == newest = "record" => verification.build = completion.build

ReadingShape ==
  reading = [at |-> reading.at, contract |-> reading.contract, delta |-> reading.delta,
             record |-> reading.record]

ProofInv ==
  /\ Bound(verification) /\ LastWritten
  /\ ReadingShape /\ Bound(reading.record)
  /\ ProofSound

LEMMA ProofStarts == ProofInit => ProofInv
<1> SUFFICES ASSUME ProofInit PROVE ProofInv
  OBVIOUS
<1>1. verification = NoRecord /\ newest = "none" /\ reading = NotReading /\ card = NoCard
  BY DEF ProofInit
<1>2. Bound(verification) /\ LastWritten /\ ReadingShape /\ Bound(reading.record)
  BY <1>1 DEF Bound, LastWritten, ReadingShape, NotReading
<1>3. ProofSound
  BY <1>1 DEF ProofSound, OpenIsEarned, CardAgrees, NoCard
<1> QED
  BY <1>2, <1>3 DEF ProofInv

\* a step that computes no card
LEMMA CardStands ==
  ASSUME ProofInv, card' \in {card, NoCard},
         Bound(verification)', LastWritten', ReadingShape', Bound(reading.record)'
  PROVE  ProofInv'
<1>1. ProofSound'
  <2>1. CASE card' = card
    BY <2>1 DEF ProofInv, ProofSound, OpenIsEarned, CardAgrees
  <2>2. CASE card' = NoCard
    BY <2>2 DEF ProofSound, OpenIsEarned, CardAgrees, NoCard
  <2> QED
    BY <2>1, <2>2
<1> QED
  BY <1>1 DEF ProofInv

LEMMA WriteContractKeeps == ProofInv /\ WriteContract => ProofInv'
<1> SUFFICES ASSUME ProofInv, WriteContract PROVE ProofInv'
  OBVIOUS
<1>1. newest' = "contract" /\ UNCHANGED <<verification, verifying, reading, card>>
  BY DEF WriteContract
<1>2. Bound(verification)' /\ LastWritten' /\ ReadingShape' /\ Bound(reading.record)'
  BY <1>1 DEF ProofInv, Bound, LastWritten, ReadingShape
<1> QED
  BY <1>1, <1>2, CardStands

LEMMA ReadContractKeeps ==
  ASSUME ProofInv, NEW v \in Verifiers, ReadContract(v)
  PROVE  ProofInv'
<1>1. UNCHANGED <<verification, reading, card>>
  BY DEF ReadContract
<1>2. newest' = "contract" \/ UNCHANGED <<newest, completion>>
  BY DEF ReadContract
<1>3. Bound(verification)' /\ LastWritten' /\ ReadingShape' /\ Bound(reading.record)'
  BY <1>1, <1>2 DEF ProofInv, Bound, LastWritten, ReadingShape
<1> QED
  BY <1>1, <1>3, CardStands

LEMMA WriteRecordKeeps ==
  ASSUME ProofInv, NEW v \in Verifiers, WriteRecord(v)
  PROVE  ProofInv'
<1> DEFINE c == verifying[v].contract
<1>1. /\ verification'.binding = Binding(c) /\ verification'.subject = <<c.objective, c.delta>>
      /\ verification'.build = completion.build
      /\ UNCHANGED <<completion, reading, card>>
  BY DEF WriteRecord
<1> HIDE DEF c
<1>2. Bound(verification)'
  BY <1>1 DEF Bound, Binding
<1>3. LastWritten' /\ ReadingShape' /\ Bound(reading.record)'
  BY <1>1 DEF ProofInv, Bound, LastWritten, ReadingShape, Binding
<1> QED
  BY <1>1, <1>2, <1>3, CardStands

LEMMA OthersKeep ==
  ProofInv /\ (BeginCard \/ LoadRecord \/ ApprovalGoesOn \/ \E v \in Verifiers : VerifierDies(v))
    => ProofInv'
<1> SUFFICES ASSUME ProofInv,
                    \/ BeginCard \/ LoadRecord \/ ApprovalGoesOn
                    \/ \E v \in Verifiers : VerifierDies(v)
             PROVE  ProofInv'
  OBVIOUS
<1>1. /\ UNCHANGED <<completion, verification, newest>> /\ card' \in {card, NoCard}
      /\ \/ reading' = reading
         \/ reading' = [reading EXCEPT !.at = "contract", !.contract = completion]
         \/ \E d : reading' = [reading EXCEPT !.at = "record", !.record = verification, !.delta = d]
  BY DEF BeginCard, LoadRecord, ApprovalGoesOn, VerifierDies
<1>2. Bound(verification)' /\ LastWritten'
  BY <1>1 DEF ProofInv, Bound, LastWritten
<1>3. ReadingShape' /\ reading'.record \in {reading.record, verification}
  BY <1>1 DEF ProofInv, ReadingShape
<1>4. Bound(reading.record)'
  BY <1>3 DEF ProofInv, Bound
<1> QED
  BY <1>1, <1>2, <1>3, <1>4, CardStands

(* The words of a card that is made of a contract c and a record r.        *)
LEMMA CardWords ==
  ASSUME NEW r, NEW fresh \in BOOLEAN, NEW matches \in BOOLEAN, NEW unproven \in BOOLEAN,
         NEW proof, proof = ProofStatus(r, fresh, matches, unproven),
         NEW safety, safety = ApprovalSafety(proof, r, fresh, matches),
         r = NoRecord => ~matches
  PROVE  /\ proof = "proven" <=> HasPassed(r) /\ fresh /\ matches /\ ~unproven
         /\ proof = "proven" <=> proof = "proven" /\ safety = "safe-to-review"
         /\ proof = "proven" <=> ReviewDecision(proof, safety) = "ready-for-review"
         /\ r # NoRecord => (ReviewDecision(proof, safety) = "blocked" <=> ~HasPassed(r))
<1>1. CASE r = NoRecord
  BY <1>1 DEF ProofStatus, ApprovalSafety, ReviewDecision
<1>2. CASE r # NoRecord /\ ~HasPassed(r)
  BY <1>2 DEF ProofStatus, ApprovalSafety, ReviewDecision
<1>3. CASE r # NoRecord /\ HasPassed(r) /\ ~(fresh /\ matches)
  BY <1>3 DEF ProofStatus, ApprovalSafety, ReviewDecision
<1>4. CASE r # NoRecord /\ HasPassed(r) /\ fresh /\ matches /\ unproven
  BY <1>4 DEF ProofStatus, ApprovalSafety, ReviewDecision
<1>5. CASE r # NoRecord /\ HasPassed(r) /\ fresh /\ matches /\ ~unproven
  BY <1>5 DEF ProofStatus, ApprovalSafety, ReviewDecision
<1> QED
  BY <1>1, <1>2, <1>3, <1>4, <1>5

LEMMA BuildProofCardKeeps == ProofInv /\ BuildProofCard => ProofInv'
<1> SUFFICES ASSUME ProofInv, BuildProofCard PROVE ProofInv'
  OBVIOUS
<1> DEFINE c == reading.contract
           r == reading.record
           fresh == IsFresh
           binding == BindingStatus(c, r)
           matches == MatchesContract(c, r) /\ binding = "matched"
           missing(a) == Missing(c, r, a)
           unproven(a) == \/ missing(a) # {} \/ c.commands = {} \/ reading.delta = "unknown"
                          \/ ~HasPassed(r) \/ ~fresh \/ ~matches
           proof(a) == ProofStatus(r, fresh, matches, unproven(a))
           safety(a) == ApprovalSafety(proof(a), r, fresh, matches)
<1>1. PICK a \in SUBSET Artifacts :
        card' = [proof |-> proof(a), safety |-> safety(a),
                 decision |-> ReviewDecision(proof(a), safety(a)),
                 freshness |-> FreshnessLabel(r, fresh, binding),
                 candidate |-> HasPassed(r) /\ fresh /\ matches /\ ~unproven(a),
                 open |-> proof(a) = "proven" /\ safety(a) = "safe-to-review",
                 contract |-> c, record |-> r, lacks |-> missing(a) \ {"evidence"},
                 delta |-> reading.delta, torn |-> c # completion \/ r # verification]
  BY Zenon DEF BuildProofCard
<1>2. UNCHANGED <<completion, verification, newest, verifying>> /\ reading' = NotReading
  BY DEF BuildProofCard
<1>3. fresh \in BOOLEAN /\ matches \in BOOLEAN /\ unproven(a) \in BOOLEAN
  BY DEF IsFresh
<1>4. r = NoRecord => ~matches
  BY DEF MatchesContract
<1>5. /\ proof(a) = "proven" <=> HasPassed(r) /\ fresh /\ matches /\ ~unproven(a)
      /\ proof(a) = "proven" <=> proof(a) = "proven" /\ safety(a) = "safe-to-review"
      /\ proof(a) = "proven" <=> ReviewDecision(proof(a), safety(a)) = "ready-for-review"
      /\ r # NoRecord => (ReviewDecision(proof(a), safety(a)) = "blocked" <=> ~HasPassed(r))
  <2> HIDE DEF c, r, fresh, matches, unproven, missing
  <2> QED
    BY <1>3, <1>4, CardWords
<1>6. HasPassed(r) /\ fresh /\ matches /\ ~unproven(a) =>
        /\ r # NoRecord /\ newest = "record" /\ r.binding = Binding(c)
        /\ c.commands \subseteq r.passed /\ c.commands # {}
        /\ missing(a) = {} /\ reading.delta # "unknown"
        /\ FreshnessLabel(r, fresh, binding) = "fresh"
  BY DEF IsFresh, MatchesContract, BindingStatus, FreshnessLabel
<1>7. r # NoRecord /\ r.binding = Binding(c) => r.subject = <<c.objective, c.delta>>
  BY DEF ProofInv, Bound, Binding
<1>8. newest = "record" /\ c = completion /\ r = verification => r.build = c.build
  BY DEF ProofInv, LastWritten
<1>9. HasPassed(r) <=> ~(r.passed # r.ran \/ r.ran = {})
  BY DEF HasPassed
<1> HIDE DEF c, r, fresh, binding, matches, missing, unproven, proof, safety
<1>10. /\ card'.proof = proof(a) /\ card'.decision = ReviewDecision(proof(a), safety(a))
       /\ card'.freshness = FreshnessLabel(r, fresh, binding)
       /\ card'.candidate = (HasPassed(r) /\ fresh /\ matches /\ ~unproven(a))
       /\ card'.open = (proof(a) = "proven" /\ safety(a) = "safe-to-review")
       /\ card'.contract = c /\ card'.record = r /\ card'.lacks = missing(a) \ {"evidence"}
       /\ card'.delta = reading.delta /\ card'.torn = (c # completion \/ r # verification)
  BY <1>1, Zenon
<1>11. card'.open <=> HasPassed(r) /\ fresh /\ matches /\ ~unproven(a)
  BY <1>5, <1>10
<1>12. OpenIsEarned'
  <2> SUFFICES ASSUME card'.open
               PROVE  /\ card'.record.subject = <<card'.contract.objective, card'.contract.delta>>
                      /\ card'.contract.commands # {}
                      /\ card'.contract.commands \subseteq card'.record.passed
                      /\ card'.torn \/ card'.record.build = card'.contract.build
                      /\ card'.lacks = {} /\ card'.delta # "unknown"
    BY DEF OpenIsEarned
  <2>1. /\ r # NoRecord /\ newest = "record" /\ r.binding = Binding(c)
        /\ c.commands \subseteq r.passed /\ c.commands # {}
        /\ missing(a) = {} /\ reading.delta # "unknown"
    BY <1>6, <1>11
  <2> QED
    BY <2>1, <1>7, <1>8, <1>10
<1>13. CardAgrees'
  <2>1. card'.open <=> card'.proof = "proven"
    BY <1>5, <1>10
  <2>2. card'.open <=> card'.candidate
    BY <1>10, <1>11
  <2>3. card'.open <=> card'.decision = "ready-for-review"
    BY <1>5, <1>10
  <2>4. card'.open => card'.freshness = "fresh"
    BY <1>6, <1>10, <1>11
  <2>5. card'.record # NoRecord =>
          (card'.decision = "blocked" <=> card'.record.passed # card'.record.ran
                                          \/ card'.record.ran = {})
    BY <1>5, <1>9, <1>10
  <2> QED
    BY <2>1, <2>2, <2>3, <2>4, <2>5 DEF CardAgrees
<1>14. Bound(verification)' /\ LastWritten' /\ ReadingShape' /\ Bound(reading.record)'
  BY <1>2 DEF ProofInv, Bound, LastWritten, ReadingShape, NotReading
<1> QED
  BY <1>12, <1>13, <1>14 DEF ProofInv, ProofSound

(* However builds, verifies and approvals overlap: a card that lets an      *)
(* approval through rests on one run in which every command of the contract *)
(* it was drawn from passed, and its words agree with each other.           *)
THEOREM ProofIsSound == ProofSpec => []ProofSound
<1>1. ProofInv /\ [ProofNext]_proofVars => ProofInv'
  <2>1. ProofInv /\ ProofNext => ProofInv'
    BY WriteContractKeeps, ReadContractKeeps, WriteRecordKeeps, OthersKeep, BuildProofCardKeeps
       DEF ProofNext
  <2>2. ProofInv /\ UNCHANGED proofVars => ProofInv'
    BY DEF ProofInv, proofVars, Bound, LastWritten, ReadingShape, ProofSound, OpenIsEarned,
           CardAgrees, Binding
  <2> QED
    BY <2>1, <2>2
<1>2. ProofInv => ProofSound
  BY DEF ProofInv
<1> QED
  BY ProofStarts, <1>1, <1>2, PTL DEF ProofSpec

-----------------------------------------------------------------------------
(* The merge controller.                                                   *)

(* The effective gate is met exactly by the gates that satisfy both the    *)
(* caller and the manifest's risk.                                         *)
LEMMA GateSound ==
  ASSUME NEW r \in Requests
  PROVE  GateMet(r, EffectiveGate(r.required, MinimumGate(r.tier, r.confidence)))
         <=> /\ r.actual \in AcceptableGates(r.tier, r.confidence)
             /\ \/ r.actual = "HUMAN"
                \/ r.required = "AGENT"
                \/ r.actual = r.required
<1>1. /\ r.actual \in {"AGENT", "HYBRID", "HUMAN"}
      /\ r.required \in {"AGENT", "HYBRID", "HUMAN"}
      /\ r.tier \in {"A", "B", "C"}
      /\ r.confidence \in {"BC1", "BC2", "BC3"}
  BY DEF Requests, Gates
<1>2. /\ Strictness["AGENT"] = 1 /\ Strictness["HYBRID"] = 2
      /\ Strictness["HUMAN"] = 3
  BY DEF Strictness
<1>3. CASE r.tier = "A" \/ r.confidence = "BC3"
  <2>1. /\ MinimumGate(r.tier, r.confidence) = "HUMAN"
        /\ AcceptableGates(r.tier, r.confidence) = {"HUMAN"}
    BY <1>1, <1>3 DEF MinimumGate, AcceptableGates
  <2> QED
    BY <1>1, <1>2, <2>1 DEF GateMet, EffectiveGate
<1>4. CASE r.tier = "B" /\ r.confidence # "BC3"
  <2>1. /\ MinimumGate(r.tier, r.confidence) = "HYBRID"
        /\ AcceptableGates(r.tier, r.confidence) = {"HUMAN", "HYBRID"}
    BY <1>1, <1>4 DEF MinimumGate, AcceptableGates
  <2> QED
    BY <1>1, <1>2, <2>1 DEF GateMet, EffectiveGate
<1>5. CASE r.tier = "C" /\ r.confidence # "BC3"
  <2>1. /\ MinimumGate(r.tier, r.confidence) = "AGENT"
        /\ AcceptableGates(r.tier, r.confidence) = {"AGENT", "HYBRID", "HUMAN"}
    BY <1>1, <1>5 DEF MinimumGate, AcceptableGates, Gates
  <2> QED
    BY <1>1, <1>2, <2>1 DEF GateMet, EffectiveGate
<1> QED
  BY <1>1, <1>3, <1>4, <1>5

TypeInv == request \in Requests /\ clock \in Nat /\ switch \in BOOLEAN

LEMMA TypeAlways == MergeSpec => []TypeInv
<1>1. MergeInit => TypeInv
  <2>1. MergeInit => clock \in Nat
    BY DEF MergeInit
  <2>2. MergeInit => request \in Requests /\ switch \in BOOLEAN
    BY Zenon DEF MergeInit
  <2> QED
    BY <2>1, <2>2 DEF TypeInv
<1>2. TypeInv /\ [MergeNext]_mergeVars => TypeInv'
  <2> SUFFICES ASSUME TypeInv, [MergeNext]_mergeVars PROVE TypeInv'
    OBVIOUS
  <2>1. CASE Tick
    BY <2>1 DEF Tick, TypeInv
  <2>2. CASE SetSwitch
    <3>1. (~switch) \in BOOLEAN
      OBVIOUS
    <3> QED
      BY <2>2, <3>1, Zenon DEF SetSwitch, TypeInv
  <2>3. CASE Validate
    BY <2>3 DEF Validate, TypeInv
  <2>4. CASE UNCHANGED mergeVars
    BY <2>4 DEF mergeVars, TypeInv
  <2> QED
    BY <2>1, <2>2, <2>3, <2>4 DEF MergeNext
<1> QED
  BY <1>1, <1>2, PTL DEF MergeSpec

LEMMA NothingFails ==
  ASSUME TypeInv
  PROVE  Failing(request, clock, switch) = {} <=> SafeToMerge
<1> DEFINE p == Passed(request, clock, switch)
<1>1. Failing(request, clock, switch) = {}
        <=> /\ p.kill_switch_clear /\ p.evidence_exists /\ p.manifest_fresh
            /\ p.gate_type_met /\ p.review_complete
  BY DEF Failing, Passed
<1>2. p.kill_switch_clear <=> ~switch
  BY DEF Passed
<1>3. p.manifest_fresh <=> clock <= request.expires
  BY MaxTimeIsNat DEF Passed, TypeInv, Requests
<1>4. p.evidence_exists <=> EvidenceMatches(request)
  BY DEF Passed
<1>5. p.review_complete <=> ReviewComplete(request)
  BY DEF Passed
<1>6. p.gate_type_met
        <=> GateMet(request, EffectiveGate(request.required,
                               MinimumGate(request.tier, request.confidence)))
  BY DEF Passed
<1>7. EvidenceMatches(request)
        <=> /\ request.packet.kind = "packet"
            /\ request.contentHash # NoHash
            /\ request.packet.manifestHash = request.contentHash
            /\ request.packet.digest = "sealed"
            /\ request.suppliedHash \in {NoHash, request.contentHash}
  BY DEF EvidenceMatches
<1> HIDE DEF p
<1> QED
  BY <1>1, <1>2, <1>3, <1>4, <1>5, <1>6, <1>7, GateSound
  DEF SafeToMerge, ReviewComplete, TypeInv

(* A merge is allowed exactly when it is safe.                             *)
THEOREM MergeIsSafe == MergeSpec => AllowedExactlyWhenSafe
<1>1. ASSUME TypeInv, [MergeNext]_mergeVars
      PROVE  decision' # decision => (decision'.allowed <=> SafeToMerge)
  <2> SUFFICES ASSUME decision' # decision
               PROVE  decision'.allowed <=> SafeToMerge
    OBVIOUS
  <2>1. Validate
    BY <1>1 DEF MergeNext, Tick, SetSwitch, mergeVars
  <2>2. decision'.allowed <=> Failing(request, clock, switch) = {}
    BY <2>1 DEF Validate
  <2> QED
    BY <1>1, <2>2, NothingFails
<1> QED
  BY <1>1, TypeAlways, PTL DEF MergeSpec, AllowedExactlyWhenSafe

(* Every decision is in the ledger exactly once.                           *)
THEOREM MergesAreAudited == MergeSpec => []DecisionsAudited
<1>1. MergeInit => DecisionsAudited
  BY DEF MergeInit, DecisionsAudited
<1>2. DecisionsAudited /\ [MergeNext]_mergeVars => DecisionsAudited'
  <2> SUFFICES ASSUME DecisionsAudited, [MergeNext]_mergeVars PROVE DecisionsAudited'
    OBVIOUS
  <2>1. CASE Validate
    <3> DEFINE failed == Failing(request, clock, switch)
    <3>1. /\ decision' = [allowed |-> failed = {}, failed |-> failed]
          /\ entries' = <<IF failed = {} THEN "allow" ELSE "block">>
      BY <2>1 DEF Validate, DecisionsAudited
    <3>2. "undecided" \notin failed
      BY DEF Failing, Passed
    <3>3. decision' # Undecided
      BY <3>1, <3>2 DEF Undecided
    <3>4. decision'.allowed <=> failed = {}
      BY <3>1
    <3> HIDE DEF failed
    <3> QED
      BY <3>1, <3>3, <3>4 DEF DecisionsAudited
  <2>2. CASE ~Validate
    BY <2>2 DEF MergeNext, Tick, SetSwitch, mergeVars, DecisionsAudited
  <2> QED
    BY <2>1, <2>2
<1> QED
  BY <1>1, <1>2, PTL DEF MergeSpec
=============================================================================
