----------------------------- MODULE SpecStories -----------------------------
(***************************************************************************)
(* A specification file whose stories are validated, decomposed into one   *)
(* manifest each, listed, reconciled with the file and put into a build    *)
(* order.  `ces spec decompose` checks for earlier manifests, saves the    *)
(* new ones one after the other and audits at the end; two of them may     *)
(* overlap, one may be killed, and the file is edited in between.          *)
(*                                                                         *)
(* Nothing keeps a file from giving two stories the same id: every table   *)
(* of the code that is keyed by it then holds the later one.               *)
(***************************************************************************)
EXTENDS Naturals, Sequences, SequencesExt, FiniteSets

CONSTANTS
  Planners,        \* processes that run `ces spec decompose`
  ShortDocs,       \* files of up to this many stories over the ids 1 and 2
  StoryIds         \* or one story of each of these ids, in their order

ASSUME PlanConstants == ShortDocs \in Nat /\ StoryIds \in Nat

VARIABLES
  doc,        \* the stories of the file, in their order
  planned,    \* the rows of manifests that belong to the specification
  decomposing,\* of each planner: what its command is doing
  logged,     \* planners whose decomposition is in the audit ledger
  edited      \* the file was changed

planVars == <<doc, planned, decomposing, logged, edited>>

Stories(ids) == [id : ids, after : SUBSET ids]

Documents ==
  (UNION {[1..n -> Stories({1, 2})] : n \in 0..ShortDocs})
    \cup {d \in [1..StoryIds -> Stories(1..StoryIds)] : \A i \in 1..StoryIds : d[i].id = i}

Unstarted == [at |-> "unstarted", force |-> FALSE, of |-> <<>>, next |-> 1]

PlanInit ==
  /\ doc \in Documents /\ planned = {} /\ logged = {} /\ edited = FALSE
  /\ decomposing = [p \in Planners |-> Unstarted]

-----------------------------------------------------------------------------
(* The validation.                                                         *)

IdsOf(d) == {d[i].id : i \in DOMAIN d}

(* The story that a table keyed by ids holds.                              *)
LastOf(d, id) == d[SelectLastInSeq(d, LAMBDA s : s.id = id)]

ReferencesKnown(d) == \A i \in DOMAIN d : d[i].after \subseteq IdsOf(d)

DependsOn(d, id) == LastOf(d, id).after

(* visit, called with the stack and what was visited before, answers what  *)
(* is visited then: a node met again while it is on the stack closes a     *)
(* cycle; one that was left before is not entered again.                   *)
Cycle == {0}

Visits(ids) == [node : ids, stack : SUBSET ids, visited : (SUBSET ids) \cup {Cycle}]

VisitEach(visit, nodes, stack, visited) ==
  LET seen[i \in 0..Len(nodes)] ==
        IF i = 0 THEN visited
        ELSE visit[[node |-> nodes[i], stack |-> stack, visited |-> seen[i - 1]]]
  IN  seen[Len(nodes)]

Enter(d, visit, v) ==
  IF v.visited = Cycle \/ v.node \in v.stack THEN Cycle
  ELSE IF v.node \in v.visited THEN v.visited
  ELSE LET below == VisitEach(visit, SetToSeq(DependsOn(d, v.node)), v.stack \cup {v.node},
                              v.visited)
       IN  IF below = Cycle THEN Cycle ELSE below \cup {v.node}

(* Visit with room for so many more ids on the stack: without any, the     *)
(* node that is visited is on it.                                          *)
Visit(d) ==
  LET visit[room \in 0..Cardinality(IdsOf(d))] ==
        [v \in Visits(IdsOf(d)) |-> IF room = 0 THEN Cycle ELSE Enter(d, visit[room - 1], v)]
  IN  visit[Cardinality(IdsOf(d))]

GraphAcyclic(d) == VisitEach(Visit(d), SetToSeq(IdsOf(d)), {}, {}) # Cycle

IsValid(d) == ReferencesKnown(d) /\ GraphAcyclic(d)

-----------------------------------------------------------------------------
(* The commands.                                                           *)

SetPlanner(p, record) == decomposing' = [decomposing EXCEPT ![p] = record]

(* One look at the stored manifests decides whether to go on.              *)
Decompose(p, force) ==
  /\ decomposing[p].at = "unstarted" /\ IsValid(doc)
  /\ planned = {} \/ force
  /\ SetPlanner(p, [at |-> "saving", force |-> force, of |-> doc, next |-> 1])
  /\ UNCHANGED <<doc, planned, logged, edited>>

(* Faulty variant, used by a mutant of PROJECT.json only: a dependency is  *)
(* looked up among all manifests of the specification.                     *)
StoryToManifestAny(p, story) ==
  [id |-> <<p, story.id>>, story |-> story.id,
   needs |-> {<<q, id>> : q \in Planners, id \in story.after \cap IdsOf(decomposing[p].of)}]

(* The stub of one story; the id of a story it depends on becomes the id   *)
(* that this decomposition gave to that story.                             *)
StoryToManifest(p, story) ==
  [id |-> <<p, story.id>>, story |-> story.id,
   needs |-> {<<p, id>> : id \in story.after \cap IdsOf(decomposing[p].of)}]

(* save_manifest replaces a row of the same id.                            *)
SaveStub(p) ==
  /\ decomposing[p].at = "saving" /\ decomposing[p].next <= Len(decomposing[p].of)
  /\ LET stub == StoryToManifest(p, decomposing[p].of[decomposing[p].next])
     IN  planned' = {m \in planned : m.id # stub.id} \cup {stub}
  /\ SetPlanner(p, [decomposing[p] EXCEPT !.next = @ + 1])
  /\ UNCHANGED <<doc, logged, edited>>

LogDecomposed(p) ==
  /\ decomposing[p].at = "saving" /\ decomposing[p].next > Len(decomposing[p].of)
  /\ logged' = logged \cup {p}
  /\ SetPlanner(p, [decomposing[p] EXCEPT !.at = "done"])
  /\ UNCHANGED <<doc, planned, edited>>

PlannerKilled(p) ==
  /\ decomposing[p].at = "saving"
  /\ SetPlanner(p, [decomposing[p] EXCEPT !.at = "killed"])
  /\ UNCHANGED <<doc, planned, logged, edited>>

(* The user takes a story out of the file, or its dependencies.            *)
EditSpec ==
  /\ ~edited /\ edited' = TRUE
  /\ \E i \in DOMAIN doc :
       doc' \in {RemoveAt(doc, i), [doc EXCEPT ![i].after = {}]}
  /\ UNCHANGED <<planned, decomposing, logged>>

PlanNext ==
  \/ \E p \in Planners : \/ \E force \in BOOLEAN : Decompose(p, force)
                          \/ SaveStub(p) \/ LogDecomposed(p) \/ PlannerKilled(p)
  \/ EditSpec

PlanSpec == PlanInit /\ [][PlanNext]_planVars

-----------------------------------------------------------------------------
(* What the commands answer.                                               *)

(* `ces spec reconcile`.                                                   *)
StoriesPlanned == {m.story : m \in planned}

ReconcileSpec == [added |-> IdsOf(doc) \ StoriesPlanned,
                  orphaned |-> StoriesPlanned \ IdsOf(doc),
                  unchanged |-> IdsOf(doc) \cap StoriesPlanned]

(* `ces spec tree`: the manifest of a story, the last one if it has more.  *)
TreeRow(story) == {m \in planned : m.story = story}

(* The build order, by the algorithm of Kahn: indegrees over the rows that *)
(* exist, and a queue of those that wait for nothing.  Each round takes    *)
(* one row from the queue, and no row enters it twice.                     *)
InDegrees == [m \in planned |-> Cardinality({n \in planned : n.id \in m.needs})]

KahnStart ==
  [queue |-> SetToSeq({m \in planned : InDegrees[m] = 0}), degree |-> InDegrees, out |-> <<>>]

KahnRound(k) ==
  IF k.queue = <<>> THEN k
  ELSE LET mid     == Head(k.queue)
           waits   == {m \in planned : mid.id \in m.needs}
           lowered == [m \in planned |-> k.degree[m] - IF m \in waits THEN 1 ELSE 0]
       IN  [queue |-> Tail(k.queue) \o SetToSeq({m \in waits : lowered[m] = 0}),
            degree |-> lowered, out |-> Append(k.out, mid)]

Kahn ==
  LET after[n \in 0..Cardinality(planned)] ==
        IF n = 0 THEN KahnStart ELSE KahnRound(after[n - 1])
  IN  after[Cardinality(planned)]

BuildOrder == Kahn.out

IsComplete(order) == Len(order) = Cardinality(planned)

-----------------------------------------------------------------------------
(* A finite relation has a cycle when one can walk along it for ever       *)
(* without leaving some nodes.                                             *)
IsCyclic(edges) ==
  \E nodes \in SUBSET {e[1] : e \in edges} :
    nodes # {} /\ \A x \in nodes : \E y \in nodes : <<x, y>> \in edges

RowEdges == {e \in planned \X planned : e[2].id \in e[1].needs}

(* The validation accepts a file whose stories have different ids exactly  *)
(* when its dependencies have no cycle and name stories of the file.       *)
ValidationExact ==
  Cardinality(IdsOf(doc)) = Len(doc) /\ ReferencesKnown(doc) =>
    (IsValid(doc) <=> ~IsCyclic(UNION {{doc[i].id} \X doc[i].after : i \in DOMAIN doc}))

(* An order is given exactly when there is one, it lists every manifest    *)
(* once, and each after the ones it needs that exist.  Whatever overlaps,  *)
(* is killed or forced, there is one, unless a file that gave one id to    *)
(* two stories was saved in part.                                          *)
Ambiguous(d) == Cardinality(IdsOf(d)) # Len(d)

HalfAmbiguous == \E p \in Planners : decomposing[p].at # "done" /\ Ambiguous(decomposing[p].of)

OrderExact ==
  LET order == BuildOrder
  IN  /\ IsComplete(order) <=> ~IsCyclic(RowEdges)
      /\ IsComplete(order) \/ HalfAmbiguous
      /\ \A i, j \in DOMAIN order : order[j].id \in order[i].needs => j < i

(* A decomposition that has come to its end has left one row for each id   *)
(* of the file that it read, depending on its own rows only.               *)
DecompositionWhole ==
  \A p \in logged :
    LET own == {m \in planned : m.id[1] = p}
    IN  /\ {m.story : m \in own} = IdsOf(decomposing[p].of)
        /\ \A m \in own : m.needs \subseteq {n.id : n \in own}

(* One story has two manifests only when a command was forced, or another  *)
(* one had looked before it saved.                                         *)
Unhurried ==
  \A p \in Planners :
    decomposing[p].at # "unstarted" =>
      ~decomposing[p].force /\ \A q \in Planners \ {p} : decomposing[q].at = "unstarted"

OneEach == Unhurried => \A s \in StoriesPlanned : Cardinality(TreeRow(s)) = 1

(* A specification that was not edited since it was decomposed whole has   *)
(* nothing to reconcile.                                                   *)
ReconciledWhole ==
  logged # {} /\ ~edited => ReconcileSpec.added = {} /\ ReconcileSpec.orphaned = {}

(* What holds of specifications, their manifests and their build order.    *)
PlansSound ==
  /\ ValidationExact /\ OrderExact
  /\ DecompositionWhole /\ OneEach /\ ReconciledWhole
=============================================================================
