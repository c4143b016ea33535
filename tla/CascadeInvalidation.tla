------------------------ MODULE CascadeInvalidation ------------------------
(***************************************************************************)
(* CascadeInvalidationEngine.propagate: a truth artifact has changed, and  *)
(* everything downstream of it in the dependency graph is invalidated.     *)
(* The search goes breadth first, marks a node when it is first seen, and  *)
(* stops at a depth.  One step takes one node from the queue.              *)
(***************************************************************************)
EXTENDS Naturals, Sequences, SequencesExt, FiniteSets, FiniteSetsExt

CONSTANTS
  Changed,       \* the artifact that has changed
  Downstream,    \* the other nodes
  Unlisted,      \* those without a prefix of a known kind: other artifacts
  MaxDepths,     \* the limits of depth that are tried
  MaxEdges       \* between the other nodes

ASSUME CascadeConstants ==
  /\ IsFiniteSet(Downstream) /\ Unlisted \subseteq Downstream /\ Changed \notin Downstream
  /\ MaxDepths \subseteq Nat /\ MaxEdges \in Nat

VARIABLES
  depends,     \* of each node: the nodes downstream of it
  max_depth,
  visited,
  queue,       \* nodes with their depths
  affected,    \* the nodes that the result lists
  cascade_depth,
  truncated

cascadeVars == <<depends, max_depth, visited, queue, affected, cascade_depth, truncated>>

CascadeNodes == {Changed} \cup Downstream

(* Any graph of few edges between the other nodes, each of which also has  *)
(* an edge back to the changed one.                                        *)
CascadeInit ==
  /\ \E first \in SUBSET Downstream, later \in [Downstream -> SUBSET Downstream] :
       /\ \A n \in Downstream : n \notin later[n]
       /\ Cardinality(UNION {{n} \X later[n] : n \in Downstream}) <= MaxEdges
       /\ depends = [n \in CascadeNodes |-> IF n = Changed THEN first
                                             ELSE later[n] \cup {Changed}]
  /\ max_depth \in MaxDepths
  /\ visited = {Changed} /\ queue = <<<<Changed, 0>>>>
  /\ affected = {} /\ cascade_depth = 0 /\ truncated = FALSE

(* Faulty variant, used by a mutant of PROJECT.json only: the node that    *)
(* was put into the queue last is taken first.                             *)
TakeLast == [node |-> Last(queue), rest |-> Front(queue)]

TakeFirst == [node |-> Head(queue), rest |-> Tail(queue)]

(* Every downstream node not seen before is marked; beyond the limit it is *)
(* left at that, otherwise it is listed, if its kind is, and searched.     *)
Propagate ==
  /\ queue # <<>>
  /\ LET taken == TakeFirst
         fresh == depends[taken.node[1]] \ visited
         depth == taken.node[2] + 1
         deep  == depth > max_depth
     IN  /\ visited' = visited \cup fresh
         /\ truncated' = (truncated \/ (deep /\ fresh # {}))
         /\ queue' = taken.rest \o IF deep THEN <<>> ELSE SetToSeq(fresh \X {depth})
         /\ affected' = affected \cup IF deep THEN {} ELSE fresh \ (Unlisted \cup {Changed})
         /\ cascade_depth' = IF deep \/ fresh = {} THEN cascade_depth ELSE Max({cascade_depth, depth})
  /\ UNCHANGED <<depends, max_depth>>

CascadeSpec == CascadeInit /\ [][Propagate]_cascadeVars

-----------------------------------------------------------------------------

(* The nodes at a distance of at most n from the changed one, without the  *)
(* order of any search.                                                    *)
Within(n) ==
  LET near[k \in 0..n] == IF k = 0 THEN {Changed}
                          ELSE near[k - 1] \cup UNION {depends[m] : m \in near[k - 1]}
  IN  near[n]

Everything == Within(Cardinality(CascadeNodes))

(* The result lists exactly the nodes within the limit, says that it was   *)
(* cut exactly when there are more, and how far it got: neither a cycle    *)
(* nor a node that is reached on several paths changes that.               *)
CascadeSound ==
  queue = <<>> =>
    /\ affected = Within(max_depth) \ (Unlisted \cup {Changed})
    /\ truncated <=> (Everything # Within(max_depth))
    /\ cascade_depth = CHOOSE k \in 0..max_depth :
         /\ Within(k) = Within(max_depth)
         /\ \A j \in 0..(k - 1) : Within(j) # Within(max_depth)
=============================================================================
