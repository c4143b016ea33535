--------------------------- MODULE MergeController ---------------------------
(***************************************************************************)
(* MergeController.validate_merge: a caller has gathered a request; while  *)
(* it does so time passes and merges may be halted or released; then one   *)
(* call evaluates all five checks, appends a MERGE entry to the audit      *)
(* ledger whatever the outcome, and returns the decision.                  *)
(***************************************************************************)
EXTENDS MergeChecks, Sequences

CONSTANTS
  Hashes,     \* content hashes of manifests
  MaxTime     \* bound on the clock

ASSUME MaxTimeIsNat == MaxTime \in Nat

VARIABLES
  request,    \* the arguments of the call
  clock,      \* datetime.now
  switch,     \* the kill switch halts "merges"
  decision,   \* the MergeDecision returned
  entries     \* decisions of the MERGE entries in the audit ledger

mergeVars == <<request, clock, switch, decision, entries>>

Requests ==
  [expires : 0..MaxTime, contentHash : Hashes \cup {NoHash},
   packet : Packets(Hashes), suppliedHash : Hashes \cup {NoHash},
   tier : {"A", "B", "C"}, confidence : {"BC1", "BC2", "BC3"},
   required : Gates, actual : Gates,
   sub : {"pending_review", "decision"},
   state : {"under_review", "approved"}]

Undecided == [allowed |-> FALSE, failed |-> {"undecided"}]

-----------------------------------------------------------------------------

MergeInit ==
  /\ request \in Requests
  /\ clock = 0
  /\ switch = FALSE
  /\ decision = Undecided
  /\ entries = <<>>

Tick ==
  /\ clock < MaxTime
  /\ clock' = clock + 1
  /\ UNCHANGED <<request, switch, decision, entries>>

SetSwitch ==
  /\ switch' = ~switch
  /\ UNCHANGED <<request, clock, decision, entries>>

Validate ==
  /\ decision = Undecided
  /\ LET failed == Failing(request, clock, switch)
     IN  /\ decision' = [allowed |-> failed = {}, failed |-> failed]
         /\ entries' = Append(entries, IF failed = {} THEN "allow" ELSE "block")
  /\ UNCHANGED <<request, clock, switch>>

MergeNext == Tick \/ SetSwitch \/ Validate

MergeSpec == MergeInit /\ [][MergeNext]_mergeVars

-----------------------------------------------------------------------------

(* The gates that satisfy a manifest of this risk, stated without an       *)
(* order: MERGE-02.                                                        *)
AcceptableGates(tier, confidence) ==
  CASE tier = "A" \/ confidence = "BC3" -> {"HUMAN"}
    [] tier = "B" /\ confidence # "BC3" -> {"HUMAN", "HYBRID"}
    [] OTHER                            -> Gates

(* A merge is allowed exactly when it is safe: merges are not halted and   *)
(* the manifest has not expired at the moment of the decision, the         *)
(* evidence is the reviewed evidence of this very manifest whatever hash   *)
(* the caller claims, the review reached its decision, and the gate that   *)
(* was passed satisfies the manifest's risk even if the caller asks for    *)
(* less.                                                                   *)
SafeToMerge ==
  /\ ~switch
  /\ clock <= request.expires
  /\ request.packet.kind = "packet"
  /\ request.contentHash # NoHash
  /\ request.packet.manifestHash = request.contentHash
  /\ request.packet.digest = "sealed"
  /\ request.suppliedHash \in {NoHash, request.contentHash}
  /\ request.state = "approved" /\ request.sub = "decision"
  /\ request.actual \in AcceptableGates(request.tier, request.confidence)
  /\ \/ request.actual = "HUMAN"
     \/ request.required = "AGENT"
     \/ request.actual = request.required

AllowedExactlyWhenSafe ==
  [][decision' # decision => (decision'.allowed <=> SafeToMerge)]_mergeVars

(* T-02-19: every decision, allowed or blocked, is in the ledger, once.    *)
DecisionsAudited ==
  entries = IF decision = Undecided THEN <<>>
            ELSE IF decision.allowed THEN <<"allow">> ELSE <<"block">>
=============================================================================
