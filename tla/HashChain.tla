----------------------------- MODULE HashChain -----------------------------
(***************************************************************************)
(* What the audit ledger promises: one append-only chain per project, in   *)
(* which every entry links to the entry before it, the first to GENESIS.   *)
(* AuditLedger implements this specification as long as no two processes   *)
(* overlap between reading the head and inserting the next entry.          *)
(***************************************************************************)
EXTENDS Integers, Sequences

CONSTANTS Writers, Projects, Hashes, GENESIS

VARIABLE log

(* The hash a chain ends in: what the next entry must link to.             *)
HeadOf(chain) == IF chain = <<>> THEN GENESIS ELSE chain[Len(chain)].hash

Init == log = [p \in Projects |-> <<>>]

Extend(w, p, h) ==
  /\ \A q \in Projects : \A i \in DOMAIN log[q] : log[q][i].hash # h
  /\ log' = [log EXCEPT ![p] =
               Append(@, [hash |-> h, prev |-> HeadOf(@), writer |-> w])]

Next == \E w \in Writers, p \in Projects, h \in Hashes : Extend(w, p, h)

Spec == Init /\ [][Next]_log
=============================================================================
