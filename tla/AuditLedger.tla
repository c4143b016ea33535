---------------------------- MODULE AuditLedger ----------------------------
(***************************************************************************)
(* The hash-chained audit ledger: control/services/audit_ledger.py over    *)
(* the audit_entries table of local_store/store.py.                        *)
(*                                                                         *)
(* AuditLedgerService.append_event is two database transactions: it reads  *)
(* the newest row of its project, computes the new entry's HMAC over that  *)
(* row's hash, and only then inserts.  The process lock of the store is    *)
(* held for one transaction at a time, so another `ces` process may insert *)
(* between the two.  A process may also die, or the insert may raise, in   *)
(* between.  The HMAC is collision free and every entry carries a fresh    *)
(* uuid, so a hash is modelled as a value no other entry has.              *)
(***************************************************************************)
EXTENDS Integers, Sequences

CONSTANTS
  Writers,    \* the ces processes that append
  Projects,   \* the project ids that share one state.db
  Hashes,     \* the entry hashes; bounds the number of entries under TLC
  GENESIS     \* what the first entry of a project links to

ASSUME GenesisIsNoHash == GENESIS \notin Hashes

VARIABLES
  log,        \* audit_entries of each project in rowid order
  pc,         \* where each process is in append_event
  head,       \* the prev_hash each process has read
  target      \* the project id each process resolved

vars == <<log, pc, head, target>>

Entries == [hash : Hashes, prev : Hashes \cup {GENESIS}, writer : Writers]

TypeOK ==
  /\ log \in [Projects -> Seq(Entries)]
  /\ pc \in [Writers -> {"idle", "hashing"}]
  /\ head \in [Writers -> Hashes \cup {GENESIS}]
  /\ target \in [Writers -> Projects]

-----------------------------------------------------------------------------

Init ==
  /\ log = [p \in Projects |-> <<>>]
  /\ pc = [w \in Writers |-> "idle"]
  /\ head = [w \in Writers |-> GENESIS]
  /\ target \in [Writers -> Projects]

(* Faulty variants, used by the mutants of PROJECT.json only: the query    *)
(* ordered the other way round; a head cached instead of read again; a     *)
(* retried insert that first advances the cached head, as the in-memory    *)
(* chain head of append_event does.                                        *)
OldestHash(rows) == IF rows = <<>> THEN GENESIS ELSE rows[1].hash

ReadHeadOnce(w, p) ==
  /\ pc[w] = "idle"
  /\ pc' = [pc EXCEPT ![w] = "hashing"]
  /\ target' = [target EXCEPT ![w] = p]
  /\ UNCHANGED <<log, head>>

InsertAdvancingHeadFirst(w, h) ==
  /\ pc[w] = "hashing"
  /\ \A q \in Projects : \A i \in DOMAIN log[q] : log[q][i].hash # h
  /\ \/ /\ log' = [log EXCEPT ![target[w]] =
                     Append(@, [hash |-> h, prev |-> head[w], writer |-> w])]
        /\ pc' = [pc EXCEPT ![w] = "idle"]
        /\ UNCHANGED <<head, target>>
     \/ /\ head' = [head EXCEPT ![w] = h]
        /\ UNCHANGED <<log, pc, target>>

(* The entry_hash of the newest row (ORDER BY rowid DESC LIMIT 1).         *)
LastHash(rows) == IF rows = <<>> THEN GENESIS ELSE rows[Len(rows)].hash

(* First transaction of append_event: resolve the project, read the head.  *)
ReadHead(w, p) ==
  /\ pc[w] = "idle"
  /\ pc' = [pc EXCEPT ![w] = "hashing"]
  /\ head' = [head EXCEPT ![w] = LastHash(log[p])]
  /\ target' = [target EXCEPT ![w] = p]
  /\ UNCHANGED log

Fresh(h) == \A q \in Projects : \A i \in DOMAIN log[q] : log[q][i].hash # h

(* Second transaction: insert the entry computed over the head read        *)
(* earlier.  Nothing compares that head with the table again.              *)
InsertRow(w, h) ==
  /\ pc[w] = "hashing"
  /\ Fresh(h)
  /\ log' = [log EXCEPT ![target[w]] =
               Append(@, [hash |-> h, prev |-> head[w], writer |-> w])]
  /\ pc' = [pc EXCEPT ![w] = "idle"]
  /\ UNCHANGED <<head, target>>

(* The process dies, or the insert raises, after the head was read.        *)
Abort(w) ==
  /\ pc[w] = "hashing"
  /\ pc' = [pc EXCEPT ![w] = "idle"]
  /\ UNCHANGED <<log, head, target>>

Next ==
  \E w \in Writers :
    \/ \E p \in Projects : ReadHead(w, p)
    \/ \E h \in Hashes : InsertRow(w, h)
    \/ Abort(w)

Spec == Init /\ [][Next]_vars

(* The same processes when at most one of them is inside append_event: a   *)
(* project in which ces commands are run one after the other.              *)
Alone(w) == \A v \in Writers \ {w} : pc[v] = "idle"

SerialNext ==
  \E w \in Writers :
    \/ \E p \in Projects : Alone(w) /\ ReadHead(w, p)
    \/ \E h \in Hashes : InsertRow(w, h)
    \/ Abort(w)

SerialSpec == Init /\ [][SerialNext]_vars

-----------------------------------------------------------------------------

(* The hash the walk of verify_integrity carries when it reaches row i.    *)
CarriedHash(rows, i) == IF i = 1 THEN GENESIS ELSE rows[i - 1].hash

(* verify_integrity of one project: recomputing the HMAC of row i over the *)
(* carried hash gives the stored one exactly when row i was computed over  *)
(* that hash.                                                              *)
VerifyIntegrity(p) ==
  \A i \in DOMAIN log[p] : log[p][i].prev = CarriedHash(log[p], i)

(* "Every entry links to the previous via HMAC": what `ces audit verify`   *)
(* reports as valid holds of every project at all times.  True of          *)
(* SerialSpec; overlapping processes break it.                             *)
ChainValid == \A p \in Projects : VerifyIntegrity(p)

(* No entry dangles: the entry append_event links to is one that is in the *)
(* table, above it, in the same project, although the insert of a computed *)
(* entry may never happen.                                                 *)
LinksPointBack ==
  \A p \in Projects : \A i \in DOMAIN log[p] :
    \/ log[p][i].prev = GENESIS
    \/ \E j \in 1..(i - 1) : log[p][j].hash = log[p][i].prev

(* A process never forks the chain against itself: of two entries that one *)
(* process appended to a project, the later one links at or above the      *)
(* earlier one, so they have different predecessors.                       *)
NoSelfFork ==
  \A p \in Projects : \A i, j \in DOMAIN log[p] :
    i < j /\ log[p][i].writer = log[p][j].writer
      => log[p][i].prev # log[p][j].prev

(* The two, of rows that are what they should be.                          *)
LedgerSound == TypeOK /\ LinksPointBack /\ NoSelfFork

(* Two different processes appended over one and the same head.            *)
Forked(p) ==
  \E i, j \in DOMAIN log[p] :
    /\ i < j
    /\ log[p][i].prev = log[p][j].prev
    /\ log[p][i].writer # log[p][j].writer

(* What a failed verification means when nobody edited the database: the   *)
(* chain has forked.                                                       *)
InvalidOnlyIfForked == \A p \in Projects : VerifyIntegrity(p) \/ Forked(p)

-----------------------------------------------------------------------------

(* Run one after the other, the processes implement the abstract chain.    *)
Chain == INSTANCE HashChain WITH log <- log

ImplementsChain == Chain!Spec
=============================================================================
