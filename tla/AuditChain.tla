----------------------------- MODULE AuditChain -----------------------------
(***************************************************************************)
(* The tamper-evident audit log, audit.py: record_event appends an event   *)
(* to its organization's hash chain, verify_chain walks the chain.         *)
(*                                                                         *)
(* record_event is two statements of the caller's transaction: the SELECT  *)
(* of the organization's last event and the INSERT that takes the next     *)
(* value of the sequence.  Transactions run at READ COMMITTED: they see    *)
(* what was committed and what they inserted themselves, and nothing keeps *)
(* two of them from reading the same last event.                           *)
(*                                                                         *)
(* Edits and deletions stand for whoever can write the table behind the    *)
(* program's back: the program never updates an event.                     *)
(***************************************************************************)
EXTENDS Integers, Sequences

CONSTANTS
  Writers,      \* transactions that may be in progress at the same time
  Orgs,         \* organizations, each with a chain of its own
  Contents,     \* every hashed column of an event but prev_hash
  MaxEvents     \* bound: no more values of audit_events.sequence than this

ASSUME EventsAssumption == MaxEvents \in Nat

VARIABLES
  stored,       \* the rows of audit_events
  recorded,     \* history: the rows as they were committed
  issued,       \* the last value the sequence column gave out
  txn,          \* per writer: its transaction
  overlapped    \* history: two transactions on the organization overlapped

vars == <<stored, recorded, issued, txn, overlapped>>

-----------------------------------------------------------------------------
(* Events and their digests.                                               *)

\* An ideal digest: two are equal only when the contents and the digests
\* they were computed from are.  Null is the prev_hash of a first event.
Null == << >>
Digests == Seq(Contents)

\* Mutant: the digest leaves out the contents and counts the events only.
EntryHashOfLinks(content, prev) == Append(prev, CHOOSE c \in Contents : TRUE)

\* compute_entry_hash
EntryHash(content, prev) == Append(prev, content)

Events ==
  [org : Orgs, sequence : Nat, content : Contents, prev : Digests, hash : Digests]

OfOrg(events, org) == {e \in events : e.org = org}

Before(events, e) == {d \in events : d.sequence < e.sequence}

\* prev is the entry_hash of the last of these events, Null if there is none.
Continues(prev, events) ==
  IF events = {}
    THEN prev = Null
    ELSE \E last \in events :
           /\ \A e \in events : e.sequence <= last.sequence
           /\ prev = last.hash

\* verify_chain, on one organization's events in sequence order.
VerifyChain(events) ==
  \A e \in events :
    /\ Continues(e.prev, Before(events, e))
    /\ e.hash = EntryHash(e.content, e.prev)

-----------------------------------------------------------------------------

Closed == [open |-> FALSE]

Transactions ==
  [open : {TRUE}, org : Orgs, reading : BOOLEAN, last : Digests,
   staged : SUBSET Events]

TypeOK ==
  /\ stored \subseteq Events
  /\ recorded \subseteq Events
  /\ issued \in Nat
  /\ txn \in [Writers -> Transactions \union {Closed}]
  /\ overlapped \in [Orgs -> BOOLEAN]

Init ==
  /\ stored = {}
  /\ recorded = {}
  /\ issued = 0
  /\ txn = [w \in Writers |-> Closed]
  /\ overlapped = [org \in Orgs |-> FALSE]

-----------------------------------------------------------------------------
(* record_event                                                            *)

Staged(w) == IF txn[w].open THEN txn[w].staged ELSE {}

\* A writer is between its statements, in a transaction for org or in none.
MayRecord(w, org) ==
  txn[w].open => txn[w].org = org /\ ~ txn[w].reading

\* Mutant: the SELECT is not limited to the organization.
ReadLastOfAll(w, org) ==
  /\ MayRecord(w, org)
  /\ \E last \in {Null} \union {e.hash : e \in stored \union Staged(w)} :
       /\ Continues(last, stored \union Staged(w))
       /\ txn' = [txn EXCEPT ![w] =
            [open |-> TRUE, org |-> org, reading |-> TRUE, last |-> last,
             staged |-> Staged(w)]]
  /\ overlapped' = [overlapped EXCEPT ![org] =
       @ \/ \E v \in Writers \ {w} : txn[v].open /\ txn[v].org = org]
  /\ UNCHANGED <<stored, recorded, issued>>

\* Mutant: the SELECT orders the committed events the other way round.
ReadFirst(w, org) ==
  /\ MayRecord(w, org)
  /\ \E last \in {Null} \union {e.hash : e \in stored} :
       /\ IF OfOrg(stored, org) = {}
            THEN last = Null
            ELSE \E e \in OfOrg(stored, org) : last = e.hash /\ e.prev = Null
       /\ txn' = [txn EXCEPT ![w] =
            [open |-> TRUE, org |-> org, reading |-> TRUE, last |-> last,
             staged |-> Staged(w)]]
  /\ overlapped' = [overlapped EXCEPT ![org] =
       @ \/ \E v \in Writers \ {w} : txn[v].open /\ txn[v].org = org]
  /\ UNCHANGED <<stored, recorded, issued>>

\* The SELECT: org's last event among the committed ones and its own.
ReadLast(w, org) ==
  /\ MayRecord(w, org)
  /\ \E last \in {Null} \union {e.hash : e \in stored \union Staged(w)} :
       /\ Continues(last, OfOrg(stored \union Staged(w), org))
       /\ txn' = [txn EXCEPT ![w] =
            [open |-> TRUE, org |-> org, reading |-> TRUE, last |-> last,
             staged |-> Staged(w)]]
  /\ overlapped' = [overlapped EXCEPT ![org] =
       @ \/ \E v \in Writers \ {w} : txn[v].open /\ txn[v].org = org]
  /\ UNCHANGED <<stored, recorded, issued>>

\* The INSERT.
Insert(w, content) ==
  /\ txn[w].open
  /\ txn[w].reading
  /\ issued < MaxEvents
  /\ issued' = issued + 1
  /\ LET event == [org |-> txn[w].org, sequence |-> issued + 1,
                   content |-> content, prev |-> txn[w].last,
                   hash |-> EntryHash(content, txn[w].last)]
     IN  txn' = [txn EXCEPT ![w].reading = FALSE,
                            ![w].staged = @ \union {event}]
  /\ UNCHANGED <<stored, recorded, overlapped>>

Commit(w) ==
  /\ txn[w].open
  /\ ~ txn[w].reading
  /\ stored' = stored \union txn[w].staged
  /\ recorded' = recorded \union txn[w].staged
  /\ txn' = [txn EXCEPT ![w] = Closed]
  /\ UNCHANGED <<issued, overlapped>>

\* The handler fails after recording: its events are gone, and so are the
\* sequence values they took.
Rollback(w) ==
  /\ txn[w].open
  /\ txn' = [txn EXCEPT ![w] = Closed]
  /\ UNCHANGED <<stored, recorded, issued, overlapped>>

-----------------------------------------------------------------------------
(* Writes behind the program's back, to a past event: one that its         *)
(* organization's chain has a later event for.                             *)

Past(e) == \E d \in OfOrg(stored, e.org) : d.sequence > e.sequence

\* The contents change; prev_hash and entry_hash are kept or made to fit.
Edit(e) ==
  /\ Past(e)
  /\ \E content \in Contents \ {e.content},
       prev \in {e.prev} \union {d.hash : d \in Before(OfOrg(stored, e.org), e)},
       rehashed \in BOOLEAN :
       stored' = (stored \ {e}) \union
         {[e EXCEPT !.content = content, !.prev = prev,
                    !.hash = IF rehashed THEN EntryHash(content, prev) ELSE @]}
  /\ UNCHANGED <<recorded, issued, txn, overlapped>>

Delete(e) ==
  /\ Past(e)
  /\ stored' = stored \ {e}
  /\ UNCHANGED <<recorded, issued, txn, overlapped>>

-----------------------------------------------------------------------------

Record(w) ==
  \/ \E org \in Orgs : ReadLast(w, org)
  \/ \E content \in Contents : Insert(w, content)
  \/ Commit(w)
  \/ Rollback(w)

Next ==
  \/ \E w \in Writers : Record(w)
  \/ \E e \in stored : Edit(e) \/ Delete(e)

Spec == Init /\ [][Next]_vars

-----------------------------------------------------------------------------
(* Properties.                                                             *)

\* While no two transactions of an organization overlap, what the program
\* records is one chain, whatever other organizations record in between and
\* whichever transactions roll back (audit.py:39-46).
SerialChainIntact ==
  \A org \in Orgs : ~ overlapped[org] => VerifyChain(OfOrg(recorded, org))

\* Such a chain that was changed behind the program's back no longer
\* verifies ("any retroactive edit to a past event breaks the chain",
\* README.md:132).
TamperEvident ==
  \A org \in Orgs :
    ~ overlapped[org] /\ OfOrg(stored, org) # OfOrg(recorded, org)
      => ~ VerifyChain(OfOrg(stored, org))

\* Transactions that overlap may fork a chain but never tear it: every event
\* follows an earlier event of its own organization, never one of another
\* organization and never one that was rolled back.
EveryLinkIsRecorded ==
  \A e \in recorded : e.prev # Null =>
    \E d \in recorded :
      /\ d.org = e.org
      /\ d.sequence < e.sequence
      /\ d.hash = e.prev

\* A chain nobody touched verifies: verify_chain reports tampering, and only
\* tampering (audit.py:43-46).  It does not hold: two transactions that read
\* the same last event fork the chain.  AuditChain.cfg with this invariant
\* finds it; what holds is SerialChainIntact.
UntamperedVerifies ==
  stored = recorded => \A org \in Orgs : VerifyChain(OfOrg(recorded, org))

=============================================================================
