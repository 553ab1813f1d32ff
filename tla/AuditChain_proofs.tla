-------------------------- MODULE AuditChain_proofs --------------------------
(***************************************************************************)
(* Theorems about AuditChain, for every set of writers, organizations and  *)
(* contents.                                                               *)
(***************************************************************************)
EXTENDS AuditChain, NaturalsInduction, WellFoundedInduction, TLAPS

-----------------------------------------------------------------------------
(* Types.                                                                  *)

\* What a writer has staged are events, and an open transaction is typed.
LEMMA StagedType ==
  ASSUME TypeOK, NEW w \in Writers
  PROVE  /\ Staged(w) \in SUBSET Events
         /\ txn[w].open => txn[w] \in Transactions
         /\ txn[w].open => txn[w].staged = Staged(w)
         /\ ~ txn[w].open => Staged(w) = {}
<1>1. txn[w] \in Transactions \union {Closed}
  BY DEF TypeOK
<1>2. txn[w].open => txn[w] \in Transactions
  BY <1>1 DEF Closed
<1>3. QED
  BY <1>2 DEF Staged, Transactions

\* Every step of Next, and every stutter, keeps the types.
LEMMA TypeStep == TypeOK /\ [Next]_vars => TypeOK'
<1> SUFFICES ASSUME TypeOK, [Next]_vars PROVE TypeOK'
  OBVIOUS
<1>1. ASSUME NEW w \in Writers, NEW org \in Orgs, ReadLast(w, org) PROVE TypeOK'
  <2>1. PICK last \in {Null} \union {e.hash : e \in stored \union Staged(w)} :
          txn' = [txn EXCEPT ![w] =
            [open |-> TRUE, org |-> org, reading |-> TRUE, last |-> last,
             staged |-> Staged(w)]]
    BY <1>1 DEF ReadLast
  <2>2. Staged(w) \in SUBSET Events /\ stored \in SUBSET Events
    BY StagedType DEF TypeOK
  <2>3. last \in Digests
    <3>1. Null \in Digests
      BY DEF Null, Digests
    <3>2. \A e \in Events : e.hash \in Digests
      BY DEF Events
    <3>3. QED
      BY <2>2, <3>1, <3>2
  <2>4. [open |-> TRUE, org |-> org, reading |-> TRUE, last |-> last,
         staged |-> Staged(w)] \in Transactions
    BY <2>2, <2>3 DEF Transactions
  <2>5. overlapped' \in [Orgs -> BOOLEAN]
    <3> DEFINE flag == overlapped[org] \/ \E v \in Writers \ {w} : txn[v].open /\ txn[v].org = org
    <3>1. overlapped' = [overlapped EXCEPT ![org] = flag]
      BY <1>1 DEF ReadLast
    <3>2. flag \in BOOLEAN
      BY DEF TypeOK
    <3> HIDE DEF flag
    <3>3. QED
      BY <3>1, <3>2 DEF TypeOK
  <2>6. QED
    BY <1>1, <2>1, <2>4, <2>5 DEF ReadLast, TypeOK
<1>2. ASSUME NEW w \in Writers, NEW content \in Contents, Insert(w, content) PROVE TypeOK'
  <2> DEFINE event == [org |-> txn[w].org, sequence |-> issued + 1, content |-> content,
                       prev |-> txn[w].last, hash |-> EntryHash(content, txn[w].last)]
  <2>1. txn[w] \in Transactions
    BY <1>2, StagedType DEF Insert
  <2>2. event \in Events
    BY <2>1 DEF Transactions, Events, Digests, EntryHash, TypeOK
  <2>3. txn' = [txn EXCEPT ![w].reading = FALSE, ![w].staged = @ \union {event}]
    BY <1>2 DEF Insert
  <2> HIDE DEF event
  <2>4. [txn[w] EXCEPT !.reading = FALSE, !.staged = @ \union {event}] \in Transactions
    BY <2>1, <2>2 DEF Transactions
  <2>5. txn' = [txn EXCEPT ![w] = [txn[w] EXCEPT !.reading = FALSE, !.staged = @ \union {event}]]
    BY <2>1, <2>3 DEF TypeOK
  <2>6. issued' \in Nat /\ UNCHANGED <<stored, recorded, overlapped>>
    BY <1>2 DEF Insert, TypeOK
  <2>7. QED
    BY <2>4, <2>5, <2>6 DEF TypeOK
<1>3. ASSUME NEW w \in Writers, Commit(w) PROVE TypeOK'
  BY <1>3, StagedType DEF Commit, TypeOK
<1>4. ASSUME NEW w \in Writers, Rollback(w) PROVE TypeOK'
  BY <1>4 DEF Rollback, TypeOK
<1>5. ASSUME NEW e \in stored, Edit(e) PROVE TypeOK'
  <2>1. PICK content \in Contents, prev \in {e.prev} \union {d.hash : d \in Before(OfOrg(stored, e.org), e)},
             rehashed \in BOOLEAN :
          stored' = (stored \ {e}) \union
            {[e EXCEPT !.content = content, !.prev = prev,
                       !.hash = IF rehashed THEN EntryHash(content, prev) ELSE @]}
    BY <1>5 DEF Edit
  <2>2. e \in Events /\ prev \in Digests
    BY DEF TypeOK, Before, OfOrg, Events
  <2>3. EntryHash(content, prev) \in Digests
    BY <2>2 DEF EntryHash, Digests
  <2>4. QED
    BY <1>5, <2>1, <2>2, <2>3 DEF Edit, TypeOK, Events
<1>6. ASSUME NEW e \in stored, Delete(e) PROVE TypeOK'
  BY <1>6 DEF Delete, TypeOK
<1>7. CASE UNCHANGED vars
  BY <1>7 DEF vars, TypeOK
<1>8. QED
  BY <1>1, <1>2, <1>3, <1>4, <1>5, <1>6, <1>7 DEF Next, Record

-----------------------------------------------------------------------------
(* Sequence numbers, and the last event of each chain.                     *)

\* h is the last of these events.
IsLast(h, events) ==
  h \in events /\ \A e \in events : e = h \/ e.sequence < h.sequence

\* Sequence numbers are given out once.
SequencesOnce ==
  /\ \A e \in stored \union recorded : e.sequence <= issued
  /\ \A w \in Writers : \A e \in Staged(w) :
       /\ e.sequence <= issued
       /\ e.org = txn[w].org
       /\ \A d \in stored \union recorded : d.sequence # e.sequence
       /\ \A v \in Writers \ {w} : \A d \in Staged(v) : d.sequence # e.sequence

\* The last event of a chain is as it was recorded: only past events are
\* ever edited, and the record has no later one.
LastUntouched ==
  /\ \A w \in Writers : Staged(w) # {} => \E h : IsLast(h, Staged(w))
  /\ \A org \in Orgs :
       \/ OfOrg(recorded, org) = {} /\ OfOrg(stored, org) = {}
       \/ \E h \in OfOrg(recorded, org) :
            /\ IsLast(h, OfOrg(stored, org))
            /\ \A e \in OfOrg(recorded, org) : e.sequence <= h.sequence

ChainShape == TypeOK /\ SequencesOnce /\ LastUntouched

\* Every step keeps the sequence numbers apart.
LEMMA SequencesStep == ChainShape /\ [Next]_vars => SequencesOnce'
<1> SUFFICES ASSUME ChainShape, [Next]_vars PROVE SequencesOnce'
  OBVIOUS
<1> USE DEF ChainShape
<1>0. \A v \in Writers : /\ Staged(v) \in SUBSET Events
                         /\ txn[v].open => txn[v] \in Transactions
                         /\ txn[v].open => txn[v].staged = Staged(v)
                         /\ ~ txn[v].open => Staged(v) = {}
  BY StagedType
<1>1. ASSUME NEW w \in Writers, NEW org \in Orgs, ReadLast(w, org) PROVE SequencesOnce'
  <2>1. PICK last : txn' = [txn EXCEPT ![w] =
            [open |-> TRUE, org |-> org, reading |-> TRUE, last |-> last,
             staged |-> Staged(w)]]
    BY <1>1 DEF ReadLast
  <2>2. \A v \in Writers : Staged(v)' = Staged(v)
    BY <2>1 DEF Staged, TypeOK
  <2>3. txn'[w].org = org /\ (Staged(w) # {} => txn[w].org = org)
    BY <1>0, <1>1, <2>1 DEF ReadLast, MayRecord, TypeOK
  <2>4. \A v \in Writers \ {w} : txn'[v] = txn[v]
    BY <2>1 DEF TypeOK
  <2>5. UNCHANGED <<stored, recorded, issued>>
    BY <1>1 DEF ReadLast
  <2>6. \A v \in Writers : Staged(v) # {} => txn'[v].org = txn[v].org
    BY <2>3, <2>4
  <2>7. QED
    BY <2>2, <2>5, <2>6 DEF SequencesOnce
<1>2. ASSUME NEW w \in Writers, NEW content \in Contents, Insert(w, content) PROVE SequencesOnce'
  <2> DEFINE event == [org |-> txn[w].org, sequence |-> issued + 1, content |-> content,
                       prev |-> txn[w].last, hash |-> EntryHash(content, txn[w].last)]
  <2>1. /\ txn[w] \in Transactions
        /\ txn' = [txn EXCEPT ![w].reading = FALSE, ![w].staged = @ \union {event}]
        /\ issued' = issued + 1
        /\ UNCHANGED <<stored, recorded>>
    BY <1>0, <1>2 DEF Insert
  <2>2. event.sequence = issued + 1 /\ event.org = txn[w].org
    OBVIOUS
  <2> HIDE DEF event
  <2>3. Staged(w)' = Staged(w) \union {event} /\ txn'[w].org = txn[w].org
    BY <1>0, <1>2, <2>1 DEF Insert, Staged, TypeOK, Transactions
  <2>4. \A v \in Writers \ {w} : Staged(v)' = Staged(v) /\ txn'[v] = txn[v]
    BY <2>1 DEF Staged, TypeOK
  <2>5. /\ \A v \in Writers : \A e \in Staged(v) : e.sequence \in Nat
        /\ \A e \in stored \union recorded : e.sequence \in Nat
        /\ issued \in Nat
    BY <1>0 DEF TypeOK, Events
  <2>6. ASSUME NEW v \in Writers, NEW e \in Staged(v)'
        PROVE  /\ e.sequence <= issued'
               /\ e.org = txn'[v].org
               /\ \A d \in (stored \union recorded)' : d.sequence # e.sequence
               /\ \A u \in Writers \ {v} : \A d \in Staged(u)' : d.sequence # e.sequence
    <3>1. CASE e \in Staged(v)
      <4>0. e.sequence <= issued /\ e.org = txn[v].org /\ e.sequence \in Nat
        BY <2>5, <3>1 DEF SequencesOnce
      <4>1. e.sequence <= issued' /\ e.org = txn'[v].org
        <5>1. txn'[v].org = txn[v].org
          BY <2>3, <2>4
        <5>2. QED
          BY <2>1, <2>5, <4>0, <5>1
      <4>2. \A d \in (stored \union recorded)' : d.sequence # e.sequence
        BY <2>1, <3>1 DEF SequencesOnce
      <4>3. \A u \in Writers \ {v} : \A d \in Staged(u)' : d.sequence # e.sequence
        BY <2>2, <2>3, <2>4, <2>5, <3>1 DEF SequencesOnce
      <4>4. QED
        BY <4>1, <4>2, <4>3
    <3>2. CASE e \notin Staged(v)
      <4>1. v = w /\ e = event
        BY <2>3, <2>4, <3>2
      <4>2. QED
        BY <2>1, <2>2, <2>3, <2>4, <2>5, <4>1 DEF SequencesOnce
    <3>3. QED
      BY <3>1, <3>2
  <2>7. \A e \in (stored \union recorded)' : e.sequence <= issued'
    BY <2>1, <2>5 DEF SequencesOnce
  <2>8. QED
    BY <2>6, <2>7 DEF SequencesOnce
<1>3. ASSUME NEW w \in Writers, Commit(w) PROVE SequencesOnce'
  <2>1. /\ stored' = stored \union Staged(w)
        /\ recorded' = recorded \union Staged(w)
        /\ issued' = issued
    BY <1>0, <1>3 DEF Commit
  <2>2. \A v \in Writers : \/ v = w /\ Staged(v)' = {}
                           \/ v # w /\ Staged(v)' = Staged(v) /\ txn'[v] = txn[v]
    BY <1>3 DEF Commit, Staged, TypeOK, Closed
  <2>3. QED
    BY <2>1, <2>2 DEF SequencesOnce
<1>4. ASSUME NEW w \in Writers, Rollback(w) PROVE SequencesOnce'
  <2>1. \A v \in Writers : \/ v = w /\ Staged(v)' = {}
                           \/ v # w /\ Staged(v)' = Staged(v) /\ txn'[v] = txn[v]
    BY <1>4 DEF Rollback, Staged, TypeOK, Closed
  <2>2. QED
    BY <1>4, <2>1 DEF Rollback, SequencesOnce
<1>5. ASSUME NEW e \in stored, Edit(e) \/ Delete(e) PROVE SequencesOnce'
  <2>1. \A d \in stored' : \E c \in stored : c.sequence = d.sequence
    <3>1. CASE Edit(e)
      BY <3>1 DEF Edit, TypeOK, Events
    <3>2. CASE Delete(e)
      BY <3>2 DEF Delete
    <3>3. QED
      BY <1>5, <3>1, <3>2
  <2>2. UNCHANGED <<recorded, issued, txn>>
    BY <1>5 DEF Edit, Delete
  <2>3. QED
    BY <2>1, <2>2 DEF SequencesOnce, Staged
<1>6. CASE UNCHANGED vars
  BY <1>6 DEF vars, SequencesOnce, Staged
<1>7. QED
  BY <1>1, <1>2, <1>3, <1>4, <1>5, <1>6 DEF Next, Record

\* Every step leaves the last event of each chain as it was recorded.
LEMMA LastStep == ChainShape /\ [Next]_vars => LastUntouched'
<1> SUFFICES ASSUME ChainShape, [Next]_vars PROVE LastUntouched'
  OBVIOUS
<1> USE DEF ChainShape
<1>0. \A v \in Writers : /\ Staged(v) \in SUBSET Events
                         /\ txn[v].open => txn[v] \in Transactions
                         /\ txn[v].open => txn[v].staged = Staged(v)
                         /\ ~ txn[v].open => Staged(v) = {}
  BY StagedType
<1> DEFINE Kept(org) ==
             \/ OfOrg(recorded, org) = {} /\ OfOrg(stored, org) = {}
             \/ \E h \in OfOrg(recorded, org) :
                  /\ IsLast(h, OfOrg(stored, org))
                  /\ \A e \in OfOrg(recorded, org) : e.sequence <= h.sequence
           StagedLast(w) == Staged(w) # {} => \E h : IsLast(h, Staged(w))
<1>a. (\A w \in Writers : StagedLast(w)) /\ (\A org \in Orgs : Kept(org))
  BY DEF LastUntouched
<1>1. ASSUME NEW w \in Writers, NEW org \in Orgs, ReadLast(w, org) PROVE LastUntouched'
  <2>1. \A v \in Writers : Staged(v)' = Staged(v)
    BY <1>1 DEF ReadLast, Staged, TypeOK
  <2>2. UNCHANGED <<stored, recorded>>
    BY <1>1 DEF ReadLast
  <2>3. QED
    BY <2>1, <2>2 DEF LastUntouched, OfOrg
<1>2. ASSUME NEW w \in Writers, NEW content \in Contents, Insert(w, content) PROVE LastUntouched'
  <2> DEFINE event == [org |-> txn[w].org, sequence |-> issued + 1, content |-> content,
                       prev |-> txn[w].last, hash |-> EntryHash(content, txn[w].last)]
  <2>1. /\ txn[w] \in Transactions
        /\ txn' = [txn EXCEPT ![w].reading = FALSE, ![w].staged = @ \union {event}]
        /\ UNCHANGED <<stored, recorded>>
    BY <1>0, <1>2 DEF Insert
  <2>2. event.sequence = issued + 1
    OBVIOUS
  <2> HIDE DEF event
  <2>3. Staged(w)' = Staged(w) \union {event}
    BY <1>0, <1>2, <2>1 DEF Insert, Staged, TypeOK, Transactions
  <2>4. \A v \in Writers \ {w} : Staged(v)' = Staged(v)
    BY <2>1 DEF Staged, TypeOK
  <2>5. \A e \in Staged(w) : e.sequence < event.sequence
    BY <1>0, <2>2 DEF SequencesOnce, TypeOK, Events
  <2>6. IsLast(event, Staged(w)')
    BY <2>3, <2>5 DEF IsLast
  <2>7. \A v \in Writers : Staged(v)' # {} => \E h : IsLast(h, Staged(v)')
    BY <1>a, <2>4, <2>6
  <2>8. QED
    BY <2>1, <2>7 DEF LastUntouched, OfOrg, IsLast
<1>3. ASSUME NEW w \in Writers, Commit(w) PROVE LastUntouched'
  <2>1. /\ stored' = stored \union Staged(w)
        /\ recorded' = recorded \union Staged(w)
    BY <1>0, <1>3 DEF Commit
  <2>2. \A v \in Writers : Staged(v)' = {} \/ Staged(v)' = Staged(v)
    BY <1>3 DEF Commit, Staged, TypeOK, Closed
  <2>3. ASSUME NEW org \in Orgs PROVE Kept(org)'
    <3>0. \A e \in stored \union recorded \union Staged(w) : e.sequence \in Nat
      BY <1>0 DEF TypeOK, Events
    <3>1. CASE OfOrg(Staged(w), org) = {}
      <4>1. OfOrg(stored', org) = OfOrg(stored, org) /\ OfOrg(recorded', org) = OfOrg(recorded, org)
        BY <2>1, <3>1 DEF OfOrg
      <4>2. QED
        BY <1>a, <4>1 DEF IsLast
    <3>2. CASE OfOrg(Staged(w), org) # {}
      <4>1. txn[w].org = org /\ OfOrg(Staged(w), org) = Staged(w)
        BY <3>2 DEF SequencesOnce, OfOrg
      <4>2. PICK s : IsLast(s, Staged(w))
        BY <1>a, <3>2 DEF OfOrg
      <4>3. /\ OfOrg(stored', org) = OfOrg(stored, org) \union Staged(w)
            /\ OfOrg(recorded', org) = OfOrg(recorded, org) \union Staged(w)
        BY <2>1, <4>1 DEF OfOrg
      <4>4. CASE OfOrg(recorded, org) = {} /\ OfOrg(stored, org) = {}
        <5>1. s \in OfOrg(recorded', org) /\ IsLast(s, OfOrg(stored', org))
          BY <4>2, <4>3, <4>4 DEF IsLast
        <5>2. \A e \in OfOrg(recorded', org) : e.sequence <= s.sequence
          BY <3>0, <4>2, <4>3, <4>4 DEF IsLast
        <5>3. QED
          BY <5>1, <5>2
      <4>5. ASSUME NEW h \in OfOrg(recorded, org), IsLast(h, OfOrg(stored, org)),
                   \A e \in OfOrg(recorded, org) : e.sequence <= h.sequence
            PROVE  Kept(org)'
        <5>0. h \in recorded /\ h \in stored /\ s \in Staged(w) /\ h.sequence # s.sequence
          BY <4>2, <4>5 DEF IsLast, OfOrg, SequencesOnce
        <5>00. \A d \in OfOrg(stored, org) \union OfOrg(recorded, org) \union Staged(w) : d.sequence \in Nat
          BY <3>0 DEF OfOrg
        <5>1. CASE s.sequence < h.sequence
          <6>1. IsLast(h, OfOrg(stored', org))
            BY <3>0, <4>2, <4>3, <4>5, <5>0, <5>00, <5>1 DEF IsLast
          <6>2. \A e \in OfOrg(recorded', org) : e.sequence <= h.sequence
            BY <3>0, <4>2, <4>3, <4>5, <5>0, <5>00, <5>1 DEF IsLast
          <6>3. QED
            BY <4>3, <6>1, <6>2
        <5>2. CASE h.sequence < s.sequence
          <6>1. IsLast(s, OfOrg(stored', org))
            BY <3>0, <4>2, <4>3, <4>5, <5>0, <5>00, <5>2 DEF IsLast
          <6>2. \A e \in OfOrg(recorded', org) : e.sequence <= s.sequence
            BY <3>0, <4>2, <4>3, <4>5, <5>0, <5>00, <5>2 DEF IsLast
          <6>3. QED
            BY <4>2, <4>3, <6>1, <6>2 DEF IsLast
        <5>3. QED
          BY <3>0, <5>0, <5>1, <5>2
      <4>6. QED
        BY <1>a, <4>4, <4>5
    <3>3. QED
      BY <3>1, <3>2
  <2>4. \A v \in Writers : StagedLast(v)'
    BY <1>a, <2>2 DEF IsLast
  <2>5. QED
    BY <2>3, <2>4 DEF LastUntouched
<1>4. ASSUME NEW w \in Writers, Rollback(w) PROVE LastUntouched'
  <2>1. \A v \in Writers : Staged(v)' = {} \/ Staged(v)' = Staged(v)
    BY <1>4 DEF Rollback, Staged, TypeOK, Closed
  <2>2. QED
    BY <1>4, <2>1 DEF Rollback, LastUntouched, OfOrg, IsLast
<1>5. ASSUME NEW e \in stored, Edit(e) \/ Delete(e) PROVE LastUntouched'
  <2>1. /\ Past(e)
        /\ UNCHANGED <<recorded, txn>>
        /\ stored \ {e} \subseteq stored'
        /\ \A d \in stored' : d \in stored \/ (d.sequence = e.sequence /\ d.org = e.org)
        /\ e \in Events
    <3>1. CASE Edit(e)
      BY <3>1 DEF Edit, TypeOK, Events
    <3>2. CASE Delete(e)
      BY <3>2 DEF Delete, TypeOK
    <3>3. QED
      BY <1>5, <3>1, <3>2
  <2>2. ASSUME NEW org \in Orgs PROVE Kept(org)'
    <3>0. \A d \in stored : d.sequence \in Nat
      BY DEF TypeOK, Events
    <3>1. CASE OfOrg(recorded, org) = {} /\ OfOrg(stored, org) = {}
      <4>1. OfOrg(stored', org) = {} /\ OfOrg(recorded', org) = {}
        BY <2>1, <3>1 DEF OfOrg
      <4>2. QED
        BY <4>1
    <3>2. ASSUME NEW h \in OfOrg(recorded, org), IsLast(h, OfOrg(stored, org)),
                 \A d \in OfOrg(recorded, org) : d.sequence <= h.sequence
          PROVE  Kept(org)'
      <4>1. CASE e.org # org
        <5>1. OfOrg(stored', org) = OfOrg(stored, org)
          BY <2>1, <4>1 DEF OfOrg
        <5>2. QED
          BY <2>1, <3>2, <5>1 DEF IsLast, OfOrg
      <4>2. CASE e.org = org
        <5>1. e \in OfOrg(stored, org) /\ \E d \in OfOrg(stored, org) : d.sequence > e.sequence
          BY <2>1, <4>2 DEF Past, OfOrg
        <5>2. e.sequence < h.sequence /\ e # h
          <6>1. \A d \in OfOrg(stored, org) : d.sequence \in Nat
            BY <3>0 DEF OfOrg
          <6>2. QED
            BY <3>2, <5>1, <6>1 DEF IsLast
        <5>3. h \in OfOrg(stored', org)
          BY <2>1, <3>2, <5>2 DEF IsLast, OfOrg
        <5>4. IsLast(h, OfOrg(stored', org))
          BY <2>1, <3>2, <5>2, <5>3 DEF IsLast, OfOrg
        <5>5. QED
          BY <2>1, <3>2, <5>4
      <4>3. QED
        BY <4>1, <4>2
    <3>3. QED
      BY <1>a, <3>1, <3>2
  <2>3. \A w \in Writers : StagedLast(w)'
    BY <1>a, <2>1 DEF Staged, IsLast
  <2>4. QED
    BY <2>2, <2>3 DEF LastUntouched
<1>6. CASE UNCHANGED vars
  BY <1>6 DEF vars, LastUntouched, Staged, OfOrg, IsLast
<1>7. QED
  BY <1>1, <1>2, <1>3, <1>4, <1>5, <1>6 DEF Next, Record

\* No sequence number is given out before the first step.
LEMMA ShapeInit == Init => ChainShape
<1> SUFFICES ASSUME Init PROVE ChainShape
  OBVIOUS
<1>1. \A w \in Writers : Staged(w) = {}
  BY DEF Init, Staged, Closed
<1>2. TypeOK
  BY DEF Init, TypeOK
<1>3. SequencesOnce /\ LastUntouched
  BY <1>1 DEF Init, SequencesOnce, LastUntouched, OfOrg
<1>4. QED
  BY <1>2, <1>3 DEF ChainShape

\* The events keep the shape of a chain.
LEMMA ShapeStep == ChainShape /\ [Next]_vars => ChainShape'
<1>1. ChainShape => TypeOK
  BY DEF ChainShape
<1>2. QED
  BY <1>1, TypeStep, SequencesStep, LastStep DEF ChainShape

\* The table of audit events keeps the types the code gives it, whatever is
\* edited or deleted in it.
THEOREM TypeCorrect == Spec => []TypeOK
<1>1. Init => TypeOK
  BY DEF Init, TypeOK
<1>2. QED
  BY <1>1, TypeStep, PTL DEF Spec

\* What the SELECT of record_event finds in the table continues the events
\* as they were recorded.
LEMMA LastIsRecorded ==
  ASSUME ChainShape, NEW w \in Writers, NEW org \in Orgs, MayRecord(w, org),
         NEW last, Continues(last, OfOrg(stored \union Staged(w), org))
  PROVE  Continues(last, OfOrg(recorded, org) \union Staged(w))
<1> DEFINE X == OfOrg(stored \union Staged(w), org)
           R == OfOrg(recorded, org)
<1>0. Staged(w) \in SUBSET Events /\ (~ txn[w].open => Staged(w) = {})
  BY StagedType DEF ChainShape
<1>1. \A e \in Staged(w) : e.org = org
  BY <1>0 DEF ChainShape, SequencesOnce, MayRecord
<1>2. X = OfOrg(stored, org) \union Staged(w)
  BY <1>1 DEF OfOrg
<1>3. \A e \in X \union R : e.sequence \in Nat
  BY <1>0, <1>2 DEF ChainShape, TypeOK, Events, OfOrg
<1>4. CASE R = {} /\ OfOrg(stored, org) = {}
  BY <1>2, <1>4
<1>5. ASSUME NEW h \in R, IsLast(h, OfOrg(stored, org)), \A e \in R : e.sequence <= h.sequence
      PROVE  Continues(last, R \union Staged(w))
  <2>1. h \in X
    BY <1>2, <1>5 DEF IsLast
  <2>2. PICK l \in X : (\A e \in X : e.sequence <= l.sequence) /\ last = l.hash
    BY <2>1 DEF Continues
  <2>3. h.sequence <= l.sequence
    BY <2>1, <2>2
  <2>4. l \in R \union Staged(w)
    <3>1. CASE l \in Staged(w)
      BY <3>1
    <3>2. CASE l \in OfOrg(stored, org)
      <4>1. l = h \/ l.sequence < h.sequence
        BY <1>5, <3>2 DEF IsLast
      <4>2. l.sequence \in Nat /\ h.sequence \in Nat
        BY <1>3
      <4>3. l = h
        BY <2>3, <4>1, <4>2
      <4>4. QED
        BY <4>3
    <3>3. QED
      BY <1>2, <3>1, <3>2
  <2>5. ASSUME NEW e \in R \union Staged(w) PROVE e.sequence <= l.sequence
    <3>1. CASE e \in R
      <4>1. e.sequence <= h.sequence
        BY <1>5, <3>1
      <4>2. e.sequence \in Nat /\ h.sequence \in Nat /\ l.sequence \in Nat
        BY <1>3, <3>1
      <4>3. QED
        BY <2>3, <4>1, <4>2
    <3>2. CASE e \in Staged(w)
      BY <1>2, <2>2, <3>2
    <3>3. QED
      BY <3>1, <3>2
  <2>6. QED
    BY <2>2, <2>4, <2>5 DEF Continues
<1>6. QED
  BY <1>4, <1>5 DEF ChainShape, LastUntouched

\* A chain stays one when an event that continues it is appended.
LEMMA ExtendChain ==
  ASSUME NEW R, NEW event, VerifyChain(R),
         \A e \in R : e.sequence \in Nat /\ e.sequence < event.sequence,
         event.sequence \in Nat,
         Continues(event.prev, R), event.hash = EntryHash(event.content, event.prev)
  PROVE  VerifyChain(R \union {event})
<1> SUFFICES ASSUME NEW e \in R \union {event}
             PROVE  /\ Continues(e.prev, Before(R \union {event}, e))
                    /\ e.hash = EntryHash(e.content, e.prev)
  BY DEF VerifyChain
<1>1. CASE e \in R
  <2>1. Before(R \union {event}, e) = Before(R, e)
    BY <1>1 DEF Before
  <2>2. QED
    BY <1>1, <2>1 DEF VerifyChain
<1>2. CASE e = event
  <2>1. Before(R \union {event}, e) = R
    BY <1>2 DEF Before
  <2>2. QED
    BY <1>2, <2>1
<1>3. QED
  BY <1>1, <1>2

\* What holds of an organization none of whose transactions have overlapped:
\* at most one is open, and what it sees is one chain that it continues.
SerialInv ==
  \A org \in Orgs : ~ overlapped[org] =>
    /\ VerifyChain(OfOrg(recorded, org))
    /\ \A w \in Writers : txn[w].open /\ txn[w].org = org =>
         /\ \A v \in Writers \ {w} : txn[v].open => txn[v].org # org
         /\ VerifyChain(OfOrg(recorded, org) \union Staged(w))
         /\ txn[w].reading => Continues(txn[w].last, OfOrg(recorded, org) \union Staged(w))

\* Every step keeps the chains of organizations without overlap.
LEMMA SerialStep == ChainShape /\ SerialInv /\ [Next]_vars => SerialInv'
<1> SUFFICES ASSUME ChainShape, SerialInv, [Next]_vars,
                    NEW org \in Orgs, ~ overlapped'[org]
             PROVE  /\ VerifyChain(OfOrg(recorded', org))
                    /\ \A w \in Writers : txn'[w].open /\ txn'[w].org = org =>
                         /\ \A v \in Writers \ {w} : txn'[v].open => txn'[v].org # org
                         /\ VerifyChain(OfOrg(recorded', org) \union Staged(w)')
                         /\ txn'[w].reading =>
                              Continues(txn'[w].last, OfOrg(recorded', org) \union Staged(w)')
  BY DEF SerialInv, VerifyChain, Continues, Before, EntryHash, OfOrg
<1> DEFINE R == OfOrg(recorded, org)
           Goal(w) == txn'[w].open /\ txn'[w].org = org =>
                         /\ \A v \in Writers \ {w} : txn'[v].open => txn'[v].org # org
                         /\ VerifyChain(OfOrg(recorded', org) \union Staged(w)')
                         /\ txn'[w].reading =>
                              Continues(txn'[w].last, OfOrg(recorded', org) \union Staged(w)')
<1>0. \A v \in Writers : /\ Staged(v) \in SUBSET Events
                         /\ txn[v].open => txn[v] \in Transactions
                         /\ txn[v].open => txn[v].staged = Staged(v)
                         /\ ~ txn[v].open => Staged(v) = {}
  BY StagedType DEF ChainShape
<1>a. ASSUME ~ overlapped[org]
      PROVE  /\ VerifyChain(R)
             /\ \A w \in Writers : txn[w].open /\ txn[w].org = org =>
                  /\ \A v \in Writers \ {w} : txn[v].open => txn[v].org # org
                  /\ VerifyChain(R \union Staged(w))
                  /\ txn[w].reading => Continues(txn[w].last, R \union Staged(w))
  BY <1>a DEF SerialInv
<1>1. ASSUME NEW w \in Writers, NEW o \in Orgs, ReadLast(w, o)
      PROVE  VerifyChain(OfOrg(recorded', org)) /\ \A v \in Writers : Goal(v)
  <2>1. PICK last :
          /\ Continues(last, OfOrg(stored \union Staged(w), o))
          /\ txn' = [txn EXCEPT ![w] =
               [open |-> TRUE, org |-> o, reading |-> TRUE, last |-> last,
                staged |-> Staged(w)]]
    BY <1>1 DEF ReadLast
  <2>2. /\ \A v \in Writers : Staged(v)' = Staged(v)
        /\ \A v \in Writers \ {w} : txn'[v] = txn[v]
        /\ txn'[w].open /\ txn'[w].org = o /\ txn'[w].last = last
    BY <2>1 DEF Staged, ChainShape, TypeOK
  <2>3. recorded' = recorded
    BY <1>1 DEF ReadLast
  <2>4. /\ ~ overlapped[org]
        /\ o = org => \A v \in Writers \ {w} : txn[v].open => txn[v].org # org
    BY <1>1 DEF ReadLast, ChainShape, TypeOK
  <2>5. VerifyChain(R)
    BY <1>a, <2>4
  <2>6. CASE o = org
    <3>1. Goal(w)
      <4>1. VerifyChain(R \union Staged(w))
        <5>1. CASE txn[w].open
          <6>1. txn[w].org = org
            BY <1>1, <2>6, <5>1 DEF ReadLast, MayRecord
          <6>2. QED
            BY <1>a, <2>4, <5>1, <6>1
        <5>2. CASE ~ txn[w].open
          <6>1. R \union Staged(w) = R
            BY <1>0, <5>2
          <6>2. QED
            BY <2>5, <6>1
        <5>3. QED
          BY <5>1, <5>2
      <4>2. Continues(last, R \union Staged(w))
        BY <1>1, <2>1, <2>6, LastIsRecorded DEF ReadLast
      <4>3. QED
        BY <2>2, <2>3, <2>4, <2>6, <4>1, <4>2
    <3>2. ASSUME NEW v \in Writers \ {w} PROVE Goal(v)
      BY <2>2, <2>4, <2>6
    <3>3. QED
      BY <2>3, <2>5, <3>1, <3>2
  <2>7. CASE o # org
    <3>1. ASSUME NEW v \in Writers PROVE Goal(v)
      BY <1>a, <2>2, <2>3, <2>4, <2>7
    <3>2. QED
      BY <2>3, <2>5, <3>1
  <2>8. QED
    BY <2>6, <2>7
<1>2. ASSUME NEW w \in Writers, NEW content \in Contents, Insert(w, content)
      PROVE  VerifyChain(OfOrg(recorded', org)) /\ \A v \in Writers : Goal(v)
  <2> DEFINE event == [org |-> txn[w].org, sequence |-> issued + 1, content |-> content,
                       prev |-> txn[w].last, hash |-> EntryHash(content, txn[w].last)]
  <2>1. /\ txn[w] \in Transactions /\ txn[w].open /\ txn[w].reading
        /\ txn' = [txn EXCEPT ![w].reading = FALSE, ![w].staged = @ \union {event}]
        /\ UNCHANGED <<recorded, overlapped>>
    BY <1>0, <1>2 DEF Insert
  <2>2. /\ event.sequence = issued + 1 /\ event.prev = txn[w].last
        /\ event.hash = EntryHash(event.content, event.prev)
    OBVIOUS
  <2> HIDE DEF event
  <2>3. /\ Staged(w)' = Staged(w) \union {event}
        /\ txn'[w].org = txn[w].org /\ ~ txn'[w].reading
    BY <1>0, <1>2, <2>1 DEF Insert, Staged, ChainShape, TypeOK, Transactions
  <2>4. \A v \in Writers \ {w} : Staged(v)' = Staged(v) /\ txn'[v] = txn[v]
    BY <2>1 DEF Staged, ChainShape, TypeOK
  <2>5. VerifyChain(R)
    BY <1>a, <2>1
  <2>6. ASSUME txn[w].org = org
        PROVE  VerifyChain(R \union Staged(w)')
    <3>1. VerifyChain(R \union Staged(w)) /\ Continues(txn[w].last, R \union Staged(w))
      BY <1>a, <2>1, <2>6
    <3>2. \A e \in R \union Staged(w) : e.sequence \in Nat /\ e.sequence < event.sequence
      BY <1>0, <2>2 DEF ChainShape, SequencesOnce, TypeOK, Events, OfOrg
    <3>3. event.sequence \in Nat
      BY <2>2 DEF ChainShape, TypeOK
    <3>4. VerifyChain((R \union Staged(w)) \union {event})
      BY <2>2, <3>1, <3>2, <3>3, ExtendChain
    <3>5. (R \union Staged(w)) \union {event} = R \union Staged(w)'
      BY <2>3
    <3>6. QED
      BY <3>4, <3>5
  <2>7. Goal(w)
    BY <1>a, <2>1, <2>3, <2>4, <2>6
  <2>8. ASSUME NEW v \in Writers \ {w} PROVE Goal(v)
    BY <1>a, <2>1, <2>3, <2>4
  <2>9. QED
    BY <2>1, <2>5, <2>7, <2>8
<1>3. ASSUME NEW w \in Writers, Commit(w)
      PROVE  VerifyChain(OfOrg(recorded', org)) /\ \A v \in Writers : Goal(v)
  <2>1. recorded' = recorded \union Staged(w) /\ overlapped' = overlapped /\ txn[w].open
    BY <1>0, <1>3 DEF Commit
  <2>2. ~ txn'[w].open /\ \A v \in Writers \ {w} : Staged(v)' = Staged(v) /\ txn'[v] = txn[v]
    BY <1>3 DEF Commit, Staged, ChainShape, TypeOK, Closed
  <2>3. \A e \in Staged(w) : e.org = txn[w].org
    BY DEF ChainShape, SequencesOnce
  <2>4. CASE txn[w].org = org
    <3>1. OfOrg(recorded', org) = R \union Staged(w)
      BY <2>1, <2>3, <2>4 DEF OfOrg
    <3>2. VerifyChain(R \union Staged(w)) /\ \A v \in Writers \ {w} : txn[v].open => txn[v].org # org
      BY <1>a, <2>1, <2>4
    <3>3. QED
      BY <2>2, <3>1, <3>2
  <2>5. CASE txn[w].org # org
    <3>1. OfOrg(recorded', org) = R
      BY <2>1, <2>3, <2>5 DEF OfOrg
    <3>2. QED
      BY <1>a, <2>1, <2>2, <3>1
  <2>6. QED
    BY <2>4, <2>5
<1>4. ASSUME NEW w \in Writers, Rollback(w)
      PROVE  VerifyChain(OfOrg(recorded', org)) /\ \A v \in Writers : Goal(v)
  <2>1. recorded' = recorded /\ overlapped' = overlapped
    BY <1>4 DEF Rollback
  <2>2. ~ txn'[w].open /\ \A v \in Writers \ {w} : Staged(v)' = Staged(v) /\ txn'[v] = txn[v]
    BY <1>4 DEF Rollback, Staged, ChainShape, TypeOK, Closed
  <2>3. QED
    BY <1>a, <2>1, <2>2
<1>5. CASE (\E e \in stored : Edit(e) \/ Delete(e)) \/ UNCHANGED vars
  <2>1. UNCHANGED <<recorded, txn, overlapped>>
    BY <1>5 DEF Edit, Delete, vars
  <2>2. \A v \in Writers : Staged(v)' = Staged(v)
    BY <2>1 DEF Staged
  <2>3. QED
    BY <1>a, <2>1, <2>2
<1>6. QED
  BY <1>1, <1>2, <1>3, <1>4, <1>5 DEF Next, Record

\* As long as an organization's transactions do not overlap, what is recorded
\* for it verifies: interleaved organizations, rollbacks and gaps in the
\* sequence never break a chain.
THEOREM SerialChains == Spec => []SerialChainIntact
<1>1. Init => SerialInv
  BY DEF Init, SerialInv, OfOrg, VerifyChain, Closed
<1>2. SerialInv => SerialChainIntact
  BY DEF SerialInv, SerialChainIntact
<1>3. QED
  BY <1>1, <1>2, ShapeInit, ShapeStep, SerialStep, PTL DEF Spec

\* prev is Null, or the entry_hash of one of these events of org that comes
\* before the sequence number.
Anchored(prev, org, sequence, events) ==
  prev # Null =>
    \E d \in events : d.org = org /\ d.sequence < sequence /\ d.hash = prev

\* Every link leads to a committed event or to one of the same transaction.
LinkInv ==
  /\ \A e \in recorded : Anchored(e.prev, e.org, e.sequence, recorded)
  /\ \A w \in Writers :
       /\ \A e \in Staged(w) :
            Anchored(e.prev, e.org, e.sequence, recorded \union Staged(w))
       /\ txn[w].open /\ txn[w].reading =>
            Anchored(txn[w].last, txn[w].org, issued + 1, recorded \union Staged(w))

\* A link stays where it leads when events are added.
LEMMA AnchoredStays ==
  ASSUME NEW prev, NEW org, NEW sequence, NEW events, NEW more,
         events \subseteq more, Anchored(prev, org, sequence, events)
  PROVE  Anchored(prev, org, sequence, more)
BY DEF Anchored

\* Every step keeps the links.
LEMMA LinkStep == ChainShape /\ LinkInv /\ [Next]_vars => LinkInv'
<1> SUFFICES ASSUME ChainShape, LinkInv, [Next]_vars PROVE LinkInv'
  OBVIOUS
<1>0. \A v \in Writers : /\ Staged(v) \in SUBSET Events
                         /\ txn[v].open => txn[v] \in Transactions
                         /\ txn[v].open => txn[v].staged = Staged(v)
                         /\ ~ txn[v].open => Staged(v) = {}
  BY StagedType DEF ChainShape
<1>1. ASSUME NEW w \in Writers, NEW org \in Orgs, ReadLast(w, org) PROVE LinkInv'
  <2>1. PICK last :
          /\ Continues(last, OfOrg(stored \union Staged(w), org))
          /\ txn' = [txn EXCEPT ![w] =
               [open |-> TRUE, org |-> org, reading |-> TRUE, last |-> last,
                staged |-> Staged(w)]]
    BY <1>1 DEF ReadLast
  <2>2. /\ \A v \in Writers : Staged(v)' = Staged(v)
        /\ \A v \in Writers \ {w} : txn'[v] = txn[v]
        /\ txn'[w].org = org /\ txn'[w].last = last
        /\ UNCHANGED <<recorded, issued>>
    BY <1>1, <2>1 DEF ReadLast, Staged, ChainShape, TypeOK
  <2>3. Anchored(last, org, issued + 1, recorded \union Staged(w))
    <3>1. Continues(last, OfOrg(recorded, org) \union Staged(w))
      BY <1>1, <2>1, LastIsRecorded DEF ReadLast
    <3>2. CASE OfOrg(recorded, org) \union Staged(w) = {}
      BY <3>1, <3>2 DEF Continues, Anchored
    <3>3. CASE OfOrg(recorded, org) \union Staged(w) # {}
      <4>1. PICK d \in OfOrg(recorded, org) \union Staged(w) : last = d.hash
        BY <3>1, <3>3 DEF Continues
      <4>2. d.org = org
        BY <1>0, <1>1 DEF ChainShape, SequencesOnce, ReadLast, MayRecord, OfOrg
      <4>3. d.sequence \in Nat /\ d.sequence <= issued /\ issued \in Nat
        BY <1>0 DEF ChainShape, SequencesOnce, TypeOK, Events, OfOrg
      <4>4. d.sequence < issued + 1
        BY <4>3
      <4>5. QED
        BY <4>1, <4>2, <4>4 DEF Anchored, OfOrg
    <3>4. QED
      BY <3>2, <3>3
  <2>4. QED
    BY <2>2, <2>3 DEF LinkInv, Anchored
<1>2. ASSUME NEW w \in Writers, NEW content \in Contents, Insert(w, content) PROVE LinkInv'
  <2> DEFINE event == [org |-> txn[w].org, sequence |-> issued + 1, content |-> content,
                       prev |-> txn[w].last, hash |-> EntryHash(content, txn[w].last)]
  <2>1. /\ txn[w] \in Transactions /\ txn[w].open /\ txn[w].reading
        /\ txn' = [txn EXCEPT ![w].reading = FALSE, ![w].staged = @ \union {event}]
        /\ issued' = issued + 1
        /\ recorded' = recorded
    BY <1>0, <1>2 DEF Insert
  <2>2. event.sequence = issued + 1 /\ event.prev = txn[w].last /\ event.org = txn[w].org
    OBVIOUS
  <2> HIDE DEF event
  <2>3. Staged(w)' = Staged(w) \union {event} /\ ~ txn'[w].reading
    BY <1>0, <1>2, <2>1 DEF Insert, Staged, ChainShape, TypeOK, Transactions
  <2>4. \A v \in Writers \ {w} : Staged(v)' = Staged(v) /\ txn'[v] = txn[v]
    BY <2>1 DEF Staged, ChainShape, TypeOK
  <2>5. ASSUME NEW e \in Staged(w)'
        PROVE  Anchored(e.prev, e.org, e.sequence, recorded \union Staged(w)')
    <3>1. Anchored(e.prev, e.org, e.sequence, recorded \union Staged(w))
      <4>1. CASE e \in Staged(w)
        BY <4>1 DEF LinkInv
      <4>2. CASE e = event
        BY <2>1, <2>2, <4>2 DEF LinkInv
      <4>3. QED
        BY <2>3, <4>1, <4>2
    <3>2. QED
      BY <2>3, <3>1, AnchoredStays
  <2>6. ASSUME NEW v \in Writers \ {w}, txn[v].open, txn[v].reading
        PROVE  Anchored(txn[v].last, txn[v].org, issued + 1 + 1, recorded \union Staged(v))
    <3>1. Anchored(txn[v].last, txn[v].org, issued + 1, recorded \union Staged(v))
      BY <2>6 DEF LinkInv
    <3>2. \A d \in recorded \union Staged(v) : d.sequence \in Nat
      BY <1>0 DEF ChainShape, TypeOK, Events
    <3>3. issued \in Nat
      BY DEF ChainShape, TypeOK
    <3>4. QED
      BY <3>1, <3>2, <3>3 DEF Anchored
  <2>7. /\ \A e \in recorded' : Anchored(e.prev, e.org, e.sequence, recorded')
        /\ \A v \in Writers : \A e \in Staged(v)' :
             Anchored(e.prev, e.org, e.sequence, recorded' \union Staged(v)')
    BY <2>1, <2>4, <2>5 DEF LinkInv
  <2>8. \A v \in Writers : txn'[v].open /\ txn'[v].reading =>
          Anchored(txn'[v].last, txn'[v].org, issued' + 1, recorded' \union Staged(v)')
    BY <2>1, <2>3, <2>4, <2>6
  <2>9. QED
    BY <2>7, <2>8 DEF LinkInv, Anchored
<1>3. ASSUME NEW w \in Writers, Commit(w) PROVE LinkInv'
  <2>1. recorded' = recorded \union Staged(w) /\ issued' = issued
    BY <1>0, <1>3 DEF Commit
  <2>2. \A v \in Writers : \/ v = w /\ Staged(v)' = {} /\ ~ txn'[v].open
                           \/ v # w /\ Staged(v)' = Staged(v) /\ txn'[v] = txn[v]
    BY <1>3 DEF Commit, Staged, ChainShape, TypeOK, Closed
  <2>3. \A e \in recorded' : Anchored(e.prev, e.org, e.sequence, recorded')
    BY <2>1, AnchoredStays DEF LinkInv
  <2>4. \A v \in Writers \ {w} : recorded \union Staged(v) \subseteq recorded' \union Staged(v)
    BY <2>1
  <2>5. \A v \in Writers : \A e \in Staged(v)' :
          Anchored(e.prev, e.org, e.sequence, recorded' \union Staged(v)')
    BY <2>2, <2>4, AnchoredStays DEF LinkInv
  <2>6. \A v \in Writers : txn'[v].open /\ txn'[v].reading =>
          Anchored(txn'[v].last, txn'[v].org, issued' + 1, recorded' \union Staged(v)')
    BY <2>1, <2>2, <2>4, AnchoredStays DEF LinkInv
  <2>7. QED
    BY <2>3, <2>5, <2>6 DEF LinkInv, Anchored
<1>4. ASSUME NEW w \in Writers, Rollback(w) PROVE LinkInv'
  <2>1. recorded' = recorded /\ issued' = issued
    BY <1>4 DEF Rollback
  <2>2. \A v \in Writers : \/ v = w /\ Staged(v)' = {} /\ ~ txn'[v].open
                           \/ v # w /\ Staged(v)' = Staged(v) /\ txn'[v] = txn[v]
    BY <1>4 DEF Rollback, Staged, ChainShape, TypeOK, Closed
  <2>3. QED
    BY <2>1, <2>2 DEF LinkInv, Anchored
<1>5. CASE (\E e \in stored : Edit(e) \/ Delete(e)) \/ UNCHANGED vars
  <2>1. UNCHANGED <<recorded, txn, issued>>
    BY <1>5 DEF Edit, Delete, vars
  <2>2. \A v \in Writers : Staged(v)' = Staged(v)
    BY <2>1 DEF Staged
  <2>3. QED
    BY <2>1, <2>2 DEF LinkInv, Anchored
<1>6. QED
  BY <1>1, <1>2, <1>3, <1>4, <1>5 DEF Next, Record

\* However transactions overlap, no event ever links to an event that was not
\* committed before it, nor to one of another organization.
THEOREM LinksRecorded == Spec => []EveryLinkIsRecorded
<1>1. Init => LinkInv
  BY DEF Init, LinkInv, Staged, Closed
<1>2. LinkInv => EveryLinkIsRecorded
  BY DEF LinkInv, Anchored, EveryLinkIsRecorded
<1>3. QED
  BY <1>1, <1>2, ShapeInit, ShapeStep, LinkStep, PTL DEF Spec

-----------------------------------------------------------------------------
(* Tampering.                                                              *)

\* Every non-empty set of natural numbers has a least element.
LEMMA LeastExists ==
  ASSUME NEW S \in SUBSET Nat, S # {}
  PROVE  \E x \in S : \A y \in S : x <= y
<1>1. PICK x \in S : \A y \in S : ~ (<<y, x>> \in OpToRel(<, Nat))
  BY NatLessThanWellFounded, WFMin, Zenon
<1>2. \A y \in S : ~ (y < x)
  BY <1>1 DEF OpToRel
<1>3. QED
  BY <1>2

\* Of a non-empty set of events one has the least sequence number.
LEMMA EarliestExists ==
  ASSUME NEW S \in SUBSET Events, S # {}
  PROVE  \E d \in S : \A e \in S : d.sequence <= e.sequence
<1> DEFINE numbers == {e.sequence : e \in S}
<1>1. numbers \in SUBSET Nat /\ numbers # {}
  BY DEF Events
<1> HIDE DEF numbers
<1>2. PICK x \in numbers : \A y \in numbers : x <= y
  BY <1>1, LeastExists
<1>3. QED
  BY <1>2 DEF numbers

\* Of a non-empty set of events that end somewhere one has the greatest.
LEMMA LatestExists ==
  ASSUME NEW S \in SUBSET Events, S # {}, NEW n \in Nat, \A e \in S : e.sequence <= n
  PROVE  \E d \in S : \A e \in S : e.sequence <= d.sequence
<1> DEFINE ages == {n - e.sequence : e \in S}
<1>0. \A e \in S : e.sequence \in Nat
  BY DEF Events
<1>1. ages \in SUBSET Nat /\ ages # {}
  BY <1>0
<1>2. PICK x \in ages : \A y \in ages : x <= y
  <2> HIDE DEF ages
  <2>1. QED
    BY <1>1, LeastExists
<1>3. PICK d \in S : x = n - d.sequence
  OBVIOUS
<1>4. \A e \in S : e.sequence <= d.sequence
  <2> TAKE e \in S
  <2>1. n - d.sequence <= n - e.sequence
    BY <1>2, <1>3
  <2>2. QED
    BY <1>0, <2>1
<1>5. QED
  BY <1>4

\* The ideal digest tells apart what it was computed from, and is longer than
\* the digest it continues.
LEMMA DigestInjective ==
  ASSUME NEW p \in Digests, NEW q \in Digests, NEW c \in Contents, NEW d \in Contents
  PROVE  /\ EntryHash(c, p) = EntryHash(d, q) => c = d /\ p = q
         /\ EntryHash(c, p) # Null
         /\ Len(EntryHash(c, p)) = Len(p) + 1
         /\ Len(p) \in Nat
<1>1. /\ p \in Seq(Contents) /\ q \in Seq(Contents)
      /\ EntryHash(c, p) = Append(p, c) /\ EntryHash(d, q) = Append(q, d)
  BY DEF Digests, EntryHash
<1>2. Len(Append(p, c)) = Len(p) + 1 /\ Len(Append(q, d)) = Len(q) + 1
      /\ Len(p) \in Nat /\ Len(q) \in Nat
  BY <1>1
<1>3. ASSUME Append(p, c) = Append(q, d) PROVE c = d /\ p = q
  <2>1. Len(p) = Len(q)
    BY <1>2, <1>3
  <2>2. c = Append(p, c)[Len(p) + 1] /\ d = Append(q, d)[Len(q) + 1]
    BY <1>1
  <2>3. \A i \in 1 .. Len(p) : p[i] = Append(p, c)[i] /\ q[i] = Append(q, d)[i]
    BY <1>1, <2>1
  <2>4. c = d
    BY <1>3, <2>1, <2>2
  <2>5. \A i \in 1 .. Len(p) : p[i] = q[i]
    BY <1>3, <2>3
  <2>6. p = [i \in 1 .. Len(p) |-> p[i]] /\ q = [i \in 1 .. Len(q) |-> q[i]]
    BY <1>1
  <2>7. p = q
    BY <2>1, <2>5, <2>6
  <2>8. QED
    BY <2>4, <2>7
<1>4. Append(p, c) # Null
  BY <1>1, <1>2 DEF Null
<1>5. QED
  BY <1>1, <1>2, <1>3, <1>4

\* An event of a chain that is not the first has one that it follows, and
\* none lies between the two.
LEMMA Predecessor ==
  ASSUME NEW C \in SUBSET Events, VerifyChain(C), NEW e \in C, Before(C, e) # {}
  PROVE  \E d \in Before(C, e) :
           /\ d \in C /\ d.sequence < e.sequence
           /\ e.prev = d.hash
           /\ \A b \in C : b.sequence < e.sequence => b.sequence <= d.sequence
           /\ Len(e.hash) = Len(d.hash) + 1
<1>1. PICK d \in Before(C, e) :
        (\A b \in Before(C, e) : b.sequence <= d.sequence) /\ e.prev = d.hash
  BY DEF VerifyChain, Continues
<1>2. e.hash = EntryHash(e.content, e.prev) /\ e \in Events /\ d \in Events
  BY <1>1 DEF VerifyChain, Before
<1>3. Len(e.hash) = Len(d.hash) + 1
  BY <1>1, <1>2, DigestInjective DEF Events
<1>4. QED
  BY <1>1, <1>3 DEF Before

\* A sequence number names one event.
Numbered(events) == \A d, e \in events : d.sequence = e.sequence => d = e

\* Along a chain the digests grow.
LEMMA DigestsGrow ==
  ASSUME NEW C \in SUBSET Events, VerifyChain(C), Numbered(C)
  PROVE  \A d, e \in C : d.sequence < e.sequence => Len(d.hash) < Len(e.hash)
<1> DEFINE short == {e \in C : \E d \in C : d.sequence < e.sequence /\ ~ (Len(d.hash) < Len(e.hash))}
<1> SUFFICES ASSUME short # {} PROVE FALSE
  OBVIOUS
<1>0. \A e \in C : e.sequence \in Nat /\ Len(e.hash) \in Nat
  BY DEF Events, Digests
<1>1. PICK e \in short : \A b \in short : e.sequence <= b.sequence
  <2>1. short \in SUBSET Events
    OBVIOUS
  <2> HIDE DEF short
  <2>2. QED
    BY <2>1, EarliestExists
<1>2. PICK d \in C : d.sequence < e.sequence /\ ~ (Len(d.hash) < Len(e.hash))
  OBVIOUS
<1>3. d \in Before(C, e)
  BY <1>2 DEF Before
<1>4. PICK p \in C : /\ p.sequence < e.sequence
                     /\ \A b \in C : b.sequence < e.sequence => b.sequence <= p.sequence
                     /\ Len(e.hash) = Len(p.hash) + 1
  BY <1>3, Predecessor
<1>5. d.sequence <= p.sequence
  BY <1>2, <1>4
<1>6. d = p \/ Len(d.hash) < Len(p.hash)
  <2>1. CASE d.sequence = p.sequence
    BY <2>1 DEF Numbered
  <2>2. CASE d.sequence < p.sequence
    <3>1. ~ (e.sequence <= p.sequence)
      BY <1>0, <1>4
    <3>2. p \notin short
      BY <1>1, <3>1
    <3>3. QED
      BY <2>2, <3>2
  <2>3. QED
    BY <1>0, <1>5, <2>1, <2>2
<1>7. QED
  BY <1>0, <1>2, <1>4, <1>6

\* The events of S are numbered as events of R are.
Covers(R, S) == \A s \in S : \E r \in R : r.sequence = s.sequence

\* A chain that lost events has no longer digests than the one that kept them.
LEMMA NotLonger ==
  ASSUME NEW S \in SUBSET Events, NEW R \in SUBSET Events,
         VerifyChain(S), VerifyChain(R), Numbered(S), Numbered(R), Covers(R, S)
  PROVE  \A s \in S : \A r \in R : s.sequence = r.sequence => Len(s.hash) <= Len(r.hash)
<1> DEFINE long == {s \in S : \E r \in R : s.sequence = r.sequence /\ ~ (Len(s.hash) <= Len(r.hash))}
<1> SUFFICES ASSUME long # {} PROVE FALSE
  OBVIOUS
<1>0. \A e \in S \union R : e.sequence \in Nat /\ Len(e.hash) \in Nat
  BY DEF Events, Digests
<1>1. PICK s \in long : \A b \in long : s.sequence <= b.sequence
  <2>1. long \in SUBSET Events
    OBVIOUS
  <2> HIDE DEF long
  <2>2. QED
    BY <2>1, EarliestExists
<1>2. PICK r \in R : s.sequence = r.sequence /\ ~ (Len(s.hash) <= Len(r.hash))
  OBVIOUS
<1>3. CASE Before(S, s) = {}
  <2>1. s.hash = EntryHash(s.content, s.prev) /\ s.prev = Null
    BY <1>3 DEF VerifyChain, Continues
  <2>2. r.hash = EntryHash(r.content, r.prev)
    BY DEF VerifyChain
  <2>3. /\ r.content \in Contents /\ r.prev \in Digests
        /\ s.content \in Contents /\ s.prev \in Digests
    BY DEF Events
  <2>4. Len(s.prev) = 0
    BY <2>1 DEF Null
  <2>5. Len(s.hash) = Len(s.prev) + 1 /\ Len(r.hash) = Len(r.prev) + 1 /\ Len(r.prev) \in Nat
    BY <2>1, <2>2, <2>3, DigestInjective
  <2>6. QED
    BY <1>0, <1>2, <2>4, <2>5
<1>4. CASE Before(S, s) # {}
  <2>1. PICK p \in S : p.sequence < s.sequence /\ Len(s.hash) = Len(p.hash) + 1
    BY <1>4, Predecessor
  <2>2. PICK q \in R : q.sequence = p.sequence
    BY DEF Covers
  <2>3. ~ (s.sequence <= p.sequence)
    BY <1>0, <2>1
  <2>4. p \notin long
    BY <1>1, <2>3
  <2>5. Len(p.hash) <= Len(q.hash)
    BY <2>2, <2>4
  <2>6. q.sequence < r.sequence
    BY <1>2, <2>1, <2>2
  <2>7. Len(q.hash) < Len(r.hash)
    BY <2>6, DigestsGrow
  <2>8. QED
    BY <1>0, <1>2, <2>1, <2>5, <2>7
<1>5. QED
  BY <1>3, <1>4

\* Two chains that end with the same event are the same, if the events of
\* one are numbered as events of the other are: from the last event back,
\* each digest names the event it was computed from.
LEMMA SameChain ==
  ASSUME NEW S \in SUBSET Events, NEW R \in SUBSET Events, NEW org,
         \A e \in S \union R : e.org = org,
         VerifyChain(S), VerifyChain(R), Numbered(S), Numbered(R), Covers(R, S),
         NEW h \in S, h \in R, \A r \in R : r.sequence <= h.sequence
  PROVE  S = R
<1>0. \A e \in S \union R : e \in Events /\ e.sequence \in Nat /\ Len(e.hash) \in Nat
  BY DEF Events, Digests
<1> DEFINE lost == R \ S
<1>1. lost = {}
  <2> SUFFICES ASSUME lost # {} PROVE FALSE
    OBVIOUS
  <2>1. PICK r \in lost : \A b \in lost : b.sequence <= r.sequence
    <3>1. lost \in SUBSET Events /\ \A e \in lost : e.sequence <= h.sequence
      OBVIOUS
    <3>2. h.sequence \in Nat
      BY <1>0
    <3> HIDE DEF lost
    <3>3. QED
      BY <3>1, <3>2, LatestExists
  <2>2. r \in R /\ r # h /\ r.sequence < h.sequence
    <3>1. r \in R /\ r # h /\ r.sequence <= h.sequence
      OBVIOUS
    <3>2. r.sequence # h.sequence
      BY <3>1 DEF Numbered
    <3>3. QED
      BY <1>0, <3>1, <3>2
\* The event of R that follows r is kept in S.
  <2> DEFINE later == {e \in R : r.sequence < e.sequence}
  <2>3. PICK n \in later : \A b \in later : n.sequence <= b.sequence
    <3>1. later \in SUBSET Events /\ later # {}
      BY <2>2
    <3> HIDE DEF later
    <3>2. QED
      BY <3>1, EarliestExists
  <2>4. n \in R /\ n \in S /\ r.sequence < n.sequence
    <3>1. ~ (n.sequence <= r.sequence)
      BY <1>0
    <3>2. QED
      BY <2>1, <3>1
  <2>5. n.prev = r.hash
    <3>1. r \in Before(R, n)
      BY <2>2, <2>4 DEF Before
    <3>2. PICK p \in R : /\ p.sequence < n.sequence /\ n.prev = p.hash
                         /\ \A b \in R : b.sequence < n.sequence => b.sequence <= p.sequence
      BY <2>4, <3>1, Predecessor
    <3>3. r.sequence <= p.sequence
      BY <2>2, <2>4, <3>2
    <3>4. ~ (r.sequence < p.sequence)
      BY <1>0, <2>3, <3>2
    <3>5. p = r
      BY <1>0, <2>2, <3>2, <3>3, <3>4 DEF Numbered
    <3>6. QED
      BY <3>2, <3>5
  <2>6. /\ r.hash = EntryHash(r.content, r.prev) /\ r.hash # Null
        /\ r.content \in Contents /\ r.prev \in Digests
    <3>1. r.hash = EntryHash(r.content, r.prev)
      BY <2>2 DEF VerifyChain
    <3>2. r.content \in Contents /\ r.prev \in Digests
      BY <1>0, <2>2 DEF Events
    <3>3. QED
      BY <3>1, <3>2, DigestInjective
\* In S that event follows one with the same digest.
  <2>7. PICK s \in S : s.sequence < n.sequence /\ n.prev = s.hash
    <3>1. Before(S, n) # {}
      BY <2>4, <2>5, <2>6 DEF VerifyChain, Continues
    <3>2. QED
      BY <2>4, <3>1, Predecessor
  <2>8. s.content = r.content /\ s.prev = r.prev /\ s.hash = r.hash
    <3>1. s.hash = EntryHash(s.content, s.prev)
      BY DEF VerifyChain
    <3>2. s.content \in Contents /\ s.prev \in Digests
      BY <1>0 DEF Events
    <3>3. QED
      BY <2>5, <2>6, <2>7, <3>1, <3>2, DigestInjective
  <2>9. PICK q \in R : q.sequence = s.sequence
    BY DEF Covers
  <2>10. ~ (r.sequence < q.sequence)
    BY <1>0, <2>3, <2>4, <2>7, <2>9
  <2>11. CASE q.sequence = r.sequence
    <3>1. s.org = r.org /\ s.sequence = r.sequence
      BY <2>2, <2>9, <2>11
    <3>2. s \in Events /\ r \in Events
      BY <1>0, <2>2
    <3>3. s = r
      BY <2>8, <3>1, <3>2 DEF Events
    <3>4. QED
      BY <3>3
  <2>12. CASE q.sequence < r.sequence
    <3>1. Len(q.hash) < Len(r.hash)
      BY <2>2, <2>12, DigestsGrow
    <3>2. Len(s.hash) <= Len(q.hash)
      BY <2>9, NotLonger
    <3>3. QED
      BY <1>0, <2>2, <2>8, <3>1, <3>2
  <2>13. QED
    BY <1>0, <2>2, <2>10, <2>11, <2>12
<1>2. ASSUME NEW s \in S PROVE s \in R
  <2>1. PICK r \in R : r.sequence = s.sequence
    BY DEF Covers
  <2>2. r \in S
    BY <1>1
  <2>3. QED
    BY <2>1, <2>2 DEF Numbered
<1>3. QED
  BY <1>1, <1>2

\* Each sequence number names one row of the table and one of the record, and
\* every row is at the place of a recorded one of its organization.
RowsInv ==
  /\ Numbered(stored) /\ Numbered(recorded)
  /\ \A w \in Writers : Numbered(Staged(w))
  /\ \A s \in stored : \E r \in recorded : r.org = s.org /\ r.sequence = s.sequence

\* Every step keeps the rows at their places.
LEMMA RowsStep == ChainShape /\ RowsInv /\ [Next]_vars => RowsInv'
<1> SUFFICES ASSUME ChainShape, RowsInv, [Next]_vars PROVE RowsInv'
  OBVIOUS
<1>0. \A v \in Writers : /\ Staged(v) \in SUBSET Events
                         /\ txn[v].open => txn[v] \in Transactions
                         /\ txn[v].open => txn[v].staged = Staged(v)
                         /\ ~ txn[v].open => Staged(v) = {}
  BY StagedType DEF ChainShape
<1>1. ASSUME NEW w \in Writers, NEW org \in Orgs, ReadLast(w, org) PROVE RowsInv'
  <2>1. \A v \in Writers : Staged(v)' = Staged(v)
    BY <1>1 DEF ReadLast, Staged, ChainShape, TypeOK
  <2>2. UNCHANGED <<stored, recorded>>
    BY <1>1 DEF ReadLast
  <2>3. QED
    BY <2>1, <2>2 DEF RowsInv, Numbered
<1>2. ASSUME NEW w \in Writers, NEW content \in Contents, Insert(w, content) PROVE RowsInv'
  <2> DEFINE event == [org |-> txn[w].org, sequence |-> issued + 1, content |-> content,
                       prev |-> txn[w].last, hash |-> EntryHash(content, txn[w].last)]
  <2>1. /\ txn[w] \in Transactions
        /\ txn' = [txn EXCEPT ![w].reading = FALSE, ![w].staged = @ \union {event}]
        /\ UNCHANGED <<stored, recorded>>
    BY <1>0, <1>2 DEF Insert
  <2>2. event.sequence = issued + 1
    OBVIOUS
  <2> HIDE DEF event
  <2>3. Staged(w)' = Staged(w) \union {event}
    BY <1>0, <1>2, <2>1 DEF Insert, Staged, ChainShape, TypeOK, Transactions
  <2>4. \A v \in Writers \ {w} : Staged(v)' = Staged(v)
    BY <2>1 DEF Staged, ChainShape, TypeOK
  <2>5. \A e \in Staged(w) : e.sequence < event.sequence /\ e.sequence \in Nat
    BY <1>0, <2>2 DEF ChainShape, SequencesOnce, TypeOK, Events
  <2>6. Numbered(Staged(w) \union {event})
    BY <2>5 DEF RowsInv, Numbered
  <2>7. \A v \in Writers : Numbered(Staged(v)')
    BY <2>3, <2>4, <2>6 DEF RowsInv
  <2>8. QED
    BY <2>1, <2>7 DEF RowsInv, Numbered
<1>3. ASSUME NEW w \in Writers, Commit(w) PROVE RowsInv'
  <2>1. /\ stored' = stored \union Staged(w)
        /\ recorded' = recorded \union Staged(w)
    BY <1>0, <1>3 DEF Commit
  <2>2. \A v \in Writers : Staged(v)' = {} \/ Staged(v)' = Staged(v)
    BY <1>3 DEF Commit, Staged, ChainShape, TypeOK, Closed
  <2>3. \A e \in Staged(w) : \A d \in stored \union recorded : d.sequence # e.sequence
    BY DEF ChainShape, SequencesOnce
  <2>4. Numbered(stored') /\ Numbered(recorded')
    BY <2>1, <2>3 DEF RowsInv, Numbered
  <2>5. \A v \in Writers : Numbered(Staged(v)')
    BY <2>2 DEF RowsInv, Numbered
  <2>6. \A s \in stored' : \E r \in recorded' : r.org = s.org /\ r.sequence = s.sequence
    BY <2>1 DEF RowsInv
  <2>7. QED
    BY <2>4, <2>5, <2>6 DEF RowsInv, Numbered
<1>4. ASSUME NEW w \in Writers, Rollback(w) PROVE RowsInv'
  <2>1. \A v \in Writers : Staged(v)' = {} \/ Staged(v)' = Staged(v)
    BY <1>4 DEF Rollback, Staged, ChainShape, TypeOK, Closed
  <2>2. QED
    BY <1>4, <2>1 DEF Rollback, RowsInv, Numbered
\* An edit writes the contents and the digests of a row, not its place.
<1>5. ASSUME NEW e \in stored, Edit(e) \/ Delete(e) PROVE RowsInv'
  <2>1. UNCHANGED <<recorded, txn>>
    BY <1>5 DEF Edit, Delete
  <2>2. \E d : /\ d.org = e.org /\ d.sequence = e.sequence
               /\ stored' = (stored \ {e}) \union {d} \/ stored' = stored \ {e}
    <3>1. CASE Edit(e)
      BY <3>1 DEF Edit, ChainShape, TypeOK, Events
    <3>2. CASE Delete(e)
      BY <3>2 DEF Delete
    <3>3. QED
      BY <1>5, <3>1, <3>2
  <2>3. Numbered(stored')
    BY <2>2 DEF RowsInv, Numbered
  <2>4. \A s \in stored' : \E r \in recorded : r.org = s.org /\ r.sequence = s.sequence
    BY <2>2 DEF RowsInv
  <2>5. \A w \in Writers : Staged(w)' = Staged(w)
    BY <2>1 DEF Staged
  <2>6. QED
    BY <2>1, <2>3, <2>4, <2>5 DEF RowsInv, Numbered
<1>6. CASE UNCHANGED vars
  BY <1>6 DEF vars, RowsInv, Numbered, Staged
<1>7. QED
  BY <1>1, <1>2, <1>3, <1>4, <1>5, <1>6 DEF Next, Record

\* A chain that verifies and still ends as it was recorded is the record.
LEMMA TamperingShows == ChainShape /\ RowsInv /\ SerialInv => TamperEvident
<1> SUFFICES ASSUME ChainShape, RowsInv, SerialInv, NEW org \in Orgs, ~ overlapped[org],
                    VerifyChain(OfOrg(stored, org))
             PROVE  OfOrg(stored, org) = OfOrg(recorded, org)
  BY DEF TamperEvident
<1> DEFINE S == OfOrg(stored, org)
           R == OfOrg(recorded, org)
<1>1. VerifyChain(R)
  BY DEF SerialInv
<1>2. S \in SUBSET Events /\ R \in SUBSET Events /\ \A e \in S \union R : e.org = org
  BY DEF ChainShape, TypeOK, OfOrg
<1>3. Numbered(S) /\ Numbered(R) /\ Covers(R, S)
  BY DEF RowsInv, Numbered, Covers, OfOrg
<1>4. CASE R = {} /\ S = {}
  BY <1>4
<1>5. ASSUME NEW h \in R, IsLast(h, S), \A e \in R : e.sequence <= h.sequence
      PROVE  S = R
  <2>1. h \in S
    BY <1>5 DEF IsLast
  <2> HIDE DEF S, R
  <2>2. QED
    BY <1>1, <1>2, <1>3, <1>5, <2>1, SameChain DEF S
<1>6. QED
  BY <1>4, <1>5 DEF ChainShape, LastUntouched

\* Whatever is edited, rehashed or deleted behind the program's back among the
\* past events of an organization whose transactions did not overlap, and in
\* whatever order, its chain verifies only when it is again what was recorded.
THEOREM EditsShow == Spec => []TamperEvident
<1>1. Init => SerialInv
  BY DEF Init, SerialInv, OfOrg, VerifyChain, Closed
<1>2. Init => RowsInv
  BY DEF Init, RowsInv, Numbered, Staged, Closed
<1>3. QED
  BY <1>1, <1>2, ShapeInit, ShapeStep, SerialStep, RowsStep, TamperingShows, PTL DEF Spec

=============================================================================
