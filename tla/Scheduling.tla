----------------------------- MODULE Scheduling -----------------------------
(***************************************************************************)
(* The interview slots of one requisition: generating them and booking     *)
(* them (routers_scheduling.py) and reminding of them                      *)
(* (routers_reminders.py).                                                 *)
(*                                                                         *)
(* As everywhere in the API a request is one transaction at READ COMMITTED *)
(* that commits after its handler returned.  E-mail leaves before that     *)
(* commit, so it cannot be taken back when the transaction fails.          *)
(***************************************************************************)
EXTENDS SlotGeneration, Sequences, FiniteSets

CONSTANTS
  Requests,     \* staff requests that may be in progress at the same time
  Offices,      \* [rule, zone]: what a call to generate may ask for
  Candidates,
  NoOne,        \* booked_for_email IS NULL
  Clocks,       \* the times of day at which something happens
  MaxCalls,     \* bound: no more calls to generate than this
  MaxSlots,     \* bound: no more rows of interview_slots than this
  MaxMail       \* bound: no more different e-mails than this

ASSUME OfficesAssumption == Offices \subseteq [rule : Rules, zone : Zones]
ASSUME ClocksAssumption == Clocks \subseteq Int
ASSUME NoOneAssumption == NoOne \notin Candidates
ASSUME BoundsAssumption == {MaxCalls, MaxSlots, MaxMail} \subseteq Nat

VARIABLES
  clock,        \* datetime.now(UTC)
  calls,        \* history: what each committed call to generate asked for
  slots,        \* interview_slots, by id
  req,          \* per request: its progress
  mail,         \* history: the e-mails that left
  again,        \* history: the reminders that left more than once
  excuse        \* history: what went wrong, see below

vars == <<clock, calls, slots, req, mail, again, excuse>>

-----------------------------------------------------------------------------

\* The WINDOWS of routers_reminders.py.
Windows == {"24h", "1h"}
Length(window) == IF window = "24h" THEN 96 ELSE 4

\* A call creates at most one slot for a start.
Ids == [call : Nat, start : Int]

\* A slot is booked when it has a candidate; sent is the set of windows whose
\* sent-at column is not NULL.
Rows == [end : Int, candidate : Candidates \union {NoOne}, sent : SUBSET Windows]

\* E-mails about a slot: reminders, and the confirmation of a booking.
Reminders == [slot : Ids, about : Windows, to : Candidates]
Mails == Reminders \union [slot : Ids, about : {"booked"}, to : Candidates]

Confirmation(id, candidate) == [slot |-> id, about |-> "booked", to |-> candidate]

Idle == [op |-> "idle"]

Generating == [op : {"generate"}, office : Offices, existing : SUBSET Int]
Booking == [op : {"book"}, slot : Ids, candidate : Candidates, mailed : BOOLEAN]
Reminding == [op : {"remind"}, due : SUBSET Reminders, marked : SUBSET Reminders]

TypeOK ==
  /\ clock \in Clocks
  /\ calls \in Seq(Offices)
  /\ DOMAIN slots \subseteq Ids
  /\ \A id \in DOMAIN slots : slots[id] \in Rows
  /\ req \in [Requests -> Generating \union Booking \union Reminding \union {Idle}]
  /\ mail \subseteq Mails
  /\ again \subseteq Ids \X Windows
  /\ excuse \in [crossed : BOOLEAN,             \* two calls to generate overlapped
                 contested : SUBSET Ids,        \* two bookings of the slot did
                 unsettled : SUBSET Mails]      \* mailed, then rolled back; or a
                                                \* reminder due in two runs at once

Init ==
  /\ clock \in Clocks
  /\ calls = << >>
  /\ slots = << >>
  /\ req = [r \in Requests |-> Idle]
  /\ mail = {}
  /\ again = {}
  /\ excuse = [crossed |-> FALSE, contested |-> {}, unsettled |-> {}]

At(r, op) == req[r].op = op

\* email.send
Send(m) ==
  /\ mail' = mail \union {m}
  /\ Cardinality(mail') <= MaxMail

Open == {id \in DOMAIN slots : slots[id].candidate = NoOne}
Booked == DOMAIN slots \ Open

Tick ==
  /\ clock' \in Clocks
  /\ clock' > clock
  /\ UNCHANGED <<calls, slots, req, mail, again, excuse>>

-----------------------------------------------------------------------------
(* generate_requisition_slots                                              *)

\* The SELECT of the open slots.
GenerateLoad(r) ==
  \E office \in Offices :
    /\ At(r, "idle")
    /\ Len(calls) < MaxCalls
    /\ office.rule.first <= office.rule.last
    /\ req' = [req EXCEPT ![r] =
         [op |-> "generate", office |-> office, existing |-> {id.start : id \in Open}]]
    /\ excuse' = [excuse EXCEPT !.crossed =
         @ \/ \E q \in Requests \ {r} : At(q, "generate")]
    /\ UNCHANGED <<clock, calls, slots, mail, again>>

NewRow(end) == [end |-> end, candidate |-> NoOne, sent |-> {}]

\* Mutant: slots that exist are not looked for.
GenerateCommitAll(r) ==
  /\ At(r, "generate")
  /\ Len(calls) < MaxCalls
  /\ LET office == req[r].office
         new == GenerateSlots(office.rule, office.zone)
         ids == [call : {Len(calls) + 1}, start : {s.start : s \in new}]
     IN  /\ slots' = [id \in DOMAIN slots \union ids |->
              IF id \in ids
                THEN NewRow((CHOOSE s \in new : s.start = id.start).end)
                ELSE slots[id]]
         /\ Cardinality(DOMAIN slots') <= MaxSlots
         /\ calls' = Append(calls, office)
  /\ req' = [req EXCEPT ![r] = Idle]
  /\ UNCHANGED <<clock, mail, again, excuse>>

\* The INSERTs and the commit.
GenerateCommit(r) ==
  /\ At(r, "generate")
  /\ Len(calls) < MaxCalls
  /\ LET office == req[r].office
         new == {s \in GenerateSlots(office.rule, office.zone) :
                   s.start \notin req[r].existing}
         ids == [call : {Len(calls) + 1}, start : {s.start : s \in new}]
     IN  /\ slots' = [id \in DOMAIN slots \union ids |->
              IF id \in ids
                THEN NewRow((CHOOSE s \in new : s.start = id.start).end)
                ELSE slots[id]]
         /\ Cardinality(DOMAIN slots') <= MaxSlots
         /\ calls' = Append(calls, office)
  /\ req' = [req EXCEPT ![r] = Idle]
  /\ UNCHANGED <<clock, mail, again, excuse>>

-----------------------------------------------------------------------------
(* book_slot                                                               *)

\* Mutant: the status of the slot is not looked at.
BookLoadAny(r) ==
  \E id \in DOMAIN slots, candidate \in Candidates :
    /\ At(r, "idle")
    /\ req' = [req EXCEPT ![r] =
         [op |-> "book", slot |-> id, candidate |-> candidate, mailed |-> FALSE]]
    /\ excuse' = [excuse EXCEPT !.contested =
         IF \E q \in Requests \ {r} : At(q, "book") /\ req[q].slot = id
           THEN @ \union {id} ELSE @]
    /\ UNCHANGED <<clock, calls, slots, mail, again>>

\* The SELECT of an open slot.
BookLoad(r) ==
  \E id \in Open, candidate \in Candidates :
    /\ At(r, "idle")
    /\ req' = [req EXCEPT ![r] =
         [op |-> "book", slot |-> id, candidate |-> candidate, mailed |-> FALSE]]
    /\ excuse' = [excuse EXCEPT !.contested =
         IF \E q \in Requests \ {r} : At(q, "book") /\ req[q].slot = id
           THEN @ \union {id} ELSE @]
    /\ UNCHANGED <<clock, calls, slots, mail, again>>

\* No other booking holds the slot's row lock.
Unlocked(r, id) ==
  \A q \in Requests \ {r} : ~ (At(q, "book") /\ req[q].slot = id /\ req[q].mailed)

\* The UPDATE, flushed by record_event, waits for the row; then the
\* confirmation leaves.
BookMail(r) ==
  /\ At(r, "book")
  /\ ~ req[r].mailed
  /\ Unlocked(r, req[r].slot)
  /\ req' = [req EXCEPT ![r].mailed = TRUE]
  /\ Send(Confirmation(req[r].slot, req[r].candidate))
  /\ UNCHANGED <<clock, calls, slots, again, excuse>>

\* Mutant: the booking is committed whether or not the confirmation left.
BookCommitUnmailed(r) ==
  /\ At(r, "book")
  /\ slots' = [slots EXCEPT ![req[r].slot].candidate = req[r].candidate]
  /\ req' = [req EXCEPT ![r] = Idle]
  /\ UNCHANGED <<clock, calls, mail, again, excuse>>

BookCommit(r) ==
  /\ At(r, "book")
  /\ req[r].mailed
  /\ slots' = [slots EXCEPT ![req[r].slot].candidate = req[r].candidate]
  /\ req' = [req EXCEPT ![r] = Idle]
  /\ UNCHANGED <<clock, calls, mail, again, excuse>>

-----------------------------------------------------------------------------
(* run_interview_reminders                                                 *)

\* The reminders due now: the slot starts within the window, and the window
\* has no sent-at yet.
Due ==
  {m \in [slot : Booked, about : Windows, to : Candidates] :
     /\ m.to = slots[m.slot].candidate
     /\ m.about \notin slots[m.slot].sent
     /\ m.slot.start <= clock + Length(m.about)}

\* What run q has taken on.
Taken(q) == IF At(q, "remind") THEN req[q].due \union req[q].marked ELSE {}

\* The SELECT of the booked slots.
RemindLoad(r) ==
  /\ At(r, "idle")
  /\ Due # {}
  /\ req' = [req EXCEPT ![r] = [op |-> "remind", due |-> Due, marked |-> {}]]
  /\ excuse' = [excuse EXCEPT !.unsettled =
       @ \union {m \in Due : \E q \in Requests \ {r} : m \in Taken(q)}]
  /\ UNCHANGED <<clock, calls, slots, mail, again>>

\* The reminder leaves and its column is set; 24h comes before 1h.
RemindSend(r) ==
  /\ At(r, "remind")
  /\ \E m \in req[r].due :
       /\ m.about = "1h" => \A d \in req[r].due : d.slot = m.slot => d.about = "1h"
       /\ req' = [req EXCEPT ![r].due = @ \ {m}, ![r].marked = @ \union {m}]
       /\ Send(m)
       /\ again' = IF m \in mail THEN again \union {<<m.slot, m.about>>} ELSE again
  /\ UNCHANGED <<clock, calls, slots, excuse>>

\* The columns set for slot id.
MarkedFor(r, id) == {m.about : m \in {m \in req[r].marked : m.slot = id}}

\* Mutant: what is due is marked, sent or not.
RemindCommitEarly(r) ==
  /\ At(r, "remind")
  /\ \A m \in req[r].marked : Unlocked(r, m.slot)
  /\ slots' = [id \in DOMAIN slots |->
       [slots[id] EXCEPT !.sent = @ \union MarkedFor(r, id)
          \union {m.about : m \in {m \in req[r].due : m.slot = id}}]]
  /\ req' = [req EXCEPT ![r] = Idle]
  /\ UNCHANGED <<clock, calls, mail, again, excuse>>

\* Mutant: only one window's column is written.
RemindCommitOneWindow(r) ==
  /\ At(r, "remind")
  /\ req[r].due = {}
  /\ \A m \in req[r].marked : Unlocked(r, m.slot)
  /\ slots' = [id \in DOMAIN slots |->
       [slots[id] EXCEPT !.sent = @ \union (MarkedFor(r, id) \ {"1h"})]]
  /\ req' = [req EXCEPT ![r] = Idle]
  /\ UNCHANGED <<clock, calls, mail, again, excuse>>

\* The UPDATEs of the marked slots, which wait for their rows, and the commit.
RemindCommit(r) ==
  /\ At(r, "remind")
  /\ req[r].due = {}
  /\ \A m \in req[r].marked : Unlocked(r, m.slot)
  /\ slots' = [id \in DOMAIN slots |->
       [slots[id] EXCEPT !.sent = @ \union MarkedFor(r, id)]]
  /\ req' = [req EXCEPT ![r] = Idle]
  /\ UNCHANGED <<clock, calls, mail, again, excuse>>

-----------------------------------------------------------------------------

\* What the request has mailed and a rollback does not take back.
Mailed(r) ==
  IF At(r, "remind")
    THEN req[r].marked
    ELSE IF At(r, "book") /\ req[r].mailed
           THEN {Confirmation(req[r].slot, req[r].candidate)}
           ELSE {}

\* The request fails (mail server, database, worker): it is rolled back.
Rollback(r) ==
  /\ ~ At(r, "idle")
  /\ req' = [req EXCEPT ![r] = Idle]
  /\ excuse' = [excuse EXCEPT !.unsettled = @ \union Mailed(r)]
  /\ UNCHANGED <<clock, calls, slots, mail, again>>

Serve(r) ==
  \/ GenerateLoad(r) \/ GenerateCommit(r)
  \/ BookLoad(r)     \/ BookMail(r)       \/ BookCommit(r)
  \/ RemindLoad(r)   \/ RemindSend(r)     \/ RemindCommit(r)
  \/ Rollback(r)

Next == Tick \/ \E r \in Requests : Serve(r)

Spec == Init /\ [][Next]_vars

-----------------------------------------------------------------------------
(* Properties.                                                             *)

\* Slots of one call never overlap, and none is empty, also around a
\* transition: except after a slot that would end at a wall time the clock
\* jumps over (scheduling.py:1-6).
SlotsDisjoint ==
  \A i \in DOMAIN slots :
    /\ i.start < slots[i].end
    /\ \A j \in DOMAIN slots : j.call = i.call /\ i.start < j.start =>
         \/ slots[i].end <= j.start
         \/ LET office == calls[i.call]
            IN  InGap(office.zone, FromUtc(office.zone, i.start) + office.rule.duration)

\* Generating again does not duplicate a slot nobody has booked
\* (README.md:295-297), unless two calls overlapped.
NoTwins ==
  ~ excuse.crossed => \A i, j \in Open : i.start = j.start => i = j

\* A candidate who holds a slot was told so.
BookedIsConfirmed ==
  \A id \in Booked : Confirmation(id, slots[id].candidate) \in mail

\* A candidate who was told that a slot is theirs holds it, or its booking is
\* still to be committed; unless it was rolled back after the e-mail left, or
\* two bookings of the slot overlapped (routers_scheduling.py:161-162).
ConfirmedHolds ==
  \A m \in mail : m.about = "booked" =>
    \/ slots[m.slot].candidate = m.to
    \/ \E r \in Requests : m \in Mailed(r)
    \/ m \in excuse.unsettled
    \/ m.slot \in excuse.contested

\* No reminder leaves twice (routers_reminders.py:20-23), unless the run that
\* sent it first was rolled back or two runs had it due at the same time.
RemindedOnce ==
  \A p \in again :
    \E m \in excuse.unsettled : <<m.slot, m.about>> = p

\* A sent-at column is only ever set for a reminder that left, to the
\* candidate who holds the slot, unless two bookings of it overlapped.
MarkedWasSent ==
  \A id \in Booked : id \notin excuse.contested =>
    \A window \in slots[id].sent :
      [slot |-> id, about |-> window, to |-> slots[id].candidate] \in mail

\* What run_interview_reminders sends and what it records agree
\* (routers_reminders.py:84-110): nothing twice, and nothing only on paper.
RemindersAgree == RemindedOnce /\ MarkedWasSent

=============================================================================
