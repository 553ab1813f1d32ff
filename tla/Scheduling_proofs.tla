------------------------- MODULE Scheduling_proofs -------------------------
(***************************************************************************)
(* What Scheduling promises, proved for any number of requests, rules,     *)
(* zones, candidates and clocks.                                           *)
(***************************************************************************)
EXTENDS Scheduling, TLAPS

-----------------------------------------------------------------------------
(* Slot generation.                                                        *)

\* A slot that starts at a real wall time ends after it starts, and not after
\* a later wall time it has ended by, unless its own end is skipped.
LEMMA WallTimes ==
  ASSUME NEW zone \in Zones, NEW wall \in Int, NEW length \in Nat \ {0},
         IsRealWallTime(zone, wall)
  PROVE  /\ ToUtc(zone, wall) \in Int
         /\ ToUtc(zone, wall + length) \in Int
         /\ ToUtc(zone, wall) < ToUtc(zone, wall + length)
         /\ FromUtc(zone, ToUtc(zone, wall)) = wall
         /\ \A later \in Int :
              /\ IsRealWallTime(zone, later)
              /\ wall + length <= later
              => \/ ToUtc(zone, wall + length) <= ToUtc(zone, later)
                 \/ InGap(zone, wall + length)
<1>1. zone.at \in Int /\ zone.shift \in Int
  BY DEF Zones
<1> QED
  BY <1>1 DEF IsRealWallTime, ToUtc, FromUtc, InGap

\* Multiples of a step are a step apart.
LEMMA MultiplesApart ==
  ASSUME NEW step \in Nat, NEW j \in Nat, NEW k \in Nat, j * step < k * step
  PROVE  j * step + step <= k * step
<1>1. j < k
  <2> SUFFICES ASSUME k <= j PROVE FALSE
    OBVIOUS
  <2>1. PICK n \in Nat : j = k + n
    <3>1. j - k \in Nat /\ j = k + (j - k)
      OBVIOUS
    <3> QED
      BY <3>1
  <2>2. j * step = k * step + n * step
    BY <2>1
  <2>3. n * step >= 0
    OBVIOUS
  <2> QED
    BY <2>2, <2>3
<1>2. PICK n \in Nat : k = j + 1 + n
  <2>1. k - j - 1 \in Nat /\ k = j + 1 + (k - j - 1)
    BY <1>1
  <2> QED
    BY <2>1
<1>3. k * step = j * step + step + n * step
  BY <1>2
<1>4. n * step >= 0
  OBVIOUS
<1> QED
  BY <1>3, <1>4

\* Two positions of the cursor leave room for a slot between them.
LEMMA CursorsApart ==
  ASSUME NEW rule \in Rules,
         NEW d1 \in Nat, NEW c1 \in Cursors(rule, d1),
         NEW d2 \in Nat, NEW c2 \in Cursors(rule, d2)
  PROVE  /\ c1 \in Int
         /\ c2 \in Int
         /\ c1 < c2 => c1 + rule.duration <= c2
<1> DEFINE step == rule.duration + rule.buffer
<1>1. /\ rule.start \in 0 .. 95
      /\ rule.end \in 0 .. 95
      /\ rule.duration \in Nat \ {0}
      /\ rule.buffer \in Nat
  BY DEF Rules, Ticks
<1>2. PICK k1 \in 0 .. 96 : c1 = d1 * 96 + rule.start + k1 * step
  BY DEF Cursors, Ticks
<1>3. PICK k2 \in 0 .. 96 : c2 = d2 * 96 + rule.start + k2 * step
  BY DEF Cursors, Ticks
<1>4. /\ c1 + rule.duration <= d1 * 96 + rule.end
      /\ c2 + rule.duration <= d2 * 96 + rule.end
  BY DEF Cursors, Ticks
<1>5. /\ step \in Nat
      /\ rule.duration <= step
  BY <1>1
<1> HIDE DEF step
<1>6. k1 * step \in Nat /\ k2 * step \in Nat
  BY <1>5
<1>7. c1 \in Int /\ c2 \in Int
  BY <1>1, <1>2, <1>3, <1>6
<1>8. ASSUME c1 < c2, d1 = d2 PROVE c1 + rule.duration <= c2
  <2>1. k1 * step < k2 * step
    BY <1>8, <1>1, <1>2, <1>3, <1>6
  <2>2. k1 * step + step <= k2 * step
    BY <2>1, <1>5, MultiplesApart
  <2> DEFINE base == d1 * 96 + rule.start
             m == k1 * step
             n == k2 * step
  <2>3. base \in Int /\ m \in Nat /\ n \in Nat /\ m + step <= n
    BY <2>2, <1>1, <1>6
  <2>4. c1 = base + m /\ c2 = base + n
    BY <1>2, <1>3, <1>8
  <2> HIDE DEF base, m, n
  <2> QED
    BY <2>3, <2>4, <1>1, <1>5
<1>9. ASSUME c1 < c2, d1 < d2 PROVE c1 + rule.duration <= c2
  BY <1>9, <1>1, <1>3, <1>4, <1>6, <1>7
<1>10. ASSUME c1 < c2, d2 < d1 PROVE FALSE
  BY <1>10, <1>1, <1>2, <1>4, <1>6, <1>7
<1> QED
  BY <1>7, <1>8, <1>9, <1>10

\* The slots of a call: not empty, and apart unless the first one's end is
\* a wall time the clock jumps over.
LEMMA SlotsApart ==
  ASSUME NEW rule \in Rules, NEW zone \in Zones,
         NEW s \in GenerateSlots(rule, zone)
  PROVE  /\ s = [start |-> s.start, end |-> s.end]
         /\ s.start \in Int
         /\ s.end \in Int
         /\ s.start < s.end
         /\ \A t \in GenerateSlots(rule, zone) : s.start < t.start =>
              \/ s.end <= t.start
              \/ InGap(zone, FromUtc(zone, s.start) + rule.duration)
<1>0. PICK d1 \in WorkingDates(rule) : \E c \in Cursors(rule, d1) :
        IsRealWallTime(zone, c) /\ s = Slot(rule, zone, c)
  BY DEF GenerateSlots
<1>1. PICK c1 \in Cursors(rule, d1) :
        IsRealWallTime(zone, c1) /\ s = Slot(rule, zone, c1)
  BY <1>0
<1>2. rule.duration \in Nat \ {0} /\ rule.first \in Nat /\ rule.last \in Nat
  BY DEF Rules
<1>3. WorkingDates(rule) \subseteq Nat
  BY <1>2 DEF WorkingDates
<1>4. c1 \in Int
  BY <1>3, CursorsApart
<1>5. /\ s.start = ToUtc(zone, c1)
      /\ s.end = ToUtc(zone, c1 + rule.duration)
      /\ s = [start |-> s.start, end |-> s.end]
  BY <1>1 DEF Slot
<1>6. s.start \in Int /\ s.end \in Int /\ s.start < s.end
  BY <1>1, <1>2, <1>4, <1>5, WallTimes
<1>7. ASSUME NEW t \in GenerateSlots(rule, zone), s.start < t.start
      PROVE  \/ s.end <= t.start
             \/ InGap(zone, FromUtc(zone, s.start) + rule.duration)
  <2>0. PICK d2 \in WorkingDates(rule) : \E c \in Cursors(rule, d2) :
          IsRealWallTime(zone, c) /\ t = Slot(rule, zone, c)
    BY DEF GenerateSlots
  <2>1. PICK c2 \in Cursors(rule, d2) :
          IsRealWallTime(zone, c2) /\ t = Slot(rule, zone, c2)
    BY <2>0
  <2>2. t.start = ToUtc(zone, c2)
    BY <2>1 DEF Slot
  <2>3. c2 \in Int
    BY <1>3, CursorsApart
  <2>4. c1 < c2
    <3>1. zone.at \in Int /\ zone.shift \in Int
      BY DEF Zones
    <3> QED
      BY <3>1, <1>1, <2>1, <1>4, <2>3, <1>5, <2>2, <1>7
      DEF IsRealWallTime, ToUtc, FromUtc, InGap
  <2>5. c1 + rule.duration <= c2
    BY <2>4, <1>3, CursorsApart
  <2>6. \/ ToUtc(zone, c1 + rule.duration) <= ToUtc(zone, c2)
        \/ InGap(zone, c1 + rule.duration)
    BY <1>1, <1>2, <1>4, <2>1, <2>3, <2>5, WallTimes
  <2>7. FromUtc(zone, s.start) = c1
    BY <1>1, <1>2, <1>4, <1>5, WallTimes
  <2> QED
    BY <2>6, <2>7, <1>5, <2>2
<1> QED
  BY <1>5, <1>6, <1>7

-----------------------------------------------------------------------------
(* Types, and what each action does to the slots.                          *)

\* A slot is one that generate_slots gave to the call that created it.
Generated ==
  \A id \in DOMAIN slots :
    /\ id.call \in DOMAIN calls
    /\ [start |-> id.start, end |-> slots[id].end]
         \in GenerateSlots(calls[id.call].rule, calls[id.call].zone)

\* What requests are about exists.
Targets ==
  /\ \A r \in Requests : At(r, "book") => req[r].slot \in DOMAIN slots
  /\ \A r \in Requests : \A m \in Taken(r) : m.slot \in Booked

TypeInv == TypeOK /\ Generated /\ Targets

\* The operation of a request tells what the request carries.
LEMMA StageType ==
  ASSUME TypeOK, NEW r \in Requests
  PROVE  /\ At(r, "idle") => req[r] = Idle
         /\ At(r, "generate") => req[r] \in Generating
         /\ At(r, "book") => req[r] \in Booking
         /\ At(r, "remind") => req[r] \in Reminding
         /\ \/ At(r, "idle") \/ At(r, "generate") \/ At(r, "book") \/ At(r, "remind")
         /\ Taken(r) \subseteq Reminders
         /\ Mailed(r) \subseteq Mails
<1>1. req[r] \in Generating \union Booking \union Reminding \union {Idle}
  BY DEF TypeOK
<1>2. /\ At(r, "idle") => req[r] = Idle
      /\ At(r, "generate") => req[r] \in Generating
      /\ At(r, "book") => req[r] \in Booking
      /\ At(r, "remind") => req[r] \in Reminding
      /\ \/ At(r, "idle") \/ At(r, "generate") \/ At(r, "book") \/ At(r, "remind")
  BY <1>1 DEF At, Idle, Generating, Booking, Reminding
<1>3. Taken(r) \subseteq Reminders
  BY <1>2 DEF Taken, Reminding
<1>4. Mailed(r) \subseteq Mails
  BY <1>2 DEF Mailed, Reminding, Booking, Mails, Confirmation
<1> QED
  BY <1>2, <1>3, <1>4

\* A call to generate keeps the slots there are; the ones it adds are open,
\* of a call of their own, and start when no open slot it saw does.
LEMMA CallRows ==
  ASSUME TypeInv, NEW r \in Requests, GenerateCommit(r)
  PROVE  /\ calls' \in Seq(Offices)
         /\ Len(calls') = Len(calls) + 1
         /\ \A i \in DOMAIN calls : i \in DOMAIN calls' /\ calls'[i] = calls[i]
         /\ DOMAIN slots \subseteq DOMAIN slots'
         /\ \A id \in DOMAIN slots : slots'[id] = slots[id]
         /\ \A id \in DOMAIN slots' \ DOMAIN slots :
              /\ id \in Ids
              /\ id.call = Len(calls) + 1
              /\ id.start \notin req[r].existing
              /\ slots'[id] \in Rows
              /\ slots'[id].candidate = NoOne
              /\ slots'[id].sent = {}
              /\ [start |-> id.start, end |-> slots'[id].end]
                   \in GenerateSlots(calls'[id.call].rule, calls'[id.call].zone)
<1> DEFINE office == req[r].office
           new == {s \in GenerateSlots(office.rule, office.zone) :
                     s.start \notin req[r].existing}
           ids == [call : {Len(calls) + 1}, start : {s.start : s \in new}]
           end(id) == (CHOOSE s \in new : s.start = id.start).end
<1>1. office \in Offices /\ office.rule \in Rules /\ office.zone \in Zones
  BY StageType, OfficesAssumption DEF GenerateCommit, TypeInv, Generating
<1>2. calls \in Seq(Offices) /\ calls' = Append(calls, office) /\ Len(calls) \in Nat
  BY DEF GenerateCommit, TypeInv, TypeOK
<1>3. slots' = [id \in DOMAIN slots \union ids |->
                  IF id \in ids THEN NewRow(end(id)) ELSE slots[id]]
  BY DEF GenerateCommit
<1>4. \A s \in new : s \in GenerateSlots(office.rule, office.zone)
                   /\ s.start \in Int /\ s.end \in Int
                   /\ s = [start |-> s.start, end |-> s.end]
                   /\ s.start \notin req[r].existing
  BY <1>1, SlotsApart
<1>5. ASSUME NEW id \in ids
      PROVE  /\ id \in Ids
             /\ id.call = Len(calls) + 1
             /\ id.start \notin req[r].existing
             /\ end(id) \in Int
             /\ [start |-> id.start, end |-> end(id)]
                  \in GenerateSlots(office.rule, office.zone)
  <2>1. id.call = Len(calls) + 1 /\ \E s \in new : s.start = id.start
    OBVIOUS
  <2>2. PICK s \in new : s.start = id.start /\ end(id) = s.end
    BY <2>1
  <2> HIDE DEF new, end
  <2>3. id = [call |-> id.call, start |-> id.start]
    OBVIOUS
  <2> QED
    BY <2>1, <2>2, <2>3, <1>2, <1>4 DEF Ids
<1>6. \A id \in DOMAIN slots : id.call \in 1 .. Len(calls)
  <2>1. DOMAIN calls = 1 .. Len(calls)
    BY <1>2
  <2> QED
    BY <2>1 DEF TypeInv, Generated
<1>7. \A id \in DOMAIN slots : id \notin ids
  BY <1>2, <1>5, <1>6
<1> HIDE DEF new, ids, end
<1>8. calls'[Len(calls) + 1] = office
  BY <1>1, <1>2
<1>9. \A id \in ids :
        /\ slots'[id] = NewRow(end(id))
        /\ slots'[id] \in Rows
        /\ slots'[id].end = end(id)
        /\ slots'[id].candidate = NoOne
        /\ slots'[id].sent = {}
  BY <1>3, <1>5 DEF NewRow, Rows
<1>10. DOMAIN slots' = DOMAIN slots \union ids
  BY <1>3
<1>11. \A id \in DOMAIN slots : slots'[id] = slots[id]
  BY <1>3, <1>7
<1>12. /\ calls' \in Seq(Offices)
       /\ Len(calls') = Len(calls) + 1
       /\ \A i \in DOMAIN calls : i \in DOMAIN calls' /\ calls'[i] = calls[i]
  BY <1>1, <1>2
<1> QED
  BY <1>5, <1>8, <1>9, <1>10, <1>11, <1>12

\* A booking changes the candidate of its slot.
LEMMA BookRows ==
  ASSUME TypeInv, NEW r \in Requests, BookCommit(r)
  PROVE  /\ req[r] \in Booking
         /\ req[r].slot \in DOMAIN slots
         /\ DOMAIN slots' = DOMAIN slots
         /\ \A id \in DOMAIN slots :
              /\ slots'[id] \in Rows
              /\ slots'[id].end = slots[id].end
              /\ slots'[id].sent = slots[id].sent
              /\ slots'[id].candidate =
                   IF id = req[r].slot THEN req[r].candidate ELSE slots[id].candidate
<1>1. req[r] \in Booking /\ req[r].slot \in DOMAIN slots
  BY StageType DEF BookCommit, TypeInv, Targets
<1>2. \A id \in DOMAIN slots : slots[id] \in Rows
  BY DEF TypeInv, TypeOK
<1>3. slots' = [slots EXCEPT ![req[r].slot].candidate = req[r].candidate]
  BY DEF BookCommit
<1> QED
  BY <1>1, <1>2, <1>3 DEF Rows, Booking

\* A run of the reminders adds to the sent-at columns.
LEMMA RemindRows ==
  ASSUME TypeInv, NEW r \in Requests, RemindCommit(r)
  PROVE  /\ req[r] \in Reminding
         /\ DOMAIN slots' = DOMAIN slots
         /\ \A id \in DOMAIN slots :
              /\ slots'[id] \in Rows
              /\ slots'[id].end = slots[id].end
              /\ slots'[id].candidate = slots[id].candidate
              /\ slots'[id].sent = slots[id].sent \union MarkedFor(r, id)
<1>1. req[r] \in Reminding
  BY StageType DEF RemindCommit, TypeInv
<1>2. \A id \in DOMAIN slots : slots[id] \in Rows
  BY DEF TypeInv, TypeOK
<1>3. slots' = [id \in DOMAIN slots |->
                  [slots[id] EXCEPT !.sent = @ \union MarkedFor(r, id)]]
  BY DEF RemindCommit
<1>4. \A id : MarkedFor(r, id) \subseteq Windows
  BY <1>1 DEF MarkedFor, Reminding, Reminders
<1> QED
  BY <1>1, <1>2, <1>3, <1>4 DEF Rows

\* The other actions leave the slots and the calls alone.
LEMMA SlotsUnchanged ==
  ASSUME [Next]_vars,
         \A r \in Requests : ~ (GenerateCommit(r) \/ BookCommit(r) \/ RemindCommit(r))
  PROVE  UNCHANGED <<calls, slots>>
<1>1. CASE UNCHANGED vars
  BY <1>1 DEF vars
<1>2. CASE Tick
  BY <1>2 DEF Tick
<1>3. ASSUME NEW r \in Requests, Serve(r)
      PROVE  UNCHANGED <<calls, slots>>
  BY <1>3 DEF Serve, GenerateLoad, BookLoad, BookMail, RemindLoad, RemindSend, Rollback
<1> QED
  BY <1>1, <1>2, <1>3 DEF Next

\* No step loses a slot, frees a booked one or forgets a call.
LEMMA SlotsStep ==
  ASSUME TypeInv, [Next]_vars
  PROVE  /\ calls' \in Seq(Offices)
         /\ DOMAIN slots' \subseteq Ids
         /\ \A id \in DOMAIN slots' : slots'[id] \in Rows
         /\ DOMAIN slots \subseteq DOMAIN slots'
         /\ Booked \subseteq Booked'
         /\ Generated'
<1>0. /\ calls \in Seq(Offices)
      /\ DOMAIN slots \subseteq Ids
      /\ \A id \in DOMAIN slots : slots[id] \in Rows
      /\ Generated
  BY DEF TypeInv, TypeOK
<1>1. ASSUME NEW r \in Requests, GenerateCommit(r)
      PROVE  /\ calls' \in Seq(Offices)
             /\ DOMAIN slots' \subseteq Ids
             /\ \A id \in DOMAIN slots' : slots'[id] \in Rows
             /\ DOMAIN slots \subseteq DOMAIN slots'
             /\ Booked \subseteq Booked'
             /\ Generated'
  <2>1. DOMAIN calls = 1 .. Len(calls) /\ DOMAIN calls' = 1 .. Len(calls')
        /\ Len(calls) \in Nat
    BY <1>0, <1>1, CallRows
  <2>2. Generated'
    <3>1. ASSUME NEW id \in DOMAIN slots
          PROVE  /\ id.call \in DOMAIN calls'
                 /\ calls'[id.call] = calls[id.call]
                 /\ slots'[id] = slots[id]
      BY <1>0, <1>1, CallRows DEF Generated
    <3>2. ASSUME NEW id \in DOMAIN slots' \ DOMAIN slots
          PROVE  id.call \in DOMAIN calls'
      <4>1. id.call = Len(calls) + 1
        BY <1>1, <3>2, CallRows
      <4>2. Len(calls') = Len(calls) + 1
        BY <1>1, CallRows
      <4> QED
        BY <2>1, <4>1, <4>2
    <3>3. ASSUME NEW id \in DOMAIN slots
          PROVE  [start |-> id.start, end |-> slots'[id].end]
                   \in GenerateSlots(calls'[id.call].rule, calls'[id.call].zone)
      BY <1>0, <3>1 DEF Generated
    <3>4. ASSUME NEW id \in DOMAIN slots' \ DOMAIN slots
          PROVE  [start |-> id.start, end |-> slots'[id].end]
                   \in GenerateSlots(calls'[id.call].rule, calls'[id.call].zone)
      BY <1>1, CallRows
    <3> QED
      BY <3>1, <3>2, <3>3, <3>4 DEF Generated
  <2>3. Booked \subseteq Booked'
    BY <1>1, CallRows DEF Booked, Open
  <2> QED
    BY <1>0, <1>1, <2>2, <2>3, CallRows
<1>2. ASSUME NEW r \in Requests, BookCommit(r)
      PROVE  /\ calls' = calls
             /\ DOMAIN slots' = DOMAIN slots
             /\ \A id \in DOMAIN slots' : slots'[id] \in Rows
             /\ Booked \subseteq Booked'
             /\ Generated'
  <2>1. calls' = calls
    BY <1>2 DEF BookCommit
  <2>2. Generated'
    BY <1>0, <1>2, <2>1, BookRows DEF Generated
  <2>3. req[r].candidate # NoOne
    BY <1>2, BookRows, NoOneAssumption DEF Booking
  <2> QED
    BY <1>2, <2>1, <2>2, <2>3, BookRows DEF Booked, Open
<1>3. ASSUME NEW r \in Requests, RemindCommit(r)
      PROVE  /\ calls' = calls
             /\ DOMAIN slots' = DOMAIN slots
             /\ \A id \in DOMAIN slots' : slots'[id] \in Rows
             /\ Booked \subseteq Booked'
             /\ Generated'
  <2>1. calls' = calls
    BY <1>3 DEF RemindCommit
  <2>2. Generated'
    BY <1>0, <1>3, <2>1, RemindRows DEF Generated
  <2> QED
    BY <1>3, <2>1, <2>2, RemindRows DEF Booked, Open
<1>4. ASSUME UNCHANGED <<calls, slots>>
      PROVE  Booked \subseteq Booked' /\ Generated'
  BY <1>0, <1>4 DEF Booked, Open, Generated
<1> QED
  BY <1>0, <1>1, <1>2, <1>3, <1>4, SlotsUnchanged

\* The e-mail a step sends, and what it records as gone wrong.
LEMMA HistoryStep ==
  ASSUME TypeInv, [Next]_vars
  PROVE  /\ clock' \in Clocks
         /\ mail' \subseteq Mails
         /\ again' \subseteq Ids \X Windows
         /\ excuse' \in [crossed : BOOLEAN, contested : SUBSET Ids,
                          unsettled : SUBSET Mails]
         /\ mail \subseteq mail'
         /\ excuse.crossed => excuse'.crossed
         /\ excuse.contested \subseteq excuse'.contested
         /\ excuse.unsettled \subseteq excuse'.unsettled
<1> DEFINE Good ==
      /\ clock' \in Clocks
      /\ mail' \subseteq Mails
      /\ again' \subseteq Ids \X Windows
      /\ excuse' \in [crossed : BOOLEAN, contested : SUBSET Ids,
                       unsettled : SUBSET Mails]
      /\ mail \subseteq mail'
      /\ excuse.crossed => excuse'.crossed
      /\ excuse.contested \subseteq excuse'.contested
      /\ excuse.unsettled \subseteq excuse'.unsettled
<1>0. /\ clock \in Clocks
      /\ mail \subseteq Mails
      /\ again \subseteq Ids \X Windows
      /\ excuse \in [crossed : BOOLEAN, contested : SUBSET Ids,
                      unsettled : SUBSET Mails]
  BY DEF TypeInv, TypeOK
<1>1. ASSUME UNCHANGED <<mail, again, excuse>>, clock' \in Clocks PROVE Good
  BY <1>0, <1>1
<1>2. ASSUME NEW r \in Requests, GenerateLoad(r) PROVE Good
  <2> DEFINE flag == excuse.crossed \/ \E q \in Requests \ {r} : At(q, "generate")
  <2>1. flag \in BOOLEAN /\ (excuse.crossed => flag)
    OBVIOUS
  <2>2. excuse' = [excuse EXCEPT !.crossed = flag]
        /\ UNCHANGED <<clock, mail, again>>
    BY <1>2 DEF GenerateLoad
  <2> HIDE DEF flag
  <2>3. QED
    BY <1>0, <2>1, <2>2
<1>3. ASSUME NEW r \in Requests, BookLoad(r) PROVE Good
  <2>1. PICK id \in Open :
          excuse' = [excuse EXCEPT !.contested =
            IF \E q \in Requests \ {r} : At(q, "book") /\ req[q].slot = id
              THEN @ \union {id} ELSE @]
    BY <1>3 DEF BookLoad
  <2>2. id \in Ids
    BY DEF Open, TypeInv, TypeOK
  <2>3. UNCHANGED <<clock, mail, again>>
    BY <1>3 DEF BookLoad
  <2>4. QED
    BY <1>0, <2>1, <2>2, <2>3
<1>4. ASSUME NEW r \in Requests, BookMail(r) PROVE Good
  <2>1. req[r] \in Booking
    BY <1>4, StageType DEF BookMail, TypeInv
  <2>2. Confirmation(req[r].slot, req[r].candidate) \in Mails
    BY <2>1 DEF Booking, Confirmation, Mails
  <2>3. QED
    BY <1>0, <1>4, <2>2 DEF BookMail, Send
<1>5. ASSUME NEW r \in Requests, RemindLoad(r) PROVE Good
  <2>1. Due \subseteq Mails
    <3>1. Booked \subseteq Ids
      BY DEF Booked, TypeInv, TypeOK
    <3>2. QED
      BY <3>1 DEF Due, Mails, Reminders
  <2>2. QED
    BY <1>0, <1>5, <2>1 DEF RemindLoad
<1>6. ASSUME NEW r \in Requests, RemindSend(r) PROVE Good
  <2>1. req[r].due \subseteq Reminders
    BY <1>6, StageType DEF RemindSend, TypeInv, Reminding
  <2>2. \A m \in req[r].due : m \in Mails /\ <<m.slot, m.about>> \in Ids \X Windows
    BY <2>1 DEF Mails, Reminders
  <2>3. QED
    BY <1>0, <1>6, <2>2 DEF RemindSend, Send
<1>7. ASSUME NEW r \in Requests, Rollback(r) PROVE Good
  BY <1>0, <1>7, StageType DEF Rollback, TypeInv
<1>8. ASSUME NEW r \in Requests, GenerateCommit(r) \/ BookCommit(r) \/ RemindCommit(r)
      PROVE  UNCHANGED <<clock, mail, again, excuse>>
  BY <1>8 DEF GenerateCommit, BookCommit, RemindCommit
<1>9. ASSUME Tick PROVE clock' \in Clocks /\ UNCHANGED <<mail, again, excuse>>
  BY <1>9 DEF Tick
<1>10. ASSUME UNCHANGED vars PROVE UNCHANGED <<clock, mail, again, excuse>>
  BY <1>10 DEF vars
<1> HIDE DEF Good
<1>11. Good
  BY <1>0, <1>1, <1>2, <1>3, <1>4, <1>5, <1>6, <1>7, <1>8, <1>9, <1>10 DEF Next, Serve
<1> QED
  BY <1>11 DEF Good

\* The requests a step leaves in progress are about slots that exist.
LEMMA RequestStep ==
  ASSUME TypeInv, [Next]_vars
  PROVE  /\ req' \in [Requests -> Generating \union Booking \union Reminding \union {Idle}]
         /\ Targets'
<1> DEFINE All == Generating \union Booking \union Reminding \union {Idle}
           Fits(x) == /\ x.op = "book" => x.slot \in DOMAIN slots
                      /\ x.op = "remind" => \A m \in x.due \union x.marked : m.slot \in Booked
<1>0. req \in [Requests -> All]
  BY DEF TypeInv, TypeOK
<1>1. ASSUME NEW r \in Requests, NEW x \in All, req' = [req EXCEPT ![r] = x], Fits(x)
      PROVE  req' \in [Requests -> All] /\ Targets'
  <2>1. req' \in [Requests -> All]
    BY <1>0, <1>1
  <2>2. ASSUME NEW q \in Requests
        PROVE  Fits(req'[q])
    <3>1. CASE q = r
      BY <1>0, <1>1, <3>1
    <3>2. CASE q # r
      BY <1>0, <1>1, <3>2 DEF TypeInv, Targets, At, Taken
    <3> QED
      BY <3>1, <3>2
  <2> QED
    BY <2>1, <2>2, SlotsStep DEF Targets, At, Taken
<1>2. ASSUME UNCHANGED req PROVE req' \in [Requests -> All] /\ Targets'
  BY <1>0, <1>2, SlotsStep DEF TypeInv, Targets, At, Taken
<1>3. Idle \in All /\ Fits(Idle)
  BY DEF Idle
<1>4. ASSUME NEW r \in Requests, req' = [req EXCEPT ![r] = Idle]
      PROVE  req' \in [Requests -> All] /\ Targets'
  BY <1>1, <1>3, <1>4
<1>5. ASSUME NEW r \in Requests, GenerateLoad(r)
      PROVE  req' \in [Requests -> All] /\ Targets'
  <2>1. PICK office \in Offices :
          req' = [req EXCEPT ![r] =
            [op |-> "generate", office |-> office, existing |-> {id.start : id \in Open}]]
    BY <1>5 DEF GenerateLoad
  <2> DEFINE x == [op |-> "generate", office |-> office,
                   existing |-> {id.start : id \in Open}]
  <2>2. \A id \in Open : id.start \in Int
    BY DEF Open, TypeInv, TypeOK, Ids
  <2>3. x \in Generating /\ Fits(x)
    BY <2>2 DEF Generating
  <2> HIDE DEF Fits
  <2> QED
    BY <1>1, <2>1, <2>3
<1>6. ASSUME NEW r \in Requests, BookLoad(r)
      PROVE  req' \in [Requests -> All] /\ Targets'
  <2>1. PICK id \in Open : \E candidate \in Candidates :
          req' = [req EXCEPT ![r] =
            [op |-> "book", slot |-> id, candidate |-> candidate, mailed |-> FALSE]]
    BY <1>6 DEF BookLoad
  <2>2. PICK candidate \in Candidates :
          req' = [req EXCEPT ![r] =
            [op |-> "book", slot |-> id, candidate |-> candidate, mailed |-> FALSE]]
    BY <2>1
  <2> DEFINE x == [op |-> "book", slot |-> id, candidate |-> candidate, mailed |-> FALSE]
  <2>3. id \in DOMAIN slots /\ id \in Ids
    BY DEF Open, TypeInv, TypeOK
  <2>4. x \in Booking /\ Fits(x)
    BY <2>3 DEF Booking
  <2> HIDE DEF Fits
  <2> QED
    BY <1>1, <2>2, <2>4
<1>7. ASSUME NEW r \in Requests, BookMail(r)
      PROVE  req' \in [Requests -> All] /\ Targets'
  <2> DEFINE x == [req[r] EXCEPT !.mailed = TRUE]
  <2>1. req[r] \in Booking /\ req[r].slot \in DOMAIN slots
    BY <1>7, StageType DEF BookMail, TypeInv, Targets
  <2>2. x \in Booking /\ x.slot = req[r].slot /\ x.op = "book"
    BY <2>1 DEF Booking
  <2>3. req' = [req EXCEPT ![r] = x]
    BY <1>7, <1>0 DEF BookMail
  <2>4. Fits(x)
    BY <2>1, <2>2
  <2> HIDE DEF Fits, x
  <2> QED
    BY <1>1, <2>2, <2>3, <2>4
<1>8. ASSUME NEW r \in Requests, RemindLoad(r)
      PROVE  req' \in [Requests -> All] /\ Targets'
  <2> DEFINE x == [op |-> "remind", due |-> Due, marked |-> {}]
  <2>1. Booked \subseteq Ids
    BY DEF Booked, TypeInv, TypeOK
  <2>2. Due \subseteq Reminders /\ \A m \in Due : m.slot \in Booked
    BY <2>1 DEF Due, Reminders
  <2>3. x \in Reminding /\ Fits(x)
    BY <2>2 DEF Reminding
  <2>4. req' = [req EXCEPT ![r] = x]
    BY <1>8 DEF RemindLoad
  <2> HIDE DEF Fits, x
  <2> QED
    BY <1>1, <2>3, <2>4
<1>9. ASSUME NEW r \in Requests, RemindSend(r)
      PROVE  req' \in [Requests -> All] /\ Targets'
  <2>1. PICK m \in req[r].due :
          req' = [req EXCEPT ![r].due = @ \ {m}, ![r].marked = @ \union {m}]
    BY <1>9 DEF RemindSend
  <2> DEFINE x == [req[r] EXCEPT !.due = @ \ {m}, !.marked = @ \union {m}]
  <2>2. req[r] \in Reminding /\ At(r, "remind")
    BY <1>9, StageType DEF RemindSend, TypeInv
  <2>3. x \in Reminding /\ x.op = "remind"
        /\ x.due \union x.marked = req[r].due \union req[r].marked
    BY <2>2 DEF Reminding
  <2>4. req' = [req EXCEPT ![r] = x]
    BY <2>1, <1>0
  <2>5. Fits(x)
    BY <2>2, <2>3 DEF TypeInv, Targets, Taken
  <2> HIDE DEF Fits, x
  <2> QED
    BY <1>1, <2>3, <2>4, <2>5
<1>10. ASSUME NEW r \in Requests,
              \/ GenerateCommit(r) \/ BookCommit(r) \/ RemindCommit(r) \/ Rollback(r)
       PROVE  req' = [req EXCEPT ![r] = Idle]
  BY <1>10 DEF GenerateCommit, BookCommit, RemindCommit, Rollback
<1>11. ASSUME Tick \/ UNCHANGED vars PROVE UNCHANGED req
  BY <1>11 DEF Tick, vars
<1> QED
  BY <1>2, <1>4, <1>5, <1>6, <1>7, <1>8, <1>9, <1>10, <1>11 DEF Next, Serve

\* Before the first call there is no slot, no e-mail and no request.
LEMMA TypeInit == Init => TypeInv
<1> SUFFICES ASSUME Init PROVE TypeInv
  OBVIOUS
<1>1. TypeOK
  BY DEF Init, TypeOK, Idle
<1>2. Generated /\ Targets
  BY DEF Init, Generated, Targets, Taken, At, Idle
<1> QED
  BY <1>1, <1>2 DEF TypeInv

\* Every step of Next, and every stutter, keeps the types and what is known
\* of the slots.
LEMMA TypeStep ==
  ASSUME TypeInv, [Next]_vars
  PROVE  TypeInv'
<1>1. TypeOK'
  BY SlotsStep, HistoryStep, RequestStep DEF TypeOK
<1> QED
  BY <1>1, SlotsStep, RequestStep DEF TypeInv

\* Rows, requests and e-mails keep their types (models.py:263-279).
THEOREM TypeCorrect == Spec => []TypeOK
<1>1. TypeInv /\ [Next]_vars => TypeInv'
  BY TypeStep
<1>2. TypeInv => TypeOK
  BY DEF TypeInv
<1> QED
  BY TypeInit, <1>1, <1>2, PTL DEF Spec

\* Slots of one call never overlap, for any rule and any transition, but after
\* a slot that would end at a wall time the clock jumps over.
THEOREM SlotsNeverOverlap == Spec => []SlotsDisjoint
<1>1. TypeInv => SlotsDisjoint
  <2> SUFFICES ASSUME TypeInv, NEW i \in DOMAIN slots
               PROVE  /\ i.start < slots[i].end
                      /\ \A j \in DOMAIN slots : j.call = i.call /\ i.start < j.start =>
                           \/ slots[i].end <= j.start
                           \/ InGap(calls[i.call].zone,
                                    FromUtc(calls[i.call].zone, i.start)
                                      + calls[i.call].rule.duration)
    BY DEF SlotsDisjoint
  <2> DEFINE rule == calls[i.call].rule
             zone == calls[i.call].zone
             s == [start |-> i.start, end |-> slots[i].end]
  <2>1. calls[i.call] \in Offices
    <3>1. i.call \in DOMAIN calls
      BY DEF TypeInv, Generated
    <3>2. calls \in Seq(Offices)
      BY DEF TypeInv, TypeOK
    <3> QED
      BY <3>1, <3>2
  <2>2. rule \in Rules /\ zone \in Zones
    BY <2>1, OfficesAssumption
  <2>3. s \in GenerateSlots(rule, zone)
    BY DEF TypeInv, Generated
  <2>4. \A j \in DOMAIN slots : j.call = i.call =>
          [start |-> j.start, end |-> slots[j].end] \in GenerateSlots(rule, zone)
    BY DEF TypeInv, Generated
  <2>5. s.start = i.start /\ s.end = slots[i].end
    OBVIOUS
  <2> HIDE DEF rule, zone, s
  <2>6. s.start < s.end
        /\ \A t \in GenerateSlots(rule, zone) : s.start < t.start =>
             \/ s.end <= t.start
             \/ InGap(zone, FromUtc(zone, s.start) + rule.duration)
    BY <2>2, <2>3, SlotsApart
  <2>7. ASSUME NEW j \in DOMAIN slots, j.call = i.call, i.start < j.start
        PROVE  \/ slots[i].end <= j.start
               \/ InGap(zone, FromUtc(zone, i.start) + rule.duration)
    <3> DEFINE t == [start |-> j.start, end |-> slots[j].end]
    <3>1. t \in GenerateSlots(rule, zone) /\ t.start = j.start
      BY <2>4, <2>7
    <3> HIDE DEF t
    <3> QED
      BY <2>5, <2>6, <2>7, <3>1
  <2> QED
    BY <2>5, <2>6, <2>7 DEF rule, zone
<1>2. TypeInv /\ [Next]_vars => TypeInv'
  BY TypeStep
<1> QED
  BY TypeInit, <1>1, <1>2, PTL DEF Spec

-----------------------------------------------------------------------------
(* Who was told what.                                                      *)

\* A step of request r leaves the others alone; what r has taken on and what
\* it has mailed change as follows.
LEMMA Effects ==
  ASSUME TypeInv, NEW r \in Requests, Serve(r)
  PROVE  /\ \A q \in Requests \ {r} : req'[q] = req[q]
         /\ BookLoad(r) => At(r, "book")' /\ ~ req'[r].mailed
         /\ BookMail(r) =>
              /\ At(r, "book")'
              /\ req'[r].slot = req[r].slot
              /\ Mailed(r)' = {Confirmation(req[r].slot, req[r].candidate)}
              /\ mail' = mail \union Mailed(r)'
         /\ RemindLoad(r) => Taken(r)' = Due /\ Mailed(r)' = {} /\ At(r, "remind")'
         /\ RemindSend(r) =>
              /\ At(r, "remind")'
              /\ Taken(r)' = Taken(r)
              /\ req'[r].due \subseteq req[r].due
              /\ \E m \in req[r].due :
                   /\ Mailed(r)' = Mailed(r) \union {m}
                   /\ mail' = mail \union {m}
                   /\ req'[r].due = req[r].due \ {m}
                   /\ again' = IF m \in mail THEN again \union {<<m.slot, m.about>>}
                                             ELSE again
         /\ GenerateLoad(r) => At(r, "generate")'
         /\ GenerateCommit(r) \/ BookCommit(r) \/ RemindCommit(r) \/ Rollback(r) =>
              At(r, "idle")'
         /\ ~ At(r, "remind")' => Taken(r)' = {}
         /\ ~ At(r, "remind")' /\ ~ (At(r, "book")' /\ req'[r].mailed) => Mailed(r)' = {}
<1>0. DOMAIN req = Requests
  BY DEF TypeInv, TypeOK
<1>1. \A q \in Requests \ {r} : req'[q] = req[q]
  BY <1>0 DEF Serve, GenerateLoad, GenerateCommit, BookLoad, BookMail, BookCommit,
              RemindLoad, RemindSend, RemindCommit, Rollback
<1>2. BookLoad(r) => At(r, "book")' /\ ~ req'[r].mailed
  BY <1>0 DEF BookLoad, At
<1>3. ASSUME BookMail(r)
      PROVE  /\ At(r, "book")'
             /\ req'[r].slot = req[r].slot
             /\ Mailed(r)' = {Confirmation(req[r].slot, req[r].candidate)}
             /\ mail' = mail \union Mailed(r)'
  <2>1. req[r] \in Booking
    BY <1>3, StageType DEF BookMail, TypeInv
  <2>2. req'[r] = [req[r] EXCEPT !.mailed = TRUE]
    BY <1>0, <1>3 DEF BookMail
  <2>3. /\ req'[r].op = "book"
        /\ req'[r].slot = req[r].slot
        /\ req'[r].candidate = req[r].candidate
        /\ req'[r].mailed
    BY <2>1, <2>2 DEF Booking
  <2> QED
    BY <1>3, <2>3 DEF BookMail, Send, Mailed, At
<1>4. RemindLoad(r) => Taken(r)' = Due /\ Mailed(r)' = {} /\ At(r, "remind")'
  BY <1>0 DEF RemindLoad, Taken, Mailed, At
<1>5. ASSUME RemindSend(r)
      PROVE  /\ At(r, "remind")'
             /\ Taken(r)' = Taken(r)
             /\ req'[r].due \subseteq req[r].due
             /\ \E m \in req[r].due :
                  /\ Mailed(r)' = Mailed(r) \union {m}
                  /\ mail' = mail \union {m}
                  /\ req'[r].due = req[r].due \ {m}
                  /\ again' = IF m \in mail THEN again \union {<<m.slot, m.about>>}
                                            ELSE again
  <2>1. req[r] \in Reminding /\ At(r, "remind")
    BY <1>5, StageType DEF RemindSend, TypeInv
  <2>2. PICK m \in req[r].due :
          /\ req' = [req EXCEPT ![r].due = @ \ {m}, ![r].marked = @ \union {m}]
          /\ mail' = mail \union {m}
          /\ again' = IF m \in mail THEN again \union {<<m.slot, m.about>>} ELSE again
    BY <1>5 DEF RemindSend, Send
  <2>3. /\ req'[r].op = "remind"
        /\ req'[r].due = req[r].due \ {m}
        /\ req'[r].marked = req[r].marked \union {m}
    BY <1>0, <2>1, <2>2 DEF Reminding
  <2>4. /\ At(r, "remind")'
        /\ Taken(r)' = Taken(r)
        /\ Mailed(r)' = Mailed(r) \union {m}
    BY <2>1, <2>3 DEF Taken, Mailed, At
  <2> QED
    BY <2>2, <2>3, <2>4
<1>6. GenerateLoad(r) => At(r, "generate")'
  BY <1>0 DEF GenerateLoad, At
<1>7. GenerateCommit(r) \/ BookCommit(r) \/ RemindCommit(r) \/ Rollback(r) => At(r, "idle")'
  BY <1>0 DEF GenerateCommit, BookCommit, RemindCommit, Rollback, At, Idle
<1>8. /\ ~ At(r, "remind")' => Taken(r)' = {}
      /\ ~ At(r, "remind")' /\ ~ (At(r, "book")' /\ req'[r].mailed) => Mailed(r)' = {}
  BY DEF Taken, Mailed
<1> QED
  BY <1>1, <1>2, <1>3, <1>4, <1>5, <1>6, <1>7, <1>8

\* What a request has mailed is in the mail, and who holds a slot was told.
Told ==
  /\ \A r \in Requests : Mailed(r) \subseteq mail
  /\ BookedIsConfirmed

\* Every step keeps it that a holder, and the candidate of a booking whose
\* e-mail has left, were told.
LEMMA ToldStep ==
  ASSUME TypeInv, Told, [Next]_vars
  PROVE  Told'
<1>0. mail \subseteq mail'
  BY HistoryStep
<1>1. ASSUME NEW q \in Requests, req'[q] = req[q]
      PROVE  Mailed(q)' \subseteq mail'
  BY <1>0, <1>1 DEF Told, Mailed, At
<1>2. ASSUME NEW r \in Requests, Serve(r)
      PROVE  Mailed(r)' \subseteq mail'
  <2>1. CASE BookMail(r)
    BY <1>2, <2>1, Effects
  <2>2. CASE RemindSend(r)
    BY <1>2, <2>2, Effects DEF Told
  <2>3. CASE RemindLoad(r)
    BY <1>2, <2>3, Effects
  <2>4. CASE BookLoad(r)
    <3>1. At(r, "book")' /\ ~ req'[r].mailed
      BY <1>2, <2>4, Effects
    <3> QED
      BY <3>1 DEF Mailed, At
  <2>5. CASE GenerateLoad(r)
    <3>1. At(r, "generate")'
      BY <1>2, <2>5, Effects
    <3> QED
      BY <3>1 DEF Mailed, At
  <2>6. CASE GenerateCommit(r) \/ BookCommit(r) \/ RemindCommit(r) \/ Rollback(r)
    <3>1. At(r, "idle")'
      BY <1>2, <2>6, Effects
    <3> QED
      BY <3>1 DEF Mailed, At
  <2> QED
    BY <1>2, <2>1, <2>2, <2>3, <2>4, <2>5, <2>6 DEF Serve
<1>3. \A r \in Requests : Mailed(r)' \subseteq mail'
  <2>1. ASSUME NEW r \in Requests, Serve(r), NEW q \in Requests
        PROVE  Mailed(q)' \subseteq mail'
    BY <1>1, <1>2, <2>1, Effects
  <2>2. ASSUME Tick \/ UNCHANGED vars PROVE UNCHANGED req
    BY <2>2 DEF Tick, vars
  <2> QED
    BY <1>1, <2>1, <2>2 DEF Next
<1>4. BookedIsConfirmed'
  <2>1. ASSUME NEW r \in Requests, BookCommit(r)
        PROVE  BookedIsConfirmed'
    <3>1. Confirmation(req[r].slot, req[r].candidate) \in mail
      BY <2>1 DEF Told, Mailed, BookCommit, At
    <3>2. \A id \in DOMAIN slots' :
            /\ id \in DOMAIN slots
            /\ slots'[id].candidate =
                 IF id = req[r].slot THEN req[r].candidate ELSE slots[id].candidate
      BY <2>1, BookRows
    <3> QED
      BY <1>0, <3>1, <3>2 DEF Told, BookedIsConfirmed, Booked, Open
  <2>2. ASSUME NEW r \in Requests, GenerateCommit(r)
        PROVE  BookedIsConfirmed'
    <3>1. \A id \in Booked' : id \in Booked /\ slots'[id] = slots[id]
      BY <2>2, CallRows DEF Booked, Open
    <3> QED
      BY <1>0, <3>1 DEF Told, BookedIsConfirmed
  <2>3. ASSUME NEW r \in Requests, RemindCommit(r)
        PROVE  BookedIsConfirmed'
    <3>1. \A id \in Booked' : id \in Booked /\ slots'[id].candidate = slots[id].candidate
      BY <2>3, RemindRows DEF Booked, Open
    <3> QED
      BY <1>0, <3>1 DEF Told, BookedIsConfirmed
  <2>4. ASSUME UNCHANGED slots PROVE BookedIsConfirmed'
    BY <1>0, <2>4 DEF Told, BookedIsConfirmed, Booked, Open
  <2> QED
    BY <2>1, <2>2, <2>3, <2>4, SlotsUnchanged
<1> QED
  BY <1>3, <1>4 DEF Told

\* There is no slot to hold before the first call.
LEMMA ToldInit == Init => Told
BY DEF Init, Told, Mailed, At, Idle, BookedIsConfirmed, Booked, Open

\* A candidate who holds a slot was sent its confirmation
\* (routers_scheduling.py:164-194).
THEOREM HoldersWereTold == Spec => []BookedIsConfirmed
<1>1. TypeInv /\ Told /\ [Next]_vars => TypeInv' /\ Told'
  BY TypeStep, ToldStep
<1>2. Told => BookedIsConfirmed
  BY DEF Told
<1> QED
  BY TypeInit, ToldInit, <1>1, <1>2, PTL DEF Spec
-----------------------------------------------------------------------------
(* What a step does to a slot, to what was mailed and to what is excused.  *)

\* A slot keeps its candidate unless it is booked, and its sent-at columns.
LEMMA SlotStays ==
  ASSUME TypeInv, [Next]_vars, NEW id \in DOMAIN slots
  PROVE  /\ id \in DOMAIN slots'
         /\ slots[id].sent \subseteq slots'[id].sent
         /\ \/ slots'[id].candidate = slots[id].candidate
            \/ \E r \in Requests : BookCommit(r) /\ req[r].slot = id
<1>1. ASSUME NEW r \in Requests, GenerateCommit(r)
      PROVE  id \in DOMAIN slots' /\ slots'[id] = slots[id]
  BY <1>1, CallRows
<1>2. ASSUME NEW r \in Requests, BookCommit(r)
      PROVE  /\ id \in DOMAIN slots' /\ slots'[id].sent = slots[id].sent
             /\ id # req[r].slot => slots'[id].candidate = slots[id].candidate
  BY <1>2, BookRows
<1>3. ASSUME NEW r \in Requests, RemindCommit(r)
      PROVE  /\ id \in DOMAIN slots' /\ slots[id].sent \subseteq slots'[id].sent
             /\ slots'[id].candidate = slots[id].candidate
  BY <1>3, RemindRows
<1>4. CASE UNCHANGED slots
  BY <1>4
<1>5. QED
  BY <1>1, <1>2, <1>3, <1>4, SlotsUnchanged

\* What a request has mailed it has mailed until it is done.
LEMMA MailedStays ==
  ASSUME TypeInv, [Next]_vars, NEW q \in Requests, NEW m \in Mailed(q)
  PROVE  \/ m \in Mailed(q)'
         \/ BookCommit(q) \/ RemindCommit(q) \/ Rollback(q)
<1>1. CASE req'[q] = req[q]
  BY <1>1 DEF Mailed, At
<1>2. ASSUME Serve(q), ~ (BookCommit(q) \/ RemindCommit(q) \/ Rollback(q))
      PROVE  m \in Mailed(q)'
  <2>1. At(q, "remind") \/ (At(q, "book") /\ req[q].mailed)
    BY DEF Mailed
  <2>2. RemindSend(q)
    BY <1>2, <2>1 DEF Serve, GenerateLoad, GenerateCommit, BookLoad, BookMail, RemindLoad, At
  <2>3. QED
    BY <1>2, <2>2, Effects
<1>3. ASSUME NEW r \in Requests \ {q}, Serve(r)
      PROVE  req'[q] = req[q]
  BY <1>3, Effects
<1>4. CASE Tick \/ UNCHANGED vars
  BY <1>1, <1>4 DEF Tick, vars
<1>5. QED
  BY <1>1, <1>2, <1>3, <1>4 DEF Next

\* Every e-mail that leaves is a confirmation or a reminder that was due.
LEMMA MailedNow ==
  ASSUME TypeInv, [Next]_vars, NEW m \in mail', m \notin mail
  PROVE  \E r \in Requests :
           \/ /\ BookMail(r)
              /\ m = Confirmation(req[r].slot, req[r].candidate)
              /\ m \in Mailed(r)'
           \/ /\ RemindSend(r) /\ m \in req[r].due /\ m \in Taken(r)
              /\ m \in Mailed(r)'
<1>1. PICK r \in Requests : BookMail(r) \/ RemindSend(r)
  BY DEF Next, Tick, vars, Serve, GenerateLoad, GenerateCommit, BookLoad, BookCommit,
         RemindLoad, RemindCommit, Rollback
<1>2. Serve(r)
  BY <1>1 DEF Serve
<1>3. CASE BookMail(r)
  <2>1. /\ Mailed(r)' = {Confirmation(req[r].slot, req[r].candidate)}
        /\ mail' = mail \union Mailed(r)'
    BY <1>2, <1>3, Effects
  <2>2. QED
    BY <1>3, <2>1
<1>4. CASE RemindSend(r)
  <2>1. PICK d \in req[r].due : Mailed(r)' = Mailed(r) \union {d} /\ mail' = mail \union {d}
    BY <1>2, <1>4, Effects
  <2>2. m = d
    BY <2>1
  <2>3. m \in Taken(r)
    BY <1>4, <2>2 DEF RemindSend, Taken
  <2>4. QED
    BY <1>4, <2>1, <2>2, <2>3
<1>5. QED
  BY <1>1, <1>3, <1>4

\* Which mishaps are put on record.
LEMMA Recorded ==
  ASSUME TypeInv, NEW r \in Requests, Serve(r)
  PROVE  /\ GenerateLoad(r) /\ (\E q \in Requests \ {r} : At(q, "generate")) =>
              excuse'.crossed
         /\ BookLoad(r) =>
              /\ req'[r].slot \in Open
              /\ \A q \in Requests \ {r} :
                   At(q, "book") /\ req[q].slot = req'[r].slot =>
                     req[q].slot \in excuse'.contested
         /\ RemindLoad(r) =>
              \A m \in Due : \A q \in Requests \ {r} :
                m \in Taken(q) => m \in excuse'.unsettled
         /\ Rollback(r) => Mailed(r) \subseteq excuse'.unsettled
<1>1. /\ excuse \in [crossed : BOOLEAN, contested : SUBSET Ids, unsettled : SUBSET Mails]
      /\ DOMAIN req = Requests
  BY DEF TypeInv, TypeOK
<1>2. ASSUME GenerateLoad(r), NEW q \in Requests \ {r}, At(q, "generate")
      PROVE  excuse'.crossed
  <2> DEFINE flag == excuse.crossed \/ \E p \in Requests \ {r} : At(p, "generate")
  <2>1. excuse' = [excuse EXCEPT !.crossed = flag]
    BY <1>2 DEF GenerateLoad
  <2>2. flag
    BY <1>2
  <2> HIDE DEF flag
  <2>3. QED
    BY <1>1, <2>1, <2>2
<1>3. ASSUME BookLoad(r)
      PROVE  /\ req'[r].slot \in Open
             /\ \A q \in Requests \ {r} :
                  At(q, "book") /\ req[q].slot = req'[r].slot =>
                    req[q].slot \in excuse'.contested
  <2>0. PICK id \in Open : \E candidate \in Candidates :
          /\ req' = [req EXCEPT ![r] =
               [op |-> "book", slot |-> id, candidate |-> candidate, mailed |-> FALSE]]
          /\ excuse' = [excuse EXCEPT !.contested =
               IF \E q \in Requests \ {r} : At(q, "book") /\ req[q].slot = id
                 THEN @ \union {id} ELSE @]
    BY <1>3 DEF BookLoad
  <2>1. /\ req'[r].slot = id
        /\ excuse' = [excuse EXCEPT !.contested =
             IF \E q \in Requests \ {r} : At(q, "book") /\ req[q].slot = id
               THEN @ \union {id} ELSE @]
    BY <1>1, <2>0
  <2>2. ASSUME NEW q \in Requests \ {r}, At(q, "book"), req[q].slot = id
        PROVE  id \in excuse'.contested
    <3>1. excuse' = [excuse EXCEPT !.contested = @ \union {id}]
      BY <2>1, <2>2
    <3>2. QED
      BY <1>1, <3>1
  <2>3. QED
    BY <2>1, <2>2
<1>4. ASSUME RemindLoad(r), NEW m \in Due, NEW q \in Requests \ {r}, m \in Taken(q)
      PROVE  m \in excuse'.unsettled
  <2> DEFINE twice == {d \in Due : \E p \in Requests \ {r} : d \in Taken(p)}
  <2>1. excuse' = [excuse EXCEPT !.unsettled = @ \union twice]
    BY <1>4 DEF RemindLoad
  <2>2. m \in twice
    BY <1>4
  <2> HIDE DEF twice
  <2>3. QED
    BY <1>1, <2>1, <2>2
<1>5. ASSUME Rollback(r)
      PROVE  Mailed(r) \subseteq excuse'.unsettled
  <2>1. excuse' = [excuse EXCEPT !.unsettled = @ \union Mailed(r)]
    BY <1>5 DEF Rollback
  <2>2. QED
    BY <1>1, <2>1
<1>6. QED
  BY <1>2, <1>3, <1>4, <1>5

\* What a request is about after a step, it was about before, unless it begins.
LEMMA Before ==
  ASSUME TypeInv, [Next]_vars, NEW q \in Requests
  PROVE  /\ At(q, "generate")' =>
              GenerateLoad(q) \/ (At(q, "generate") /\ req'[q] = req[q])
         /\ At(q, "book")' =>
              BookLoad(q) \/ (At(q, "book") /\ req'[q].slot = req[q].slot)
         /\ RemindLoad(q) \/ Taken(q)' \subseteq Taken(q)
<1>1. CASE req'[q] = req[q]
  BY <1>1 DEF At, Taken
<1>2. CASE Serve(q)
  <2>1. CASE BookMail(q)
    <3>1. At(q, "book") /\ At(q, "book")' /\ req'[q].slot = req[q].slot
      BY <1>2, <2>1, Effects DEF BookMail
    <3>2. QED
      BY <3>1 DEF At, Taken
  <2>2. CASE RemindSend(q)
    <3>1. At(q, "remind")' /\ Taken(q)' = Taken(q)
      BY <1>2, <2>2, Effects
    <3>2. QED
      BY <3>1 DEF At
  <2>3. CASE BookLoad(q)
    <3>1. At(q, "book")'
      BY <1>2, <2>3, Effects
    <3>2. QED
      BY <2>3, <3>1 DEF At, Taken
  <2>4. CASE GenerateLoad(q)
    <3>1. At(q, "generate")'
      BY <1>2, <2>4, Effects
    <3>2. QED
      BY <2>4, <3>1 DEF At, Taken
  <2>5. CASE RemindLoad(q)
    <3>1. At(q, "remind")'
      BY <1>2, <2>5, Effects
    <3>2. QED
      BY <2>5, <3>1 DEF At
  <2>6. CASE GenerateCommit(q) \/ BookCommit(q) \/ RemindCommit(q) \/ Rollback(q)
    <3>1. At(q, "idle")'
      BY <1>2, <2>6, Effects
    <3>2. QED
      BY <3>1 DEF At, Taken
  <2>7. QED
    BY <1>2, <2>1, <2>2, <2>3, <2>4, <2>5, <2>6 DEF Serve
<1>3. ASSUME NEW r \in Requests \ {q}, Serve(r)
      PROVE  req'[q] = req[q]
  BY <1>3, Effects
<1>4. CASE Tick \/ UNCHANGED vars
  BY <1>1, <1>4 DEF Tick, vars
<1>5. QED
  BY <1>1, <1>2, <1>3, <1>4 DEF Next

-----------------------------------------------------------------------------
(* No open slot twice.                                                     *)

\* As long as calls did not overlap: there is one at a time, and it has seen
\* every open slot there is.
Untwinned ==
  ~ excuse.crossed =>
    /\ \A q, r \in Requests : At(q, "generate") /\ At(r, "generate") => q = r
    /\ \A r \in Requests : At(r, "generate") =>
         \A id \in Open : id.start \in req[r].existing
    /\ NoTwins

\* Before the first call there is no slot.
LEMMA UntwinnedInit == Init => Untwinned
BY DEF Init, Untwinned, NoTwins, Open, At, Idle

\* A call that is alone adds starts no open slot has.
LEMMA UntwinnedStep ==
  ASSUME TypeInv, Untwinned, [Next]_vars
  PROVE  Untwinned'
<1> SUFFICES ASSUME ~ excuse'.crossed
             PROVE  /\ \A q, r \in Requests : At(q, "generate")' /\ At(r, "generate")' => q = r
                    /\ \A r \in Requests : At(r, "generate")' =>
                         \A id \in Open' : id.start \in req'[r].existing
                    /\ \A i, j \in Open' : i.start = j.start => i = j
  BY DEF Untwinned, NoTwins
<1>1. /\ ~ excuse.crossed
      /\ \A q, r \in Requests : At(q, "generate") /\ At(r, "generate") => q = r
      /\ \A r \in Requests : At(r, "generate") =>
           \A id \in Open : id.start \in req[r].existing
      /\ \A i, j \in Open : i.start = j.start => i = j
  BY HistoryStep DEF Untwinned, NoTwins
<1>2. ASSUME NEW r \in Requests, GenerateLoad(r)
      PROVE  /\ \A q \in Requests \ {r} : ~ At(q, "generate")'
             /\ Open' = Open /\ req'[r].existing = {id.start : id \in Open}
  <2>1. Serve(r)
    BY <1>2 DEF Serve
  <2>2. \A q \in Requests \ {r} : ~ At(q, "generate")
    BY <1>2, <2>1, Recorded
  <2>3. \A q \in Requests \ {r} : ~ At(q, "generate")'
    BY <2>1, <2>2, Effects DEF At
  <2>4. Open' = Open /\ req'[r].existing = {id.start : id \in Open}
    BY <1>2 DEF GenerateLoad, Open, TypeInv, TypeOK
  <2>5. QED
    BY <2>3, <2>4
<1>3. ASSUME NEW r \in Requests, GenerateCommit(r)
      PROVE  /\ \A q \in Requests : ~ At(q, "generate")'
             /\ \A i, j \in Open' : i.start = j.start => i = j
  <2>1. Serve(r) /\ At(r, "generate")
    BY <1>3 DEF Serve, GenerateCommit
  <2>2. At(r, "idle")' /\ \A q \in Requests \ {r} : req'[q] = req[q]
    BY <1>3, <2>1, Effects
  <2>3. \A q \in Requests : ~ At(q, "generate")'
    BY <1>1, <2>1, <2>2 DEF At
  <2>4. \A id \in Open' :
          \/ id \in Open
          \/ id \in Ids /\ id.call = Len(calls) + 1 /\ id.start \notin req[r].existing
    BY <1>3, CallRows DEF Open
  <2>5. \A id \in Open : id.start \in req[r].existing
    BY <1>1, <2>1
  <2>6. \A i, j \in Ids : i.call = j.call /\ i.start = j.start => i = j
    BY DEF Ids
  <2>7. QED
    BY <1>1, <2>3, <2>4, <2>5, <2>6
<1>4. ASSUME \A r \in Requests : ~ GenerateCommit(r)
      PROVE  Open' \subseteq Open
  <2>1. ASSUME NEW r \in Requests, BookCommit(r)
        PROVE  Open' \subseteq Open
    <3>1. req[r].candidate # NoOne
      BY <2>1, BookRows, NoOneAssumption DEF Booking
    <3>2. QED
      BY <2>1, <3>1, BookRows DEF Open
  <2>2. ASSUME NEW r \in Requests, RemindCommit(r)
        PROVE  Open' \subseteq Open
    BY <2>2, RemindRows DEF Open
  <2>3. CASE UNCHANGED slots
    BY <2>3 DEF Open
  <2>4. QED
    BY <1>4, <2>1, <2>2, <2>3, SlotsUnchanged
<1>5. CASE \E r \in Requests : GenerateLoad(r)
  BY <1>1, <1>2, <1>5
<1>6. CASE \E r \in Requests : GenerateCommit(r)
  BY <1>3, <1>6
<1>7. CASE ~ \E r \in Requests : GenerateLoad(r) \/ GenerateCommit(r)
  <2>1. Open' \subseteq Open
    BY <1>4, <1>7
  <2>2. \A q \in Requests : At(q, "generate")' => At(q, "generate") /\ req'[q] = req[q]
    BY <1>7, Before
  <2>3. QED
    BY <1>1, <2>1, <2>2
<1>8. QED
  BY <1>5, <1>6, <1>7

\* Generating again does not duplicate a slot nobody has booked, unless two
\* calls overlapped, for any rules and zones (routers_scheduling.py:78-104).
THEOREM OpenSlotsDiffer == Spec => []NoTwins
<1>1. TypeInv /\ Untwinned /\ [Next]_vars => TypeInv' /\ Untwinned'
  BY TypeStep, UntwinnedStep
<1>2. Untwinned => NoTwins
  BY DEF Untwinned, NoTwins
<1>3. QED
  BY TypeInit, UntwinnedInit, <1>1, <1>2, PTL DEF Spec

-----------------------------------------------------------------------------
(* Who was told that a slot is theirs holds it.                            *)

\* A slot that is being booked is open, and booked by one request, unless two
\* bookings of it overlapped; every e-mail is about a slot.
Holding ==
  /\ \A q, r \in Requests :
       At(q, "book") /\ At(r, "book") /\ req[q].slot = req[r].slot =>
         q = r \/ req[q].slot \in excuse.contested
  /\ \A r \in Requests : At(r, "book") => req[r].slot \in Open \union excuse.contested
  /\ \A m \in mail : m.slot \in DOMAIN slots
  /\ ConfirmedHolds

\* Nobody has been told anything.
LEMMA HoldingInit == Init => Holding
BY DEF Init, Holding, ConfirmedHolds, At, Idle

\* Bookings stay apart.
LEMMA BookingsApart ==
  ASSUME TypeInv, Holding, [Next]_vars
  PROVE  /\ \A q, r \in Requests :
              At(q, "book")' /\ At(r, "book")' /\ req'[q].slot = req'[r].slot =>
                q = r \/ req'[q].slot \in excuse'.contested
         /\ \A r \in Requests :
              At(r, "book")' => req'[r].slot \in Open' \union excuse'.contested
<1>0. excuse.contested \subseteq excuse'.contested
  BY HistoryStep
<1>1. ASSUME NEW q \in Requests, NEW r \in Requests, q # r, BookLoad(q),
             At(r, "book")', req'[q].slot = req'[r].slot
      PROVE  req'[q].slot \in excuse'.contested
  <2>1. Serve(q)
    BY <1>1 DEF Serve
  <2>2. req'[r] = req[r]
    BY <1>1, <2>1, Effects
  <2>3. At(r, "book") /\ req[r].slot = req'[q].slot
    BY <1>1, <2>2 DEF At
  <2>4. QED
    BY <1>1, <2>1, <2>3, Recorded
<1>2. ASSUME NEW q \in Requests, NEW r \in Requests, q # r,
             At(q, "book")', At(r, "book")', req'[q].slot = req'[r].slot
      PROVE  req'[q].slot \in excuse'.contested
  <2>1. CASE BookLoad(q) \/ BookLoad(r)
    BY <1>1, <1>2, <2>1
  <2>2. CASE ~ BookLoad(q) /\ ~ BookLoad(r)
    <3>1. /\ At(q, "book") /\ req'[q].slot = req[q].slot
          /\ At(r, "book") /\ req'[r].slot = req[r].slot
      BY <1>2, <2>2, Before
    <3>2. QED
      BY <1>0, <1>2, <3>1 DEF Holding
  <2>3. QED
    BY <2>1, <2>2
<1>3. ASSUME NEW r \in Requests, At(r, "book")'
      PROVE  req'[r].slot \in Open' \union excuse'.contested
  <2>1. CASE BookLoad(r)
    <3>1. Serve(r) /\ slots' = slots
      BY <2>1 DEF Serve, BookLoad
    <3>2. req'[r].slot \in Open
      BY <2>1, <3>1, Recorded
    <3>3. QED
      BY <3>1, <3>2 DEF Open
  <2>2. CASE ~ BookLoad(r)
    <3>1. At(r, "book") /\ req'[r].slot = req[r].slot
      BY <1>3, <2>2, Before
    <3> DEFINE id == req[r].slot
    <3>2. id \in Open \union excuse.contested
      BY <3>1 DEF Holding
    <3>3. ASSUME id \in Open, id \notin Open' PROVE id \in excuse.contested
      <4>1. id \in DOMAIN slots /\ slots[id].candidate = NoOne
        BY <3>3 DEF Open
      <4>2. id \in DOMAIN slots' /\ slots'[id].candidate # NoOne
        BY <3>3, <4>1, SlotStays DEF Open
      <4>3. PICK q \in Requests : BookCommit(q) /\ req[q].slot = id
        BY <4>1, <4>2, SlotStays
      <4>4. Serve(q) /\ At(q, "book")
        BY <4>3 DEF Serve, BookCommit
      <4>5. At(q, "idle")'
        BY <4>3, <4>4, Effects
      <4>6. q # r
        BY <1>3, <4>5 DEF At
      <4>7. QED
        BY <3>1, <4>3, <4>4, <4>6 DEF Holding
    <3>4. QED
      BY <1>0, <3>1, <3>2, <3>3
  <2>3. QED
    BY <2>1, <2>2
<1>4. QED
  BY <1>2, <1>3

\* Every e-mail is about a slot.
LEMMA MailSlots ==
  ASSUME TypeInv, Holding, [Next]_vars
  PROVE  \A m \in mail' : m.slot \in DOMAIN slots'
<1> TAKE m \in mail'
<1>1. CASE m \in mail
  BY <1>1, SlotsStep DEF Holding
<1>2. CASE m \notin mail
  <2>1. PICK r \in Requests :
          \/ BookMail(r) /\ m = Confirmation(req[r].slot, req[r].candidate)
          \/ m \in Taken(r)
    BY <1>2, MailedNow
  <2>2. m.slot \in DOMAIN slots
    <3>1. CASE BookMail(r) /\ m = Confirmation(req[r].slot, req[r].candidate)
      BY <3>1 DEF TypeInv, Targets, BookMail, Confirmation
    <3>2. CASE m \in Taken(r)
      BY <3>2 DEF TypeInv, Targets, Booked
    <3>3. QED
      BY <2>1, <3>1, <3>2
  <2>3. QED
    BY <2>2, SlotsStep
<1>3. QED
  BY <1>1, <1>2

\* A confirmation holds from the moment it leaves.
LEMMA HoldingStep ==
  ASSUME TypeInv, Holding, [Next]_vars
  PROVE  Holding'
<1>0. /\ excuse.contested \subseteq excuse'.contested
      /\ excuse.unsettled \subseteq excuse'.unsettled
  BY HistoryStep
<1>1. ASSUME NEW m \in mail', m.about = "booked"
      PROVE  \/ slots'[m.slot].candidate = m.to
             \/ \E r \in Requests : m \in Mailed(r)'
             \/ m \in excuse'.unsettled
             \/ m.slot \in excuse'.contested
  <2>1. CASE m \notin mail
    <3>1. \E r \in Requests : m \in Mailed(r)'
      BY <2>1, MailedNow
    <3>2. QED
      BY <3>1
  <2>2. ASSUME m \in mail, slots[m.slot].candidate = m.to
        PROVE  slots'[m.slot].candidate = m.to \/ m.slot \in excuse.contested
    <3>1. m.slot \in DOMAIN slots /\ m.to # NoOne
      <4>1. m \in Mails
        BY <2>2 DEF TypeInv, TypeOK
      <4>2. QED
        BY <2>2, <4>1, NoOneAssumption DEF Holding, Mails, Reminders
    <3>2. CASE \E r \in Requests : BookCommit(r) /\ req[r].slot = m.slot
      <4>1. PICK r \in Requests : BookCommit(r) /\ req[r].slot = m.slot
        BY <3>2
      <4>2. At(r, "book") /\ m.slot \notin Open
        BY <2>2, <3>1, <4>1 DEF BookCommit, Open
      <4>3. QED
        BY <4>1, <4>2 DEF Holding
    <3>3. CASE ~ \E r \in Requests : BookCommit(r) /\ req[r].slot = m.slot
      BY <2>2, <3>1, <3>3, SlotStays
    <3>4. QED
      BY <3>2, <3>3
  <2>3. ASSUME m \in mail, NEW r \in Requests, m \in Mailed(r)
        PROVE  \/ slots'[m.slot].candidate = m.to
               \/ m \in Mailed(r)' \/ m \in excuse'.unsettled
    <3>1. CASE BookCommit(r)
      <4>1. At(r, "book") /\ m = Confirmation(req[r].slot, req[r].candidate)
        BY <2>3, <3>1 DEF BookCommit, Mailed, At
      <4>2. req[r].slot \in DOMAIN slots
            /\ slots'[req[r].slot].candidate = req[r].candidate
        BY <3>1, BookRows
      <4>3. QED
        BY <4>1, <4>2 DEF Confirmation
    <3>2. CASE RemindCommit(r)
      <4>1. At(r, "remind") /\ req[r] \in Reminding
        BY <3>2, RemindRows DEF RemindCommit
      <4>2. m \in Reminders
        BY <2>3, <4>1 DEF Mailed, Reminding
      <4>3. QED
        BY <1>1, <4>2 DEF Reminders, Windows
    <3>3. CASE Rollback(r)
      <4>1. Serve(r)
        BY <3>3 DEF Serve
      <4>2. QED
        BY <2>3, <3>3, <4>1, Recorded
    <3>4. CASE m \in Mailed(r)'
      BY <3>4
    <3>5. QED
      BY <2>3, <3>1, <3>2, <3>3, <3>4, MailedStays
  <2>4. CASE m \in mail
    <3>1. \/ slots[m.slot].candidate = m.to
          \/ \E r \in Requests : m \in Mailed(r)
          \/ m \in excuse.unsettled
          \/ m.slot \in excuse.contested
      BY <1>1, <2>4 DEF Holding, ConfirmedHolds
    <3>2. QED
      BY <1>0, <2>2, <2>3, <2>4, <3>1
  <2>5. QED
    BY <2>1, <2>4
<1>2. ConfirmedHolds'
  BY <1>1 DEF ConfirmedHolds
<1>3. QED
  BY <1>2, BookingsApart, MailSlots DEF Holding

\* A candidate who was told that a slot is theirs holds it, or its booking is
\* still to be committed, unless it was rolled back after the e-mail had left
\* or two bookings of the slot overlapped (routers_scheduling.py:161-194).
THEOREM WhoWasToldHolds == Spec => []ConfirmedHolds
<1>1. TypeInv /\ Holding /\ [Next]_vars => TypeInv' /\ Holding'
  BY TypeStep, HoldingStep
<1>2. Holding => ConfirmedHolds
  BY DEF Holding
<1>3. QED
  BY TypeInit, HoldingInit, <1>1, <1>2, PTL DEF Spec
-----------------------------------------------------------------------------
(* What the reminders say and what is recorded of them agree.              *)

\* A booked slot keeps its candidate, unless two bookings of it overlapped.
LEMMA HolderStays ==
  ASSUME TypeInv, Holding, [Next]_vars, NEW id \in Booked
  PROVE  \/ slots'[id].candidate = slots[id].candidate
         \/ id \in excuse.contested
<1>1. id \in DOMAIN slots /\ id \notin Open
  BY DEF Booked
<1>2. ASSUME NEW r \in Requests, BookCommit(r), req[r].slot = id
      PROVE  id \in excuse.contested
  BY <1>1, <1>2 DEF Holding, BookCommit
<1>3. QED
  BY <1>1, <1>2, SlotStays

\* A sent-at column is set by the commit of a run that has marked it.
LEMMA SentNow ==
  ASSUME TypeInv, [Next]_vars, NEW id \in DOMAIN slots', NEW window \in slots'[id].sent
  PROVE  /\ id \in DOMAIN slots
         /\ \/ window \in slots[id].sent
            \/ \E r \in Requests :
                 /\ RemindCommit(r)
                 /\ \E m \in req[r].marked : m.slot = id /\ m.about = window
<1>1. ASSUME NEW r \in Requests, GenerateCommit(r)
      PROVE  id \in DOMAIN slots /\ window \in slots[id].sent
  BY <1>1, CallRows
<1>2. ASSUME NEW r \in Requests, BookCommit(r)
      PROVE  id \in DOMAIN slots /\ window \in slots[id].sent
  BY <1>2, BookRows
<1>3. ASSUME NEW r \in Requests, RemindCommit(r)
      PROVE  /\ id \in DOMAIN slots
             /\ \/ window \in slots[id].sent
                \/ \E m \in req[r].marked : m.slot = id /\ m.about = window
  BY <1>3, RemindRows DEF MarkedFor
<1>4. CASE UNCHANGED slots
  BY <1>4
<1>5. QED
  BY <1>1, <1>2, <1>3, <1>4, SlotsUnchanged

\* What a run has yet to send was due when it began.
LEMMA DueBefore ==
  ASSUME TypeInv, [Next]_vars, NEW r \in Requests, At(r, "remind")'
  PROVE  \/ RemindLoad(r) /\ req'[r].due \subseteq Due
         \/ At(r, "remind") /\ req'[r].due \subseteq req[r].due
<1>1. CASE req'[r] = req[r]
  BY <1>1 DEF At
<1>2. CASE Serve(r)
  <2>1. CASE RemindLoad(r)
    <3>1. Taken(r)' = Due
      BY <1>2, <2>1, Effects
    <3>2. QED
      BY <2>1, <3>1 DEF Taken
  <2>2. CASE RemindSend(r)
    <3>1. req'[r].due \subseteq req[r].due
      BY <1>2, <2>2, Effects
    <3>2. QED
      BY <2>2, <3>1 DEF RemindSend
  <2>3. CASE BookLoad(r) \/ BookMail(r)
    <3>1. At(r, "book")'
      BY <1>2, <2>3, Effects
    <3>2. QED
      BY <3>1 DEF At
  <2>4. CASE GenerateLoad(r)
    <3>1. At(r, "generate")'
      BY <1>2, <2>4, Effects
    <3>2. QED
      BY <3>1 DEF At
  <2>5. CASE GenerateCommit(r) \/ BookCommit(r) \/ RemindCommit(r) \/ Rollback(r)
    <3>1. At(r, "idle")'
      BY <1>2, <2>5, Effects
    <3>2. QED
      BY <3>1 DEF At
  <2>6. QED
    BY <1>2, <2>1, <2>2, <2>3, <2>4, <2>5 DEF Serve
<1>3. ASSUME NEW q \in Requests \ {r}, Serve(q)
      PROVE  req'[r] = req[r]
  BY <1>3, Effects
<1>4. CASE Tick \/ UNCHANGED vars
  BY <1>1, <1>4 DEF Tick, vars
<1>5. QED
  BY <1>1, <1>2, <1>3, <1>4 DEF Next

\* Two runs have the same reminder only if that is on record.
Shared ==
  \A q, r \in Requests : q # r => Taken(q) \intersect Taken(r) \subseteq excuse.unsettled

\* A reminder that left is recorded in its column, or will be, or was undone.
OnRecord ==
  \A m \in mail : m.about \in Windows =>
    \/ m.about \in slots[m.slot].sent
    \/ \E r \in Requests : m \in Mailed(r)
    \/ m \in excuse.unsettled

\* What a run has yet to send has not left, unless that is on record.
Unsent ==
  \A r \in Requests : At(r, "remind") => req[r].due \intersect mail \subseteq excuse.unsettled

\* A run writes to who holds the slot.
Addressed ==
  \A r \in Requests : \A m \in Taken(r) :
    m.slot \in excuse.contested \/ m.to = slots[m.slot].candidate

\* Nobody was reminded of an open slot.
OpenUnsent == \A id \in Open : slots[id].sent = {}

Reminded ==
  Shared /\ OnRecord /\ Unsent /\ Addressed /\ OpenUnsent /\ RemindersAgree

RemindInv == TypeInv /\ Told /\ Holding /\ Reminded

\* Nobody has been reminded.
LEMMA RemindedInit == Init => Reminded
BY DEF Init, Reminded, Shared, OnRecord, Unsent, Addressed, OpenUnsent, RemindersAgree,
       RemindedOnce, MarkedWasSent, Taken, At, Idle, Open, Booked

\* A run that finds a reminder in another run puts it on record.
LEMMA SharedStep ==
  ASSUME RemindInv, [Next]_vars
  PROVE  Shared'
<1>1. excuse.unsettled \subseteq excuse'.unsettled
  BY HistoryStep DEF RemindInv
<1>2. ASSUME NEW q \in Requests, NEW r \in Requests, q # r, RemindLoad(q),
             NEW m \in Taken(q)', m \in Taken(r)'
      PROVE  m \in excuse'.unsettled
  <2>1. Serve(q)
    BY <1>2 DEF Serve
  <2>2. req'[r] = req[r] /\ m \in Due
    BY <1>2, <2>1, Effects DEF RemindInv
  <2>3. m \in Taken(r)
    BY <1>2, <2>2 DEF Taken, At
  <2>4. QED
    BY <1>2, <2>1, <2>2, <2>3, Recorded DEF RemindInv
<1>3. ASSUME NEW q \in Requests, NEW r \in Requests, q # r,
             NEW m \in Taken(q)', m \in Taken(r)'
      PROVE  m \in excuse'.unsettled
  <2>1. CASE RemindLoad(q) \/ RemindLoad(r)
    BY <1>2, <1>3, <2>1
  <2>2. CASE ~ RemindLoad(q) /\ ~ RemindLoad(r)
    <3>1. m \in Taken(q) /\ m \in Taken(r)
      BY <1>3, <2>2, Before DEF RemindInv
    <3>2. QED
      BY <1>1, <1>3, <3>1 DEF RemindInv, Reminded, Shared
  <2>3. QED
    BY <2>1, <2>2
<1>4. QED
  BY <1>3 DEF Shared

\* A reminder is on record from the moment it leaves.
LEMMA OnRecordStep ==
  ASSUME RemindInv, [Next]_vars
  PROVE  OnRecord'
<1>1. excuse.unsettled \subseteq excuse'.unsettled
  BY HistoryStep DEF RemindInv
<1>2. SUFFICES ASSUME NEW m \in mail', m.about \in Windows
               PROVE  \/ m.about \in slots'[m.slot].sent
                      \/ \E r \in Requests : m \in Mailed(r)'
                      \/ m \in excuse'.unsettled
  BY DEF OnRecord
<1>3. CASE m \notin mail
  <2>1. \E r \in Requests : m \in Mailed(r)'
    BY <1>3, MailedNow DEF RemindInv
  <2>2. QED
    BY <2>1
<1>4. ASSUME m \in mail, m.about \in slots[m.slot].sent
      PROVE  m.about \in slots'[m.slot].sent
  <2>1. m.slot \in DOMAIN slots
    BY <1>4 DEF RemindInv, Holding
  <2>2. QED
    BY <1>4, <2>1, SlotStays DEF RemindInv
<1>5. ASSUME NEW r \in Requests, m \in Mailed(r)
      PROVE  \/ m.about \in slots'[m.slot].sent
             \/ m \in Mailed(r)'
             \/ m \in excuse'.unsettled
  <2>1. ASSUME BookCommit(r) PROVE FALSE
    <3>1. m = Confirmation(req[r].slot, req[r].candidate)
      BY <1>5, <2>1 DEF BookCommit, Mailed, At
    <3>2. QED
      BY <1>2, <3>1 DEF Confirmation, Windows
  <2>2. ASSUME RemindCommit(r) PROVE m.about \in slots'[m.slot].sent
    <3>1. At(r, "remind") /\ m \in req[r].marked
      BY <1>5, <2>2 DEF RemindCommit, Mailed
    <3>2. m \in Taken(r)
      BY <3>1 DEF Taken
    <3>3. m.slot \in DOMAIN slots
      BY <3>2 DEF RemindInv, TypeInv, Targets, Booked
    <3>4. m.about \in MarkedFor(r, m.slot)
      BY <3>1 DEF MarkedFor
    <3>5. QED
      BY <2>2, <3>3, <3>4, RemindRows DEF RemindInv
  <2>3. ASSUME Rollback(r) PROVE m \in excuse'.unsettled
    <3>1. Serve(r)
      BY <2>3 DEF Serve
    <3>2. QED
      BY <1>5, <2>3, <3>1, Recorded DEF RemindInv
  <2>4. QED
    BY <1>5, <2>1, <2>2, <2>3, MailedStays DEF RemindInv
<1>6. CASE m \in mail
  <2>1. \/ m.about \in slots[m.slot].sent
        \/ \E r \in Requests : m \in Mailed(r)
        \/ m \in excuse.unsettled
    BY <1>2, <1>6 DEF RemindInv, Reminded, OnRecord
  <2>2. QED
    BY <1>1, <1>4, <1>5, <1>6, <2>1
<1>7. QED
  BY <1>3, <1>6

\* What is due has not left: a run looks at the columns, and a reminder
\* that left without its column is on record.
LEMMA UnsentStep ==
  ASSUME RemindInv, [Next]_vars
  PROVE  Unsent'
<1>1. /\ excuse.unsettled \subseteq excuse'.unsettled
      /\ TypeInv /\ TypeOK
  BY HistoryStep DEF RemindInv, TypeInv
<1>2. SUFFICES ASSUME NEW r \in Requests, At(r, "remind")',
                      NEW m \in req'[r].due, m \in mail'
               PROVE  m \in excuse'.unsettled
  BY DEF Unsent
<1>3. CASE RemindLoad(r) /\ req'[r].due \subseteq Due
  <2>1. Serve(r) /\ m \in Due /\ mail' = mail /\ At(r, "idle")
    BY <1>2, <1>3 DEF Serve, RemindLoad
  <2>2. m.about \in Windows /\ m.about \notin slots[m.slot].sent /\ m \in mail
    BY <1>2, <2>1 DEF Due
  <2>3. ASSUME NEW q \in Requests, m \in Mailed(q)
        PROVE  m \in excuse'.unsettled
    <3>1. ~ (At(q, "book") /\ req[q].mailed /\ m = Confirmation(req[q].slot, req[q].candidate))
      BY <2>2 DEF Confirmation, Windows
    <3>2. At(q, "remind") /\ m \in req[q].marked
      BY <2>3, <3>1 DEF Mailed
    <3>3. m \in Taken(q) /\ q # r
      BY <2>1, <3>2 DEF Taken, At
    <3>4. QED
      BY <1>1, <1>3, <2>1, <3>3, Recorded
  <2>4. \/ \E q \in Requests : m \in Mailed(q)
        \/ m \in excuse.unsettled
    BY <2>2 DEF RemindInv, Reminded, OnRecord
  <2>5. QED
    BY <1>1, <2>3, <2>4
<1>4. CASE At(r, "remind") /\ req'[r].due \subseteq req[r].due
  <2>1. m \in req[r].due /\ m \in Taken(r)
    BY <1>2, <1>4 DEF Taken
  <2>2. m.about \in Windows
    BY <1>1, <2>1, StageType DEF Reminders
  <2>3. CASE m \in mail
    BY <1>1, <1>4, <2>1, <2>3 DEF RemindInv, Reminded, Unsent
  <2>4. CASE m \notin mail
    <3>1. PICK q \in Requests : RemindSend(q) /\ m \in Taken(q)
      <4>1. \A q \in Requests : m # Confirmation(req[q].slot, req[q].candidate)
        BY <2>2 DEF Confirmation, Windows
      <4>2. QED
        BY <1>1, <1>2, <2>4, <4>1, MailedNow
    <3>2. Serve(q)
      BY <3>1 DEF Serve
    <3>3. ASSUME q = r PROVE FALSE
      <4>1. PICK d \in req[r].due :
              mail' = mail \union {d} /\ req'[r].due = req[r].due \ {d}
        BY <1>1, <3>1, <3>2, <3>3, Effects
      <4>2. QED
        BY <1>2, <2>4, <4>1
    <3>4. m \in excuse.unsettled
      BY <2>1, <3>1, <3>3 DEF RemindInv, Reminded, Shared
    <3>5. QED
      BY <1>1, <3>4
  <2>5. QED
    BY <2>3, <2>4
<1>5. QED
  BY <1>1, <1>2, <1>3, <1>4, DueBefore

\* The holder of a slot does not change while a run writes to them.
LEMMA AddressedStep ==
  ASSUME RemindInv, [Next]_vars
  PROVE  Addressed'
<1>1. excuse.contested \subseteq excuse'.contested
  BY HistoryStep DEF RemindInv
<1>2. SUFFICES ASSUME NEW r \in Requests, NEW m \in Taken(r)'
               PROVE  m.slot \in excuse'.contested \/ m.to = slots'[m.slot].candidate
  BY DEF Addressed
<1>3. CASE RemindLoad(r)
  <2>1. Serve(r) /\ slots' = slots
    BY <1>3 DEF Serve, RemindLoad
  <2>2. m \in Due
    BY <1>2, <1>3, <2>1, Effects DEF RemindInv
  <2>3. QED
    BY <2>1, <2>2 DEF Due
<1>4. CASE Taken(r)' \subseteq Taken(r)
  <2>1. m.slot \in Booked
    BY <1>2, <1>4 DEF RemindInv, TypeInv, Targets
  <2>2. m.slot \in excuse.contested \/ m.to = slots[m.slot].candidate
    BY <1>2, <1>4 DEF RemindInv, Reminded, Addressed
  <2>3. QED
    BY <1>1, <2>1, <2>2, HolderStays DEF RemindInv
<1>5. QED
  BY <1>3, <1>4, Before DEF RemindInv

\* A slot is booked before it is reminded of, and stays booked.
LEMMA OpenUnsentStep ==
  ASSUME RemindInv, [Next]_vars
  PROVE  OpenUnsent'
<1>1. SUFFICES ASSUME NEW id \in Open', NEW window \in slots'[id].sent
               PROVE  FALSE
  BY DEF OpenUnsent
<1>2. id \in DOMAIN slots' /\ slots'[id].candidate = NoOne
  BY <1>1 DEF Open
<1>3. /\ id \in DOMAIN slots
      /\ \/ window \in slots[id].sent
         \/ \E r \in Requests :
              /\ RemindCommit(r)
              /\ \E m \in req[r].marked : m.slot = id /\ m.about = window
  BY <1>1, <1>2, SentNow DEF RemindInv
<1>4. id \in Open
  <2>1. ASSUME NEW r \in Requests, BookCommit(r), req[r].slot = id
        PROVE  FALSE
    BY <1>2, <2>1, BookRows, NoOneAssumption DEF RemindInv, Booking
  <2>2. slots[id].candidate = NoOne
    BY <1>2, <1>3, <2>1, SlotStays DEF RemindInv
  <2>3. QED
    BY <1>3, <2>2 DEF Open
<1>5. ASSUME NEW r \in Requests, RemindCommit(r), NEW m \in req[r].marked
      PROVE  m.slot # id
  <2>1. m \in Taken(r)
    BY <1>5 DEF RemindCommit, Taken
  <2>2. QED
    BY <1>4, <2>1 DEF RemindInv, TypeInv, Targets, Booked
<1>6. slots[id].sent = {}
  BY <1>4 DEF RemindInv, Reminded, OpenUnsent
<1>7. QED
  BY <1>3, <1>5, <1>6

\* What leaves again had left before, which is on record.
LEMMA RemindedOnceStep ==
  ASSUME RemindInv, [Next]_vars
  PROVE  RemindedOnce'
<1>1. excuse.unsettled \subseteq excuse'.unsettled
  BY HistoryStep DEF RemindInv
<1>2. SUFFICES ASSUME NEW p \in again'
               PROVE  \E m \in excuse'.unsettled : <<m.slot, m.about>> = p
  BY DEF RemindedOnce
<1>3. CASE p \in again
  BY <1>1, <1>3 DEF RemindInv, Reminded, RemindersAgree, RemindedOnce
<1>4. ASSUME NEW r \in Requests, RemindSend(r), p \notin again
      PROVE  \E m \in excuse.unsettled : <<m.slot, m.about>> = p
  <2>1. Serve(r) /\ At(r, "remind")
    BY <1>4 DEF Serve, RemindSend
  <2>2. PICK m \in req[r].due :
          again' = IF m \in mail THEN again \union {<<m.slot, m.about>>} ELSE again
    BY <1>4, <2>1, Effects DEF RemindInv
  <2>3. m \in mail /\ p = <<m.slot, m.about>>
    BY <1>2, <1>4, <2>2
  <2>4. m \in excuse.unsettled
    BY <2>1, <2>3 DEF RemindInv, Reminded, Unsent
  <2>5. QED
    BY <2>3, <2>4
<1>5. CASE \A r \in Requests : ~ RemindSend(r)
  <2>1. again' = again
    BY <1>5 DEF Next, Tick, vars, Serve, GenerateLoad, GenerateCommit, BookLoad, BookMail,
                BookCommit, RemindLoad, RemindCommit, Rollback
  <2>2. QED
    BY <1>2, <1>3, <2>1
<1>6. QED
  BY <1>1, <1>3, <1>4, <1>5

\* A column is set for what left, to whoever holds the slot.
LEMMA MarkedWasSentStep ==
  ASSUME RemindInv, [Next]_vars
  PROVE  MarkedWasSent'
<1>1. /\ excuse.contested \subseteq excuse'.contested
      /\ mail \subseteq mail'
      /\ TypeInv /\ TypeOK
  BY HistoryStep DEF RemindInv, TypeInv
<1>2. SUFFICES ASSUME NEW id \in Booked', id \notin excuse'.contested,
                      NEW window \in slots'[id].sent
               PROVE  [slot |-> id, about |-> window, to |-> slots'[id].candidate] \in mail
  BY <1>1 DEF MarkedWasSent
<1>3. /\ id \in DOMAIN slots
      /\ \/ window \in slots[id].sent
         \/ \E r \in Requests :
              /\ RemindCommit(r)
              /\ \E m \in req[r].marked : m.slot = id /\ m.about = window
  BY <1>1, <1>2, SentNow DEF Booked
<1>4. ASSUME NEW r \in Requests, RemindCommit(r), NEW m \in req[r].marked, m.slot = id,
             m.about = window
      PROVE  /\ id \in Booked
             /\ [slot |-> id, about |-> window, to |-> slots[id].candidate] \in mail
  <2>1. At(r, "remind") /\ m \in Taken(r) /\ m \in Mailed(r)
    BY <1>4 DEF RemindCommit, Taken, Mailed
  <2>2. id \in Booked
    BY <1>4, <2>1 DEF RemindInv, TypeInv, Targets
  <2>3. m.to = slots[id].candidate
    BY <1>1, <1>2, <1>4, <2>1 DEF RemindInv, Reminded, Addressed
  <2>4. m = [slot |-> m.slot, about |-> m.about, to |-> m.to]
    BY <1>1, <2>1, StageType DEF Reminders
  <2>5. m \in mail
    BY <2>1 DEF RemindInv, Told
  <2>6. QED
    BY <1>4, <2>2, <2>3, <2>4, <2>5
<1>5. ASSUME window \in slots[id].sent
      PROVE  id \in Booked
  BY <1>3, <1>5 DEF RemindInv, Reminded, OpenUnsent, Booked
<1>6. id \in Booked
  BY <1>3, <1>4, <1>5
<1>7. slots'[id].candidate = slots[id].candidate
  BY <1>1, <1>2, <1>6, HolderStays DEF RemindInv
<1>8. ASSUME window \in slots[id].sent
      PROVE  [slot |-> id, about |-> window, to |-> slots[id].candidate] \in mail
  BY <1>1, <1>2, <1>6, <1>8 DEF RemindInv, Reminded, RemindersAgree, MarkedWasSent
<1>9. QED
  BY <1>3, <1>4, <1>7, <1>8

\* No reminder leaves twice, unless the run that sent it first was rolled back
\* or two runs had it due at once, and none is marked that did not leave, for
\* any number of runs at the same time (routers_reminders.py:84-110).
THEOREM RemindersAreOnRecord == Spec => []RemindersAgree
<1>1. Init => RemindInv
  BY TypeInit, ToldInit, HoldingInit, RemindedInit DEF RemindInv
<1>2. RemindInv /\ [Next]_vars => RemindInv'
  <2> SUFFICES ASSUME RemindInv, [Next]_vars PROVE RemindInv'
    OBVIOUS
  <2>1. TypeInv' /\ Told' /\ Holding'
    BY TypeStep, ToldStep, HoldingStep DEF RemindInv
  <2>2. Reminded'
    BY SharedStep, OnRecordStep, UnsentStep, AddressedStep, OpenUnsentStep,
       RemindedOnceStep, MarkedWasSentStep DEF Reminded, RemindersAgree
  <2>3. QED
    BY <2>1, <2>2 DEF RemindInv
<1>3. RemindInv => RemindersAgree
  BY DEF RemindInv, Reminded
<1>4. QED
  BY <1>1, <1>2, <1>3, PTL DEF Spec

=============================================================================
