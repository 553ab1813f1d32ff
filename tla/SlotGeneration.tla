--------------------------- MODULE SlotGeneration ---------------------------
(***************************************************************************)
(* Interview slots from an availability rule, scheduling.py.               *)
(*                                                                         *)
(* Time is counted in ticks of a quarter of an hour.  Wall times count     *)
(* from the midnight that begins date 0, a Monday; UTC counts from the     *)
(* same instant.  A zone is one transition: when its clock reads `at` it   *)
(* is put `shift` ticks forward (a gap) or, for a negative shift, back (an *)
(* overlap); a zone without transitions has shift 0.                       *)
(***************************************************************************)
EXTENDS Integers

Ticks == 96                     \* in a day

Zones == [at : Int, shift : Int]

\* Wall times the clock jumps over.
InGap(zone, wall) == zone.at <= wall /\ wall < zone.at + zone.shift

\* zoneinfo, fold = 0: a wall time in the gap has the offset before it, one
\* that occurs twice means its first occurrence.
ToUtc(zone, wall) ==
  IF wall < zone.at \/ InGap(zone, wall) THEN wall ELSE wall - zone.shift

FromUtc(zone, utc) == IF utc < zone.at THEN utc ELSE utc + zone.shift

\* Mutant: wall times in the gap are not skipped.
AnyWallTime(zone, wall) == zone \in Zones

\* _is_real_wall_time
IsRealWallTime(zone, wall) == FromUtc(zone, ToUtc(zone, wall)) = wall

-----------------------------------------------------------------------------

\* AvailabilityRule with the range of dates it is applied to.
Rules ==
  [first : Nat, last : Nat, start : 0 .. Ticks - 1, end : 0 .. Ticks - 1,
   duration : Nat \ {0}, buffer : Nat,
   weekend : SUBSET (0 .. 6), excluded : SUBSET Nat]

WorkingDates(rule) ==
  {date \in rule.first .. rule.last :
     date % 7 \notin rule.weekend /\ date \notin rule.excluded}

\* Where the cursor stands on a date: every duration + buffer, as long as the
\* slot ends within the working hours.
Cursors(rule, date) ==
  {cursor \in {date * Ticks + rule.start + k * (rule.duration + rule.buffer) : k \in 0 .. Ticks} :
     cursor + rule.duration <= date * Ticks + rule.end}

\* The slot at a cursor.
Slot(rule, zone, cursor) ==
  [start |-> ToUtc(zone, cursor), end |-> ToUtc(zone, cursor + rule.duration)]

\* generate_slots
GenerateSlots(rule, zone) ==
  {Slot(rule, zone, cursor) :
     cursor \in {c \in UNION {Cursors(rule, date) : date \in WorkingDates(rule)} :
                   IsRealWallTime(zone, c)}}

=============================================================================
