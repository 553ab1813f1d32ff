---------------------------- MODULE SchedulingMC ----------------------------
(***************************************************************************)
(* Small instances of Scheduling: slots of 45 minutes in the hours around  *)
(* a transition, on Sunday, date 6, at two in the morning.                 *)
(***************************************************************************)
EXTENDS Scheduling, TLC

Two == 6 * Ticks + 8            \* Sunday, 02:00

Forward == [at |-> Two, shift |-> 4]
Back    == [at |-> Two, shift |-> 0 - 4]

\* Two slots from 01:30: the clock jumps over the start of the second, or the
\* first spans the hour that occurs twice.
Rule ==
  [first |-> 6, last |-> 6, start |-> 6, end |-> 12, duration |-> 3,
   buffer |-> 0, weekend |-> {5}, excluded |-> {}]

TwoOffices == [rule : {Rule}, zone : {Forward, Back}]

\* Within a day of the slots, and within an hour.
TwoClocks == {Two - 90, Two - 4}

Symmetry == Permutations(Requests) \union Permutations(Candidates)

=============================================================================
