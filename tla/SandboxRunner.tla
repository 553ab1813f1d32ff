---------------------------- MODULE SandboxRunner ----------------------------
(***************************************************************************)
(* The sandbox runner: services/sandbox-runner, main.py and executors.py.  *)
(*                                                                         *)
(* A run takes a uid from the pool on the event loop, waits for a worker   *)
(* thread, and is served by that thread (Serve) and by one reader thread   *)
(* for each output pipe (Pump) while its program does what it likes        *)
(* (Program).  Bytes are counted in small units; time is not counted: the  *)
(* wall-clock timeout may expire whenever its timer runs.                  *)
(*                                                                         *)
(* The order in which free uids are handed out does not matter to any      *)
(* property, so the pool is a set.  A program stays in its process group,  *)
(* and the readers need less than the five seconds of their join.          *)
(***************************************************************************)
EXTENDS Integers, Sequences, FiniteSets

CONSTANTS
  Runs,           \* requests to /v1/execute
  Streams,        \* stdout and stderr, each with a reader of its own
  Uids,           \* the uids of the pool
  NoUid,
  Workers,        \* threads asyncio.to_thread has
  Inputs,         \* sizes of stdin, in encoded bytes
  BufferSize,     \* stdin up to this size is only written when it is closed
  PipeCapacity,   \* what a pipe holds before its writer blocks
  OutputCap,      \* max_output_bytes
  MaxOutput       \* bound: a program writes no more than this to a stream

ASSUME UidAssumption == NoUid \notin Uids
ASSUME FiniteAssumption == IsFiniteSet(Uids) /\ IsFiniteSet(Runs)
ASSUME SizesAssumption ==
  /\ Inputs \subseteq Nat
  /\ {Workers, BufferSize, PipeCapacity, OutputCap, MaxOutput} \subseteq Nat

VARIABLES
  free,           \* uids in the pool's queue
  waiting,        \* runs asleep in acquire, in the order they came
  woken,          \* runs a release has woken and that did not resume yet
  isolates,       \* whether unshare works on this host
  verdict,        \* _isolation_verified
  run             \* per run: its progress, its program and its pipes

vars == <<free, waiting, woken, isolates, verdict, run>>

-----------------------------------------------------------------------------

\* Stages on a worker thread, and the outcomes it hands to the event loop.
OnThread == {"probing", "spawning", "writing", "timing", "expired", "joining"}
Outcomes == {"answered", "refused", "failed"}
Stages == {"new", "waiting", "queued", "done"} \union OnThread \union Outcomes

\* A stream: what the program wrote, what its reader has not taken from the
\* pipe yet, and the _CappedBuffer.
Outputs == [written : Nat, pipe : Nat, kept : Nat, truncated : BOOLEAN]

Progress ==
  [stage : Stages,
   uid : Uids \union {NoUid},
   size : Nat,                    \* of stdin,
   left : Nat,                    \* of it, not written yet,
   pipe : Nat,                    \* of it, not read by the program yet
   program : {"none", "running", "exited", "killed"},
   out : [Streams -> Outputs],
   timedOut : BOOLEAN]

TypeOK ==
  /\ free \subseteq Uids
  /\ waiting \in Seq(Runs)
  /\ woken \subseteq Runs
  /\ isolates \in BOOLEAN
  /\ verdict \in {"unknown", "works", "broken"}
  /\ run \in [Runs -> Progress]

Fresh(stage, size) ==
  [stage |-> stage, uid |-> NoUid, size |-> size, left |-> size, pipe |-> 0,
   program |-> "none",
   out |-> [s \in Streams |-> [written |-> 0, pipe |-> 0, kept |-> 0, truncated |-> FALSE]],
   timedOut |-> FALSE]

Init ==
  /\ free = Uids
  /\ waiting = << >>
  /\ woken = {}
  /\ isolates \in BOOLEAN
  /\ verdict = "unknown"
  /\ run = [r \in Runs |-> Fresh("new", 0)]

At(r, stage) == run[r].stage = stage
-----------------------------------------------------------------------------
(* UidPool: asyncio.Queue.                                                 *)

\* Mutant: the uid that is handed out stays in the queue.
AcquirePeeks(r, next) ==
  \/ /\ \E uid \in free :
          run' = [run EXCEPT ![r] = [next EXCEPT !.stage = "queued", !.uid = uid]]
     /\ UNCHANGED <<free, waiting>>
  \/ /\ free = {}
     /\ waiting' = Append(waiting, r)
     /\ run' = [run EXCEPT ![r] = [next EXCEPT !.stage = "waiting"]]
     /\ UNCHANGED free

\* acquire: a free uid at once, or asleep behind those who sleep already.
Acquire(r, next) ==
  \/ \E uid \in free :
       /\ free' = free \ {uid}
       /\ run' = [run EXCEPT ![r] = [next EXCEPT !.stage = "queued", !.uid = uid]]
       /\ UNCHANGED waiting
  \/ /\ free = {}
     /\ waiting' = Append(waiting, r)
     /\ run' = [run EXCEPT ![r] = [next EXCEPT !.stage = "waiting"]]
     /\ UNCHANGED free

\* Mutant: the uid goes back, the sleeper sleeps on.
WakeNobody == UNCHANGED <<waiting, woken>>

\* put_nowait wakes the first sleeper, which takes the uid when it resumes.
WakeFirst ==
  IF waiting = << >>
    THEN UNCHANGED <<waiting, woken>>
    ELSE /\ waiting' = Tail(waiting)
         /\ woken' = woken \union {Head(waiting)}

\* execute: the limits on the source and the timeout are applied before.
Execute(r) ==
  /\ At(r, "new")
  /\ \E size \in Inputs : Acquire(r, Fresh("new", size))
  /\ UNCHANGED <<woken, isolates, verdict>>

\* A run that came later may have taken the uid: back to sleep, at the end.
Resume(r) ==
  /\ r \in woken
  /\ woken' = woken \ {r}
  /\ Acquire(r, run[r])
  /\ UNCHANGED <<isolates, verdict>>

\* The answer, whatever it is, gives the uid back.
Release(r) ==
  /\ run[r].stage \in Outcomes
  /\ free' = free \union {run[r].uid}
  /\ WakeFirst
  /\ run' = [run EXCEPT ![r] = Fresh("done", 0)]
  /\ UNCHANGED <<isolates, verdict>>

-----------------------------------------------------------------------------
(* _run_sync, on a worker thread.                                          *)

\* r goes on to the stage, and nothing else changes but its record.
Goes(r, next) ==
  /\ run' = [run EXCEPT ![r] = next]
  /\ UNCHANGED <<free, waiting, woken, isolates>>

Busy == {r \in Runs : run[r].stage \in OnThread}

\* A thread is free; _verify_isolation_available looks at its cache.
Begin(r) ==
  /\ At(r, "queued")
  /\ Cardinality(Busy) < Workers
  /\ Goes(r, [run[r] EXCEPT !.stage =
       CASE verdict = "unknown" -> "probing"
         [] verdict = "works"   -> "spawning"
         [] verdict = "broken"  -> "refused"])
  /\ UNCHANGED verdict

\* The probe, whose answer is remembered, or it takes too long.
Probe(r) ==
  /\ At(r, "probing")
  /\ \/ /\ isolates
        /\ verdict' = "works"
        /\ Goes(r, [run[r] EXCEPT !.stage = "spawning"])
     \/ /\ ~ isolates
        /\ verdict' = "broken"
        /\ Goes(r, [run[r] EXCEPT !.stage = "refused"])
     \/ /\ Goes(r, [run[r] EXCEPT !.stage = "failed"])
        /\ UNCHANGED verdict

\* Popen and the two readers, or no process can be made.
Spawn(r) ==
  /\ At(r, "spawning")
  /\ \E next \in {[run[r] EXCEPT !.stage = "writing", !.program = "running"],
                  [run[r] EXCEPT !.stage = "failed"]} : Goes(r, next)
  /\ UNCHANGED verdict

Ended(r) == run[r].program \in {"exited", "killed"}

\* stdin.write and stdin.close: blocked while the pipe is full.  unshare
\* holds the reading end until the program has ended.
Write(r) ==
  /\ At(r, "writing")
  /\ run[r].left > 0
  /\ ~ Ended(r)
  /\ run[r].pipe < PipeCapacity
  /\ Goes(r, [run[r] EXCEPT !.left = @ - 1, !.pipe = @ + 1])
  /\ UNCHANGED verdict

\* EPIPE: the exception of write is caught, the one of close is not.
WriteBroken(r) ==
  /\ At(r, "writing")
  /\ run[r].left > 0
  /\ Ended(r)
  /\ Goes(r, [run[r] EXCEPT !.stage = IF run[r].size <= BufferSize THEN "failed" ELSE "timing"])
  /\ UNCHANGED verdict

Written(r) ==
  /\ At(r, "writing")
  /\ run[r].left = 0
  /\ Goes(r, [run[r] EXCEPT !.stage = "timing"])
  /\ UNCHANGED verdict

\* wait(timeout) returns, or raises while the program still runs.
Waited(r) ==
  /\ At(r, "timing")
  /\ Goes(r, [run[r] EXCEPT !.stage = IF Ended(r) THEN "joining" ELSE "expired"])
  /\ UNCHANGED verdict

\* killpg, unless the program ended just now, and wait.
Kill(r) ==
  /\ At(r, "expired")
  /\ Goes(r, [run[r] EXCEPT !.stage = "joining", !.timedOut = TRUE,
                            !.program = IF @ = "running" THEN "killed" ELSE @])
  /\ UNCHANGED verdict

\* The readers have seen the end of their pipe.
Return(r) ==
  /\ At(r, "joining")
  /\ \A s \in Streams : run[r].out[s].pipe = 0
  /\ Goes(r, [run[r] EXCEPT !.stage = "answered"])
  /\ UNCHANGED verdict

-----------------------------------------------------------------------------
(* _pump, on a thread for each stream.                                     *)

AtMost(n, limit) == IF n <= limit THEN n ELSE limit

\* Mutant: a chunk that is cut is not reported.
AddSilently(out, n) ==
  [out EXCEPT !.pipe = @ - n,
              !.kept = AtMost(@ + n, OutputCap),
              !.truncated = @ \/ out.kept >= OutputCap]

\* _CappedBuffer.add of n bytes from the pipe.
Add(out, n) ==
  [out EXCEPT !.pipe = @ - n,
              !.kept = AtMost(@ + n, OutputCap),
              !.truncated = @ \/ out.kept + n > OutputCap]

\* Mutant: the reader stops at the cap.
PumpUntilFull(r, s) ==
  LET out == run[r].out[s]
  IN  /\ out.kept < OutputCap
      /\ \E n \in 1 .. out.pipe : Goes(r, [run[r] EXCEPT !.out[s] = Add(out, n)])
      /\ UNCHANGED verdict

Pump(r, s) ==
  LET out == run[r].out[s]
  IN  /\ \E n \in 1 .. out.pipe : Goes(r, [run[r] EXCEPT !.out[s] = Add(out, n)])
      /\ UNCHANGED verdict

-----------------------------------------------------------------------------
(* The candidate's program.                                                *)

Read(r) ==
  /\ run[r].program = "running"
  /\ run[r].pipe > 0
  /\ Goes(r, [run[r] EXCEPT !.pipe = @ - 1])
  /\ UNCHANGED verdict

Output(r, s) ==
  LET out == run[r].out[s]
  IN  /\ run[r].program = "running"
      /\ out.pipe < PipeCapacity
      /\ out.written < MaxOutput
      /\ Goes(r, [run[r] EXCEPT !.out[s].written = @ + 1, !.out[s].pipe = @ + 1])
      /\ UNCHANGED verdict

\* It ends on its own, or by a resource limit.
Exit(r) ==
  /\ run[r].program = "running"
  /\ Goes(r, [run[r] EXCEPT !.program = "exited"])
  /\ UNCHANGED verdict

-----------------------------------------------------------------------------

Serve(r) ==
  \/ Resume(r) \/ Begin(r)       \/ Probe(r)   \/ Spawn(r)
  \/ Write(r)  \/ WriteBroken(r) \/ Written(r) \/ Waited(r)
  \/ Kill(r)   \/ Return(r)      \/ Release(r)

Program(r) == Read(r) \/ (\E s \in Streams : Output(r, s)) \/ Exit(r)

Next ==
  \E r \in Runs :
    \/ Execute(r)
    \/ Serve(r)
    \/ \E s \in Streams : Pump(r, s)
    \/ Program(r)

Spec == Init /\ [][Next]_vars

\* The event loop, the threads and the timer go on; a program need not.
Fairness ==
  \A r \in Runs : WF_vars(Serve(r)) /\ \A s \in Streams : WF_vars(Pump(r, s))

FairSpec == Spec /\ Fairness

-----------------------------------------------------------------------------
(* Properties.                                                             *)

\* Two programs that run at the same time never share a uid, and no uid is
\* handed out while a program runs under it (executors.py:59-65).
UidsExclusive ==
  \A r \in Runs : run[r].program = "running" =>
    /\ run[r].uid \in Uids \ free
    /\ \A q \in Runs \ {r} : run[q].uid # run[r].uid

\* No run sleeps in acquire while there is a uid that no run was woken for,
\* although a run that comes later may take the uid of one that was woken.
NoSleeperMissesAUid ==
  waiting # << >> => Cardinality(free) <= Cardinality(woken)

\* An answer is a faithful record (executors.py:19-21): of each stream the
\* first bytes up to the cap, marked truncated exactly when there was more; a
\* program that was killed is reported as timed out.
ResultFaithful ==
  \A r \in Runs : At(r, "answered") =>
    /\ \A s \in Streams :
         LET out == run[r].out[s]
         IN  /\ out.kept = AtMost(out.written, OutputCap)
             /\ out.truncated <=> out.written > OutputCap
    /\ Ended(r)
    /\ run[r].program = "killed" => run[r].timedOut

\* Every request that came is answered in the end, whatever its program does
\* and however many wait for a uid, as long as its input fits into a pipe.
EveryRunEnds == <>[](\A r \in Runs : At(r, "new") \/ At(r, "done"))

\* "A hard wall-clock timeout that kills the whole process group"
\* (executors.py:9-10): no program runs for ever, whatever its input.  It does
\* not hold: SandboxRunner.cfg with this property and Inputs = {3}, more than
\* a pipe holds, finds a program that never reads and is never killed.
HardTimeout ==
  \A r \in Runs : run[r].program = "running" ~> run[r].program # "running"

=============================================================================
