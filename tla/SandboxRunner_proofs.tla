------------------------ MODULE SandboxRunner_proofs ------------------------
(***************************************************************************)
(* Theorems about SandboxRunner, for every number of runs, uids and        *)
(* threads and for every size of the pipes.                                *)
(***************************************************************************)
EXTENDS SandboxRunner, FiniteSetTheorems, TLAPS

-----------------------------------------------------------------------------
(* Types.                                                                  *)

\* The record of a run that has just arrived, or is over.
LEMMA FreshType ==
  ASSUME NEW st \in Stages, NEW size \in Nat
  PROVE  Fresh(st, size) \in Progress
BY DEF Fresh, Progress, Outputs

\* What add makes of a stream.
LEMMA AddType ==
  ASSUME NEW out \in Outputs, NEW n \in 1 .. out.pipe
  PROVE  /\ Add(out, n) \in Outputs
         /\ Add(out, n).pipe = out.pipe - n
         /\ Add(out, n).written = out.written
         /\ Add(out, n).kept = AtMost(out.kept + n, OutputCap)
         /\ Add(out, n).truncated = (out.truncated \/ out.kept + n > OutputCap)
<1>1. /\ out.pipe \in Nat /\ out.kept \in Nat /\ out.written \in Nat
      /\ out.truncated \in BOOLEAN
      /\ DOMAIN out = {"written", "pipe", "kept", "truncated"}
  BY DEF Outputs
<1> DEFINE cut == out.truncated \/ out.kept + n > OutputCap
           kept == AtMost(out.kept + n, OutputCap)
<1>2. kept \in Nat /\ out.pipe - n \in Nat
  BY <1>1, SizesAssumption DEF AtMost
<1>3. cut \in BOOLEAN
  BY <1>1, Zenon
<1>4. Add(out, n) = [out EXCEPT !.pipe = out.pipe - n, !.kept = kept, !.truncated = cut]
  BY DEF Add
<1> HIDE DEF cut, kept
<1>5. Add(out, n) = [written |-> out.written, pipe |-> out.pipe - n,
                     kept |-> kept, truncated |-> cut]
  BY <1>1, <1>4 DEF Outputs
<1>6. Add(out, n) \in Outputs
  BY <1>1, <1>2, <1>3, <1>5 DEF Outputs
<1>7. QED
  BY <1>5, <1>6 DEF cut, kept

\* Outputs of a record, and the numbers in it.
LEMMA Fields ==
  ASSUME NEW p \in Progress
  PROVE  /\ p.stage \in Stages /\ p.size \in Nat /\ p.left \in Nat /\ p.pipe \in Nat
         /\ p.uid \in Uids \union {NoUid}
         /\ p.program \in {"none", "running", "exited", "killed"}
         /\ p.timedOut \in BOOLEAN
         /\ \A s \in Streams : p.out[s] \in Outputs
BY DEF Progress

\* What an action of a thread, of a reader or of a program writes.
LEMMA GoesType ==
  ASSUME TypeOK, NEW r \in Runs, NEW next \in Progress, Goes(r, next),
         verdict' \in {"unknown", "works", "broken"}
  PROVE  TypeOK'
BY DEF TypeOK, Goes

\* The stages in which a run holds a uid.
Holding == {"queued"} \union OnThread \union Outcomes

\* A step of a thread or a program: the run keeps its uid, and its program
\* starts only while it holds one.
KeepsUid(p, next) ==
  /\ next.uid = p.uid
  /\ \/ next.stage = p.stage
     \/ p.stage \in Holding /\ next.stage \in Holding
  /\ next.program = "running" => p.program = "running" \/ next.stage \in Holding

\* The step of r from one stage that holds a uid to another.
LEMMA StageRecord ==
  ASSUME NEW p \in Progress, NEW st \in Holding, p.stage \in Holding
  PROVE  /\ [p EXCEPT !.stage = st] \in Progress
         /\ KeepsUid(p, [p EXCEPT !.stage = st])
         /\ [p EXCEPT !.stage = st, !.program = "running"] \in Progress
         /\ KeepsUid(p, [p EXCEPT !.stage = st, !.program = "running"])
<1>1. st \in Stages
  BY DEF Holding, Stages
<1>2. /\ [p EXCEPT !.stage = st] \in Progress
      /\ KeepsUid(p, [p EXCEPT !.stage = st])
  BY <1>1 DEF Progress, KeepsUid
<1>3. /\ [p EXCEPT !.stage = st, !.program = "running"] \in Progress
      /\ KeepsUid(p, [p EXCEPT !.stage = st, !.program = "running"])
  BY <1>1 DEF Progress, KeepsUid
<1>4. QED
  BY <1>2, <1>3

\* The steps that leave its stage alone.
LEMMA DataRecord ==
  ASSUME NEW p \in Progress
  PROVE  /\ \A n, k \in Nat :
              /\ [p EXCEPT !.left = n, !.pipe = k] \in Progress
              /\ KeepsUid(p, [p EXCEPT !.left = n, !.pipe = k])
         /\ \A n \in Nat :
              /\ [p EXCEPT !.pipe = n] \in Progress
              /\ KeepsUid(p, [p EXCEPT !.pipe = n])
         /\ \A s \in Streams, out \in Outputs :
              /\ [p EXCEPT !.out[s] = out] \in Progress
              /\ KeepsUid(p, [p EXCEPT !.out[s] = out])
         /\ [p EXCEPT !.program = "exited"] \in Progress
         /\ KeepsUid(p, [p EXCEPT !.program = "exited"])
<1>1. \A n, k \in Nat :
        /\ [p EXCEPT !.left = n, !.pipe = k] \in Progress
        /\ KeepsUid(p, [p EXCEPT !.left = n, !.pipe = k])
  BY DEF Progress, KeepsUid
<1>2. \A n \in Nat :
        /\ [p EXCEPT !.pipe = n] \in Progress
        /\ KeepsUid(p, [p EXCEPT !.pipe = n])
  BY DEF Progress, KeepsUid
<1>3. \A s \in Streams, out \in Outputs :
        /\ [p EXCEPT !.out[s] = out] \in Progress
        /\ KeepsUid(p, [p EXCEPT !.out[s] = out])
  BY DEF Progress, KeepsUid
<1>4. /\ [p EXCEPT !.program = "exited"] \in Progress
      /\ KeepsUid(p, [p EXCEPT !.program = "exited"])
  BY DEF Progress, KeepsUid
<1>5. QED
  BY <1>1, <1>2, <1>3, <1>4

\* Every action of a worker thread writes a record.
LEMMA ServeRecord ==
  ASSUME TypeOK, NEW r \in Runs,
         Begin(r) \/ Probe(r) \/ Spawn(r) \/ Write(r) \/ WriteBroken(r) \/ Written(r)
           \/ Waited(r) \/ Kill(r) \/ Return(r)
  PROVE  /\ \E next \in Progress : Goes(r, next) /\ KeepsUid(run[r], next)
         /\ verdict' \in {"unknown", "works", "broken"}
<1>1. run[r] \in Progress /\ verdict \in {"unknown", "works", "broken"}
  BY DEF TypeOK
<1>2. CASE Begin(r)
  <2>1. run[r].stage \in Holding /\ {"probing", "spawning", "refused"} \subseteq Holding
    BY <1>2 DEF Begin, At, Holding, OnThread, Outcomes
  <2>2. \E st \in Holding : Goes(r, [run[r] EXCEPT !.stage = st])
    BY <1>1, <1>2, <2>1 DEF Begin
  <2>3. QED
    BY <1>1, <1>2, <2>1, <2>2, StageRecord DEF Begin
<1>3. CASE Probe(r)
  <2>1. run[r].stage \in Holding /\ {"spawning", "refused", "failed"} \subseteq Holding
    BY <1>3 DEF Probe, At, Holding, OnThread, Outcomes
  <2>2. /\ \E st \in Holding : Goes(r, [run[r] EXCEPT !.stage = st])
        /\ verdict' \in {"unknown", "works", "broken"}
    BY <1>1, <1>3, <2>1 DEF Probe
  <2>3. QED
    BY <1>1, <2>1, <2>2, StageRecord
<1>4. CASE Spawn(r)
  <2>1. run[r].stage \in Holding /\ {"writing", "failed"} \subseteq Holding
    BY <1>4 DEF Spawn, At, Holding, OnThread, Outcomes
  <2>2. \/ Goes(r, [run[r] EXCEPT !.stage = "writing", !.program = "running"])
        \/ Goes(r, [run[r] EXCEPT !.stage = "failed"])
    BY <1>4 DEF Spawn
  <2>3. QED
    BY <1>1, <1>4, <2>1, <2>2, StageRecord DEF Spawn
<1>5. CASE Write(r)
  <2>1. run[r].left - 1 \in Nat /\ run[r].pipe + 1 \in Nat
    BY <1>1, <1>5, Fields DEF Write
  <2>2. Goes(r, [run[r] EXCEPT !.left = run[r].left - 1, !.pipe = run[r].pipe + 1])
    BY <1>5 DEF Write
  <2>3. QED
    BY <1>1, <1>5, <2>1, <2>2, DataRecord DEF Write
<1>6. CASE WriteBroken(r)
  <2>1. run[r].stage \in Holding /\ {"timing", "failed"} \subseteq Holding
    BY <1>6 DEF WriteBroken, At, Holding, OnThread, Outcomes
  <2>2. \E st \in Holding : Goes(r, [run[r] EXCEPT !.stage = st])
    BY <1>6, <2>1 DEF WriteBroken
  <2>3. QED
    BY <1>1, <1>6, <2>1, <2>2, StageRecord DEF WriteBroken
<1>7. CASE Written(r)
  <2>1. run[r].stage \in Holding /\ "timing" \in Holding
    BY <1>7 DEF Written, At, Holding, OnThread, Outcomes
  <2>2. QED
    BY <1>1, <1>7, <2>1, StageRecord DEF Written
<1>8. CASE Waited(r)
  <2>1. run[r].stage \in Holding /\ {"joining", "expired"} \subseteq Holding
    BY <1>8 DEF Waited, At, Holding, OnThread, Outcomes
  <2>2. \E st \in Holding : Goes(r, [run[r] EXCEPT !.stage = st])
    BY <1>8, <2>1 DEF Waited
  <2>3. QED
    BY <1>1, <1>8, <2>1, <2>2, StageRecord DEF Waited
<1>9. CASE Kill(r)
  <2>1. run[r].stage \in Holding /\ "joining" \in Holding
    BY <1>9 DEF Kill, At, Holding, OnThread, Outcomes
  <2> DEFINE prog == IF run[r].program = "running" THEN "killed" ELSE run[r].program
             next == [run[r] EXCEPT !.stage = "joining", !.timedOut = TRUE, !.program = prog]
  <2>2. Goes(r, next)
    BY <1>9 DEF Kill
  <2>3. next \in Progress
    BY <1>1, <2>1 DEF Progress, Stages, OnThread
  <2>4. next.uid = run[r].uid /\ next.stage = "joining" /\ next.program # "running"
    BY <1>1 DEF Progress
  <2> HIDE DEF next
  <2>5. QED
    BY <1>1, <1>9, <2>1, <2>2, <2>3, <2>4 DEF Kill, KeepsUid
<1>10. CASE Return(r)
  <2>1. run[r].stage \in Holding /\ "answered" \in Holding
    BY <1>10 DEF Return, At, Holding, OnThread, Outcomes
  <2>2. QED
    BY <1>1, <1>10, <2>1, StageRecord DEF Return
<1>11. QED
  BY <1>2, <1>3, <1>4, <1>5, <1>6, <1>7, <1>8, <1>9, <1>10

\* So does every action of a reader or of a program.
LEMMA ProgramRecord ==
  ASSUME TypeOK, NEW r \in Runs,
         (\E s \in Streams : Pump(r, s)) \/ Program(r)
  PROVE  /\ \E next \in Progress : Goes(r, next) /\ KeepsUid(run[r], next)
         /\ verdict' = verdict
<1>1. run[r] \in Progress
  BY DEF TypeOK
<1>2. ASSUME NEW s \in Streams, Pump(r, s)
      PROVE  (\E next \in Progress : Goes(r, next) /\ KeepsUid(run[r], next)) /\ verdict' = verdict
  <2>1. run[r].out[s] \in Outputs
    BY <1>1, Fields
  <2>2. PICK n \in 1 .. run[r].out[s].pipe :
          Goes(r, [run[r] EXCEPT !.out[s] = Add(run[r].out[s], n)])
    BY <1>2 DEF Pump
  <2>3. Add(run[r].out[s], n) \in Outputs
    BY <2>1, AddType
  <2>4. QED
    BY <1>1, <1>2, <2>2, <2>3, DataRecord DEF Pump
<1>3. CASE Read(r)
  <2>1. run[r].pipe - 1 \in Nat
    BY <1>1, <1>3, Fields DEF Read
  <2>2. QED
    BY <1>1, <1>3, <2>1, DataRecord DEF Read
<1>4. ASSUME NEW s \in Streams, Output(r, s)
      PROVE  (\E next \in Progress : Goes(r, next) /\ KeepsUid(run[r], next)) /\ verdict' = verdict
  <2> DEFINE out == run[r].out[s]
             more == [out EXCEPT !.written = @ + 1, !.pipe = @ + 1]
  <2>1. out \in Outputs
    BY <1>1, Fields
  <2>2. more \in Outputs
    <3>1. out.written + 1 \in Nat /\ out.pipe + 1 \in Nat
      BY <2>1 DEF Outputs
    <3> HIDE DEF out
    <3>2. QED
      BY <2>1, <3>1 DEF Outputs
  <2>3. Goes(r, [run[r] EXCEPT !.out[s] = more])
    BY <1>1, <1>4 DEF Output, Progress
  <2> HIDE DEF more
  <2>4. QED
    BY <1>1, <1>4, <2>2, <2>3, DataRecord DEF Output
<1>5. CASE Exit(r)
  BY <1>1, <1>5, DataRecord DEF Exit
<1>6. QED
  BY <1>2, <1>3, <1>4, <1>5 DEF Program

\* What a step may be.
LEMMA Steps ==
  ASSUME TypeOK, [Next]_vars
  PROVE  \/ UNCHANGED vars
         \/ \E r \in Runs, next \in Progress :
              /\ Goes(r, next)
              /\ KeepsUid(run[r], next)
              /\ verdict' \in {"unknown", "works", "broken"}
         \/ \E r \in Runs : Execute(r) \/ Resume(r) \/ Release(r)
<1>1. ASSUME NEW r \in Runs,
             Begin(r) \/ Probe(r) \/ Spawn(r) \/ Write(r) \/ WriteBroken(r) \/ Written(r)
               \/ Waited(r) \/ Kill(r) \/ Return(r)
      PROVE  \E next \in Progress :
               /\ Goes(r, next)
               /\ KeepsUid(run[r], next)
               /\ verdict' \in {"unknown", "works", "broken"}
  BY <1>1, ServeRecord
<1>2. ASSUME NEW r \in Runs, (\E s \in Streams : Pump(r, s)) \/ Program(r)
      PROVE  \E next \in Progress :
               /\ Goes(r, next)
               /\ KeepsUid(run[r], next)
               /\ verdict' \in {"unknown", "works", "broken"}
  BY <1>2, ProgramRecord DEF TypeOK
<1>3. QED
  BY <1>1, <1>2 DEF Next, Serve

\* The two ways out of acquire.
LEMMA AcquireRows ==
  ASSUME TypeOK, NEW r \in Runs, NEW next \in Progress, Acquire(r, next)
  PROVE  \E row \in Progress :
           /\ run' = [run EXCEPT ![r] = row]
           /\ row.program = next.program
           /\ \/ /\ row.stage = "waiting" /\ row.uid = next.uid
                 /\ free = {} /\ free' = free
                 /\ waiting' = Append(waiting, r)
              \/ /\ row.stage = "queued" /\ row.uid \in free
                 /\ free' = free \ {row.uid}
                 /\ waiting' = waiting
<1>1. CASE free = {}
  <2> DEFINE row == [next EXCEPT !.stage = "waiting"]
  <2>1. row \in Progress
    BY DEF Progress, Stages
  <2>2. row.stage = "waiting" /\ row.uid = next.uid /\ row.program = next.program
    BY DEF Progress
  <2>3. run' = [run EXCEPT ![r] = row] /\ free' = free /\ waiting' = Append(waiting, r)
    BY <1>1 DEF Acquire
  <2> HIDE DEF row
  <2>4. QED
    BY <1>1, <2>1, <2>2, <2>3
<1>2. ASSUME NEW uid \in free, free' = free \ {uid}, UNCHANGED waiting,
             run' = [run EXCEPT ![r] = [next EXCEPT !.stage = "queued", !.uid = uid]]
      PROVE  \E row \in Progress :
               /\ run' = [run EXCEPT ![r] = row]
               /\ row.program = next.program
               /\ row.stage = "queued" /\ row.uid \in free
               /\ free' = free \ {row.uid}
               /\ waiting' = waiting
  <2> DEFINE row == [next EXCEPT !.stage = "queued", !.uid = uid]
  <2>1. row \in Progress
    BY DEF Progress, Stages, TypeOK
  <2>2. row.stage = "queued" /\ row.uid = uid /\ row.program = next.program
    BY DEF Progress
  <2>3. run' = [run EXCEPT ![r] = row]
    BY <1>2
  <2> HIDE DEF row
  <2>4. QED
    BY <1>2, <2>1, <2>2, <2>3
<1>3. QED
  BY <1>1, <1>2 DEF Acquire

\* The types of what they change.
LEMMA AcquireType ==
  ASSUME TypeOK, NEW r \in Runs, NEW next \in Progress, Acquire(r, next)
  PROVE  /\ free' \subseteq Uids
         /\ waiting' \in Seq(Runs)
         /\ run' \in [Runs -> Progress]
<1>1. PICK row \in Progress :
        /\ run' = [run EXCEPT ![r] = row]
        /\ free' \subseteq free
        /\ waiting' \in {waiting, Append(waiting, r)}
  BY AcquireRows
<1>2. Append(waiting, r) \in Seq(Runs)
  BY DEF TypeOK
<1>3. QED
  BY <1>1, <1>2 DEF TypeOK

-----------------------------------------------------------------------------
(* The pool.                                                               *)

\* Who sleeps in acquire: each run once, asleep or woken but not both.
Sleepers ==
  /\ \A i \in DOMAIN waiting : At(waiting[i], "waiting") /\ waiting[i] \notin woken
  /\ \A i, j \in DOMAIN waiting : waiting[i] = waiting[j] => i = j
  /\ \A r \in woken : At(r, "waiting")

\* Who holds what of the pool: a uid of one's own, out of the queue.  Nobody
\* else has one, or runs a program.
Pool ==
  /\ \A r \in Runs : run[r].stage \in Holding => run[r].uid \in Uids \ free
  /\ \A r \in Runs : run[r].stage \notin Holding =>
       run[r].uid = NoUid /\ run[r].program # "running"
  /\ \A q, r \in Runs :
       (run[q].stage \in Holding /\ run[r].stage \in Holding /\ run[q].uid = run[r].uid)
         => q = r

PoolInv == TypeOK /\ Sleepers /\ Pool

\* A run without a uid takes one or goes to sleep.
LEMMA AcquirePool ==
  ASSUME TypeOK, Pool, NEW r \in Runs, NEW next \in Progress, Acquire(r, next),
         run[r].stage \notin Holding, next.uid = NoUid, next.program # "running"
  PROVE  Pool'
<1>1. PICK row \in Progress :
        /\ run' = [run EXCEPT ![r] = row]
        /\ row.program = next.program
        /\ \/ /\ row.stage = "waiting" /\ row.uid = next.uid
              /\ free = {} /\ free' = free
              /\ waiting' = Append(waiting, r)
           \/ /\ row.stage = "queued" /\ row.uid \in free
              /\ free' = free \ {row.uid}
              /\ waiting' = waiting
  BY AcquireRows
<1>2. run'[r] = row /\ \A q \in Runs \ {r} : run'[q] = run[q]
  BY <1>1 DEF TypeOK
<1>3. "waiting" \notin Holding /\ "queued" \in Holding
  BY DEF Holding, OnThread, Outcomes
<1>4. \A q \in Runs : run[q].stage \in Holding => run[q].uid \notin free
  BY DEF Pool
<1>5. CASE row.stage = "waiting"
  BY <1>1, <1>2, <1>3, <1>4, <1>5 DEF Pool
<1>6. CASE row.stage = "queued"
  <2>1. row.uid \in free /\ free' = free \ {row.uid} /\ free \subseteq Uids
    BY <1>1, <1>6 DEF TypeOK
  <2>2. QED
    BY <1>2, <1>3, <1>4, <1>6, <2>1 DEF Pool
<1>7. QED
  BY <1>1, <1>5, <1>6

\* Nothing but the record of r changes, and r keeps its uid.
LEMMA GoesPool ==
  ASSUME PoolInv, NEW r \in Runs, NEW next \in Progress, Goes(r, next), KeepsUid(run[r], next)
  PROVE  Pool' /\ Sleepers'
<1>1. run'[r] = next /\ \A q \in Runs \ {r} : run'[q] = run[q]
  BY DEF PoolInv, TypeOK, Goes
<1>2. free' = free /\ waiting' = waiting /\ woken' = woken
  BY DEF Goes
<1>3. \A q \in Runs : run'[q].uid = run[q].uid
                     /\ (run'[q].stage \in Holding <=> run[q].stage \in Holding)
  BY <1>1 DEF KeepsUid
<1>4. Pool'
  BY <1>1, <1>2, <1>3 DEF PoolInv, Pool, KeepsUid
<1>5. \A q \in Runs : run[q].stage = "waiting" => run'[q].stage = "waiting"
  BY <1>1 DEF KeepsUid, Holding, OnThread, Outcomes
<1>6. waiting \in Seq(Runs) /\ woken \subseteq Runs
  BY DEF PoolInv, TypeOK
<1>7. \A i \in DOMAIN waiting : waiting[i] \in Runs
  BY <1>6
<1>8. Sleepers'
  BY <1>2, <1>5, <1>6, <1>7 DEF PoolInv, Sleepers, At
<1>9. QED
  BY <1>4, <1>8

\* Going to sleep, or not, behind the others.
LEMMA AcquireSleepers ==
  ASSUME TypeOK, NEW r \in Runs, NEW next \in Progress, Acquire(r, next), Sleepers,
         \A i \in DOMAIN waiting : waiting[i] # r,
         woken' = woken \ {r}
  PROVE  Sleepers'
<1>1. PICK row \in Progress :
        /\ run' = [run EXCEPT ![r] = row]
        /\ \/ row.stage = "waiting" /\ waiting' = Append(waiting, r)
           \/ waiting' = waiting
  BY AcquireRows
<1>2. run'[r] = row /\ \A q \in Runs \ {r} : run'[q] = run[q]
  BY <1>1 DEF TypeOK
<1>3. waiting \in Seq(Runs) /\ woken \subseteq Runs
  BY DEF TypeOK
<1>4. \A i \in DOMAIN waiting : waiting[i] \in Runs \ {r} /\ run'[waiting[i]].stage = "waiting"
  BY <1>2, <1>3 DEF Sleepers, At
<1>5. \A q \in woken' : run'[q].stage = "waiting"
  BY <1>2, <1>3 DEF Sleepers, At
<1>6. CASE waiting' = waiting
  BY <1>4, <1>5, <1>6 DEF Sleepers, At
<1>7. CASE row.stage = "waiting" /\ waiting' = Append(waiting, r)
  <2>1. /\ DOMAIN waiting' = DOMAIN waiting \union {Len(waiting) + 1}
        /\ DOMAIN waiting = 1 .. Len(waiting)
        /\ waiting'[Len(waiting) + 1] = r
        /\ \A i \in DOMAIN waiting : waiting'[i] = waiting[i]
    BY <1>3, <1>7
  <2>2. \A i \in DOMAIN waiting' : run'[waiting'[i]].stage = "waiting" /\ waiting'[i] \notin woken'
    BY <1>2, <1>4, <1>7, <2>1 DEF Sleepers
  <2>3. \A i, j \in DOMAIN waiting' : waiting'[i] = waiting'[j] => i = j
    BY <1>4, <2>1 DEF Sleepers
  <2>4. QED
    BY <1>5, <2>2, <2>3 DEF Sleepers, At
<1>8. QED
  BY <1>1, <1>6, <1>7

\* A run that asks for a uid takes a free one or joins the queue.
LEMMA ExecutePool ==
  ASSUME PoolInv, NEW r \in Runs, Execute(r)
  PROVE  PoolInv'
<1>1. PICK size \in Inputs : Acquire(r, Fresh("new", size))
  BY DEF Execute
<1>2. Fresh("new", size) \in Progress
  BY FreshType, SizesAssumption DEF Stages
<1>3. Fresh("new", size).uid = NoUid /\ Fresh("new", size).program = "none"
  BY DEF Fresh
<1>4. run[r].stage = "new" /\ "new" \notin Holding
  BY DEF Execute, At, Holding, OnThread, Outcomes
<1>5. UNCHANGED <<woken, isolates, verdict>>
  BY DEF Execute
<1>6. TypeOK'
  BY <1>1, <1>2, <1>5, AcquireType DEF PoolInv, TypeOK
<1>7. Pool'
  BY <1>1, <1>2, <1>3, <1>4, AcquirePool DEF PoolInv
<1>8. r \notin woken /\ \A i \in DOMAIN waiting : waiting[i] # r
  BY <1>4 DEF PoolInv, Sleepers, At
<1>9. Sleepers'
  BY <1>1, <1>2, <1>5, <1>8, AcquireSleepers DEF PoolInv
<1>10. QED
  BY <1>6, <1>7, <1>9 DEF PoolInv

\* A run that was woken takes the uid that is free.
LEMMA ResumePool ==
  ASSUME PoolInv, NEW r \in Runs, Resume(r)
  PROVE  PoolInv'
<1>1. Acquire(r, run[r]) /\ r \in woken /\ woken' = woken \ {r}
  BY DEF Resume
<1>2. run[r] \in Progress
  BY DEF PoolInv, TypeOK
<1>3. run[r].stage = "waiting" /\ "waiting" \notin Holding
  BY <1>1 DEF PoolInv, Sleepers, At, Holding, OnThread, Outcomes
<1>4. run[r].uid = NoUid /\ run[r].program # "running"
  BY <1>3 DEF PoolInv, Pool
<1>5. TypeOK'
  BY <1>1, <1>2, AcquireType DEF PoolInv, TypeOK, Resume
<1>6. Pool'
  BY <1>1, <1>2, <1>3, <1>4, AcquirePool DEF PoolInv
<1>7. \A i \in DOMAIN waiting : waiting[i] # r
  BY <1>1 DEF PoolInv, Sleepers
<1>8. Sleepers'
  BY <1>1, <1>2, <1>7, AcquireSleepers DEF PoolInv
<1>9. QED
  BY <1>5, <1>6, <1>8 DEF PoolInv

\* A run that is over puts its own uid back and wakes one sleeper.
LEMMA ReleasePool ==
  ASSUME PoolInv, NEW r \in Runs, Release(r)
  PROVE  PoolInv'
<1> DEFINE row == Fresh("done", 0)
<1>1. /\ run[r].stage \in Outcomes /\ free' = free \union {run[r].uid}
      /\ run' = [run EXCEPT ![r] = row] /\ WakeFirst
      /\ UNCHANGED <<isolates, verdict>>
  BY DEF Release
<1>2. row \in Progress /\ row.stage = "done" /\ row.uid = NoUid /\ row.program = "none"
  <2>1. row \in Progress
    BY FreshType DEF Stages
  <2>2. QED
    BY <2>1 DEF Fresh
<1> HIDE DEF row
<1>3. run'[r] = row /\ \A q \in Runs \ {r} : run'[q] = run[q]
  BY <1>1 DEF PoolInv, TypeOK
<1>4. run[r].stage \in Holding /\ "done" \notin Holding /\ run[r].stage # "waiting"
  BY <1>1 DEF Holding, OnThread, Outcomes
<1>5. run[r].uid \in Uids
  BY <1>4 DEF PoolInv, Pool
<1>6. waiting \in Seq(Runs) /\ woken \subseteq Runs
  BY DEF PoolInv, TypeOK
<1>7. ASSUME waiting = << >>
      PROVE  Sleepers' /\ waiting' \in Seq(Runs) /\ woken' \subseteq Runs
  <2>1. waiting' = waiting /\ woken' = woken
    BY <1>1, <1>7 DEF WakeFirst
  <2>2. DOMAIN waiting' = {}
    BY <1>7, <2>1
  <2>3. \A q \in woken' : run'[q].stage = "waiting"
    BY <1>3, <1>4, <1>6, <2>1 DEF PoolInv, Sleepers, At
  <2>4. QED
    BY <1>6, <2>1, <2>2, <2>3 DEF Sleepers, At
<1>8. ASSUME waiting # << >>
      PROVE  Sleepers' /\ waiting' \in Seq(Runs) /\ woken' \subseteq Runs
  <2>1. waiting' = Tail(waiting) /\ woken' = woken \union {Head(waiting)}
    BY <1>1, <1>8 DEF WakeFirst
  <2>2. /\ DOMAIN waiting = 1 .. Len(waiting) /\ Len(waiting) \in Nat \ {0}
        /\ Head(waiting) = waiting[1]
        /\ waiting' \in Seq(Runs)
        /\ DOMAIN waiting' = 1 .. Len(waiting) - 1
        /\ \A i \in DOMAIN waiting' : waiting'[i] = waiting[i + 1] /\ i + 1 \in DOMAIN waiting
    BY <1>6, <1>8, <2>1
  <2>3. \A i \in DOMAIN waiting : waiting[i] \in Runs \ {r} /\ run'[waiting[i]].stage = "waiting"
    BY <1>3, <1>4, <1>6 DEF PoolInv, Sleepers, At
  <2>4. 1 \in DOMAIN waiting
    BY <2>2
  <2>5. woken' \subseteq Runs /\ \A q \in woken' : run'[q].stage = "waiting"
    BY <1>3, <1>4, <1>6, <2>1, <2>2, <2>3, <2>4 DEF PoolInv, Sleepers, At
  <2>6. \A i \in DOMAIN waiting' : waiting'[i] # waiting[1]
    BY <2>2, <2>4 DEF PoolInv, Sleepers
  <2>7. \A i \in DOMAIN waiting' : run'[waiting'[i]].stage = "waiting" /\ waiting'[i] \notin woken'
    BY <2>1, <2>2, <2>3, <2>6 DEF PoolInv, Sleepers
  <2>8. \A i, j \in DOMAIN waiting' : waiting'[i] = waiting'[j] => i = j
    BY <2>2 DEF PoolInv, Sleepers
  <2>9. QED
    BY <2>2, <2>5, <2>7, <2>8 DEF Sleepers, At
<1>9. run' \in [Runs -> Progress] /\ free' \subseteq Uids
  BY <1>1, <1>2, <1>5 DEF PoolInv, TypeOK
<1>10. Pool'
  BY <1>1, <1>2, <1>3, <1>4, <1>5 DEF PoolInv, Pool
<1>11. TypeOK'
  BY <1>1, <1>7, <1>8, <1>9 DEF PoolInv, TypeOK
<1>12. QED
  BY <1>7, <1>8, <1>10, <1>11 DEF PoolInv

\* The pool in the initial state.
LEMMA InitPool == Init => PoolInv
<1> SUFFICES ASSUME Init PROVE PoolInv
  OBVIOUS
<1>1. Fresh("new", 0) \in Progress
  BY FreshType DEF Stages
<1>2. Fresh("new", 0).stage = "new" /\ Fresh("new", 0).uid = NoUid
      /\ Fresh("new", 0).program = "none"
  BY DEF Fresh
<1>3. TypeOK
  BY <1>1 DEF Init, TypeOK
<1>4. \A r \in Runs : run[r].stage = "new" /\ run[r].uid = NoUid /\ run[r].program = "none"
  BY <1>2 DEF Init
<1>5. Pool
  BY <1>4 DEF Pool, Holding, OnThread, Outcomes
<1>6. Sleepers
  BY DEF Init, Sleepers
<1>7. QED
  BY <1>3, <1>5, <1>6 DEF PoolInv

\* Every step keeps it.
LEMMA NextPool == PoolInv /\ [Next]_vars => PoolInv'
<1> SUFFICES ASSUME PoolInv, [Next]_vars PROVE PoolInv'
  OBVIOUS
<1>1. TypeOK
  BY DEF PoolInv
<1>2. CASE UNCHANGED vars
  BY <1>2 DEF vars, PoolInv, TypeOK, Sleepers, Pool, At
<1>3. ASSUME NEW r \in Runs, NEW next \in Progress, Goes(r, next), KeepsUid(run[r], next),
             verdict' \in {"unknown", "works", "broken"}
      PROVE  PoolInv'
  <2>1. TypeOK'
    BY <1>1, <1>3, GoesType
  <2>2. QED
    BY <1>3, <2>1, GoesPool DEF PoolInv
<1>4. ASSUME NEW r \in Runs, Execute(r) \/ Resume(r) \/ Release(r)
      PROVE  PoolInv'
  BY <1>4, ExecutePool, ResumePool, ReleasePool
<1>5. QED
  BY <1>1, <1>2, <1>3, <1>4, Steps

\* The state of the runner is always well formed.
THEOREM TypeCorrect == Spec => []TypeOK
<1>1. PoolInv => TypeOK
  BY DEF PoolInv
<1>2. QED
  BY <1>1, InitPool, NextPool, PTL DEF Spec

\* No two programs ever run under one uid at the same time, and the uid of a
\* program that runs is not in the pool, however many runs and threads there
\* are, and however sleepers and late comers take turns.
THEOREM UidsAreExclusive == Spec => []UidsExclusive
<1>1. PoolInv => UidsExclusive
  <2> SUFFICES ASSUME PoolInv, NEW r \in Runs, run[r].program = "running"
               PROVE  /\ run[r].uid \in Uids \ free
                      /\ \A q \in Runs \ {r} : run[q].uid # run[r].uid
    BY DEF UidsExclusive
  <2>1. run[r].stage \in Holding /\ run[r].uid \in Uids \ free
    BY DEF PoolInv, Pool
  <2>2. ASSUME NEW q \in Runs \ {r} PROVE run[q].uid # run[r].uid
    <3>1. CASE run[q].stage \in Holding
      BY <2>1, <3>1 DEF PoolInv, Pool
    <3>2. CASE run[q].stage \notin Holding
      BY <2>1, <3>2, UidAssumption DEF PoolInv, Pool
    <3>3. QED
      BY <3>1, <3>2
  <2>3. QED
    BY <2>1, <2>2
<1>2. QED
  BY <1>1, InitPool, NextPool, PTL DEF Spec

-----------------------------------------------------------------------------
(* Nobody sleeps beside a free uid.                                        *)

\* The sets that are counted, and their cardinalities.
LEMMA Counts ==
  ASSUME TypeOK
  PROVE  /\ IsFiniteSet(free) /\ IsFiniteSet(woken)
         /\ Cardinality(free) \in Nat /\ Cardinality(woken) \in Nat
BY FiniteAssumption, FS_Subset, FS_CardinalityType DEF TypeOK

\* A uid leaves the pool, or there was none; and a run that was woken, and
\* took it or went back to sleep, is not counted any more.
LEMMA AcquireCounts ==
  ASSUME PoolInv, NoSleeperMissesAUid, NEW r \in Runs, NEW next \in Progress, Acquire(r, next),
         woken' = woken \/ (r \in woken /\ woken' = woken \ {r}), woken' \subseteq Runs
  PROVE  NoSleeperMissesAUid'
<1>1. CASE free = {}
  <2>1. free' = {}
    BY <1>1 DEF Acquire
  <2>2. Cardinality(woken') \in Nat
    BY FiniteAssumption, FS_Subset, FS_CardinalityType
  <2>3. QED
    BY <2>1, <2>2, FS_EmptySet DEF NoSleeperMissesAUid
<1>2. CASE free # {}
  <2>1. PICK uid \in free : free' = free \ {uid} /\ waiting' = waiting
    BY <1>2 DEF Acquire
  <2>2. Cardinality(free') = Cardinality(free) - 1
    BY <2>1, Counts, FS_RemoveElement DEF PoolInv
  <2>3. Cardinality(woken') \in {Cardinality(woken), Cardinality(woken) - 1}
    BY Counts, FS_RemoveElement DEF PoolInv
  <2>4. QED
    BY <2>1, <2>2, <2>3, Counts DEF NoSleeperMissesAUid, PoolInv
<1>3. QED
  BY <1>1, <1>2

\* A uid comes back, and one more sleeper is woken.
LEMMA ReleaseCounts ==
  ASSUME PoolInv, NoSleeperMissesAUid, NEW r \in Runs, Release(r)
  PROVE  NoSleeperMissesAUid'
<1>1. free' = free \union {run[r].uid} /\ WakeFirst
  BY DEF Release
<1>2. run[r].uid \notin free
  BY DEF Release, PoolInv, Pool, Holding
<1>3. CASE waiting = << >>
  BY <1>1, <1>3 DEF WakeFirst, NoSleeperMissesAUid
<1>4. CASE waiting # << >>
  <2>1. woken' = woken \union {Head(waiting)}
    BY <1>1, <1>4 DEF WakeFirst
  <2>2. 1 \in DOMAIN waiting /\ Head(waiting) = waiting[1]
    BY <1>4 DEF PoolInv, TypeOK
  <2>3. Head(waiting) \notin woken
    BY <2>2 DEF PoolInv, Sleepers
  <2>4. Cardinality(woken') = Cardinality(woken) + 1
    BY <2>1, <2>3, Counts, FS_AddElement DEF PoolInv
  <2>5. Cardinality(free') = Cardinality(free) + 1
    BY <1>1, <1>2, Counts, FS_AddElement DEF PoolInv
  <2>6. QED
    BY <1>4, <2>4, <2>5, Counts DEF NoSleeperMissesAUid, PoolInv
<1>5. QED
  BY <1>3, <1>4

\* No wakeup is ever lost: while a run sleeps in acquire, every uid in the pool
\* is matched by a run that was woken and will look for it.
THEOREM NobodyMissesAUid == Spec => []NoSleeperMissesAUid
<1>1. Init => NoSleeperMissesAUid
  BY DEF Init, NoSleeperMissesAUid
<1>2. ASSUME PoolInv, NoSleeperMissesAUid, [Next]_vars PROVE NoSleeperMissesAUid'
  <2>1. TypeOK
    BY <1>2 DEF PoolInv
  <2>2. CASE UNCHANGED vars
    BY <1>2, <2>2 DEF vars, NoSleeperMissesAUid
  <2>3. ASSUME NEW r \in Runs, NEW next \in Progress, Goes(r, next)
        PROVE  NoSleeperMissesAUid'
    BY <1>2, <2>3 DEF Goes, NoSleeperMissesAUid
  <2>4. ASSUME NEW r \in Runs, Execute(r) PROVE NoSleeperMissesAUid'
    <3>1. PICK size \in Inputs : Acquire(r, Fresh("new", size))
      BY <2>4 DEF Execute
    <3>2. Fresh("new", size) \in Progress
      BY FreshType, SizesAssumption DEF Stages
    <3>3. woken' = woken /\ woken \subseteq Runs
      BY <2>1, <2>4 DEF Execute, TypeOK
    <3>4. QED
      BY <1>2, <3>1, <3>2, <3>3, AcquireCounts
  <2>5. ASSUME NEW r \in Runs, Resume(r) PROVE NoSleeperMissesAUid'
    <3>1. Acquire(r, run[r]) /\ r \in woken /\ woken' = woken \ {r}
      BY <2>5 DEF Resume
    <3>2. run[r] \in Progress /\ woken' \subseteq Runs
      BY <2>1, <3>1 DEF TypeOK
    <3>3. QED
      BY <1>2, <3>1, <3>2, AcquireCounts
  <2>6. ASSUME NEW r \in Runs, Release(r) PROVE NoSleeperMissesAUid'
    BY <1>2, <2>6, ReleaseCounts
  <2>7. QED
    BY <1>2, <2>1, <2>2, <2>3, <2>4, <2>5, <2>6, Steps
<1>3. QED
  BY <1>1, <1>2, InitPool, NextPool, PTL DEF Spec

-----------------------------------------------------------------------------
(* Answers.                                                                *)

\* A buffer holds the first bytes of those the reader took from the pipe.
Kept(out) ==
  /\ out.pipe <= out.written
  /\ out.kept = AtMost(out.written - out.pipe, OutputCap)
  /\ out.truncated <=> out.written - out.pipe > OutputCap

\* A run that has come past its program knows how that ended.
Known(p) ==
  /\ p.stage \in {"writing", "timing", "expired"} => p.program # "none"
  /\ p.stage \in {"joining", "answered"} => p.program \in {"exited", "killed"}
  /\ p.program = "killed" => p.timedOut
  /\ p.stage = "answered" => \A s \in Streams : p.out[s].pipe = 0

Faithful(p) == Known(p) /\ \A s \in Streams : Kept(p.out[s])

\* The steps of a thread.
LEMMA ServeFaithful ==
  ASSUME TypeOK, NEW r \in Runs, Faithful(run[r]),
         Begin(r) \/ Probe(r) \/ Spawn(r) \/ Write(r) \/ WriteBroken(r) \/ Written(r)
           \/ Waited(r) \/ Kill(r) \/ Return(r)
  PROVE  \E next : Goes(r, next) /\ Faithful(next)
<1> DEFINE p == run[r]
<1>1. p \in Progress /\ verdict \in {"unknown", "works", "broken"}
  BY DEF TypeOK
<1>2. ASSUME NEW st, st \in {"probing", "spawning", "refused", "failed"}
                        \/ (st \in {"timing", "expired"} /\ p.stage \in {"writing", "timing"})
                        \/ (st = "joining" /\ Ended(r))
                        \/ (st = "answered" /\ p.stage = "joining"
                              /\ \A s \in Streams : p.out[s].pipe = 0),
             Goes(r, [run[r] EXCEPT !.stage = st])
      PROVE  \E next : Goes(r, next) /\ Faithful(next)
  <2> DEFINE next == [run[r] EXCEPT !.stage = st]
  <2>1. /\ next.stage = st /\ next.program = p.program /\ next.out = p.out
        /\ next.timedOut = p.timedOut
    BY <1>1 DEF Progress
  <2>2. Goes(r, next)
    BY <1>2
  <2> HIDE DEF next
  <2>3. Known(next)
    BY <1>2, <2>1 DEF Faithful, Known, Ended
  <2>4. QED
    BY <2>1, <2>2, <2>3 DEF Faithful
<1>3. CASE Begin(r)
  BY <1>1, <1>2, <1>3 DEF Begin
<1>4. CASE Probe(r)
  BY <1>2, <1>4 DEF Probe
<1>5. CASE Spawn(r)
  <2>1. CASE Goes(r, [run[r] EXCEPT !.stage = "failed"])
    BY <1>2, <2>1
  <2>2. CASE Goes(r, [run[r] EXCEPT !.stage = "writing", !.program = "running"])
    <3> DEFINE next == [run[r] EXCEPT !.stage = "writing", !.program = "running"]
    <3>1. next.stage = "writing" /\ next.program = "running" /\ next.out = p.out
      BY <1>1 DEF Progress
    <3>2. Goes(r, next)
      BY <2>2
    <3> HIDE DEF next
    <3>3. QED
      BY <3>1, <3>2 DEF Faithful, Known
  <2>3. QED
    BY <1>5, <2>1, <2>2 DEF Spawn
<1>6. CASE Write(r)
  <2> DEFINE next == [run[r] EXCEPT !.left = @ - 1, !.pipe = @ + 1]
  <2>1. /\ next.stage = p.stage /\ next.program = p.program /\ next.out = p.out
        /\ next.timedOut = p.timedOut
    BY <1>1 DEF Progress
  <2>2. Goes(r, next)
    BY <1>6 DEF Write
  <2> HIDE DEF next
  <2>3. QED
    BY <2>1, <2>2 DEF Faithful, Known
<1>7. CASE WriteBroken(r)
  BY <1>2, <1>7 DEF WriteBroken, At
<1>8. CASE Written(r)
  BY <1>2, <1>8 DEF Written, At
<1>9. CASE Waited(r)
  BY <1>2, <1>9 DEF Waited, At
<1>10. CASE Kill(r)
  <2> DEFINE next == [run[r] EXCEPT !.stage = "joining", !.timedOut = TRUE,
                        !.program = IF @ = "running" THEN "killed" ELSE @]
  <2>1. /\ next.stage = "joining" /\ next.out = p.out /\ next.timedOut
        /\ next.program = IF p.program = "running" THEN "killed" ELSE p.program
    BY <1>1 DEF Progress
  <2>2. Goes(r, next) /\ p.stage = "expired"
    BY <1>10 DEF Kill, At
  <2>3. p.program \in {"running", "exited", "killed"}
    BY <1>1, <2>2, Fields DEF Faithful, Known
  <2> HIDE DEF next
  <2>4. Known(next)
    BY <2>1, <2>3 DEF Known
  <2>5. QED
    BY <2>1, <2>2, <2>4 DEF Faithful
<1>11. CASE Return(r)
  BY <1>2, <1>11 DEF Return, At
<1>12. QED
  BY <1>3, <1>4, <1>5, <1>6, <1>7, <1>8, <1>9, <1>10, <1>11

\* The steps of a reader and of a program.
LEMMA ProgramFaithful ==
  ASSUME TypeOK, NEW r \in Runs, Faithful(run[r]),
         (\E s \in Streams : Pump(r, s)) \/ Program(r)
  PROVE  \E next : Goes(r, next) /\ Faithful(next)
<1> DEFINE p == run[r]
<1>1. p \in Progress /\ DOMAIN p.out = Streams
  BY DEF TypeOK, Progress
<1>2. ASSUME NEW s \in Streams, NEW out \in Outputs, Kept(out),
             Goes(r, [run[r] EXCEPT !.out[s] = out]),
             p.stage = "answered" => out.pipe = 0
      PROVE  \E next : Goes(r, next) /\ Faithful(next)
  <2> DEFINE next == [run[r] EXCEPT !.out[s] = out]
  <2>1. /\ next.stage = p.stage /\ next.program = p.program /\ next.timedOut = p.timedOut
        /\ next.out[s] = out /\ \A o \in Streams \ {s} : next.out[o] = p.out[o]
    BY <1>1 DEF Progress
  <2>2. Goes(r, next)
    BY <1>2
  <2> HIDE DEF next
  <2>3. Known(next)
    BY <1>2, <2>1 DEF Faithful, Known
  <2>4. \A o \in Streams : Kept(next.out[o])
    BY <1>2, <2>1 DEF Faithful
  <2>5. QED
    BY <2>2, <2>3, <2>4 DEF Faithful
<1>3. ASSUME NEW s \in Streams, Pump(r, s)
      PROVE  \E next : Goes(r, next) /\ Faithful(next)
  <2> DEFINE out == run[r].out[s]
  <2>1. out \in Outputs /\ Kept(out)
    BY <1>1, Fields DEF Faithful
  <2>2. PICK n \in 1 .. out.pipe : Goes(r, [run[r] EXCEPT !.out[s] = Add(out, n)])
    BY <1>3 DEF Pump
  <2> HIDE DEF out
  <2>3. /\ Add(out, n) \in Outputs
        /\ Add(out, n).pipe = out.pipe - n
        /\ Add(out, n).written = out.written
        /\ Add(out, n).kept = AtMost(out.kept + n, OutputCap)
        /\ Add(out, n).truncated = (out.truncated \/ out.kept + n > OutputCap)
    BY <2>1, <2>2, AddType
  <2>4. out.pipe \in Nat /\ out.written \in Nat /\ out.kept \in Nat /\ n \in Nat
        /\ n >= 1 /\ n <= out.pipe /\ OutputCap \in Nat
    BY <2>1, <2>2, SizesAssumption DEF Outputs
  <2>5. /\ Add(out, n).pipe <= Add(out, n).written
        /\ Add(out, n).kept = AtMost(out.written - (out.pipe - n), OutputCap)
    BY <2>1, <2>3, <2>4 DEF Kept, AtMost
  <2>6. (out.truncated \/ out.kept + n > OutputCap)
          <=> out.written - (out.pipe - n) > OutputCap
    BY <2>1, <2>4 DEF Kept, AtMost
  <2>7. Kept(Add(out, n))
    BY <2>3, <2>5, <2>6 DEF Kept
  <2>8. p.stage # "answered"
    BY <2>4 DEF Faithful, Known, out
  <2>9. QED
    BY <1>2, <2>2, <2>3, <2>7, <2>8
<1>4. CASE Read(r)
  <2> DEFINE next == [run[r] EXCEPT !.pipe = @ - 1]
  <2>1. /\ next.stage = p.stage /\ next.program = p.program /\ next.out = p.out
        /\ next.timedOut = p.timedOut
    BY <1>1 DEF Progress
  <2>2. Goes(r, next)
    BY <1>4 DEF Read
  <2> HIDE DEF next
  <2>3. QED
    BY <2>1, <2>2 DEF Faithful, Known
<1>5. ASSUME NEW s \in Streams, Output(r, s)
      PROVE  \E next : Goes(r, next) /\ Faithful(next)
  <2> DEFINE out == run[r].out[s]
             more == [out EXCEPT !.written = @ + 1, !.pipe = @ + 1]
  <2>1. out \in Outputs /\ Kept(out)
    BY <1>1, Fields DEF Faithful
  <2>2. Goes(r, [run[r] EXCEPT !.out[s] = more])
    BY <1>1, <1>5 DEF Output, Progress
  <2>3. p.stage # "answered"
    BY <1>5 DEF Output, Faithful, Known
  <2> HIDE DEF out
  <2>4. /\ more \in Outputs
        /\ more.written = out.written + 1 /\ more.pipe = out.pipe + 1
        /\ more.kept = out.kept /\ more.truncated = out.truncated
    <3>1. out.written + 1 \in Nat /\ out.pipe + 1 \in Nat
      BY <2>1 DEF Outputs
    <3>2. more \in Outputs
      BY <2>1, <3>1 DEF Outputs
    <3>3. more.written = out.written + 1 /\ more.pipe = out.pipe + 1
      BY <2>1 DEF Outputs
    <3>4. more.kept = out.kept /\ more.truncated = out.truncated
      BY <2>1 DEF Outputs
    <3>5. QED
      BY <3>2, <3>3, <3>4
  <2>5. out.pipe \in Nat /\ out.written \in Nat
    BY <2>1 DEF Outputs
  <2> HIDE DEF more
  <2>6. more.written - more.pipe = out.written - out.pipe /\ more.pipe <= more.written
    BY <2>1, <2>4, <2>5 DEF Kept
  <2>7. Kept(more)
    BY <2>1, <2>4, <2>6 DEF Kept
  <2>8. QED
    BY <1>2, <2>2, <2>3, <2>4, <2>7
<1>6. CASE Exit(r)
  <2> DEFINE next == [run[r] EXCEPT !.program = "exited"]
  <2>1. /\ next.stage = p.stage /\ next.program = "exited" /\ next.out = p.out
    BY <1>1 DEF Progress
  <2>2. Goes(r, next)
    BY <1>6 DEF Exit
  <2> HIDE DEF next
  <2>3. Known(next)
    BY <2>1 DEF Faithful, Known
  <2>4. QED
    BY <2>1, <2>2, <2>3 DEF Faithful
<1>7. QED
  BY <1>3, <1>4, <1>5, <1>6 DEF Program

\* A run that has not begun has nothing to be wrong about.
LEMMA FreshFaithful ==
  ASSUME NEW st, st \in {"new", "done"}
  PROVE  Faithful(Fresh(st, 0)) /\ \A size : Faithful(Fresh(st, size))
<1>1. ASSUME NEW size PROVE Faithful(Fresh(st, size))
  <2> DEFINE p == Fresh(st, size)
  <2>1. p.stage = st /\ p.program = "none" /\ \A s \in Streams : p.out[s] =
          [written |-> 0, pipe |-> 0, kept |-> 0, truncated |-> FALSE]
    BY DEF Fresh
  <2> HIDE DEF p
  <2>2. \A s \in Streams : Kept(p.out[s])
    BY <2>1, SizesAssumption DEF Kept, AtMost
  <2>3. Known(p)
    BY <2>1 DEF Known
  <2>4. QED
    BY <2>2, <2>3 DEF Faithful, p
<1>2. QED
  BY <1>1

\* Nor does it become so in the pool.
LEMMA AcquireFaithful ==
  ASSUME NEW r \in Runs, NEW next \in Progress, Acquire(r, next), Faithful(next)
  PROVE  \E row : run' = [run EXCEPT ![r] = row] /\ Faithful(row)
<1>1. ASSUME NEW uid, run' = [run EXCEPT ![r] = [next EXCEPT !.stage = "queued", !.uid = uid]]
      PROVE  \E row : run' = [run EXCEPT ![r] = row] /\ Faithful(row)
  <2> DEFINE row == [next EXCEPT !.stage = "queued", !.uid = uid]
  <2>1. /\ row.stage = "queued" /\ row.program = next.program /\ row.out = next.out
        /\ row.timedOut = next.timedOut
    BY DEF Progress
  <2>2. run' = [run EXCEPT ![r] = row]
    BY <1>1
  <2> HIDE DEF row
  <2>3. QED
    BY <2>1, <2>2 DEF Faithful, Known
<1>2. CASE run' = [run EXCEPT ![r] = [next EXCEPT !.stage = "waiting"]]
  <2> DEFINE row == [next EXCEPT !.stage = "waiting"]
  <2>1. /\ row.stage = "waiting" /\ row.program = next.program /\ row.out = next.out
        /\ row.timedOut = next.timedOut
    BY DEF Progress
  <2>2. run' = [run EXCEPT ![r] = row]
    BY <1>2
  <2> HIDE DEF row
  <2>3. QED
    BY <2>1, <2>2 DEF Faithful, Known
<1>3. QED
  BY <1>1, <1>2 DEF Acquire

\* Whatever a program writes, and however its readers and its end interleave,
\* an answer holds the first bytes of its streams up to the cap, says when
\* there was more, and says that the program was killed when it was.
THEOREM AnswersAreFaithful == Spec => []ResultFaithful
<1> DEFINE Inv == \A r \in Runs : Faithful(run[r])
<1>1. Init => Inv
  BY FreshFaithful DEF Init
<1>2. ASSUME PoolInv, Inv, [Next]_vars PROVE Inv'
  <2>1. TypeOK
    BY <1>2 DEF PoolInv
  <2>2. ASSUME NEW r \in Runs, NEW row, run' = [run EXCEPT ![r] = row], Faithful(row)
        PROVE  Inv'
    <3>1. run'[r] = row /\ \A q \in Runs \ {r} : run'[q] = run[q]
      BY <2>1, <2>2 DEF TypeOK
    <3>2. ASSUME NEW q \in Runs PROVE Faithful(run'[q])
      BY <1>2, <2>2, <3>1
    <3>3. QED
      BY <3>2
  <2> SUFFICES ASSUME ~ UNCHANGED vars
               PROVE  \E r \in Runs : \E row : run' = [run EXCEPT ![r] = row] /\ Faithful(row)
    BY <1>2, <2>2 DEF vars
  <2> HIDE DEF Inv
  <2>3. PICK r \in Runs : \/ Execute(r) \/ Serve(r) \/ Program(r)
                         \/ \E s \in Streams : Pump(r, s)
    BY <1>2 DEF Next
  <2>4. Faithful(run[r]) /\ run[r] \in Progress
    BY <1>2, <2>1 DEF TypeOK, Inv
  <2>5. CASE Execute(r)
    <3>1. PICK size \in Inputs : Acquire(r, Fresh("new", size))
      BY <2>5 DEF Execute
    <3>2. Fresh("new", size) \in Progress
      BY FreshType, SizesAssumption DEF Stages
    <3>3. QED
      BY <3>1, <3>2, FreshFaithful, AcquireFaithful
  <2>6. CASE Resume(r)
    BY <2>4, <2>6, AcquireFaithful DEF Resume
  <2>7. CASE Release(r)
    BY <2>7, FreshFaithful DEF Release
  <2>8. CASE Begin(r) \/ Probe(r) \/ Spawn(r) \/ Write(r) \/ WriteBroken(r) \/ Written(r)
               \/ Waited(r) \/ Kill(r) \/ Return(r)
    BY <2>1, <2>4, <2>8, ServeFaithful DEF Goes
  <2>9. CASE (\E s \in Streams : Pump(r, s)) \/ Program(r)
    BY <2>1, <2>4, <2>9, ProgramFaithful DEF Goes
  <2>10. QED
    BY <2>3, <2>5, <2>6, <2>7, <2>8, <2>9 DEF Serve
<1>3. Inv /\ TypeOK => ResultFaithful
  <2> SUFFICES ASSUME Inv, TypeOK, NEW r \in Runs, At(r, "answered")
               PROVE  /\ \A s \in Streams :
                           /\ run[r].out[s].kept = AtMost(run[r].out[s].written, OutputCap)
                           /\ run[r].out[s].truncated <=> run[r].out[s].written > OutputCap
                      /\ Ended(r)
                      /\ run[r].program = "killed" => run[r].timedOut
    BY DEF ResultFaithful
  <2>1. run[r] \in Progress /\ Faithful(run[r]) /\ run[r].stage = "answered"
    BY DEF TypeOK, At
  <2>2. \A s \in Streams : run[r].out[s] \in Outputs /\ run[r].out[s].pipe = 0
                         /\ Kept(run[r].out[s])
    BY <2>1, Fields DEF Faithful, Known
  <2>3. \A s \in Streams : run[r].out[s].written - run[r].out[s].pipe = run[r].out[s].written
    BY <2>2 DEF Outputs
  <2>4. QED
    BY <2>1, <2>2, <2>3 DEF Kept, Faithful, Known, Ended
<1>4. PoolInv => TypeOK
  BY DEF PoolInv
<1> HIDE DEF Inv
<1>5. QED
  BY <1>1, <1>2, <1>3, <1>4, InitPool, NextPool, PTL DEF Spec
-----------------------------------------------------------------------------
(* Runs never all wait for each other.                                     *)

\* The event loop, a worker thread or a reader can do something for r, and
\* needs neither another run nor the program of r for it.  These are the
\* guards of Serve; of a run whose readers are joined, also that of Pump.
CanGoOn(r) ==
  \/ r \in woken
  \/ At(r, "queued") /\ Cardinality(Busy) < Workers
  \/ run[r].stage \in {"probing", "spawning", "timing", "expired", "joining"} \union Outcomes
  \/ At(r, "writing") /\ (run[r].left = 0 \/ Ended(r) \/ run[r].pipe < PipeCapacity)

NoStandstill ==
  \/ \A r \in Runs : run[r].stage \in {"new", "done"}
  \/ \E r \in Runs : CanGoOn(r)

\* What is not written of an input yet, and what is in the pipe, are of it.
Fits(p) == p.size <= PipeCapacity /\ p.pipe + p.left <= p.size

\* Who waits for a uid is asleep or was woken; no uid is lost; and inputs fit
\* into a pipe.
Accounted ==
  /\ \A r \in Runs : At(r, "waiting") => r \in woken \/ \E i \in DOMAIN waiting : waiting[i] = r
  /\ \A uid \in Uids : uid \in free \/ \E r \in Runs : run[r].stage \in Holding /\ run[r].uid = uid
  /\ \A r \in Runs : Fits(run[r])

\* What is written of an input and what is read of it add up to no more.
LEMMA ServeFits ==
  ASSUME TypeOK, NEW r \in Runs, Fits(run[r]),
         Begin(r) \/ Probe(r) \/ Spawn(r) \/ Write(r) \/ WriteBroken(r) \/ Written(r)
           \/ Waited(r) \/ Kill(r) \/ Return(r) \/ Program(r) \/ \E s \in Streams : Pump(r, s)
  PROVE  Fits(run'[r])
<1> DEFINE p == run[r]
<1>1. p \in Progress
  BY DEF TypeOK
<1>2. p.size \in Nat /\ p.left \in Nat /\ p.pipe \in Nat
  BY <1>1, Fields
<1>3. ASSUME NEW next, Goes(r, next), next.size = p.size, next.pipe + next.left <= p.pipe + p.left,
             next.pipe \in Nat, next.left \in Nat
      PROVE  Fits(run'[r])
  <2>1. run'[r] = next
    BY <1>3 DEF Goes, TypeOK
  <2>2. next.pipe + next.left <= p.size
    <3> HIDE DEF p
    <3>1. p.pipe + p.left <= p.size
      BY DEF Fits, p
    <3>2. \A a, b, c, d, e \in Nat : a + b <= c + d /\ c + d <= e => a + b <= e
      OBVIOUS
    <3>3. QED
      BY <1>2, <1>3, <3>1, <3>2
  <2>3. QED
    BY <1>3, <2>1, <2>2 DEF Fits
<1>4. CASE Write(r)
  <2> DEFINE next == [p EXCEPT !.left = p.left - 1, !.pipe = p.pipe + 1]
  <2>1. Goes(r, next) /\ p.left > 0
    BY <1>4 DEF Write
  <2>2. next.size = p.size /\ next.left = p.left - 1 /\ next.pipe = p.pipe + 1
    BY <1>1 DEF Progress
  <2> HIDE DEF next, p
  <2>3. next.pipe \in Nat /\ next.left \in Nat /\ next.pipe + next.left <= p.pipe + p.left
    BY <1>2, <2>1, <2>2
  <2>4. QED
    BY <1>3, <2>1, <2>2, <2>3
<1>5. CASE Read(r)
  <2> DEFINE next == [p EXCEPT !.pipe = p.pipe - 1]
  <2>1. Goes(r, next) /\ p.pipe > 0
    BY <1>5 DEF Read
  <2>2. next.size = p.size /\ next.left = p.left /\ next.pipe = p.pipe - 1
    BY <1>1 DEF Progress
  <2> HIDE DEF next, p
  <2>3. next.pipe \in Nat /\ next.left \in Nat /\ next.pipe + next.left <= p.pipe + p.left
    BY <1>2, <2>1, <2>2
  <2>4. QED
    BY <1>3, <2>1, <2>2, <2>3
<1>6. ASSUME NEW next, Goes(r, next), next.size = p.size, next.left = p.left, next.pipe = p.pipe
      PROVE  Fits(run'[r])
  BY <1>2, <1>3, <1>6
<1>7. ASSUME NEW st, Goes(r, [p EXCEPT !.stage = st])
      PROVE  Fits(run'[r])
  <2>1. LET next == [p EXCEPT !.stage = st]
        IN  next.size = p.size /\ next.left = p.left /\ next.pipe = p.pipe
    BY <1>1 DEF Progress
  <2>2. QED
    BY <1>6, <1>7, <2>1
<1>8. CASE Begin(r) \/ Probe(r) \/ WriteBroken(r) \/ Written(r) \/ Waited(r) \/ Return(r)
  <2>1. \E st : Goes(r, [p EXCEPT !.stage = st])
    BY <1>8 DEF Begin, Probe, WriteBroken, Written, Waited, Return
  <2>2. QED
    BY <1>7, <2>1
<1>9. CASE Spawn(r)
  <2>1. LET next == [p EXCEPT !.stage = "writing", !.program = "running"]
        IN  next.size = p.size /\ next.left = p.left /\ next.pipe = p.pipe
    BY <1>1 DEF Progress
  <2>2. \/ Goes(r, [p EXCEPT !.stage = "writing", !.program = "running"])
        \/ Goes(r, [p EXCEPT !.stage = "failed"])
    BY <1>9 DEF Spawn
  <2>3. QED
    BY <1>6, <1>7, <2>1, <2>2
<1>10. CASE Kill(r)
  <2> DEFINE prog == IF p.program = "running" THEN "killed" ELSE p.program
             next == [p EXCEPT !.stage = "joining", !.timedOut = TRUE, !.program = prog]
  <2>1. Goes(r, next)
    BY <1>10 DEF Kill
  <2>2. next.size = p.size /\ next.left = p.left /\ next.pipe = p.pipe
    BY <1>1 DEF Progress
  <2> HIDE DEF next
  <2>3. QED
    BY <1>6, <2>1, <2>2
<1>11. ASSUME NEW s \in Streams, NEW o, Goes(r, [p EXCEPT !.out[s] = o])
       PROVE  Fits(run'[r])
  <2>1. LET next == [p EXCEPT !.out[s] = o]
        IN  next.size = p.size /\ next.left = p.left /\ next.pipe = p.pipe
    BY <1>1 DEF Progress
  <2>2. QED
    BY <1>6, <1>11, <2>1
<1>12. ASSUME NEW s \in Streams, Pump(r, s) PROVE Fits(run'[r])
  <2>1. \E o : Goes(r, [p EXCEPT !.out[s] = o])
    BY <1>12 DEF Pump
  <2>2. QED
    BY <1>11, <2>1
<1>13. ASSUME NEW s \in Streams, Output(r, s) PROVE Fits(run'[r])
  <2> DEFINE more == [p.out[s] EXCEPT !.written = @ + 1, !.pipe = @ + 1]
  <2>1. Goes(r, [p EXCEPT !.out[s] = more])
    BY <1>1, <1>13 DEF Output, Progress
  <2> HIDE DEF more
  <2>2. QED
    BY <1>11, <2>1
<1>14. CASE Exit(r)
  <2>1. LET next == [p EXCEPT !.program = "exited"]
        IN  next.size = p.size /\ next.left = p.left /\ next.pipe = p.pipe
    BY <1>1 DEF Progress
  <2>2. QED
    BY <1>6, <1>14, <2>1 DEF Exit
<1>15. QED
  BY <1>4, <1>5, <1>8, <1>9, <1>10, <1>12, <1>13, <1>14 DEF Program
\* A run that asks for a uid has what it had, and is in the queue if not served.
LEMMA AcquireAccounted ==
  ASSUME PoolInv, Accounted, NEW r \in Runs, NEW next \in Progress, Acquire(r, next), Fits(next),
         run[r].stage \notin Holding, woken' \in {woken, woken \ {r}}
  PROVE  Accounted'
<1>1. PICK row \in Progress :
        /\ run' = [run EXCEPT ![r] = row]
        /\ row.program = next.program
        /\ \/ /\ row.stage = "waiting" /\ row.uid = next.uid
              /\ free = {} /\ free' = free
              /\ waiting' = Append(waiting, r)
           \/ /\ row.stage = "queued" /\ row.uid \in free
              /\ free' = free \ {row.uid}
              /\ waiting' = waiting
  BY AcquireRows DEF PoolInv
<1>2. run'[r] = row /\ \A q \in Runs \ {r} : run'[q] = run[q]
  BY <1>1 DEF PoolInv, TypeOK
<1>3. Fits(row)
  <2>1. \/ row = [next EXCEPT !.stage = "waiting"]
        \/ \E uid : row = [next EXCEPT !.stage = "queued", !.uid = uid]
    BY <1>2 DEF Acquire, PoolInv, TypeOK
  <2>2. row.size = next.size /\ row.pipe = next.pipe /\ row.left = next.left
    BY <2>1 DEF Progress
  <2>3. QED
    BY <2>2 DEF Fits
<1>4. \A q \in Runs : Fits(run'[q])
  BY <1>2, <1>3 DEF Accounted
<1>5. ASSUME NEW q \in Runs, run'[q].stage = "waiting"
      PROVE  q \in woken' \/ \E i \in DOMAIN waiting' : waiting'[i] = q
  <2>1. waiting \in Seq(Runs)
    BY DEF PoolInv, TypeOK
  <2>2. \A i \in DOMAIN waiting : i \in DOMAIN waiting' /\ waiting'[i] = waiting[i]
    BY <1>1, <2>1
  <2>3. CASE q # r
    BY <1>2, <1>5, <2>2, <2>3 DEF Accounted, At
  <2>4. CASE q = r
    <3>1. waiting' = Append(waiting, r)
      BY <1>1, <1>2, <1>5, <2>4
    <3>2. Len(waiting) + 1 \in DOMAIN waiting' /\ waiting'[Len(waiting) + 1] = r
      BY <2>1, <3>1
    <3>3. QED
      BY <2>4, <3>2
  <2>5. QED
    BY <2>3, <2>4
<1>6. ASSUME NEW uid \in Uids
      PROVE  uid \in free' \/ \E q \in Runs : run'[q].stage \in Holding /\ run'[q].uid = uid
  <2>1. CASE uid \in free
    BY <1>1, <1>2, <2>1 DEF Holding
  <2>2. CASE uid \notin free
    <3>1. PICK q \in Runs : run[q].stage \in Holding /\ run[q].uid = uid
      BY <2>2 DEF Accounted
    <3>2. q # r
      BY <3>1
    <3>3. QED
      BY <1>2, <3>1, <3>2
  <2>3. QED
    BY <2>1, <2>2
<1>7. QED
  BY <1>4, <1>5, <1>6 DEF Accounted, At

\* A uid comes back to the pool, and the first sleeper is woken.
LEMMA ReleaseAccounted ==
  ASSUME PoolInv, Accounted, NEW r \in Runs, Release(r)
  PROVE  Accounted'
<1> DEFINE row == Fresh("done", 0)
<1>1. /\ run[r].stage \in Outcomes /\ free' = free \union {run[r].uid}
      /\ run' = [run EXCEPT ![r] = row] /\ WakeFirst
  BY DEF Release
<1>2. row.stage = "done" /\ row.size = 0 /\ row.left = 0 /\ row.pipe = 0
  BY DEF Fresh
<1>3. Fits(row)
  BY <1>2, SizesAssumption DEF Fits
<1> HIDE DEF row
<1>4. run'[r] = row /\ \A q \in Runs \ {r} : run'[q] = run[q]
  BY <1>1 DEF PoolInv, TypeOK
<1>5. \A q \in Runs : Fits(run'[q])
  BY <1>3, <1>4 DEF Accounted
<1>6. ASSUME NEW q \in Runs, run'[q].stage = "waiting"
      PROVE  q \in woken' \/ \E i \in DOMAIN waiting' : waiting'[i] = q
  <2>1. run[q].stage = "waiting" /\ waiting \in Seq(Runs)
    BY <1>2, <1>4, <1>6 DEF PoolInv, TypeOK
  <2>2. woken \subseteq woken'
    BY <1>1 DEF WakeFirst
  <2>3. CASE q \in woken
    BY <2>2, <2>3
  <2>4. ASSUME NEW i \in DOMAIN waiting, waiting[i] = q
        PROVE  q \in woken' \/ \E j \in DOMAIN waiting' : waiting'[j] = q
    <3>1. waiting # << >> /\ waiting' = Tail(waiting) /\ woken' = woken \union {Head(waiting)}
      BY <1>1, <2>1, <2>4 DEF WakeFirst
    <3>2. CASE i = 1
      BY <2>1, <2>4, <3>1, <3>2
    <3>3. CASE i # 1
      <4>1. i - 1 \in DOMAIN waiting' /\ waiting'[i - 1] = waiting[i]
        BY <2>1, <3>1, <3>3
      <4>2. QED
        BY <2>4, <4>1
    <3>4. QED
      BY <3>2, <3>3
  <2>5. QED
    BY <2>1, <2>3, <2>4 DEF Accounted, At
<1>7. ASSUME NEW uid \in Uids
      PROVE  uid \in free' \/ \E q \in Runs : run'[q].stage \in Holding /\ run'[q].uid = uid
  <2>1. CASE uid \in free'
    BY <2>1
  <2>2. CASE uid \notin free'
    <3>1. PICK q \in Runs : run[q].stage \in Holding /\ run[q].uid = uid
      BY <1>1, <2>2 DEF Accounted
    <3>2. q # r
      BY <1>1, <2>2, <3>1
    <3>3. QED
      BY <1>4, <3>1, <3>2
  <2>3. QED
    BY <2>1, <2>2
<1>8. QED
  BY <1>5, <1>6, <1>7 DEF Accounted, At

\* Every step keeps it, if inputs fit into a pipe.
LEMMA AccountedStep ==
  ASSUME \A n \in Inputs : n <= PipeCapacity, PoolInv, Accounted, [Next]_vars
  PROVE  Accounted'
<1>0. TypeOK
  BY DEF PoolInv
<1>1. CASE UNCHANGED vars
  BY <1>1 DEF vars, Accounted, At, Fits
<1>2. ASSUME NEW r \in Runs, Fits(run'[r]),
             NEW next \in Progress, Goes(r, next), KeepsUid(run[r], next)
      PROVE  Accounted'
  <2>1. run'[r] = next /\ \A q \in Runs \ {r} : run'[q] = run[q]
    BY <1>0, <1>2 DEF TypeOK, Goes
  <2>2. free' = free /\ waiting' = waiting /\ woken' = woken
    BY <1>2 DEF Goes
  <2>3. \A q \in Runs : run'[q].uid = run[q].uid
                       /\ (run'[q].stage \in Holding <=> run[q].stage \in Holding)
                       /\ (run'[q].stage = "waiting" => run[q].stage = "waiting")
    BY <1>2, <2>1 DEF KeepsUid, Holding, OnThread, Outcomes
  <2>4. \A q \in Runs : Fits(run'[q])
    BY <1>2, <2>1 DEF Accounted
  <2>5. QED
    BY <2>2, <2>3, <2>4 DEF Accounted, At
<1>3. ASSUME NEW r \in Runs,
             Begin(r) \/ Probe(r) \/ Spawn(r) \/ Write(r) \/ WriteBroken(r) \/ Written(r)
               \/ Waited(r) \/ Kill(r) \/ Return(r)
      PROVE  Accounted'
  <2>1. Fits(run'[r])
    BY <1>0, <1>3, ServeFits DEF Accounted
  <2>2. PICK next \in Progress : Goes(r, next) /\ KeepsUid(run[r], next)
    BY <1>0, <1>3, ServeRecord
  <2>3. QED
    BY <1>2, <2>1, <2>2
<1>4. ASSUME NEW r \in Runs, (\E s \in Streams : Pump(r, s)) \/ Program(r)
      PROVE  Accounted'
  <2>1. Fits(run'[r])
    BY <1>0, <1>4, ServeFits DEF Accounted
  <2>2. PICK next \in Progress : Goes(r, next) /\ KeepsUid(run[r], next)
    BY <1>0, <1>4, ProgramRecord
  <2>3. QED
    BY <1>2, <2>1, <2>2
<1>5. ASSUME NEW r \in Runs, Execute(r) PROVE Accounted'
  <2>1. PICK size \in Inputs : Acquire(r, Fresh("new", size))
    BY <1>5 DEF Execute
  <2>2. Fresh("new", size) \in Progress
    BY FreshType, SizesAssumption DEF Stages
  <2>3. Fits(Fresh("new", size))
    <3>1. size \in Nat /\ size <= PipeCapacity
      BY <2>1, SizesAssumption
    <3>2. QED
      BY <3>1 DEF Fits, Fresh
  <2>4. run[r].stage \notin Holding /\ woken' = woken
    BY <1>5 DEF Execute, At, Holding, OnThread, Outcomes
  <2>5. QED
    BY <2>1, <2>2, <2>3, <2>4, AcquireAccounted
<1>6. ASSUME NEW r \in Runs, Resume(r) PROVE Accounted'
  <2>1. Acquire(r, run[r]) /\ r \in woken /\ woken' = woken \ {r}
    BY <1>6 DEF Resume
  <2>2. run[r] \in Progress /\ Fits(run[r])
    BY <1>0 DEF TypeOK, Accounted
  <2>3. run[r].stage \notin Holding
    BY <2>1 DEF PoolInv, Sleepers, At, Holding, OnThread, Outcomes
  <2>4. QED
    BY <2>1, <2>2, <2>3, AcquireAccounted
<1>7. ASSUME NEW r \in Runs, Release(r) PROVE Accounted'
  BY <1>7, ReleaseAccounted
<1>8. QED
  BY <1>1, <1>3, <1>4, <1>5, <1>6, <1>7 DEF Next, Serve

\* Where EveryRunEnds gets its progress from.  As long as the runner has a uid
\* and a thread, and inputs fit into a pipe, there is no state in which every
\* request that came waits for another one, for a uid, a thread, a wakeup or
\* its own program.
THEOREM RunsNeverAllWait ==
  ASSUME Uids # {}, Workers > 0, \A n \in Inputs : n <= PipeCapacity
  PROVE  Spec => []NoStandstill
<1>1. Init => Accounted
  <2> SUFFICES ASSUME Init PROVE Accounted
    OBVIOUS
  <2>1. \A r \in Runs : run[r] = Fresh("new", 0)
    BY DEF Init
  <2>2. \A r \in Runs : /\ run[r].stage = "new" /\ run[r].size = 0
                        /\ run[r].left = 0 /\ run[r].pipe = 0
    BY <2>1 DEF Fresh
  <2>3. QED
    BY <2>2, SizesAssumption DEF Init, Accounted, At, Fits
<1>2. PoolInv /\ Accounted /\ [Next]_vars => Accounted'
  BY AccountedStep
<1>3. ASSUME PoolInv, Accounted, NoSleeperMissesAUid
      PROVE  NoStandstill
  <2> SUFFICES ASSUME NEW r \in Runs, run[r].stage \notin {"new", "done"},
                      \A q \in Runs : ~ CanGoOn(q)
               PROVE  FALSE
    BY DEF NoStandstill
  <2>0. \A q \in Runs : run[q] \in Progress /\ run[q].stage \in Stages
    BY <1>3, Fields DEF PoolInv, TypeOK
  <2>1. woken = {}
    BY <1>3 DEF CanGoOn, PoolInv, TypeOK
  <2>2. \A q \in Runs : run[q].stage \notin OnThread
    <3> SUFFICES ASSUME NEW q \in Runs, run[q].stage = "writing" PROVE FALSE
      BY DEF CanGoOn, OnThread
    <3>1. run[q].left # 0 /\ ~ (run[q].pipe < PipeCapacity)
      BY DEF CanGoOn, At
    <3>2. run[q].left \in Nat /\ run[q].pipe \in Nat /\ run[q].size \in Nat /\ PipeCapacity \in Nat
      BY <2>0, Fields, SizesAssumption
    <3>3. run[q].size <= PipeCapacity /\ run[q].pipe + run[q].left <= run[q].size
      BY <1>3 DEF Accounted, Fits
    <3>4. QED
      BY <3>1, <3>2, <3>3
  <2>3. Busy = {}
    BY <2>2 DEF Busy
  <2>4. \A q \in Runs : run[q].stage \notin Holding
    <3>1. \A q \in Runs : run[q].stage # "queued"
      BY <2>3, FS_EmptySet, SizesAssumption DEF CanGoOn, At
    <3>2. QED
      BY <2>2, <3>1 DEF CanGoOn, Holding
  <2>5. free # {}
    BY <1>3, <2>4 DEF Accounted
  <2>6. run[r].stage = "waiting"
    BY <2>0, <2>4 DEF Holding, Stages
  <2>7. waiting # << >>
    BY <1>3, <2>1, <2>6 DEF Accounted, At
  <2>8. Cardinality(free) <= 0
    BY <1>3, <2>1, <2>7, FS_EmptySet DEF NoSleeperMissesAUid
  <2>9. QED
    BY <1>3, <2>5, <2>8, Counts, FS_EmptySet DEF PoolInv
<1>4. QED
  BY <1>1, <1>2, <1>3, InitPool, NextPool, NobodyMissesAUid, PTL DEF Spec

=============================================================================
