---------------------------- MODULE ScheduleProofs ----------------------------
(***************************************************************************)
(* Proofs about Schedule, for any tasks, clock and number of executions.   *)
(* Four invariants: what the walk refers to is in the map (MapInv), what   *)
(* the executions of a task say of its StartTime (RunInv), one execution   *)
(* under way for each task while executions begin promptly (PromptInv),    *)
(* and the one walk that comes to a one-shot task in its second            *)
(* (SteadyInv).                                                            *)
(***************************************************************************)
EXTENDS Schedule, SequenceTheorems, TLAPS

-----------------------------------------------------------------------------
(***************************************************************************)
(* Types                                                                   *)
(***************************************************************************)
\* The task that a walk is about to delete is in the map, or one that AddJob has
\* put there since, and the walk does not come to its name again.
MapInv ==
  deleting # None => walking /\ deleting \notin todo /\ tasks[deleting] # None

\* doTask adds one execution, now, at the end of those that are recorded, unless
\* there are MaxRuns of them already.
LEMMA DoTaskRuns ==
  ASSUME TypeOK, NEW t \in Tasks, DoTask(t)
  PROVE  /\ runs' \in [Tasks -> Seq(1..now)]
         /\ \A u \in Tasks \ {t} : runs'[u] = runs[u]
         /\ IF Len(runs[t]) < MaxRuns
              THEN /\ Len(runs'[t]) = Len(runs[t]) + 1
                   /\ runs'[t][Len(runs[t]) + 1] = now
                   /\ \A i \in 1..Len(runs[t]) : runs'[t][i] = runs[t][i]
              ELSE runs'[t] = runs[t]
         /\ runs'[t] # <<>>
<1>1. runs[t] \in Seq(1..now) /\ now \in 1..now /\ runs \in [Tasks -> Seq(1..now)]
  BY DEF TypeOK
<1>2. /\ Append(runs[t], now) \in Seq(1..now) /\ Append(runs[t], now) # <<>>
      /\ Len(Append(runs[t], now)) = Len(runs[t]) + 1
      /\ Append(runs[t], now)[Len(runs[t]) + 1] = now
      /\ \A i \in 1..Len(runs[t]) : Append(runs[t], now)[i] = runs[t][i]
  BY <1>1, AppendProperties
<1>3. CASE Len(runs[t]) < MaxRuns
  <2>1. runs' = [runs EXCEPT ![t] = Append(runs[t], now)]
    BY <1>3 DEF DoTask
  <2>2. runs'[t] = Append(runs[t], now)
    BY <1>1, <2>1
  <2>3. runs'[t] # <<>>
    BY <1>2, <2>2
  <2>. QED
    BY <1>1, <1>2, <1>3, <2>1, <2>2, <2>3
<1>4. CASE ~(Len(runs[t]) < MaxRuns)
  <2>1. runs' = [runs EXCEPT ![t] = runs[t]]
    BY <1>4 DEF DoTask
  <2>2. runs[t] # <<>>
    BY <1>1, <1>4, BoundAssumption
  <2>. QED
    BY <1>1, <1>4, <2>1, <2>2
<1>. QED
  BY <1>3, <1>4

\* A walk comes to a task that has the name, and does nothing or executes it.
LEMMA VisitCases ==
  ASSUME TypeOK, NEW n \in Names, Visit(n)
  PROVE  /\ tasks[n] \in Tasks /\ tasks[n].name = n /\ n \in todo
         /\ \/ ~Due(tasks[n]) /\ UNCHANGED <<spawned, runs>>
            \/ /\ Due(tasks[n])
               /\ DoTask(tasks[n])
               /\ spawned' = spawned \cup {<<tasks[n], now>>}
BY DEF TypeOK, Visit, DoTask

\* Every step keeps every variable in its type.
LEMMA TypeStep == TypeOK /\ MapInv /\ [Next]_vars => (TypeOK /\ MapInv)'
<1>. SUFFICES ASSUME TypeOK, MapInv, [Next]_vars PROVE (TypeOK /\ MapInv)'
  OBVIOUS
<1>. USE TaskAssumption, BoundAssumption DEF TypeOK, MapInv, walk
<1>1. CASE Clock
  BY <1>1 DEF Clock
<1>2. ASSUME NEW t \in Tasks, AddJob(t) PROVE (TypeOK /\ MapInv)'
  BY <1>2 DEF AddJob, Names
<1>3. CASE Tick
  BY <1>3 DEF Tick
<1>4. CASE TickDone
  BY <1>4 DEF TickDone
<1>5. ASSUME NEW n \in Names, Visit(n) PROVE (TypeOK /\ MapInv)'
  <2>1. tasks[n] \in Tasks /\ tasks[n].name = n
    BY <1>5 DEF Visit
  <2>2. runs' \in [Tasks -> Seq(1..now)] /\ spawned' \subseteq Tasks \X (1..now)
    <3>1. CASE Due(tasks[n])
      <4>1. spawned' = spawned \cup {<<tasks[n], now>>}
        BY <1>5, <3>1 DEF Visit, DoTask
      <4>2. spawned' \subseteq Tasks \X (1..now)
        <5>1. <<tasks[n], now>> \in Tasks \X (1..now)
          BY <2>1
        <5>. QED
          BY <4>1, <5>1
      <4>3. runs' \in [Tasks -> Seq(1..now)]
        BY <1>5, <2>1, <3>1, DoTaskRuns DEF Visit
      <4>. QED
        BY <4>2, <4>3
    <3>2. CASE ~Due(tasks[n])
      BY <1>5, <3>2 DEF Visit
    <3>. QED
      BY <3>1, <3>2
  <2>. QED
    BY <1>5, <2>2 DEF Visit
<1>6. CASE Delete
  BY <1>6 DEF Delete
<1>7. ASSUME NEW e \in spawned, Begin(e) PROVE (TypeOK /\ MapInv)'
  BY <1>7 DEF Begin
<1>8. CASE UNCHANGED vars
  BY <1>8 DEF vars
<1>. QED
  BY <1>1, <1>2, <1>3, <1>4, <1>5, <1>6, <1>7, <1>8 DEF Next

\* The initial state has every variable in its type.
LEMMA TypeInit == Init => TypeOK /\ MapInv
<1>. SUFFICES ASSUME Init PROVE TypeOK /\ MapInv
  OBVIOUS
<1>1. runs \in [Tasks -> Seq(1..now)]
  BY DEF Init
<1>2. startTime \in [Tasks -> Nat]
  BY TaskAssumption DEF Init
<1>3. /\ walking \in BOOLEAN /\ steady \in BOOLEAN /\ prompt \in BOOLEAN
      /\ todo \subseteq {n \in Names : walking /\ tasks[n] # None}
      /\ spawned \subseteq Tasks \X (1..now) /\ added \subseteq Tasks
  BY DEF Init
<1>. QED
  BY <1>1, <1>2, <1>3, BoundAssumption DEF Init, TypeOK, MapInv

\* Every variable keeps its type, and a walk never comes to a name that it
\* cannot look up, though AddJob and delete change the map under it.
THEOREM TypeCorrect == Spec => []TypeOK
<1>1. Spec => [](TypeOK /\ MapInv)
  BY TypeInit, TypeStep, PTL DEF Spec
<1>. QED
  BY <1>1, PTL

-----------------------------------------------------------------------------
(***************************************************************************)
(* Executions and StartTime                                                *)
(***************************************************************************)
\* Until a task is executed its StartTime is what AddJob was given.
RunInv ==
  /\ \A n \in Names : tasks[n] # None => tasks[n] \in added
  /\ \A e \in spawned : runs[e[1]] # <<>>
  /\ \A t \in Tasks : runs[t] # <<>> => t \in added
  /\ \A t \in Tasks : runs[t] = <<>> => startTime[t] = t.start

\* Every step keeps RunInv, and executions that are recorded stay so.
LEMMA RunStep == TypeOK /\ RunInv /\ [Next]_vars => RunInv'
<1>. SUFFICES ASSUME TypeOK, RunInv, [Next]_vars PROVE RunInv'
  OBVIOUS
<1>. USE DEF TypeOK, RunInv, walk
<1>1. CASE Clock
  BY <1>1 DEF Clock
<1>2. ASSUME NEW t \in Tasks, AddJob(t) PROVE RunInv'
  BY <1>2 DEF AddJob
<1>3. CASE Tick
  BY <1>3 DEF Tick
<1>4. CASE TickDone
  BY <1>4 DEF TickDone
<1>5. ASSUME NEW n \in Names, Visit(n) PROVE RunInv'
  <2>1. CASE UNCHANGED <<spawned, runs>>
    BY <1>5, <2>1 DEF Visit
  <2>2. CASE DoTask(tasks[n]) /\ spawned' = spawned \cup {<<tasks[n], now>>}
    <3>1. /\ runs'[tasks[n]] # <<>>
          /\ \A u \in Tasks \ {tasks[n]} : runs'[u] = runs[u]
      BY <1>5, <2>2, VisitCases, DoTaskRuns
    <3>. QED
      BY <1>5, <2>2, <3>1, VisitCases DEF Visit
  <2>. QED
    BY <1>5, <2>1, <2>2, VisitCases
<1>6. CASE Delete
  BY <1>6 DEF Delete
<1>7. ASSUME NEW e \in spawned, Begin(e) PROVE RunInv'
  BY <1>7 DEF Begin
<1>8. CASE UNCHANGED vars
  BY <1>8 DEF vars
<1>. QED
  BY <1>1, <1>2, <1>3, <1>4, <1>5, <1>6, <1>7, <1>8 DEF Next

\* Only a walk that comes to a task that is due changes what is recorded.
LEMMA RunsChange ==
  ASSUME TypeOK, [Next]_vars
  PROVE  \/ runs' = runs
         \/ \E n \in Names :
              /\ Visit(n) /\ tasks[n] \in Tasks /\ Due(tasks[n]) /\ DoTask(tasks[n])
<1>1. ASSUME NEW n \in Names, Visit(n)
      PROVE  runs' = runs \/ (tasks[n] \in Tasks /\ Due(tasks[n]) /\ DoTask(tasks[n]))
  BY <1>1, VisitCases
<1>2. (\A n \in Names : ~Visit(n)) => runs' = runs
  BY DEF Next, vars, Clock, AddJob, Tick, TickDone, Delete, Begin
<1>. QED
  BY <1>1, <1>2

\* The invariants so far hold in every state.
LEMMA RunCorrect == Spec => [](TypeOK /\ MapInv /\ RunInv)
<1>1. Init => RunInv
  BY DEF Init, RunInv
<1>. QED
  BY <1>1, TypeInit, TypeStep, RunStep, PTL DEF Spec

\* No task is executed before the StartTime that AddJob was given, however late
\* executions begin and whichever tasks replace each other.
THEOREM NeverEarly == Spec => []NotEarly
<1>1. Init => NotEarly
  BY DEF Init, NotEarly
<1>2. TypeOK /\ RunInv /\ NotEarly /\ [Next]_vars => NotEarly'
  <2>. SUFFICES ASSUME TypeOK, RunInv, NotEarly, [Next]_vars,
                       NEW t \in Tasks, NEW i \in 1..Len(runs'[t])
                PROVE  runs'[t][i] >= t.start
    BY DEF NotEarly
  <2>1. CASE runs'[t] = runs[t]
    BY <2>1 DEF NotEarly
  <2>2. CASE runs'[t] # runs[t]
    <3>1. Due(t) /\ DoTask(t)
      BY <2>2, RunsChange, DoTaskRuns
    <3>2. runs[t] \in Seq(1..now) /\ now \in Nat /\ t.start \in Nat /\ t.interval \in Nat
      BY TaskAssumption DEF TypeOK
    <3>3. Len(runs'[t]) = Len(runs[t]) + 1 /\ runs'[t][Len(runs[t]) + 1] = now
      BY <2>2, <3>1, DoTaskRuns
    <3>4. CASE i <= Len(runs[t])
      <4>1. i \in 1..Len(runs[t]) /\ runs'[t][i] = runs[t][i]
        BY <2>2, <3>1, <3>2, <3>4, DoTaskRuns
      <4>. QED
        BY <4>1 DEF NotEarly
    <3>5. CASE i = Len(runs[t]) + 1
      <4>1. now >= t.start
        <5>1. CASE runs[t] = <<>>
          BY <3>1, <3>2, <5>1 DEF RunInv, Due
        <5>2. CASE runs[t] # <<>>
          <6>1. 1 \in 1..Len(runs[t])
            BY <3>2, <5>2
          <6>2. runs[t][1] \in 1..now /\ runs[t][1] >= t.start
            BY <3>2, <6>1, ElementOfSeq DEF NotEarly
          <6>. QED
            BY <3>2, <6>2
        <5>. QED
          BY <5>1, <5>2
      <4>. QED
        BY <3>3, <3>5, <4>1
    <3>. QED
      BY <3>2, <3>3, <3>4, <3>5
  <2>. QED
    BY <2>1, <2>2
<1>. QED
  BY <1>1, <1>2, RunCorrect, PTL DEF Spec

\* While executions begin before the next walk: a task whose execution has not
\* begun is not visited, so that there is one such execution of it at most; and
\* when it has begun StartTime is the second of the latest execution.
LastRun(t) == runs[t][Len(runs[t])]
Waiting(t) == \E e \in spawned : e[1] = t

NotRevisited == \A e \in spawned : tasks[e[1].name] = e[1] => e[1].name \notin todo
OneWaiting == \A e, f \in spawned : e[1] = f[1] => e = f
WaitingIsLast == \A e \in spawned : Len(runs[e[1]]) < MaxRuns => e[2] = LastRun(e[1])
BegunIsLast ==
  \A t \in Tasks : Len(runs[t]) \in 1..(MaxRuns - 1) /\ ~Waiting(t) => startTime[t] = LastRun(t)

PromptInv == prompt => NotRevisited /\ OneWaiting /\ WaitingIsLast /\ BegunIsLast

\* Every step keeps PromptInv.
LEMMA PromptStep == TypeOK /\ RunInv /\ PromptInv /\ [Next]_vars => PromptInv'
<1>. SUFFICES ASSUME TypeOK, RunInv, PromptInv, [Next]_vars, prompt'
              PROVE  (NotRevisited /\ OneWaiting /\ WaitingIsLast /\ BegunIsLast)'
  BY DEF PromptInv
<1>a. \A e \in spawned : e[1] \in Tasks /\ e[1].name \in Names /\ e[2] \in 1..now
  BY DEF TypeOK, Names
<1>b. \A t \in Tasks : t.name \in Names
  BY DEF Names
<1>. USE DEF PromptInv, NotRevisited, OneWaiting, WaitingIsLast, BegunIsLast, LastRun,
             Waiting, walk
<1>1. CASE Clock
  BY <1>1 DEF Clock
<1>2. ASSUME NEW t \in Tasks, AddJob(t) PROVE NotRevisited'
  <2>1. SUFFICES ASSUME NEW e \in spawned, tasks'[e[1].name] = e[1] PROVE e[1].name \notin todo'
    BY <1>2 DEF AddJob
  <2>2. e[1] # t
    BY <1>2, <1>a DEF AddJob, RunInv
  <2>3. e[1].name # t.name /\ tasks[e[1].name] = e[1]
    BY <1>2, <1>a, <1>b, <2>1, <2>2 DEF AddJob, TypeOK
  <2>. QED
    BY <1>2, <2>3 DEF AddJob
<1>3. CASE Tick
  BY <1>3 DEF Tick
<1>4. CASE TickDone
  BY <1>4 DEF TickDone
<1>5. ASSUME NEW n \in Names, Visit(n)
      PROVE  (NotRevisited /\ OneWaiting /\ WaitingIsLast /\ BegunIsLast)'
  <2>1. CASE UNCHANGED <<spawned, runs>>
    BY <1>5, <2>1 DEF Visit
  <2>2. CASE DoTask(tasks[n]) /\ spawned' = spawned \cup {<<tasks[n], now>>}
    <3>1. PICK t \in Tasks : t = tasks[n] /\ t.name = n /\ n \in todo
      BY <1>5, VisitCases
    <3>2. \A e \in spawned : e[1] # t
      BY <1>5, <3>1 DEF Visit
    <3>3. /\ DoTask(t) /\ spawned' = spawned \cup {<<t, now>>}
          /\ UNCHANGED <<tasks, now, startTime, prompt>> /\ todo' = todo \ {n}
      BY <1>5, <2>2, <3>1 DEF Visit
    <3>4. \A u \in Tasks \ {t} : runs'[u] = runs[u]
      BY <3>3, DoTaskRuns
    <3>5. Len(runs'[t]) < MaxRuns => now = LastRun(t)'
      <4>1. runs[t] \in Seq(1..now)
        BY DEF TypeOK
      <4>. QED
        BY <3>3, <4>1, DoTaskRuns, BoundAssumption
    <3>6. NotRevisited'
      BY <3>1, <3>3
    <3>7. OneWaiting'
      BY <1>5, <3>2, <3>3 DEF Visit
    <3>8. WaitingIsLast'
      BY <1>5, <1>a, <3>2, <3>3, <3>4, <3>5 DEF Visit
    <3>9. ASSUME NEW u \in Tasks, Len(runs'[u]) \in 1..(MaxRuns - 1), ~Waiting(u)'
          PROVE  startTime'[u] = LastRun(u)'
      <4>a. <<t, now>> \in spawned' /\ <<t, now>>[1] = t
        BY <3>3
      <4>1. u # t /\ ~Waiting(u)
        BY <3>3, <3>9, <4>a
      <4>. QED
        BY <1>5, <3>3, <3>4, <3>9, <4>1 DEF Visit
    <3>. QED
      BY <3>6, <3>7, <3>8, <3>9
  <2>. QED
    BY <1>5, <2>1, <2>2, VisitCases
<1>6. CASE Delete
  <2>1. NotRevisited'
    BY <1>6, <1>a, TaskAssumption DEF Delete, TypeOK
  <2>. QED
    BY <1>6, <2>1 DEF Delete
<1>7. ASSUME NEW e \in spawned, Begin(e)
      PROVE  (NotRevisited /\ OneWaiting /\ WaitingIsLast /\ BegunIsLast)'
  <2>1. NotRevisited' /\ OneWaiting' /\ WaitingIsLast'
    BY <1>7 DEF Begin
  <2>2. ASSUME NEW t \in Tasks, Len(runs[t]) \in 1..(MaxRuns - 1), ~Waiting(t)'
        PROVE  startTime'[t] = LastRun(t)
    <3>1. CASE t = e[1]
      <4>1. e[2] = LastRun(t)
        BY <1>7, <2>2, <3>1, BoundAssumption DEF Begin
      <4>. QED
        BY <1>7, <3>1, <4>1 DEF Begin, TypeOK
    <3>2. CASE t # e[1]
      BY <1>7, <2>2, <3>2 DEF Begin, TypeOK
    <3>. QED
      BY <3>1, <3>2
  <2>. QED
    BY <1>7, <2>1, <2>2 DEF Begin
<1>8. CASE UNCHANGED vars
  BY <1>8 DEF vars
<1>9. ASSUME NEW t \in Tasks, AddJob(t) PROVE (OneWaiting /\ WaitingIsLast /\ BegunIsLast)'
  BY <1>9 DEF AddJob
<1>. QED
  BY <1>1, <1>2, <1>3, <1>4, <1>5, <1>6, <1>7, <1>8, <1>9 DEF Next

\* Executions of a task are its interval apart as long as they begin promptly.
THEOREM SpacedRuns == Spec => []Spaced
<1>1. Init => PromptInv /\ Spaced
  BY DEF Init, PromptInv, Spaced, NotRevisited, OneWaiting, WaitingIsLast, BegunIsLast
<1>2. TypeOK /\ RunInv /\ PromptInv /\ Spaced /\ [Next]_vars => Spaced'
  <2>. SUFFICES ASSUME TypeOK, RunInv, PromptInv, Spaced, [Next]_vars, prompt',
                       NEW t \in Tasks, NEW i \in 2..Len(runs'[t])
                PROVE  runs'[t][i] >= runs'[t][i - 1] + t.interval
    BY DEF Spaced
  <2>1. prompt
    BY DEF TypeOK, Next, vars, Clock, AddJob, Tick, TickDone, Visit, Delete, Begin
  <2>2. CASE runs'[t] = runs[t]
    BY <2>1, <2>2 DEF Spaced
  <2>3. CASE runs'[t] # runs[t]
    <3>1. PICK n \in Names : Visit(n) /\ t = tasks[n] /\ Due(t) /\ DoTask(t)
      BY <2>3, RunsChange, DoTaskRuns
    <3>2. runs[t] \in Seq(1..now)
      BY DEF TypeOK
    <3>3. Len(runs[t]) < MaxRuns /\ Len(runs'[t]) = Len(runs[t]) + 1
      BY <2>3, <3>1, DoTaskRuns
    <3>4. CASE i <= Len(runs[t])
      BY <2>1, <3>1, <3>2, <3>3, <3>4, DoTaskRuns DEF Spaced
    <3>5. CASE i = Len(runs[t]) + 1
      <4>a. Len(runs[t]) \in 1..(MaxRuns - 1) /\ Len(runs[t]) \in 1..Len(runs[t])
        BY <3>2, <3>3, <3>5, BoundAssumption
      <4>1. startTime[t] = LastRun(t)
        <5>1. t.name = n /\ n \in todo
          BY <3>1, VisitCases
        <5>. QED
          BY <2>1, <4>a, <3>1, <5>1 DEF PromptInv, NotRevisited, BegunIsLast, Waiting
      <4>2. runs'[t][i] = now /\ runs'[t][i - 1] = LastRun(t)
        BY <3>1, <3>2, <3>3, <3>5, <4>a, DoTaskRuns DEF LastRun
      <4>3. LastRun(t) \in 1..now
        BY <3>2, <4>a, ElementOfSeq DEF LastRun
      <4>. QED
        BY <3>1, <4>1, <4>2, <4>3, TaskAssumption DEF Due, TypeOK
    <3>. QED
      BY <3>2, <3>3, <3>4, <3>5
  <2>. QED
    BY <2>2, <2>3
<1>. QED
  BY <1>1, <1>2, RunCorrect, PromptStep, PTL DEF Spec

-----------------------------------------------------------------------------
(***************************************************************************)
(* One-shot tasks while no second is missed                                *)
(***************************************************************************)
\* In each second a walk begins, and ends; it comes to all tasks that are due
\* in that second, and the one-shot ones among them are executed and deleted.
DeletesDone == deleting # None => \E t \in added : t.name = deleting /\ runs[t] # <<>>

WalkInSecond == last \in {now - 1, now} /\ (walking => last = now)
DoneGoes ==
  \A t \in Tasks : OneShot(t) /\ tasks[t.name] = t /\ runs[t] # <<>> => deleting = t.name
DueComes ==
  \A t \in Tasks : OneShot(t) /\ tasks[t.name] = t /\ runs[t] = <<>> =>
    \/ t.start = 0 \/ t.start > now
    \/ t.start = now /\ (last < now \/ (walking /\ t.name \in todo))
KeptOrDone ==
  \A t \in added : OneShot(t) /\ Unreplaced(t) => tasks[t.name] = t \/ runs[t] # <<>>
DoneOnTime ==
  \A t \in Tasks : OneShot(t) /\ runs[t] # <<>> =>
    Len(runs[t]) = 1 /\ (t.start > 0 => runs[t][1] = t.start)

SteadyInv ==
  DeletesDone /\ (steady => WalkInSecond /\ DoneGoes /\ DueComes /\ KeptOrDone /\ DoneOnTime)

\* Every step keeps SteadyInv.
LEMMA SteadyStep == TypeOK /\ RunInv /\ SteadyInv /\ [Next]_vars => SteadyInv'
<1>. SUFFICES ASSUME TypeOK, RunInv, SteadyInv, [Next]_vars PROVE SteadyInv'
  OBVIOUS
<1>a. \A t \in Tasks :
        /\ t.name \in Names /\ t.name # None
        /\ t.interval \in Nat /\ t.start \in Nat /\ t # None
  BY TaskAssumption DEF Names
<1>. USE DEF SteadyInv, DeletesDone, WalkInSecond, DoneGoes, DueComes, KeptOrDone, DoneOnTime,
             OneShot, Unreplaced, walk
<1>1. CASE Clock
  <2>1. /\ now \in Nat /\ now' = now + 1
        /\ UNCHANGED <<last, tasks, walking, todo, deleting, added, runs>>
    BY <1>1 DEF Clock, TypeOK
  <2>2. DeletesDone'
    BY <2>1
  <2>3. ASSUME steady'
        PROVE  (WalkInSecond /\ DoneGoes /\ DueComes /\ KeptOrDone /\ DoneOnTime)'
    <3>1. steady /\ ~walking /\ last = now
      BY <1>1, <2>3 DEF Clock
    <3>2. WalkInSecond' /\ DoneGoes' /\ KeptOrDone' /\ DoneOnTime'
      BY <2>1, <3>1
    <3>3. DueComes'
      BY <1>a, <2>1, <3>1
    <3>. QED
      BY <3>2, <3>3
  <2>. QED
    BY <2>2, <2>3
<1>2. ASSUME NEW t \in Tasks, AddJob(t) PROVE SteadyInv'
  <2>1. /\ runs[t] = <<>> /\ (t.start = 0 \/ t.start > now)
        /\ tasks'[t.name] = t
        /\ \A u \in Tasks \ {t} : tasks'[u.name] = u => tasks[u.name] = u
        /\ \A u \in Tasks : u.name # t.name => tasks'[u.name] = tasks[u.name]
        /\ added' = added \cup {t} /\ todo \subseteq todo'
        /\ UNCHANGED <<now, last, walking, deleting, runs, steady>>
    BY <1>2, <1>a DEF AddJob, TypeOK, RunInv
  <2>. QED
    BY <2>1, <1>a DEF TypeOK
<1>3. CASE Tick
  <2>1. \A t \in Tasks : tasks[t.name] = t => t.name \in todo'
    BY <1>3, <1>a DEF Tick
  <2>. QED
    BY <1>3, <1>a, <2>1 DEF Tick, TypeOK
<1>4. CASE TickDone
  BY <1>4, <1>a DEF TickDone, TypeOK
<1>5. ASSUME NEW n \in Names, Visit(n) PROVE SteadyInv'
  <2>1. PICK t \in Tasks : t = tasks[n] /\ t.name = n /\ n \in todo
    BY <1>5, VisitCases
  <2>2. /\ deleting = None /\ walking /\ todo' = todo \ {n}
        /\ deleting' = IF Ends(t) THEN n ELSE None
        /\ UNCHANGED <<now, last, tasks, walking, startTime, added, steady>>
    BY <1>5, <2>1 DEF Visit, TypeOK
  <2>3. CASE ~Due(t) /\ runs' = runs
    <3>1. ~Ends(t) /\ ~(OneShot(t) /\ runs[t] = <<>> /\ t.start = now)
      BY <2>1, <2>3, <1>a DEF Due, Ends, RunInv, TypeOK
    <3>2. \A u \in Tasks \ {t} : tasks[u.name] = u => u.name # n
      BY <2>1
    <3>. QED
      BY <1>a, <2>1, <2>2, <2>3, <3>1, <3>2 DEF TypeOK
  <2>4. CASE Due(t) /\ DoTask(t)
    <3>1. runs'[t] # <<>> /\ \A u \in Tasks \ {t} : runs'[u] = runs[u]
      BY <2>4, DoTaskRuns
    <3>2. t \in added
      BY <2>1, <1>a DEF RunInv
    <3>3. DeletesDone'
      BY <2>1, <2>2, <3>1, <3>2, <1>a
    <3>4. ASSUME steady, OneShot(t)
          PROVE  /\ Ends(t) /\ Len(runs'[t]) = 1
                 /\ t.start > 0 => runs'[t][1] = t.start
      <4>1. runs[t] = <<>> /\ startTime[t] = t.start
        BY <2>1, <2>2, <3>4, <1>a DEF RunInv
      <4>a. Len(runs[t]) = 0 /\ 0 < MaxRuns
        BY <4>1, BoundAssumption
      <4>2. Len(runs'[t]) = 1 /\ runs'[t][1] = now
        <5>1. Len(runs[t]) < MaxRuns
          BY <4>a
        <5>2. Len(runs'[t]) = Len(runs[t]) + 1 /\ runs'[t][Len(runs[t]) + 1] = now
          BY <2>4, <5>1, DoTaskRuns
        <5>. QED
          BY <4>a, <5>2
      <4>3. t.start = 0 \/ t.start = now
        BY <2>1, <2>4, <3>4, <4>1, <1>a DEF Due, TypeOK
      <4>. QED
        BY <3>4, <4>1, <4>2, <4>3 DEF Ends
    <3>5. \A u \in Tasks \ {t} : tasks[u.name] = u => u.name # n
      BY <2>1
    <3>6. ASSUME steady PROVE WalkInSecond' /\ KeptOrDone'
      BY <2>2, <3>1, <3>6 DEF TypeOK
    <3>7. ASSUME steady PROVE DoneGoes'
      BY <2>1, <2>2, <3>1, <3>4, <3>5, <3>7, <1>a
    <3>8. ASSUME steady PROVE DueComes'
      BY <2>1, <2>2, <3>1, <3>5, <3>8, <1>a
    <3>9. ASSUME steady PROVE DoneOnTime'
      BY <2>2, <3>1, <3>4, <3>9
    <3>. QED
      BY <2>2, <3>3, <3>6, <3>7, <3>8, <3>9
  <2>. QED
    BY <1>5, <2>1, <2>3, <2>4, VisitCases
<1>6. CASE Delete
  <2>1. tasks' = [tasks EXCEPT ![deleting] = None] /\ deleting' = None
    BY <1>6 DEF Delete
  <2>2. PICK v \in added : v.name = deleting /\ runs[v] # <<>>
    BY <1>6 DEF Delete
  <2>3. \A u \in Tasks : tasks'[u.name] = u => tasks[u.name] = u /\ u.name # deleting
    BY <2>1, <1>a DEF TypeOK
  <2>4. \A u \in added : u.name # deleting => tasks'[u.name] = tasks[u.name]
    BY <2>1 DEF TypeOK
  <2>. QED
    BY <1>6, <2>1, <2>2, <2>3, <2>4 DEF Delete, TypeOK
<1>7. ASSUME NEW e \in spawned, Begin(e) PROVE SteadyInv'
  BY <1>7 DEF Begin
<1>8. CASE UNCHANGED vars
  BY <1>8 DEF vars
<1>. QED
  BY <1>1, <1>2, <1>3, <1>4, <1>5, <1>6, <1>7, <1>8 DEF Next

\* While no second is missed a one-shot task is executed once at most, and one
\* with a time that keeps its place in that second.
THEOREM OneShotOnTime == Spec => []OneShotIfSteady
<1>1. Init => SteadyInv
  <2>. SUFFICES ASSUME Init PROVE SteadyInv
    OBVIOUS
  <2>1. \A t \in Tasks : runs[t] = <<>> /\ tasks[t.name] # t
    BY TaskAssumption DEF Init, Names
  <2>2. added = {} /\ deleting = None /\ last = 0 /\ now = 1 /\ ~walking
    BY DEF Init
  <2>. QED
    BY <2>1, <2>2
    DEF SteadyInv, DeletesDone, WalkInSecond, DoneGoes, DueComes, KeptOrDone, DoneOnTime
<1>2. TypeOK /\ SteadyInv => OneShotIfSteady
  <2>. SUFFICES ASSUME TypeOK, SteadyInv, steady PROVE OneShotIfSteady
    BY DEF OneShotIfSteady
  <2>1. OneShotOnce
    <3>. SUFFICES ASSUME NEW t \in Tasks, OneShot(t) PROVE Len(runs[t]) <= 1
      BY DEF OneShotOnce
    <3>1. CASE runs[t] = <<>>
      BY <3>1
    <3>2. CASE runs[t] # <<>>
      <4>1. Len(runs[t]) = 1
        BY <3>2 DEF SteadyInv, DoneOnTime
      <4>. QED
        BY <4>1
    <3>. QED
      BY <3>1, <3>2
  <2>2. ASSUME NEW t \in added, OneShot(t), Unreplaced(t), t.start \in 1..(now - 1)
        PROVE  runs[t] = <<t.start>>
    <3>1. t \in Tasks /\ runs[t] \in Seq(1..now)
      BY DEF TypeOK
    <3>2. runs[t] # <<>>
      <4>1. now \in Nat /\ last \in {now - 1, now}
        BY DEF TypeOK, SteadyInv, WalkInSecond
      <4>2. tasks[t.name] = t \/ runs[t] # <<>>
        BY <2>2 DEF SteadyInv, KeptOrDone
      <4>. QED
        BY <2>2, <3>1, <4>1, <4>2, TaskAssumption DEF SteadyInv, DueComes
    <3>3. Len(runs[t]) = 1 /\ runs[t][1] = t.start
      BY <2>2, <3>1, <3>2 DEF TypeOK, SteadyInv, DoneOnTime
    <3>. QED
      BY <3>1, <3>3
  <2>. QED
    BY <2>1, <2>2 DEF OneShotIfSteady
<1>. QED
  BY <1>1, <1>2, RunCorrect, SteadyStep, PTL DEF Spec

=============================================================================
