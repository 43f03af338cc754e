------------------------------ MODULE Schedule ------------------------------
(***************************************************************************)
(* The scheduler of schedule/schedule.go: the ticker goroutine of          *)
(* InitSchedule, which walks over the tasks, one goroutine per execution,  *)
(* which stores the task's new StartTime before it calls TaskFunc, and     *)
(* AddJob, called by anybody, a TaskFunc included.  Time is in seconds.    *)
(***************************************************************************)
EXTENDS Naturals, Sequences

CONSTANTS
  Tasks,        \* the tasks handed to AddJob: [name, interval, start]
  None,         \* no task
  Horizon,      \* bound: the clock stops there
  MaxRuns       \* bound: executions of a task that are recorded

Names == {t.name : t \in Tasks}

ASSUME TaskAssumption ==
  /\ \A t \in Tasks : t.interval \in Nat /\ t.start \in Nat
  /\ None \notin Tasks /\ None \notin Names
ASSUME BoundAssumption == Horizon \in Nat \ {0} /\ MaxRuns \in Nat \ {0}

VARIABLES
  now,          \* GetNowSecond
  last,         \* the second in which the latest walk began
  tasks,        \* the map from names to tasks
  walking,      \* a walk over tasks is under way
  todo,         \* the names it has yet to come to
  deleting,     \* the name it is about to delete
  startTime,    \* Task.StartTime
  spawned,      \* executions that have not begun: <<task, now>>
  added,        \* tasks handed to AddJob
  runs,         \* the seconds in which each task was executed, in order
  steady,       \* so far each second saw a whole walk, and none crossed seconds
  prompt        \* so far each execution began before the next walk

walk == <<walking, todo, deleting>>
vars == <<now, last, tasks, walk, startTime, spawned, added, runs, steady, prompt>>

\* Every variable has its type, and a walk only comes to names it can look up.
TypeOK ==
  /\ now \in 1..Horizon
  /\ last \in 0..now
  /\ tasks \in [Names -> Tasks \cup {None}]
  /\ \A n \in Names : tasks[n] # None => tasks[n].name = n
  /\ walking \in BOOLEAN
  /\ todo \subseteq {n \in Names : walking /\ tasks[n] # None}
  /\ deleting \in Names \cup {None}
  /\ startTime \in [Tasks -> Nat]
  /\ spawned \subseteq Tasks \X (1..now)
  /\ added \subseteq Tasks
  /\ runs \in [Tasks -> Seq(1..now)]
  /\ steady \in BOOLEAN
  /\ prompt \in BOOLEAN

Init ==
  /\ now = 1
  /\ last = 0
  /\ tasks = [n \in Names |-> None]
  /\ walking = FALSE
  /\ todo = {}
  /\ deleting = None
  /\ startTime = [t \in Tasks |-> t.start]
  /\ spawned = {}
  /\ added = {}
  /\ runs = [t \in Tasks |-> <<>>]
  /\ steady = TRUE
  /\ prompt = TRUE

\* A second passes, seen by a walk or not.
Clock ==
  /\ now < Horizon
  /\ now' = now + 1
  /\ steady' = (steady /\ ~walking /\ last = now)
  /\ UNCHANGED <<last, tasks, walk, startTime, spawned, added, runs, prompt>>

\* A task to be run now or later replaces the one of its name, for a walk that
\* is under way too; the walk may come to a new name or not.
AddJob(t) ==
  /\ t \notin added
  /\ t.start = 0 \/ t.start > now
  /\ added' = added \cup {t}
  /\ tasks' = [tasks EXCEPT ![t.name] = t]
  /\ \/ todo' = todo
     \/ walking /\ tasks[t.name] = None /\ todo' = todo \cup {t.name}
  /\ UNCHANGED <<now, last, walking, deleting, startTime, spawned, runs, steady, prompt>>

\* Mutant: a walk comes to names that have no task.
Tick_All ==
  /\ ~walking
  /\ walking' = TRUE
  /\ last' = now
  /\ todo' = Names
  /\ prompt' = (prompt /\ spawned = {})
  /\ UNCHANGED <<now, tasks, deleting, startTime, spawned, added, runs, steady>>

\* The ticker fires.
Tick ==
  /\ ~walking
  /\ walking' = TRUE
  /\ last' = now
  /\ todo' = {n \in Names : tasks[n] # None}
  /\ prompt' = (prompt /\ spawned = {})
  /\ UNCHANGED <<now, tasks, deleting, startTime, spawned, added, runs, steady>>

TickDone ==
  /\ walking /\ todo = {} /\ deleting = None
  /\ walking' = FALSE
  /\ UNCHANGED <<now, last, tasks, todo, deleting, startTime, spawned, added, runs, steady, prompt>>

\* Mutant: a task with a time is due one second early.
Due_Early(t) == startTime[t] = 0 \/ now + 1 - startTime[t] >= t.interval

\* StartTime = 0 is now; the difference is signed in the code.
Due(t) == startTime[t] = 0 \/ now >= startTime[t] + t.interval

\* Mutant: a one-shot task with a time stays in the map.
Ends_Kept(t) == t.interval = 0 /\ startTime[t] = 0

\* A one-shot task is deleted if it is executed at once or right on time.
Ends(t) == t.interval = 0 /\ startTime[t] \in {0, now}

\* doTask starts a goroutine with the second it is in.
DoTask(t) ==
  /\ spawned' = spawned \cup {<<t, now>>}
  /\ runs' = [runs EXCEPT ![t] = IF Len(@) < MaxRuns THEN Append(@, now) ELSE @]

\* The walk comes to the task named n.
Visit(n) ==
  /\ deleting = None
  /\ n \in todo
  /\ todo' = todo \ {n}
  /\ IF Due(tasks[n]) THEN DoTask(tasks[n]) ELSE UNCHANGED <<spawned, runs>>
  /\ deleting' = IF Ends(tasks[n]) THEN n ELSE None
  /\ UNCHANGED <<now, last, tasks, walking, startTime, added, steady, prompt>>

\* delete removes the task that has the name by now, one that AddJob has put
\* there since included.
Delete ==
  /\ deleting # None
  /\ tasks' = [tasks EXCEPT ![deleting] = None]
  /\ deleting' = None
  /\ UNCHANGED <<now, last, walking, todo, startTime, spawned, added, runs, steady, prompt>>

\* The goroutine of an execution begins.
Begin(e) ==
  /\ e \in spawned
  /\ spawned' = spawned \ {e}
  /\ startTime' = [startTime EXCEPT ![e[1]] = e[2]]
  /\ UNCHANGED <<now, last, tasks, walk, added, runs, steady, prompt>>

Next ==
  \/ Clock
  \/ \E t \in Tasks : AddJob(t)
  \/ Tick
  \/ TickDone
  \/ \E n \in Names : Visit(n)
  \/ Delete
  \/ \E e \in spawned : Begin(e)

Spec == Init /\ [][Next]_vars

-----------------------------------------------------------------------------
(***************************************************************************)
(* Properties                                                              *)
(***************************************************************************)
OneShot(t) == t.interval = 0

\* No task of another AddJob has taken t's place.
Unreplaced(t) == \A u \in added : u.name = t.name => u = t

\* A task of Interval 0 is "one-shot" (line 16): it is not executed twice.
OneShotOnce == \A t \in Tasks : OneShot(t) => Len(runs[t]) <= 1

\* As long as no second is missed a one-shot task is not executed twice, replaced
\* or not, and one that was given a time and not replaced has been executed, in
\* that second, when the second is over.
OneShotIfSteady ==
  steady =>
    /\ OneShotOnce
    /\ \A t \in added : OneShot(t) /\ Unreplaced(t) /\ t.start \in 1..(now - 1) =>
         runs[t] = <<t.start>>

\* Executions of a task are its Interval apart (line 17), whatever the number of
\* ticks in a second and of seconds without one, as long as each begins, and
\* stores StartTime, before the next tick.
Spaced ==
  prompt => \A t \in Tasks : \A i \in 2..Len(runs[t]) :
              runs[t][i] >= runs[t][i - 1] + t.interval

\* A task that was given a StartTime (line 18) is never executed before it, whatever
\* its StartTime has become since, however late executions begin and whichever
\* tasks replace each other.
NotEarly == \A t \in Tasks : \A i \in 1..Len(runs[t]) : runs[t][i] >= t.start

=============================================================================
