------------------------- MODULE EtcdRegistryProofs -------------------------
(***************************************************************************)
(* Proofs about EtcdRegistry, for any number of nodes and of starts: what  *)
(* etcd keeps of a node agrees with its leases (LeaseInv), and what a node *)
(* has read and been sent follows etcd from Get on, but for its gap        *)
(* (CacheInv).                                                             *)
(***************************************************************************)
EXTENDS EtcdRegistry, SequenceTheorems, TLAPS

-----------------------------------------------------------------------------
(***************************************************************************)
(* The invariants                                                          *)
(***************************************************************************)
\* A key is attached to the lease of the start that has put it, and to none else.
LeaseInv == attached = store /\ Registered

\* From Get on, and until the watch ends, a node knows etcd but for its gap; before
\* the watch there are no events.
CacheInv ==
  \A n \in Nodes :
    /\ watch[n] = "none" => queue[n] = <<>>
    /\ pc[n] \in {"put", "keep", "up"} /\ watch[n] # "ended"
       => \A k \in Nodes \ gap[n] : LastHeard(info[n], queue[n], k, store[k])

-----------------------------------------------------------------------------
(***************************************************************************)
(* Events                                                                  *)
(***************************************************************************)
Events == Nodes \X Values

\* Who has no events to handle knows what it has read.
LEMMA NoEvents ==
  ASSUME NEW nodes, NEW k, NEW v
  PROVE  LastHeard(nodes, <<>>, k, v) <=> nodes[k] = v
BY DEF LastHeard

\* A new event is the last that is heard of its key, and of no other.
LEMMA EventSent ==
  ASSUME NEW nodes, NEW events \in Seq(Events), NEW k \in Nodes, NEW v \in Values
  PROVE  /\ LastHeard(nodes, Append(events, <<k, v>>), k, v)
         /\ \A j \in Nodes \ {k} : \A w \in Values :
              LastHeard(nodes, events, j, w) => LastHeard(nodes, Append(events, <<k, v>>), j, w)
<1>. DEFINE more == Append(events, <<k, v>>)
            last == Len(events) + 1
<1>1. /\ Len(events) \in Nat /\ DOMAIN events = 1..Len(events) /\ DOMAIN more = 1..last
      /\ \A i \in 1..Len(events) : more[i] = events[i]
      /\ more[last] = <<k, v>> /\ <<k, v>> \in Events
  BY AppendProperties, LenProperties DEF Events
<1>2. LastHeard(nodes, more, k, v)
  <2>1. last \in DOMAIN more /\ {j \in DOMAIN more : j > last /\ more[j][1] = k} = {}
    BY <1>1
  <2>. QED
    BY <1>1, <2>1 DEF LastHeard
<1>3. ASSUME NEW j \in Nodes \ {k}, NEW w \in Values, LastHeard(nodes, events, j, w)
      PROVE  LastHeard(nodes, more, j, w)
  <2>1. ASSUME NEW i \in Nat, {a \in DOMAIN events : a > i /\ events[a][1] = j} = {}
        PROVE  {a \in DOMAIN more : a > i /\ more[a][1] = j} = {}
    BY <1>1, <2>1
  <2>2. CASE {a \in DOMAIN events : a > 0 /\ events[a][1] = j} = {} /\ nodes[j] = w
    BY <2>1, <2>2 DEF LastHeard
  <2>3. CASE \E i \in DOMAIN events :
               events[i] = <<j, w>> /\ {a \in DOMAIN events : a > i /\ events[a][1] = j} = {}
    <3>1. PICK i \in DOMAIN events :
            events[i] = <<j, w>> /\ {a \in DOMAIN events : a > i /\ events[a][1] = j} = {}
      BY <2>3
    <3>2. i \in Nat /\ i \in DOMAIN more /\ more[i] = <<j, w>>
      BY <1>1, <3>1
    <3>. QED
      BY <2>1, <3>1, <3>2 DEF LastHeard
  <2>. QED
    BY <1>3, <2>2, <2>3 DEF LastHeard
<1>. QED
  BY <1>2, <1>3

\* Handling the first event changes nothing of what is heard last.
LEMMA EventHandled ==
  ASSUME NEW nodes \in [Nodes -> Values], NEW events \in Seq(Events), events # <<>>,
         NEW j \in Nodes, NEW w \in Values, LastHeard(nodes, events, j, w)
  PROVE  LastHeard([nodes EXCEPT ![Head(events)[1]] = Head(events)[2]], Tail(events), j, w)
<1>. DEFINE rest == Tail(events)
            known == [nodes EXCEPT ![Head(events)[1]] = Head(events)[2]]
<1>1. /\ Len(events) \in Nat \ {0} /\ DOMAIN events = 1..Len(events)
      /\ DOMAIN rest = 1..(Len(events) - 1)
      /\ \A i \in 1..(Len(events) - 1) : rest[i] = events[i + 1]
      /\ Head(events) = events[1] /\ events[1] \in Events
  BY HeadTailProperties, LenProperties, EmptySeq, ElementOfSeq
<1>2. events[1][1] \in Nodes /\ events[1][2] \in Values
  BY <1>1 DEF Events
<1>3. ASSUME NEW i \in Nat, {a \in DOMAIN events : a > i + 1 /\ events[a][1] = j} = {}
      PROVE  {a \in DOMAIN rest : a > i /\ rest[a][1] = j} = {}
  <2>1. \A a \in DOMAIN rest : a > i => a + 1 \in DOMAIN events /\ a + 1 > i + 1
    BY <1>1
  <2>. QED
    BY <1>1, <1>3, <2>1
<1>4. CASE {a \in DOMAIN events : a > 0 /\ events[a][1] = j} = {} /\ nodes[j] = w
  <2>1. 1 \in DOMAIN events
    BY <1>1
  <2>2. events[1][1] # j
    BY <1>4, <2>1
  <2>3. known[j] = w
    BY <1>1, <1>2, <1>4, <2>2
  <2>4. {a \in DOMAIN events : a > 0 + 1 /\ events[a][1] = j} = {}
    BY <1>1, <1>4
  <2>. QED
    BY <1>3, <2>3, <2>4 DEF LastHeard
<1>5. CASE \E i \in DOMAIN events :
             events[i] = <<j, w>> /\ {a \in DOMAIN events : a > i /\ events[a][1] = j} = {}
  <2>1. PICK i \in DOMAIN events :
          events[i] = <<j, w>> /\ {a \in DOMAIN events : a > i /\ events[a][1] = j} = {}
    BY <1>5
  <2>2. CASE i = 1
    <3>1. known[j] = w
      BY <1>1, <1>2, <2>1, <2>2
    <3>2. {a \in DOMAIN rest : a > 0 /\ rest[a][1] = j} = {}
      BY <1>3, <2>1, <2>2
    <3>. QED
      BY <3>1, <3>2 DEF LastHeard
  <2>3. CASE i # 1
    <3>1. i - 1 \in Nat /\ i - 1 \in DOMAIN rest /\ (i - 1) + 1 = i
      BY <1>1, <2>1, <2>3
    <3>2. {a \in DOMAIN rest : a > i - 1 /\ rest[a][1] = j} = {}
      BY <1>3, <2>1, <3>1
    <3>3. rest[i - 1] = <<j, w>>
      BY <1>1, <2>1, <3>1
    <3>. QED
      BY <3>1, <3>2, <3>3 DEF LastHeard
  <2>. QED
    BY <2>2, <2>3
<1>. QED
  BY <1>4, <1>5 DEF LastHeard

-----------------------------------------------------------------------------
(***************************************************************************)
(* Types                                                                   *)
(***************************************************************************)
\* A start adds one to the number of starts, and is one of them.
LEMMA NextStart == \A k \in 0..MaxStarts : k < MaxStarts => k + 1 \in Starts
BY StartAssumption DEF Starts

\* Every change of a key sends events of its type.
LEMMA ChangeKeepsType ==
  ASSUME TypeOK, NEW k \in Nodes, NEW v \in Values, Change(k, v)
  PROVE  /\ store' \in [Nodes -> Values] /\ gap' \in [Nodes -> SUBSET Nodes]
         /\ queue' \in [Nodes -> Seq(Nodes \X Values)]
<1>1. \A n \in Nodes : Append(queue[n], <<k, v>>) \in Seq(Nodes \X Values)
  BY AppendProperties DEF TypeOK
<1>. QED
  BY <1>1 DEF TypeOK, Change

\* Every step keeps every variable in its type.
LEMMA TypeStep == TypeOK /\ [Next]_vars => TypeOK'
<1>. SUFFICES ASSUME TypeOK, [Next]_vars PROVE TypeOK'
  OBVIOUS
<1>. USE DEF TypeOK, etcd
<1>1. ASSUME NEW n \in Nodes, Grant(n) PROVE TypeOK'
  <2>1. start[n] + 1 \in Starts /\ start[n] + 1 \in 0..MaxStarts
    BY <1>1, NextStart DEF Grant, Starts
  <2>2. start' = [start EXCEPT ![n] = start[n] + 1]
    BY <1>1 DEF Grant
  <2>3. leases' = [leases EXCEPT ![n] = leases[n] \cup {start[n] + 1}]
    BY <1>1, <2>2 DEF Grant
  <2>4. start' \in [Nodes -> 0..MaxStarts] /\ leases' \in [Nodes -> SUBSET Starts]
    BY <2>1, <2>2, <2>3
  <2>. QED
    BY <1>1, <2>4 DEF Grant, Goto
<1>2. ASSUME NEW n \in Nodes, Get(n) PROVE TypeOK'
  BY <1>2 DEF Get, Goto
<1>3. ASSUME NEW n \in Nodes, Put(n) PROVE TypeOK'
  <2>1. start[n] \in Values
    BY <1>3 DEF Put, Values
  <2>2. /\ store' \in [Nodes -> Values] /\ gap' \in [Nodes -> SUBSET Nodes]
        /\ queue' \in [Nodes -> Seq(Nodes \X Values)]
    BY <1>3, <2>1, ChangeKeepsType DEF Put
  <2>. QED
    BY <1>3, <2>1, <2>2 DEF Put, Goto
<1>4. ASSUME NEW n \in Nodes, KeepAlive(n) PROVE TypeOK'
  BY <1>4 DEF KeepAlive, Goto
<1>5. ASSUME NEW n \in Nodes, Watch(n) PROVE TypeOK'
  BY <1>5 DEF Watch
<1>6. ASSUME NEW n \in Nodes, HandleEvent(n) PROVE TypeOK'
  <2>1. Tail(queue[n]) \in Seq(Nodes \X Values) /\ Head(queue[n]) \in Nodes \X Values
    BY <1>6, HeadTailProperties, EmptySeq DEF HandleEvent
  <2>2. PICK k \in Nodes, v \in Values : Head(queue[n])[1] = k /\ Head(queue[n])[2] = v
    BY <2>1
  <2>3. info' = [info EXCEPT ![n][k] = v]
    BY <1>6, <2>2 DEF HandleEvent
  <2>. QED
    BY <1>6, <2>1, <2>3 DEF HandleEvent
<1>7. ASSUME NEW n \in Nodes, WatchEnds(n) PROVE TypeOK'
  BY <1>7 DEF WatchEnds
<1>8. ASSUME NEW n \in Nodes, Crash(n) PROVE TypeOK'
  <2>1. Nobody \in [Nodes -> Values] /\ <<>> \in Seq(Nodes \X Values)
    BY DEF Nobody, Values
  <2>. QED
    BY <1>8, <2>1 DEF Crash
<1>9. ASSUME NEW n \in Nodes, NEW lease \in Starts, Expire(n, lease) PROVE TypeOK'
  <2>1. CASE attached[n] = lease
    <3>1. /\ store' \in [Nodes -> Values] /\ gap' \in [Nodes -> SUBSET Nodes]
          /\ queue' \in [Nodes -> Seq(Nodes \X Values)]
      BY <1>9, <2>1, ChangeKeepsType DEF Expire, Values
    <3>. QED
      BY <1>9, <2>1, <3>1 DEF Expire, Values
  <2>2. CASE attached[n] # lease
    BY <1>9, <2>2 DEF Expire
  <2>. QED
    BY <2>1, <2>2
<1>10. CASE UNCHANGED vars
  BY <1>10 DEF vars
<1>. QED
  BY <1>1, <1>2, <1>3, <1>4, <1>5, <1>6, <1>7, <1>8, <1>9, <1>10 DEF Next, RegisterAndWatch

\* The initial states have every variable in its type.
LEMMA TypeInit == Init => TypeOK
BY StartAssumption DEF Init, TypeOK, Nobody, Values

\* Every variable keeps its type.
THEOREM TypeCorrect == Spec => []TypeOK
BY TypeInit, TypeStep, PTL DEF Spec

-----------------------------------------------------------------------------
(***************************************************************************)
(* Keys and leases                                                         *)
(***************************************************************************)
\* Every step keeps LeaseInv.
LEMMA LeaseStep == TypeOK /\ LeaseInv /\ [Next]_vars => LeaseInv'
<1>. SUFFICES ASSUME TypeOK, LeaseInv, [Next]_vars PROVE LeaseInv'
  OBVIOUS
<1>. USE StartAssumption DEF TypeOK, LeaseInv, Registered, etcd
<1>1. ASSUME NEW n \in Nodes, Grant(n) PROVE LeaseInv'
  BY <1>1 DEF Grant, Goto
<1>2. ASSUME NEW n \in Nodes, Get(n) PROVE LeaseInv'
  BY <1>2 DEF Get, Goto
<1>3. ASSUME NEW n \in Nodes, Put(n) PROVE LeaseInv'
  BY <1>3 DEF Put, Change, Goto
<1>4. ASSUME NEW n \in Nodes, KeepAlive(n) PROVE LeaseInv'
  BY <1>4 DEF KeepAlive, Goto
<1>5. ASSUME NEW n \in Nodes, Watch(n) PROVE LeaseInv'
  BY <1>5 DEF Watch
<1>6. ASSUME NEW n \in Nodes, HandleEvent(n) PROVE LeaseInv'
  BY <1>6 DEF HandleEvent
<1>7. ASSUME NEW n \in Nodes, WatchEnds(n) PROVE LeaseInv'
  BY <1>7 DEF WatchEnds
<1>8. ASSUME NEW n \in Nodes, Crash(n) PROVE LeaseInv'
  BY <1>8 DEF Crash
<1>9. ASSUME NEW n \in Nodes, NEW lease \in Starts, Expire(n, lease) PROVE LeaseInv'
  <2>1. CASE attached[n] = lease
    BY <1>9, <2>1 DEF Expire, Change
  <2>2. CASE attached[n] # lease
    BY <1>9, <2>2 DEF Expire
  <2>. QED
    BY <2>1, <2>2
<1>10. CASE UNCHANGED vars
  BY <1>10 DEF vars
<1>. QED
  BY <1>1, <1>2, <1>3, <1>4, <1>5, <1>6, <1>7, <1>8, <1>9, <1>10 DEF Next, RegisterAndWatch

\* A node that has put its key stays registered as long as its own lease lives,
\* whatever becomes of the leases of earlier starts, and no key outlives its lease.
THEOREM RegisteredWhileLeased == Spec => []Registered
<1>1. Init => LeaseInv
  BY DEF Init, LeaseInv, Registered, Nobody
<1>2. LeaseInv => Registered
  BY DEF LeaseInv
<1>. QED
  BY <1>1, <1>2, TypeInit, TypeStep, LeaseStep, PTL DEF Spec

-----------------------------------------------------------------------------
(***************************************************************************)
(* What the nodes know                                                     *)
(***************************************************************************)
\* A change that etcd tells the watches of keeps CacheInv.
LEMMA ChangeKeepsCache ==
  ASSUME TypeOK, CacheInv, NEW k \in Nodes, NEW v \in Values, Change(k, v),
         UNCHANGED <<info, watch>>, NEW n \in Nodes, pc[n] \in {"put", "keep", "up"},
         watch[n] # "ended", NEW j \in Nodes \ gap'[n]
  PROVE  LastHeard(info[n], queue'[n], j, store'[j])
<1>1. CASE watch[n] = "on"
  <2>1. queue'[n] = Append(queue[n], <<k, v>>) /\ gap'[n] = gap[n] \ {k}
    BY <1>1 DEF Change
  <2>2. queue[n] \in Seq(Events) /\ store[j] \in Values
    BY DEF TypeOK, Events
  <2>3. CASE j = k
    BY <2>1, <2>2, <2>3, EventSent DEF Change, TypeOK
  <2>4. CASE j # k
    <3>1. store'[j] = store[j] /\ LastHeard(info[n], queue[n], j, store[j])
      BY <2>1, <2>4 DEF Change, TypeOK, CacheInv
    <3>2. LastHeard(info[n], Append(queue[n], <<k, v>>), j, store[j])
      BY <2>2, <2>4, <3>1, EventSent
    <3>. QED
      BY <2>1, <3>1, <3>2
  <2>. QED
    BY <2>3, <2>4
<1>2. CASE watch[n] # "on"
  BY <1>2 DEF Change, TypeOK, CacheInv
<1>. QED
  BY <1>1, <1>2

\* Every step keeps CacheInv.
LEMMA CacheStep == TypeOK /\ CacheInv /\ [Next]_vars => CacheInv'
<1>. SUFFICES ASSUME TypeOK, CacheInv, [Next]_vars PROVE CacheInv'
  OBVIOUS
<1>. USE DEF TypeOK, CacheInv, etcd
<1>1. ASSUME NEW n \in Nodes, Grant(n) PROVE CacheInv'
  BY <1>1 DEF Grant, Goto
<1>2. ASSUME NEW n \in Nodes, Get(n) PROVE CacheInv'
  <2>1. \A k \in Nodes : LastHeard(store, <<>>, k, store[k])
    BY NoEvents
  <2>2. queue'[n] = <<>> /\ info'[n] = store /\ store' = store
    BY <1>2 DEF Get, Goto
  <2>. QED
    BY <1>2, <2>1, <2>2 DEF Get, Goto
<1>3. ASSUME NEW n \in Nodes, Put(n) PROVE CacheInv'
  <2>1. start[n] \in Values
    BY <1>3 DEF Put, Values
  <2>2. /\ UNCHANGED <<info, watch>> /\ Change(n, start[n])
        /\ \A m \in Nodes : pc'[m] \in {"put", "keep", "up"} => pc[m] \in {"put", "keep", "up"}
    BY <1>3 DEF Put, Goto
  <2>3. \A m \in Nodes : watch'[m] = "none" => queue'[m] = <<>>
    BY <2>2 DEF Change
  <2>. QED
    BY <2>1, <2>2, <2>3, ChangeKeepsCache
<1>4. ASSUME NEW n \in Nodes, KeepAlive(n) PROVE CacheInv'
  BY <1>4 DEF KeepAlive, Goto
<1>5. ASSUME NEW n \in Nodes, Watch(n) PROVE CacheInv'
  BY <1>5 DEF Watch
<1>6. ASSUME NEW n \in Nodes, HandleEvent(n) PROVE CacheInv'
  <2>1. /\ queue' = [queue EXCEPT ![n] = Tail(queue[n])]
        /\ info'[n] = [info[n] EXCEPT ![Head(queue[n])[1]] = Head(queue[n])[2]]
        /\ \A m \in Nodes \ {n} : info'[m] = info[m]
        /\ UNCHANGED <<store, pc, watch, gap>>
    BY <1>6 DEF HandleEvent
  <2>2. watch[n] # "none"
    BY <1>6 DEF HandleEvent
  <2>3. ASSUME NEW k \in Nodes, LastHeard(info[n], queue[n], k, store[k])
        PROVE  LastHeard(info'[n], queue'[n], k, store[k])
    <3>1. queue[n] \in Seq(Events) /\ queue[n] # <<>> /\ info[n] \in [Nodes -> Values]
          /\ store[k] \in Values
      BY <1>6 DEF HandleEvent, Events
    <3>2. LastHeard([info[n] EXCEPT ![Head(queue[n])[1]] = Head(queue[n])[2]],
                    Tail(queue[n]), k, store[k])
      BY <2>3, <3>1, EventHandled
    <3>3. queue'[n] = Tail(queue[n])
      BY <2>1
    <3>. QED
      BY <2>1, <3>2, <3>3
  <2>. QED
    BY <2>1, <2>2, <2>3
<1>7. ASSUME NEW n \in Nodes, WatchEnds(n) PROVE CacheInv'
  BY <1>7 DEF WatchEnds
<1>8. ASSUME NEW n \in Nodes, Crash(n) PROVE CacheInv'
  BY <1>8 DEF Crash
<1>9. ASSUME NEW n \in Nodes, NEW lease \in Starts, Expire(n, lease) PROVE CacheInv'
  <2>1. CASE attached[n] = lease
    <3>1. UNCHANGED <<info, watch, pc>> /\ Change(n, None) /\ None \in Values
      BY <1>9, <2>1 DEF Expire, Values
    <3>2. \A m \in Nodes : watch'[m] = "none" => queue'[m] = <<>>
      BY <3>1 DEF Change
    <3>. QED
      BY <3>1, <3>2, ChangeKeepsCache
  <2>2. CASE attached[n] # lease
    BY <1>9, <2>2 DEF Expire
  <2>. QED
    BY <2>1, <2>2
<1>10. CASE UNCHANGED vars
  BY <1>10 DEF vars
<1>. QED
  BY <1>1, <1>2, <1>3, <1>4, <1>5, <1>6, <1>7, <1>8, <1>9, <1>10 DEF Next, RegisterAndWatch

\* As long as it is watched, NodesInfo with the events on their way is the content
\* of etcd, but for the keys in the gap between Get and Watch.
THEOREM NodesInfoTracksEtcd == Spec => []CacheTracksStore
<1>1. Init => CacheInv
  BY DEF Init, CacheInv
<1>2. TypeOK /\ CacheInv => CacheTracksStore
  BY DEF TypeOK, CacheInv, CacheTracksStore
<1>. QED
  BY <1>1, <1>2, TypeInit, TypeStep, CacheStep, PTL DEF Spec

=============================================================================
