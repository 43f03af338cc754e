---------------------------- MODULE EtcdRegistry ----------------------------
(***************************************************************************)
(* Nodes that find each other through etcd (3rd/etcd.go).  Each process    *)
(* calls RegisterAndWatch once: it takes a lease of two seconds, reads the *)
(* keys of all nodes into NodesInfo, puts its own key with the lease,      *)
(* keeps the lease alive, and starts a goroutine that watches all keys and *)
(* brings NodesInfo up to date.  A process may crash and start again while *)
(* the lease of the earlier one still lives.  etcd itself is external:     *)
(* reads, puts, expiries and the order of the events are linearizable.     *)
(***************************************************************************)
EXTENDS Naturals, Sequences

CONSTANTS
  Nodes,        \* nodes, and the keys they put
  None,         \* no key, no lease
  MaxStarts     \* bound: how often a node starts

Starts == 1..MaxStarts

ASSUME StartAssumption == MaxStarts \in Nat \ {0} /\ None \notin Starts

VARIABLES
  \* etcd
  store,        \* under each key the start that has put it, or None
  attached,     \* the lease of each key: the start that was granted it, or None
  leases,       \* the leases of each node that live
  \* the nodes
  start,        \* how often each node has started
  pc,           \* where RegisterAndWatch is
  info,         \* NodesInfo
  watch,        \* the watching goroutine
  queue,        \* events that it has yet to handle
  gap           \* history: keys that changed between Get and Watch, and not since

etcd == <<store, attached, leases>>
vars == <<etcd, start, pc, info, watch, queue, gap>>

Values == Starts \cup {None}

\* Every variable has its type, and a node watches when it is registered.
TypeOK ==
  /\ store \in [Nodes -> Values] /\ attached \in [Nodes -> Values]
  /\ leases \in [Nodes -> SUBSET Starts]
  /\ start \in [Nodes -> 0..MaxStarts]
  /\ pc \in [Nodes -> {"off", "get", "put", "keep", "up"}]
  /\ info \in [Nodes -> [Nodes -> Values]]
  /\ watch \in [Nodes -> {"none", "on", "ended"}]
  /\ \A n \in Nodes : watch[n] # "none" => pc[n] = "up"
  /\ queue \in [Nodes -> Seq(Nodes \X Values)]
  /\ gap \in [Nodes -> SUBSET Nodes]

Nobody == [k \in Nodes |-> None]

Init ==
  /\ store = Nobody
  /\ attached = Nobody
  /\ leases = [n \in Nodes |-> {}]
  /\ start = [n \in Nodes |-> 0]
  /\ pc = [n \in Nodes |-> "off"]
  /\ info = [n \in Nodes |-> Nobody]
  /\ watch = [n \in Nodes |-> "none"]
  /\ queue = [n \in Nodes |-> <<>>]
  /\ gap = [n \in Nodes |-> {}]

Goto(n, from, to) == pc[n] = from /\ pc' = [pc EXCEPT ![n] = to]

\* Key k changes to v: the watches that are on are sent an event.
Change(k, v) ==
  /\ store' = [store EXCEPT ![k] = v]
  /\ queue' = [n \in Nodes |-> IF watch[n] = "on" THEN Append(queue[n], <<k, v>>) ELSE queue[n]]
  /\ gap' = [n \in Nodes |-> IF watch[n] = "on" THEN gap[n] \ {k} ELSE gap[n] \cup {k}]

(***************************************************************************)
(* RegisterAndWatch                                                        *)
(***************************************************************************)
Grant(n) ==
  /\ Goto(n, "off", "get")
  /\ start[n] < MaxStarts
  /\ start' = [start EXCEPT ![n] = @ + 1]
  /\ leases' = [leases EXCEPT ![n] = @ \cup {start'[n]}]
  /\ UNCHANGED <<store, attached, info, watch, queue, gap>>

Get(n) ==
  /\ Goto(n, "get", "put")
  /\ info' = [info EXCEPT ![n] = store]
  /\ gap' = [gap EXCEPT ![n] = {}]
  /\ UNCHANGED <<etcd, start, watch, queue>>

\* Mutant: the key is put without the lease.
Put_Unleased(n) ==
  /\ Goto(n, "put", "keep")
  /\ start[n] \in leases[n]
  /\ Change(n, start[n])
  /\ attached' = [attached EXCEPT ![n] = None]
  /\ UNCHANGED <<leases, start, info, watch>>

\* The key is attached to this lease, and to that of an earlier start no more.
Put(n) ==
  /\ Goto(n, "put", "keep")
  /\ start[n] \in leases[n]
  /\ Change(n, start[n])
  /\ attached' = [attached EXCEPT ![n] = start[n]]
  /\ UNCHANGED <<leases, start, info, watch>>

KeepAlive(n) ==
  /\ Goto(n, "keep", "up")
  /\ UNCHANGED <<etcd, start, info, watch, queue, gap>>

\* Mutant: the goroutine does not wait for the key to be put.
Watch_Early(n) ==
  /\ pc[n] # "off"
  /\ watch[n] = "none"
  /\ watch' = [watch EXCEPT ![n] = "on"]
  /\ UNCHANGED <<etcd, start, pc, info, queue, gap>>

\* The goroutine asks for the events from now on.
Watch(n) ==
  /\ pc[n] = "up"
  /\ watch[n] = "none"
  /\ watch' = [watch EXCEPT ![n] = "on"]
  /\ UNCHANGED <<etcd, start, pc, info, queue, gap>>

\* Mutant: an event that deletes a key is taken for one that puts it.
HandleEvent_Put(n) ==
  /\ queue[n] # <<>>
  /\ queue' = [queue EXCEPT ![n] = Tail(@)]
  /\ LET key == Head(queue[n])[1] value == Head(queue[n])[2]
     IN info' = [info EXCEPT ![n][key] = IF value = None THEN @ ELSE value]
  /\ UNCHANGED <<etcd, start, pc, watch, gap>>

HandleEvent(n) ==
  /\ queue[n] # <<>>
  /\ queue' = [queue EXCEPT ![n] = Tail(@)]
  /\ info' = [info EXCEPT ![n][Head(queue[n])[1]] = Head(queue[n])[2]]
  /\ UNCHANGED <<etcd, start, pc, watch, gap>>

\* The watch is cancelled, with an error or not, and its channel closed: the
\* goroutine ends when it has handled what it was sent.
WatchEnds(n) ==
  /\ watch[n] = "on"
  /\ watch' = [watch EXCEPT ![n] = "ended"]
  /\ UNCHANGED <<etcd, start, pc, info, queue, gap>>

(***************************************************************************)
(* etcd, crashes and exits                                                 *)
(***************************************************************************)
\* A lease is not kept alive in time, because its process has ended or does not
\* reach etcd; the keys attached to it are deleted.
Expire(n, lease) ==
  /\ lease \in leases[n]
  /\ leases' = [leases EXCEPT ![n] = @ \ {lease}]
  /\ IF attached[n] = lease
     THEN Change(n, None) /\ attached' = [attached EXCEPT ![n] = None]
     ELSE UNCHANGED <<store, attached, queue, gap>>
  /\ UNCHANGED <<start, pc, info, watch>>

\* The process ends, OnSystemExit or not, or panics since etcd refuses a call,
\* as it does the Put with a lease that has expired.  The lease stays.
Crash(n) ==
  /\ pc[n] # "off"
  /\ pc' = [pc EXCEPT ![n] = "off"]
  /\ info' = [info EXCEPT ![n] = Nobody]
  /\ watch' = [watch EXCEPT ![n] = "none"]
  /\ queue' = [queue EXCEPT ![n] = <<>>]
  /\ gap' = [gap EXCEPT ![n] = {}]
  /\ UNCHANGED <<etcd, start>>

RegisterAndWatch(n) ==
  Grant(n) \/ Get(n) \/ Put(n) \/ KeepAlive(n) \/ Watch(n) \/ HandleEvent(n) \/ WatchEnds(n)

Next ==
  \E n \in Nodes :
    \/ RegisterAndWatch(n) \/ Crash(n)
    \/ \E lease \in Starts : Expire(n, lease)

Spec == Init /\ [][Next]_vars

\* A goroutine handles the events it is sent, and etcd ends the leases that
\* nobody keeps alive.
Fairness ==
  \A n \in Nodes :
    /\ WF_vars(HandleEvent(n))
    /\ \A lease \in Starts :
         WF_vars((pc[n] = "off" \/ lease # start[n]) /\ Expire(n, lease))

FairSpec == Spec /\ Fairness

-----------------------------------------------------------------------------
(***************************************************************************)
(* Properties                                                              *)
(***************************************************************************)
\* Who knows these nodes and has these events to handle last hears v of key k.
LastHeard(nodes, events, k, v) ==
  LET after(i) == {j \in DOMAIN events : j > i /\ events[j][1] = k}
  IN \/ after(0) = {} /\ nodes[k] = v
     \/ \E i \in DOMAIN events : events[i] = <<k, v>> /\ after(i) = {}

\* NodesInfo, brought up to date with the events on their way, is the content
\* of etcd while the watch lasts, but for the keys that changed between Get and
\* Watch and have not changed since: those changes the node never hears of.
CacheTracksStore ==
  \A n \in Nodes : watch[n] = "on" =>
    \A k \in Nodes \ gap[n] : LastHeard(info[n], queue[n], k, store[k])

\* A node that has put its key is registered, as the start it is, as long as
\* its own lease lives, whenever that of an earlier start expires; and a key
\* never outlives the lease of the start that has put it.
Registered ==
  \A n \in Nodes :
    /\ pc[n] \in {"keep", "up"} /\ start[n] \in leases[n] => store[n] = start[n]
    /\ store[n] # None => store[n] \in leases[n]

\* A node that ends leaves NodesInfo of every node that goes on watching, unless
\* its key went in that node's gap.
DeadForgotten ==
  \A n, k \in Nodes :
    pc[k] = "off" ~> \/ pc[k] # "off" \/ watch[n] # "on"
                     \/ k \in gap[n] \/ info[n][k] = None

=============================================================================
