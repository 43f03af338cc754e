------------------------- MODULE ClientServiceProofs -------------------------
(***************************************************************************)
(* Proofs about ClientService, for any requesters, pushes, ids and         *)
(* buffers.  Its invariants: who is in RequestMessage has made a call      *)
(* (CallInv), a message is on its way once (WireInv), a call is found in   *)
(* responseHandlers under its own id and once (WaiterInv), the answer to a *)
(* requester with an id of its own finds the call it was made for          *)
(* (AnswerInv), and a buffer has one place as long as users leave closing  *)
(* to readLoop (BufferInv, UserInv).                                       *)
(***************************************************************************)
EXTENDS ClientService, FiniteSetTheorems, SequenceTheorems, TLAPS

-----------------------------------------------------------------------------
(***************************************************************************)
(* The invariants                                                          *)
(***************************************************************************)
\* Whoever is in RequestMessage has made a call.
CallInv == \A r \in Requesters : rpc[r] # "idle" => calls[r] > 0

Elements(s) == {s[i] : i \in DOMAIN s}
Once(s) == \A i, j \in DOMAIN s : s[i] = s[j] => i = j

\* The request of call c has been sent, or will never be.
Sent(c) == c[2] < calls[c[1]] \/ (c[2] = calls[c[1]] /\ rpc[c[1]] # "send")

\* A call is asked once, and its answer, like a push, is on the wire or was
\* decoded, once.
WireInv ==
  /\ \A c \in Calls : c \in asked \/ c \in Elements(wire) \/ owned[c] # None => Sent(c)
  /\ asked \cap Elements(wire) = {}
  /\ Once(wire)
  /\ \A m \in Msgs : owned[m] # None => m \notin asked /\ m \notin Elements(wire)
  /\ msg # None => owned[msg] # None
  /\ \A c \in Calls : done[c] # None =>
       owned[done[c]] # None /\ ~(done[c] = msg /\ pc \in {"rec", "deliver"})

\* A call is in responseHandlers under its own id, from Register to the Delete
\* after its channel was filled.
Made(c) == c[2] <= calls[c[1]]

WaiterInv ==
  /\ \A i \in Ids : handlers[i] # None => idOf[handlers[i][1]] = i /\ Made(handlers[i])
  /\ pc \in {"deliver", "delete"} => idOf[waiter[1]] = Id(msg) /\ Made(waiter)
  /\ \A c \in Calls : done[c] # None =>
       Made(c) /\ (handlers[idOf[c[1]]] = c => pc = "delete" /\ waiter = c)
  /\ RecNeverBlocks

\* As long as a request with an id of its own, or the answer to it, is on its way
\* its requester waits, with this call, the latest, in responseHandlers.
Latest(c) == c[2] = calls[c[1]]

AnswerInv ==
  \A c \in Calls : OwnId(c[1]) =>
    /\ \/ c \in asked \/ c \in Elements(wire) \/ done[c] # None
       \/ msg = c /\ pc \in {"rec", "deliver"}
       => Latest(c) /\ rpc[c[1]] = "wait"
    /\ done[c] \in {None, c}
    /\ handlers[idOf[c[1]]] = c => Latest(c)
    /\ pc = "deliver" /\ waiter = c => msg = c

\* Unless users close messages only readLoop returns buffers: the payload of a
\* message, once decoded, stays in it until readLoop has put it into the pool.
BufferInv ==
  /\ \A m \in Msgs : payload[m] \in {None, owned[m]}
  /\ \A b \in Bufs : pool[b] > 0 => \E m \in Msgs : owned[m] = b
  /\ pc \in {"put", "clear"} => payload[msg] # None
  /\ \A b \in Bufs : pool[b] <= 1
  /\ \A b \in Bufs : \A m, n \in Holding(b) : m = n
  /\ \A b \in Bufs : pool[b] > 0 => Holding(b) = {}

UserInv == ~userCloses => BufferInv /\ \A m \in Msgs : use[m] \in {"none", "using", "done"}

-----------------------------------------------------------------------------
(***************************************************************************)
(* Calls, messages and the wire                                            *)
(***************************************************************************)
\* A call is a requester and the number of its call.
LEMMA CallPairs ==
  /\ \A r \in Requesters : \A k \in Nat : <<r, k>> \in Calls <=> k \in 1..MaxCalls[r]
  /\ \A c \in Calls : /\ c[1] \in Requesters /\ c[2] \in 1..MaxCalls[c[1]]
                      /\ c[2] \in Nat \ {0} /\ c = <<c[1], c[2]>>
BY BoundAssumption DEF Calls

\* Each message has an id: that of its requester, or its own.
LEMMA MessageIds ==
  ASSUME TypeOK
  PROVE  /\ \A m \in Msgs : Id(m) \in Ids
         /\ \A c \in Calls : Id(c) = idOf[c[1]] /\ idOf[c[1]] \in Ids
BY CallPairs, SourceAssumption DEF TypeOK, Id, Msgs

\* Appending adds an element, and keeps elements distinct if it is a new one.
LEMMA AppendElements ==
  ASSUME NEW S, NEW s \in Seq(S), NEW e \in S
  PROVE  /\ Elements(Append(s, e)) = Elements(s) \cup {e}
         /\ Once(s) /\ e \notin Elements(s) => Once(Append(s, e))
<1>1. /\ Len(Append(s, e)) = Len(s) + 1 /\ Len(s) \in Nat
      /\ DOMAIN s = 1..Len(s) /\ DOMAIN Append(s, e) = 1..(Len(s) + 1)
      /\ \A i \in 1..Len(s) : Append(s, e)[i] = s[i]
      /\ Append(s, e)[Len(s) + 1] = e
  BY AppendProperties, LenProperties
<1>2. \A i \in DOMAIN Append(s, e) : i \in DOMAIN s \/ i = Len(s) + 1
  BY <1>1
<1>. QED
  BY <1>1, <1>2 DEF Elements, Once

\* Taking the head away takes that element away, if it was there once.
LEMMA TailElements ==
  ASSUME NEW S, NEW s \in Seq(S), s # <<>>
  PROVE  /\ Head(s) \in S /\ Head(s) \in Elements(s) /\ Tail(s) \in Seq(S)
         /\ Elements(Tail(s)) \subseteq Elements(s)
         /\ Once(s) => Once(Tail(s)) /\ Head(s) \notin Elements(Tail(s))
<1>1. /\ Len(s) \in Nat \ {0} /\ DOMAIN s = 1..Len(s)
      /\ Tail(s) \in Seq(S) /\ Len(Tail(s)) = Len(s) - 1
      /\ DOMAIN Tail(s) = 1..(Len(s) - 1)
      /\ \A i \in 1..(Len(s) - 1) : Tail(s)[i] = s[i + 1]
      /\ Head(s) = s[1] /\ Head(s) \in S
  BY HeadTailProperties, LenProperties, EmptySeq
<1>2. \A i \in DOMAIN Tail(s) : i + 1 \in DOMAIN s /\ i + 1 # 1 /\ Tail(s)[i] = s[i + 1]
  BY <1>1
<1>. QED
  BY <1>1, <1>2 DEF Elements, Once

-----------------------------------------------------------------------------
(***************************************************************************)
(* Types                                                                   *)
(***************************************************************************)
\* The call that a requester is in.
LEMMA OwnCall ==
  ASSUME TypeOK, CallInv, NEW r \in Requesters, rpc[r] # "idle"
  PROVE  Call(r) \in Calls /\ Call(r)[1] = r /\ Call(r)[2] = calls[r]
<1>1. /\ calls[r] \in Nat /\ calls[r] > 0 /\ calls[r] <= MaxCalls[r]
      /\ MaxCalls[r] \in Nat
  BY BoundAssumption DEF TypeOK, CallInv
<1>2. calls[r] \in 1..MaxCalls[r]
  BY <1>1
<1>. QED
  BY <1>1, <1>2, CallPairs DEF Call

\* What a run is given stays as it is.
LEMMA GivenKept == [Next]_vars => given' = given
BY DEF Next, RequestMessage, Server, ReadLoop, User, vars, Register, Send, SendFails, Receive,
       AddMessageHandler, RemoveMessageHandler, SetPushHandlers, Disconnect, Answer, Push,
       Decode, RecAnswer, RecPush, Deliver, Delete, CloseTest, ClosePut, CloseClear,
       UserDone, UserTest, UserPut, UserClear

\* Put counts the buffer of a message that has one, and nothing otherwise.
LEMMA PutKeepsType ==
  ASSUME TypeOK, NEW m, Put(m)
  PROVE  pool' \in [Bufs -> Nat]
<1>1. pool' = [pool EXCEPT ![owned[m]] = pool[owned[m]] + 1]
  BY DEF Put
<1>2. CASE owned[m] \in Bufs
  BY <1>1, <1>2 DEF TypeOK
<1>3. CASE owned[m] \notin Bufs
  BY <1>1, <1>3 DEF TypeOK
<1>. QED
  BY <1>2, <1>3

\* Every step keeps every variable in its type.
LEMMA TypeStep == TypeOK /\ CallInv /\ [Next]_vars => (TypeOK /\ CallInv)'
<1>. SUFFICES ASSUME TypeOK, CallInv, [Next]_vars PROVE (TypeOK /\ CallInv)'
  OBVIOUS
<1>. USE CallPairs, MessageIds, BoundAssumption, NoneAssumption
     DEF TypeOK, CallInv, Call, Msgs, given, net, requests, buffers
<1>1. ASSUME NEW r \in Requesters, Register(r) PROVE (TypeOK /\ CallInv)'
  <2>1. <<r, calls[r] + 1>> \in Calls
    BY <1>1 DEF Register
  <2>2. handlers' \in [Ids -> Calls \cup {None}]
    BY <1>1, <2>1 DEF Register
  <2>. QED
    BY <1>1, <2>2 DEF Register
<1>2. ASSUME NEW r \in Requesters, Send(r) PROVE (TypeOK /\ CallInv)'
  <2>1. Call(r) \in Calls
    BY <1>2, OwnCall DEF Send
  <2>. QED
    BY <1>2, <2>1 DEF Send
<1>3. ASSUME NEW r \in Requesters, SendFails(r) PROVE (TypeOK /\ CallInv)'
  BY <1>3 DEF SendFails
<1>4. ASSUME NEW r \in Requesters, Receive(r) PROVE (TypeOK /\ CallInv)'
  BY <1>4 DEF Receive
<1>5. ASSUME NEW i \in Ids, AddMessageHandler(i) PROVE (TypeOK /\ CallInv)'
  BY <1>5 DEF AddMessageHandler, SetPushHandlers
<1>6. ASSUME NEW i \in Ids, RemoveMessageHandler(i) PROVE (TypeOK /\ CallInv)'
  BY <1>6 DEF RemoveMessageHandler, SetPushHandlers
<1>7. CASE Disconnect
  BY <1>7 DEF Disconnect
<1>8. ASSUME NEW c \in Calls, Answer(c) PROVE (TypeOK /\ CallInv)'
  BY <1>8 DEF Answer
<1>9. ASSUME NEW p \in Pushes, Push(p) PROVE (TypeOK /\ CallInv)'
  BY <1>9 DEF Push
<1>10. CASE Decode
  <2>1. Head(wire) \in Msgs /\ wire' \in Seq(Msgs)
    BY <1>10, TailElements DEF Decode
  <2>2. PICK b \in Bufs : Gets(Head(wire), b)
    BY <1>10 DEF Decode
  <2>3. pool' \in [Bufs -> Nat]
    BY <2>2 DEF Gets
  <2>4. owned' \in [Msgs -> Bufs \cup {None}] /\ payload' \in [Msgs -> Bufs \cup {None}]
    BY <2>1, <2>2 DEF Gets
  <2>5. release' \in [Msgs -> BOOLEAN]
    BY <2>1, <2>2 DEF Gets
  <2>. QED
    BY <1>10, <2>1, <2>3, <2>4, <2>5 DEF Decode
<1>11. CASE RecAnswer
  BY <1>11 DEF RecAnswer
<1>12. CASE RecPush
  BY <1>12 DEF RecPush
<1>13. CASE Deliver
  BY <1>13 DEF Deliver
<1>14. CASE Delete
  BY <1>14 DEF Delete
<1>15. CASE CloseTest
  BY <1>15 DEF CloseTest, NextFrame
<1>16. CASE ClosePut
  <2>1. pool' \in [Bufs -> Nat]
    BY <1>16, PutKeepsType DEF ClosePut
  <2>. QED
    BY <1>16, <2>1 DEF ClosePut, Put
<1>17. CASE CloseClear
  BY <1>17 DEF CloseClear, Clear, NextFrame
<1>18. ASSUME NEW m \in Msgs, UserDone(m) PROVE (TypeOK /\ CallInv)'
  BY <1>18 DEF UserDone, Step
<1>19. ASSUME NEW m \in Msgs, UserTest(m) PROVE (TypeOK /\ CallInv)'
  BY <1>19 DEF UserTest, Step
<1>20. ASSUME NEW m \in Msgs, UserPut(m) PROVE (TypeOK /\ CallInv)'
  <2>1. pool' \in [Bufs -> Nat]
    BY <1>20, PutKeepsType DEF UserPut
  <2>. QED
    BY <1>20, <2>1 DEF UserPut, Step, Put
<1>21. ASSUME NEW m \in Msgs, UserClear(m) PROVE (TypeOK /\ CallInv)'
  BY <1>21 DEF UserClear, Step, Clear
<1>22. CASE UNCHANGED vars
  BY <1>22 DEF vars
<1>. QED
  BY <1>1, <1>2, <1>3, <1>4, <1>5, <1>6, <1>7, <1>8, <1>9, <1>10, <1>11, <1>12, <1>13,
     <1>14, <1>15, <1>16, <1>17, <1>18, <1>19, <1>20, <1>21, <1>22
  DEF Next, RequestMessage, Server, ReadLoop, User

\* The initial states have every variable in its type.
LEMMA TypeInit == Init => TypeOK /\ CallInv
<1>. SUFFICES ASSUME Init PROVE TypeOK /\ CallInv
  OBVIOUS
<1>1. /\ handlers \in [Ids -> Calls \cup {None}] /\ done \in [Calls -> Msgs \cup {None}]
      /\ wire \in Seq(Msgs)
      /\ calls \in [Requesters -> Nat] /\ \A r \in Requesters : calls[r] <= MaxCalls[r]
  BY BoundAssumption DEF Init
<1>2. /\ rpc \in [Requesters -> {"idle", "send", "wait"}] /\ \A r \in Requesters : rpc[r] = "idle"
      /\ use \in [Msgs -> {"none", "using", "close", "put", "clear", "done"}]
      /\ release \in [Msgs -> BOOLEAN] /\ payload \in [Msgs -> Bufs \cup {None}]
      /\ owned \in [Msgs -> Bufs \cup {None}] /\ pool \in [Bufs -> Nat]
  BY DEF Init
<1>. QED
  BY <1>1, <1>2 DEF Init, TypeOK, CallInv

\* Every variable keeps its type, for any number of requesters and pushes.
THEOREM TypeCorrect == Spec => []TypeOK
<1>1. Spec => [](TypeOK /\ CallInv)
  BY TypeInit, TypeStep, PTL DEF Spec
<1>. QED
  BY <1>1, PTL

-----------------------------------------------------------------------------
(***************************************************************************)
(* A message is on its way once                                            *)
(***************************************************************************)
\* Every step keeps WireInv.
LEMMA WireStep == TypeOK /\ CallInv /\ WireInv /\ [Next]_vars => WireInv'
<1>. SUFFICES ASSUME TypeOK, CallInv, WireInv, [Next]_vars PROVE WireInv'
  OBVIOUS
<1>a. \A c \in Calls : c \in Msgs /\ c \notin Pushes
  BY SourceAssumption DEF Msgs
<1>. USE CallPairs, NoneAssumption
     DEF WireInv, CallInv, Call, Sent, given, net, requests, buffers
<1>1. ASSUME NEW r \in Requesters, Register(r) PROVE WireInv'
  BY <1>1, <1>a DEF Register, TypeOK
<1>2. ASSUME NEW r \in Requesters, Send(r) PROVE WireInv'
  <2>1. PICK d \in Calls : d = Call(r) /\ d[1] = r /\ d[2] = calls[r]
    BY <1>2, OwnCall DEF Send
  <2>2. d \notin Elements(wire) /\ owned[d] = None
    BY <1>2, <2>1 DEF Send, TypeOK
  <2>3. asked' = asked \cup {d} /\ UNCHANGED <<wire, owned, done, msg, pc>>
    BY <1>2, <2>1 DEF Send
  <2>4. Sent(d)' /\ \A c \in Calls : Sent(c) => Sent(c)'
    BY <1>2, <2>1 DEF Send, TypeOK
  <2>. QED
    BY <1>a, <2>2, <2>3, <2>4
<1>3. ASSUME NEW r \in Requesters, SendFails(r) PROVE WireInv'
  BY <1>3, <1>a DEF SendFails, TypeOK
<1>4. ASSUME NEW r \in Requesters, Receive(r) PROVE WireInv'
  BY <1>4, <1>a DEF Receive, TypeOK
<1>5. ASSUME NEW i \in Ids, AddMessageHandler(i) PROVE WireInv'
  BY <1>5, <1>a DEF AddMessageHandler, SetPushHandlers, TypeOK
<1>6. ASSUME NEW i \in Ids, RemoveMessageHandler(i) PROVE WireInv'
  BY <1>6, <1>a DEF RemoveMessageHandler, SetPushHandlers, TypeOK
<1>7. CASE Disconnect
  <2>1. Elements(<<>>) = {} /\ Once(<<>>)
    BY DEF Elements, Once
  <2>. QED
    BY <1>7, <2>1 DEF Disconnect, TypeOK
<1>8. ASSUME NEW c \in Calls, Answer(c) PROVE WireInv'
  <2>1. Elements(wire') = Elements(wire) \cup {c} /\ Once(wire')
    BY <1>8, <1>a, AppendElements DEF Answer, TypeOK
  <2>. QED
    BY <1>8, <1>a, <2>1 DEF Answer, TypeOK
<1>9. ASSUME NEW p \in Pushes, Push(p) PROVE WireInv'
  <2>1. p \in Msgs /\ p \notin Elements(wire)
    BY <1>9 DEF Push, Msgs, Elements
  <2>2. Elements(wire') = Elements(wire) \cup {p} /\ Once(wire')
    BY <1>9, <2>1, AppendElements DEF Push, TypeOK
  <2>. QED
    BY <1>9, <1>a, <2>1, <2>2 DEF Push, TypeOK
<1>10. CASE Decode
  <2>1. /\ msg' \in Msgs /\ msg' \in Elements(wire)
        /\ Elements(wire') \subseteq Elements(wire) /\ msg' \notin Elements(wire')
        /\ Once(wire')
    BY <1>10, TailElements DEF Decode, TypeOK
  <2>2. PICK b \in Bufs : owned' = [owned EXCEPT ![msg'] = b]
    BY <1>10 DEF Decode, Gets
  <2>3. owned'[msg'] # None /\ \A m \in Msgs \ {msg'} : owned'[m] = owned[m]
    BY <2>1, <2>2 DEF TypeOK
  <2>4. \A c \in Calls : done[c] # None => done[c] \in Msgs /\ done[c] # msg'
    BY <2>1 DEF TypeOK
  <2>. QED
    BY <1>10, <1>a, <2>1, <2>3, <2>4 DEF Decode, TypeOK
<1>11. CASE RecAnswer
  BY <1>11, <1>a DEF RecAnswer, TypeOK
<1>12. CASE RecPush
  BY <1>12, <1>a DEF RecPush, TypeOK
<1>13. CASE Deliver
  BY <1>13, <1>a DEF Deliver, TypeOK
<1>14. CASE Delete
  BY <1>14, <1>a DEF Delete, TypeOK
<1>15. CASE CloseTest
  BY <1>15, <1>a DEF CloseTest, NextFrame, TypeOK
<1>16. CASE ClosePut
  BY <1>16, <1>a DEF ClosePut, Put, TypeOK
<1>17. CASE CloseClear
  BY <1>17, <1>a DEF CloseClear, Clear, NextFrame, TypeOK
<1>18. ASSUME NEW m \in Msgs, UserDone(m) PROVE WireInv'
  BY <1>18, <1>a DEF UserDone, Step, TypeOK
<1>19. ASSUME NEW m \in Msgs, UserTest(m) PROVE WireInv'
  BY <1>19, <1>a DEF UserTest, Step, TypeOK
<1>20. ASSUME NEW m \in Msgs, UserPut(m) PROVE WireInv'
  BY <1>20, <1>a DEF UserPut, Step, Put, TypeOK
<1>21. ASSUME NEW m \in Msgs, UserClear(m) PROVE WireInv'
  BY <1>21, <1>a DEF UserClear, Step, Clear, TypeOK
<1>22. CASE UNCHANGED vars
  BY <1>22, <1>a DEF vars, TypeOK
<1>. QED
  BY <1>1, <1>2, <1>3, <1>4, <1>5, <1>6, <1>7, <1>8, <1>9, <1>10, <1>11, <1>12, <1>13,
     <1>14, <1>15, <1>16, <1>17, <1>18, <1>19, <1>20, <1>21, <1>22
  DEF Next, RequestMessage, Server, ReadLoop, User

-----------------------------------------------------------------------------
(***************************************************************************)
(* rec and its handler                                                     *)
(***************************************************************************)
\* Every step keeps WaiterInv.
LEMMA WaiterStep == TypeOK /\ CallInv /\ WaiterInv /\ [Next]_vars => WaiterInv'
<1>. SUFFICES ASSUME TypeOK, CallInv, WaiterInv, [Next]_vars PROVE WaiterInv'
  OBVIOUS
<1>a. /\ \A m \in Msgs : Id(m) \in Ids /\ Id(m)' = Id(m)
      /\ \A c \in Calls : idOf[c[1]] \in Ids
  <2>1. idOf' = idOf
    BY GivenKept DEF given
  <2>. QED
    BY <2>1, MessageIds DEF Id
<1>. USE CallPairs, NoneAssumption
     DEF WaiterInv, RecNeverBlocks, Call, Made, given, net, requests, buffers
<1>1. ASSUME NEW r \in Requesters, Register(r) PROVE WaiterInv'
  BY <1>1, <1>a DEF Register, TypeOK
<1>2. ASSUME NEW r \in Requesters, Send(r) PROVE WaiterInv'
  BY <1>2, <1>a DEF Send, TypeOK
<1>3. ASSUME NEW r \in Requesters, SendFails(r) PROVE WaiterInv'
  BY <1>3, <1>a DEF SendFails, TypeOK
<1>4. ASSUME NEW r \in Requesters, Receive(r) PROVE WaiterInv'
  BY <1>4, <1>a DEF Receive, TypeOK
<1>5. ASSUME NEW i \in Ids, AddMessageHandler(i) PROVE WaiterInv'
  BY <1>5, <1>a DEF AddMessageHandler, SetPushHandlers, TypeOK
<1>6. ASSUME NEW i \in Ids, RemoveMessageHandler(i) PROVE WaiterInv'
  BY <1>6, <1>a DEF RemoveMessageHandler, SetPushHandlers, TypeOK
<1>7. CASE Disconnect
  BY <1>7, <1>a DEF Disconnect, TypeOK
<1>8. ASSUME NEW c \in Calls, Answer(c) PROVE WaiterInv'
  BY <1>8, <1>a DEF Answer, TypeOK
<1>9. ASSUME NEW p \in Pushes, Push(p) PROVE WaiterInv'
  BY <1>9, <1>a DEF Push, TypeOK
<1>10. CASE Decode
  BY <1>10, <1>a DEF Decode, Gets, TypeOK
<1>11. CASE RecAnswer
  BY <1>11, <1>a DEF RecAnswer, TypeOK
<1>12. CASE RecPush
  BY <1>12, <1>a DEF RecPush, TypeOK
<1>13. CASE Deliver
  BY <1>13, <1>a DEF Deliver, TypeOK
<1>14. CASE Delete
  BY <1>14, <1>a DEF Delete, TypeOK
<1>15. CASE CloseTest
  BY <1>15, <1>a DEF CloseTest, NextFrame, TypeOK
<1>16. CASE ClosePut
  BY <1>16, <1>a DEF ClosePut, Put, TypeOK
<1>17. CASE CloseClear
  BY <1>17, <1>a DEF CloseClear, Clear, NextFrame, TypeOK
<1>18. ASSUME NEW m \in Msgs, UserDone(m) PROVE WaiterInv'
  BY <1>18, <1>a DEF UserDone, Step, TypeOK
<1>19. ASSUME NEW m \in Msgs, UserTest(m) PROVE WaiterInv'
  BY <1>19, <1>a DEF UserTest, Step, TypeOK
<1>20. ASSUME NEW m \in Msgs, UserPut(m) PROVE WaiterInv'
  BY <1>20, <1>a DEF UserPut, Step, Put, TypeOK
<1>21. ASSUME NEW m \in Msgs, UserClear(m) PROVE WaiterInv'
  BY <1>21, <1>a DEF UserClear, Step, Clear, TypeOK
<1>22. CASE UNCHANGED vars
  BY <1>22, <1>a DEF vars, TypeOK
<1>. QED
  BY <1>1, <1>2, <1>3, <1>4, <1>5, <1>6, <1>7, <1>8, <1>9, <1>10, <1>11, <1>12, <1>13,
     <1>14, <1>15, <1>16, <1>17, <1>18, <1>19, <1>20, <1>21, <1>22
  DEF Next, RequestMessage, Server, ReadLoop, User

\* rec never waits for the caller it answers, so that readLoop goes on for all.
THEOREM ReadLoopGoesOn == Spec => []RecNeverBlocks
<1>1. Init => WaiterInv
  BY DEF Init, WaiterInv, RecNeverBlocks
<1>2. Spec => [](TypeOK /\ CallInv)
  BY TypeInit, TypeStep, PTL DEF Spec
<1>3. WaiterInv => RecNeverBlocks
  BY DEF WaiterInv
<1>. QED
  BY <1>1, <1>2, <1>3, WaiterStep, PTL DEF Spec

-----------------------------------------------------------------------------
(***************************************************************************)
(* The right answer                                                        *)
(***************************************************************************)
\* Nobody else has the id of a requester with an id of its own.
LEMMA OwnIds ==
  ASSUME TypeOK, NEW c \in Calls, OwnId(c[1])
  PROVE  /\ \A d \in Calls : idOf[d[1]] = idOf[c[1]] => d[1] = c[1]
         /\ \A m \in Msgs : Id(m) = idOf[c[1]] => m \in Calls /\ m[1] = c[1]
BY CallPairs, SourceAssumption DEF OwnId, Id, Msgs, TypeOK

\* Every step keeps AnswerInv.
LEMMA AnswerStep ==
  TypeOK /\ CallInv /\ WireInv /\ WaiterInv /\ AnswerInv /\ [Next]_vars => AnswerInv'
<1>. SUFFICES ASSUME TypeOK, CallInv, WireInv, WaiterInv, AnswerInv, [Next]_vars
              PROVE  AnswerInv'
  OBVIOUS
<1>a. \A c \in Calls : c \in Msgs
  BY DEF Msgs
<1>b. idOf' = idOf
  BY GivenKept DEF given
<1>c. \A c \in Calls : OwnId(c[1])' <=> OwnId(c[1])
  BY <1>b DEF OwnId
<1>d. \A c, d \in Calls : c[1] = d[1] /\ c[2] = d[2] => c = d
  BY CallPairs
<1>. USE CallPairs, NoneAssumption
     DEF AnswerInv, Latest, Call, given, net, requests, buffers
<1>1. ASSUME NEW r \in Requesters, Register(r) PROVE AnswerInv'
  BY <1>1, <1>a, <1>b, <1>c, <1>d, OwnIds DEF Register, TypeOK
<1>2. ASSUME NEW r \in Requesters, Send(r) PROVE AnswerInv'
  BY <1>2, <1>a, <1>b, <1>c, <1>d, OwnIds DEF Send, TypeOK
<1>3. ASSUME NEW r \in Requesters, SendFails(r) PROVE AnswerInv'
  BY <1>3, <1>a, <1>b, <1>c, <1>d, OwnIds DEF SendFails, TypeOK
<1>4. ASSUME NEW r \in Requesters, Receive(r) PROVE AnswerInv'
  <2>1. PICK d \in Calls : d = Call(r) /\ d[1] = r /\ d[2] = calls[r]
    BY <1>4, OwnCall DEF Receive
  <2>2. done[d] # None /\ done' = [done EXCEPT ![d] = None] /\ rpc' = [rpc EXCEPT ![r] = "idle"]
        /\ UNCHANGED <<asked, wire, msg, pc, calls, handlers, waiter, idOf>>
    BY <1>4, <2>1 DEF Receive
  <2>3. SUFFICES ASSUME NEW e \in Calls, OwnId(e[1])
                 PROVE  (\/ e \in asked \/ e \in Elements(wire) \/ done'[e] # None
                         \/ msg = e /\ pc \in {"rec", "deliver"})
                        => Latest(e) /\ rpc'[e[1]] = "wait"
    BY <1>c, <2>2 DEF TypeOK
  <2>4. CASE e[1] = r
    <3>1. done[d] = d /\ owned[d] # None /\ ~(d = msg /\ pc \in {"rec", "deliver"})
      BY <2>1, <2>2, <2>3, <2>4, <1>a DEF WireInv
    <3>2. d \notin asked /\ d \notin Elements(wire)
      BY <3>1, <1>a DEF WireInv
    <3>3. done'[e] # None => e # d /\ done[e] # None
      BY <2>2 DEF TypeOK
    <3>4. e # d => ~Latest(e)
      BY <2>1, <2>4, <1>d
    <3>. QED
      BY <2>2, <2>3, <3>1, <3>2, <3>3, <3>4, <1>a DEF TypeOK
  <2>5. CASE e[1] # r
    <3>1. rpc'[e[1]] = rpc[e[1]] /\ done'[e] = done[e]
      BY <2>1, <2>2, <2>5 DEF TypeOK
    <3>. QED
      BY <2>3, <3>1
  <2>. QED
    BY <2>4, <2>5
<1>5. ASSUME NEW i \in Ids, AddMessageHandler(i) PROVE AnswerInv'
  BY <1>5, <1>a, <1>b, <1>c, <1>d, OwnIds DEF AddMessageHandler, SetPushHandlers, TypeOK
<1>6. ASSUME NEW i \in Ids, RemoveMessageHandler(i) PROVE AnswerInv'
  BY <1>6, <1>a, <1>b, <1>c, <1>d, OwnIds DEF RemoveMessageHandler, SetPushHandlers, TypeOK
<1>7. CASE Disconnect
  <2>1. Elements(wire') = {}
    BY <1>7 DEF Disconnect, Elements
  <2>. QED
    BY <1>7, <2>1, <1>c DEF Disconnect, TypeOK
<1>8. ASSUME NEW c \in Calls, Answer(c) PROVE AnswerInv'
  <2>1. Elements(wire') = Elements(wire) \cup {c}
    BY <1>8, <1>a, AppendElements DEF Answer, TypeOK
  <2>. QED
    BY <1>8, <2>1, <1>c DEF Answer, TypeOK
<1>9. ASSUME NEW p \in Pushes, Push(p) PROVE AnswerInv'
  <2>1. p \in Msgs /\ p \notin Calls
    BY <1>9, SourceAssumption DEF Push, Msgs
  <2>2. Elements(wire') = Elements(wire) \cup {p}
    BY <1>9, <2>1, AppendElements DEF Push, TypeOK
  <2>. QED
    BY <1>9, <2>1, <2>2, <1>c DEF Push, TypeOK
<1>10. CASE Decode
  <2>1. msg' \in Elements(wire) /\ Elements(wire') \subseteq Elements(wire)
    BY <1>10, TailElements DEF Decode, TypeOK
  <2>. QED
    BY <1>10, <2>1, <1>c DEF Decode, TypeOK
<1>11. CASE RecAnswer
  <2>1. PICK m \in Msgs : m = msg
    BY <1>11 DEF RecAnswer, TypeOK
  <2>2. PICK w \in Calls : w = handlers[Id(m)]
    BY <1>11, <2>1, MessageIds DEF RecAnswer, TypeOK
  <2>3. idOf[w[1]] = Id(m)
    BY <1>11, <2>1, <2>2, MessageIds DEF RecAnswer, WaiterInv
  <2>4. OwnId(w[1]) => m \in Calls /\ m[1] = w[1]
    BY <2>3, OwnIds
  <2>5. OwnId(w[1]) => Latest(w) /\ Latest(m)
    BY <1>11, <2>1, <2>2, <2>3, <2>4 DEF RecAnswer
  <2>6. OwnId(w[1]) => m = w
    BY <2>4, <2>5, <1>d
  <2>. QED
    BY <1>11, <2>1, <2>2, <2>6, <1>b, <1>c DEF RecAnswer, TypeOK
<1>12. CASE RecPush
  BY <1>12, <1>a, <1>b, <1>c, <1>d, OwnIds DEF RecPush, TypeOK
<1>13. CASE Deliver
  BY <1>13, <1>a, <1>b, <1>c, <1>d, OwnIds DEF Deliver, TypeOK
<1>14. CASE Delete
  BY <1>14, <1>a, <1>b, <1>c, <1>d, OwnIds DEF Delete, TypeOK
<1>15. CASE CloseTest
  BY <1>15, <1>a, <1>b, <1>c, <1>d, OwnIds DEF CloseTest, NextFrame, TypeOK
<1>16. CASE ClosePut
  BY <1>16, <1>a, <1>b, <1>c, <1>d, OwnIds DEF ClosePut, Put, TypeOK
<1>17. CASE CloseClear
  BY <1>17, <1>a, <1>b, <1>c, <1>d, OwnIds DEF CloseClear, Clear, NextFrame, TypeOK
<1>18. ASSUME NEW m \in Msgs, UserDone(m) PROVE AnswerInv'
  BY <1>18, <1>a, <1>b, <1>c, <1>d, OwnIds DEF UserDone, Step, TypeOK
<1>19. ASSUME NEW m \in Msgs, UserTest(m) PROVE AnswerInv'
  BY <1>19, <1>a, <1>b, <1>c, <1>d, OwnIds DEF UserTest, Step, TypeOK
<1>20. ASSUME NEW m \in Msgs, UserPut(m) PROVE AnswerInv'
  BY <1>20, <1>a, <1>b, <1>c, <1>d, OwnIds DEF UserPut, Step, Put, TypeOK
<1>21. ASSUME NEW m \in Msgs, UserClear(m) PROVE AnswerInv'
  BY <1>21, <1>a, <1>b, <1>c, <1>d, OwnIds DEF UserClear, Step, Clear, TypeOK
<1>22. CASE UNCHANGED vars
  BY <1>22, <1>a, <1>b, <1>c, <1>d, OwnIds DEF vars, TypeOK
<1>. QED
  BY <1>1, <1>2, <1>3, <1>4, <1>5, <1>6, <1>7, <1>8, <1>9, <1>10, <1>11, <1>12, <1>13,
     <1>14, <1>15, <1>16, <1>17, <1>18, <1>19, <1>20, <1>21, <1>22
  DEF Next, RequestMessage, Server, ReadLoop, User

\* At first nothing is on its way.
LEMMA NothingYet == Init => WireInv /\ WaiterInv /\ AnswerInv
<1>. SUFFICES ASSUME Init PROVE WireInv /\ WaiterInv /\ AnswerInv
  OBVIOUS
<1>1. Elements(wire) = {} /\ Once(wire)
  BY DEF Init, Elements, Once
<1>2. /\ msg = None /\ pc = "read" /\ asked = {}
      /\ \A c \in Calls : done[c] = None
      /\ \A m \in Msgs : owned[m] = None
      /\ \A i \in Ids : handlers[i] = None
  BY DEF Init
<1>3. \A c \in Calls : c \in Msgs /\ c # None
  BY NoneAssumption DEF Msgs
<1>4. \A c \in Calls : idOf[c[1]] \in Ids
  BY CallPairs DEF Init
<1>5. WireInv
  BY <1>1, <1>2, <1>3 DEF WireInv
<1>6. WaiterInv
  BY <1>2 DEF WaiterInv, RecNeverBlocks
<1>7. AnswerInv
  BY <1>1, <1>2, <1>3, <1>4 DEF AnswerInv
<1>. QED
  BY <1>5, <1>6, <1>7

\* A requester with an id of its own receives the answer to its request and no
\* other message, whatever ids the others share and whatever fails.
THEOREM AnswersMatch == Spec => []RightAnswer
<1>1. Spec => [](TypeOK /\ CallInv)
  BY TypeInit, TypeStep, PTL DEF Spec
<1>2. AnswerInv => RightAnswer
  BY DEF AnswerInv, RightAnswer
<1>. QED
  BY <1>1, <1>2, NothingYet, WireStep, WaiterStep, AnswerStep, PTL DEF Spec

-----------------------------------------------------------------------------
(***************************************************************************)
(* Buffers                                                                 *)
(***************************************************************************)
\* Every step keeps UserInv.
LEMMA UserStep == TypeOK /\ CallInv /\ WireInv /\ UserInv /\ [Next]_vars => UserInv'
<1>. SUFFICES ASSUME TypeOK, CallInv, WireInv, UserInv, [Next]_vars PROVE UserInv'
  OBVIOUS
<1>. SUFFICES ASSUME ~userCloses PROVE UserInv'
  BY GivenKept DEF given, UserInv
<1>a. BufferInv /\ \A m \in Msgs : use[m] \in {"none", "using", "done"}
  BY DEF UserInv
<1>b. \A b \in Bufs : b # None
  BY NoneAssumption
<1>. USE DEF UserInv, BufferInv, Holding, given, net, requests, buffers
<1>1. ASSUME NEW r \in Requesters, Register(r) PROVE UserInv'
  BY <1>1, <1>a, <1>b DEF Register, TypeOK
<1>2. ASSUME NEW r \in Requesters, Send(r) PROVE UserInv'
  BY <1>2, <1>a, <1>b DEF Send, TypeOK
<1>3. ASSUME NEW r \in Requesters, SendFails(r) PROVE UserInv'
  BY <1>3, <1>a, <1>b DEF SendFails, TypeOK
<1>4. ASSUME NEW r \in Requesters, Receive(r) PROVE UserInv'
  <2>1. PICK d \in Calls : d = Call(r)
    BY <1>4, OwnCall DEF Receive
  <2>2. use' = [use EXCEPT ![done[d]] = "using"]
    BY <1>4, <2>1 DEF Receive
  <2>. QED
    BY <1>4, <1>a, <2>2 DEF Receive, TypeOK
<1>5. ASSUME NEW i \in Ids, AddMessageHandler(i) PROVE UserInv'
  BY <1>5, <1>a, <1>b DEF AddMessageHandler, SetPushHandlers, TypeOK
<1>6. ASSUME NEW i \in Ids, RemoveMessageHandler(i) PROVE UserInv'
  BY <1>6, <1>a, <1>b DEF RemoveMessageHandler, SetPushHandlers, TypeOK
<1>7. CASE Disconnect
  BY <1>7, <1>a, <1>b DEF Disconnect, TypeOK
<1>8. ASSUME NEW c \in Calls, Answer(c) PROVE UserInv'
  BY <1>8, <1>a, <1>b DEF Answer, TypeOK
<1>9. ASSUME NEW p \in Pushes, Push(p) PROVE UserInv'
  BY <1>9, <1>a, <1>b DEF Push, TypeOK
<1>10. CASE Decode
  <2>1. PICK h \in Msgs : h = Head(wire) /\ owned[h] = None
    BY <1>10, TailElements DEF Decode, TypeOK, WireInv
  <2>2. PICK b \in Bufs : Gets(h, b)
    BY <1>10, <2>1 DEF Decode
  <2>3. pc = "read" /\ pc' = "rec" /\ msg' = h /\ use' = use
    BY <1>10, <2>1 DEF Decode
  <2>4. payload[h] = None
    BY <1>a, <2>1
  <2>5. /\ owned' = [owned EXCEPT ![h] = b] /\ payload' = [payload EXCEPT ![h] = b]
        /\ \A a \in Bufs \ {b} : pool'[a] = pool[a]
    BY <2>2 DEF Gets, TypeOK
  <2>6. \A m \in Msgs : payload[m] # b
    <3>1. CASE pool[b] > 0
      BY <1>a, <2>3, <3>1
    <3>2. CASE b \notin {owned[n] : n \in Msgs}
      BY <1>a, <1>b, <3>2
    <3>. QED
      BY <2>2, <3>1, <3>2 DEF Gets
  <2>7. pool'[b] = 0
    <3>1. pool[b] \in Nat /\ pool[b] <= 1
      BY <1>a DEF TypeOK
    <3>2. CASE pool[b] > 0 /\ pool' = [pool EXCEPT ![b] = pool[b] - 1]
      BY <3>1, <3>2 DEF TypeOK
    <3>3. CASE b \notin {owned[n] : n \in Msgs} /\ pool' = pool
      BY <1>a, <3>1, <3>3
    <3>. QED
      BY <2>2, <3>2, <3>3 DEF Gets
  <2>8. \A m \in Msgs : payload'[m] \in {None, owned'[m]}
    BY <1>a, <2>1, <2>5 DEF TypeOK
  <2>9. \A a \in Bufs : pool'[a] > 0 => \E m \in Msgs : owned'[m] = a
    <3>. SUFFICES ASSUME NEW a \in Bufs, pool'[a] > 0 PROVE \E m \in Msgs : owned'[m] = a
      OBVIOUS
    <3>1. a # b /\ pool[a] > 0
      BY <2>5, <2>7
    <3>2. PICK m \in Msgs : owned[m] = a
      BY <1>a, <3>1
    <3>3. owned'[m] = a
      BY <1>b, <2>1, <2>5, <3>2 DEF TypeOK
    <3>. QED
      BY <3>3
  <2>10. \A a \in Bufs : pool'[a] <= 1
    BY <1>a, <2>5, <2>7
  <2>11. \A a \in Bufs : Holding(a)' = IF a = b THEN {h} ELSE Holding(a)
    BY <1>b, <2>1, <2>3, <2>4, <2>5, <2>6 DEF TypeOK
  <2>12. \A a \in Bufs : \A m, n \in Holding(a)' : m = n
    BY <1>a, <2>11
  <2>13. \A a \in Bufs : pool'[a] > 0 => Holding(a)' = {}
    BY <1>a, <2>5, <2>7, <2>11
  <2>. QED
    BY <1>a, <2>3, <2>8, <2>9, <2>10, <2>12, <2>13
<1>11. CASE RecAnswer
  BY <1>11, <1>a, <1>b DEF RecAnswer, TypeOK
<1>12. CASE RecPush
  BY <1>12, <1>a, <1>b DEF RecPush, TypeOK
<1>13. CASE Deliver
  BY <1>13, <1>a, <1>b DEF Deliver, TypeOK
<1>14. CASE Delete
  BY <1>14, <1>a, <1>b DEF Delete, TypeOK
<1>15. CASE CloseTest
  BY <1>15, <1>a, <1>b DEF CloseTest, NextFrame, TypeOK
<1>16. CASE ClosePut
  <2>1. PICK m \in Msgs : m = msg
    BY <1>16 DEF ClosePut, TypeOK
  <2>2. PICK b \in Bufs : b = owned[m] /\ b = payload[m]
    BY <1>16, <1>a, <2>1 DEF ClosePut, TypeOK
  <2>3. pool' = [pool EXCEPT ![b] = pool[b] + 1]
    BY <1>16, <2>1, <2>2 DEF ClosePut, Put
  <2>4. pc = "put" /\ pc' = "clear" /\ UNCHANGED <<msg, payload, owned, use>>
    BY <1>16 DEF ClosePut, Put
  <2>5. m \in Holding(b)
    BY <2>1, <2>2, <2>4
  <2>6. pool[b] = 0
    <3>1. pool[b] \in Nat
      BY DEF TypeOK
    <3>. QED
      BY <1>a, <2>5, <3>1
  <2>7. \A a \in Bufs : Holding(a)' = IF a = b THEN {} ELSE Holding(a)
    BY <1>a, <2>1, <2>2, <2>4, <2>5
  <2>8. pool'[b] = 1 /\ \A a \in Bufs \ {b} : pool'[a] = pool[a]
    BY <2>3, <2>6 DEF TypeOK
  <2>9. \A a \in Bufs : pool'[a] > 0 => \E n \in Msgs : owned'[n] = a
    BY <1>a, <2>2, <2>4, <2>8
  <2>10. \A a \in Bufs : pool'[a] <= 1
    BY <1>a, <2>8
  <2>11. \A a \in Bufs : \A n, o \in Holding(a)' : n = o
    BY <1>a, <2>7
  <2>12. \A a \in Bufs : pool'[a] > 0 => Holding(a)' = {}
    BY <1>a, <2>7, <2>8
  <2>. QED
    BY <1>a, <2>1, <2>2, <2>4, <1>b, <2>9, <2>10, <2>11, <2>12
<1>17. CASE CloseClear
  <2>1. PICK m \in Msgs : m = msg
    BY <1>17 DEF CloseClear, TypeOK
  <2>2. payload' = [payload EXCEPT ![m] = None] /\ pc' = "read" /\ pc = "clear"
        /\ UNCHANGED <<owned, pool, use>>
    BY <1>17, <2>1 DEF CloseClear, Clear, NextFrame
  <2>3. \A b \in Bufs : Holding(b)' = Holding(b)
    BY <1>b, <2>1, <2>2 DEF TypeOK
  <2>. QED
    BY <1>a, <2>1, <2>2, <2>3 DEF TypeOK
<1>18. ASSUME NEW m \in Msgs, UserDone(m) PROVE UserInv'
  BY <1>18, <1>a, <1>b DEF UserDone, Step, TypeOK
<1>19. ASSUME NEW m \in Msgs, UserTest(m) PROVE UserInv'
  BY <1>19, <1>a, <1>b DEF UserTest, Step, TypeOK
<1>20. ASSUME NEW m \in Msgs, UserPut(m) PROVE UserInv'
  BY <1>20, <1>a, <1>b DEF UserPut, Step, Put, TypeOK
<1>21. ASSUME NEW m \in Msgs, UserClear(m) PROVE UserInv'
  BY <1>21, <1>a, <1>b DEF UserClear, Step, Clear, TypeOK
<1>22. CASE UNCHANGED vars
  BY <1>22, <1>a, <1>b DEF vars, TypeOK
<1>. QED
  BY <1>1, <1>2, <1>3, <1>4, <1>5, <1>6, <1>7, <1>8, <1>9, <1>10, <1>11, <1>12, <1>13,
     <1>14, <1>15, <1>16, <1>17, <1>18, <1>19, <1>20, <1>21, <1>22
  DEF Next, RequestMessage, Server, ReadLoop, User

\* A buffer is never in two messages, nor in one and in the pool, as long as
\* users leave the closing of messages to readLoop.
THEOREM BuffersNeverShared == Spec => []BufferOwnedOnce
<1>1. Init => UserInv
  <2>. SUFFICES ASSUME Init PROVE UserInv
    OBVIOUS
  <2>1. /\ pc = "read"
        /\ \A m \in Msgs : payload[m] = None /\ use[m] = "none"
        /\ \A b \in Bufs : pool[b] = 0
    BY DEF Init
  <2>2. \A b \in Bufs : Holding(b) = {}
    BY <2>1, NoneAssumption DEF Holding
  <2>. QED
    BY <2>1, <2>2 DEF UserInv, BufferInv
<1>2. TypeOK /\ UserInv => BufferOwnedOnce
  <2>. SUFFICES ASSUME TypeOK, BufferInv, NEW b \in Bufs
                PROVE  pool[b] + Cardinality(Holding(b)) <= 1
    BY DEF UserInv, BufferOwnedOnce
  <2>1. pool[b] \in Nat /\ pool[b] <= 1 /\ (pool[b] > 0 => Holding(b) = {})
        /\ \A m, n \in Holding(b) : m = n
    BY DEF BufferInv, TypeOK
  <2>2. CASE Holding(b) = {}
    BY <2>1, <2>2, FS_EmptySet
  <2>3. CASE Holding(b) # {}
    <3>1. PICK m : Holding(b) = {m}
      BY <2>1, <2>3
    <3>2. Cardinality(Holding(b)) = 1
      BY <3>1, FS_Singleton
    <3>. QED
      BY <2>1, <2>3, <3>2
  <2>. QED
    BY <2>2, <2>3
<1>3. Spec => [](TypeOK /\ CallInv)
  BY TypeInit, TypeStep, PTL DEF Spec
<1>. QED
  BY <1>1, <1>2, <1>3, NothingYet, WireStep, UserStep, PTL DEF Spec

=============================================================================
