---------------------------- MODULE TcpScanProofs ----------------------------
(***************************************************************************)
(* Theorems about TcpScan for every range of ports, every batch size and   *)
(* every limit on descriptors.                                             *)
(***************************************************************************)
EXTENDS TcpScan, FiniteSetTheorems, TLAPS

InLoop == {"for", "events", "handle"}

(* How full the arrays are, and what is left over where.                   *)
Shape ==
    /\ pc = "start" => /\ pending_sd = <<>> /\ printed = <<>>
                       /\ ecount = 0 /\ interest = {} /\ port = start_port
    /\ pc \in {"start", "for"} => Len(pending_sd) = ecount /\ ecount < Batch /\ ~final
    /\ pc = "done" => pending_sd = <<>>
    /\ pc \in {"events", "handle", "close"} /\ ~final => port <= end_port
    /\ Len(pending_sd) <= Batch /\ ecount <= Batch
    /\ pc # "handle" => evls = {}

Counted ==
    /\ pc \in InLoop => /\ ecount = Cardinality(interest)
                        /\ interest \subseteq PendingPorts
    /\ \A e \in evls : e[1] \in interest
    /\ \A e, f \in evls : e[1] = f[1] => e = f

(* The ports the loop has passed: every port before port, and port itself  *)
(* between its connection and the end of the flush that follows.           *)
Passed(p) == p < port \/ (p = port /\ pc \in {"events", "handle", "close"} /\ s # "nosock")

(* Sockets and output concern passed ports only, a port is printed once,   *)
(* and not while its socket is still registered.                           *)
Ordered ==
    /\ start_port <= port
    /\ pc # "done" => \A p \in PendingPorts : Passed(p)
    /\ pc # "done" => \A p \in PrintedPorts : Passed(p)
    /\ pc \in InLoop => interest \intersect PrintedPorts = {}
    /\ PrintedOnce

(* The range is covered when the loop ends.                                *)
Tried ==
    /\ pc # "done" => \A p \in start_port..end_port : Passed(p) => p \in tried
    /\ pc # "done" /\ final /\ ret = 0 => port > end_port
    /\ NoPortSkipped

IInv == TypeOK /\ Shape /\ Counted /\ Ordered /\ Tried

(* Ports that are owed a report are, once passed, registered or printed,   *)
(* and as long as they are registered nothing has gone wrong with their    *)
(* connection.                                                             *)
Owed ==
    /\ owed \subseteq listening
    /\ pc \in InLoop => \A p \in owed \intersect (start_port..end_port) :
                            Passed(p) => p \in interest \union PrintedPorts
    /\ pc = "close" => \A p \in owed \intersect (start_port..end_port) :
                            Passed(p) => p \in PrintedPorts
    /\ pc # "done" /\ final => \A p \in owed \intersect (start_port..end_port) : Passed(p)
    /\ \A p \in owed \intersect interest : conn[p] \in {"connecting", "connected"}
    /\ \A e \in evls : e[1] \in owed => e[2] = "EPOLLOUT" /\ conn[e[1]] = "connected"
    /\ ListenersFound

(* Enough descriptors: the batch, the epoll descriptor, the leaked sockets *)
(* and one for the second connection.                                      *)
FdsEnough == MaxFds >= Batch + MaxLeaks + 2

-----------------------------------------------------------------------------
(* Facts about sequences and finite sets.                                  *)

(* Appending adds exactly one element to what a sequence holds.            *)
LEMMA AppendRange ==
    ASSUME NEW S, NEW q \in Seq(S), NEW x \in S
    PROVE  /\ Append(q, x) \in Seq(S)
           /\ Len(Append(q, x)) = Len(q) + 1
           /\ {Append(q, x)[i] : i \in DOMAIN Append(q, x)} = {q[i] : i \in DOMAIN q} \union {x}
<1>1. /\ Append(q, x) \in Seq(S)
      /\ Len(Append(q, x)) = Len(q) + 1
      /\ DOMAIN Append(q, x) = 1..(Len(q) + 1)
      /\ DOMAIN q = 1..Len(q)
      /\ Len(q) \in Nat
  OBVIOUS
<1>2. \A i \in 1..Len(q) : Append(q, x)[i] = q[i]
  OBVIOUS
<1>3. Append(q, x)[Len(q) + 1] = x
  OBVIOUS
<1>4. \A i \in 1..(Len(q) + 1) : i \in 1..Len(q) \/ i = Len(q) + 1
  BY <1>1
<1> QED
  BY <1>1, <1>2, <1>3, <1>4

(* Appending an element that a sequence does not hold repeats nothing.     *)
LEMMA AppendFresh ==
    ASSUME NEW S, NEW q \in Seq(S), NEW x \in S, x \notin {q[i] : i \in DOMAIN q},
           \A i, j \in DOMAIN q : q[i] = q[j] => i = j
    PROVE  \A i, j \in DOMAIN Append(q, x) : Append(q, x)[i] = Append(q, x)[j] => i = j
  OBVIOUS

LEMMA PortsFinite == \A T \in SUBSET Ports : IsFiniteSet(T)
<1>1. IsFiniteSet(Ports)
  BY FS_Interval, ScanAssumption DEF Ports
<1> QED
  BY <1>1, FS_Subset

-----------------------------------------------------------------------------
(* The initial state satisfies the invariant.                              *)
LEMMA InitIInv == Init => IInv
<1> SUFFICES ASSUME Init PROVE IInv
  OBVIOUS
<1> USE DEF Init
<1>1. TypeOK
  <2>1. port \in 1..(MaxPort + 1) /\ leaked \in 0..MaxLeaks
    BY ScanAssumption DEF Ports
  <2>2. conn \in [Ports -> ConnState]
    BY DEF ConnState
  <2>3. pending_sd \in Seq(Ports) /\ printed \in Seq(Ports)
    OBVIOUS
  <2> QED
    BY <2>1, <2>2, <2>3, Zenon DEF TypeOK
<1>2. Shape
  BY ScanAssumption DEF Shape
<1>3. Counted
  BY DEF Counted, InLoop
<1>4. Ordered
  BY ScanAssumption DEF Ordered, InLoop, PendingPorts, PrintedPorts, PrintedOnce, Passed, Ports
<1>5. Tried
  BY ScanAssumption DEF Tried, NoPortSkipped, Passed, Ports
<1> QED
  BY <1>1, <1>2, <1>3, <1>4, <1>5 DEF IInv

(* While an event is left, the counter is positive.                        *)
LEMMA CountPositive ==
    ASSUME TypeOK, Counted, pc = "handle", NEW e \in evls
    PROVE  ecount - 1 \in Nat
<1>1. e[1] \in interest /\ IsFiniteSet(interest) /\ ecount = Cardinality(interest)
  BY PortsFinite DEF TypeOK, Counted, InLoop
<1>2. Cardinality(interest) # 0
  BY <1>1, FS_EmptySet
<1> QED
  BY <1>1, <1>2 DEF TypeOK

(* Handling an event keeps the types of the output and the leak counter.   *)
LEMMA ConfirmKeepsTypes ==
    ASSUME TypeOK, NEW p \in Ports, NEW ev \in Event,
           \E o \in Outcomes(p, ev) : Confirm(p, o)
    PROVE  printed' \in Seq(Ports) /\ leaked' \in 0..MaxLeaks
<1>1. PICK o \in Outcomes(p, ev) : Confirm(p, o)
  OBVIOUS
<1>2. printed' \in Seq(Ports)
  BY <1>1, AppendRange DEF Confirm, TypeOK
<1>3. o = "leaked" => leaked < MaxLeaks
  BY DEF Outcomes
<1>4. leaked' \in 0..MaxLeaks
  BY <1>1, <1>3, ScanAssumption DEF Confirm, TypeOK
<1> QED
  BY <1>2, <1>4

(* Every step keeps the types.                                             *)
LEMMA TypeStep == TypeOK /\ Shape /\ Counted /\ Next => TypeOK'
<1> SUFFICES ASSUME TypeOK, Shape, Counted, Next PROVE TypeOK'
  OBVIOUS
<1> USE ScanAssumption DEF TypeOK, Ports
<1>1. CASE BadRange
  BY <1>1 DEF BadRange, sockVars
<1>2. CASE EpollCreate
  BY <1>2 DEF EpollCreate
<1>3. CASE NoSocket
  BY <1>3 DEF NoSocket, LoopTail, sockVars
<1>4. CASE ConnectFails
  <2>1. port \in Ports /\ leaked' \in 0..MaxLeaks
    BY <1>4 DEF ConnectFails
  <2>2. /\ owed' = owed \ {port} /\ tried' = tried \union {port}
        /\ UNCHANGED <<start_port, end_port, ret, final, pending_sd, ecount, evls, epfd>>
        /\ UNCHANGED <<interest, printed, conn, listening>>
    BY <1>4 DEF ConnectFails
  <2>3. s' = "failed" /\ pc' \in {"events", "for"} /\ port' \in {port, port + 1}
    BY <1>4 DEF ConnectFails, LoopTail
  <2>4. port' \in 1..(MaxPort + 1)
    BY <2>1, <2>3
  <2> QED
    BY <2>1, <2>2, <2>3, <2>4
<1>5. CASE EpollAdd
  <2>1. conn' \in [Ports -> ConnState]
    BY <1>5 DEF EpollAdd, Connected, ConnState
  <2>2. pending_sd' \in Seq(Ports)
    BY <1>5, AppendRange DEF EpollAdd, Connected
  <2>3. /\ port \in Ports /\ tried' = tried \union {port} /\ interest' = interest \union {port}
        /\ ecount' = ecount + 1 /\ UNCHANGED <<start_port, end_port, evls, epfd, leaked>>
        /\ UNCHANGED <<printed, listening, ret, final, owed>>
    BY <1>5 DEF EpollAdd, Connected
  <2>4. s' = "ok" /\ pc' \in {"events", "for"} /\ port' \in {port, port + 1}
    BY <1>5 DEF EpollAdd, LoopTail
  <2>5. port' \in 1..(MaxPort + 1)
    BY <2>3, <2>4
  <2> QED
    BY <2>1, <2>2, <2>3, <2>4, <2>5
<1>6. CASE EpollAddFails
  <2>1. conn' \in [Ports -> ConnState]
    BY <1>6 DEF EpollAddFails, Connected, ConnState
  <2>2. pending_sd' \in Seq(Ports)
    BY <1>6, AppendRange DEF EpollAddFails, Connected
  <2>3. /\ owed' \in SUBSET Ports
        /\ tried' \in SUBSET Ports
    <3>1. port \in Ports /\ tried' = tried \union {port}
      BY <1>6 DEF EpollAddFails, Connected
    <3>2. owed' \subseteq owed
      BY <1>6 DEF EpollAddFails
    <3> QED
      BY <3>1, <3>2
  <2>4. /\ UNCHANGED <<start_port, end_port, port, ecount, evls, printed, epfd, interest>>
        /\ UNCHANGED <<leaked, listening>>
        /\ s' = "ok" /\ ret' = 1 /\ final' = TRUE /\ pc' = "events"
    BY <1>6 DEF EpollAddFails, Connected
  <2> QED
    BY <2>1, <2>2, <2>3, <2>4
<1>7. CASE LoopEnd
  BY <1>7 DEF LoopEnd, sockVars
<1>8. CASE CloseBatch
  <2>1. conn' \in [Ports -> ConnState]
    BY <1>8 DEF CloseBatch, ConnState
  <2>2. port' \in 1..(MaxPort + 1)
    BY <1>8 DEF CloseBatch, Shape
  <2>3. ecount' \in Nat /\ pending_sd' \in Seq(Ports)
    BY <1>8 DEF CloseBatch
  <2> QED
    BY <1>8, <2>1, <2>2, <2>3, Zenon DEF CloseBatch
<1>9. CASE AllHandled
  BY <1>9 DEF AllHandled, sockVars
<1>10. CASE EpollWait
  BY <1>10 DEF EpollWait, Ready, EventOf, Event
<1>11. CASE EpollGivesUp
  BY <1>11 DEF EpollGivesUp, sockVars
<1>12. CASE \E p \in Ports, ev \in Event : HandleEvent(p, ev)
  <2>1. PICK p \in Ports, ev \in Event : HandleEvent(p, ev)
    BY <1>12
  <2>2. printed' \in Seq(Ports) /\ leaked' \in 0..MaxLeaks
    BY <2>1, ConfirmKeepsTypes DEF HandleEvent
  <2>3. ecount' \in Nat
    BY <2>1, CountPositive DEF HandleEvent
  <2> QED
    BY <2>1, <2>2, <2>3 DEF HandleEvent
<1>13. CASE \E p \in Ports, ev \in Event : EpollDelFails(p, ev)
  <2>1. PICK p \in Ports, ev \in Event : EpollDelFails(p, ev)
    BY <1>13
  <2>2. printed' \in Seq(Ports) /\ leaked' \in 0..MaxLeaks
    BY <2>1, ConfirmKeepsTypes DEF EpollDelFails
  <2>3. ecount' \in Nat
    BY <2>1 DEF EpollDelFails
  <2> QED
    BY <2>1, <2>2, <2>3 DEF EpollDelFails
<1>14. CASE Environment
  <2>1. UNCHANGED <<scanVars, sockVars, printed, tried>>
    BY <1>14 DEF Environment, Listen, Unlisten, Answer, PeerReset
  <2>2. listening' \in SUBSET Ports /\ owed' \in SUBSET Ports
    BY <1>14, Zenon DEF Environment, Listen, Unlisten, Answer, PeerReset
  <2>3. conn' \in [Ports -> ConnState]
    BY <1>14, ZenonT(60) DEF Environment, Listen, Unlisten, Answer, PeerReset, ConnState
  <2> QED
    BY <2>1, <2>2, <2>3 DEF scanVars, sockVars
<1>15. CASE Exited
  BY <1>15 DEF Exited, vars, scanVars, sockVars
<1> QED
  BY <1>1, <1>2, <1>3, <1>4, <1>5, <1>6, <1>7, <1>8, <1>9, <1>10, <1>11, <1>12, <1>13, <1>14, <1>15, ZenonT(60)
     DEF Next, Scanner, AppletTcp, ProcessEvents

(* What the environment leaves alone.                                      *)
LEMMA EnvFrame ==
    ASSUME Environment
    PROVE  /\ pc' = pc /\ start_port' = start_port /\ end_port' = end_port /\ port' = port
           /\ s' = s /\ ret' = ret /\ final' = final /\ printed' = printed /\ tried' = tried
           /\ pending_sd' = pending_sd /\ ecount' = ecount /\ evls' = evls
           /\ epfd' = epfd /\ interest' = interest /\ leaked' = leaked
<1>1. UNCHANGED <<scanVars, sockVars, printed, tried>>
  BY DEF Environment, Listen, Unlisten, Answer, PeerReset
<1> QED
  BY <1>1 DEF scanVars, sockVars

(* What a new connection does to the batch.                                *)
LEMMA ConnectedFrame ==
    ASSUME TypeOK, Connected
    PROVE  /\ pc = "for" /\ port <= end_port /\ port \in Ports
           /\ Len(pending_sd') = Len(pending_sd) + 1
           /\ PendingPorts' = PendingPorts \union {port}
           /\ tried' = tried \union {port}
           /\ UNCHANGED <<start_port, end_port, evls, epfd, leaked, printed, listening>>
<1>1. port \in Ports
  BY ScanAssumption DEF TypeOK, Connected, Ports
<1>2. pending_sd' = Append(pending_sd, port)
  BY DEF Connected
<1>3. PendingPorts' = PendingPorts \union {port} /\ Len(pending_sd') = Len(pending_sd) + 1
  <2>1. pending_sd \in Seq(Ports)
    BY DEF TypeOK
  <2>2. /\ Len(Append(pending_sd, port)) = Len(pending_sd) + 1
        /\ {Append(pending_sd, port)[i] : i \in DOMAIN Append(pending_sd, port)}
             = {pending_sd[i] : i \in DOMAIN pending_sd} \union {port}
    BY <1>1, <2>1, AppendRange
  <2> QED
    BY <1>2, <2>2, Zenon DEF PendingPorts
<1> QED
  BY <1>1, <1>3 DEF Connected

(* Arrays never overflow.                                                   *)
LEMMA ShapeStep == TypeOK /\ Shape /\ Next => Shape'
<1> SUFFICES ASSUME TypeOK, Shape, Next PROVE Shape'
  OBVIOUS
<1>0. /\ ecount \in Nat /\ Len(pending_sd) \in Nat /\ Batch \in Nat \ {0}
      /\ port \in Nat /\ end_port \in Nat
  BY ScanAssumption DEF TypeOK, Ports
<1> USE <1>0 DEF Shape
<1>1. CASE BadRange \/ EpollCreate \/ NoSocket \/ LoopEnd
  BY <1>1 DEF BadRange, EpollCreate, NoSocket, LoopTail, LoopEnd, sockVars
<1>2. CASE ConnectFails
  BY <1>2 DEF ConnectFails, LoopTail
<1>3. CASE EpollAdd
  BY <1>3, ConnectedFrame DEF EpollAdd, LoopTail
<1>4. CASE EpollAddFails
  BY <1>4, ConnectedFrame DEF EpollAddFails
<1>5. CASE CloseBatch
  BY <1>5 DEF CloseBatch
<1>6. CASE AllHandled \/ EpollWait \/ EpollGivesUp
  BY <1>6 DEF AllHandled, EpollWait, EpollGivesUp, sockVars
<1>7. CASE \E p \in Ports, ev \in Event : HandleEvent(p, ev)
  BY <1>7 DEF HandleEvent
<1>8. CASE \E p \in Ports, ev \in Event : EpollDelFails(p, ev)
  BY <1>8 DEF EpollDelFails
<1>9. CASE Environment
  BY <1>9, EnvFrame
<1>10. CASE Exited
  BY <1>10 DEF Exited, vars, scanVars, sockVars
<1> QED
  BY <1>1, <1>2, <1>3, <1>4, <1>5, <1>6, <1>7, <1>8, <1>9, <1>10
     DEF Next, Scanner, AppletTcp, ProcessEvents

(* The counter follows the epoll set.                                      *)
LEMMA CountedStep == IInv /\ Next => Counted'
<1> SUFFICES ASSUME IInv, Next PROVE Counted'
  OBVIOUS
<1> USE ScanAssumption DEF IInv, TypeOK, Shape, Counted, InLoop
<1>1. CASE BadRange \/ NoSocket \/ LoopEnd \/ AllHandled \/ EpollGivesUp
  BY <1>1
     DEF BadRange, NoSocket, LoopTail, LoopEnd, AllHandled, EpollGivesUp, sockVars, PendingPorts
<1>2. CASE EpollCreate
  BY <1>2, FS_EmptySet, Zenon DEF EpollCreate, PendingPorts
<1>3. CASE ConnectFails
  BY <1>3 DEF ConnectFails, LoopTail, PendingPorts
<1>4. CASE EpollAdd
  <2>1. port \notin PendingPorts
    <3>1. pc = "for" /\ port \in Int
      BY <1>4 DEF EpollAdd, Connected
    <3>2. \A p \in PendingPorts : p < port
      BY <3>1 DEF Ordered, Passed
    <3> QED
      BY <3>1, <3>2
  <2>2. Cardinality(interest \union {port}) = ecount + 1
    <3>1. pc = "for" /\ IsFiniteSet(interest) /\ ecount = Cardinality(interest)
      BY <1>4, PortsFinite DEF EpollAdd, Connected
    <3>2. port \notin interest
      BY <2>1, <3>1
    <3> QED
      BY <3>1, <3>2, FS_AddElement, ZenonT(60)
  <2> QED
    BY <1>4, <2>2, ConnectedFrame, Zenon DEF EpollAdd, LoopTail
<1>5. CASE EpollAddFails
  BY <1>5, ConnectedFrame DEF EpollAddFails
<1>6. CASE CloseBatch
  BY <1>6, FS_EmptySet DEF CloseBatch, PendingPorts
<1>7. CASE EpollWait
  BY <1>7 DEF EpollWait, Ready, PendingPorts
<1>8. CASE \E p \in Ports, ev \in Event : HandleEvent(p, ev)
  <2>1. PICK p \in Ports, ev \in Event : HandleEvent(p, ev)
    BY <1>8
  <2>2. p \in interest
    BY <2>1 DEF HandleEvent
  <2>3. ecount' = Cardinality(interest')
    <3>1. IsFiniteSet(interest) /\ ecount = Cardinality(interest)
      BY <2>1, PortsFinite DEF HandleEvent
    <3>2. Cardinality(interest \ {p}) = ecount - 1
      BY <2>2, <3>1, FS_RemoveElement, ZenonT(60)
    <3> QED
      BY <2>1, <3>2 DEF HandleEvent
  <2>4. \A e \in evls' : e[1] \in interest'
    BY <2>1 DEF HandleEvent
  <2> QED
    BY <2>1, <2>3, <2>4 DEF HandleEvent, PendingPorts
<1>9. CASE \E p \in Ports, ev \in Event : EpollDelFails(p, ev)
  BY <1>9 DEF EpollDelFails, PendingPorts
<1>10. CASE Environment
  BY <1>10, EnvFrame DEF PendingPorts
<1>11. CASE Exited
  BY <1>11 DEF Exited, vars, scanVars, sockVars, PendingPorts
<1> QED
  BY <1>1, <1>2, <1>3, <1>4, <1>5, <1>6, <1>7, <1>8, <1>9, <1>10, <1>11
     DEF Next, Scanner, AppletTcp, ProcessEvents

(* Every port is printed at most once: handling an event adds at most its  *)
(* port to the output.                                                     *)
LEMMA ConfirmPrints ==
    ASSUME TypeOK, PrintedOnce, NEW p \in Ports, NEW ev \in Event, p \notin PrintedPorts,
           \E o \in Outcomes(p, ev) : Confirm(p, o)
    PROVE  PrintedOnce' /\ PrintedPorts' \subseteq PrintedPorts \union {p}
<1>1. printed' = printed \/ printed' = Append(printed, p)
  BY DEF Confirm
<1>2. CASE printed' = printed
  BY <1>2 DEF PrintedOnce, PrintedPorts
<1>3. CASE printed' = Append(printed, p)
  BY <1>3, AppendRange, AppendFresh DEF PrintedOnce, PrintedPorts, TypeOK
<1> QED
  BY <1>1, <1>2, <1>3

(* Every step keeps sockets and output behind the loop.                    *)
LEMMA OrderedStep == IInv /\ Next => Ordered'
<1> SUFFICES ASSUME IInv, Next PROVE Ordered'
  OBVIOUS
<1>a. port \in Int /\ start_port \in Int /\ end_port \in Int
  BY ScanAssumption DEF IInv, TypeOK, Ports
<1>b. PendingPorts \subseteq Int /\ PrintedPorts \subseteq Int
  BY ScanAssumption DEF IInv, TypeOK, PendingPorts, PrintedPorts, Ports
<1>c. printed' = printed => PrintedPorts' = PrintedPorts /\ (PrintedOnce => PrintedOnce')
  BY DEF PrintedPorts, PrintedOnce
<1>d. pending_sd' = pending_sd => PendingPorts' = PendingPorts
  BY DEF PendingPorts
<1>e. pending_sd' = <<>> => PendingPorts' = {}
  BY DEF PendingPorts
<1> USE <1>a, <1>b, <1>c, <1>d, <1>e DEF IInv, Ordered, Passed, InLoop
<1>1. CASE BadRange
  BY <1>1 DEF BadRange
<1>2. CASE EpollCreate
  BY <1>2, Zenon DEF EpollCreate, Shape
<1>3. CASE LoopEnd \/ AllHandled \/ EpollGivesUp
  BY <1>3, Zenon DEF LoopEnd, AllHandled, EpollGivesUp, sockVars
<1>4. CASE NoSocket
  BY <1>4, Zenon DEF NoSocket, LoopTail, sockVars
<1>5. CASE ConnectFails
  <2>1. pc = "for" /\ UNCHANGED <<start_port, pending_sd, interest, printed>>
    BY <1>5 DEF ConnectFails
  <2>2. \/ pc' = "events" /\ port' = port /\ s' # "nosock"
        \/ pc' = "for" /\ port' = port + 1
    BY <1>5 DEF ConnectFails, LoopTail
  <2>3. \A p \in PendingPorts \union PrintedPorts : p < port
    BY <2>1
  <2>4. CASE pc' = "events" /\ port' = port /\ s' # "nosock"
    BY <2>1, <2>3, <2>4, Zenon
  <2>5. CASE pc' = "for" /\ port' = port + 1
    <3>1. \A p \in PendingPorts \union PrintedPorts : p < port'
      BY <2>3, <2>5
    <3>2. start_port' <= port' /\ port < port'
      BY <2>1, <2>5
    <3> QED
      BY <2>1, <2>3, <2>5, <3>1, <3>2, ZenonT(60)
  <2> QED
    BY <2>2, <2>4, <2>5
<1>6. CASE EpollAdd
  <2>1. /\ pc = "for" /\ UNCHANGED <<start_port, printed>>
        /\ PendingPorts' = PendingPorts \union {port}
        /\ interest' = interest \union {port}
    BY <1>6, ConnectedFrame DEF EpollAdd
  <2>2. \/ pc' = "events" /\ port' = port /\ s' # "nosock"
        \/ pc' = "for" /\ port' = port + 1
    BY <1>6 DEF EpollAdd, LoopTail
  <2>3. /\ \A p \in PendingPorts \union PrintedPorts : p < port
        /\ port \notin PrintedPorts
    BY <2>1
  <2>4. CASE pc' = "events" /\ port' = port /\ s' # "nosock"
    BY <2>1, <2>3, <2>4, Zenon
  <2>5. CASE pc' = "for" /\ port' = port + 1
    <3>1. \A p \in PendingPorts \union PrintedPorts : p < port'
      BY <2>3, <2>5
    <3>2. start_port' <= port' /\ port < port'
      BY <2>1, <2>5
    <3> QED
      BY <2>1, <2>3, <2>5, <3>1, <3>2, ZenonT(60)
  <2> QED
    BY <2>2, <2>4, <2>5
<1>7. CASE EpollAddFails
  BY <1>7, ConnectedFrame, Zenon DEF EpollAddFails
<1>8. CASE CloseBatch
  <2>1. CASE final
    BY <1>8, <2>1 DEF CloseBatch
  <2>2. CASE ~final
    <3>1. /\ pc = "close" /\ UNCHANGED <<start_port, printed, s>>
          /\ pending_sd' = <<>> /\ interest' = {}
          /\ pc' = "for" /\ port' = IF s = "nosock" THEN port ELSE port + 1
      BY <1>8, <2>2 DEF CloseBatch
    <3>2. \A p \in PrintedPorts : p < port'
      BY <3>1
    <3>3. start_port' <= port'
      BY <3>1
    <3> QED
      BY <3>1, <3>2, <3>3, ZenonT(60)
  <2> QED
    BY <2>1, <2>2
<1>9. CASE EpollWait
  BY <1>9, Zenon DEF EpollWait
<1>10. CASE \E p \in Ports, ev \in Event : HandleEvent(p, ev)
  <2>1. PICK p \in Ports, ev \in Event : HandleEvent(p, ev)
    BY <1>10
  <2>2. p \in interest /\ p \in PendingPorts /\ p \notin PrintedPorts
    BY <2>1 DEF HandleEvent, Counted, InLoop
  <2>3. PrintedOnce' /\ PrintedPorts' \subseteq PrintedPorts \union {p}
    BY <2>1, <2>2, ConfirmPrints DEF HandleEvent
  <2>4. PrintedPorts' \intersect interest' = {}
    BY <2>1, <2>3, Zenon DEF HandleEvent
  <2> QED
    BY <2>1, <2>2, <2>3, <2>4, ZenonT(60) DEF HandleEvent
<1>11. CASE \E p \in Ports, ev \in Event : EpollDelFails(p, ev)
  <2>1. PICK p \in Ports, ev \in Event : EpollDelFails(p, ev)
    BY <1>11
  <2>2. p \in interest /\ p \in PendingPorts /\ p \notin PrintedPorts
    BY <2>1 DEF EpollDelFails, Counted, InLoop
  <2>3. PrintedOnce' /\ PrintedPorts' \subseteq PrintedPorts \union {p}
    BY <2>1, <2>2, ConfirmPrints DEF EpollDelFails
  <2> QED
    BY <2>1, <2>2, <2>3, ZenonT(60) DEF EpollDelFails
<1>12. CASE Environment
  BY <1>12, EnvFrame, ZenonT(60)
<1>13. CASE Exited
  BY <1>13, Zenon DEF Exited, vars, scanVars, sockVars
<1> QED
  BY <1>1, <1>2, <1>3, <1>4, <1>5, <1>6, <1>7, <1>8, <1>9, <1>10, <1>11, <1>12, <1>13
     DEF Next, Scanner, AppletTcp, ProcessEvents

(* Every step keeps the passed ports tried.                                *)
LEMMA TriedStep == IInv /\ Next => Tried'
<1> SUFFICES ASSUME IInv, Next PROVE Tried'
  OBVIOUS
<1>a. port \in Int /\ start_port \in Int /\ end_port \in Int
  BY ScanAssumption DEF IInv, TypeOK, Ports
<1> USE <1>a DEF IInv, Tried, Passed, NoPortSkipped
<1>1. CASE BadRange
  BY <1>1 DEF BadRange
<1>2. CASE EpollCreate \/ NoSocket
  BY <1>2 DEF EpollCreate, NoSocket, LoopTail, Shape
<1>3. CASE ConnectFails \/ EpollAdd
  <2>1. /\ pc = "for" /\ UNCHANGED <<start_port, end_port, final>>
        /\ tried' = tried \union {port}
    BY <1>3, ConnectedFrame DEF ConnectFails, EpollAdd
  <2>2. \/ pc' = "events" /\ port' = port /\ s' # "nosock"
        \/ pc' = "for" /\ port' = port + 1
    BY <1>3 DEF ConnectFails, EpollAdd, LoopTail
  <2>3. \A p \in start_port..end_port : p < port => p \in tried
    BY <2>1
  <2>4. \A p \in start_port..end_port : p <= port => p \in tried'
    BY <2>1, <2>3
  <2>5. ~final'
    BY <2>1 DEF Shape
  <2>6. CASE pc' = "events" /\ port' = port /\ s' # "nosock"
    BY <2>1, <2>4, <2>5, <2>6
  <2>7. CASE pc' = "for" /\ port' = port + 1
    BY <2>1, <2>4, <2>5, <2>7
  <2> QED
    BY <2>2, <2>6, <2>7
<1>4. CASE EpollAddFails
  BY <1>4, ConnectedFrame DEF EpollAddFails
<1>5. CASE LoopEnd
  BY <1>5 DEF LoopEnd
<1>6. CASE CloseBatch
  <2>1. /\ pc = "close" /\ UNCHANGED <<start_port, end_port, s, ret, final, tried>>
    BY <1>6 DEF CloseBatch
  <2>2. CASE final
    BY <1>6, <2>1, <2>2 DEF CloseBatch
  <2>3. CASE ~final
    <3>1. pc' = "for" /\ port' = IF s = "nosock" THEN port ELSE port + 1
      BY <1>6, <2>3 DEF CloseBatch
    <3>2. \A p \in start_port..end_port : p < port' => p \in tried
      BY <2>1, <3>1
    <3> QED
      BY <2>1, <2>3, <3>1, <3>2
  <2> QED
    BY <2>2, <2>3
<1>7. CASE AllHandled \/ EpollWait \/ EpollGivesUp
  BY <1>7 DEF AllHandled, EpollWait, EpollGivesUp
<1>8. CASE \E p \in Ports, ev \in Event : HandleEvent(p, ev) \/ EpollDelFails(p, ev)
  BY <1>8 DEF HandleEvent, EpollDelFails
<1>9. CASE Environment
  BY <1>9, EnvFrame
<1>10. CASE Exited
  BY <1>10 DEF Exited, vars, scanVars
<1> QED
  BY <1>1, <1>2, <1>3, <1>4, <1>5, <1>6, <1>7, <1>8, <1>9, <1>10
  DEF Next, Scanner, AppletTcp, ProcessEvents

(* The invariant does not depend on anything but the variables.            *)
LEMMA StutterIInv == IInv /\ UNCHANGED vars => IInv'
  BY DEF IInv, vars, scanVars, sockVars, TypeOK, Shape, Counted, Ordered, Tried, Passed,
         PendingPorts, PrintedPorts, PrintedOnce, NoPortSkipped

(* The invariant holds in every reachable state.                           *)
LEMMA AlwaysIInv == Spec => []IInv
<1>1. IInv /\ [Next]_vars => IInv'
  BY TypeStep, ShapeStep, CountedStep, OrderedStep, TriedStep, StutterIInv DEF IInv
<1> QED
  BY <1>1, InitIInv, PTL DEF Spec

-----------------------------------------------------------------------------
(* The variables of the scanner keep their types.                          *)
THEOREM TypeCorrect == Spec => []TypeOK
  BY AlwaysIInv, PTL DEF IInv

(* Neither pending_sd nor evls is overrun, for every batch size, every     *)
(* limit on descriptors and every failure of the environment.              *)
THEOREM ArraysFitHolds == Spec => []ArraysFit
<1>1. IInv => ArraysFit
  <2> SUFFICES ASSUME IInv PROVE Cardinality(evls) <= Batch
    BY DEF IInv, Shape, ArraysFit
  <2> USE DEF IInv
  <2>1. CASE pc # "handle"
    BY <2>1, FS_EmptySet, ScanAssumption DEF Shape
  <2>2. CASE pc = "handle"
    <3> DEFINE portOf == [e \in evls |-> e[1]]
    <3>1. portOf \in Injection(evls, interest)
      <4>1. portOf \in [evls -> interest]
        BY DEF Counted
      <4>2. \A e, f \in evls : portOf[e] = portOf[f] => e = f
        BY DEF Counted
      <4> QED
        BY <4>1, <4>2 DEF Injection, IsInjective
    <3>2. IsFiniteSet(interest) /\ ecount = Cardinality(interest)
      BY <2>2, PortsFinite DEF TypeOK, Counted, InLoop
    <3>3. Cardinality(evls) <= ecount /\ Cardinality(evls) \in Nat
      BY <3>1, <3>2, FS_Injection, FS_CardinalityType
    <3>4. ecount <= Batch
      BY <2>2 DEF Shape
    <3> QED
      BY <3>3, <3>4, ScanAssumption DEF TypeOK
  <2> QED
    BY <2>1, <2>2
<1> QED
  BY <1>1, AlwaysIInv, PTL

(* The counter of process_events is the size of the epoll set.             *)
THEOREM CountMatchesEpollSetHolds == Spec => []CountMatchesEpollSet
<1>1. IInv => CountMatchesEpollSet
  BY DEF IInv, Counted, InLoop, CountMatchesEpollSet
<1> QED
  BY <1>1, AlwaysIInv, PTL

(* No port is printed twice.                                               *)
THEOREM PrintedOnceHolds == Spec => []PrintedOnce
<1>1. IInv => PrintedOnce
  BY DEF IInv, Ordered
<1> QED
  BY <1>1, AlwaysIInv, PTL

(* No port of the range is passed over, however often socket() fails.      *)
THEOREM NoPortSkippedHolds == Spec => []NoPortSkipped
<1>1. IInv => NoPortSkipped
  BY DEF IInv, Tried
<1> QED
  BY <1>1, AlwaysIInv, PTL

(* A printed port has a listener at that moment: the first connection is   *)
(* still open, so the kernel cannot connect the second one to itself.      *)
THEOREM PrintedListensHolds == Spec => PrintedListens
<1> DEFINE Good == printed' # printed => printed'[Len(printed')] \in listening
<1>1. ASSUME IInv, Next PROVE Good
  <2>1. CASE \E p \in Ports, ev \in Event : HandleEvent(p, ev) \/ EpollDelFails(p, ev)
    <3>1. PICK p \in Ports, ev \in Event : \E o \in Outcomes(p, ev) : Confirm(p, o)
      BY <2>1 DEF HandleEvent, EpollDelFails
    <3>2. PICK o \in Outcomes(p, ev) : Confirm(p, o)
      BY <3>1
    <3>3. CASE o = "printed"
      <4>1. p \in listening
        BY <3>3 DEF Outcomes, ConfirmMaySucceed, Answered, SelfConnectPossible
      <4>2. printed' = Append(printed, p) /\ printed \in Seq(Ports)
        BY <1>1, <3>2, <3>3 DEF Confirm, IInv, TypeOK
      <4>3. printed'[Len(printed')] = p
        BY <4>2
      <4> QED
        BY <4>1, <4>3
    <3>4. CASE o # "printed"
      BY <3>2, <3>4 DEF Confirm
    <3> QED
      BY <3>3, <3>4
  <2>2. CASE Environment
    BY <2>2, EnvFrame
  <2>3. CASE EpollAdd \/ EpollAddFails
    BY <2>3 DEF EpollAdd, EpollAddFails, Connected
  <2>4. CASE AppletTcp /\ ~EpollAdd /\ ~EpollAddFails
    BY <2>4
       DEF AppletTcp, BadRange, EpollCreate, NoSocket, ConnectFails, LoopEnd, CloseBatch
  <2>5. CASE AllHandled \/ EpollWait \/ EpollGivesUp
    BY <2>5, Zenon DEF AllHandled, EpollWait, EpollGivesUp
  <2>6. CASE Exited
    BY <2>6 DEF Exited, vars
  <2> QED
    BY <1>1, <2>1, <2>2, <2>3, <2>4, <2>5, <2>6 DEF Next, Scanner, ProcessEvents
<1>2. IInv /\ [Next]_vars => [Good]_vars
  BY <1>1
<1> QED
  BY <1>2, AlwaysIInv, PTL DEF Spec, PrintedListens

-----------------------------------------------------------------------------
(* Completeness, when descriptors are not scarce.                          *)

(* A descriptor is left for the second connection, whatever the batch.     *)
LEMMA FdLeft == FdsEnough /\ TypeOK /\ Shape => FdFree
<1> SUFFICES ASSUME FdsEnough, TypeOK, Shape PROVE FdFree
  OBVIOUS
<1>1. /\ Len(pending_sd) \in Nat /\ leaked \in Nat /\ leaked <= MaxLeaks
      /\ Len(pending_sd) <= Batch
  BY ScanAssumption DEF TypeOK, Shape
<1>2. (IF epfd THEN 1 ELSE 0) \in {0, 1}
  OBVIOUS
<1> QED
  BY <1>1, <1>2, ScanAssumption DEF FdsEnough, FdFree, FdsInUse

(* The event of an owed port prints it or releases it.                     *)
LEMMA OwedConfirm ==
    ASSUME IInv, Owed, FdsEnough, NEW p \in Ports, NEW ev \in Event, HandleEvent(p, ev)
    PROVE  /\ owed' \subseteq owed
           /\ PrintedPorts \subseteq PrintedPorts'
           /\ p \in owed' => p \in PrintedPorts'
<1>1. PICK o \in Outcomes(p, ev) :
          /\ Confirm(p, o)
          /\ owed' = IF o \in {"lost", "leaked"} THEN owed \ {p} ELSE owed
  BY Zenon DEF HandleEvent
<1>2. /\ printed' = printed => PrintedPorts' = PrintedPorts
      /\ printed' = Append(printed, p) => PrintedPorts' = PrintedPorts \union {p}
  <2>1. printed \in Seq(Ports)
    BY DEF IInv, TypeOK
  <2> QED
    BY <2>1, AppendRange DEF PrintedPorts
<1>3. o = "printed" => printed' = Append(printed, p)
  BY <1>1 DEF Confirm
<1>4. o # "printed" => printed' = printed
  BY <1>1 DEF Confirm
<1>5. p \in owed => o # "silent"
  <2> SUFFICES ASSUME p \in owed, o = "silent" PROVE FALSE
    OBVIOUS
  <2>1. ev = "EPOLLOUT" /\ conn[p] = "connected"
    BY DEF HandleEvent, Owed
  <2>2. p \in listening /\ FdFree
    BY FdLeft DEF Owed, IInv
  <2> QED
    BY <2>1, <2>2 DEF Outcomes, ConfirmMayFail, Answered
<1>6. o \in {"printed", "silent", "lost", "leaked"}
  BY DEF Outcomes
<1> QED
  BY <1>1, <1>2, <1>3, <1>4, <1>5, <1>6

(* Every step keeps the debts.                                             *)
LEMMA OwedStep == FdsEnough /\ IInv /\ Owed /\ Next => Owed'
<1> SUFFICES ASSUME FdsEnough, IInv, Owed, Next PROVE Owed'
  OBVIOUS
<1>a. port \in Int /\ start_port \in Int /\ end_port \in Int
  BY ScanAssumption DEF IInv, TypeOK, Ports
<1>b. printed' = printed => PrintedPorts' = PrintedPorts
  BY DEF PrintedPorts
<1>c. owed \subseteq Int
  BY ScanAssumption DEF IInv, TypeOK, Ports
<1>d. pc \in {"start", "for"} => ~final /\ evls = {}
  BY DEF IInv, Shape
<1> USE <1>a, <1>b, <1>c, <1>d DEF Owed, Passed, InLoop, ListenersFound
<1>1. CASE BadRange
  BY <1>1 DEF BadRange, sockVars
<1>2. CASE EpollCreate
  BY <1>2 DEF EpollCreate, IInv, Shape
<1>3. CASE NoSocket
  BY <1>3 DEF NoSocket, LoopTail, sockVars
<1>4. CASE ConnectFails
  <2>1. /\ pc = "for" /\ owed' = owed \ {port}
        /\ UNCHANGED <<start_port, end_port, final, evls, interest, printed, conn, listening>>
    BY <1>4 DEF ConnectFails
  <2>2. \/ pc' = "events" /\ port' = port
        \/ pc' = "for" /\ port' = port + 1
    BY <1>4, Zenon DEF ConnectFails, LoopTail
  <2>3. \A p \in owed' \intersect (start_port..end_port) : Passed(p)' => p < port
    BY <2>1, <2>2
  <2> QED
    BY <2>1, <2>2, <2>3, Zenon
<1>5. CASE EpollAdd
  <2>1. /\ pc = "for" /\ interest' = interest \union {port} /\ port \in Ports
        /\ UNCHANGED <<start_port, end_port, final, evls, printed, listening, owed>>
    BY <1>5, ConnectedFrame DEF EpollAdd, IInv
  <2>2. \/ pc' = "events" /\ port' = port
        \/ pc' = "for" /\ port' = port + 1
    BY <1>5 DEF EpollAdd, LoopTail
  <2>3. \A p \in owed \intersect (start_port..end_port) : Passed(p)' => p <= port
    BY <2>1, <2>2
  <2>4. \A p \in owed \intersect (start_port..end_port) :
            Passed(p)' => p \in interest' \union PrintedPorts
    BY <2>1, <2>3
  <2>5. \A p \in owed \intersect interest' : conn'[p] \in {"connecting", "connected"}
    <3>1. PICK st \in {"connecting", "connected", "self"} :
              /\ st = "self" => port \notin listening
              /\ conn' = [conn EXCEPT ![port] = st]
      BY <1>5, Zenon DEF EpollAdd, Connected
    <3>2. port \in owed => st # "self"
      BY <3>1
    <3>3. conn \in [Ports -> ConnState]
      BY DEF IInv, TypeOK
    <3> QED
      BY <2>1, <3>1, <3>2, <3>3
  <2> QED
    BY <2>1, <2>2, <2>4, <2>5, Zenon
<1>6. CASE EpollAddFails
  <2>1. /\ pc = "for" /\ owed' = {p \in owed : p < port} /\ port \in Ports /\ pc' = "events"
        /\ UNCHANGED <<start_port, end_port, evls, printed, listening, interest, port>>
    BY <1>6, ConnectedFrame DEF EpollAddFails, IInv
  <2>2. \A p \in owed' : conn'[p] = conn[p]
    <3>1. PICK st : conn' = [conn EXCEPT ![port] = st]
      BY <1>6, ZenonT(60) DEF EpollAddFails, Connected
    <3>2. conn \in [Ports -> ConnState] /\ owed \subseteq Ports
      BY Zenon DEF IInv, TypeOK
    <3> QED
      BY <2>1, <3>1, <3>2
  <2> QED
    BY <2>1, <2>2, ZenonT(60)
<1>7. CASE LoopEnd
  BY <1>7 DEF LoopEnd, sockVars
<1>8. CASE CloseBatch
  <2>1. /\ pc = "close" /\ interest' = {}
        /\ UNCHANGED <<start_port, end_port, s, final, evls, printed, listening, owed>>
        /\ evls = {}
    BY <1>8 DEF CloseBatch, IInv, Shape
  <2>2. CASE final
    BY <1>8, <2>1, <2>2 DEF CloseBatch
  <2>3. CASE ~final
    <3>1. pc' = "for" /\ port' = IF s = "nosock" THEN port ELSE port + 1
      BY <1>8, <2>3 DEF CloseBatch
    <3>2. \A p \in owed \intersect (start_port..end_port) : p < port' => Passed(p)
      BY <2>1, <3>1
    <3> QED
      BY <2>1, <2>3, <3>1, <3>2, Zenon
  <2> QED
    BY <2>2, <2>3, Zenon
<1>9. CASE AllHandled
  <2>1. interest = {}
    <3>1. IsFiniteSet(interest) /\ Cardinality(interest) = 0
      BY <1>9, PortsFinite, Zenon DEF AllHandled, IInv, TypeOK, Counted
    <3> QED
      BY <3>1, FS_EmptySet
  <2> QED
    BY <1>9, <2>1 DEF AllHandled, sockVars
<1>10. CASE EpollWait
  <2>1. \A e \in evls' : e[1] \in owed => e[2] = "EPOLLOUT" /\ conn[e[1]] = "connected"
    <3> SUFFICES ASSUME NEW e \in evls', e[1] \in owed
                 PROVE  e[2] = "EPOLLOUT" /\ conn[e[1]] = "connected"
      OBVIOUS
    <3>1. PICK p \in Ready : e = <<p, EventOf(p)>>
      BY <1>10 DEF EpollWait
    <3>2. e[1] = p /\ e[2] = EventOf(p)
      BY <3>1
    <3>3. conn[p] = "connected"
      BY <3>2, Zenon DEF Ready
    <3> QED
      BY <3>2, <3>3 DEF EventOf
  <2> QED
    BY <1>10, <2>1 DEF EpollWait
<1>11. CASE EpollGivesUp
  BY <1>11, Zenon DEF EpollGivesUp, sockVars
<1>12. CASE \E p \in Ports, ev \in Event : HandleEvent(p, ev)
  <2>1. PICK p \in Ports, ev \in Event : HandleEvent(p, ev)
    BY <1>12, Zenon
  <2>2. /\ owed' \subseteq owed /\ PrintedPorts \subseteq PrintedPorts'
        /\ p \in owed' => p \in PrintedPorts'
    BY <2>1, OwedConfirm, Zenon
  <2>3. /\ pc = "handle" /\ pc' \in {"events", "handle"} /\ interest' = interest \ {p}
        /\ evls' \subseteq evls
        /\ UNCHANGED <<start_port, end_port, port, s, final, conn, listening>>
    BY <2>1 DEF HandleEvent
  <2> QED
    BY <2>2, <2>3, ZenonT(60)
<1>13. CASE \E p \in Ports, ev \in Event : EpollDelFails(p, ev)
  <2>1. PICK p \in Ports, ev \in Event : EpollDelFails(p, ev)
    BY <1>13
  <2>2. PrintedPorts \subseteq PrintedPorts'
    <3>1. printed' = printed \/ printed' = Append(printed, p)
      BY <2>1 DEF EpollDelFails, Confirm
    <3>2. printed \in Seq(Ports)
      BY Zenon DEF IInv, TypeOK
    <3> QED
      BY <3>1, <3>2, AppendRange DEF PrintedPorts
  <2> QED
    BY <2>1, <2>2, Zenon DEF EpollDelFails
<1>14. CASE Environment
  <2>1. conn \in [Ports -> ConnState]
    BY DEF IInv, TypeOK
  <2>2. owed' \subseteq owed /\ owed' \subseteq listening'
    BY <1>14, ZenonT(60) DEF Environment, Listen, Unlisten, Answer, PeerReset
  <2>3. \A p \in owed' : \/ conn'[p] = conn[p]
                         \/ conn[p] = "connecting" /\ conn'[p] = "connected"
    <3>1. PICK p \in Ports : Listen(p) \/ Unlisten(p) \/ Answer(p) \/ PeerReset(p)
      BY <1>14 DEF Environment
    <3>2. owed' \subseteq Ports
      BY <2>2 DEF IInv, TypeOK
    <3>3. CASE Listen(p)
      BY <3>3 DEF Listen
    <3>4. CASE Unlisten(p)
      BY <2>1, <3>2, <3>4 DEF Unlisten
    <3>5. CASE Answer(p)
      <4>1. PICK st : /\ (st = "connected") <=> (p \in listening)
                      /\ conn' = [conn EXCEPT ![p] = st]
        BY <3>5, ZenonT(60) DEF Answer
      <4>2. p \in owed' => st = "connected" /\ conn[p] = "connecting"
        BY <2>2, <3>5, <4>1 DEF Answer
      <4> QED
        BY <2>1, <3>2, <4>1, <4>2
    <3>6. CASE PeerReset(p)
      BY <2>1, <3>2, <3>6 DEF PeerReset
    <3> QED
      BY <3>1, <3>3, <3>4, <3>5, <3>6, Zenon
  <2>4. \A p \in owed' \intersect interest : conn'[p] \in {"connecting", "connected"}
    BY <2>2, <2>3
  <2>5. \A e \in evls : e[1] \in owed' => e[2] = "EPOLLOUT" /\ conn'[e[1]] = "connected"
    BY <2>2, <2>3, ZenonT(60)
  <2> QED
    BY <1>14, <2>2, <2>4, <2>5, EnvFrame
<1>15. CASE Exited
  BY <1>15 DEF Exited, vars, scanVars, sockVars
<1> QED
  BY <1>1, <1>2, <1>3, <1>4, <1>5, <1>6, <1>7, <1>8, <1>9, <1>10, <1>11, <1>12, <1>13,
     <1>14, <1>15, ZenonT(60) DEF Next, Scanner, AppletTcp, ProcessEvents

(* When one descriptor is left beyond the batch, the epoll descriptor and  *)
(* the leaked sockets, every port that listens throughout is printed,      *)
(* unless the environment failed a call about it.                          *)
THEOREM ListenersFoundHolds == FdsEnough => (Spec => []ListenersFound)
<1> SUFFICES ASSUME FdsEnough PROVE Spec => []ListenersFound
  OBVIOUS
<1>1. Init => Owed
  BY DEF Init, Owed, InLoop, ListenersFound
<1>2. Owed /\ UNCHANGED vars => Owed'
  BY DEF Owed, vars, scanVars, sockVars, InLoop, Passed, PrintedPorts, ListenersFound
<1>3. IInv /\ Owed /\ [Next]_vars => Owed'
  BY <1>2, OwedStep
<1>4. Owed => ListenersFound
  BY DEF Owed
<1> QED
  BY <1>1, <1>3, <1>4, AlwaysIInv, PTL DEF Spec

-----------------------------------------------------------------------------
(* TcpScan implements PortScan, for every range of ports, every batch size *)
(* and every number of descriptors that is enough for a batch: the script  *)
(* may rely on a call of the scanner as PortScan describes it.             *)

(* Sockets are opened for ports of the range only.                         *)
InRange == pc # "done" => PendingPorts \subseteq start_port..end_port

(* Every step keeps the sockets in the range.                              *)
LEMMA InRangeStep == IInv /\ InRange /\ Next => InRange'
<1> SUFFICES ASSUME IInv, InRange, Next PROVE InRange'
  OBVIOUS
<1>0. TypeOK /\ start_port \in Nat /\ end_port \in Nat /\ start_port <= port
  BY DEF IInv, TypeOK, Ordered, Ports
<1>1. CASE BadRange \/ EpollCreate \/ NoSocket \/ LoopEnd \/ ConnectFails
  BY <1>1, ZenonT(60)
     DEF InRange, PendingPorts, BadRange, EpollCreate, NoSocket, LoopEnd, ConnectFails, sockVars
<1>2. CASE EpollAdd \/ EpollAddFails
  <2>1. Connected
    BY <1>2 DEF EpollAdd, EpollAddFails
  <2>2. port \in start_port..end_port /\ pc = "for"
    BY <1>0, <2>1, ConnectedFrame DEF Ports
  <2> QED
    BY <1>0, <2>1, <2>2, ConnectedFrame DEF InRange
<1>3. CASE CloseBatch
  BY <1>3 DEF CloseBatch, InRange, PendingPorts
<1>4. CASE AllHandled \/ EpollWait \/ EpollGivesUp
  BY <1>4, ZenonT(60) DEF InRange, PendingPorts, AllHandled, EpollWait, EpollGivesUp, sockVars
<1>5. CASE \E p \in Ports, ev \in Event : HandleEvent(p, ev) \/ EpollDelFails(p, ev)
  BY <1>5, ZenonT(60) DEF InRange, PendingPorts, HandleEvent, EpollDelFails
<1>6. CASE Environment
  BY <1>6, EnvFrame DEF InRange, PendingPorts
<1>7. CASE Exited
  BY <1>7 DEF Exited, vars, scanVars, sockVars, InRange, PendingPorts
<1> QED
  BY <1>1, <1>2, <1>3, <1>4, <1>5, <1>6, <1>7
     DEF Next, Scanner, AppletTcp, ProcessEvents

(* Handling an event prints nothing, or it prints a listening port of the  *)
(* range that was not printed before.                                      *)
LEMMA EventPrints ==
    ASSUME IInv, InRange, NEW p \in Ports, NEW ev \in Event,
           HandleEvent(p, ev) \/ EpollDelFails(p, ev)
    PROVE  \/ PrintedPorts' = PrintedPorts
           \/ /\ PrintedPorts' = PrintedPorts \union {p}
              /\ p \in (start_port..end_port) \intersect listening
              /\ p \notin PrintedPorts
<1>1. PICK o \in Outcomes(p, ev) : Confirm(p, o)
  BY DEF HandleEvent, EpollDelFails
<1>2. pc = "handle" /\ <<p, ev>> \in evls
  BY DEF HandleEvent, EpollDelFails
<1>3. <<p, ev>>[1] \in interest
  BY <1>2 DEF IInv, Counted
<1>4. p \in interest /\ p \in PendingPorts /\ p \notin PrintedPorts
  BY <1>2, <1>3 DEF IInv, Counted, Ordered, InLoop
<1>5. p \in start_port..end_port
  BY <1>2, <1>4 DEF InRange
<1>6. CASE o = "printed"
  <2>1. p \in listening
    BY <1>6 DEF Outcomes, ConfirmMaySucceed, Answered, SelfConnectPossible
  <2>2. printed' = Append(printed, p) /\ printed \in Seq(Ports)
    BY <1>1, <1>6 DEF Confirm, IInv, TypeOK
  <2>3. PrintedPorts' = PrintedPorts \union {p}
    BY <2>2, AppendRange DEF PrintedPorts
  <2> QED
    BY <1>4, <1>5, <2>1, <2>3
<1>7. CASE o # "printed"
  BY <1>1, <1>7, ZenonT(60) DEF Confirm, PrintedPorts
<1> QED
  BY <1>6, <1>7

(* The scanner starts as a call of PortScan does.                          *)
LEMMA InitCall == Init => Call!Init
<1> SUFFICES ASSUME Init PROVE Call!Init
  OBVIOUS
<1>1. start_port..end_port \in SUBSET Ports
  BY ScanAssumption DEF Init, Ports
<1> QED
  BY <1>1 DEF Init, Call!Init, PrintedPorts

(* Every step of the scanner is a step of PortScan or leaves its state     *)
(* alone.                                                                  *)
LEMMA CallStep ==
    ASSUME IInv, Owed, InRange, Next
    PROVE  Call!Next \/ UNCHANGED Call!vars
<1> DEFINE SameRange == start_port' = start_port /\ end_port' = end_port
           Runs == pc # "done" /\ pc' # "done"
           Lost == owed' \subseteq owed
<1>0. owed \in SUBSET listening /\ listening \in SUBSET Ports
  BY DEF Owed, IInv, TypeOK
<1>1. CASE BadRange
  <2>1. start_port..end_port = {}
    BY <1>1 DEF BadRange, IInv, TypeOK, Ports
  <2> QED
    BY <1>1, <2>1 DEF BadRange, Call!Next, Call!End, PrintedPorts
<1>2. CASE EpollCreate \/ NoSocket \/ LoopEnd \/ AllHandled \/ EpollWait
  BY <1>2
     DEF EpollCreate, NoSocket, LoopEnd, LoopTail, AllHandled, EpollWait, Call!vars, PrintedPorts
<1>3. CASE ConnectFails \/ EpollAdd \/ EpollAddFails \/ EpollGivesUp
  <2>1. SameRange /\ Runs /\ Lost /\ UNCHANGED <<listening, printed>>
    BY <1>3 DEF ConnectFails, EpollAdd, EpollAddFails, Connected, LoopTail, EpollGivesUp
  <2> QED
    BY <2>1, Zenon DEF Call!Next, Call!Lose, PrintedPorts
<1>4. CASE CloseBatch
  <2>1. SameRange /\ UNCHANGED <<listening, printed, owed>> /\ pc = "close"
    BY <1>4 DEF CloseBatch
  <2>2. CASE final
    <3>1. owed \intersect (start_port..end_port) \subseteq PrintedPorts
      BY <2>1, <2>2 DEF Owed
    <3>2. pc' = "done"
      BY <1>4, <2>2 DEF CloseBatch
    <3> QED
      BY <2>1, <3>1, <3>2, ZenonT(60) DEF Call!Next, Call!End, PrintedPorts
  <2>3. CASE ~final
    BY <1>4, <2>1, <2>3 DEF CloseBatch, Call!vars, PrintedPorts
  <2> QED
    BY <2>2, <2>3
<1>5. CASE \E p \in Ports, ev \in Event : HandleEvent(p, ev) \/ EpollDelFails(p, ev)
  <2>1. PICK p \in Ports, ev \in Event : HandleEvent(p, ev) \/ EpollDelFails(p, ev)
    BY <1>5
  <2>2. SameRange /\ Runs /\ Lost /\ UNCHANGED listening
    BY <2>1 DEF HandleEvent, EpollDelFails
  <2>3. CASE PrintedPorts' = PrintedPorts
    BY <2>2, <2>3 DEF Call!Next, Call!Lose
  <2>4. CASE /\ PrintedPorts' = PrintedPorts \union {p}
             /\ p \in (start_port..end_port) \intersect listening
             /\ p \notin PrintedPorts
    BY <2>1, <2>2, <2>4 DEF Call!Next, Call!Find
  <2> QED
    BY <2>1, <2>3, <2>4, EventPrints
<1>6. CASE Environment
  <2>1. SameRange /\ pc' = pc /\ printed' = printed
    BY <1>6, EnvFrame
  <2>2. CASE \E p \in Ports : Listen(p) \/ Unlisten(p)
    <3>1. listening' \in SUBSET Ports /\ owed' = owed \intersect listening'
      BY <1>0, <2>2 DEF Listen, Unlisten
    <3> QED
      BY <2>1, <3>1 DEF Call!Next, Call!World, PrintedPorts
  <2>3. CASE \E p \in Ports : Answer(p) \/ PeerReset(p)
    <3>1. Lost /\ UNCHANGED listening
      BY <2>3 DEF Answer, PeerReset
    <3> QED
      BY <2>1, <3>1 DEF Call!Next, Call!Lose, PrintedPorts
  <2> QED
    BY <1>6, <2>2, <2>3 DEF Environment
<1>7. CASE Exited
  BY <1>7 DEF Exited, vars, scanVars, Call!vars, PrintedPorts
<1> QED
  BY <1>1, <1>2, <1>3, <1>4, <1>5, <1>6, <1>7
     DEF Next, Scanner, AppletTcp, ProcessEvents

(* With enough descriptors the scanner implements PortScan: what it prints *)
(* listens, is in the range, and includes every port that listens during   *)
(* the whole scan and about which no call fails.                           *)
THEOREM ScansPortsHolds == FdsEnough => (Spec => ScansPorts)
<1> SUFFICES ASSUME FdsEnough PROVE Spec => ScansPorts
  OBVIOUS
<1> DEFINE Inv == IInv /\ Owed /\ InRange
<1>1. Init => Owed /\ InRange
  BY DEF Init, Owed, InLoop, ListenersFound, InRange, PendingPorts
<1>2. Owed /\ InRange /\ UNCHANGED vars => Owed' /\ InRange'
  BY DEF Owed, vars, scanVars, sockVars, InLoop, Passed, PrintedPorts, PendingPorts,
         ListenersFound, InRange
<1>3. Inv /\ [Next]_vars => Owed' /\ InRange'
  BY <1>2, OwedStep, InRangeStep
<1>4. UNCHANGED vars => UNCHANGED Call!vars
  BY DEF vars, scanVars, Call!vars, PrintedPorts
<1>5. Inv /\ [Next]_vars => [Call!Next]_(Call!vars)
  BY <1>4, CallStep
<1> QED
  BY <1>1, <1>3, <1>5, InitCall, AlwaysIInv, PTL DEF Spec, ScansPorts, Call!Spec

-----------------------------------------------------------------------------
(* Termination: every step of the scanner leads on.                        *)

LEMMA NoSocketNearer ==
    ASSUME IInv, MaxFds > MaxLeaks + 1, NoSocket
    PROVE  Nearer
<1>1. pending_sd # <<>>
  <2> SUFFICES ASSUME pending_sd = <<>> PROVE FALSE
    OBVIOUS
  <2>1. Len(pending_sd) = 0 /\ leaked \in Nat /\ leaked <= MaxLeaks
    BY ScanAssumption DEF IInv, TypeOK
  <2>2. FdFree
    BY <2>1, ScanAssumption DEF FdFree, FdsInUse
  <2> QED
    BY <2>2 DEF NoSocket
<1>2. pc = "for" /\ pc' = "events" /\ s' = "nosock" /\ port' = port /\ final' = final
  BY DEF NoSocket, LoopTail
<1>3. Phase = 5 /\ Phase' = 4
  BY <1>1, <1>2 DEF Phase
<1> QED
  BY <1>2, <1>3 DEF Nearer

(* The end of the loop body after a socket was made, or failed to connect. *)
LEMMA LoopTailNearer ==
    ASSUME IInv, pc = "for", final' = final, NEW sv \in {"ok", "failed"}, NEW count,
           LoopTail(sv, count)
    PROVE  Nearer
<1>1. CASE pc' = "events" /\ port' = port
  <2>1. Phase' = 1 /\ Phase \in {2, 5}
    BY <1>1 DEF LoopTail, Phase
  <2> QED
    BY <1>1, <2>1 DEF Nearer
<1>2. CASE port' = port + 1
  BY <1>2 DEF Nearer, IInv, TypeOK
<1> QED
  BY <1>1, <1>2 DEF LoopTail

(* While process_events runs the phase is kept, or it is left for the      *)
(* closing of the batch.                                                   *)
LEMMA EventsNearer ==
    ASSUME IInv, pc \in {"events", "handle"}, UNCHANGED <<final, port, s>>,
           \/ pc' = "close"
           \/ pc' \in {"events", "handle"} /\ ecount' = ecount - 1
           \/ pc = "events" /\ pc' = "handle" /\ ecount' = ecount
    PROVE  Nearer
<1>1. Phase = (IF s = "nosock" THEN 3 ELSE 0) + 1
  BY DEF Phase
<1>2. CASE pc' = "close"
  <2>1. Phase' = (IF s = "nosock" THEN 3 ELSE 0) + 0
    BY <1>2 DEF Phase
  <2> QED
    BY <1>1, <2>1 DEF Nearer
<1>3. CASE pc' \in {"events", "handle"}
  <2>1. Phase' = Phase
    BY <1>1, <1>3 DEF Phase
  <2> QED
    BY <1>3, <2>1 DEF Nearer, IInv, TypeOK
<1> QED
  BY <1>2, <1>3

(* Each step of applet_tcp and process_events comes nearer to the end of   *)
(* the scan, for every range, batch size and limit on descriptors that     *)
(* leaves one besides those that are lost.                                 *)
THEOREM ScanAdvancesHolds == Spec => ScanAdvances
<1>1. ASSUME IInv, MaxFds > MaxLeaks + 1, Scanner PROVE Nearer
  <2>1. CASE BadRange \/ EpollCreate
    BY <2>1 DEF BadRange, EpollCreate, Nearer
  <2>2. CASE NoSocket
    BY <1>1, <2>2, NoSocketNearer
  <2>3. CASE ConnectFails
    BY <1>1, <2>3, LoopTailNearer DEF ConnectFails
  <2>4. CASE EpollAdd
    BY <1>1, <2>4, LoopTailNearer DEF EpollAdd, Connected
  <2>5. CASE EpollAddFails \/ LoopEnd
    BY <1>1, <2>5 DEF EpollAddFails, Connected, LoopEnd, Nearer, IInv, Shape
  <2>6. CASE CloseBatch
    <3>1. CASE final
      BY <2>6, <3>1 DEF CloseBatch, Nearer
    <3>2. CASE ~final /\ s # "nosock"
      BY <1>1, <2>6, <3>2 DEF CloseBatch, Nearer, IInv, TypeOK
    <3>3. CASE ~final /\ s = "nosock"
      <4>1. /\ pc = "close" /\ pc' = "for" /\ pending_sd' = <<>>
            /\ port' = port /\ final' = final
        BY <2>6, <3>3 DEF CloseBatch
      <4>2. Phase = 3 /\ Phase' = 2
        BY <3>3, <4>1 DEF Phase
      <4> QED
        BY <4>1, <4>2 DEF Nearer
    <3> QED
      BY <3>1, <3>2, <3>3
  <2>7. CASE AllHandled \/ EpollGivesUp
    BY <1>1, <2>7, EventsNearer DEF AllHandled, EpollGivesUp
  <2>8. CASE EpollWait
    BY <1>1, <2>8, EventsNearer DEF EpollWait
  <2>9. CASE \E p \in Ports, ev \in Event : HandleEvent(p, ev) \/ EpollDelFails(p, ev)
    <3>1. PICK p \in Ports, ev \in Event : HandleEvent(p, ev) \/ EpollDelFails(p, ev)
      BY <2>9
    <3>2. /\ pc = "handle" /\ UNCHANGED <<final, port, s>>
          /\ pc' = "close" \/ (pc' \in {"events", "handle"} /\ ecount' = ecount - 1)
      BY <3>1 DEF HandleEvent, EpollDelFails
    <3> QED
      BY <1>1, <3>2, EventsNearer
  <2> QED
    BY <1>1, <2>1, <2>2, <2>3, <2>4, <2>5, <2>6, <2>7, <2>8, <2>9
       DEF Scanner, AppletTcp, ProcessEvents
<1> DEFINE On == MaxFds > MaxLeaks + 1 /\ Scanner => Nearer
<1>2. IInv /\ [Next]_vars => [On]_vars
  BY <1>1
<1> QED
  BY <1>2, AlwaysIInv, PTL DEF Spec, ScanAdvances

=============================================================================
