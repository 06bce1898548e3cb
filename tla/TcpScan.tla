------------------------------- MODULE TcpScan -------------------------------
(***************************************************************************)
(* The TCP port scanner of the atrk binary: `atrk tcp -w5 ip first last`,  *)
(* src/src/atrk.c, applet_tcp / process_events / connect2 / wait_conn.     *)
(*                                                                         *)
(* applet_tcp opens one non-blocking socket per port, registers it with    *)
(* epoll and goes on to the next port.  When a batch is full, or when no   *)
(* socket can be created, process_events waits for the answers of the      *)
(* batch and connects a second time to every port that answered; a port    *)
(* whose second connection succeeds is printed.  Then the whole batch is   *)
(* closed.                                                                 *)
(*                                                                         *)
(* The kernel (the listeners, the state of the connections, the limit on   *)
(* descriptors) is the environment.  Within a batch a socket is named by   *)
(* the port it connects to.                                                *)
(***************************************************************************)
EXTENDS Integers, Sequences, FiniteSets

CONSTANTS
    MaxPort,     \* ports are 1..MaxPort (65535 in the code's use)
    Batch,       \* 256: size of pending_sd and of evls, and the flush threshold
    MaxFds,      \* descriptors left to the process beyond stdio
    MaxLeaks,    \* bound on the sockets that connect2 loses when fcntl fails
    Ephemeral    \* ports the kernel may pick as the source port of a connect

ASSUME ScanAssumption ==
    /\ MaxPort \in Nat \ {0}
    /\ Batch \in Nat \ {0}
    /\ MaxFds \in Nat \ {0}
    /\ MaxLeaks \in Nat
    /\ Ephemeral \subseteq 1..MaxPort

Ports == 1..MaxPort

VARIABLES
    pc,          \* where applet_tcp is
    start_port, end_port, port,
    s,           \* what the last connect1 returned: "ok", "failed" (-1), "nosock" (-2)
    ret,         \* exit status
    final,       \* the for loop is over: the last flush is running
    pending_sd,  \* open sockets of the batch; nPending is its length
    ecount,      \* ecount of applet_tcp, and total while process_events runs
    evls,        \* events returned by epoll_wait and not handled yet
    printed,     \* standard output
    epfd,        \* the epoll descriptor is open
    interest,    \* sockets registered with it
    conn,        \* kernel state of the batch's socket to each port
    leaked,      \* sockets that were created and never closed
    listening,   \* ports with a listener
    owed,        \* history: ports with a listener since the start, and no call
                 \* about them that the environment failed or answered too late
    tried        \* history: ports a socket was created for

scanVars == <<pc, start_port, end_port, port, s, ret, final>>
sockVars == <<pending_sd, ecount, evls, epfd, interest, leaked>>

vars == <<scanVars, sockVars, printed, conn, listening, owed, tried>>

ConnState == {"none", "connecting", "connected", "self", "error"}
Event     == {"EPOLLOUT", "other"}

TypeOK ==
    /\ pc \in {"start", "for", "events", "handle", "close", "done"}
    /\ start_port \in Ports /\ end_port \in Ports
    /\ port \in 1..(MaxPort + 1)
    /\ s \in {"ok", "failed", "nosock"}
    /\ ret \in {0, 1}
    /\ final \in BOOLEAN
    /\ pending_sd \in Seq(Ports)
    /\ ecount \in Nat
    /\ evls \in SUBSET (Ports \X Event)
    /\ printed \in Seq(Ports)
    /\ epfd \in BOOLEAN
    /\ interest \in SUBSET Ports
    /\ conn \in [Ports -> ConnState]
    /\ leaked \in 0..MaxLeaks
    /\ listening \in SUBSET Ports
    /\ owed \in SUBSET Ports
    /\ tried \in SUBSET Ports

Init ==
    /\ pc = "start"
    /\ start_port \in Ports /\ end_port \in Ports
    /\ port = start_port
    /\ s = "ok"
    /\ ret = 0
    /\ final = FALSE
    /\ pending_sd = <<>>
    /\ ecount = 0
    /\ evls = {}
    /\ printed = <<>>
    /\ epfd = FALSE
    /\ interest = {}
    /\ conn = [p \in Ports |-> "none"]
    /\ leaked = 0
    /\ listening \in SUBSET Ports
    /\ owed = listening
    /\ tried = {}

-----------------------------------------------------------------------------
(* Descriptors.  socket() fails exactly when the table is full.            *)
FdsInUse == Len(pending_sd) + leaked + (IF epfd THEN 1 ELSE 0)

FdFree == FdsInUse < MaxFds

(* The scanner's own socket to p occupies local port p: a self-connected   *)
(* socket does, and so does the connection a listener accepted.  Only when *)
(* nothing does can the kernel pick p as the source of a connection to p.  *)
SelfConnectPossible(p) == p \in Ephemeral /\ conn[p] \notin {"connected", "self"}

-----------------------------------------------------------------------------
(* applet_tcp                                                              *)

BadRange ==
    /\ pc = "start"
    /\ start_port > end_port
    /\ ret' = 1
    /\ pc' = "done"
    /\ UNCHANGED <<start_port, end_port, port, s, final, sockVars, printed, conn,
                   listening, owed, tried>>

(* The result of epoll_create is not tested.                               *)
EpollCreate ==
    /\ pc = "start"
    /\ start_port <= end_port
    /\ pc' = "for"
    /\ epfd' \in BOOLEAN
    /\ UNCHANGED <<start_port, end_port, port, s, ret, final, pending_sd, ecount,
                   evls, interest, leaked, printed, conn, listening, owed, tried>>

(* Mutants of LoopTail: the flush comes one socket late; the port is       *)
(* advanced at a flush too; every failure of connect1 is tried again, not  *)
(* only that of socket().                                                  *)
LoopTailLate(sv, count) ==
    /\ s' = sv
    /\ IF sv = "nosock" \/ count > Batch
       THEN pc' = "events" /\ UNCHANGED port
       ELSE pc' = "for" /\ port' = port + 1

LoopTailAdvances(sv, count) ==
    /\ s' = sv /\ port' = port + 1
    /\ pc' = IF sv = "nosock" \/ count >= Batch THEN "events" ELSE "for"

LoopTailRetries(sv, count) ==
    /\ s' = IF sv = "failed" THEN "nosock" ELSE sv
    /\ IF sv # "ok" \/ count >= Batch
       THEN pc' = "events" /\ UNCHANGED port
       ELSE pc' = "for" /\ port' = port + 1

(* The end of the loop body: flush when no socket could be made or the     *)
(* batch is full; the port is advanced after the flush, unless it has to   *)
(* be tried again.                                                         *)
LoopTail(sv, count) ==
    /\ s' = sv
    /\ IF sv = "nosock" \/ count >= Batch
       THEN pc' = "events" /\ UNCHANGED port
       ELSE pc' = "for" /\ port' = port + 1

(* connect1 returns -2: socket() failed.                                   *)
NoSocket ==
    /\ pc = "for" /\ port <= end_port
    /\ ~FdFree
    /\ LoopTail("nosock", ecount)
    /\ UNCHANGED <<start_port, end_port, ret, final, sockVars, printed, conn,
                   listening, owed, tried>>

(* connect1 returns -1.  Either connect() failed and the socket is closed  *)
(* (ECONNREFUSED when nothing listens; for a port that listens it is the   *)
(* environment's failure), or fcntl(F_SETFL) failed and it is not closed.  *)
ConnectFails ==
    /\ pc = "for" /\ port <= end_port
    /\ FdFree
    /\ \/ UNCHANGED leaked
       \/ leaked < MaxLeaks /\ leaked' = leaked + 1
    /\ owed' = owed \ {port}
    /\ tried' = tried \union {port}
    /\ LoopTail("failed", ecount)
    /\ UNCHANGED <<start_port, end_port, ret, final, pending_sd, ecount, evls, epfd,
                   interest, printed, conn, listening>>

(* connect1 returns a socket: connect() succeeded at once, or answered     *)
(* EINPROGRESS (timeout -2: do not wait).                                  *)
Connected ==
    /\ pc = "for" /\ port <= end_port
    /\ FdFree
    /\ \E st \in {"connecting", "connected", "self"} :
          /\ st = "connected" => port \in listening
          /\ st = "self" => port \notin listening /\ SelfConnectPossible(port)
          /\ conn' = [conn EXCEPT ![port] = st]
    /\ pending_sd' = Append(pending_sd, port)
    /\ tried' = tried \union {port}
    /\ UNCHANGED <<start_port, end_port, evls, epfd, leaked, printed, listening>>

(* Mutant of EpollAdd: the socket is not counted.                          *)
EpollAddUncounted ==
    /\ Connected
    /\ epfd
    /\ interest' = interest \union {port}
    /\ LoopTail("ok", ecount)
    /\ UNCHANGED <<ecount, ret, final, owed>>

EpollAdd ==
    /\ Connected
    /\ epfd
    /\ interest' = interest \union {port}
    /\ ecount' = ecount + 1
    /\ LoopTail("ok", ecount + 1)
    /\ UNCHANGED <<ret, final, owed>>

(* epoll_ctl(ADD) fails: leave the loop with status 1.                     *)
EpollAddFails ==
    /\ Connected
    /\ s' = "ok"
    /\ ret' = 1
    /\ final' = TRUE
    /\ pc' = "events"
    /\ owed' = {p \in owed : p < port}
    /\ UNCHANGED <<port, ecount, interest>>

(* Mutant of LoopEnd: the last batch is closed without waiting for it.     *)
LoopEndNoFlush ==
    /\ pc = "for" /\ port > end_port
    /\ final' = TRUE
    /\ pc' = "close"
    /\ UNCHANGED <<start_port, end_port, port, s, ret, sockVars, printed, conn,
                   listening, owed, tried>>

LoopEnd ==
    /\ pc = "for" /\ port > end_port
    /\ final' = TRUE
    /\ pc' = "events"
    /\ UNCHANGED <<start_port, end_port, port, s, ret, sockVars, printed, conn,
                   listening, owed, tried>>

(* Mutant of CloseBatch: the port is tried again after every flush.        *)
CloseBatchRetries ==
    /\ pc = "close"
    /\ pending_sd' = <<>>
    /\ interest' = {}
    /\ conn' = [p \in Ports |-> "none"]
    /\ pc' = IF final THEN "done" ELSE "for"
    /\ epfd' = (epfd /\ ~final)
    /\ ecount' = IF final THEN ecount ELSE 0
    /\ UNCHANGED <<start_port, end_port, port, s, ret, final, evls, leaked, printed,
                   listening, owed, tried>>

(* Close the batch after process_events (which removes it from the epoll   *)
(* set), then go on with the loop or exit.                                 *)
CloseBatch ==
    /\ pc = "close"
    /\ pending_sd' = <<>>
    /\ interest' = {}
    /\ conn' = [p \in Ports |-> "none"]
    /\ IF final
       THEN /\ pc' = "done"
            /\ epfd' = FALSE
            /\ UNCHANGED <<ecount, port>>
       ELSE /\ pc' = "for"
            /\ ecount' = 0
            /\ port' = IF s = "nosock" THEN port ELSE port + 1
            /\ UNCHANGED epfd
    /\ UNCHANGED <<start_port, end_port, s, ret, final, evls, leaked, printed,
                   listening, owed, tried>>

-----------------------------------------------------------------------------
(* process_events                                                          *)

Ready == {p \in interest : conn[p] # "connecting"}

EventOf(p) == IF conn[p] \in {"connected", "self"} THEN "EPOLLOUT" ELSE "other"

(* while (total > 0) ends.                                                 *)
AllHandled ==
    /\ pc = "events" /\ ecount = 0
    /\ pc' = "close"
    /\ UNCHANGED <<start_port, end_port, port, s, ret, final, sockVars, printed, conn,
                   listening, owed, tried>>

(* epoll_wait returns everything that is ready: the batch is no larger     *)
(* than the array it is given.                                             *)
EpollWait ==
    /\ pc = "events" /\ ecount > 0
    /\ Ready # {}
    /\ evls' = {<<p, EventOf(p)>> : p \in Ready}
    /\ pc' = "handle"
    /\ UNCHANGED <<start_port, end_port, port, s, ret, final, pending_sd, ecount, epfd,
                   interest, leaked, printed, conn, listening, owed, tried>>

(* epoll_wait returns 0 when timeout_sec has passed without an answer, or  *)
(* -1 (EINTR): the answers of the rest of the batch are given up.          *)
EpollGivesUp ==
    /\ pc = "events" /\ ecount > 0
    /\ owed' = owed \ interest
    /\ pc' = "close"
    /\ UNCHANGED <<start_port, end_port, port, s, ret, final, sockVars, printed, conn,
                   listening, tried>>

(* case EPOLLOUT: getpeername succeeds, so connect2 is called a second     *)
(* time, while the first connection is still open.                         *)
Answered(p, ev) == ev = "EPOLLOUT" /\ conn[p] \in {"connected", "self"}

(* Mutant of ConfirmMaySucceed: an answer is enough, nothing is confirmed. *)
ConfirmSkipped(p, ev) == Answered(p, ev)

(* Whether that connection may succeed, and whether it must: socket() may  *)
(* fail, and the connection needs a listener unless the kernel can connect *)
(* the socket to itself.                                                   *)
ConfirmMaySucceed(p, ev) ==
    Answered(p, ev) /\ FdFree /\ (p \in listening \/ SelfConnectPossible(p))

ConfirmMayFail(p, ev) == Answered(p, ev) /\ FdFree => p \notin listening

(* What an event comes to before its socket is removed from the epoll set: *)
(* the port is printed, or it is not, or it is lost because the            *)
(* environment failed the second connection ("leaked": it failed fcntl).   *)
Outcomes(p, ev) ==
    {o \in {"printed", "silent", "lost", "leaked"} :
        /\ o = "printed" => ConfirmMaySucceed(p, ev)
        /\ o = "silent"  => ConfirmMayFail(p, ev)
        /\ o \in {"lost", "leaked"} => Answered(p, ev) /\ FdFree
        /\ o = "leaked" => leaked < MaxLeaks}

Confirm(p, o) ==
    /\ printed' = IF o = "printed" THEN Append(printed, p) ELSE printed
    /\ leaked' = IF o = "leaked" THEN leaked + 1 ELSE leaked

(* One turn of the for loop over the events: confirm and print, then       *)
(* epoll_ctl(DEL).                                                         *)
HandleEvent(p, ev) ==
    /\ pc = "handle"
    /\ <<p, ev>> \in evls
    /\ \E o \in Outcomes(p, ev) :
          /\ Confirm(p, o)
          /\ owed' = IF o \in {"lost", "leaked"} THEN owed \ {p} ELSE owed
    /\ interest' = interest \ {p}
    /\ ecount' = ecount - 1
    /\ evls' = evls \ {<<p, ev>>}
    /\ pc' = IF evls' = {} THEN "events" ELSE "handle"
    /\ UNCHANGED <<start_port, end_port, port, s, ret, final, pending_sd, epfd,
                   conn, listening, tried>>

(* The same turn when epoll_ctl(DEL) fails: process_events returns -1,     *)
(* which is ignored, and the rest of the batch is given up.                *)
EpollDelFails(p, ev) ==
    /\ pc = "handle"
    /\ <<p, ev>> \in evls
    /\ \E o \in Outcomes(p, ev) : Confirm(p, o)
    /\ owed' = owed \ interest
    /\ evls' = {}
    /\ pc' = "close"
    /\ UNCHANGED <<start_port, end_port, port, s, ret, final, pending_sd, ecount, epfd,
                   interest, conn, listening, tried>>

-----------------------------------------------------------------------------
(* The environment: services and the kernel.                               *)

Listen(p) ==
    /\ p \notin listening
    /\ conn[p] # "self"
    /\ listening' = listening \union {p}
    /\ UNCHANGED <<scanVars, sockVars, printed, conn, owed, tried>>

(* A listener goes away; connections it had not accepted are reset.        *)
Unlisten(p) ==
    /\ p \in listening
    /\ listening' = listening \ {p}
    /\ owed' = owed \ {p}
    /\ \/ UNCHANGED conn
       \/ conn[p] = "connected" /\ conn' = [conn EXCEPT ![p] = "error"]
    /\ UNCHANGED <<scanVars, sockVars, printed, tried>>

(* The answer to a SYN arrives.                                            *)
Answer(p) ==
    /\ conn[p] = "connecting"
    /\ \E st \in {"connected", "self", "error"} :
          /\ (st = "connected") <=> (p \in listening)
          /\ st = "self" => SelfConnectPossible(p)
          /\ conn' = [conn EXCEPT ![p] = st]
    /\ UNCHANGED <<scanVars, sockVars, printed, listening, owed, tried>>

(* The service resets an accepted connection and keeps listening.          *)
PeerReset(p) ==
    /\ conn[p] = "connected"
    /\ conn' = [conn EXCEPT ![p] = "error"]
    /\ owed' = owed \ {p}
    /\ UNCHANGED <<scanVars, sockVars, printed, listening, tried>>

-----------------------------------------------------------------------------
AppletTcp ==
    \/ BadRange \/ EpollCreate \/ NoSocket \/ ConnectFails
    \/ EpollAdd \/ EpollAddFails \/ LoopEnd \/ CloseBatch

ProcessEvents ==
    \/ AllHandled \/ EpollWait \/ EpollGivesUp
    \/ \E p \in Ports, ev \in Event : HandleEvent(p, ev) \/ EpollDelFails(p, ev)

Scanner == AppletTcp \/ ProcessEvents

Environment == \E p \in Ports : Listen(p) \/ Unlisten(p) \/ Answer(p) \/ PeerReset(p)

(* The program has exited.                                                 *)
Exited == pc = "done" /\ UNCHANGED vars

Next == Scanner \/ Environment \/ Exited

Spec == Init /\ [][Next]_vars

(* The scanner is a process the kernel schedules; epoll_wait returns after *)
(* timeout_sec at the latest.                                              *)
FairSpec == Spec /\ WF_vars(Scanner)

-----------------------------------------------------------------------------
(* Properties                                                              *)

PrintedPorts == {printed[i] : i \in DOMAIN printed}

PendingPorts == {pending_sd[i] : i \in DOMAIN pending_sd}

(* pending_sd[nPending++] and the events of one epoll_wait never pass the  *)
(* end of their 256-entry arrays, on any path, including those that leave  *)
(* process_events early with sockets still registered.                     *)
ArraysFit == Len(pending_sd) <= Batch /\ Cardinality(evls) <= Batch

(* While process_events runs, its counter says exactly how many sockets    *)
(* are still registered: it neither stops while one is registered nor goes *)
(* on to wait on an empty epoll set, and every event it still holds is one *)
(* of a registered, open socket (epoll_ctl(DEL) cannot meet an unknown     *)
(* descriptor).                                                            *)
CountMatchesEpollSet ==
    pc \in {"for", "events", "handle"} =>
        /\ ecount = Cardinality(interest)
        /\ interest \subseteq PendingPorts
        /\ {e[1] : e \in evls} \subseteq interest

(* No port is printed twice, although a port is tried again when socket()  *)
(* fails and although EPOLLOUT is level triggered.                         *)
PrintedOnce ==
    \A i, j \in DOMAIN printed : printed[i] = printed[j] => i = j

(* A printed port has a listener when its second connection is made, which *)
(* tells a listener from a socket that the kernel connected to itself.     *)
PrintedListens ==
    [][printed' # printed => printed'[Len(printed')] \in listening]_vars

(* No port of the range is passed over: when the scan ends with status 0 a *)
(* socket was created for every port, however often socket() failed.       *)
NoPortSkipped ==
    pc = "done" /\ ret = 0 => start_port..end_port \subseteq tried

(* A port that listens during the whole scan, and about which the          *)
(* environment fails no call, is printed.                                  *)
ListenersFound ==
    pc = "done" => owed \intersect (start_port..end_port) \subseteq PrintedPorts

Call == INSTANCE PortScan WITH
            busy <- pc # "done", range <- start_port..end_port,
            answering <- listening, found <- PrintedPorts,
            owed <- owed \intersect (start_port..end_port)

(* The scanner keeps its promise to the script, PortScan: it prints ports  *)
(* of the range, while they listen, and misses none that the environment   *)
(* let it find.                                                            *)
ScansPorts == Call!Spec

(* What becomes of a port, in the order in which the phases can follow     *)
(* each other: it waits for the rest of its batch to be flushed, or not.   *)
Phase ==
    IF pc = "for" THEN (IF pending_sd = <<>> THEN 2 ELSE 5)
    ELSE (IF s = "nosock" THEN 3 ELSE 0) + (IF pc = "close" THEN 0 ELSE 1)

Nearer ==
    \/ pc = "start" \/ pc' = "done"
    \/ ~final /\ final'
    \/ final' = final /\ port' > port
    \/ UNCHANGED <<final, port>> /\ Phase' < Phase
    \/ UNCHANGED <<final, port>> /\ Phase' = Phase /\ ecount' < ecount
    \/ UNCHANGED <<final, port, ecount>> /\ Phase' = Phase /\ pc = "events" /\ pc' = "handle"

(* Every step of the scanner brings it nearer to its end, in an order that *)
(* has an end: a port is tried again only after a flush that has freed a   *)
(* descriptor for it, if the lost sockets leave one.                       *)
ScanAdvances == [][MaxFds > MaxLeaks + 1 /\ Scanner => Nearer]_vars

(* The scan ends.                                                          *)
ScanTerminates == <>(pc = "done")

=============================================================================
