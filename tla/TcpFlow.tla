------------------------------- MODULE TcpFlow -------------------------------
(***************************************************************************)
(* The detection of hidden TCP ports: src/src/sh-atrk.sh findHiddenTcpPort *)
(* and `atrk listen` (src/src/atrk.c getlistening).                        *)
(*                                                                         *)
(* Scan every port of 127.0.0.1, read /proc/net/tcp and then               *)
(* /proc/net/tcp6, subtract the ports listed from the ports found, and     *)
(* scan each remaining port once more.  A scan is a call of the scanner as *)
(* PortScan specifies it, which TcpScan implements.                        *)
(*                                                                         *)
(* The services are the environment.  A listening socket is a port and a   *)
(* kind: "v4" and "v6" answer on 127.0.0.1 (a dual-stack socket is listed  *)
(* in tcp6), "far" is bound to another address and listed in tcp.          *)
(***************************************************************************)
EXTENDS Integers, Sequences

CONSTANTS
    Ports,
    Cloaks,      \* sets of sockets that may be left out of /proc/net
    MaxChanges   \* bound on the sockets opened or closed during the detection

Kinds == {"v4", "v6", "far"}
Sockets == Ports \X Kinds

ASSUME FlowAssumption == MaxChanges \in Nat /\ Cloaks \subseteq SUBSET Sockets

Files == {"tcp", "tcp6"}

VARIABLES
    pc,
    busy, range, found, owed,   \* the scanner that runs, or ran last
    bruteopen,                  \* ports printed by the first scan
    file, rows,                 \* parse_procnet: its file, sockets to come
    tcplisten,                  \* ports listed
    portSusp, portHidden,
    socks,                      \* the listening sockets
    cloaked,                    \* those of socks that are left out of /proc/net
    changes,
    openly,                     \* history: sockets listed since the start
    secretly                    \* history: ports that answered since the start,
                                \* were not listed, and no call about them failed

scan == <<busy, range, found, owed>>
script == <<pc, bruteopen, file, rows, tcplisten, portSusp, portHidden>>
world == <<socks, cloaked, changes>>
history == <<openly, secretly>>
vars == <<scan, script, world, history>>

FileOf(x) == IF x[2] = "v6" THEN "tcp6" ELSE "tcp"
RowsOf(f) == {x \in Sockets : FileOf(x) = f}

Shown == socks \ cloaked
PortsOf(S) == {x[1] : x \in S}
Answering == PortsOf({x \in socks : x[2] # "far"})

Scan == INSTANCE PortScan WITH answering <- Answering

TypeOK ==
    /\ pc \in {"begin", "brute", "listen", "recheck", "done"}
    /\ busy \in BOOLEAN /\ range \subseteq Ports /\ found \subseteq Ports
    /\ owed \subseteq Ports
    /\ bruteopen \subseteq Ports /\ tcplisten \subseteq Ports
    /\ file \in Files /\ rows \subseteq Sockets
    /\ portSusp \subseteq Ports /\ portHidden \subseteq Ports
    /\ socks \subseteq Sockets /\ cloaked \in Cloaks
    /\ changes \in 0..MaxChanges
    /\ openly \subseteq Sockets /\ secretly \subseteq Ports

Init ==
    /\ pc = "begin"
    /\ busy = FALSE /\ range = {} /\ found = {} /\ owed = {}
    /\ bruteopen = {} /\ tcplisten = {} /\ portSusp = {} /\ portHidden = {}
    /\ file = "tcp" /\ rows = {}
    /\ socks \in SUBSET Sockets /\ cloaked \in Cloaks
    /\ changes = 0
    /\ openly = {} /\ secretly = {}

-----------------------------------------------------------------------------
(* The scans                                                               *)

Begin ==
    /\ pc = "begin" /\ pc' = "brute"
    /\ UNCHANGED world /\ Scan!Start(Ports)
    /\ openly' = Shown
    /\ secretly' = Answering \ PortsOf(Shown)
    /\ UNCHANGED <<bruteopen, file, rows, tcplisten, portSusp, portHidden>>

(* A call about a port failed, and the port was not printed before.        *)
Excused == secretly' = secretly \ ((owed \ owed') \ found')

ScanPrints(p) ==
    /\ UNCHANGED world /\ Scan!Find(p)
    /\ Excused
    /\ UNCHANGED <<script, openly>>

ScanLoses ==
    /\ busy
    /\ UNCHANGED world /\ Scan!Lose
    /\ Excused
    /\ UNCHANGED <<script, openly>>

(* bruteopen=$(atrk tcp -w5 127.0.0.1 1 65535): the exit status is not     *)
(* looked at.  Then atrk listen opens /proc/net/tcp.                       *)
BruteEnds ==
    /\ pc = "brute" /\ pc' = "listen"
    /\ UNCHANGED world /\ Scan!End
    /\ bruteopen' = found
    /\ file' = "tcp" /\ rows' = RowsOf("tcp")
    /\ UNCHANGED <<tcplisten, portSusp, portHidden, history>>

-----------------------------------------------------------------------------
(* atrk listen, and netstatTcplisten which reads its output                *)

(* A printed line, cut at the colons.  inet_ntop writes an IPv6 address    *)
(* that has colons itself, or fails for lack of room and leaves what was   *)
(* in the buffer.                                                          *)
LinesOf(x) ==
    IF FileOf(x) = "tcp" THEN {<<"addr", x[1]>>}
                         ELSE {<<"", "", "addr", x[1]>>, <<"stale", x[1]>>}

(* str_cut_getright "$item" ":"                                            *)
PortIn(line) == line[Len(line)]

(* Mutant of ReadRow: sockets of another address are not listed.           *)
ReadRowNear(x) ==
    /\ pc = "listen" /\ x \in rows
    /\ rows' = rows \ {x}
    /\ IF x \in Shown /\ x[2] = "v4"
       THEN \E line \in LinesOf(x) : tcplisten' = tcplisten \union {PortIn(line)}
       ELSE UNCHANGED tcplisten
    /\ UNCHANGED <<pc, bruteopen, file, portSusp, portHidden, scan, world, history>>

(* One more socket comes by; its line is printed if it listens (0A).       *)
ReadRow(x) ==
    /\ pc = "listen" /\ x \in rows
    /\ rows' = rows \ {x}
    /\ IF x \in Shown
       THEN \E line \in LinesOf(x) : tcplisten' = tcplisten \union {PortIn(line)}
       ELSE UNCHANGED tcplisten
    /\ UNCHANGED <<pc, bruteopen, file, portSusp, portHidden, scan, world, history>>

(* fopen fails; getlistening ignores it and goes on.                       *)
OpenFails ==
    /\ pc = "listen" /\ rows = RowsOf(file) /\ rows # {}
    /\ rows' = {}
    /\ openly' = openly \ RowsOf(file)
    /\ UNCHANGED <<pc, bruteopen, file, tcplisten, portSusp, portHidden, scan, world,
                   secretly>>

NextFile ==
    /\ pc = "listen" /\ rows = {} /\ file = "tcp"
    /\ file' = "tcp6" /\ rows' = RowsOf("tcp6")
    /\ UNCHANGED <<pc, bruteopen, tcplisten, portSusp, portHidden, scan, world, history>>

(* Mutant of Suspects: the two lists are swapped.                          *)
SuspectsSwapped == tcplisten \ bruteopen

(* list_item_notin_2nd_list "$bruteopen" "$tcplisten"                      *)
Suspects == bruteopen \ tcplisten

Subtract ==
    /\ pc = "listen" /\ rows = {} /\ file = "tcp6"
    /\ pc' = "recheck"
    /\ portSusp' = Suspects
    /\ UNCHANGED <<bruteopen, file, rows, tcplisten, portHidden, scan, world, history>>

-----------------------------------------------------------------------------
(* testTcpPorts                                                            *)

TestPort(p) ==
    /\ pc = "recheck" /\ p \in portSusp
    /\ UNCHANGED world /\ Scan!Start({p})
    /\ UNCHANGED <<script, history>>

(* Mutant of TestEnds: the loop does not go on to the next port.           *)
TestEndsStays ==
    /\ pc = "recheck"
    /\ UNCHANGED world /\ Scan!End
    /\ portHidden' = IF found = range THEN portHidden \union range ELSE portHidden
    /\ UNCHANGED <<pc, bruteopen, file, rows, tcplisten, portSusp, history>>

(* The port is kept if the output of the second scan is that port.         *)
TestEnds ==
    /\ pc = "recheck"
    /\ UNCHANGED world /\ Scan!End
    /\ portHidden' = IF found = range THEN portHidden \union range ELSE portHidden
    /\ portSusp' = portSusp \ range
    /\ UNCHANGED <<pc, bruteopen, file, rows, tcplisten, history>>

Report ==
    /\ pc = "recheck" /\ portSusp = {} /\ pc' = "done"
    /\ UNCHANGED <<bruteopen, file, rows, tcplisten, portSusp, portHidden, scan, world,
                   history>>

Script ==
    \/ Begin \/ ScanLoses \/ BruteEnds
    \/ OpenFails \/ NextFile \/ Subtract \/ TestEnds \/ Report
    \/ \E x \in Sockets : ReadRow(x)
    \/ \E p \in Ports : ScanPrints(p) \/ TestPort(p)

-----------------------------------------------------------------------------
(* A service opens or closes a listening socket.                           *)
Service(x) ==
    /\ pc \notin {"begin", "done"}
    /\ changes < MaxChanges /\ changes' = changes + 1
    /\ socks' = IF x \in socks THEN socks \ {x} ELSE socks \union {x}
    /\ UNCHANGED <<script, cloaked>> /\ Scan!World
    /\ openly' = openly \intersect socks'
    /\ secretly' = secretly \intersect (Answering \ PortsOf(Shown))'

Finished == pc = "done" /\ UNCHANGED vars

Next == Script \/ (\E x \in Sockets : Service(x)) \/ Finished

Spec == Init /\ [][Next]_vars

(* The script and the programs it runs are scheduled, and every call of    *)
(* theirs returns.                                                         *)
FairSpec == Spec /\ WF_vars(Script)

-----------------------------------------------------------------------------
(* A port is not reported if one socket on it is listed during the whole   *)
(* detection, whatever its address and whichever of the two files lists    *)
(* it.                                                                     *)
OpenNotAccused == portHidden \intersect PortsOf(openly) = {}

(* A port that answers on 127.0.0.1 and has no listed socket during the    *)
(* whole detection is reported, unless a call about it fails in one of the *)
(* two scans.                                                              *)
SecretFound == pc = "done" => secretly \subseteq portHidden

Smaller(A, B) == A \subseteq B /\ A # B

Order == [begin |-> 0, brute |-> 1, listen |-> 2, recheck |-> 3, done |-> 4]

Nearer ==
    \/ Order[pc'] > Order[pc]
    \/ /\ pc' = pc
       /\ \/ file = "tcp" /\ file' = "tcp6"
          \/ file' = file /\ Smaller(rows', rows)
          \/ UNCHANGED <<file, rows>> /\ Smaller(portSusp', portSusp)
          \/ UNCHANGED <<file, rows, portSusp>> /\ ~busy /\ busy'
          \/ UNCHANGED <<file, rows, portSusp, busy>> /\ Smaller(found, found')
          \/ UNCHANGED <<file, rows, portSusp, busy, found>> /\ Smaller(owed', owed)

(* Every step of the script and of the programs it runs brings the         *)
(* detection nearer to its end, in an order that has an end and in which   *)
(* the services move nothing back: a suspect is tested once.               *)
FlowAdvances == [][Script => Nearer]_vars

(* The detection ends, however often services come and go.                 *)
FlowTerminates == <>(pc = "done")

=============================================================================
