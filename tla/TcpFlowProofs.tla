---------------------------- MODULE TcpFlowProofs ----------------------------
(***************************************************************************)
(* Theorems about TcpFlow for every set of ports, every choice of hidden   *)
(* sockets and every number of changes.                                    *)
(***************************************************************************)
EXTENDS TcpFlow, TLAPS

(* What the script and its scanner hold at each stage.                     *)
Stages ==
    /\ found \subseteq range
    /\ rows \subseteq RowsOf(file)
    /\ pc = "begin" => openly = {} /\ secretly = {} /\ tcplisten = {}
    /\ pc = "brute" => busy /\ range = Ports
    /\ pc \in {"begin", "brute", "listen"} => portHidden = {}
    /\ pc \in {"begin", "listen", "done"} => ~busy
    /\ pc = "recheck" /\ busy => \E p \in portSusp : range = {p}
    /\ pc \in {"recheck", "done"} => (portSusp \union portHidden) \intersect tcplisten = {}

(* The sockets of the files that have been read.                           *)
HaveRead(x) == (FileOf(x) = "tcp" /\ file = "tcp6") \/ (FileOf(x) = file /\ x \notin rows)

(* A socket listed since the start is in the list once it has come by.     *)
Open ==
    /\ openly \subseteq Shown
    /\ pc = "listen" => \A x \in openly : HaveRead(x) => x[1] \in tcplisten
    /\ pc \in {"recheck", "done"} => \A x \in openly : x[1] \in tcplisten

(* A port that is hidden since the start is never listed, and is handed on *)
(* from one stage to the next.                                             *)
Secret ==
    /\ secretly \subseteq Answering \ PortsOf(Shown)
    /\ pc # "begin" => secretly \intersect tcplisten = {}
    /\ busy => secretly \intersect range \subseteq owed \union found
    /\ pc = "listen" => secretly \subseteq bruteopen
    /\ pc = "recheck" => secretly \subseteq portSusp \union portHidden
    /\ pc = "done" => secretly \subseteq portHidden

IInv == TypeOK /\ Stages /\ Open /\ Secret

-----------------------------------------------------------------------------
(* Sockets of a file are sockets, and a socket belongs to one file.        *)
LEMMA FileFacts ==
    /\ \A x \in Sockets : FileOf(x) \in Files /\ x[1] \in Ports
    /\ \A f \in Files : RowsOf(f) \subseteq Sockets
    /\ \A f \in Files, x \in Sockets : x \in RowsOf(f) <=> FileOf(x) = f
  BY DEF FileOf, Files, Sockets, RowsOf, Kinds

(* Sets of sockets name sets of ports.                                     *)
LEMMA PortsOfType == \A S \in SUBSET Sockets : PortsOf(S) \in SUBSET Ports
  BY DEF PortsOf, Sockets

LEMMA AnsweringType == TypeOK => Answering \in SUBSET Ports
<1> SUFFICES ASSUME TypeOK PROVE Answering \in SUBSET Ports
  OBVIOUS
<1>1. {x \in socks : x[2] # "far"} \in SUBSET Sockets
  BY DEF TypeOK
<1> QED
  BY <1>1, PortsOfType DEF Answering

(* The port of a line is the port of its socket, whatever is printed for   *)
(* its address.                                                            *)
LEMMA LinePort == \A x \in Sockets : \A line \in LinesOf(x) : PortIn(line) = x[1]
<1> SUFFICES ASSUME NEW x \in Sockets, NEW line \in LinesOf(x) PROVE PortIn(line) = x[1]
  OBVIOUS
<1>1. \/ line = <<"addr", x[1]>> \/ line = <<"", "", "addr", x[1]>> \/ line = <<"stale", x[1]>>
  BY Zenon DEF LinesOf
<1>2. CASE line = <<"addr", x[1]>>
  BY <1>2 DEF PortIn
<1>3. CASE line = <<"", "", "addr", x[1]>>
  BY <1>3, Zenon DEF PortIn
<1>4. CASE line = <<"stale", x[1]>>
  BY <1>4 DEF PortIn
<1> QED
  BY <1>1, <1>2, <1>3, <1>4, Zenon

(* What reading a row does to the list.                                    *)
LEMMA ReadRowFrame ==
    ASSUME NEW x \in Sockets, ReadRow(x)
    PROVE  /\ pc = "listen" /\ x \in rows /\ rows' = rows \ {x}
           /\ tcplisten' = IF x \in Shown THEN tcplisten \union {x[1]} ELSE tcplisten
           /\ UNCHANGED <<pc, bruteopen, file, portSusp, portHidden, scan, world, history>>
<1>1. x \in Shown => \E line \in LinesOf(x) : tcplisten' = tcplisten \union {PortIn(line)}
  BY DEF ReadRow
<1>2. x \in Shown => tcplisten' = tcplisten \union {x[1]}
  BY <1>1, LinePort
<1> QED
  BY <1>2 DEF ReadRow

-----------------------------------------------------------------------------
LEMMA InitIInv == Init => IInv
<1> SUFFICES ASSUME Init PROVE IInv
  OBVIOUS
<1>1. TypeOK
  <2>1. changes \in 0..MaxChanges
    BY FlowAssumption DEF Init
  <2> QED
    BY <2>1, Zenon DEF Init, TypeOK, Files
<1>2. Stages /\ Open /\ Secret
  BY DEF Init, Stages, Open, Secret
<1> QED
  BY <1>1, <1>2 DEF IInv

(* A service keeps all but its own history and what scans are owed.        *)
LEMMA ServiceFrame ==
    ASSUME NEW x \in Sockets, Service(x)
    PROVE  /\ UNCHANGED <<script, cloaked, busy, range, found>>
           /\ owed' = owed \intersect Answering'
           /\ openly' = openly \intersect socks'
           /\ secretly' = secretly \intersect (Answering \ PortsOf(Shown))'
           /\ pc # "begin"
  BY DEF Service, Scan!World

LEMMA TypeStep == TypeOK /\ Next => TypeOK'
<1> SUFFICES ASSUME TypeOK, Next PROVE TypeOK'
  OBVIOUS
<1>0. Answering \in SUBSET Ports
  BY AnsweringType
<1> USE DEF TypeOK
<1>1. CASE Begin
  <2>1. Shown \in SUBSET Sockets
    BY DEF Shown
  <2> QED
    BY <1>0, <1>1, <2>1 DEF Begin, Scan!Start, world
<1>2. CASE ScanLoses \/ \E p \in Ports : ScanPrints(p)
  BY <1>2 DEF ScanLoses, ScanPrints, Scan!Lose, Scan!Find, Excused, script, world
<1>3. CASE BruteEnds
  BY <1>3, FileFacts, Zenon DEF BruteEnds, Scan!End, history, world, Files
<1>4. CASE \E x \in Sockets : ReadRow(x)
  <2>1. PICK x \in Sockets : ReadRow(x)
    BY <1>4
  <2>2. x[1] \in Ports
    BY FileFacts
  <2> QED
    BY <2>1, <2>2, ReadRowFrame DEF scan, world, history
<1>5. CASE OpenFails \/ NextFile
  BY <1>5, FileFacts DEF OpenFails, NextFile, scan, world, history, Files
<1>6. CASE Subtract
  BY <1>6 DEF Subtract, Suspects, scan, world, history
<1>7. CASE \E p \in Ports : TestPort(p)
  BY <1>0, <1>7 DEF TestPort, Scan!Start, script, world, history
<1>8. CASE TestEnds
  BY <1>8, Zenon DEF TestEnds, Scan!End, world, history
<1>9. CASE Report
  BY <1>9 DEF Report, scan, world, history
<1>10. CASE \E x \in Sockets : Service(x)
  <2>1. PICK x \in Sockets : Service(x)
    BY <1>10
  <2>2. socks' \in SUBSET Sockets /\ changes' \in 0..MaxChanges
    BY <2>1, FlowAssumption DEF Service
  <2> QED
    BY <2>1, <2>2, ServiceFrame DEF script
<1>11. CASE Finished
  BY <1>11 DEF Finished, vars, scan, script, world, history
<1> QED
  BY <1>1, <1>2, <1>3, <1>4, <1>5, <1>6, <1>7, <1>8, <1>9, <1>10, <1>11 DEF Next, Script

LEMMA StagesStep == IInv /\ Next => Stages'
<1> SUFFICES ASSUME IInv, Next PROVE Stages'
  OBVIOUS
<1> USE DEF Stages
<1>0. TypeOK /\ Stages
  BY DEF IInv
<1>1. CASE Begin
  BY <1>0, <1>1 DEF Begin, Scan!Start
<1>2. CASE ScanLoses \/ \E p \in Ports : ScanPrints(p)
  BY <1>0, <1>2 DEF ScanLoses, ScanPrints, Scan!Lose, Scan!Find, script
<1>3. CASE BruteEnds
  BY <1>0, <1>3 DEF BruteEnds, Scan!End
<1>4. CASE \E x \in Sockets : ReadRow(x)
  BY <1>0, <1>4, ReadRowFrame DEF scan, history
<1>5. CASE OpenFails \/ NextFile
  BY <1>0, <1>5 DEF OpenFails, NextFile, scan, history
<1>6. CASE Subtract
  BY <1>0, <1>6 DEF Subtract, Suspects, scan, history
<1>7. CASE \E p \in Ports : TestPort(p)
  BY <1>0, <1>7 DEF TestPort, Scan!Start, script, history
<1>8. CASE TestEnds
  BY <1>0, <1>8 DEF TestEnds, Scan!End, history
<1>9. CASE Report
  BY <1>0, <1>9 DEF Report, scan, history
<1>10. CASE \E x \in Sockets : Service(x)
  BY <1>0, <1>10, ServiceFrame DEF script
<1>11. CASE Finished
  BY <1>0, <1>11 DEF Finished, vars, scan, script, history
<1> QED
  BY <1>1, <1>2, <1>3, <1>4, <1>5, <1>6, <1>7, <1>8, <1>9, <1>10, <1>11 DEF Next, Script

LEMMA OpenStep == IInv /\ Next => Open'
<1> SUFFICES ASSUME IInv, Next PROVE Open'
  OBVIOUS
<1> USE DEF Open
<1>0. TypeOK /\ Stages /\ Open
  BY DEF IInv
<1>1. CASE Begin
  BY <1>0, <1>1 DEF Begin, world, Shown
<1>2. CASE ScanLoses \/ \E p \in Ports : ScanPrints(p)
  BY <1>0, <1>2 DEF ScanLoses, ScanPrints, script, world, Shown, HaveRead
<1>3. CASE BruteEnds
  <2>1. \A x \in openly : ~HaveRead(x)'
    BY <1>0, <1>3, FileFacts DEF BruteEnds, HaveRead, TypeOK, Files
  <2> QED
    BY <1>0, <1>3, <2>1 DEF BruteEnds, world, history, Shown
<1>4. CASE \E x \in Sockets : ReadRow(x)
  BY <1>0, <1>4, ReadRowFrame DEF scan, world, history, Shown, HaveRead
<1>5. CASE OpenFails
  <2>1. /\ openly' = openly \ RowsOf(file) /\ rows = RowsOf(file)
        /\ UNCHANGED <<pc, file, tcplisten, world>> /\ pc = "listen"
    BY <1>5 DEF OpenFails
  <2>2. \A x \in openly' : HaveRead(x)' => HaveRead(x)
    BY <1>0, <2>1, FileFacts DEF HaveRead, TypeOK
  <2> QED
    BY <1>0, <2>1, <2>2 DEF world, Shown
<1>6. CASE NextFile
  <2>1. \A x \in openly : HaveRead(x)' => HaveRead(x)
    BY <1>0, <1>6, FileFacts DEF NextFile, HaveRead, TypeOK, Files
  <2> QED
    BY <1>0, <1>6, <2>1 DEF NextFile, world, history, Shown
<1>7. CASE Subtract
  <2>1. \A x \in openly : HaveRead(x)
    BY <1>0, <1>7, FileFacts DEF Subtract, HaveRead, TypeOK, Files
  <2> QED
    BY <1>0, <1>7, <2>1 DEF Subtract, world, history, Shown
<1>8. CASE TestEnds \/ \E p \in Ports : TestPort(p)
  BY <1>0, <1>8, Zenon DEF TestEnds, TestPort, script, world, history, Shown
<1>9. CASE Report
  BY <1>0, <1>9 DEF Report, world, history, Shown
<1>10. CASE \E x \in Sockets : Service(x)
  BY <1>0, <1>10, ServiceFrame DEF script, Shown, HaveRead
<1>11. CASE Finished
  BY <1>0, <1>11 DEF Finished, vars, script, world, history, Shown, HaveRead
<1> QED
  BY <1>1, <1>2, <1>3, <1>4, <1>5, <1>6, <1>7, <1>8, <1>9, <1>10, <1>11 DEF Next, Script

LEMMA SecretStep == IInv /\ Next => Secret'
<1> SUFFICES ASSUME IInv, Next PROVE Secret'
  OBVIOUS
<1> USE DEF Secret
<1>0. TypeOK /\ Stages /\ Secret
  BY DEF IInv
<1> DEFINE Hidden == Answering \ PortsOf(Shown)
<1>w. UNCHANGED world => Hidden' = Hidden
  BY DEF world, Answering, PortsOf, Shown
<1>1. CASE Begin
  <2>1. tcplisten' = tcplisten /\ pc' = "brute" /\ secretly' = Hidden /\ UNCHANGED world
        /\ owed' = Ports \intersect Answering
    BY <1>1 DEF Begin, Scan!Start
  <2>2. tcplisten = {}
    BY <1>0, <1>1 DEF Begin, Stages
  <2> QED
    BY <1>0, <1>w, <2>1, <2>2, AnsweringType
<1>2. CASE ScanLoses \/ \E p \in Ports : ScanPrints(p)
  <2>1. secretly' = secretly \ ((owed \ owed') \ found') /\ found \subseteq found'
        /\ UNCHANGED <<script, busy, range, world>>
    BY <1>2 DEF ScanLoses, ScanPrints, Scan!Lose, Scan!Find, Excused
  <2> QED
    BY <1>0, <1>w, <2>1 DEF script
<1>3. CASE BruteEnds
  BY <1>0, <1>w, <1>3 DEF BruteEnds, Scan!End, history, Stages, TypeOK
<1>4. CASE \E x \in Sockets : ReadRow(x)
  <2>1. PICK x \in Sockets : ReadRow(x)
    BY <1>4
  <2>2. x \in Shown => x[1] \in PortsOf(Shown)
    BY DEF PortsOf
  <2> QED
    BY <1>0, <1>w, <2>1, <2>2, ReadRowFrame DEF scan, history
<1>5. CASE OpenFails \/ NextFile
  BY <1>0, <1>w, <1>5 DEF OpenFails, NextFile, scan, history
<1>6. CASE Subtract
  BY <1>0, <1>w, <1>6 DEF Subtract, Suspects, scan, history, Stages
<1>7. CASE \E p \in Ports : TestPort(p)
  BY <1>0, <1>w, <1>7 DEF TestPort, Scan!Start, script, history
<1>8. CASE TestEnds
  <2>1. /\ pc = "recheck" /\ busy /\ ~busy' /\ owed \subseteq found
        /\ portHidden' = IF found = range THEN portHidden \union range ELSE portHidden
        /\ portSusp' = portSusp \ range
        /\ UNCHANGED <<pc, tcplisten, world, history>>
    BY <1>8 DEF TestEnds, Scan!End
  <2>2. secretly \intersect range \subseteq found /\ found \subseteq range
    BY <1>0, <2>1 DEF Stages
  <2>3. PICK p \in portSusp : range = {p}
    BY <1>0, <2>1 DEF Stages
  <2>4. secretly \intersect range # {} => found = range
    BY <2>2, <2>3
  <2>5. secretly \subseteq portSusp' \union portHidden'
    BY <1>0, <2>1, <2>4
  <2> QED
    BY <1>0, <1>w, <2>1, <2>5 DEF history
<1>9. CASE Report
  BY <1>0, <1>w, <1>9 DEF Report, scan, history
<1>10. CASE \E x \in Sockets : Service(x)
  BY <1>0, <1>10, ServiceFrame DEF script
<1>11. CASE Finished
  BY <1>0, <1>w, <1>11 DEF Finished, vars, scan, script, history
<1> QED
  BY <1>1, <1>2, <1>3, <1>4, <1>5, <1>6, <1>7, <1>8, <1>9, <1>10, <1>11 DEF Next, Script

LEMMA AlwaysIInv == Spec => []IInv
<1>1. IInv /\ UNCHANGED vars => IInv'
  BY DEF IInv, TypeOK, Stages, Open, Secret, HaveRead, Shown, Answering, PortsOf,
         vars, scan, script, world, history
<1>2. IInv /\ [Next]_vars => IInv'
  BY <1>1, TypeStep, StagesStep, OpenStep, SecretStep DEF IInv
<1> QED
  BY <1>2, InitIInv, PTL DEF Spec

-----------------------------------------------------------------------------
(* Every list of findHiddenTcpPort holds ports of the scanned range, and   *)
(* the rows still to be read are sockets.                                  *)
THEOREM TypeCorrect == Spec => []TypeOK
<1>1. IInv => TypeOK
  BY DEF IInv
<1> QED
  BY <1>1, AlwaysIInv, PTL

(* A port with one socket that is listed during the whole detection is not *)
(* reported, however many ports and services there are.                    *)
THEOREM OpenNotAccusedHolds == Spec => []OpenNotAccused
<1>1. IInv => OpenNotAccused
  BY DEF IInv, TypeOK, Stages, Open, OpenNotAccused, PortsOf
<1> QED
  BY <1>1, AlwaysIInv, PTL

(* A port that answers and is not listed during the whole detection is     *)
(* reported, unless a call about it fails.                                 *)
THEOREM SecretFoundHolds == Spec => []SecretFound
<1>1. IInv => SecretFound
  BY DEF IInv, Secret, SecretFound
<1> QED
  BY <1>1, AlwaysIInv, PTL

(* Each step of findHiddenTcpPort, and of the programs it runs, comes      *)
(* nearer to its end, for every set of ports and any number of changes.    *)
THEOREM FlowAdvancesHolds == Spec => FlowAdvances
<1>1. ASSUME IInv, Script, ~UNCHANGED vars PROVE Nearer
  <2>1. CASE Begin \/ BruteEnds \/ Subtract \/ Report
    BY <2>1 DEF Begin, BruteEnds, Subtract, Report, Nearer, Order
  <2>2. CASE OpenFails
    BY <2>2 DEF OpenFails, Nearer, Smaller
  <2>3. CASE NextFile
    BY <2>3 DEF NextFile, Nearer
  <2>4. CASE \E x \in Sockets : ReadRow(x)
    BY <2>4, ReadRowFrame DEF Nearer, Smaller
  <2>5. CASE \E p \in Ports : TestPort(p)
    BY <2>5, Zenon DEF TestPort, Scan!Start, script, Nearer
  <2>6. CASE TestEnds
    <3>1. PICK p \in portSusp : range = {p}
      BY <1>1, <2>6 DEF TestEnds, Scan!End, IInv, Stages
    <3> QED
      BY <2>6, <3>1 DEF TestEnds, Nearer, Smaller
  <2>7. CASE \E p \in Ports : ScanPrints(p)
    BY <2>7 DEF ScanPrints, Scan!Find, script, Nearer, Smaller
  <2>8. CASE ScanLoses
    <3>1. owed' \subseteq owed /\ UNCHANGED <<busy, range, found, script, world, openly>> /\ Excused
      BY <2>8 DEF ScanLoses, Scan!Lose
    <3>2. owed' # owed
      BY <1>1, <3>1 DEF Excused, vars, scan, history
    <3> QED
      BY <3>1, <3>2 DEF script, Nearer, Smaller
  <2> QED
    BY <1>1, <2>1, <2>2, <2>3, <2>4, <2>5, <2>6, <2>7, <2>8 DEF Script
<1> DEFINE On == Script => Nearer
<1>2. IInv /\ [Next]_vars => [On]_vars
  BY <1>1
<1> QED
  BY <1>2, AlwaysIInv, PTL DEF Spec, FlowAdvances

=============================================================================
