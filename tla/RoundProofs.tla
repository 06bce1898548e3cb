----------------------------- MODULE RoundProofs -----------------------------
(***************************************************************************)
(* What one comparison of two views guarantees on a system that changes:   *)
(* a round that looks again before it reports (CrossView), for every set   *)
(* of items, and `atrk fhudp1`, which looks once (UdpScan), for every      *)
(* number of ports.  The two share no variable.                            *)
(***************************************************************************)
EXTENDS CrossView, UdpScan, TLAPS

-----------------------------------------------------------------------------
(* A round                                                                 *)

(* Where the items of the two guarantees are at each stage: an item hidden *)
(* during the whole round has been in every window of the probes and in no *)
(* window of the listing, and one shown during the whole round has been in *)
(* the window of the listing.                                              *)
SecretlyTraced ==
    /\ stage = "brute" => secretly \subseteq still
    /\ stage \in {"list", "recheck"} => secretly \subseteq probed
    /\ stage = "list" => secretly \intersect was = {}
    /\ stage = "recheck" => secretly \intersect listed = {} /\ secretly \subseteq still
    /\ stage = "idle" => secretly \subseteq report

OpenlyTraced ==
    /\ stage = "list" => openly \subseteq still
    /\ stage = "recheck" => openly \subseteq listed
    /\ report \intersect openly = {}

(* While a round runs the histories agree with the world, and the report   *)
(* is the previous round's only between rounds.                            *)
Current ==
    stage # "idle" => /\ openly \subseteq shown
                      /\ secretly \subseteq present \ shown
                      /\ report = {}

IInv == TypeOK /\ SecretlyTraced /\ OpenlyTraced /\ Current

LEMMA InitIInv == Init => IInv
  BY DEF Init, IInv, TypeOK, SecretlyTraced, OpenlyTraced, Current

(* Every step of the world or of a round preserves the invariant.          *)
LEMMA NextIInv == IInv /\ [Next]_vars => IInv'
<1> SUFFICES ASSUME IInv, [Next]_vars PROVE IInv'
  OBVIOUS
<1> USE DEF IInv
<1>1. CASE World
  <2>1. TypeOK'
    BY <1>1 DEF World, TypeOK, Target
  <2>2. SecretlyTraced'
    BY <1>1 DEF World, TypeOK, SecretlyTraced, Target
  <2>3. OpenlyTraced'
    BY <1>1 DEF World, TypeOK, OpenlyTraced, Target
  <2>4. Current'
    BY <1>1 DEF World, Current
  <2> QED
    BY <2>1, <2>2, <2>3, <2>4
<1>2. CASE Begin
  <2>1. TypeOK'
    BY <1>2 DEF Begin, TypeOK, OpenWindow, Target
  <2>2. SecretlyTraced'
    BY <1>2 DEF Begin, SecretlyTraced, OpenWindow, Target
  <2>3. OpenlyTraced' /\ Current'
    BY <1>2 DEF Begin, OpenlyTraced, Current
  <2> QED
    BY <2>1, <2>2, <2>3
<1>3. CASE EndBrute
  <2>1. TypeOK'
    BY <1>3 DEF EndBrute, TypeOK, OpenWindow, Target, world
  <2>2. SecretlyTraced'
    BY <1>3 DEF EndBrute, SecretlyTraced, Current, OpenWindow, InWindow, Target, world
  <2>3. OpenlyTraced' /\ Current'
    BY <1>3 DEF EndBrute, OpenlyTraced, Current, OpenWindow, Target, world
  <2> QED
    BY <2>1, <2>2, <2>3
<1>4. CASE EndList
  <2>1. TypeOK'
    BY <1>4 DEF EndList, TypeOK, OpenWindow, Target, world
  <2>2. SecretlyTraced'
    BY <1>4 DEF EndList, SecretlyTraced, Current, OpenWindow, InWindow, Target, world
  <2>3. OpenlyTraced' /\ Current'
    BY <1>4 DEF EndList, OpenlyTraced, Current, InWindow, world
  <2> QED
    BY <2>1, <2>2, <2>3
<1>5. CASE EndRecheck
  <2>1. TypeOK'
    BY <1>5 DEF EndRecheck, TypeOK, world
  <2>2. SecretlyTraced'
    BY <1>5 DEF EndRecheck, SecretlyTraced, InWindow, Suspects
  <2>3. OpenlyTraced' /\ Current'
    BY <1>5 DEF EndRecheck, OpenlyTraced, Current, Suspects
  <2> QED
    BY <2>1, <2>2, <2>3
<1>6. CASE UNCHANGED vars
  BY <1>6 DEF vars, world, TypeOK, SecretlyTraced, OpenlyTraced, Current
<1> QED
  BY <1>1, <1>2, <1>3, <1>4, <1>5, <1>6 DEF Next

LEMMA AlwaysIInv == Spec => []IInv
<1>1. QED
  BY InitIInv, NextIInv, PTL DEF Spec

(* The variables of the specification keep their types.                    *)
THEOREM TypeCorrect == Spec => []TypeOK
  BY AlwaysIInv, PTL DEF IInv

(* A round never reports an item that the listing showed all along, for    *)
(* any set of items and any behaviour of the system.                       *)
THEOREM NoFalseAlarmHolds == Spec => []NoFalseAlarm
<1>1. IInv => NoFalseAlarm
  BY DEF IInv, OpenlyTraced, NoFalseAlarm
<1> QED
  BY <1>1, AlwaysIInv, PTL

(* A round reports every item that the probe could find and the listing    *)
(* did not show all along, for any set of items and any behaviour of the   *)
(* system.                                                                 *)
THEOREM HiddenReportedHolds == Spec => []HiddenReported
<1>1. IInv => HiddenReported
  BY DEF IInv, SecretlyTraced, HiddenReported
<1> QED
  BY <1>1, AlwaysIInv, PTL

-----------------------------------------------------------------------------
(* The UDP scan                                                            *)

(* What the kernel and the loop keep.                                      *)
Kept ==
    /\ UdpTypeOK
    /\ Possible(sock, ipv6)
    /\ pc \in {"udp", "udp6"} => port = 1
    /\ pc = "bind" => port \in Ports
    /\ pc = "done" => port = MaxPort + 1

(* A port that is shown throughout is in the table as soon as its listing  *)
(* has been read.  Its socket does not change from one family to the       *)
(* other, because the IPv4 port has one owner.                             *)
Shown ==
    /\ \A p \in quiet : Shows(p, "v4") \/ Shows(p, "dual")
    /\ pc = "udp6" => \A p \in quiet : Shows(p, "v4") => p \in ports
    /\ pc \in {"bind", "done"} => quiet \subseteq ports
    /\ printed \intersect quiet = {}

(* A port that is hidden throughout is not in the table, and is printed as *)
(* soon as the loop has passed it.                                         *)
Passed ==
    /\ secret \subseteq Secret
    /\ secret \intersect ports = {}
    /\ pc \in {"bind", "done"} => \A p \in secret : p < port => p \in printed

UdpIInv == Kept /\ Shown /\ Passed

-----------------------------------------------------------------------------
LEMMA UdpInitIInv == UdpInit => UdpIInv
<1> SUFFICES ASSUME UdpInit PROVE UdpIInv
    OBVIOUS
<1>1. Kept
    BY UdpAssumption DEF UdpInit, Kept, UdpTypeOK, Quiet, Secret, Ports
<1>2. Shown
    BY DEF UdpInit, Shown, Quiet
<1>3. Passed
    BY DEF UdpInit, Passed
<1> QED
    BY <1>1, <1>2, <1>3 DEF UdpIInv

(* The sockets of a port after a change are still possible ones.           *)
LEMMA ChangePossible ==
    ASSUME NEW p \in Ports, NEW k \in Kinds, Kept, Change(p, k)
    PROVE  /\ sock' \in [Ports -> [Kinds -> SockState]]
           /\ Possible(sock', ipv6)
<1>1. PICK v \in SockState : sock' = [sock EXCEPT ![p][k] = v]
    BY DEF Change
<1>2. sock' \in [Ports -> [Kinds -> SockState]]
    BY <1>1 DEF Kept, UdpTypeOK
<1>3. Possible(sock', ipv6)
    BY DEF Change
<1> QED
    BY <1>2, <1>3

LEMMA KeptStays == Kept /\ [UdpNext]_udpVars => Kept'
<1> SUFFICES ASSUME Kept, [UdpNext]_udpVars PROVE Kept'
    OBVIOUS
<1> USE UdpAssumption
<1>1. CASE ReadUdp
    BY <1>1 DEF ReadUdp, Kept, UdpTypeOK, Ports, Possible, Shows
<1>2. CASE ReadUdp6
  <2>1. ports' \subseteq Ports
    BY <1>2 DEF ReadUdp6, Kept, UdpTypeOK
  <2> QED
    BY <1>2, <2>1 DEF ReadUdp6, Kept, UdpTypeOK, Ports, Possible
<1>3. CASE SocketFails
    BY <1>3 DEF SocketFails, NextPort, Kept, UdpTypeOK, Ports, Possible
<1>4. CASE TryBind
  <2>1. printed' \subseteq Ports
    BY <1>4 DEF TryBind, Kept, UdpTypeOK
  <2> QED
    BY <1>4, <2>1 DEF TryBind, NextPort, Kept, UdpTypeOK, Ports, Possible
<1>5. CASE Finished \/ UNCHANGED udpVars
    BY <1>5 DEF Finished, udpVars, Kept, UdpTypeOK, Possible
<1>6. ASSUME NEW p \in Ports, NEW k \in Kinds, Change(p, k) PROVE Kept'
  <2>1. Possible(sock', ipv6) /\ sock' \in [Ports -> [Kinds -> SockState]]
    BY <1>6, ChangePossible
  <2>2. quiet' \subseteq quiet /\ secret' \subseteq secret
    BY <1>6 DEF Change
  <2> QED
    BY <1>6, <2>1, <2>2 DEF Change, Kept, UdpTypeOK
<1> QED
    BY <1>1, <1>2, <1>3, <1>4, <1>5, <1>6 DEF UdpNext

LEMMA ShownStays == Kept /\ Shown /\ [UdpNext]_udpVars => Shown'
<1> SUFFICES ASSUME Kept, Shown, [UdpNext]_udpVars PROVE Shown'
    OBVIOUS
<1>q. quiet \subseteq Ports
    BY DEF Kept, UdpTypeOK
<1>1. CASE ReadUdp
    BY <1>1, <1>q DEF ReadUdp, Shown, Shows
<1>2. CASE ReadUdp6
  <2>1. ASSUME NEW p \in quiet, p \notin ports PROVE ipv6 /\ Shows(p, "dual")
    BY <1>2, <1>q, <2>1 DEF ReadUdp6, Shown, Shows, Kept, Possible
  <2>2. quiet \subseteq ports'
    BY <1>2, <1>q, <2>1 DEF ReadUdp6
  <2> QED
    BY <1>2, <2>2 DEF ReadUdp6, Shown, Shows
<1>3. CASE SocketFails
    BY <1>3 DEF SocketFails, NextPort, Shown, Shows
<1>4. CASE TryBind
    BY <1>4 DEF TryBind, NextPort, Shown, Shows
<1>5. CASE Finished \/ UNCHANGED udpVars
    BY <1>5 DEF Finished, udpVars, Shown, Shows
<1>6. ASSUME NEW p \in Ports, NEW k \in Kinds, Change(p, k) PROVE Shown'
  <2>1. Possible(sock', ipv6)
    BY <1>6, ChangePossible
  <2>2. quiet' \subseteq quiet
    BY <1>6 DEF Change
  <2>3. ASSUME NEW q \in quiet'
        PROVE  \E l \in {"v4", "dual"} : sock[q][l] = "shown" /\ sock'[q][l] = "shown"
    BY <1>6, <2>3 DEF Change, Shows
  <2>4. ASSUME NEW q \in quiet', sock'[q]["v4"] = "shown"
        PROVE  sock[q]["v4"] = "shown"
    BY <2>1, <2>2, <2>3, <2>4, <1>q DEF Possible
  <2> QED
    BY <1>6, <2>2, <2>3, <2>4 DEF Change, Shown, Shows
<1> QED
    BY <1>1, <1>2, <1>3, <1>4, <1>5, <1>6 DEF UdpNext

LEMMA PassedStays == Kept /\ Passed /\ [UdpNext]_udpVars => Passed'
<1> SUFFICES ASSUME Kept, Passed, [UdpNext]_udpVars PROVE Passed'
    OBVIOUS
<1>n. MaxPort \in Nat /\ port \in Int /\ secret \subseteq Ports /\ Ports \subseteq Int
    BY UdpAssumption DEF Kept, UdpTypeOK, Ports
<1>s. ASSUME NEW p \in secret
      PROVE  Taken(p) /\ \A k \in Kinds : ~Shows(p, k)
    BY DEF Passed, Secret
<1>k. {"v4", "dual", "v6only"} = Kinds
    BY DEF Kinds
<1>0. sock' = sock => Secret' = Secret
    BY DEF Secret, Taken, Shows
<1>1. CASE ReadUdp
  <2>1. secret \intersect ports' = {}
    BY <1>1, <1>s, <1>k DEF ReadUdp
  <2> QED
    BY <1>0, <1>1, <2>1 DEF ReadUdp, Passed
<1>2. CASE ReadUdp6
  <2>1. secret \intersect ports' = {}
    BY <1>2, <1>s, <1>k DEF ReadUdp6, Passed
  <2>2. \A p \in secret : ~(p < port)
    BY <1>2 DEF ReadUdp6, Kept, UdpTypeOK, Ports
  <2> QED
    BY <1>0, <1>2, <2>1, <2>2 DEF ReadUdp6, Passed
<1>3. CASE SocketFails
  <2>1. port' = port + 1 /\ secret' = secret \ {port} /\ pc = "bind"
    BY <1>3 DEF SocketFails, NextPort
  <2>2. ASSUME NEW p \in secret', p < port' PROVE p \in printed'
    BY <1>3, <1>n, <2>1, <2>2 DEF SocketFails, Passed
  <2> QED
    BY <1>0, <1>3, <2>1, <2>2 DEF SocketFails, Passed
<1>4. CASE TryBind
  <2>1. port' = port + 1 /\ secret' = secret /\ pc = "bind" /\ printed \subseteq printed'
    BY <1>4 DEF TryBind, NextPort
  <2>2. ASSUME NEW p \in secret', p < port' PROVE p \in printed'
    <3>1. CASE p = port
      BY <1>4, <1>s, <2>1, <3>1 DEF TryBind, Passed
    <3>2. CASE p < port
      BY <2>1, <3>2 DEF Passed
    <3> QED
      BY <1>n, <2>1, <2>2, <3>1, <3>2
  <2> QED
    BY <1>0, <1>4, <2>1, <2>2 DEF TryBind, Passed
<1>5. CASE Finished \/ UNCHANGED udpVars
    BY <1>0, <1>5 DEF Finished, udpVars, Passed
<1>6. ASSUME NEW p \in Ports, NEW k \in Kinds, Change(p, k) PROVE Passed'
    BY <1>6 DEF Change, Passed
<1> QED
    BY <1>1, <1>2, <1>3, <1>4, <1>5, <1>6 DEF UdpNext

LEMMA UdpAlwaysIInv == UdpSpec => []UdpIInv
<1>1. UdpIInv /\ [UdpNext]_udpVars => UdpIInv'
    BY KeptStays, ShownStays, PassedStays DEF UdpIInv
<1> QED
    BY UdpInitIInv, <1>1, PTL DEF UdpSpec

-----------------------------------------------------------------------------
(* The loop of fhudp1 stays in the range of the ports, whatever opens and  *)
(* closes; its table and its output hold ports only.                       *)
THEOREM UdpTypeCorrect == UdpSpec => []UdpTypeOK
<1>1. UdpIInv => UdpTypeOK
    BY DEF UdpIInv, Kept
<1> QED
    BY UdpAlwaysIInv, <1>1, PTL

(* No port whose socket is listed during the whole run of fhudp1 is        *)
(* printed, however many others open and close between the two listings    *)
(* and the binds.                                                          *)
THEOREM QuietNotPrintedHolds == UdpSpec => []QuietNotPrinted
<1>1. UdpIInv => QuietNotPrinted
    BY DEF UdpIInv, Shown, QuietNotPrinted
<1> QED
    BY UdpAlwaysIInv, <1>1, PTL

(* Every port that a hidden socket holds during the whole run, with no     *)
(* listed socket beside it, is printed, unless socket() failed for it.     *)
THEOREM SecretPrintedHolds == UdpSpec => []SecretPrinted
<1>1. UdpIInv => SecretPrinted
  <2> SUFFICES ASSUME UdpIInv, pc = "done" PROVE secret \subseteq printed
    BY DEF SecretPrinted
  <2>1. port = MaxPort + 1 /\ secret \subseteq 1..MaxPort
    BY DEF UdpIInv, Kept, UdpTypeOK, Ports
  <2>2. \A p \in secret : p < port
    BY <2>1, UdpAssumption
  <2> QED
    BY <2>2 DEF UdpIInv, Passed
<1> QED
    BY UdpAlwaysIInv, <1>1, PTL

=============================================================================
