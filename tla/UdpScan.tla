------------------------------- MODULE UdpScan -------------------------------
(***************************************************************************)
(* The detection of hidden UDP ports: `atrk fhudp1`, src/src/atrk.c,       *)
(* get_udp_ports and applet_hiddenudp1.                                    *)
(*                                                                         *)
(* The applet reads /proc/net/udp and /proc/net/udp6 into one table of     *)
(* port numbers, and then tries to bind every port; a port that cannot be  *)
(* bound and is not in the table is printed.  There is no second look.     *)
(***************************************************************************)
EXTENDS Integers, FiniteSets

CONSTANT MaxPort     \* ports are 1..MaxPort (65535 in the code)

ASSUME UdpAssumption == MaxPort \in Nat \ {0}

Ports == 1..MaxPort

(* "v4": an IPv4 socket, in /proc/net/udp; "dual": an IPv6 socket that     *)
(* takes the IPv4 port too; "v6only": one that does not.  Both are in      *)
(* /proc/net/udp6.                                                         *)
Kinds == {"v4", "dual", "v6only"}

SockState == {"none", "shown", "hidden"}

VARIABLES
    pc,          \* "udp", "udp6", "bind", "done"
    port,        \* the loop over the ports
    ports,       \* the table: ports[p] is set
    printed,     \* standard output
    sock,        \* the sockets of a port: "none", "shown" or "hidden" per kind
    ipv6,        \* the kernel has IPv6, and so /proc/net/udp6
    quiet,       \* history: ports with one IPv4-taking socket shown since the start
    secret       \* history: ports taken by one hidden socket since the start, and
                 \* no other, for which socket() did not fail

udpVars == <<pc, port, ports, printed, sock, ipv6, quiet, secret>>

Shows(p, k) == sock[p][k] = "shown"

(* bind() to 0.0.0.0:p fails.                                              *)
Taken(p) == sock[p]["v4"] # "none" \/ sock[p]["dual"] # "none"

Quiet == {p \in Ports : Shows(p, "v4") \/ Shows(p, "dual")}

Secret == {p \in Ports : Taken(p) /\ \A k \in Kinds : ~Shows(p, k)}

UdpTypeOK ==
    /\ pc \in {"udp", "udp6", "bind", "done"}
    /\ port \in 1..(MaxPort + 1)
    /\ {ports, printed, quiet, secret} \subseteq SUBSET Ports
    /\ sock \in [Ports -> [Kinds -> SockState]]
    /\ ipv6 \in BOOLEAN

(* The IPv4 port has one owner, and IPv6 sockets need IPv6.                *)
Possible(sk, v6) ==
    \A p \in Ports :
        /\ sk[p]["v4"] = "none" \/ sk[p]["dual"] = "none"
        /\ sk[p]["dual"] = "none" \/ sk[p]["v6only"] = "none"
        /\ v6 \/ (sk[p]["dual"] = "none" /\ sk[p]["v6only"] = "none")

UdpInit ==
    /\ pc = "udp"
    /\ port = 1
    /\ ports = {} /\ printed = {}
    /\ ipv6 \in BOOLEAN
    /\ sock \in {sk \in [Ports -> [Kinds -> SockState]] : Possible(sk, ipv6)}
    /\ quiet = Quiet /\ secret = Secret

-----------------------------------------------------------------------------
(* get_udp_ports("/proc/net/udp", 4, ports)                                *)
ReadUdp ==
    /\ pc = "udp"
    /\ ports' = {p \in Ports : Shows(p, "v4")}
    /\ pc' = "udp6"
    /\ UNCHANGED <<port, printed, sock, ipv6, quiet, secret>>

(* Mutant of ReadUdp6: the second table replaces the first.                *)
ReadUdp6Only ==
    /\ pc = "udp6"
    /\ ports' = {p \in Ports : Shows(p, "dual") \/ Shows(p, "v6only")}
    /\ pc' = "bind"
    /\ UNCHANGED <<port, printed, sock, ipv6, quiet, secret>>

(* get_udp_ports("/proc/net/udp6", 6, ports); fopen fails without IPv6.    *)
ReadUdp6 ==
    /\ pc = "udp6"
    /\ ports' = IF ipv6
                THEN ports \union {p \in Ports : Shows(p, "dual") \/ Shows(p, "v6only")}
                ELSE ports
    /\ pc' = "bind"
    /\ UNCHANGED <<port, printed, sock, ipv6, quiet, secret>>

(* Mutant of NextPort: the last port is left out.                          *)
NextPortShort ==
    /\ port' = port + 1
    /\ pc' = IF port = MaxPort - 1 THEN "done" ELSE "bind"

(* One turn of the loop: socket() fails and the port is passed over, or    *)
(* bind() is tried and the socket closed.                                  *)
NextPort ==
    /\ port' = port + 1
    /\ pc' = IF port = MaxPort THEN "done" ELSE "bind"

SocketFails ==
    /\ pc = "bind"
    /\ NextPort
    /\ secret' = secret \ {port}
    /\ UNCHANGED <<ports, printed, sock, ipv6, quiet>>

TryBind ==
    /\ pc = "bind"
    /\ printed' = IF Taken(port) /\ port \notin ports THEN printed \union {port}
                                                      ELSE printed
    /\ NextPort
    /\ UNCHANGED <<ports, sock, ipv6, quiet, secret>>

(* Services open and close UDP sockets, hidden or not.                     *)
Change(p, k) ==
    /\ pc # "done"
    /\ sock' \in {sk \in {[sock EXCEPT ![p][k] = v] : v \in SockState} :
                     /\ (sk[p][k] = "none") # (sock[p][k] = "none")
                     /\ Possible(sk, ipv6)}
    /\ quiet' = {q \in quiet : \E l \in {"v4", "dual"} : Shows(q, l) /\ Shows(q, l)'}
    /\ secret' = secret \intersect Secret'
    /\ UNCHANGED <<pc, port, ports, printed, ipv6>>

Finished == pc = "done" /\ UNCHANGED udpVars

UdpNext ==
    \/ ReadUdp \/ ReadUdp6 \/ SocketFails \/ TryBind \/ Finished
    \/ \E p \in Ports, k \in Kinds : Change(p, k)

UdpSpec == UdpInit /\ [][UdpNext]_udpVars

-----------------------------------------------------------------------------
(* A port whose socket is listed from the start on is never printed,       *)
(* whichever of the two tables lists it.                                   *)
QuietNotPrinted == printed \intersect quiet = {}

(* A port that a hidden socket takes from the start on, with no listed     *)
(* socket of either family beside it, is printed.                          *)
SecretPrinted == pc = "done" => secret \subseteq printed

(* The listing is taken after the failed bind, so that a port is printed   *)
(* only if the system does not list it then.                               *)
PrintedNotListed ==
    [][\A p \in printed' \ printed : \A k \in Kinds : ~Shows(p, k)]_udpVars

=============================================================================
