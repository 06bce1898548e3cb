------------------------------- MODULE ProcScan -------------------------------
(***************************************************************************)
(* The detection of hidden processes: src/src/sh-atrk.sh, find_hidden_ps,  *)
(* find_hidden_ps2, find_hidden_ps3 and findHiddenProcessMain, with the    *)
(* applets access, file and kill of src/src/atrk.c that probe one id after *)
(* the other.                                                              *)
(*                                                                         *)
(* Three methods run one after the other.  They differ in the system call  *)
(* that probes an id; each probes 2..bruteMPid, lists the processes and    *)
(* their threads, and probes again the ids it found and did not see        *)
(* listed.  Processes start, clone threads and exit between any two of     *)
(* these system calls, and ids are reused.                                 *)
(***************************************************************************)
EXTENDS Integers, FiniteSets

CONSTANTS
    MaxPid,     \* ids of this instance are 1..MaxPid
    Limits,     \* values of brutePsMaxPid (132000 unless set; 0: find_maxpid)
    Leaks       \* the methods whose probe the hiding code does not intercept

Methods == 1..3

ASSUME ProcAssumption ==
    /\ MaxPid \in Nat \ {0}
    /\ Limits \subseteq 0..MaxPid
    /\ Leaks \subseteq Methods

Pids == 1..MaxPid

VARIABLES
    pc,             \* where the script is
    m,              \* the method that runs
    brutePsMaxPid, bruteMPid,
    todo, out,      \* the running loop: ids still to visit, ids echoed
    psBrute, psNormal,
    psHidden,       \* what the last method printed
    pids,           \* what findHiddenProcessMain has collected
    tgid,           \* the tasks: thread group of an id, 0 if the id is free
    hidden,         \* thread groups that no directory listing of /proc shows
    hasTask,        \* the kernel has /proc/<pid>/task, that is, threads
    plain, cloaked  \* history: ids shown / hidden since the script started

script == <<pc, m, brutePsMaxPid, bruteMPid, todo, out, psBrute, psNormal,
            psHidden, pids>>
tasks == <<tgid, hidden, hasTask>>
vars == <<script, tasks, plain, cloaked>>

Alive == {p \in Pids : tgid[p] # 0}

Hidden == {p \in Alive : tgid[p] \in hidden}

(* What the listings show, and what the probe of a method finds.           *)
Shown == Alive \ Hidden

Probe(method) == IF method \in Leaks THEN Alive ELSE Shown

TypeOK ==
    /\ pc \in {"method", "globmax", "test1max", "brute", "glob", "test1", "tids",
               "recheck", "done"}
    /\ m \in 0..3
    /\ brutePsMaxPid \in 0..MaxPid /\ bruteMPid \in 0..MaxPid
    /\ {todo, out, psBrute, psNormal, psHidden, pids} \subseteq SUBSET Pids
    /\ tgid \in [Pids -> 0..MaxPid]
    /\ hidden \subseteq Pids
    /\ hasTask \in BOOLEAN
    /\ {plain, cloaked} \subseteq SUBSET Pids

Init ==
    /\ pc = "method" /\ m = 0
    /\ brutePsMaxPid \in Limits /\ bruteMPid = 0
    /\ todo = {} /\ out = {} /\ psBrute = {} /\ psNormal = {} /\ psHidden = {}
    /\ pids = {}
    /\ hasTask \in BOOLEAN
    /\ tgid \in {g \in [Pids -> 0..MaxPid] :
                   /\ g[1] = 1
                   /\ \A p \in Pids : g[p] = 0 \/ g[g[p]] = g[p]
                   /\ hasTask \/ \A p \in Pids : g[p] \in {0, p}}
    /\ hidden \in SUBSET {p \in Pids \ {1} : tgid[p] = p}
    /\ plain = Shown /\ cloaked = Hidden

-----------------------------------------------------------------------------
(* The script                                                              *)

(* A loop visits its ids in increasing order.                              *)
Visit(id, echoed) ==
    /\ id \in todo /\ \A q \in todo : id <= q
    /\ todo' = todo \ {id}
    /\ out' = out \union echoed
    /\ UNCHANGED <<pc, m, brutePsMaxPid, bruteMPid, psBrute, psNormal, psHidden, pids,
                   tasks, plain, cloaked>>

(* Mutant of StartBrute: the range ends one id early.                      *)
StartBruteShort(limit) ==
    /\ bruteMPid' = limit
    /\ pc' = "brute"
    /\ todo' = 2..(limit - 1) /\ out' = {} /\ psHidden' = {}
    /\ UNCHANGED <<brutePsMaxPid, psBrute, psNormal, pids, tasks, plain, cloaked>>

(* brute1_ps / brute2_ps / brute3_ps 2 "$bruteMPid": the round begins.     *)
StartBrute(limit) ==
    /\ bruteMPid' = limit
    /\ pc' = "brute"
    /\ todo' = 2..limit /\ out' = {} /\ psHidden' = {}
    /\ UNCHANGED <<brutePsMaxPid, psBrute, psNormal, pids, tasks, plain, cloaked>>

(* The next method: take the limit as it is set, or look for it.           *)
StartMethod ==
    /\ pc = "method" /\ m < 3
    /\ m' = m + 1
    /\ brutePsMaxPid # 0
    /\ StartBrute(brutePsMaxPid)

StartMaxPid ==
    /\ pc = "method" /\ m < 3
    /\ m' = m + 1
    /\ brutePsMaxPid = 0
    /\ pc' = "globmax"
    /\ UNCHANGED <<brutePsMaxPid, bruteMPid, todo, out, psBrute, psNormal, psHidden,
                   pids, tasks, plain, cloaked>>

(* pslist: the names in /proc, then test1_pids on each of them.            *)
Glob ==
    /\ pc \in {"globmax", "glob"}
    /\ pc' = IF pc = "glob" THEN "test1" ELSE "test1max"
    /\ todo' = {p \in Shown : tgid[p] = p} /\ out' = {}
    /\ UNCHANGED <<m, brutePsMaxPid, bruteMPid, psBrute, psNormal, psHidden, pids,
                   tasks, plain, cloaked>>

Test1(id) ==
    /\ pc \in {"test1", "test1max"}
    /\ Visit(id, {id} \intersect Probe(1))

(* find_maxpid: the largest id that is listed.                             *)
MaxPidFound ==
    /\ pc = "test1max" /\ todo = {}
    /\ UNCHANGED m
    /\ \E limit \in out \union {0} :
          /\ \A p \in out : p <= limit
          /\ StartBrute(limit)

(* applet_access, applet_file, applet_kill: probe one id.                  *)
Brute(id) ==
    /\ pc = "brute"
    /\ Visit(id, {id} \intersect Probe(m))

BruteDone ==
    /\ pc = "brute" /\ todo = {}
    /\ psBrute' = out
    /\ out' = {}
    /\ pc' = "glob"
    /\ UNCHANGED <<m, brutePsMaxPid, bruteMPid, todo, psNormal, psHidden, pids, tasks,
                   plain, cloaked>>

(* get_ptids once pslist has returned: list the threads of every process,  *)
(* or the processes alone if the kernel does not show threads.             *)
ListTids ==
    /\ pc = "test1" /\ todo = {} /\ hasTask
    /\ todo' = out /\ out' = {}
    /\ pc' = "tids"
    /\ UNCHANGED <<m, brutePsMaxPid, bruteMPid, psBrute, psNormal, psHidden, pids,
                   tasks, plain, cloaked>>

(* Mutant of Tids: the threads of a process are not listed.                *)
TidsLeaderOnly(id) ==
    /\ pc = "tids"
    /\ Visit(id, {id} \intersect Shown)

Tids(id) ==
    /\ pc = "tids"
    /\ Visit(id, {t \in Shown : tgid[t] = id})

(* Mutant of list_item_notin_2nd_list: the two lists are swapped.          *)
list_items_swapped(a, b) == b \ a

(* The lines of the first list that the second does not have.              *)
list_item_notin_2nd_list(a, b) == a \ b

(* psNormal is complete: what is found and not listed is probed again.     *)
ListDone ==
    /\ \/ pc = "test1" /\ ~hasTask
       \/ pc = "tids"
    /\ todo = {}
    /\ psNormal' = out
    /\ todo' = list_item_notin_2nd_list(psBrute, out) /\ out' = {}
    /\ pc' = "recheck"
    /\ UNCHANGED <<m, brutePsMaxPid, bruteMPid, psBrute, psHidden, pids, tasks, plain,
                   cloaked>>

(* test1_pids / test2_pids / test3_pids "$psSusp".                         *)
Recheck(id) ==
    /\ pc = "recheck"
    /\ Visit(id, {id} \intersect Probe(m))

RecheckDone ==
    /\ pc = "recheck" /\ todo = {}
    /\ psHidden' = out
    /\ pids' = pids \union out
    /\ pc' = IF m = 3 THEN "done" ELSE "method"
    /\ psBrute' = {} /\ psNormal' = {} /\ out' = {}
    /\ UNCHANGED <<m, brutePsMaxPid, bruteMPid, todo, tasks, plain, cloaked>>

Script ==
    \/ StartMethod \/ StartMaxPid \/ Glob \/ MaxPidFound \/ BruteDone \/ ListTids
    \/ ListDone \/ RecheckDone
    \/ \E id \in Pids : Test1(id) \/ Brute(id) \/ Tids(id) \/ Recheck(id)

-----------------------------------------------------------------------------
(* The system                                                              *)

Observe ==
    /\ pc # "done"
    /\ UNCHANGED script
    /\ plain' = plain \intersect Shown'
    /\ cloaked' = cloaked \intersect Hidden'

Fork(p) ==
    /\ tgid[p] = 0
    /\ tgid' = [tgid EXCEPT ![p] = p]
    /\ hidden' \in {hidden, hidden \union {p}}
    /\ UNCHANGED hasTask
    /\ Observe

Clone(p, leader) ==
    /\ hasTask
    /\ tgid[p] = 0 /\ tgid[leader] = leader
    /\ tgid' = [tgid EXCEPT ![p] = leader]
    /\ UNCHANGED <<hidden, hasTask>>
    /\ Observe

(* A thread exits, or a process with all its threads.                      *)
Exit(p) ==
    /\ p \in Alive \ {1}
    /\ tgid' = [q \in Pids |-> IF q = p \/ tgid[q] = p THEN 0 ELSE tgid[q]]
    /\ hidden' = hidden \ {p}
    /\ UNCHANGED hasTask
    /\ Observe

(* Hiding starts or stops.                                                 *)
Toggle(p) ==
    /\ p \in Alive \ {1} /\ tgid[p] = p
    /\ hidden' = IF p \in hidden THEN hidden \ {p} ELSE hidden \union {p}
    /\ UNCHANGED <<tgid, hasTask>>
    /\ Observe

System ==
    \E p \in Pids : \/ Fork(p) \/ Exit(p) \/ Toggle(p)
                    \/ \E leader \in Pids : Clone(p, leader)

(* The script has printed its verdict.                                     *)
Finished == pc = "done" /\ UNCHANGED vars

Next == Script \/ System \/ Finished

Spec == Init /\ [][Next]_vars

-----------------------------------------------------------------------------
(* A process or thread that is listed from the start of the script on is   *)
(* never accused, whatever starts and exits around it and although the     *)
(* scans are not atomic.                                                   *)
PlainNotAccused == pids \intersect plain = {}

(* The ids the scans cover for certain: up to the limit, or, when the      *)
(* limit is looked for, below a process (not a thread) that is listed all  *)
(* the time.                                                               *)
Covered ==
    {p \in Pids \ {1} : IF brutePsMaxPid = 0 THEN \E q \in plain : tgid[q] = q /\ p < q
                                                ELSE p <= brutePsMaxPid}

(* A process or thread that is hidden from the start of the script on is   *)
(* in the verdict, if one method's probe can see it and its id is covered. *)
CloakedFound == pc = "done" /\ Leaks # {} => cloaked \intersect Covered \subseteq pids

=============================================================================
