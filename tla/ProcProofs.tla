------------------------------ MODULE ProcProofs ------------------------------
(***************************************************************************)
(* What the detection of hidden processes guarantees, for every number of  *)
(* ids and every set of probes that the hiding code does not intercept.    *)
(***************************************************************************)
EXTENDS ProcCross, TLAPS

(* Thread groups have leaders, and hidden or not goes by the group.        *)
Tasks ==
    /\ tgid \in [Pids -> 0..MaxPid]
    /\ \A p \in Pids : tgid[p] # 0 => tgid[p] \in Pids /\ tgid[tgid[p]] = tgid[p]
    /\ hasTask \/ \A p \in Pids : tgid[p] \in {0, p}

(* The leader of a thread that is shown throughout is, too.                *)
History ==
    /\ plain \subseteq Shown /\ \A p \in plain : tgid[p] \in plain
    /\ cloaked \subseteq Hidden

Typed ==
    /\ pc \in {"method", "globmax", "test1max", "brute", "glob", "test1", "tids",
               "recheck", "done"}
    /\ m \in 0..3
    /\ brutePsMaxPid \in 0..MaxPid /\ bruteMPid \in 0..MaxPid
    /\ todo \subseteq Pids /\ out \subseteq Pids /\ psBrute \subseteq Pids
    /\ pc \notin {"method"} => m >= 1
    /\ pc \in {"globmax", "test1max"} => brutePsMaxPid = 0
    /\ pc = "done" => m = 3

(* An id that is shown throughout is listed as soon as the listing has     *)
(* passed its leader.                                                      *)
Spared ==
    /\ pc \in {"test1", "test1max"} => \A p \in plain : tgid[p] = p => p \in todo \union out
    /\ pc = "tids" => \A p \in plain : tgid[p] \in todo \/ p \in out
    /\ pc = "recheck" => (todo \union out) \intersect plain = {}
    /\ pids \intersect plain = {}

Sought == cloaked \intersect Covered

(* An id that is hidden throughout goes through the stages of a method     *)
(* whose probe sees it, and stays in the verdict.                          *)
Caught ==
    /\ pc \in {"brute", "recheck"} /\ m \in Leaks => Sought \subseteq todo \union out
    /\ pc \in {"glob", "test1", "tids"} /\ m \in Leaks => Sought \subseteq psBrute
    /\ pc = "test1" => (todo \union out) \intersect cloaked = {}
    /\ pc = "tids" => out \intersect cloaked = {}
    /\ \A l \in Leaks : l < m \/ (l = m /\ pc \in {"method", "done"}) => Sought \subseteq pids

IInv == Tasks /\ History /\ Typed /\ Spared /\ Caught

-----------------------------------------------------------------------------
(* The system starts and ends tasks and does not turn one into another.    *)
LEMMA SystemSteps ==
    ASSUME Tasks, System
    PROVE  /\ Tasks'
           /\ \A p \in Pids : tgid[p] # 0 /\ tgid'[p] # 0 => tgid'[p] = tgid[p]
           /\ UNCHANGED script
           /\ plain' = plain \intersect Shown' /\ cloaked' = cloaked \intersect Hidden'
<1> USE ProcAssumption
<1>0. Pids \subseteq 0..MaxPid /\ 0 \in 0..MaxPid /\ 0 \notin Pids
    BY DEF Pids
<1>1. ASSUME NEW p \in Pids, Fork(p)
      PROVE  /\ Tasks' /\ Observe
             /\ \A q \in Pids : tgid[q] # 0 /\ tgid'[q] # 0 => tgid'[q] = tgid[q]
  <2>1. \A q \in Pids : tgid'[q] = IF q = p THEN p ELSE tgid[q]
    BY <1>1 DEF Fork, Tasks
  <2>2. tgid' \in [Pids -> 0..MaxPid] /\ hasTask' = hasTask /\ tgid[p] = 0 /\ Observe
    BY <1>0, <1>1 DEF Fork, Tasks
  <2>3. \A q \in Pids : tgid'[q] # 0 => tgid'[q] \in Pids /\ tgid'[tgid'[q]] = tgid'[q]
    BY <1>0, <2>1, <2>2 DEF Tasks
  <2> QED
    BY <2>1, <2>2, <2>3 DEF Tasks
<1>2. ASSUME NEW p \in Pids, NEW leader \in Pids, Clone(p, leader)
      PROVE  /\ Tasks' /\ Observe
             /\ \A q \in Pids : tgid[q] # 0 /\ tgid'[q] # 0 => tgid'[q] = tgid[q]
  <2>1. \A q \in Pids : tgid'[q] = IF q = p THEN leader ELSE tgid[q]
    BY <1>2 DEF Clone, Tasks
  <2>2. /\ tgid' \in [Pids -> 0..MaxPid] /\ hasTask' = hasTask /\ hasTask
        /\ tgid[p] = 0 /\ tgid[leader] = leader /\ Observe
    BY <1>0, <1>2 DEF Clone, Tasks
  <2>3. \A q \in Pids : tgid'[q] # 0 => tgid'[q] \in Pids /\ tgid'[tgid'[q]] = tgid'[q]
    BY <1>0, <2>1, <2>2 DEF Tasks
  <2> QED
    BY <2>1, <2>2, <2>3 DEF Tasks
<1>3. ASSUME NEW p \in Pids, Exit(p)
      PROVE  /\ Tasks' /\ Observe
             /\ \A q \in Pids : tgid[q] # 0 /\ tgid'[q] # 0 => tgid'[q] = tgid[q]
  <2>1. \A q \in Pids : tgid'[q] = IF q = p \/ tgid[q] = p THEN 0 ELSE tgid[q]
    BY <1>3 DEF Exit
  <2>2. tgid' \in [Pids -> 0..MaxPid] /\ hasTask' = hasTask /\ Observe
    BY <1>0, <1>3 DEF Exit, Tasks
  <2>3. \A q \in Pids : tgid'[q] # 0 => tgid'[q] \in Pids /\ tgid'[tgid'[q]] = tgid'[q]
    BY <2>1 DEF Tasks
  <2> QED
    BY <2>1, <2>2, <2>3 DEF Tasks
<1>4. ASSUME NEW p \in Pids, Toggle(p)
      PROVE  /\ Tasks' /\ Observe
             /\ \A q \in Pids : tgid[q] # 0 /\ tgid'[q] # 0 => tgid'[q] = tgid[q]
    BY <1>4 DEF Toggle, Tasks
<1> QED
    BY <1>1, <1>2, <1>3, <1>4 DEF System, Observe

LEMMA ScriptSteps == Script \/ Finished \/ UNCHANGED vars => UNCHANGED <<tasks, plain, cloaked>>
    BY DEF Script, StartMethod, StartMaxPid, StartBrute, Glob, MaxPidFound, BruteDone, ListTids,
           ListDone, RecheckDone, Test1, Brute, Tids, Recheck, Visit, Finished, vars

LEMMA WorldStays == Tasks /\ History /\ [Next]_vars => Tasks' /\ History'
<1> SUFFICES ASSUME Tasks, History, [Next]_vars PROVE Tasks' /\ History'
    OBVIOUS
<1>1. CASE System
  <2>1. /\ Tasks' /\ plain' = plain \intersect Shown' /\ cloaked' = cloaked \intersect Hidden'
        /\ \A p \in Pids : tgid[p] # 0 /\ tgid'[p] # 0 => tgid'[p] = tgid[p]
    BY <1>1, SystemSteps
  <2>2. ASSUME NEW p \in plain' PROVE tgid'[p] \in plain'
    <3>1. /\ p \in plain /\ p \in Pids /\ tgid[p] # 0 /\ tgid'[p] # 0
          /\ tgid'[p] \notin hidden'
      BY <2>1, <2>2 DEF History, Shown, Alive, Hidden
    <3>2. tgid'[p] = tgid[p] /\ tgid[p] \in plain /\ tgid[p] \in Pids
      BY <2>1, <3>1 DEF History, Tasks
    <3>3. tgid'[p] \in Shown'
      BY <2>1, <3>1, <3>2 DEF Tasks, Shown, Alive, Hidden
    <3> QED
      BY <2>1, <3>2, <3>3
  <2> QED
    BY <2>1, <2>2 DEF History
<1>2. CASE Script \/ Finished \/ UNCHANGED vars
    BY <1>2, ScriptSteps DEF tasks, Tasks, History, Shown, Hidden, Alive
<1> QED
    BY <1>1, <1>2 DEF Next

-----------------------------------------------------------------------------
LEMMA TypedStays == Tasks /\ Typed /\ [Next]_vars => Typed'
<1> SUFFICES ASSUME Tasks, Typed, [Next]_vars PROVE Typed'
    OBVIOUS
<1> USE ProcAssumption
<1>0. ASSUME NEW id \in Pids, NEW echoed, echoed \subseteq Pids, Visit(id, echoed) PROVE Typed'
    BY <1>0 DEF Visit, Typed
<1>1. CASE StartMethod
    BY <1>1 DEF StartMethod, StartBrute, Typed, Pids
<1>2. CASE StartMaxPid
    BY <1>2 DEF StartMaxPid, Typed
<1>3. CASE Glob
  <2>1. {p \in Shown : tgid[p] = p} \subseteq Pids
    BY DEF Shown, Alive
  <2> QED
    BY <1>3, <2>1 DEF Glob, Typed
<1>4. CASE MaxPidFound
  <2>1. PICK limit \in out \union {0} : StartBrute(limit) /\ m' = m /\ pc = "test1max"
    BY <1>4 DEF MaxPidFound
  <2>2. limit \in 0..MaxPid
    BY DEF Typed, Pids
  <2> QED
    BY <2>1, <2>2 DEF StartBrute, Typed, Pids
<1>5. CASE BruteDone
    BY <1>5 DEF BruteDone, Typed
<1>6. CASE ListTids
    BY <1>6 DEF ListTids, Typed
<1>7. CASE RecheckDone
    BY <1>7 DEF RecheckDone, Typed
<1>8. ASSUME NEW id \in Pids, Test1(id) \/ Brute(id) \/ Tids(id) \/ Recheck(id) PROVE Typed'
  <2>1. {id} \intersect Probe(1) \subseteq Pids /\ {id} \intersect Probe(m) \subseteq Pids
    OBVIOUS
  <2>2. {t \in Shown : tgid[t] = id} \subseteq Pids
    BY DEF Shown, Alive
  <2> QED
    BY <1>0, <1>8, <2>1, <2>2 DEF Test1, Brute, Tids, Recheck
<1>9. CASE System
    BY <1>9, SystemSteps DEF script, Typed
<1>10. CASE Finished \/ UNCHANGED vars
    BY <1>10 DEF Finished, vars, script, Typed
<1>11. CASE ListDone
    BY <1>11 DEF ListDone, list_item_notin_2nd_list, Typed
<1> QED
    BY <1>1, <1>2, <1>3, <1>4, <1>5, <1>6, <1>7, <1>8, <1>9, <1>10, <1>11 DEF Next, Script

(* A shown id is found by every probe, and its thread group's listing.     *)
LEMMA ShownProbed == ASSUME NEW l PROVE Shown \subseteq Probe(l)
    BY DEF Shown, Probe

LEMMA SparedStays == Tasks /\ History /\ Typed /\ Spared /\ [Next]_vars => Spared'
<1> SUFFICES ASSUME Tasks, History, Typed, Spared, [Next]_vars PROVE Spared'
    OBVIOUS
<1>p. plain \subseteq Shown /\ plain \subseteq Pids
    BY DEF History, Shown, Alive
<1>0. Script => UNCHANGED <<plain, tgid, hasTask>>
    BY ScriptSteps DEF tasks
<1>1. CASE StartMethod
    BY <1>0, <1>1 DEF StartMethod, StartBrute, Spared, Script
<1>2. CASE StartMaxPid
    BY <1>0, <1>2 DEF StartMaxPid, Spared, Script
<1>3. CASE Glob
    BY <1>0, <1>3, <1>p DEF Glob, Spared, Script
<1>4. CASE MaxPidFound
    BY <1>0, <1>4 DEF MaxPidFound, StartBrute, Spared, Script
<1>5. CASE BruteDone
    BY <1>0, <1>5 DEF BruteDone, Spared, Script
<1>6. CASE ListTids
  <2>1. \A p \in plain : tgid[p] \in plain /\ tgid[tgid[p]] = tgid[p]
    BY <1>p DEF History, Tasks, Shown, Alive
  <2>2. \A p \in plain : tgid[p] \in out
    BY <1>6, <2>1 DEF ListTids, Spared
  <2> QED
    BY <1>0, <1>6, <2>2 DEF ListTids, Spared, Script
<1>7. CASE ListDone
  <2>1. plain \subseteq out
    <3>1. CASE pc = "tids"
      BY <1>7, <3>1 DEF ListDone, Spared
    <3>2. CASE pc = "test1" /\ ~hasTask
      <4>1. \A p \in plain : tgid[p] = p
        BY <3>2, <1>p DEF Tasks, Shown, Alive
      <4> QED
        BY <1>7, <3>2, <4>1 DEF ListDone, Spared
    <3> QED
      BY <1>7, <3>1, <3>2 DEF ListDone
  <2> QED
    BY <1>0, <1>7, <2>1 DEF ListDone, list_item_notin_2nd_list, Spared, Script
<1>8. CASE RecheckDone
    BY <1>0, <1>8 DEF RecheckDone, Spared, Script
<1>9. ASSUME NEW id \in Pids, Test1(id) PROVE Spared'
    BY <1>0, <1>9, <1>p, ShownProbed DEF Test1, Visit, Spared, Script
<1>10. ASSUME NEW id \in Pids, Tids(id) PROVE Spared'
    BY <1>0, <1>10, <1>p DEF Tids, Visit, Spared, Script
<1>11. ASSUME NEW id \in Pids, Brute(id) \/ Recheck(id) PROVE Spared'
    BY <1>0, <1>11 DEF Brute, Recheck, Visit, Spared, Script
<1>12. CASE System
  <2>1. /\ UNCHANGED <<pc, todo, out, pids>> /\ plain' \subseteq plain
        /\ plain' \subseteq Shown'
        /\ \A p \in Pids : tgid[p] # 0 /\ tgid'[p] # 0 => tgid'[p] = tgid[p]
    BY <1>12, SystemSteps DEF script
  <2>2. \A p \in plain' : tgid'[p] = tgid[p]
    BY <1>p, <2>1 DEF Shown, Alive
  <2> QED
    BY <2>1, <2>2 DEF Spared
<1>13. CASE Finished \/ UNCHANGED vars
    BY <1>13 DEF Finished, vars, script, tasks, Spared
<1> QED
    BY <1>1, <1>2, <1>3, <1>4, <1>5, <1>6, <1>7, <1>8, <1>9, <1>10, <1>11, <1>12, <1>13
       DEF Next, Script

-----------------------------------------------------------------------------
LEMMA CaughtStays == Tasks /\ History /\ Typed /\ Spared /\ Caught /\ [Next]_vars => Caught'
<1> SUFFICES ASSUME Tasks, History, Typed, Spared, Caught, [Next]_vars PROVE Caught'
    OBVIOUS
<1> USE ProcAssumption
<1>c. cloaked \subseteq Alive /\ cloaked \intersect Shown = {} /\ Leaks \subseteq Int
    BY DEF History, Hidden, Shown, Methods
<1>0. Script => UNCHANGED <<plain, cloaked, tgid, hasTask>>
    BY ScriptSteps DEF tasks
<1>s. Script => Sought' = Sought
  <2>1. Script => brutePsMaxPid' = brutePsMaxPid
    BY DEF Script, StartMethod, StartMaxPid, StartBrute, Glob, MaxPidFound, BruteDone,
           ListTids, ListDone, RecheckDone, Test1, Brute, Tids, Recheck, Visit
  <2> QED
    BY <1>0, <2>1 DEF Sought, Covered
<1>m. ASSUME pc = "method", m' = m + 1, pids' = pids, Sought' = Sought, pc' # "method",
             pc' # "done"
      PROVE  \A l \in Leaks : l < m' \/ (l = m' /\ pc' \in {"method", "done"})
                                  => Sought' \subseteq pids'
    BY <1>m, <1>c DEF Caught, Typed
<1>1. CASE StartMethod
  <2>1. /\ pc = "method" /\ m' = m + 1 /\ pc' = "brute" /\ todo' = 2..brutePsMaxPid
        /\ pids' = pids /\ brutePsMaxPid # 0 /\ Sought' = Sought
    BY <1>1, <1>s DEF StartMethod, StartBrute, Script
  <2>2. Sought \subseteq 2..brutePsMaxPid
    BY <2>1 DEF Sought, Covered, Pids, Typed
  <2> QED
    BY <1>m, <2>1, <2>2 DEF Caught
<1>2. CASE StartMaxPid
  <2>1. pc = "method" /\ m' = m + 1 /\ pc' = "globmax" /\ pids' = pids /\ Sought' = Sought
    BY <1>2, <1>s DEF StartMaxPid, Script
  <2> QED
    BY <1>m, <2>1 DEF Caught
<1>3. CASE Glob
  <2>1. /\ pc' \in {"test1", "test1max"} /\ (pc' = "test1" => pc = "glob")
        /\ pc \in {"glob", "globmax"}
        /\ m' = m /\ psBrute' = psBrute /\ pids' = pids /\ cloaked' = cloaked
        /\ todo' \subseteq Shown /\ out' = {} /\ Sought' = Sought
    BY <1>0, <1>3, <1>s DEF Glob, Script
  <2> QED
    BY <1>c, <2>1 DEF Caught
<1>4. CASE MaxPidFound
  <2>1. PICK limit \in out \union {0} : (\A p \in out : p <= limit) /\ StartBrute(limit)
    BY <1>4 DEF MaxPidFound
  <2>2. pc = "test1max" /\ todo = {} /\ m' = m /\ Sought' = Sought
    BY <1>4, <1>s DEF MaxPidFound, Script
  <2>3. limit \in 0..MaxPid
    BY DEF Typed, Pids
  <2>4. Sought \subseteq 2..limit
    <3> SUFFICES ASSUME NEW p \in Sought PROVE p \in 2..limit
      OBVIOUS
    <3>1. PICK q \in plain : tgid[q] = q /\ p < q
      BY <2>2 DEF Sought, Covered, Typed
    <3>2. q \in out
      BY <2>2, <3>1 DEF Spared
    <3>3. q <= limit /\ q \in Int /\ p \in Int /\ p >= 1 /\ p # 1
      BY <2>1, <3>2 DEF Sought, Covered, Pids, Typed
    <3> QED
      BY <2>3, <3>1, <3>3
  <2>5. pc' = "brute" /\ todo' = 2..limit /\ pids' = pids
    BY <2>1 DEF StartBrute
  <2> QED
    BY <2>2, <2>4, <2>5 DEF Caught
<1>5. CASE BruteDone
    BY <1>5, <1>s DEF BruteDone, Script, Caught
<1>6. CASE ListTids
    BY <1>6, <1>s DEF ListTids, Script, Caught
<1>7. CASE ListDone
  <2>1. /\ pc' = "recheck" /\ m' = m /\ pids' = pids /\ todo' = psBrute \ out
        /\ pc \in {"test1", "tids"} /\ Sought' = Sought
    BY <1>7, <1>s DEF ListDone, list_item_notin_2nd_list, Script
  <2>2. out \intersect Sought = {}
    BY <2>1 DEF Caught, Sought
  <2> QED
    BY <2>1, <2>2 DEF Caught
<1>8. CASE RecheckDone
  <2>1. /\ pc = "recheck" /\ todo = {} /\ m' = m /\ pids' = pids \union out
        /\ pc' \in {"method", "done"} /\ Sought' = Sought
    BY <1>8, <1>s DEF RecheckDone, Script
  <2> QED
    BY <1>c, <2>1 DEF Caught, Typed
<1>9. ASSUME NEW id \in Pids, Test1(id) PROVE Caught'
    BY <1>0, <1>9, <1>s DEF Test1, Visit, Caught, Script
<1>10. ASSUME NEW id \in Pids, Tids(id) PROVE Caught'
    BY <1>0, <1>10, <1>c, <1>s DEF Tids, Visit, Caught, Script
<1>11. ASSUME NEW id \in Pids, Brute(id) \/ Recheck(id) PROVE Caught'
  <2>1. /\ m \in Leaks => Sought \subseteq Probe(m)
        /\ UNCHANGED <<pc, m, psBrute, pids>> /\ pc \in {"brute", "recheck"}
        /\ todo' = todo \ {id} /\ out' = out \union ({id} \intersect Probe(m))
        /\ Sought' = Sought
    BY <1>11, <1>c, <1>s DEF Brute, Recheck, Visit, Script, Probe, Sought
  <2> QED
    BY <2>1 DEF Caught
<1>12. CASE System
  <2>1. /\ UNCHANGED <<pc, m, todo, out, psBrute, pids, brutePsMaxPid>>
        /\ plain' \subseteq plain /\ plain' \subseteq Shown' /\ cloaked' \subseteq cloaked
        /\ \A p \in Pids : tgid[p] # 0 /\ tgid'[p] # 0 => tgid'[p] = tgid[p]
    BY <1>12, SystemSteps DEF script
  <2>2. \A p \in plain' : tgid'[p] = tgid[p]
    BY <2>1 DEF History, Shown, Alive
  <2>3. Sought' \subseteq Sought
    BY <2>1, <2>2 DEF Sought, Covered
  <2> QED
    BY <2>1, <2>3 DEF Caught
<1>13. CASE Finished \/ UNCHANGED vars
    BY <1>13 DEF Finished, vars, script, tasks, Caught, Sought, Covered
<1> QED
    BY <1>1, <1>2, <1>3, <1>4, <1>5, <1>6, <1>7, <1>8, <1>9, <1>10, <1>11, <1>12, <1>13
       DEF Next, Script

-----------------------------------------------------------------------------
LEMMA InitInv == Init => IInv
<1> SUFFICES ASSUME Init PROVE IInv
    OBVIOUS
<1> USE ProcAssumption
<1>1. Tasks
    BY DEF Init, Tasks, Pids
<1>2. History
  <2>1. \A p \in Shown : tgid[p] \in Shown
    BY <1>1 DEF Tasks, Shown, Alive, Hidden
  <2> QED
    BY <2>1 DEF Init, History
<1>3. Typed /\ Spared
    BY DEF Init, Typed, Spared
<1>4. Caught
    BY DEF Init, Caught, Methods
<1> QED
    BY <1>1, <1>2, <1>3, <1>4 DEF IInv

LEMMA SpecInv == Spec => []IInv
<1>1. IInv /\ [Next]_vars => IInv'
    BY WorldStays, TypedStays, SparedStays, CaughtStays DEF IInv
<1> QED
    BY InitInv, <1>1, PTL DEF Spec

(* No process or thread that /proc shows from the start of the script on   *)
(* is in the verdict of findHiddenProcessMain, for any number of ids and   *)
(* whatever forks, clones and exits between two probes.                    *)
THEOREM PlainNotAccusedHolds == Spec => []PlainNotAccused
<1>1. IInv => PlainNotAccused
    BY DEF IInv, Spared, PlainNotAccused
<1> QED
    BY SpecInv, <1>1, PTL

(* The lists that the loops do not touch, and the tasks' other attributes. *)
Collected ==
    /\ psNormal \subseteq Pids /\ psHidden \subseteq Pids /\ pids \subseteq Pids
    /\ hidden \subseteq Pids /\ hasTask \in BOOLEAN

LEMMA CollectedStays == Typed /\ Collected /\ [Next]_vars => Collected'
<1> SUFFICES ASSUME Typed, Collected, [Next]_vars PROVE Collected'
    OBVIOUS
<1>0. out \subseteq Pids
    BY DEF Typed
<1>1. CASE StartMethod \/ StartMaxPid \/ MaxPidFound
    BY <1>1 DEF StartMethod, StartMaxPid, MaxPidFound, StartBrute, tasks, Collected
<1>2. CASE Glob \/ BruteDone \/ ListTids
    BY <1>2 DEF Glob, BruteDone, ListTids, tasks, Collected
<1>3. CASE ListDone \/ RecheckDone
    BY <1>0, <1>3 DEF ListDone, RecheckDone, tasks, Collected
<1>4. CASE \E id \in Pids : Test1(id) \/ Brute(id) \/ Tids(id) \/ Recheck(id)
    BY <1>4 DEF Test1, Brute, Tids, Recheck, Visit, tasks, Collected
<1>5. CASE System
  <2>1. UNCHANGED <<psNormal, psHidden, pids, hasTask>>
    BY <1>5 DEF System, Fork, Clone, Exit, Toggle, Observe, script
  <2>2. hidden' \subseteq Pids
    BY <1>5 DEF System, Fork, Clone, Exit, Toggle, Collected
  <2> QED
    BY <2>1, <2>2 DEF Collected
<1>6. CASE Finished \/ UNCHANGED vars
    BY <1>6 DEF Finished, vars, script, tasks, Collected
<1> QED
    BY <1>1, <1>2, <1>3, <1>4, <1>5, <1>6 DEF Next, Script

(* Every list of the script holds ids of the system, for any number of ids *)
(* and any limit.                                                          *)
THEOREM TypeCorrect == Spec => []TypeOK
<1>1. Init => Collected
    BY DEF Init, Collected
<1>2. IInv /\ Collected /\ [Next]_vars => Collected'
    BY CollectedStays DEF IInv
<1>3. IInv /\ Collected => TypeOK
    BY DEF IInv, Tasks, History, Typed, Collected, TypeOK, Shown, Hidden, Alive
<1> QED
    BY SpecInv, <1>1, <1>2, <1>3, PTL DEF Spec

(* A process or thread that is hidden from the start of the script on, and *)
(* that the limit covers, is in the verdict if some probe sees it.         *)
THEOREM CloakedFoundHolds == Spec => []CloakedFound
<1>1. IInv => CloakedFound
  <2> SUFFICES ASSUME IInv, pc = "done", NEW l \in Leaks PROVE Sought \subseteq pids
    BY DEF CloakedFound, Sought
  <2>1. m = 3 /\ l \in 1..3
    BY ProcAssumption DEF IInv, Typed, Methods
  <2> QED
    BY <2>1 DEF IInv, Caught
<1> QED
    BY SpecInv, <1>1, PTL

-----------------------------------------------------------------------------
(* Every method is a round.  Window relates the running loop to the ids    *)
(* that its stage must and may find, Trace the round's history to the      *)
(* system.                                                                 *)
Window ==
    /\ Stage # "idle" => still \subseteq Target /\ Target \subseteq was /\ was \subseteq Pids
    /\ psBrute \subseteq 2..bruteMPid
    /\ Stage = "idle" => psBrute = {}
    /\ pc = "brute" => /\ out \subseteq was /\ still \subseteq todo \union out
                       /\ todo \union out \subseteq 2..bruteMPid
    /\ Stage = "list" => \A p \in still : tgid[p] \in still
    /\ pc = "test1" => /\ todo \union out \subseteq was
                       /\ \A p \in still : tgid[p] \in todo \union out
    /\ pc = "tids" => /\ out \subseteq was
                      /\ \A p \in still : tgid[p] \in todo \/ p \in out
    /\ pc = "recheck" => /\ out \subseteq was
                         /\ todo \union out \subseteq psBrute \ psNormal
                         /\ still \intersect (psBrute \ psNormal) \subseteq todo \union out

Trace == Stage # "idle" => openly \subseteq Shown /\ secretly \subseteq Present \ Shown

LEMMA PresentTyped == Present \subseteq Pids /\ Shown \subseteq Pids /\ Target \subseteq Pids
    BY DEF Present, Probe, Shown, Alive, Target

(* Present, Shown and the stage of the steps of a loop.                    *)
LEMMA SameView == UNCHANGED <<tasks, m, bruteMPid>> => Present' = Present /\ Shown' = Shown
    BY DEF tasks, Present, Probe, Shown, Hidden, Alive

LEMMA TraceStays == Trace /\ [NextH]_varsH => Trace'
<1> SUFFICES ASSUME Trace, [NextH]_varsH PROVE Trace'
    OBVIOUS
<1>1. CASE NextH
    BY <1>1 DEF NextH, Record, Trace
<1>2. CASE UNCHANGED varsH
    BY <1>2 DEF varsH, vars, script, tasks, history, Trace, Stage, Present, Probe, Shown,
                Hidden, Alive
<1> QED
    BY <1>1, <1>2

(* The leader of a shown task is shown.                                    *)
LEMMA LeaderShown == ASSUME Tasks, NEW p \in Shown
                     PROVE  tgid[p] \in Shown /\ tgid[tgid[p]] = tgid[p]
    BY DEF Tasks, Shown, Alive, Hidden

LEMMA WindowStays == Tasks /\ Typed /\ Window /\ [NextH]_varsH => Window'
<1> SUFFICES ASSUME Tasks, Typed, Window, [NextH]_varsH PROVE Window'
    OBVIOUS
<1>w. ASSUME NextH, Stage' # "idle"
      PROVE  still' \subseteq Target' /\ Target' \subseteq was' /\ was' \subseteq Pids
  <2>1. Target' \subseteq Pids
    BY PresentTyped DEF Present, Probe, Shown, Alive, Target, Pids
  <2> QED
    BY <1>w, <2>1 DEF NextH, Record, Window
<1>v. ASSUME NextH, UNCHANGED <<tasks, m, bruteMPid>>, Stage' = Stage, Stage # "idle"
      PROVE  was' = was /\ still' = still /\ Target' = Target
  <2>1. Target' = Target
    BY <1>v, SameView DEF Target
  <2> QED
    BY <1>v, <2>1 DEF NextH, Record, Window
<1>1. ASSUME NextH, NEW limit \in 0..MaxPid, StartBrute(limit), m' \in 1..3, Stage = "idle"
      PROVE  Window'
  <2>1. pc' = "brute" /\ todo' = 2..limit /\ bruteMPid' = limit /\ out' = {} /\ psBrute' = {}
    BY <1>1 DEF StartBrute, Window
  <2>2. Stage' = "brute" /\ Target' = Present' /\ Present' \subseteq 2..limit
    BY <2>1 DEF Stage, Target, Present
  <2>3. still' \subseteq Target' /\ Target' \subseteq was' /\ was' \subseteq Pids
    BY <1>1, <1>w, <2>2
  <2> QED
    BY <2>1, <2>2, <2>3 DEF Window
<1>2. CASE NextH /\ StartMethod
    BY <1>1, <1>2 DEF StartMethod, Stage, Typed
<1>3. CASE NextH /\ MaxPidFound
  <2>1. PICK limit \in out \union {0} : StartBrute(limit)
    BY <1>3 DEF MaxPidFound
  <2>2. limit \in 0..MaxPid /\ m' \in 1..3 /\ Stage = "idle"
    BY <1>3, ProcAssumption DEF MaxPidFound, Typed, Pids, Stage
  <2> QED
    BY <1>1, <1>3, <2>1, <2>2
<1>4. CASE NextH /\ StartMaxPid
  <2>1. /\ pc = "method" /\ pc' = "globmax" /\ psBrute' = psBrute /\ bruteMPid' = bruteMPid
        /\ Stage = "idle" /\ Stage' = "idle"
    BY <1>4 DEF StartMaxPid, Stage
  <2> QED
    BY <2>1 DEF Window
<1>5. CASE NextH /\ Glob
  <2>1. UNCHANGED <<tasks, m, bruteMPid, psBrute>> /\ tgid' = tgid /\ Stage' = Stage
    BY <1>5 DEF Glob, Stage, tasks
  <2>2. CASE pc = "globmax"
    <3>1. pc' = "test1max" /\ Stage' = "idle" /\ Stage = "idle"
      BY <1>5, <2>2 DEF Glob, Stage
    <3> QED
      BY <2>1, <3>1 DEF Window
  <2>3. CASE pc = "glob"
    <3>1. /\ pc' = "test1" /\ Stage = "list" /\ todo' = {p \in Shown : tgid[p] = p} /\ out' = {}
          /\ Target = Shown
      BY <1>5, <2>3 DEF Glob, Stage, Target
    <3>2. was' = was /\ still' = still /\ Target' = Target
      BY <1>5, <1>v, <2>1, <3>1
    <3>3. \A p \in still : tgid[p] \in todo'
      BY <3>1, LeaderShown DEF Window
    <3> QED
      BY <2>1, <3>1, <3>2, <3>3 DEF Window
  <2> QED
    BY <1>5, <2>2, <2>3 DEF Glob
<1>6. CASE NextH /\ BruteDone
  <2>1. /\ pc = "brute" /\ pc' = "glob" /\ psBrute' = out /\ bruteMPid' = bruteMPid /\ todo = {}
        /\ Stage' = "list" /\ Stage = "brute" /\ UNCHANGED <<tasks, m, bruteMPid>> /\ tgid' = tgid
    BY <1>6 DEF BruteDone, Stage, tasks
  <2>2. Target' = Shown' /\ Shown' = Shown /\ still' = Shown
    BY <1>6, <2>1, SameView DEF Target, NextH, Record
  <2>3. still' \subseteq Target' /\ Target' \subseteq was' /\ was' \subseteq Pids
    BY <1>6, <1>w, <2>1
  <2>4. \A p \in still' : tgid'[p] \in still'
    BY <2>1, <2>2, LeaderShown
  <2> QED
    BY <2>1, <2>3, <2>4 DEF Window
<1>7. CASE NextH /\ ListTids
  <2>1. /\ pc = "test1" /\ pc' = "tids" /\ todo = {} /\ todo' = out /\ out' = {}
        /\ Stage' = Stage /\ Stage = "list"
        /\ UNCHANGED <<tasks, m, bruteMPid, psBrute>> /\ tgid' = tgid
    BY <1>7 DEF ListTids, Stage, tasks
  <2>2. was' = was /\ still' = still /\ Target' = Target
    BY <1>7, <1>v, <2>1
  <2> QED
    BY <2>1, <2>2 DEF Window
<1>8. CASE NextH /\ ListDone
  <2>1. /\ pc' = "recheck" /\ psNormal' = out /\ todo' = psBrute \ out /\ out' = {}
        /\ psBrute' = psBrute /\ bruteMPid' = bruteMPid /\ Stage' = "recheck"
    BY <1>8 DEF ListDone, list_item_notin_2nd_list, Stage
  <2>2. still' \subseteq Target' /\ Target' \subseteq was' /\ was' \subseteq Pids
    BY <1>8, <1>w, <2>1
  <2> QED
    BY <2>1, <2>2 DEF Window
<1>9. CASE NextH /\ RecheckDone
  <2>1. pc' \in {"method", "done"} /\ psBrute' = {} /\ Stage' = "idle"
    BY <1>9 DEF RecheckDone, Stage
  <2> QED
    BY <2>1 DEF Window
<1>10. ASSUME NextH, NEW id \in Pids, NEW echoed, Visit(id, echoed)
       PROVE  /\ UNCHANGED <<pc, psBrute, psNormal, bruteMPid>> /\ tgid' = tgid /\ Stage' = Stage
              /\ id \in todo /\ todo' = todo \ {id} /\ out' = out \union echoed
              /\ Stage # "idle" => was' = was /\ still' = still /\ Target' = Target
  <2>1. UNCHANGED <<tasks, m, bruteMPid>> /\ Stage' = Stage
    BY <1>10 DEF Visit, Stage
  <2> QED
    BY <1>10, <1>v, <2>1 DEF Visit, tasks
<1>11. ASSUME NextH, NEW id \in Pids, Brute(id) PROVE Window'
  <2>1. pc = "brute" /\ Stage = "brute" /\ Target = Present /\ Visit(id, {id} \intersect Probe(m))
    BY <1>11 DEF Brute, Stage, Target
  <2>2. id \in Probe(m) /\ id \in todo => id \in Target
    BY <2>1 DEF Present, Window
  <2>3. Target \subseteq Probe(m)
    BY <2>1 DEF Present
  <2>4. /\ UNCHANGED <<pc, psBrute, psNormal, bruteMPid>> /\ Stage' = Stage
        /\ id \in todo /\ todo' = todo \ {id} /\ out' = out \union ({id} \intersect Probe(m))
        /\ was' = was /\ still' = still /\ Target' = Target
    BY <1>10, <1>11, <2>1
  <2>5. still \subseteq Target /\ Target \subseteq was /\ was \subseteq Pids
    BY <2>1 DEF Window
  <2>6. out \subseteq was /\ still \subseteq todo \union out /\ todo \union out \subseteq 2..bruteMPid
    BY <2>1 DEF Window
  <2>7. out' \subseteq was' /\ still' \subseteq todo' \union out'
    BY <2>2, <2>3, <2>4, <2>5, <2>6
  <2>8. todo' \union out' \subseteq todo \union out
    BY <2>4
  <2> QED
    BY <2>1, <2>4, <2>5, <2>6, <2>7, <2>8 DEF Window
<1>12. ASSUME NextH, NEW id \in Pids, Test1(id) PROVE Window'
  <2>1. Visit(id, {id} \intersect Probe(1)) /\ pc \in {"test1", "test1max"}
    BY <1>12 DEF Test1
  <2>2. CASE pc = "test1max"
    <3>1. Stage = "idle"
      BY <2>2 DEF Stage
    <3> QED
      BY <1>10, <1>12, <2>1, <2>2, <3>1, Zenon DEF Window
  <2>3. CASE pc = "test1"
    <3>1. Stage = "list" /\ Target = Shown /\ Shown \subseteq Probe(1)
      BY <2>3, ShownProbed DEF Stage, Target
    <3>2. /\ UNCHANGED <<pc, psBrute, psNormal, bruteMPid>> /\ tgid' = tgid /\ Stage' = Stage
          /\ id \in todo /\ todo' = todo \ {id} /\ out' = out \union ({id} \intersect Probe(1))
          /\ was' = was /\ still' = still /\ Target' = Target
      BY <1>10, <1>12, <2>1, <3>1
    <3>3. /\ still \subseteq Target /\ Target \subseteq was /\ was \subseteq Pids
          /\ \A p \in still : tgid[p] \in still
      BY <3>1 DEF Window
    <3>4. todo \union out \subseteq was /\ \A p \in still : tgid[p] \in todo \union out
      BY <2>3 DEF Window
    <3>5. todo' \union out' \subseteq was'
      BY <3>2, <3>4
    <3>6. ASSUME NEW p \in still PROVE tgid[p] \in todo' \union out'
      <4>1. tgid[p] \in Probe(1) /\ tgid[p] \in todo \union out
        BY <3>1, <3>3, <3>4
      <4> QED
        BY <3>2, <4>1
    <3>7. psBrute \subseteq 2..bruteMPid
      BY DEF Window
    <3> QED
      BY <2>3, <3>1, <3>2, <3>3, <3>5, <3>6, <3>7 DEF Window
  <2> QED
    BY <2>1, <2>2, <2>3
<1>13. ASSUME NextH, NEW id \in Pids, Tids(id) PROVE Window'
  <2>1. /\ pc = "tids" /\ Stage = "list" /\ Target = Shown
        /\ Visit(id, {t \in Shown : tgid[t] = id})
    BY <1>13 DEF Tids, Stage, Target
  <2>2. /\ UNCHANGED <<pc, psBrute, psNormal, bruteMPid>> /\ tgid' = tgid /\ Stage' = Stage
        /\ todo' = todo \ {id} /\ out' = out \union {t \in Shown : tgid[t] = id}
        /\ was' = was /\ still' = still /\ Target' = Target
    BY <1>10, <1>13, <2>1
  <2>3. /\ still \subseteq Target /\ Target \subseteq was /\ was \subseteq Pids
        /\ \A p \in still : tgid[p] \in still
        /\ psBrute \subseteq 2..bruteMPid
    BY <2>1 DEF Window
  <2>4. out \subseteq was /\ \A p \in still : tgid[p] \in todo \/ p \in out
    BY <2>1 DEF Window
  <2>5. out' \subseteq was'
    BY <2>1, <2>2, <2>3, <2>4
  <2>6. ASSUME NEW p \in still PROVE tgid[p] \in todo' \/ p \in out'
    <3>1. p \in Shown /\ (tgid[p] \in todo \/ p \in out)
      BY <2>1, <2>3, <2>4
    <3> QED
      BY <2>2, <3>1
  <2> QED
    BY <2>1, <2>2, <2>3, <2>5, <2>6 DEF Window
<1>14. ASSUME NextH, NEW id \in Pids, Recheck(id) PROVE Window'
  <2>1. /\ pc = "recheck" /\ Stage = "recheck" /\ Target = Present
        /\ Visit(id, {id} \intersect Probe(m))
    BY <1>14 DEF Recheck, Stage, Target
  <2>2. id \in Probe(m) /\ id \in todo => id \in Target
    BY <2>1, Zenon DEF Present, Window
  <2>3. Target \subseteq Probe(m)
    BY <2>1 DEF Present
  <2>4. /\ UNCHANGED <<pc, psBrute, psNormal, bruteMPid>> /\ Stage' = Stage
        /\ id \in todo /\ todo' = todo \ {id} /\ out' = out \union ({id} \intersect Probe(m))
        /\ was' = was /\ still' = still /\ Target' = Target
    BY <1>10, <1>14, <2>1
  <2>5. /\ still \subseteq Target /\ Target \subseteq was /\ was \subseteq Pids
        /\ psBrute \subseteq 2..bruteMPid
    BY <2>1 DEF Window
  <2>6. /\ out \subseteq was /\ todo \union out \subseteq psBrute \ psNormal
        /\ still \intersect (psBrute \ psNormal) \subseteq todo \union out
    BY <2>1 DEF Window
  <2>7. /\ out' \subseteq was' /\ todo' \union out' \subseteq todo \union out
        /\ still' \intersect (psBrute' \ psNormal') \subseteq todo' \union out'
    BY <2>2, <2>3, <2>4, <2>5, <2>6
  <2> QED
    BY <2>1, <2>4, <2>5, <2>6, <2>7 DEF Window
<1>15. CASE NextH /\ System
  <2>1. /\ UNCHANGED <<pc, todo, out, psBrute, psNormal, bruteMPid>> /\ Tasks'
        /\ \A p \in Pids : tgid[p] # 0 /\ tgid'[p] # 0 => tgid'[p] = tgid[p]
    BY <1>15, SystemSteps DEF script
  <2>2. Stage' = Stage
    BY <2>1 DEF Stage
  <2>3. CASE Stage = "idle"
    <3>1. pc \notin {"brute", "glob", "test1", "tids", "recheck"}
      BY <2>3 DEF Stage
    <3> QED
      BY <2>1, <2>2, <2>3, <3>1 DEF Window
  <2>4. CASE Stage # "idle"
    <3>1. still' = still \intersect Target' /\ was \subseteq was'
      BY <1>15, <2>2, <2>4 DEF NextH, Record
    <3>2. still' \subseteq Target' /\ Target' \subseteq was' /\ was' \subseteq Pids
      BY <1>15, <1>w, <2>2, <2>4
    <3>3. ASSUME Stage = "list", NEW p \in still' PROVE tgid'[p] = tgid[p] /\ tgid'[p] \in still'
      <4>1. Target = Shown /\ Target' = Shown'
        BY <2>2, <3>3 DEF Target
      <4>2. p \in still /\ p \in Shown /\ p \in Shown' /\ p \in Pids
        BY <3>1, <3>3, <4>1, <2>4 DEF Window, Shown, Alive
      <4>3. tgid'[p] = tgid[p]
        BY <2>1, <4>2 DEF Shown, Alive
      <4>4. tgid[p] \in still
        BY <3>3, <4>2 DEF Window
      <4>5. tgid'[p] \in Shown'
        BY <2>1, <4>2 DEF Tasks, Shown, Alive, Hidden
      <4> QED
        BY <3>1, <4>1, <4>3, <4>4, <4>5
    <3>4. pc \in {"test1", "tids"} => Stage = "list"
      BY DEF Stage
    <3>5. still' \subseteq still
      BY <3>1
    <3> QED
      BY <2>1, <2>2, <2>4, <3>1, <3>2, <3>3, <3>4, <3>5 DEF Window
  <2> QED
    BY <2>3, <2>4
<1>16. CASE NextH /\ Finished
  <2>1. pc = "done" /\ pc' = "done" /\ psBrute' = psBrute /\ bruteMPid' = bruteMPid
    BY <1>16 DEF Finished, vars, script
  <2> QED
    BY <2>1 DEF Window, Stage
<1>17. CASE UNCHANGED varsH
    BY <1>17 DEF varsH, vars, script, tasks, history, Window, Stage, Target, Present, Probe,
                 Shown, Hidden, Alive
<1> QED
    BY <1>2, <1>3, <1>4, <1>5, <1>6, <1>7, <1>8, <1>9, <1>11, <1>12, <1>13, <1>14, <1>15,
       <1>16, <1>17 DEF NextH, Next, Script

-----------------------------------------------------------------------------
(* A step of the script or of the processes is a step of the round, or     *)
(* leaves it alone.                                                        *)

(* A step in which the stage does not change is one of World.              *)
LEMMA StageGoesOn ==
    ASSUME NextH, Stage' = Stage, psBrute' = psBrute, psNormal' = psNormal,
           psHidden' = psHidden
    PROVE  Round!World
<1>1. Present' \in SUBSET Pids /\ Shown' \in SUBSET Pids
    BY DEF Present, Probe, Shown, Alive, Pids
<1>2. Stage = "idle" => /\ was' = was /\ still' = still
                        /\ openly' = openly /\ secretly' = secretly
    BY DEF NextH, Record, history
<1>3. Stage # "idle" =>
         /\ was' = was \union Round!Target(Stage, Present', Shown')
         /\ still' = still \intersect Round!Target(Stage, Present', Shown')
         /\ openly' = openly \intersect Shown'
         /\ secretly' = secretly \intersect (Present' \ Shown')
    BY DEF NextH, Record, Target, Round!Target
<1> QED
    BY <1>1, <1>2, <1>3 DEF Round!World

(* The probing begins.                                                     *)
LEMMA RoundBegins ==
    ASSUME NextH, Stage = "idle", NEW limit, StartBrute(limit)
    PROVE  Round!Begin
<1>1. /\ pc' = "brute" /\ psHidden' = {} /\ psBrute' = psBrute /\ psNormal' = psNormal
      /\ tgid' = tgid /\ hidden' = hidden
    BY DEF StartBrute, tasks
<1>2. Stage' = "brute" /\ Target' = Present' /\ Shown' = Shown
    BY <1>1 DEF Stage, Target, Shown, Hidden, Alive
<1>3. Present' \in SUBSET Pids
    BY DEF Present, Probe, Shown, Alive, Pids
<1>4. /\ was' = Target' /\ still' = Target'
      /\ openly' = Shown' /\ secretly' = Present' \ Shown'
    BY <1>2 DEF NextH, Record
<1> QED
    BY <1>1, <1>2, <1>3, <1>4 DEF Round!Begin, Round!OpenWindow, Round!Target

(* Between two stages the window opens anew, and what the round has seen   *)
(* all the time stays.                                                     *)
LEMMA StageEnds ==
    ASSUME NextH, Trace, UNCHANGED <<tasks, m, bruteMPid>>, Stage # "idle", Stage' # "idle",
           Stage' # Stage
    PROVE  /\ Present' = Present /\ Shown' = Shown
           /\ was' = Target' /\ still' = was' /\ openly' = openly /\ secretly' = secretly
<1>1. Present' = Present /\ Shown' = Shown
    BY SameView
<1> QED
    BY <1>1 DEF NextH, Record, Trace

LEMMA RoundStep ==
    Tasks /\ Typed /\ Window /\ Trace /\ [NextH]_varsH => [Round!Next]_(Round!vars)
<1> SUFFICES ASSUME Tasks, Typed, Window, Trace, [NextH]_varsH
             PROVE  Round!Next \/ UNCHANGED Round!vars
    OBVIOUS
<1>1. CASE NextH /\ StartMethod
    BY <1>1, RoundBegins DEF StartMethod, Stage, Round!Next
<1>2. CASE NextH /\ MaxPidFound
  <2>1. PICK limit : StartBrute(limit)
    BY <1>2 DEF MaxPidFound
  <2> QED
    BY <1>2, <2>1, RoundBegins DEF MaxPidFound, Stage, Round!Next
<1>3. CASE NextH /\ StartMaxPid
    BY <1>3, StageGoesOn DEF StartMaxPid, Stage, Round!Next
<1>4. CASE NextH /\ Glob
    BY <1>4, StageGoesOn DEF Glob, Stage, Round!Next
<1>5. CASE NextH /\ ListTids
    BY <1>5, StageGoesOn DEF ListTids, Stage, Round!Next
<1>6. CASE NextH /\ \E id \in Pids : Test1(id) \/ Brute(id) \/ Tids(id) \/ Recheck(id)
  <2>1. PICK id, echoed : Visit(id, echoed)
    BY <1>6 DEF Test1, Brute, Tids, Recheck
  <2> QED
    BY <1>6, <2>1, StageGoesOn DEF Visit, Stage, Round!Next
<1>7. CASE NextH /\ System
  <2>1. UNCHANGED script
    BY <1>7 DEF System, Fork, Exit, Toggle, Clone, Observe
  <2> QED
    BY <1>7, <2>1, StageGoesOn DEF script, Stage, Round!Next
<1>8. CASE NextH /\ BruteDone
  <2>1. /\ pc = "brute" /\ pc' = "glob" /\ todo = {} /\ psBrute' = out
        /\ psNormal' = psNormal /\ psHidden' = psHidden /\ UNCHANGED <<tasks, m, bruteMPid>>
    BY <1>8 DEF BruteDone
  <2>2. Stage = "brute" /\ Stage' = "list" /\ Target' = Shown'
    BY <2>1 DEF Stage, Target
  <2>3. out \in SUBSET Pids /\ Round!InWindow(out)
    BY <2>1, <2>2 DEF Typed, Window, Round!InWindow
  <2>4. /\ Present' = Present /\ Shown' = Shown
        /\ was' = Target' /\ still' = was' /\ openly' = openly /\ secretly' = secretly
    BY <1>8, <2>1, <2>2, StageEnds
  <2>5. Round!EndBrute
    BY <2>1, <2>2, <2>3, <2>4 DEF Round!EndBrute, Round!OpenWindow, Round!Target, Round!world
  <2> QED
    BY <2>5 DEF Round!Next
<1>9. CASE NextH /\ ListDone
  <2>1. /\ pc \in {"test1", "tids"} /\ pc' = "recheck" /\ todo = {} /\ psNormal' = out
        /\ psBrute' = psBrute /\ psHidden' = psHidden /\ UNCHANGED <<tasks, m, bruteMPid>>
        /\ pc = "test1" => ~hasTask
    BY <1>9 DEF ListDone
  <2>2. Stage = "list" /\ Stage' = "recheck" /\ Target' = Present'
    BY <2>1 DEF Stage, Target
  <2>3. still \subseteq out
    <3>1. CASE pc = "tids"
      BY <2>1, <3>1 DEF Window
    <3>2. CASE pc = "test1"
      <4>1. \A p \in still : tgid[p] \in out /\ p \in Shown
        BY <2>1, <2>2, <3>2 DEF Window, Target
      <4>2. \A p \in Shown : tgid[p] = p
        BY <2>1, <3>2 DEF Typed, Tasks, Shown, Alive
      <4> QED
        BY <4>1, <4>2
    <3> QED
      BY <2>1, <3>1, <3>2
  <2>4. out \in SUBSET Pids /\ Round!InWindow(out)
    BY <2>1, <2>2, <2>3 DEF Typed, Window, Round!InWindow
  <2>5. /\ Present' = Present /\ Shown' = Shown
        /\ was' = Target' /\ still' = was' /\ openly' = openly /\ secretly' = secretly
    BY <1>9, <2>1, <2>2, StageEnds
  <2>6. Round!EndList
    BY <2>1, <2>2, <2>4, <2>5 DEF Round!EndList, Round!OpenWindow, Round!Target, Round!world
  <2> QED
    BY <2>6 DEF Round!Next
<1>10. CASE NextH /\ RecheckDone
  <2>1. /\ pc = "recheck" /\ pc' \in {"method", "done"} /\ todo = {} /\ psHidden' = out
        /\ psBrute' = {} /\ psNormal' = {} /\ UNCHANGED <<tasks, m, bruteMPid>>
    BY <1>10 DEF RecheckDone
  <2>2. Stage = "recheck" /\ Stage' = "idle"
    BY <2>1 DEF Stage
  <2>3. Present' = Present /\ Shown' = Shown
    BY <2>1, SameView
  <2>4. UNCHANGED history
    BY <1>10, <2>2 DEF NextH, Record
  <2> DEFINE S == out \union still
  <2>5. S \in SUBSET Pids /\ Round!InWindow(S)
    BY <2>1, <2>2 DEF Window, Round!InWindow
  <2>6. out = S \intersect (psBrute \ psNormal)
    BY <2>1 DEF Window
  <2>7. Round!EndRecheck
    BY <2>1, <2>2, <2>3, <2>4, <2>5, <2>6
       DEF Round!EndRecheck, Round!Suspects, Round!world, history
  <2> QED
    BY <2>7 DEF Round!Next
<1>11. CASE NextH /\ Finished
    BY <1>11, StageGoesOn DEF Finished, vars, script, Stage, Round!Next
<1>12. CASE UNCHANGED varsH
    BY <1>12 DEF varsH, vars, script, tasks, history, Round!vars, Round!world, Stage, Present,
                 Probe, Shown, Hidden, Alive
<1> QED
    BY <1>1, <1>2, <1>3, <1>4, <1>5, <1>6, <1>7, <1>8, <1>9, <1>10, <1>11, <1>12
       DEF NextH, Next, Script

(* Each of the three methods behaves as one round of CrossView: every step *)
(* of the script and of the processes maps to a step of the round, so what *)
(* RoundProofs shows of a round (no false alarm, what is hidden is         *)
(* reported) holds of each method, for any number of ids.                  *)
THEOREM MethodsAreRoundsHolds == SpecH => MethodsAreRounds
<1>1. InitH => Init /\ Window /\ Trace
    BY DEF InitH, Init, Window, Trace, Stage
<1>2. InitH => Round!Init
  <2>1. Present \in SUBSET Pids /\ Shown \in SUBSET Pids
    BY PresentTyped
  <2> QED
    BY <2>1 DEF InitH, Init, Stage, Round!Init
<1>3. [NextH]_varsH => [Next]_vars
    BY DEF NextH, varsH
<1>4. SpecH => Spec
    BY <1>1, <1>3, PTL DEF SpecH, Spec
<1>5. IInv => Tasks /\ Typed
    BY DEF IInv
<1> QED
    BY <1>1, <1>2, <1>4, <1>5, SpecInv, WindowStays, TraceStays, RoundStep, PTL
       DEF SpecH, MethodsAreRounds, Round!Spec

=============================================================================
