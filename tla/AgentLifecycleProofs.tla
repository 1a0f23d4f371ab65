------------------------ MODULE AgentLifecycleProofs ------------------------
(***************************************************************************)
(* Proofs about AgentLifecycle, for any number of restarts.                *)
(***************************************************************************)
EXTENDS AgentLifecycle, Integers, TLAPS

\* Why there is one agent: whatever runs is self.proc, nothing runs between the end
\* of one process and the start of the next, main starts the first of all,
\* and a request under way has not been answered.
OnlyProc ==
  /\ Running \subseteq {proc}
  /\ step \in {"killed", "spawn"} => Running = {}
  /\ main = "listening" => step = "none" /\ proc = 0
  /\ main = "exited" => step = "none"
  /\ main = "starting" => step \in {"spawn", "detect"}
  /\ step = "wait" => proc # 0
  /\ step \in {"spawn", "detect"} => main \in {"starting", "active"}
  /\ step # "none" \/ main # "active" => answer = 0

LInv == TypeOK /\ OnlyProc /\ AnsweredForItsOwn

\* Before main starts anything nothing runs.
LEMMA InitL == Init => LInv
<1> SUFFICES ASSUME Init PROVE LInv
  OBVIOUS
<1>1. Running = {}
  BY DEF Init, Running
<1>2. 0 \in 0..MaxStarts /\ 0 \in 0..(MaxStarts + 1) /\ 0 \in 0..(MaxLooks - 1)
  BY LifecycleAssumption
<1> QED
  BY <1>1, <1>2 DEF Init, LInv, TypeOK, OnlyProc, AnsweredForItsOwn, Procs

\* Every step keeps the types.
LEMMA TypesL == LInv /\ [Next]_vars => TypeOK'
<1> SUFFICES ASSUME LInv, [Next]_vars PROVE TypeOK'
  OBVIOUS
<1> USE LifecycleAssumption DEF LInv, TypeOK, Procs
<1>1. ASSUME NEW p \in Procs, Live(p) PROVE TypeOK'
  BY <1>1 DEF Live
<1>2. ASSUME RequestStart PROVE TypeOK'
  BY <1>2 DEF RequestStart
<1>3. ASSUME MainStart PROVE TypeOK'
  BY <1>3 DEF MainStart
<1>4. ASSUME Kill PROVE TypeOK'
  BY <1>4 DEF Kill
<1>5. ASSUME WaitKilled PROVE TypeOK'
  <2>1. ASSUME Fail PROVE step' \in {"none", "kill"} /\ ACTIVE' = ACTIVE /\ answer' \in {answer, 500}
                         /\ main' \in {main, "terminating"}
    BY <2>1 DEF Fail
  <2> QED
    BY <1>5, <2>1 DEF WaitKilled
<1>6. ASSUME AfterKill PROVE TypeOK'
  BY <1>6 DEF AfterKill
<1>7. ASSUME Spawn PROVE TypeOK'
  <2>1. CASE Fail /\ UNCHANGED <<process, proc, looks, started>>
    BY <1>7, <2>1 DEF Spawn, Fail
  <2>2. CASE step' = "detect" /\ UNCHANGED <<ACTIVE, main, answer>>
    BY <1>7, <2>2 DEF Spawn, Fail
  <2> QED
    BY <1>7, <2>1, <2>2 DEF Spawn
<1>8. ASSUME Detect PROVE TypeOK'
  <2>1. Running \subseteq 0..(MaxStarts + 1)
    BY DEF Running
  <2>2. UNCHANGED <<process, proc, started, requests>>
    BY <1>8 DEF Detect
  <2>3. looks' \in 0..(MaxLooks - 1) /\ detected' \in 0..(MaxStarts + 1)
    BY <1>8, <2>1 DEF Detect
  <2>4. /\ ACTIVE' \in BOOLEAN /\ answer' \in {0, 200, 500}
        /\ main' \in {"listening", "starting", "active", "terminating", "exited"}
        /\ step' \in {"none", "spawn", "detect", "kill", "wait", "killed"}
    <3>1. CASE Succeed
      BY <3>1 DEF Succeed
    <3>2. CASE Fail
      BY <3>2 DEF Fail
    <3>3. CASE UNCHANGED <<step, main, ACTIVE, answer>>
      BY <3>3
    <3> QED
      BY <1>8, <3>1, <3>2, <3>3 DEF Detect
  <2> QED
    BY <2>2, <2>3, <2>4
<1>9. CASE UNCHANGED vars
  BY <1>9 DEF vars
<1> QED
  BY <1>1, <1>2, <1>3, <1>4, <1>5, <1>6, <1>7, <1>8, <1>9 DEF Next, Backchannel

\* Every step keeps what runs to self.proc, and an answer to the process detected.
LEMMA StepL == LInv /\ [Next]_vars => LInv'
<1> SUFFICES ASSUME LInv, [Next]_vars PROVE OnlyProc' /\ AnsweredForItsOwn'
  BY TypesL DEF LInv
<1>0. /\ OnlyProc /\ AnsweredForItsOwn /\ process \in [Procs -> {"none", "booting", "ready", "stopping", "gone"}]
      /\ proc \in 0..(MaxStarts + 1) /\ started \in 0..(MaxStarts + 1)
  BY DEF LInv, TypeOK
<1>1. ASSUME NEW p \in Procs, Live(p) PROVE OnlyProc' /\ AnsweredForItsOwn'
  <2>1. Running' \subseteq Running
    BY <1>0, <1>1 DEF Live, Running
  <2> QED
    BY <1>0, <1>1, <2>1 DEF Live, OnlyProc, AnsweredForItsOwn
<1>2. ASSUME UNCHANGED process PROVE Running' = Running
  BY <1>2 DEF Running
<1>3. ASSUME RequestStart PROVE OnlyProc' /\ AnsweredForItsOwn'
  BY <1>0, <1>2, <1>3 DEF RequestStart, OnlyProc, AnsweredForItsOwn
<1>4. ASSUME MainStart PROVE OnlyProc' /\ AnsweredForItsOwn'
  <2>1. Running = {}
    BY <1>0, <1>4 DEF MainStart, OnlyProc, Running, Procs
  <2> QED
    BY <1>0, <1>2, <1>4, <2>1 DEF MainStart, OnlyProc, AnsweredForItsOwn
<1>5. ASSUME Kill PROVE OnlyProc' /\ AnsweredForItsOwn'
  <2>1. CASE proc # 0 /\ proc \in Running
    <3>1. process' = [process EXCEPT ![proc] = "stopping"] /\ step' = "wait" /\ step = "kill"
      BY <1>5, <2>1 DEF Kill
    <3>2. Running' \subseteq Running
      BY <1>0, <2>1, <3>1 DEF Running
    <3> QED
      BY <1>0, <1>5, <2>1, <3>1, <3>2 DEF Kill, OnlyProc, AnsweredForItsOwn
  <2>2. CASE ~(proc # 0 /\ proc \in Running)
    <3>1. UNCHANGED process /\ step' = "killed" /\ step = "kill"
      BY <1>5, <2>2 DEF Kill
    <3>2. Running = {}
      BY <1>0, <2>2 DEF OnlyProc, Running, Procs
    <3> QED
      BY <1>0, <1>2, <1>5, <3>1, <3>2 DEF Kill, OnlyProc, AnsweredForItsOwn
  <2> QED
    BY <2>1, <2>2
<1>6. ASSUME WaitKilled PROVE OnlyProc' /\ AnsweredForItsOwn'
  <2>1. CASE process[proc] = "gone" /\ step' = "killed" /\ UNCHANGED <<ACTIVE, main, answer>>
    <3>1. Running = {}
      BY <1>0, <2>1 DEF OnlyProc, Running
    <3>2. UNCHANGED <<process, proc>> /\ step = "wait"
      BY <1>6 DEF WaitKilled
    <3> QED
      BY <1>0, <1>2, <2>1, <3>1, <3>2 DEF OnlyProc, AnsweredForItsOwn
  <2>2. CASE main = "active" /\ Fail
    <3>1. step' = "none" /\ main' = "active" /\ answer' = 500 /\ UNCHANGED <<process, proc>>
      BY <1>6, <2>2 DEF Fail, WaitKilled
    <3>2. OnlyProc'
      BY <1>0, <1>2, <3>1 DEF OnlyProc
    <3> QED
      BY <3>1, <3>2 DEF AnsweredForItsOwn
  <2>3. CASE main' = "exited" /\ step' = "none" /\ answer' = answer /\ main = "terminating"
    <3>1. UNCHANGED <<process, proc>> /\ answer' = 0
      BY <1>0, <1>6, <2>3 DEF WaitKilled, OnlyProc
    <3>2. OnlyProc'
      BY <1>0, <1>2, <2>3, <3>1 DEF OnlyProc
    <3> QED
      BY <3>1, <3>2 DEF AnsweredForItsOwn
  <2> QED
    BY <1>6, <2>1, <2>2, <2>3 DEF WaitKilled
<1>7. ASSUME AfterKill PROVE OnlyProc' /\ AnsweredForItsOwn'
  <2>1. /\ step = "killed" /\ UNCHANGED <<process, proc, answer>> /\ Running = {}
        /\ \/ main' = "exited" /\ step' = "none"
           \/ step' = "spawn" /\ main' = main /\ main # "terminating"
    BY <1>0, <1>7 DEF AfterKill, OnlyProc
  <2>2. answer' = 0
    BY <1>0, <2>1 DEF OnlyProc
  <2>3. main \in {"listening", "starting", "active", "terminating", "exited"}
    BY DEF LInv, TypeOK
  <2>4. OnlyProc'
    BY <1>0, <1>2, <2>1, <2>2, <2>3 DEF OnlyProc
  <2> QED
    BY <2>2, <2>4 DEF AnsweredForItsOwn
<1>8. ASSUME Spawn PROVE OnlyProc' /\ AnsweredForItsOwn'
  <2>1. Running = {}
    BY <1>0, <1>8 DEF Spawn, OnlyProc
  <2>2. CASE proc' = started + 1 /\ step' = "detect" /\ UNCHANGED <<main, answer>>
    <3>1. Running' \subseteq {proc'}
      BY <1>0, <1>8, <2>1, <2>2 DEF Spawn, Running, Fail
    <3> QED
      BY <1>0, <1>8, <2>1, <2>2, <3>1 DEF Spawn, OnlyProc, AnsweredForItsOwn
  <2>3. CASE Fail /\ UNCHANGED <<process, proc>>
    <3>1. step = "spawn" /\ Running' = {} /\ main \in {"starting", "active"}
      BY <1>0, <1>2, <1>8, <2>1, <2>3 DEF Spawn, OnlyProc
    <3>2. OnlyProc' /\ (step' = "none" => answer' = 500)
      BY <1>0, <2>3, <3>1 DEF OnlyProc, Fail
    <3> QED
      BY <3>2 DEF AnsweredForItsOwn
  <2> QED
    BY <1>8, <2>2, <2>3 DEF Spawn
<1>9. ASSUME Detect PROVE OnlyProc' /\ AnsweredForItsOwn'
  <2>1. UNCHANGED <<process, proc>> /\ step = "detect"
    BY <1>9 DEF Detect
  <2>2. ASSUME NEW p \in Running, detected' = p, Succeed PROVE OnlyProc' /\ AnsweredForItsOwn'
    BY <1>0, <1>2, <2>1, <2>2 DEF Succeed, OnlyProc, AnsweredForItsOwn
  <2>3. ASSUME Fail PROVE OnlyProc' /\ AnsweredForItsOwn'
    <3>1. CASE main = "starting"
      BY <1>0, <1>2, <2>1, <2>3, <3>1 DEF Fail, OnlyProc, AnsweredForItsOwn
    <3>2. CASE main = "active"
      <4>1. step' = "none" /\ main' = "active" /\ answer' = 500
        BY <2>3, <3>2 DEF Fail
      <4>2. OnlyProc'
        BY <1>0, <1>2, <2>1, <4>1 DEF OnlyProc
      <4>3. AnsweredForItsOwn'
        BY <4>1 DEF AnsweredForItsOwn
      <4> QED
        BY <4>2, <4>3
    <3> QED
      BY <1>0, <2>1, <3>1, <3>2 DEF OnlyProc
  <2>4. CASE UNCHANGED <<step, main, answer, detected>>
    BY <1>0, <1>2, <2>1, <2>4 DEF OnlyProc, AnsweredForItsOwn
  <2> QED
    BY <1>9, <2>2, <2>3, <2>4 DEF Detect
<1>10. CASE UNCHANGED vars
  BY <1>0, <1>2, <1>10 DEF vars, OnlyProc, AnsweredForItsOwn
<1> QED
  BY <1>1, <1>3, <1>4, <1>5, <1>6, <1>7, <1>8, <1>9, <1>10 DEF Next, Backchannel

\* Every reachable state has the types.
THEOREM LifecycleTypes == Spec => []TypeOK
<1>1. LInv => TypeOK
  BY DEF LInv
<1> QED
  BY <1>1, InitL, StepL, PTL DEF Spec

\* However often the agent is restarted, crashes, or is slow to stop, no two agent
\* processes of one backchannel run at once.
THEOREM NeverTwoAgents == Spec => []OneAgent
<1>1. LInv => OneAgent
  BY DEF LInv, OnlyProc, OneAgent
<1> QED
  BY <1>1, InitL, StepL, PTL DEF Spec

\* A start request answered 200 has detected the process it started.
THEOREM DetectsItsOwn == Spec => []AnsweredForItsOwn
<1>1. LInv => AnsweredForItsOwn
  BY DEF LInv
<1> QED
  BY <1>1, InitL, StepL, PTL DEF Spec

\* A start that fails does not let go of a process that goes on running.
THEOREM NoneIsLost == Spec => []NoneOutOfReach
<1>1. LInv => NoneOutOfReach
  BY DEF LInv, OnlyProc, NoneOutOfReach
<1> QED
  BY <1>1, InitL, StepL, PTL DEF Spec

\* What runs once main has left, or while its process is waited for, is on its way out.
Leaving ==
  main = "exited" \/ step = "wait" => \A p \in Running : process[p] = "stopping"

LEMMA LeavingStep == LInv /\ Leaving /\ [Next]_vars => Leaving'
<1> SUFFICES ASSUME LInv, Leaving, [Next]_vars PROVE Leaving'
  OBVIOUS
<1>0. /\ OnlyProc /\ Leaving
      /\ process \in [Procs -> {"none", "booting", "ready", "stopping", "gone"}]
  BY DEF LInv, TypeOK
<1>1. ASSUME UNCHANGED process PROVE Running' = Running
  BY <1>1 DEF Running
<1>2. ASSUME NEW p \in Procs, Live(p) PROVE Leaving'
  BY <1>0, <1>2 DEF Live, Running, Leaving
<1>3. CASE RequestStart
  BY <1>0, <1>1, <1>3 DEF RequestStart, Leaving
<1>4. CASE MainStart
  BY <1>0, <1>1, <1>4 DEF MainStart, Leaving
<1>5. CASE Kill
  <2>1. CASE proc # 0 /\ proc \in Running
    <3>1. process' = [process EXCEPT ![proc] = "stopping"]
      BY <1>5, <2>1 DEF Kill
    <3>2. \A p \in Running' : p = proc /\ process'[p] = "stopping"
      BY <1>0, <2>1, <3>1 DEF OnlyProc, Running
    <3> QED
      BY <1>0, <3>1, <3>2 DEF Leaving
  <2>2. CASE ~(proc # 0 /\ proc \in Running)
    BY <1>0, <1>1, <1>5, <2>2 DEF Kill, Leaving, OnlyProc
  <2> QED
    BY <2>1, <2>2
<1>6. CASE WaitKilled
  <2>1. step = "wait" /\ UNCHANGED process
    BY <1>6 DEF WaitKilled, Fail
  <2> QED
    BY <1>0, <1>1, <2>1 DEF Leaving
<1>7. CASE AfterKill
  <2>1. Running = {} /\ UNCHANGED process
    BY <1>0, <1>7 DEF AfterKill, OnlyProc
  <2> QED
    BY <1>0, <1>1, <2>1 DEF Leaving
<1>8. CASE Spawn
  <2>1. main' # "exited" /\ step' # "wait"
    BY <1>0, <1>8 DEF Spawn, OnlyProc, Fail
  <2> QED
    BY <1>0, <2>1 DEF Leaving
<1>9. CASE Detect
  <2>0. UNCHANGED process /\ main # "exited" /\ step = "detect"
    BY <1>0, <1>9 DEF Detect, OnlyProc
  <2>1. ASSUME NEW p \in Running, detected' = p, Succeed PROVE Leaving'
    <3>1. main' # "exited" /\ step' # "wait"
      BY <2>0, <2>1 DEF Succeed
    <3> QED
      BY <3>1 DEF Leaving
  <2>2. CASE Fail
    BY <1>0, <2>0, <2>2 DEF Fail, Leaving
  <2>3. CASE UNCHANGED <<step, main>>
    BY <1>0, <2>0, <2>3 DEF Leaving
  <2> QED
    BY <1>9, <2>1, <2>2, <2>3 DEF Detect
<1>10. CASE UNCHANGED vars
  BY <1>0, <1>1, <1>10 DEF vars, Leaving
<1> QED
  BY <1>2, <1>3, <1>4, <1>5, <1>6, <1>7, <1>8, <1>9, <1>10 DEF Next, Backchannel

LEMMA LeavingInvariant == Spec => []Leaving
<1>1. Init => Leaving
  BY DEF Init, Leaving
<1> QED
  BY <1>1, InitL, StepL, LeavingStep, PTL DEF Spec

\* A main that has left leaves no process behind that was not told to stop.
THEOREM ExitLeavesNoAgent == Spec => []ExitStopsAgent
<1>1. Leaving => ExitStopsAgent
  BY DEF Leaving, ExitStopsAgent
<1> QED
  BY <1>1, LeavingInvariant, PTL
=============================================================================
