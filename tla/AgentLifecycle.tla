--------------------------- MODULE AgentLifecycle ---------------------------
(***************************************************************************)
(* The agent process of an ACA-Py backchannel: started by main, replaced   *)
(* by POST /agent/command/agent/start, which kills the running process,    *)
(* starts another with other arguments, and waits until /status answers.   *)
(*                                                                         *)
(* The processes are external: one boots, may crash at any time, and stops *)
(* some time after SIGTERM.  They share one admin port, so whichever runs  *)
(* answers /status.  The harness sends a request only after main has       *)
(* activated the backchannel and its previous request has been answered    *)
(* (manage waits for status 200, the steps are synchronous).               *)
(***************************************************************************)
EXTENDS Naturals

CONSTANTS
  MaxStarts,     \* bound on the start requests
  MaxLooks       \* GETs of /status that fit into START_TIMEOUT

ASSUME LifecycleAssumption ==
  /\ MaxStarts \in Nat
  /\ MaxLooks \in Nat \ {0}

\* The processes in the order they are started; 0 stands for None.
Procs == 1..(MaxStarts + 1)

VARIABLES
  process,    \* [Procs -> state]: the processes (external)
  proc,       \* self.proc
  ACTIVE,     \* self.ACTIVE
  main,       \* where main is
  step,       \* where the start sequence, of main or of the request, is
  looks,      \* GETs of /status so far
  started,    \* number of processes started
  requests,   \* number of start requests
  answer,     \* the last answer to a start request: 0 none, or the status
  detected    \* history: the process that answered the last successful detection

vars == <<process, proc, ACTIVE, main, step, looks, started, requests, answer, detected>>

Running == {p \in Procs : process[p] \in {"booting", "ready", "stopping"}}

----------------------------------------------------------------------------
(* The processes.                                                          *)

\* A process comes up, crashes (or refuses its arguments), or ends on SIGTERM.
Live(p) ==
  /\ \/ process[p] = "booting" /\ process' = [process EXCEPT ![p] = "ready"]
     \/ p \in Running /\ process' = [process EXCEPT ![p] = "gone"]
  /\ UNCHANGED <<proc, ACTIVE, main, step, looks, started, requests, answer, detected>>

----------------------------------------------------------------------------
(* The start sequence.                                                     *)

\* The sequence ends: main activates the backchannel or gives up, a request is
\* answered 200 or 500.
Succeed ==
  /\ step' = "none"
  /\ main' = "active"
  /\ ACTIVE' = TRUE
  /\ answer' = IF main = "starting" THEN answer ELSE 200

Fail ==
  /\ IF main = "starting" THEN main' = "terminating" /\ step' = "kill"
     ELSE main' = main /\ step' = "none"
  /\ answer' = IF main = "starting" THEN answer ELSE 500
  /\ UNCHANGED ACTIVE

MainStart ==
  /\ main = "listening"
  /\ main' = "starting"
  /\ step' = "spawn"
  /\ UNCHANGED <<process, proc, ACTIVE, looks, started, requests, answer, detected>>

RequestStart ==
  /\ main = "active"
  /\ step = "none"
  /\ requests < MaxStarts
  /\ requests' = requests + 1
  /\ step' = "kill"
  /\ answer' = 0
  /\ UNCHANGED <<process, proc, ACTIVE, main, looks, started, detected>>

\* Mutant: only a restart kills the process.
KillOnRestart ==
  /\ step = "kill"
  /\ IF main = "active" /\ proc # 0 /\ proc \in Running
     THEN process' = [process EXCEPT ![proc] = "stopping"] /\ step' = "wait"
     ELSE UNCHANGED process /\ step' = "killed"
  /\ UNCHANGED <<proc, ACTIVE, main, looks, started, requests, answer, detected>>

\* kill_agent: SIGTERM unless there is no process or poll() says it has ended.
Kill ==
  /\ step = "kill"
  /\ IF proc # 0 /\ proc \in Running
     THEN process' = [process EXCEPT ![proc] = "stopping"] /\ step' = "wait"
     ELSE UNCHANGED process /\ step' = "killed"
  /\ UNCHANGED <<proc, ACTIVE, main, looks, started, requests, answer, detected>>

\* Mutant: the timeout is logged and not raised.
WaitKilledSwallows ==
  /\ step = "wait"
  /\ step' = "killed"
  /\ UNCHANGED <<process, proc, ACTIVE, main, looks, started, requests, answer, detected>>

\* proc.wait(timeout=0.5): the process has ended by then, or _terminate raises.
WaitKilled ==
  /\ step = "wait"
  /\ \/ /\ process[proc] = "gone"
        /\ step' = "killed"
        /\ UNCHANGED <<ACTIVE, main, answer>>
     \/ /\ process[proc] = "stopping"
        /\ main = "active"
        /\ Fail
     \/ /\ process[proc] = "stopping"
        /\ main = "terminating"
        /\ main' = "exited" /\ step' = "none"
        /\ UNCHANGED <<ACTIVE, answer>>
  /\ UNCHANGED <<process, proc, looks, started, requests, detected>>

\* The process is gone: main leaves, a request goes on to start another.
AfterKill ==
  /\ step = "killed"
  /\ IF main = "terminating" THEN main' = "exited" /\ step' = "none"
     ELSE step' = "spawn" /\ UNCHANGED main
  /\ UNCHANGED <<process, proc, ACTIVE, looks, started, requests, answer, detected>>

\* start_process, start_process_with_extra_args: Popen, then sleep(1).  Popen may raise,
\* and self.proc is then the process before.
Spawn ==
  /\ step = "spawn"
  /\ \/ /\ started < MaxStarts + 1
        /\ started' = started + 1
        /\ process' = [process EXCEPT ![started + 1] = "booting"]
        /\ proc' = started + 1
        /\ looks' = 0
        /\ step' = "detect"
        /\ UNCHANGED <<ACTIVE, main, answer>>
     \/ Fail /\ UNCHANGED <<process, proc, looks, started>>
  /\ UNCHANGED <<requests, detected>>

\* Mutant: the loop of fetch_swagger has no timeout.
DetectForever ==
  /\ step = "detect"
  /\ \/ /\ \E p \in Running : process[p] # "booting" /\ detected' = p
        /\ Succeed
        /\ UNCHANGED looks
     \/ UNCHANGED <<looks, step, main, ACTIVE, answer, detected>>
  /\ UNCHANGED <<process, proc, started, requests>>

\* Mutant: one look too many.
DetectOneMore ==
  /\ step = "detect"
  /\ \/ /\ \E p \in Running : process[p] # "booting" /\ detected' = p
        /\ Succeed
        /\ UNCHANGED looks
     \/ /\ looks < MaxLooks
        /\ looks' = looks + 1
        /\ UNCHANGED <<step, main, ACTIVE, answer, detected>>
     \/ /\ looks >= MaxLooks
        /\ Fail
        /\ UNCHANGED <<looks, detected>>
  /\ UNCHANGED <<process, proc, started, requests>>

\* Mutant: a start that fails forgets its process, as if there were none to stop.
DetectForgets ==
  /\ step = "detect"
  /\ \/ /\ \E p \in Running : process[p] # "booting" /\ detected' = p
        /\ Succeed
        /\ UNCHANGED <<looks, proc>>
     \/ /\ looks + 1 < MaxLooks
        /\ looks' = looks + 1
        /\ UNCHANGED <<proc, step, main, ACTIVE, answer, detected>>
     \/ /\ looks + 1 >= MaxLooks \/ \E p \in Running : process[p] # "booting"
        /\ Fail
        /\ proc' = 0
        /\ UNCHANGED <<looks, detected>>
  /\ UNCHANGED <<process, started, requests>>

\* detect_process: a GET of /status is answered by a process that listens; it may
\* also fail or take too long.  START_TIMEOUT ends the loop with an exception, and
\* so does an answer that is not the expected one.
Detect ==
  /\ step = "detect"
  /\ \/ /\ \E p \in Running : process[p] # "booting" /\ detected' = p
        /\ Succeed
        /\ UNCHANGED looks
     \/ /\ looks + 1 < MaxLooks
        /\ looks' = looks + 1
        /\ UNCHANGED <<step, main, ACTIVE, answer, detected>>
     \/ /\ looks + 1 >= MaxLooks \/ \E p \in Running : process[p] # "booting"
        /\ Fail
        /\ UNCHANGED <<looks, detected>>
  /\ UNCHANGED <<process, proc, started, requests>>

----------------------------------------------------------------------------
Init ==
  /\ process = [p \in Procs |-> "none"]
  /\ proc = 0
  /\ ACTIVE = FALSE
  /\ main = "listening"
  /\ step = "none"
  /\ looks = 0
  /\ started = 0
  /\ requests = 0
  /\ answer = 0
  /\ detected = 0

Backchannel == MainStart \/ Kill \/ WaitKilled \/ AfterKill \/ Spawn \/ Detect

\* Once main has exited nothing of the backchannel moves; processes may.
Next ==
  \/ \E p \in Procs : Live(p)
  \/ RequestStart
  \/ Backchannel

\* The event loop and its executor threads go on; nothing is assumed of the
\* processes, nor that the harness asks for anything.
Spec == Init /\ [][Next]_vars /\ WF_vars(Backchannel)

----------------------------------------------------------------------------
(* Properties.                                                             *)

\* Every variable has its type; the loop of detect_process never looks more
\* often than its timeout allows.
TypeOK ==
  /\ process \in [Procs -> {"none", "booting", "ready", "stopping", "gone"}]
  /\ proc \in 0..(MaxStarts + 1)
  /\ ACTIVE \in BOOLEAN
  /\ main \in {"listening", "starting", "active", "terminating", "exited"}
  /\ step \in {"none", "spawn", "detect", "kill", "wait", "killed"}
  /\ looks \in 0..(MaxLooks - 1)
  /\ started \in 0..(MaxStarts + 1)
  /\ requests \in 0..MaxStarts
  /\ answer \in {0, 200, 500}
  /\ detected \in 0..(MaxStarts + 1)

\* Two agents never run at once: they would share wallet and ports.  The
\* exception _terminate raises after half a second is what keeps a process that
\* is slow to stop and its successor apart.
OneAgent == \A p, q \in Running : p = q

\* A start request that is answered 200 was answered for the process it started,
\* not for one that is on its way out.
AnsweredForItsOwn == step = "none" /\ answer = 200 => detected = proc

\* However often a start has failed after its process was spawned (nothing answered
\* /status in time, or something else did), a process that runs on and was not told
\* to stop is the one self.proc holds: the next start, or main on its way out, can
\* stop it.
NoneOutOfReach == \A p \in Running : process[p] # "stopping" => p = proc

\* A main that gives up its start tells the agent to stop before it exits.
ExitStopsAgent == main = "exited" => \A p \in Running : process[p] = "stopping"

\* Every start request is answered, and so is main's own start.
EveryStartEnds == step # "none" ~> step = "none"
=============================================================================
