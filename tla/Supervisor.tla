------------------------------ MODULE Supervisor ------------------------------
(***************************************************************************)
(* The container: docker starts start_bizrag.sh, which runs the bridge,    *)
(* the worker and the API, itself ("plain": the API in its own place, the  *)
(* others as children it no longer looks after) or by dev_hot_reload.py    *)
(* ("reload": all are stopped and started again when one ends or a source  *)
(* file changes). docker starts an ended container again (restart:         *)
(* unless-stopped) unless it was told to stop it.                          *)
(***************************************************************************)
EXTENDS Naturals, FiniteSets

CONSTANTS
  Programs,   \* the enabled ones of mq_bridge, worker, api
  Api,        \* the API, which need not be among them
  MaxEdits,   \* bound: changes of watched source files
  MaxEnds     \* bound: processes that end by themselves, failed starts

ASSUME SupervisorAssumption ==
  Programs # {} /\ IsFiniteSet(Programs) /\ MaxEdits \in Nat /\ MaxEnds \in Nat

VARIABLES
  mode,      \* "plain" or "reload": BIZRAG_HOT_RELOAD
  stage,     \* of PID 1: "boot", "launch", "watch", "stop", "kill", "gone"
  live,      \* the programs that run, as PID 1 started them last
  old,       \* those of which an earlier process still runs
  stubborn,  \* those whose process has not heeded SIGTERM
  held,      \* those of which one has outlived SIGKILL
  code,      \* the source each has loaded; 0: not yet
  source,    \* the source on disk
  watching,  \* the watcher thread: "off", "starting", "on", "fired"
  seen,      \* the latest change a watcher has seen
  shutdown,  \* the container was told to stop
  edits, ends

procVars   == <<live, old, stubborn, held, code>>
sourceVars == <<source, watching, seen, edits>>
supervisorVars == <<mode, stage, procVars, sourceVars, shutdown, ends>>

SupervisorInit ==
  /\ mode \in {"plain", "reload"}
  /\ stage = "boot"
  /\ live = {} /\ old = {} /\ stubborn = {} /\ held = {} /\ code = [p \in Programs |-> 0]
  /\ source = 1 /\ watching = "off" /\ seen = 0
  /\ shutdown = FALSE /\ edits = 0 /\ ends = 0

End == ends < MaxEnds /\ ends' = ends + 1

(* bootstrap_runtime.py and wait_for_targets; set -e: a failure ends it. *)
Boot ==
  /\ stage = "boot"
  /\ stage' = IF shutdown THEN "gone" ELSE "launch"
  /\ UNCHANGED <<mode, procVars, sourceVars, shutdown, ends>>

BootFails ==
  /\ stage = "boot" /\ End /\ stage' = "gone"
  /\ UNCHANGED <<mode, procVars, sourceVars, shutdown>>

(* _start_processes and the start of the watcher, unless main has been     *)
(* told to stop; or the three blocks at the end of the script.             *)
Launch ==
  /\ stage = "launch" /\ ~(shutdown /\ mode = "reload")
  /\ live' = Programs /\ old' = old \cup live /\ stubborn' = {}
  /\ code' = [p \in Programs |-> 0]
  /\ stage' = "watch"
  /\ watching' = IF mode = "reload" THEN "starting" ELSE "off"
  /\ UNCHANGED <<mode, held, source, seen, edits, shutdown, ends>>

MainReturns ==
  /\ stage = "launch" /\ shutdown /\ mode = "reload"
  /\ stage' = "gone"
  /\ UNCHANGED <<mode, procVars, sourceVars, shutdown, ends>>

(* The interpreter reads the sources some time after Popen. *)
Load(p) ==
  /\ p \in live /\ code[p] = 0
  /\ code' = [code EXCEPT ![p] = source]
  /\ UNCHANGED <<mode, stage, live, old, stubborn, held, sourceVars, shutdown, ends>>

(* The watcher thread has its watches set. *)
WatchSet ==
  /\ watching = "starting" /\ watching' = "on"
  /\ UNCHANGED <<mode, stage, procVars, source, seen, edits, shutdown, ends>>

Edit ==
  /\ edits < MaxEdits /\ edits' = edits + 1
  /\ source' = source + 1
  /\ IF watching = "on" THEN watching' = "fired" /\ seen' = source + 1
                        ELSE UNCHANGED <<watching, seen>>
  /\ UNCHANGED <<mode, stage, procVars, shutdown, ends>>

Leaves(p) == live' = live \ {p} /\ code' = [code EXCEPT ![p] = 0]

ProcessEnds(p) ==
  /\ p \in live /\ End /\ Leaves(p)
  /\ UNCHANGED <<mode, stage, old, stubborn, held, sourceVars, shutdown>>

(* docker stop: SIGTERM to PID 1. In plain mode that is the API, or the    *)
(* shell, whose trap stops its children.                                   *)
DockerStop ==
  /\ ~shutdown /\ shutdown' = TRUE
  /\ UNCHANGED <<mode, stage, procVars, sourceVars, ends>>

(* A faulty Alarm: nobody looks at the processes. *)
AlarmOnChange ==
  /\ mode = "reload" /\ stage = "watch"
  /\ shutdown \/ watching = "fired"
  /\ stage' = "stop" /\ watching' = "off"
  /\ UNCHANGED <<mode, procVars, source, seen, edits, shutdown, ends>>

(* One round of the loop of main. *)
Alarm ==
  /\ mode = "reload" /\ stage = "watch"
  /\ shutdown \/ watching = "fired" \/ live # Programs
  /\ stage' = "stop" /\ watching' = "off"
  /\ UNCHANGED <<mode, procVars, source, seen, edits, shutdown, ends>>

(* _stop_processes: a process told to terminate does, or ... *)
Terminates(p) ==
  /\ stage = "stop" /\ p \in live \ stubborn /\ Leaves(p)
  /\ UNCHANGED <<mode, stage, old, stubborn, held, sourceVars, shutdown, ends>>

Resists(p) ==
  /\ stage = "stop" /\ p \in live \ stubborn /\ End
  /\ stubborn' = stubborn \cup {p}
  /\ UNCHANGED <<mode, stage, live, old, held, code, sourceVars, shutdown>>

(* ... is killed after ten seconds, and waited for one second more: one    *)
(* that the kernel holds outlives even that.                               *)
Killed ==
  /\ stage = "stop" /\ live # {} /\ live \subseteq stubborn
  /\ \E left \in SUBSET live :
       /\ live' = left /\ held' = held \cup left
       /\ code' = [p \in Programs |-> IF p \in left THEN code[p] ELSE 0]
  /\ stage' = "kill"
  /\ UNCHANGED <<mode, old, stubborn, sourceVars, shutdown, ends>>

(* A faulty Restart: it does not wait for what it has told to stop. *)
RestartAtOnce ==
  /\ stage \in {"stop", "kill"}
  /\ stage' = IF shutdown THEN "gone" ELSE "launch"
  /\ UNCHANGED <<mode, procVars, sourceVars, shutdown, ends>>

Restart ==
  /\ stage \in {"stop", "kill"} /\ (stage = "stop" => live = {})
  /\ stage' = IF shutdown THEN "gone" ELSE "launch"
  /\ UNCHANGED <<mode, procVars, sourceVars, shutdown, ends>>

(* Plain: PID 1 is the API, or a shell that waits for all its children. *)
PlainEnds ==
  /\ mode = "plain" /\ stage = "watch"
  /\ shutdown \/ (IF Api \in Programs THEN Api \notin live ELSE live = {})
  /\ stage' = "gone"
  /\ UNCHANGED <<mode, procVars, sourceVars, shutdown, ends>>

(* With PID 1 gone no process of the container is left, and docker starts  *)
(* it again.                                                               *)
ContainerEnds ==
  /\ stage = "gone" /\ (~shutdown \/ live \cup old # {})
  /\ live' = {} /\ old' = {} /\ stubborn' = {} /\ held' = {} /\ code' = [p \in Programs |-> 0]
  /\ stage' = IF shutdown THEN "gone" ELSE "boot"
  /\ UNCHANGED <<mode, sourceVars, shutdown, ends>>

ProcessStep(p) == Load(p) \/ ProcessEnds(p) \/ Terminates(p) \/ Resists(p)
LoopStep ==
  \/ Boot \/ Launch \/ MainReturns \/ WatchSet \/ Alarm \/ Killed \/ Restart
  \/ PlainEnds \/ ContainerEnds

SupervisorNext ==
  \/ LoopStep \/ BootFails \/ Edit \/ DockerStop
  \/ \E p \in Programs : ProcessStep(p)

SupervisorSpec == SupervisorInit /\ [][SupervisorNext]_supervisorVars

SupervisorFairness ==
  /\ WF_supervisorVars(LoopStep)
  /\ WF_supervisorVars(\E p \in Programs : Load(p) \/ Terminates(p))

SupervisorFairSpec == SupervisorSpec /\ SupervisorFairness

-----------------------------------------------------------------------------
(* The values of the variables. *)
SupervisorTypeOK ==
  /\ mode \in {"plain", "reload"}
  /\ stage \in {"boot", "launch", "watch", "stop", "kill", "gone"}
  /\ live \subseteq Programs /\ old \subseteq Programs /\ stubborn \subseteq Programs
  /\ held \subseteq Programs
  /\ code \in [Programs -> 0..(MaxEdits + 1)] /\ \A p \in Programs \ live : code[p] = 0
  /\ watching \in {"off", "starting", "on", "fired"}
  /\ seen <= source /\ shutdown \in BOOLEAN

(* No program runs twice, whatever ends, changes or is stopped while the   *)
(* others are being restarted: an earlier process of a program outlives    *)
(* the restart only if neither SIGTERM nor SIGKILL and a second's wait     *)
(* have ended it (dev_hot_reload.py:155-173).                              *)
OneGeneration == old \subseteq held

(* A program that is down comes back, and with "reload" runs a source no   *)
(* older than the last change a watcher saw; "plain" does that for the API *)
(* alone, or for all of them once the last has ended (start_bizrag.sh:     *)
(* 95-138, dev_hot_reload.py:202-246).                                     *)
Missed(p) ==
  \/ mode = "reload" /\ (p \notin live \/ code[p] < seen)
  \/ mode = "plain" /\ p \notin live /\ (p = Api \/ live = {})

ProgramsComeBack == []<>(shutdown \/ \A p \in Programs : ~Missed(p))
=============================================================================
