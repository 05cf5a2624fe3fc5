----------------------------- MODULE MCServices ------------------------------
(* Model checking of the services that share no state in one run: Init     *)
(* picks the one that runs, and the others stay asleep.                    *)
EXTENDS Tasks, KafkaBridge, Supervisor, Migrations, TLC

CONSTANTS a1, a2, d1, e1, p1, p2, m1, m2, m3, m4, b1, b2, A, B

MCCrews   == {{a1, a2}, {a1, d1}}
MCEventOf == [c \in Calls |-> IF c = d1 THEN Direct ELSE e1]
MCLog     == p1 :> << <<m1, m2>>, <<m3>>, <<m1>> >> @@ p2 :> << <<m4>>, <<m3, m4>> >>
MCMalformed == {<<p2, 1>>}
MCBuiltIns  == <<b1, b2>>
MCProfileOf == [f \in {b1, b2} |-> A]

VARIABLE active \* the component that runs

TasksAsleep ==
  /\ todo = [c \in Calls |-> <<>>] /\ dead = {} /\ midway = {} /\ verdict = [c \in Calls |-> "none"]
  /\ task = [c \in Calls |-> "none"] /\ span = [s \in Spans |-> "none"]
  /\ row = [e \in Events |-> "queued"] /\ attempts = [e \in Events |-> 0]
  /\ overdue = {} /\ sweep = NoSweep /\ silences = 0 /\ deaths = 0

SupervisorAsleep ==
  /\ mode = "plain" /\ stage = "gone" /\ shutdown = TRUE
  /\ live = {} /\ old = {} /\ stubborn = {} /\ held = {} /\ code = [p \in Programs |-> 0]
  /\ source = 1 /\ watching = "off" /\ seen = 0 /\ edits = 0 /\ ends = 0

MigrationsAsleep ==
  /\ backend = "mysql" /\ columns = {"path", "lease"}
  /\ holds = [f \in LegacyFiles |-> NoPath]
  /\ base = [k \in Bases |-> [old |-> NoPath, path |-> NoPath]]
  /\ wanted = [k \in Bases |-> NoPath]
  /\ at = [p \in Starters |-> "up"] /\ found = [p \in Starters |-> [k \in Bases |-> NoPath]]
  /\ crossed = {} /\ kills = 0 /\ registrations = 0

Init ==
  \/ /\ active = "tasks" /\ TasksInit
     /\ KafkaInit /\ SupervisorAsleep /\ MigrationsAsleep
  \/ /\ active = "bridge" /\ KafkaInit
     /\ TasksAsleep /\ SupervisorAsleep /\ MigrationsAsleep
  \/ /\ active = "supervisor" /\ SupervisorInit
     /\ TasksAsleep /\ KafkaInit /\ MigrationsAsleep
  \/ /\ active = "migrations" /\ MigrationsInit
     /\ TasksAsleep /\ KafkaInit /\ SupervisorAsleep

Tasking == active = "tasks" /\ UNCHANGED <<active, kafkaVars, supervisorVars, migrationVars>>
Bridging == active = "bridge" /\ UNCHANGED <<active, tasksVars, supervisorVars, migrationVars>>
Supervising == active = "supervisor" /\ UNCHANGED <<active, tasksVars, kafkaVars, migrationVars>>
Migrating == active = "migrations" /\ UNCHANGED <<active, tasksVars, kafkaVars, supervisorVars>>

(* The next-state relations of the components, action by action. *)
Next ==
  \/ \E c \in Calls :
       \/ Tasking /\ ClaimRow(c)
       \/ Tasking /\ OpenSpan(c)
       \/ Tasking /\ CreateTask(c)
       \/ Tasking /\ Work(c)
       \/ Tasking /\ CloseSpan(c)
       \/ Tasking /\ ReportTask(c)
       \/ Tasking /\ FinishEvent(c)
       \/ Tasking /\ TouchTask(c)
       \/ Tasking /\ TaskLapses(c)
       \/ Tasking /\ Dies(c)
  \/ \E e \in Events :
       \/ Tasking /\ TouchLease(e)
       \/ Tasking /\ LeaseLapses(e)
  \/ Tasking /\ ListStale
  \/ Tasking /\ CancelStale
  \/ Tasking /\ ListExpired
  \/ Tasking /\ RequeueExpired
  \/ Tasking /\ ListMatching
  \/ Tasking /\ ListOrphans
  \/ Tasking /\ AbandonNext
  \/ Tasking /\ AllAbandoned
  \/ Tasking /\ SweeperDies
  \/ Bridging /\ \E p \in Partitions : FetchMessage(p)
  \/ Bridging /\ RejectMessage
  \/ Bridging /\ EnqueueNext
  \/ Bridging /\ EnqueueFails
  \/ Bridging /\ CommitPosition
  \/ Bridging /\ CommitFails
  \/ Bridging /\ ConsumerDies
  \/ Bridging /\ ConsumerStarts
  \/ Supervising /\ Boot
  \/ Supervising /\ BootFails
  \/ Supervising /\ Launch
  \/ Supervising /\ MainReturns
  \/ Supervising /\ WatchSet
  \/ Supervising /\ Edit
  \/ Supervising /\ DockerStop
  \/ Supervising /\ Alarm
  \/ Supervising /\ Killed
  \/ Supervising /\ Restart
  \/ Supervising /\ PlainEnds
  \/ Supervising /\ ContainerEnds
  \/ \E p \in Programs :
       \/ Supervising /\ Load(p)
       \/ Supervising /\ ProcessEnds(p)
       \/ Supervising /\ Terminates(p)
       \/ Supervising /\ Resists(p)
  \/ \E p \in Starters :
       \/ Migrating /\ Opens(p)
       \/ Migrating /\ AskForColumn(p, "path?", "path", "addPath", "old?")
       \/ Migrating /\ AddColumn(p, "addPath", "path", "old?")
       \/ Migrating /\ AskForColumn(p, "old?", "old", "copy", "lease?")
       \/ Migrating /\ CopyPaths(p)
       \/ Migrating /\ DropOld(p)
       \/ Migrating /\ Rebuild(p)
       \/ Migrating /\ AskForColumn(p, "lease?", "lease", "addLease", "load")
       \/ Migrating /\ AddColumn(p, "addLease", "lease", "load")
       \/ Migrating /\ LoadRows(p)
       \/ Migrating /\ InferPaths(p)
       \/ Migrating /\ RewritePaths(p)
       \/ Migrating /\ ReloadRows(p)
       \/ Migrating /\ ComesUp(p)
       \/ Migrating /\ Collides(p)
       \/ Migrating /\ StarterKilled(p)
       \/ Migrating /\ \E file \in LegacyFiles : RemoveFile(p, file)
  \/ \E k \in Bases : \E path \in BuiltInFiles \cup ({k} \X {"config", "index"}) :
       Migrating /\ Registers(k, path)

vars == <<active, tasksVars, kafkaVars, supervisorVars, migrationVars>>

(* The fairness of Tasks, Supervisor and Migrations. *)
Fairness ==
  /\ WF_vars(Tasking /\ Advances)
  /\ WF_vars(Tasking /\ GoesSilent)
  /\ WF_vars(Tasking /\ SweepStep)
  /\ WF_vars(Supervising /\ LoopStep)
  /\ WF_vars(Supervising /\ \E p \in Programs : Load(p) \/ Terminates(p))
  /\ WF_vars(Migrating /\ \E p \in Starters : InitSchema(p) \/ Exchange(p))

ServicesSpec == Init /\ [][Next]_vars /\ Fairness
=============================================================================
