---------------------------- MODULE ServicesProofs ---------------------------
(***************************************************************************)
(* What holds of the processes around the index for every value of their   *)
(* constants: the Kafka consumer, for every number of partitions, every    *)
(* log and every choice of messages that cannot be read; PID 1 of the      *)
(* container, for every set of programs; the migrations, for every set of  *)
(* knowledge bases, built-in files and starting processes; calls, spans    *)
(* and sweeps, for every set of calls and of events and however often      *)
(* calls fall silent, fail or die.                                         *)
(***************************************************************************)
EXTENDS KafkaBridge, Supervisor, Migrations, Tasks, FiniteSetTheorems, SequenceTheorems,
  WellFoundedInduction, TLAPS

-----------------------------------------------------------------------------
(* The Kafka consumer.                                                     *)

(* The inductive invariant.  CommittedIsAccountedFor is not inductive: a   *)
(* commit covers whatever was fetched, of every partition, and a restart   *)
(* goes back to what was committed.                                        *)

Accounted(p, i) ==
  \/ <<p, i>> \in printed
  \/ \A j \in DOMAIN Log[p][i] : rows[Log[p][i][j]] > 0

(* What a consumer that is up has fetched, it has accounted for or has in  *)
(* hand.                                                                   *)
FetchedAccounted ==
  consumer = "up" =>
    \A p \in Partitions : \A i \in 1..position[p] : <<p, i>> = hand \/ Accounted(p, i)

CommittedAccounted ==
  \A p \in Partitions : \A i \in 1..committed[p] : Accounted(p, i)

(* The events of the message in hand that count as stored have rows. *)
StoredHaveRows ==
  HandSound =>
    /\ stored <= Len(EventsOf(hand))
    /\ \A j \in 1..stored : rows[EventsOf(hand)[j]] > 0

DownIsEmptyHanded == consumer = "down" => hand = NoMessage

OneRow == \A e \in KafkaEvents \ Anonymous : rows[e] <= 1

KafkaTyped ==
  /\ position \in [Partitions -> Nat] /\ committed \in [Partitions -> Nat]
  /\ KafkaTypeOK

KafkaInv ==
  /\ KafkaTyped /\ FetchedAccounted /\ CommittedAccounted
  /\ StoredHaveRows /\ DownIsEmptyHanded /\ OneRow

-----------------------------------------------------------------------------
(* Messages and their events.                                              *)

LEMMA MessageOf ==
  ASSUME NEW p \in Partitions, NEW i \in DOMAIN Log[p]
  PROVE  <<p, i>> \in Messages
BY DEF Messages

LEMMA MessageParts ==
  ASSUME NEW m \in Messages
  PROVE  /\ m[1] \in Partitions /\ m[2] \in DOMAIN Log[m[1]]
         /\ m = <<m[1], m[2]>>
<1>1. PICK p \in Partitions : m \in {<<p, i>> : i \in DOMAIN Log[p]}
  BY DEF Messages
<1>2. PICK i \in DOMAIN Log[p] : m = <<p, i>>
  BY <1>1
<1>. QED
  BY <1>2

LEMMA EventsOfMessage ==
  ASSUME NEW m \in Messages
  PROVE  EventsOf(m) \in Seq(KafkaEvents)
<1>1. m[1] \in Partitions /\ m[2] \in DOMAIN Log[m[1]]
  BY MessageParts
<1>2. Log[m[1]] \in Seq(Seq(KafkaEvents))
  BY <1>1, KafkaAssumption
<1>. QED
  BY <1>1, <1>2 DEF EventsOf

LEMMA NoMessageIsNone == NoMessage \notin Messages /\ Malformed \subseteq Messages
BY KafkaAssumption

LEMMA LogType == \A p \in Partitions : Log[p] \in Seq(Seq(KafkaEvents))
BY KafkaAssumption

(* A step that stores an event takes no row away and keeps one row at most *)
(* for an event with an id.                                                *)
LEMMA RowStored ==
  ASSUME KafkaTyped, OneRow, NEW e \in KafkaEvents, EnqueueRow(e)
  PROVE  /\ rows' \in [KafkaEvents -> Nat]
         /\ \A f \in KafkaEvents : rows[f] > 0 => rows'[f] > 0
         /\ rows'[e] > 0
         /\ OneRow'
<1>. USE DEF KafkaTyped, KafkaTypeOK, OneRow, EnqueueRow
<1>1. rows \in [KafkaEvents -> Nat]
  OBVIOUS
<1>2. rows' \in [KafkaEvents -> Nat]
  BY <1>1
<1>3. \A f \in KafkaEvents \ {e} : rows'[f] = rows[f]
  BY <1>1
<1>4. rows'[e] = IF rows[e] = 0 \/ e \in Anonymous THEN rows[e] + 1 ELSE rows[e]
  BY <1>1
<1>. QED
  BY <1>1, <1>2, <1>3, <1>4

-----------------------------------------------------------------------------
(* What has rows keeps them and what was printed stays printed, so what is *)
(* accounted for stays so.                                                 *)

LEMMA StaysAccounted ==
  ASSUME KafkaTyped, printed \subseteq printed',
         \A f \in KafkaEvents : rows[f] > 0 => rows'[f] > 0,
         NEW p \in Partitions, NEW i \in DOMAIN Log[p], Accounted(p, i)
  PROVE  Accounted(p, i)'
<1>1. \A j \in DOMAIN Log[p][i] : Log[p][i][j] \in KafkaEvents
  BY LogType
<1>. QED
  BY <1>1 DEF Accounted

LEMMA KafkaStarts == KafkaInit => KafkaInv
BY KafkaAssumption
   DEF KafkaInit, KafkaInv, KafkaTyped, KafkaTypeOK, FetchedAccounted, CommittedAccounted,
       StoredHaveRows, DownIsEmptyHanded, OneRow, HandSound

(* A step that stores nothing and commits nothing; what is no longer in    *)
(* hand was printed, or the consumer is down.                              *)
LEMMA LetGo ==
  ASSUME KafkaInv, UNCHANGED <<position, committed>>,
         rows' \in [KafkaEvents -> Nat],
         \A f \in KafkaEvents : rows[f] > 0 => rows'[f] > 0,
         OneRow', faults' \in 0..MaxBridgeFaults,
         hand' = NoMessage, stored' = 0,
         printed' \subseteq Messages, printed \subseteq printed',
         consumer' \in {"up", "down"},
         consumer' = "up" => consumer = "up" /\ (hand # NoMessage => hand \in printed')
  PROVE  KafkaInv'
<1>. USE DEF KafkaInv, KafkaTyped, KafkaTypeOK
<1>1. \A p \in Partitions : \A i \in 1..position[p] : i \in DOMAIN Log[p]
  BY LogType
<1>2. \A p \in Partitions : \A i \in 1..committed[p] : i \in DOMAIN Log[p]
  BY <1>1
<1>3. CommittedAccounted'
  BY <1>2, StaysAccounted DEF CommittedAccounted
<1>4. FetchedAccounted'
  <2>. SUFFICES ASSUME consumer' = "up", NEW p \in Partitions, NEW i \in 1..position[p]
                PROVE  Accounted(p, i)'
    BY DEF FetchedAccounted
  <2>1. i \in DOMAIN Log[p] /\ <<p, i>> \in Messages
    BY <1>1, MessageOf
  <2>2. CASE <<p, i>> = hand
    BY <2>1, <2>2, NoMessageIsNone DEF Accounted
  <2>3. CASE Accounted(p, i)
    BY <2>1, <2>3, StaysAccounted
  <2>. QED
    BY <2>2, <2>3 DEF FetchedAccounted
<1>. QED
  BY <1>3, <1>4 DEF StoredHaveRows, HandSound, DownIsEmptyHanded

-----------------------------------------------------------------------------
LEMMA FetchStep ==
  ASSUME KafkaInv, NEW p \in Partitions, FetchMessage(p)
  PROVE  KafkaInv'
<1>. USE DEF KafkaInv, KafkaTyped, KafkaTypeOK, FetchMessage
<1>1. position[p] + 1 \in DOMAIN Log[p] /\ hand' \in Messages
  BY LogType, MessageOf
<1>2. KafkaTyped'
  BY <1>1
<1>3. FetchedAccounted'
  <2>. SUFFICES ASSUME NEW q \in Partitions, NEW i \in 1..position'[q]
                PROVE  <<q, i>> = hand' \/ Accounted(q, i)'
    BY DEF FetchedAccounted
  <2>1. CASE q = p /\ i = position[p] + 1
    BY <2>1
  <2>2. CASE i \in 1..position[q]
    <3>1. i \in DOMAIN Log[q] /\ <<q, i>> # NoMessage
      BY <2>2, LogType, MessageOf, NoMessageIsNone
    <3>. QED
      BY <2>2, <3>1 DEF FetchedAccounted, Accounted
  <2>3. (q = p /\ i = position[p] + 1) \/ i \in 1..position[q]
    <3>1. position[p] \in Nat /\ position[q] \in Nat
      OBVIOUS
    <3>2. CASE q = p
      BY <3>1, <3>2
    <3>3. CASE q # p
      BY <3>3
    <3>. QED
      BY <3>2, <3>3
  <2>. QED
    BY <2>1, <2>2, <2>3
<1>4. StoredHaveRows'
  <2>. SUFFICES ASSUME HandSound'
                PROVE  /\ stored' <= Len(EventsOf(hand'))
                       /\ \A j \in 1..stored' : rows'[EventsOf(hand')[j]] > 0
    BY DEF StoredHaveRows, EventsOf
  <2>1. EventsOf(hand') \in Seq(KafkaEvents)
    BY <1>1, EventsOfMessage
  <2>. QED
    BY <2>1
<1>. QED
  BY <1>2, <1>3, <1>4 DEF CommittedAccounted, Accounted, DownIsEmptyHanded, OneRow

LEMMA EnqueueStep ==
  ASSUME KafkaInv, EnqueueNext
  PROVE  KafkaInv'
<1>. USE DEF KafkaInv, KafkaTyped, KafkaTypeOK, EnqueueNext
<1>. DEFINE e == EventsOf(hand)[stored + 1]
<1>1. hand \in Messages /\ EventsOf(hand) \in Seq(KafkaEvents) /\ HandSound
  BY EventsOfMessage DEF More, HandSound
<1>2. stored + 1 \in DOMAIN EventsOf(hand) /\ e \in KafkaEvents
  BY <1>1 DEF More
<1>3. /\ rows' \in [KafkaEvents -> Nat]
      /\ \A f \in KafkaEvents : rows[f] > 0 => rows'[f] > 0
      /\ rows'[e] > 0
      /\ OneRow'
  BY <1>2, RowStored
<1>4. \A p \in Partitions : \A i \in 1..position[p] : i \in DOMAIN Log[p]
  BY LogType
<1>5. FetchedAccounted'
  BY <1>3, <1>4, StaysAccounted DEF FetchedAccounted
<1>6. CommittedAccounted'
  <2>1. \A p \in Partitions : \A i \in 1..committed[p] : i \in DOMAIN Log[p]
    BY <1>4
  <2>. QED
    BY <1>3, <2>1, StaysAccounted DEF CommittedAccounted
<1>7. StoredHaveRows'
  <2>1. stored' <= Len(EventsOf(hand))
    BY <1>1, <1>2
  <2>2. ASSUME NEW j \in 1..stored'
        PROVE  rows'[EventsOf(hand)[j]] > 0
    <3>1. CASE j \in 1..stored
      BY <1>1, <1>2, <1>3, <3>1 DEF StoredHaveRows
    <3>2. CASE j = stored + 1
      BY <1>3, <3>2
    <3>. QED
      BY <3>1, <3>2
  <2>. QED
    BY <2>1, <2>2 DEF StoredHaveRows, EventsOf
<1>. QED
  BY <1>3, <1>5, <1>6, <1>7 DEF DownIsEmptyHanded

(* The commit covers all partitions: each of their messages up to the      *)
(* position is accounted for, the one in hand because all its events are   *)
(* stored.                                                                 *)
LEMMA CommitStep ==
  ASSUME KafkaInv, CommitPosition
  PROVE  KafkaInv'
<1>. USE DEF KafkaInv, KafkaTyped, KafkaTypeOK, CommitPosition
<1>1. /\ hand \in Messages /\ EventsOf(hand) \in Seq(KafkaEvents) /\ HandSound
      /\ consumer = "up"
  BY EventsOfMessage DEF HandSound, DownIsEmptyHanded
<1>2. \A j \in DOMAIN EventsOf(hand) : rows[EventsOf(hand)[j]] > 0
  BY <1>1 DEF More, StoredHaveRows
<1>3. ASSUME NEW p \in Partitions, NEW i \in 1..position[p]
      PROVE  Accounted(p, i)
  <2>1. CASE <<p, i>> = hand
    BY <1>2, <2>1 DEF Accounted, EventsOf
  <2>2. CASE <<p, i>> # hand
    BY <1>1, <2>2 DEF FetchedAccounted
  <2>. QED
    BY <2>1, <2>2
<1>4. FetchedAccounted' /\ CommittedAccounted'
  BY <1>3 DEF FetchedAccounted, CommittedAccounted, Accounted
<1>. QED
  BY <1>4 DEF StoredHaveRows, HandSound, DownIsEmptyHanded, OneRow

LEMMA StartStep ==
  ASSUME KafkaInv, ConsumerStarts
  PROVE  KafkaInv'
<1>. USE DEF KafkaInv, KafkaTyped, KafkaTypeOK, ConsumerStarts
<1>1. hand = NoMessage
  BY DEF DownIsEmptyHanded
<1>2. FetchedAccounted' /\ CommittedAccounted'
  BY DEF FetchedAccounted, CommittedAccounted, Accounted
<1>3. KafkaTyped'
  OBVIOUS
<1>. QED
  BY <1>1, <1>2, <1>3 DEF StoredHaveRows, HandSound, DownIsEmptyHanded, OneRow

(* The four ways to let go of the message in hand.                         *)
LEMMA LetGoStep ==
  ASSUME KafkaInv, RejectMessage \/ EnqueueFails \/ CommitFails \/ ConsumerDies
  PROVE  KafkaInv'
<1>1. /\ UNCHANGED <<position, committed>> /\ hand' = NoMessage /\ stored' = 0
      /\ faults' \in 0..MaxBridgeFaults
  BY KafkaAssumption
     DEF KafkaInv, KafkaTyped, KafkaTypeOK, RejectMessage, EnqueueFails, CommitFails,
         ConsumerDies, Give, Fault
<1>2. /\ rows' \in [KafkaEvents -> Nat]
      /\ \A f \in KafkaEvents : rows[f] > 0 => rows'[f] > 0
      /\ OneRow'
  <2>1. CASE UNCHANGED rows
    BY <2>1 DEF KafkaInv, KafkaTyped, KafkaTypeOK, OneRow
  <2>2. CASE EnqueueFails /\ EnqueueRow(EventsOf(hand)[stored + 1])
    <3>1. hand \in Messages /\ EventsOf(hand) \in Seq(KafkaEvents)
      BY <2>2, EventsOfMessage DEF EnqueueFails, More, HandSound, KafkaInv, KafkaTyped, KafkaTypeOK
    <3>2. EventsOf(hand)[stored + 1] \in KafkaEvents
      BY <2>2, <3>1 DEF EnqueueFails, More, KafkaInv, KafkaTyped, KafkaTypeOK
    <3>. QED
      BY <2>2, <3>2, RowStored DEF KafkaInv
  <2>. QED
    BY <2>1, <2>2 DEF RejectMessage, EnqueueFails, CommitFails, ConsumerDies
<1>3. CASE RejectMessage \/ EnqueueFails \/ CommitFails
  <2>1. hand \in Messages /\ consumer = "up"
    BY <1>3, NoMessageIsNone
       DEF RejectMessage, EnqueueFails, CommitFails, More, HandSound, KafkaInv, KafkaTyped,
           KafkaTypeOK, DownIsEmptyHanded
  <2>2. printed' = printed \cup {hand} /\ consumer' = consumer
    BY <1>3 DEF RejectMessage, EnqueueFails, CommitFails, Give
  <2>3. printed' \subseteq Messages
    BY <2>1, <2>2 DEF KafkaInv, KafkaTyped, KafkaTypeOK
  <2>. QED
    BY <1>1, <1>2, <2>1, <2>2, <2>3, LetGo
<1>4. CASE ConsumerDies
  <2>1. consumer' = "down" /\ printed' = printed
    BY <1>4 DEF ConsumerDies
  <2>2. printed' \subseteq Messages
    BY <2>1 DEF KafkaInv, KafkaTyped, KafkaTypeOK
  <2>. QED
    BY <1>1, <1>2, <2>1, <2>2, LetGo
<1>. QED
  BY <1>3, <1>4

LEMMA KafkaStep ==
  ASSUME KafkaInv, [KafkaNext]_kafkaVars
  PROVE  KafkaInv'
<1>1. CASE UNCHANGED kafkaVars
  BY <1>1 DEF kafkaVars, KafkaInv, KafkaTyped, KafkaTypeOK, FetchedAccounted, CommittedAccounted,
              Accounted, StoredHaveRows, HandSound, EventsOf, DownIsEmptyHanded, OneRow
<1>. QED
  BY <1>1, FetchStep, EnqueueStep, CommitStep, StartStep, LetGoStep
     DEF KafkaNext, HandleMessage

-----------------------------------------------------------------------------
(* The consumer's variables keep their types: the committed position never *)
(* passes the consumer's, nor that the end of the log                      *)
(* (rustfs_mq_bridge_cli.py:113-146).                                      *)
THEOREM KafkaTypeInvariant == KafkaSpec => []KafkaTypeOK
<1>1. KafkaInv => KafkaTypeOK
  BY DEF KafkaInv, KafkaTyped
<1>. QED
  BY <1>1, KafkaStarts, KafkaStep, PTL DEF KafkaSpec

(* Whatever fails and whenever the consumer starts anew, no message below  *)
(* the committed position was passed over in silence, and no event with an *)
(* id has two rows (rustfs_mq_bridge_cli.py:128-146).                      *)
THEOREM KafkaAccounted == KafkaSpec => []CommittedIsAccountedFor
<1>1. KafkaInv => CommittedIsAccountedFor
  BY DEF KafkaInv, CommittedAccounted, Accounted, OneRow, CommittedIsAccountedFor
<1>. QED
  BY <1>1, KafkaStarts, KafkaStep, PTL DEF KafkaSpec

-----------------------------------------------------------------------------
(* PID 1 of the container.                                                 *)

(* OneGeneration is not inductive: a launch needs that nothing of the      *)
(* generation before it runs any more.  PID 1 starts the programs afresh   *)
(* only while nothing it has started runs but what has outlived SIGKILL;   *)
(* and the source has one version per edit.                                *)
NothingLeft ==
  /\ stage \in {"launch", "kill"} => live \subseteq held
  /\ stage = "boot" => live = {}

Versions == edits \in 0..MaxEdits /\ source = edits + 1 /\ seen \in Nat

SupervisorInv == SupervisorTypeOK /\ Versions /\ NothingLeft /\ OneGeneration

LEMMA SupervisorStart == SupervisorInit => SupervisorInv
<1> SUFFICES ASSUME SupervisorInit PROVE SupervisorInv
  OBVIOUS
<1> MaxEdits \in Nat
  BY SupervisorAssumption
<1>1. SupervisorTypeOK
  <2>1. code \in [Programs -> 0..(MaxEdits + 1)] /\ \A p \in Programs : code[p] = 0
    BY DEF SupervisorInit
  <2>2. mode \in {"plain", "reload"} /\ stage = "boot" /\ watching = "off" /\ shutdown = FALSE
    BY DEF SupervisorInit
  <2>3. live = {} /\ old = {} /\ stubborn = {} /\ held = {} /\ seen <= source
    BY DEF SupervisorInit
  <2> QED BY <2>1, <2>2, <2>3 DEF SupervisorTypeOK
<1>2. Versions BY DEF SupervisorInit, Versions
<1>3. NothingLeft /\ OneGeneration BY DEF SupervisorInit, NothingLeft, OneGeneration
<1> QED BY <1>1, <1>2, <1>3 DEF SupervisorInv

(* Killed is the step in which a program gets onto the list of what        *)
(* outlived SIGKILL, so NothingLeft holds after it.                        *)
LEMMA SupervisorLoop ==
  ASSUME SupervisorInv, LoopStep
  PROVE  SupervisorInv'
<1> USE SupervisorAssumption
        DEF SupervisorInv, SupervisorTypeOK, Versions, NothingLeft, OneGeneration,
            procVars, sourceVars
<1>1. CASE Boot BY <1>1 DEF Boot
<1>2. CASE Launch BY <1>2 DEF Launch
<1>3. CASE MainReturns BY <1>3 DEF MainReturns
<1>4. CASE WatchSet BY <1>4 DEF WatchSet
<1>5. CASE Alarm BY <1>5 DEF Alarm
<1>6. CASE Killed
  <2>1. PICK left \in SUBSET live :
          /\ live' = left /\ held' = held \cup left
          /\ code' = [p \in Programs |-> IF p \in left THEN code[p] ELSE 0]
    BY <1>6 DEF Killed
  <2>2. /\ stage' = "kill"
        /\ UNCHANGED <<mode, old, stubborn, source, watching, seen, edits, shutdown, ends>>
    BY <1>6 DEF Killed
  <2> QED BY <2>1, <2>2
<1>7. CASE Restart BY <1>7 DEF Restart
<1>8. CASE PlainEnds BY <1>8 DEF PlainEnds
<1>9. CASE ContainerEnds BY <1>9 DEF ContainerEnds
<1> QED BY <1>1, <1>2, <1>3, <1>4, <1>5, <1>6, <1>7, <1>8, <1>9 DEF LoopStep

LEMMA SupervisorRest ==
  ASSUME SupervisorInv, [SupervisorNext]_supervisorVars
  PROVE  SupervisorInv'
<1> USE SupervisorAssumption
        DEF SupervisorInv, SupervisorTypeOK, Versions, NothingLeft, OneGeneration,
            procVars, sourceVars
<1>1. CASE LoopStep BY <1>1, SupervisorLoop
<1>2. CASE BootFails BY <1>2 DEF BootFails, End
<1>3. CASE Edit BY <1>3 DEF Edit
<1>4. CASE DockerStop BY <1>4 DEF DockerStop
<1>5. ASSUME NEW p \in Programs, ProcessStep(p) PROVE SupervisorInv'
  <2>1. CASE Load(p) BY <2>1 DEF Load
  <2>2. CASE ProcessEnds(p) BY <2>2 DEF ProcessEnds, End, Leaves
  <2>3. CASE Terminates(p) BY <2>3 DEF Terminates, Leaves
  <2>4. CASE Resists(p) BY <2>4 DEF Resists, End
  <2> QED BY <1>5, <2>1, <2>2, <2>3, <2>4 DEF ProcessStep
<1>6. CASE UNCHANGED supervisorVars BY <1>6 DEF supervisorVars
<1> QED BY <1>1, <1>2, <1>3, <1>4, <1>5, <1>6 DEF SupervisorNext

LEMMA SupervisorAlways == SupervisorSpec => []SupervisorInv
<1>1. SupervisorInv /\ [SupervisorNext]_supervisorVars => SupervisorInv'
  BY SupervisorRest
<1> QED BY SupervisorStart, <1>1, PTL DEF SupervisorSpec

(* PID 1's state stays within its types: only a program that runs has      *)
(* loaded a version of the source, and none newer than the last edit       *)
(* (dev_hot_reload.py:121-246).                                            *)
THEOREM SupervisorTypeCorrect == SupervisorSpec => []SupervisorTypeOK
  BY SupervisorAlways, PTL DEF SupervisorInv

(* Whatever edits, exits and stops come together, no program is started a   *)
(* second time beside an earlier process of its own, except beside one     *)
(* that SIGKILL did not end (dev_hot_reload.py:155-173).                   *)
THEOREM OneGenerationCorrect == SupervisorSpec => []OneGeneration
  BY SupervisorAlways, PTL DEF SupervisorInv

-----------------------------------------------------------------------------
(* The migrations.                                                         *)

(* A set of naturals that is not empty has a least member: CHOOSE finds    *)
(* the first built-in file with the parameters looked for.                 *)
LEMMA LeastNatural ==
  ASSUME NEW S \in SUBSET Nat, S # {}
  PROVE  \E n \in S : \A m \in S : n <= m
<1> DEFINE Below == {pair \in Nat \X Nat : pair[1] < pair[2]}
<1>1. IsWellFoundedOn(Below, Nat) BY NatLessThanWellFounded DEF OpToRel
<1> HIDE DEF Below
<1>2. PICK n \in S : \A m \in S : <<m, n>> \notin Below BY <1>1, WFMin
<1>3. \A m \in S : ~(m < n) BY <1>2 DEF Below
<1> QED BY <1>3

(* ParametersKept is not inductive: what becomes of a row depends on what  *)
(* each starting process has read of it and on the column it still has.    *)
(* A knowledge base only ever names a built-in file or one of its own, and *)
(* a process past the migration of the columns has seen the old one gone.  *)
Paths   == BuiltInFiles \cup LegacyFiles
Own(k)  == BuiltInFiles \cup ({k} \X {"config", "index"}) \cup {NoPath}
Migrated == {"lease?", "addLease", "load", "infer", "rewrite", "reload", "clean", "up"}

(* The types, with the paths of each row in hand its own or built in.      *)
StoreTyped ==
  /\ backend \in {"mysql", "sqlite"} /\ columns \subseteq {"old", "path", "lease"}
  /\ holds \in [LegacyFiles -> Profiles \cup {NoPath}]
  /\ base \in [Bases -> [old : Paths \cup {NoPath}, path : Paths \cup {NoPath}]]
  /\ \A k \in Bases : base[k].old \in Own(k) /\ base[k].path \in Own(k)
  /\ at \in [Starters -> {"down", "path?", "addPath", "old?", "copy", "drop", "lease?", "addLease",
                          "load", "infer", "rewrite", "reload", "clean", "up", "failed"}]
  /\ found \in [Starters -> [Bases -> Paths \cup {NoPath}]]
  /\ wanted \in [Bases -> Profiles \cup {NoPath}]

(* The old column goes only when it is empty or its values are copied, and *)
(* never comes back.                                                       *)
OldGone ==
  /\ "old" \notin columns => \A k \in Bases : base[k].old = NoPath
  /\ \A p \in Starters :
       /\ at[p] \in Migrated => "old" \notin columns
       /\ at[p] = "drop" => \A k \in Bases : base[k].path = NoPath => base[k].old = NoPath

(* What a process has in hand of a row that nobody registered anew since:  *)
(* a file of its own that holds the parameters wanted or has been removed, *)
(* a built-in file with the parameters wanted, or, when it removes files,  *)
(* a built-in path that the row itself has had ever since.                 *)
InHand ==
  \A p \in Starters, k \in Bases :
    /\ at[p] \in {"infer", "clean"} => found[p][k] \in Own(k)
    /\ at[p] = "rewrite" => found[p][k] \in BuiltInFiles \cup {NoPath}
    /\ k \notin crossed =>
         /\ at[p] = "infer" /\ found[p][k] \in LegacyFiles =>
              holds[found[p][k]] \in {NoPath, wanted[k]}
         /\ at[p] = "rewrite" /\ found[p][k] # NoPath => ProfileOf[found[p][k]] = wanted[k]
         /\ at[p] = "clean" /\ found[p][k] \in BuiltInFiles => base[k].path \in BuiltInFiles

MigrationsInv == StoreTyped /\ OldGone /\ InHand /\ ParametersKept

(* The path a row gives. *)
PathOf(k) == IF base[k].path # NoPath THEN base[k].path ELSE base[k].old

(* The files and the paths, from the assumptions on the constants.         *)
LEMMA FilesAre ==
  /\ \A k \in Bases : {k} \X {"config", "index"} \subseteq LegacyFiles
  /\ \A file \in LegacyFiles : file[1] \in Bases
  /\ BuiltInFiles \cap LegacyFiles = {}
  /\ NoPath \notin BuiltInFiles /\ NoPath \notin LegacyFiles /\ NoPath \notin Profiles
  /\ ProfileOf \in [BuiltInFiles -> Profiles]
BY MigrationsAssumption DEF LegacyFiles

LEMMA OwnIs ==
  ASSUME NEW k \in Bases
  PROVE  /\ Own(k) \subseteq Paths \cup {NoPath}
         /\ \A file \in LegacyFiles : file \in Own(k) => file[1] = k
BY FilesAre DEF Own, Paths

(* What is inferred for a path is a built-in file with the parameters that *)
(* the file at the path holds.                                             *)
LEMMA InferredIs ==
  ASSUME NEW k, NEW path
  PROVE  /\ Inferred(k, path) \in BuiltInFiles \cup {NoPath}
         /\ Inferred(k, path) # NoPath => /\ path \in LegacyFiles /\ holds[path] # NoPath
                                          /\ ProfileOf[Inferred(k, path)] = holds[path]
<1> DEFINE Matches == {i \in DOMAIN BuiltIns : ProfileOf[BuiltIns[i]] = holds[path]}
           Best    == CHOOSE i \in Matches : \A j \in Matches : i <= j
<1>1. CASE path \notin LegacyFiles \/ holds[path] = NoPath \/ Matches = {}
  <2>1. Inferred(k, path) = NoPath BY <1>1 DEF Inferred
  <2> QED BY <2>1
<1>2. CASE ~(path \notin LegacyFiles \/ holds[path] = NoPath \/ Matches = {})
  <2>1. Inferred(k, path) = BuiltIns[Best] BY <1>2 DEF Inferred
  <2>2. Matches \subseteq Nat /\ Matches # {}
    <3>1. DOMAIN BuiltIns \subseteq Nat BY MigrationsAssumption
    <3> QED BY <1>2, <3>1
  <2>3. \E i \in Matches : \A j \in Matches : i <= j
    <3> HIDE DEF Matches
    <3> QED BY <2>2, LeastNatural
  <2>4. Best \in Matches
    <3> HIDE DEF Matches
    <3> QED BY <2>3
  <2>5. BuiltIns[Best] \in BuiltInFiles /\ ProfileOf[BuiltIns[Best]] = holds[path]
    <3> HIDE DEF Best
    <3> QED BY <2>4 DEF BuiltInFiles
  <2> QED BY <1>2, <2>1, <2>5
<1> QED BY <1>1, <1>2

-----------------------------------------------------------------------------
LEMMA MigrationsStart == MigrationsInit => MigrationsInv
<1> SUFFICES ASSUME MigrationsInit PROVE MigrationsInv
  OBVIOUS
<1>1. PICK where \in [Bases -> BuiltInFiles \cup LegacyFiles \cup {NoPath}] :
        /\ \A k \in Bases : where[k] \in LegacyFiles => where[k][1] = k /\ holds[where[k]] # NoPath
        /\ base = [k \in Bases |->
                     IF "old" \in columns THEN [old |-> where[k], path |-> NoPath]
                                          ELSE [old |-> NoPath, path |-> where[k]]]
        /\ wanted = [k \in Bases |-> ProfileAt(where[k])]
  BY DEF MigrationsInit
<1>2. /\ holds \in [LegacyFiles -> Profiles \cup {NoPath}] /\ at = [p \in Starters |-> "down"]
      /\ found = [p \in Starters |-> [k \in Bases |-> NoPath]]
      /\ backend \in {"mysql", "sqlite"} /\ columns \in {{"old"}, {"path", "lease"}}
  BY DEF MigrationsInit
<1>3. ASSUME NEW k \in Bases PROVE where[k] \in Own(k)
  <2>1. CASE where[k] \in LegacyFiles
    <3>1. where[k][1] = k BY <1>1, <2>1
    <3> QED BY <2>1, <3>1 DEF Own, LegacyFiles
  <2> QED BY <2>1 DEF Own
<1>4. ASSUME NEW k \in Bases PROVE ProfileAt(where[k]) \in Profiles \cup {NoPath}
  BY <1>2, FilesAre DEF ProfileAt
<1>5. StoreTyped
  <2>1. base \in [Bases -> [old : Paths \cup {NoPath}, path : Paths \cup {NoPath}]]
    BY <1>1, <1>2 DEF Paths
  <2>2. \A k \in Bases : base[k].old \in Own(k) /\ base[k].path \in Own(k)
    BY <1>1, <1>2, <1>3 DEF Own
  <2>3. wanted \in [Bases -> Profiles \cup {NoPath}] BY <1>1, <1>4
  <2> QED BY <1>2, <2>1, <2>2, <2>3 DEF StoreTyped
<1>6. OldGone BY <1>1, <1>2 DEF OldGone, Migrated
<1>7. InHand BY <1>2 DEF InHand
<1>8. ASSUME NEW k \in Bases PROVE ProfileAt(PathOf(k)) = wanted[k]
  <2>1. PathOf(k) = where[k] BY <1>1, <1>2 DEF PathOf
  <2> QED BY <1>1, <2>1
<1> QED BY <1>5, <1>6, <1>7, <1>8 DEF MigrationsInv, ParametersKept, PathOf

-----------------------------------------------------------------------------
(* A step of the schema, by what it may do to the columns and to the rows: *)
(* the path that a row gives stays, whichever column it moves to.          *)
SchemaStep(p) ==
  /\ SchemaOnly
  /\ \E step \in {"down", "path?", "addPath", "old?", "copy", "drop", "lease?", "addLease",
                  "load", "failed"} :
       /\ Go(p, step) /\ (step \in Migrated => "old" \notin columns')
       /\ step = "drop" => \A k \in Bases : base'[k].path = NoPath => base'[k].old = NoPath
  /\ columns' \subseteq {"old", "path", "lease"}
  /\ "old" \notin columns => "old" \notin columns'
  /\ "old" \notin columns' => \A k \in Bases : base'[k].old = NoPath
  /\ base' \in [Bases -> [old : Paths \cup {NoPath}, path : Paths \cup {NoPath}]]
  /\ \A k \in Bases :
       /\ base'[k].old \in {base[k].old, NoPath} /\ base'[k].path \in Own(k)
       /\ base[k].path # NoPath => base'[k].path = base[k].path
       /\ PathOf(k)' = PathOf(k)

LEMMA SameRows ==
  ASSUME StoreTyped, UNCHANGED base
  PROVE  /\ base' \in [Bases -> [old : Paths \cup {NoPath}, path : Paths \cup {NoPath}]]
         /\ \A k \in Bases :
              /\ base'[k].old \in {base[k].old, NoPath} /\ base'[k].path \in Own(k)
              /\ base[k].path # NoPath => base'[k].path = base[k].path
              /\ PathOf(k)' = PathOf(k)
BY DEF StoreTyped, PathOf

LEMMA ColumnsIs ==
  ASSUME StoreTyped, OldGone, NEW p \in Starters,
         NEW step \in {"path?", "addPath", "old?", "copy", "lease?", "addLease", "load", "failed"},
         SchemaOnly, Go(p, step), UNCHANGED base, columns' \subseteq {"old", "path", "lease"},
         "old" \in columns' <=> "old" \in columns, step \in Migrated => "old" \notin columns
  PROVE  SchemaStep(p)
<1>1. "old" \notin columns => \A k \in Bases : base[k].old = NoPath BY DEF OldGone
<1> QED BY <1>1, SameRows DEF SchemaStep

LEMMA SchemaIs ==
  ASSUME StoreTyped, OldGone, NEW p \in Starters, InitSchema(p)
  PROVE  SchemaStep(p)
<1>1. at[p] \in Migrated => "old" \notin columns BY DEF OldGone
<1>2. "old" \notin columns => \A k \in Bases : base[k].old = NoPath BY DEF OldGone
<1>3. columns \subseteq {"old", "path", "lease"} BY DEF StoreTyped
<1>4. CASE Opens(p)
  <2>1. SchemaOnly /\ Go(p, "path?") /\ UNCHANGED <<columns, base>> BY <1>4 DEF Opens
  <2> QED BY <1>3, <2>1, ColumnsIs DEF Migrated
<1>5. CASE AskForColumn(p, "path?", "path", "addPath", "old?")
  <2>1. /\ at[p] = "path?" /\ SchemaOnly /\ UNCHANGED <<columns, base>>
        /\ Go(p, "addPath") \/ (Go(p, "old?"))
    BY <1>5 DEF AskForColumn
  <2>2. CASE Go(p, "addPath") BY <1>1, <1>3, <2>1, <2>2, ColumnsIs DEF Migrated
  <2>3. CASE Go(p, "old?") BY <1>1, <1>3, <2>1, <2>3, ColumnsIs DEF Migrated
  <2> QED BY <2>1, <2>2, <2>3
<1>6. CASE AskForColumn(p, "old?", "old", "copy", "lease?")
  <2>1. /\ at[p] = "old?" /\ SchemaOnly /\ UNCHANGED <<columns, base>>
        /\ Go(p, "copy") \/ (Go(p, "lease?") /\ "old" \notin columns)
    BY <1>6 DEF AskForColumn
  <2>2. CASE Go(p, "copy") BY <1>1, <1>3, <2>1, <2>2, ColumnsIs DEF Migrated
  <2>3. CASE Go(p, "lease?") /\ "old" \notin columns BY <1>1, <1>3, <2>1, <2>3, ColumnsIs DEF Migrated
  <2> QED BY <2>1, <2>2, <2>3
<1>7. CASE AskForColumn(p, "lease?", "lease", "addLease", "load")
  <2>1. /\ at[p] = "lease?" /\ SchemaOnly /\ UNCHANGED <<columns, base>>
        /\ Go(p, "addLease") \/ (Go(p, "load"))
    BY <1>7 DEF AskForColumn
  <2>2. CASE Go(p, "addLease") BY <1>1, <1>3, <2>1, <2>2, ColumnsIs DEF Migrated
  <2>3. CASE Go(p, "load") BY <1>1, <1>3, <2>1, <2>3, ColumnsIs DEF Migrated
  <2> QED BY <2>1, <2>2, <2>3
<1>8. CASE AddColumn(p, "addPath", "path", "old?")
  <2>0. columns' = columns \/ columns' = columns \cup {"path"} BY <1>8 DEF AddColumn
  <2>1. /\ at[p] = "addPath" /\ SchemaOnly /\ UNCHANGED base /\ (Go(p, "failed") \/ Go(p, "old?"))
        /\ columns' \subseteq {"old", "path", "lease"} /\ ("old" \in columns' <=> "old" \in columns)
    <3>1. /\ at[p] = "addPath" /\ SchemaOnly /\ UNCHANGED base /\ (Go(p, "failed") \/ Go(p, "old?"))
      BY <1>8 DEF AddColumn
    <3> QED BY <1>3, <2>0, <3>1
  <2>2. CASE Go(p, "failed") BY <2>1, <2>2, ColumnsIs DEF Migrated
  <2>3. CASE Go(p, "old?") BY <1>1, <2>1, <2>3, ColumnsIs DEF Migrated
  <2> QED BY <2>1, <2>2, <2>3
<1>9. CASE AddColumn(p, "addLease", "lease", "load")
  <2>0. columns' = columns \/ columns' = columns \cup {"lease"} BY <1>9 DEF AddColumn
  <2>1. /\ at[p] = "addLease" /\ SchemaOnly /\ UNCHANGED base /\ (Go(p, "failed") \/ Go(p, "load"))
        /\ columns' \subseteq {"old", "path", "lease"} /\ ("old" \in columns' <=> "old" \in columns)
    <3>1. /\ at[p] = "addLease" /\ SchemaOnly /\ UNCHANGED base /\ (Go(p, "failed") \/ Go(p, "load"))
      BY <1>9 DEF AddColumn
    <3> QED BY <1>3, <2>0, <3>1
  <2>2. CASE Go(p, "failed") BY <2>1, <2>2, ColumnsIs DEF Migrated
  <2>3. CASE Go(p, "load") BY <1>1, <2>1, <2>3, ColumnsIs DEF Migrated
  <2> QED BY <2>1, <2>2, <2>3
<1>10. Filled \in [Bases -> [old : Paths \cup {NoPath}, path : Paths \cup {NoPath}]]
       /\ \A k \in Bases : /\ Filled[k].old = base[k].old
                           /\ Filled[k].path = PathOf(k)
  BY DEF StoreTyped, Filled, PathOf
<1>11. \A k \in Bases : PathOf(k) \in Own(k) BY DEF StoreTyped, PathOf
<1>12. CASE CopyPaths(p)
  <2>1. CASE "old" \notin columns
    BY <1>1, <1>2, <1>3, <1>12, <2>1, SameRows DEF CopyPaths, SchemaStep, Migrated
  <2>2. CASE "old" \in columns
    <3>1. base' = Filled /\ columns' = columns /\ Go(p, "drop") /\ SchemaOnly
      BY <1>12, <2>2 DEF CopyPaths
    <3>2. \A k \in Bases : PathOf(k)' = PathOf(k) BY <1>10, <3>1 DEF PathOf
    <3>3. \A k \in Bases : base'[k].path = NoPath => base'[k].old = NoPath
      BY <1>10, <3>1 DEF PathOf
    <3>4. \A k \in Bases : /\ base'[k].old \in {base[k].old, NoPath} /\ base'[k].path \in Own(k)
                           /\ base[k].path # NoPath => base'[k].path = base[k].path
      BY <1>10, <1>11, <3>1 DEF PathOf
    <3> QED BY <1>3, <1>10, <2>2, <3>1, <3>2, <3>3, <3>4 DEF SchemaStep, Migrated
  <2> QED BY <2>1, <2>2
<1>13. CASE DropOld(p)
  <2>1. CASE "old" \notin columns
    BY <1>1, <1>2, <1>3, <1>13, <2>1, SameRows DEF DropOld, SchemaStep, Migrated
  <2>2. CASE "old" \in columns
    <3>1. base' = Dropped(base) /\ columns' = columns \ {"old"} /\ Go(p, "lease?") /\ SchemaOnly
      BY <1>13, <2>2 DEF DropOld
    <3>2. \A k \in Bases : base[k].path = NoPath => base[k].old = NoPath
      BY <1>13 DEF DropOld, OldGone
    <3>3. /\ Dropped(base) \in [Bases -> [old : Paths \cup {NoPath}, path : Paths \cup {NoPath}]]
          /\ \A k \in Bases : Dropped(base)[k].old = NoPath /\ Dropped(base)[k].path = base[k].path
      BY DEF StoreTyped, Dropped
    <3>4. \A k \in Bases : PathOf(k)' = PathOf(k) BY <3>1, <3>2, <3>3 DEF PathOf
    <3>5. \A k \in Bases : base[k].path \in Own(k) BY DEF StoreTyped
    <3> QED BY <1>3, <3>1, <3>3, <3>4, <3>5 DEF SchemaStep, Migrated
  <2> QED BY <2>1, <2>2
<1>14. CASE Rebuild(p)
  <2>1. CASE "old" \notin columns
    BY <1>1, <1>2, <1>3, <1>14, <2>1, SameRows DEF Rebuild, SchemaStep, Migrated
  <2>2. CASE "old" \in columns
    <3>1. /\ base' = Dropped(Filled) /\ columns' = {"path", "lease"} /\ Go(p, "load")
          /\ SchemaOnly
      BY <1>14, <2>2 DEF Rebuild
    <3>2. /\ Dropped(Filled) \in [Bases -> [old : Paths \cup {NoPath}, path : Paths \cup {NoPath}]]
          /\ \A k \in Bases : Dropped(Filled)[k].old = NoPath /\ Dropped(Filled)[k].path = PathOf(k)
      BY <1>10 DEF Dropped
    <3>3. \A k \in Bases : PathOf(k)' = PathOf(k)
      BY <3>1, <3>2 DEF PathOf
    <3>4. \A k \in Bases : base[k].path # NoPath => base'[k].path = base[k].path
      BY <3>1, <3>2 DEF PathOf
    <3> QED BY <1>11, <3>1, <3>2, <3>3, <3>4 DEF SchemaStep, Migrated
  <2> QED BY <2>1, <2>2
<1> QED BY <1>4, <1>5, <1>6, <1>7, <1>8, <1>9, <1>12, <1>13, <1>14 DEF InitSchema

LEMMA SchemaKeeps ==
  ASSUME MigrationsInv, NEW p \in Starters, SchemaStep(p)
  PROVE  MigrationsInv'
<1>1. StoreTyped /\ OldGone /\ InHand /\ ParametersKept BY DEF MigrationsInv
<1>2. UNCHANGED <<backend, holds, found, wanted, crossed>> BY DEF SchemaStep, SchemaOnly
<1>3. PICK step \in {"down", "path?", "addPath", "old?", "copy", "drop", "lease?", "addLease",
                     "load", "failed"} :
        /\ at' = [at EXCEPT ![p] = step] /\ (step \in Migrated => "old" \notin columns')
        /\ step = "drop" => \A k \in Bases : base'[k].path = NoPath => base'[k].old = NoPath
  BY DEF SchemaStep, Go
<1>4. /\ columns' \subseteq {"old", "path", "lease"}
      /\ "old" \notin columns => "old" \notin columns'
      /\ "old" \notin columns' => \A k \in Bases : base'[k].old = NoPath
      /\ base' \in [Bases -> [old : Paths \cup {NoPath}, path : Paths \cup {NoPath}]]
  BY DEF SchemaStep
<1>5. \A k \in Bases : /\ base'[k].old \in {base[k].old, NoPath} /\ base'[k].path \in Own(k)
                       /\ base[k].path # NoPath => base'[k].path = base[k].path
                       /\ PathOf(k)' = PathOf(k)
  BY DEF SchemaStep
<1>6. \A q \in Starters : at'[q] = IF q = p THEN step ELSE at[q] BY <1>1, <1>3 DEF StoreTyped
<1>7. StoreTyped'
  <2>1. at' \in [Starters -> {"down", "path?", "addPath", "old?", "copy", "drop", "lease?",
                              "addLease", "load", "infer", "rewrite", "reload", "clean", "up",
                              "failed"}]
    BY <1>1, <1>3 DEF StoreTyped
  <2>2. \A k \in Bases : base'[k].old \in Own(k) /\ base'[k].path \in Own(k)
    BY <1>1, <1>5 DEF StoreTyped, Own
  <2> QED BY <1>1, <1>2, <1>4, <2>1, <2>2 DEF StoreTyped, Own
<1>8. OldGone'
  <2>1. ASSUME NEW q \in Starters, at'[q] \in Migrated PROVE "old" \notin columns'
    BY <1>1, <1>3, <1>4, <1>6, <2>1 DEF OldGone
  <2>2. ASSUME NEW q \in Starters, at'[q] = "drop", NEW k \in Bases, base'[k].path = NoPath
        PROVE  base'[k].old = NoPath
    <3>1. CASE q = p BY <1>3, <1>6, <2>2, <3>1
    <3>2. CASE q # p BY <1>1, <1>5, <1>6, <2>2, <3>2 DEF OldGone
    <3> QED BY <3>1, <3>2
  <2> QED BY <1>4, <2>1, <2>2 DEF OldGone, Migrated
<1>9. InHand'
  <2> SUFFICES ASSUME NEW q \in Starters, NEW k \in Bases
               PROVE  /\ at'[q] \in {"infer", "clean"} => found[q][k] \in Own(k)
                      /\ at'[q] = "rewrite" => found[q][k] \in BuiltInFiles \cup {NoPath}
                      /\ k \notin crossed =>
                           /\ at'[q] = "infer" /\ found[q][k] \in LegacyFiles =>
                                holds[found[q][k]] \in {NoPath, wanted[k]}
                           /\ at'[q] = "rewrite" /\ found[q][k] # NoPath =>
                                ProfileOf[found[q][k]] = wanted[k]
                           /\ at'[q] = "clean" /\ found[q][k] \in BuiltInFiles =>
                                base'[k].path \in BuiltInFiles
    BY <1>2 DEF InHand, Own
  <2>1. CASE at'[q] \notin {"infer", "rewrite", "clean"} BY <2>1
  <2>2. CASE at'[q] \in {"infer", "rewrite", "clean"}
    <3>1. at'[q] = at[q] BY <1>3, <1>6, <2>2
    <3>2. base[k].path \in BuiltInFiles => base'[k].path \in BuiltInFiles BY <1>5, FilesAre
    <3> QED BY <1>1, <3>1, <3>2 DEF InHand
  <2> QED BY <2>1, <2>2
<1>10. ParametersKept'
  <2>1. \A k \in Bases : ProfileAt(PathOf(k))' = ProfileAt(PathOf(k)) BY <1>2, <1>5 DEF ProfileAt
  <2> QED BY <1>1, <1>2, <2>1 DEF ParametersKept, PathOf
<1> QED BY <1>7, <1>8, <1>9, <1>10 DEF MigrationsInv
-----------------------------------------------------------------------------
(* What InHand asks of the process that steps and of one row; Keeps is for *)
(* the steps of one process that touch neither the schema nor what is      *)
(* wanted.                                                                 *)
HandFits(p, step, k) ==
  /\ step \in {"infer", "clean"} => found'[p][k] \in Own(k)
  /\ step = "rewrite" => found'[p][k] \in BuiltInFiles \cup {NoPath}
  /\ k \notin crossed =>
       /\ step = "infer" /\ found'[p][k] \in LegacyFiles =>
            holds'[found'[p][k]] \in {NoPath, wanted[k]}
       /\ step = "rewrite" /\ found'[p][k] # NoPath => ProfileOf[found'[p][k]] = wanted[k]
       /\ step = "clean" /\ found'[p][k] \in BuiltInFiles => base'[k].path \in BuiltInFiles

LEMMA Keeps ==
  ASSUME MigrationsInv, UNCHANGED <<schemaVars, wanted, crossed>>,
         NEW p \in Starters,
         NEW step \in {"down", "infer", "rewrite", "reload", "clean", "up", "failed"},
         at' = [at EXCEPT ![p] = step], step \in Migrated => at[p] \in Migrated,
         found' \in [Starters -> [Bases -> Paths \cup {NoPath}]],
         \A q \in Starters \ {p} : found'[q] = found[q],
         base' \in [Bases -> [old : Paths \cup {NoPath}, path : Paths \cup {NoPath}]],
         \A k \in Bases : /\ base'[k].old = base[k].old
                          /\ base'[k].path \in {base[k].path} \cup BuiltInFiles,
         holds' \in [LegacyFiles -> Profiles \cup {NoPath}],
         \A file \in LegacyFiles : holds'[file] \in {holds[file], NoPath},
         \A k \in Bases : HandFits(p, step, k),
         \A k \in Bases \ crossed : ProfileAt(PathOf(k))' = wanted[k]
  PROVE  MigrationsInv'
<1>1. StoreTyped /\ OldGone /\ InHand BY DEF MigrationsInv
<1>2. \A q \in Starters : at'[q] = IF q = p THEN step ELSE at[q] BY <1>1 DEF StoreTyped
<1>3. UNCHANGED <<backend, columns, wanted, crossed>> BY DEF schemaVars
<1>4. StoreTyped'
  <2>1. at' \in [Starters -> {"down", "path?", "addPath", "old?", "copy", "drop", "lease?",
                              "addLease", "load", "infer", "rewrite", "reload", "clean", "up",
                              "failed"}]
    BY <1>1 DEF StoreTyped
  <2>2. \A k \in Bases : base'[k].old \in Own(k) /\ base'[k].path \in Own(k)
    BY <1>1 DEF StoreTyped, Own
  <2> QED BY <1>1, <1>3, <2>1, <2>2 DEF StoreTyped, Own
<1>5. OldGone'
  <2>1. "old" \notin columns => \A k \in Bases : base'[k].old = NoPath BY <1>1 DEF OldGone
  <2>2. \A q \in Starters : at'[q] \in Migrated => "old" \notin columns
    BY <1>1, <1>2 DEF OldGone
  <2>3. ASSUME NEW q \in Starters, at'[q] = "drop", NEW k \in Bases, base'[k].path = NoPath
        PROVE  base'[k].old = NoPath
    <3>1. q # p /\ at[q] = "drop" BY <1>2, <2>3
    <3>2. base[k].path = NoPath BY <2>3, FilesAre
    <3> QED BY <1>1, <3>1, <3>2 DEF OldGone
  <2> QED BY <1>3, <2>1, <2>2, <2>3 DEF OldGone, Migrated
<1>6. InHand'
  <2>1. ASSUME NEW q \in Starters, NEW k \in Bases
        PROVE  /\ at'[q] \in {"infer", "clean"} => found'[q][k] \in Own(k)
               /\ at'[q] = "rewrite" => found'[q][k] \in BuiltInFiles \cup {NoPath}
               /\ k \notin crossed =>
                    /\ at'[q] = "infer" /\ found'[q][k] \in LegacyFiles =>
                         holds'[found'[q][k]] \in {NoPath, wanted[k]}
                    /\ at'[q] = "rewrite" /\ found'[q][k] # NoPath =>
                         ProfileOf[found'[q][k]] = wanted[k]
                    /\ at'[q] = "clean" /\ found'[q][k] \in BuiltInFiles =>
                         base'[k].path \in BuiltInFiles
    <3>1. CASE q = p
      <4>1. HandFits(p, step, k) OBVIOUS
      <4> QED BY <1>2, <3>1, <4>1 DEF HandFits
    <3>2. CASE q # p
      <4>1. at'[q] = at[q] /\ found'[q] = found[q] BY <1>2, <3>2
      <4>2. base[k].path \in BuiltInFiles => base'[k].path \in BuiltInFiles
        OBVIOUS
      <4> QED BY <1>1, <4>1, <4>2 DEF InHand
    <3> QED BY <3>1, <3>2
  <2> QED BY <1>3, <2>1 DEF InHand, Own
<1>7. ParametersKept' BY <1>3 DEF ParametersKept, PathOf
<1> QED BY <1>4, <1>5, <1>6, <1>7 DEF MigrationsInv

(* The file removed is none that a row gives: the row whose reading made   *)
(* it redundant has named a built-in one ever since.                       *)
LEMMA RemovalKeeps ==
  ASSUME MigrationsInv, NEW p \in Starters, NEW file \in LegacyFiles,
         at[p] = "clean", Redundant(p, file), UNCHANGED <<base, wanted, crossed>>,
         holds' = [holds EXCEPT ![file] = NoPath]
  PROVE  \A k \in Bases \ crossed : ProfileAt(PathOf(k))' = wanted[k]
<1> SUFFICES ASSUME NEW k \in Bases \ crossed PROVE ProfileAt(PathOf(k))' = wanted[k]
  OBVIOUS
<1>1. StoreTyped /\ OldGone /\ InHand /\ ParametersKept BY DEF MigrationsInv
<1>2. ProfileAt(PathOf(k)) = wanted[k] /\ PathOf(k)' = PathOf(k)
  BY <1>1 DEF ParametersKept, PathOf
<1>3. \A f \in LegacyFiles : f # file => holds'[f] = holds[f] BY <1>1 DEF StoreTyped
<1>4. PathOf(k) # file
  <2>1. CASE file[1] = k
    <3>1. found[p][k] # NoPath /\ found[p][k] = Inferred(k, file) BY <2>1 DEF Redundant
    <3>2. found[p][k] \in BuiltInFiles BY <3>1, InferredIs
    <3>3. base[k].path \in BuiltInFiles BY <1>1, <3>2 DEF InHand
    <3> QED BY <3>3, FilesAre DEF PathOf
  <2>2. CASE file[1] # k
    BY <1>1, <2>2, OwnIs DEF StoreTyped, PathOf
  <2> QED BY <2>1, <2>2
<1> QED BY <1>2, <1>3, <1>4 DEF ProfileAt

LEMMA ExchangeKeeps ==
  ASSUME MigrationsInv, NEW p \in Starters, Exchange(p)
  PROVE  MigrationsInv'
<1>1. StoreTyped /\ OldGone /\ InHand /\ ParametersKept BY DEF MigrationsInv
<1>2. UNCHANGED <<schemaVars, wanted, crossed>>
  BY DEF Exchange, LoadRows, InferPaths, RewritePaths, ReloadRows, ComesUp, RemoveFile, FilesOnly
<1>3. /\ holds \in [LegacyFiles -> Profiles \cup {NoPath}]
      /\ base \in [Bases -> [old : Paths \cup {NoPath}, path : Paths \cup {NoPath}]]
      /\ found \in [Starters -> [Bases -> Paths \cup {NoPath}]]
  BY <1>1 DEF StoreTyped
<1>4. \A k \in Bases \ crossed : ProfileAt(PathOf(k)) = wanted[k]
  BY <1>1 DEF ParametersKept, PathOf
<1>5. at[p] \in Migrated => \A k \in Bases : base[k].old = NoPath BY <1>1 DEF OldGone
<1>6. CASE LoadRows(p)
  <2>1. /\ at[p] = "load" /\ at' = [at EXCEPT ![p] = "infer"] /\ UNCHANGED <<base, holds>>
        /\ found' = [found EXCEPT ![p] = [k \in Bases |-> base[k].path]]
    BY <1>6 DEF LoadRows, Go
  <2>2. /\ found' \in [Starters -> [Bases -> Paths \cup {NoPath}]]
        /\ \A q \in Starters \ {p} : found'[q] = found[q]
        /\ \A k \in Bases : found'[p][k] = base[k].path
    BY <1>3, <2>1
  <2>3. \A k \in Bases : found'[p][k] \in Own(k) BY <1>1, <2>2 DEF StoreTyped
  <2>4. ASSUME NEW k \in Bases \ crossed, base[k].path \in LegacyFiles
        PROVE  holds[base[k].path] = wanted[k]
    <3>1. PathOf(k) = base[k].path BY <2>4, FilesAre DEF PathOf
    <3> QED BY <1>4, <2>4, <3>1, FilesAre DEF ProfileAt
  <2>5. \A k \in Bases \ crossed : ProfileAt(PathOf(k))' = wanted[k]
    BY <1>4, <2>1 DEF ProfileAt, PathOf
  <2>9. \A k \in Bases : HandFits(p, "infer", k) BY <2>1, <2>2, <2>3, <2>4 DEF HandFits
  <2> QED BY <1>2, <1>3, <2>1, <2>2, <2>3, <2>4, <2>5, <2>9, Keeps DEF Migrated
<1>7. CASE InferPaths(p)
  <2>1. /\ at[p] = "infer" /\ at' = [at EXCEPT ![p] = "rewrite"] /\ UNCHANGED <<base, holds>>
        /\ found' = [found EXCEPT ![p] = [k \in Bases |-> Inferred(k, found[p][k])]]
    BY <1>7 DEF InferPaths, Go
  <2>2. \A k \in Bases : Inferred(k, found[p][k]) \in BuiltInFiles \cup {NoPath} BY InferredIs
  <2>3. /\ found' \in [Starters -> [Bases -> Paths \cup {NoPath}]]
        /\ \A q \in Starters \ {p} : found'[q] = found[q]
        /\ \A k \in Bases : found'[p][k] = Inferred(k, found[p][k])
    BY <1>3, <2>1, <2>2 DEF Paths
  <2>4. ASSUME NEW k \in Bases \ crossed, found'[p][k] # NoPath
        PROVE  ProfileOf[found'[p][k]] = wanted[k]
    <3>1. /\ found[p][k] \in LegacyFiles /\ holds[found[p][k]] # NoPath
          /\ ProfileOf[found'[p][k]] = holds[found[p][k]]
      BY <2>3, <2>4, InferredIs
    <3> QED BY <1>1, <2>1, <3>1 DEF InHand
  <2>5. \A k \in Bases \ crossed : ProfileAt(PathOf(k))' = wanted[k]
    BY <1>4, <2>1 DEF ProfileAt, PathOf
  <2>9. \A k \in Bases : HandFits(p, "rewrite", k) BY <2>2, <2>3, <2>4 DEF HandFits
  <2> QED BY <1>2, <1>3, <2>1, <2>2, <2>3, <2>4, <2>5, <2>9, Keeps DEF Migrated
<1>8. CASE RewritePaths(p)
  <2>1. /\ at[p] = "rewrite" /\ at' = [at EXCEPT ![p] = "reload"] /\ UNCHANGED <<holds, found>>
        /\ base' = [k \in Bases |-> IF found[p][k] = NoPath THEN base[k]
                                    ELSE [base[k] EXCEPT !.path = found[p][k]]]
    BY <1>8 DEF RewritePaths, Go
  <2>2. \A k \in Bases : found[p][k] \in BuiltInFiles \cup {NoPath} BY <1>1, <2>1 DEF InHand
  <2>3. base' \in [Bases -> [old : Paths \cup {NoPath}, path : Paths \cup {NoPath}]]
    BY <1>3, <2>1, <2>2 DEF Paths
  <2>4. \A k \in Bases : /\ base'[k].old = base[k].old
                         /\ base'[k].path = IF found[p][k] = NoPath THEN base[k].path
                                            ELSE found[p][k]
    BY <1>3, <2>1
  <2>5. ASSUME NEW k \in Bases \ crossed PROVE ProfileAt(PathOf(k))' = wanted[k]
    <3>1. CASE found[p][k] = NoPath
      <4>1. PathOf(k)' = PathOf(k) BY <2>1, <3>1 DEF PathOf
      <4> QED BY <1>4, <2>1, <4>1 DEF ProfileAt
    <3>2. CASE found[p][k] # NoPath
      <4>1. found[p][k] \in BuiltInFiles /\ ProfileOf[found[p][k]] = wanted[k]
        BY <1>1, <2>1, <2>2, <3>2 DEF InHand
      <4>2. PathOf(k)' = found[p][k] BY <2>4, <3>2 DEF PathOf
      <4> QED BY <4>1, <4>2 DEF ProfileAt
    <3> QED BY <3>1, <3>2
  <2>6. \A k \in Bases : base'[k].path \in {base[k].path} \cup BuiltInFiles BY <2>2, <2>4
  <2>9. \A k \in Bases : HandFits(p, "reload", k) BY DEF HandFits
  <2> QED BY <1>2, <1>3, <2>1, <2>3, <2>4, <2>5, <2>6, <2>9, Keeps DEF Migrated
<1>9. CASE ReloadRows(p)
  <2>1. /\ at[p] = "reload" /\ at' = [at EXCEPT ![p] = "clean"] /\ UNCHANGED <<base, holds>>
        /\ found' = [found EXCEPT ![p] = [k \in Bases |-> base[k].path]]
    BY <1>9 DEF ReloadRows, Go
  <2>2. /\ found' \in [Starters -> [Bases -> Paths \cup {NoPath}]]
        /\ \A q \in Starters \ {p} : found'[q] = found[q]
        /\ \A k \in Bases : found'[p][k] = base[k].path
    BY <1>3, <2>1
  <2>3. \A k \in Bases : found'[p][k] \in Own(k) BY <1>1, <2>2 DEF StoreTyped
  <2>4. \A k \in Bases \ crossed : ProfileAt(PathOf(k))' = wanted[k]
    BY <1>4, <2>1 DEF ProfileAt, PathOf
  <2>9. \A k \in Bases : HandFits(p, "clean", k) BY <2>1, <2>2, <2>3 DEF HandFits
  <2> QED BY <1>2, <1>3, <2>1, <2>2, <2>3, <2>4, <2>9, Keeps DEF Migrated
<1>10. CASE ComesUp(p)
  <2>1. /\ at[p] = "clean" /\ at' = [at EXCEPT ![p] = "up"] /\ UNCHANGED <<base, holds>>
        /\ found' = [found EXCEPT ![p] = [k \in Bases |-> NoPath]]
    BY <1>10 DEF ComesUp, Go
  <2>2. /\ found' \in [Starters -> [Bases -> Paths \cup {NoPath}]]
        /\ \A q \in Starters \ {p} : found'[q] = found[q]
    BY <1>3, <2>1
  <2>3. \A k \in Bases \ crossed : ProfileAt(PathOf(k))' = wanted[k]
    BY <1>4, <2>1 DEF ProfileAt, PathOf
  <2>9. \A k \in Bases : HandFits(p, "up", k) BY DEF HandFits
  <2> QED BY <1>2, <1>3, <2>1, <2>2, <2>3, <2>9, Keeps DEF Migrated
<1>11. ASSUME NEW file \in LegacyFiles, RemoveFile(p, file) PROVE MigrationsInv'
  <2>1. /\ at[p] = "clean" /\ Redundant(p, file) /\ UNCHANGED <<base, at, found>>
        /\ holds' = [holds EXCEPT ![file] = NoPath]
    BY <1>11 DEF RemoveFile
  <2>2. at' = [at EXCEPT ![p] = "clean"] BY <1>1, <2>1 DEF StoreTyped
  <2>3. /\ holds' \in [LegacyFiles -> Profiles \cup {NoPath}]
        /\ \A f \in LegacyFiles : holds'[f] = IF f = file THEN NoPath ELSE holds[f]
    BY <1>3, <2>1
  <2>4. \A k \in Bases \ crossed : ProfileAt(PathOf(k))' = wanted[k]
    BY <1>2, <2>1, RemovalKeeps
  <2>5. \A k \in Bases : /\ found[p][k] \in Own(k)
                         /\ k \notin crossed /\ found[p][k] \in BuiltInFiles =>
                              base[k].path \in BuiltInFiles
    BY <1>1, <2>1 DEF InHand
  <2>9. \A k \in Bases : HandFits(p, "clean", k) BY <2>1, <2>5 DEF HandFits
  <2> QED BY <1>2, <1>3, <2>1, <2>2, <2>3, <2>4, <2>5, <2>9, Keeps
<1> QED BY <1>6, <1>7, <1>8, <1>9, <1>10, <1>11 DEF Exchange

LEMMA CollidesKeeps ==
  ASSUME MigrationsInv, NEW p \in Starters, Collides(p)
  PROVE  MigrationsInv'
<1>1. PICK q \in Starters, file \in LegacyFiles : FileVanishes(p, q, file) BY DEF Collides
<1>2. StoreTyped BY DEF MigrationsInv
<1>3. /\ at[q] = "clean" /\ Redundant(q, file) /\ UNCHANGED <<base, found>>
      /\ holds' = [holds EXCEPT ![file] = NoPath]
      /\ at' = [at EXCEPT ![p] = "failed"] /\ UNCHANGED <<schemaVars, wanted, crossed>>
  BY <1>1 DEF FileVanishes, Go, FilesOnly
<1>4. /\ base \in [Bases -> [old : Paths \cup {NoPath}, path : Paths \cup {NoPath}]]
      /\ found \in [Starters -> [Bases -> Paths \cup {NoPath}]]
      /\ holds' \in [LegacyFiles -> Profiles \cup {NoPath}]
      /\ \A f \in LegacyFiles : holds'[f] = IF f = file THEN NoPath ELSE holds[f]
  BY <1>2, <1>3 DEF StoreTyped
<1>5. \A k \in Bases \ crossed : ProfileAt(PathOf(k))' = wanted[k]
  BY <1>3, RemovalKeeps DEF MigrationsInv
<1>9. \A k \in Bases : HandFits(p, "failed", k) BY DEF HandFits
<1> QED BY <1>3, <1>4, <1>5, <1>9, Keeps DEF Migrated

LEMMA KilledKeeps ==
  ASSUME MigrationsInv, NEW p \in Starters, StarterKilled(p)
  PROVE  MigrationsInv'
<1>1. StoreTyped /\ ParametersKept BY DEF MigrationsInv
<1>2. /\ at' = [at EXCEPT ![p] = "down"] /\ UNCHANGED <<schemaVars, base, holds, wanted, crossed>>
      /\ found' = [found EXCEPT ![p] = [k \in Bases |-> NoPath]]
  BY DEF StarterKilled, Go
<1>3. /\ base \in [Bases -> [old : Paths \cup {NoPath}, path : Paths \cup {NoPath}]]
      /\ found' \in [Starters -> [Bases -> Paths \cup {NoPath}]]
      /\ \A q \in Starters \ {p} : found'[q] = found[q]
      /\ holds \in [LegacyFiles -> Profiles \cup {NoPath}]
  BY <1>1, <1>2 DEF StoreTyped
<1>4. \A k \in Bases \ crossed : ProfileAt(PathOf(k))' = wanted[k]
  BY <1>1, <1>2 DEF ParametersKept, PathOf, ProfileAt
<1>9. \A k \in Bases : HandFits(p, "down", k) BY DEF HandFits
<1> QED BY <1>2, <1>3, <1>4, <1>9, Keeps DEF Migrated

LEMMA RegistersKeeps ==
  ASSUME MigrationsInv, NEW k \in Bases,
         NEW path \in BuiltInFiles \cup ({k} \X {"config", "index"}), Registers(k, path)
  PROVE  MigrationsInv'
<1>1. StoreTyped /\ OldGone /\ InHand /\ ParametersKept BY DEF MigrationsInv
<1>2. /\ base' = [base EXCEPT ![k].path = path] /\ wanted' = [wanted EXCEPT ![k] = ProfileAt(path)]
      /\ UNCHANGED <<schemaVars, holds, at, found>> /\ ProfileAt(path) # NoPath
      /\ crossed' = IF \E q \in Starters : at[q] \in {"infer", "rewrite", "clean"}
                    THEN crossed \cup {k} ELSE crossed \ {k}
  BY DEF Registers
<1>3. "old" \notin columns
  <2>1. PICK p \in Starters : at[p] = "up" BY DEF Registers
  <2> QED BY <1>1, <2>1 DEF OldGone, Migrated
<1>4. path \in Own(k) /\ path \in Paths /\ path # NoPath /\ ProfileAt(path) \in Profiles
  <2>1. path \in Paths /\ path # NoPath BY FilesAre DEF Paths
  <2> QED BY <1>1, <1>2, <2>1, FilesAre DEF Own, Paths, ProfileAt, StoreTyped
<1>5. /\ base' \in [Bases -> [old : Paths \cup {NoPath}, path : Paths \cup {NoPath}]]
      /\ wanted' \in [Bases -> Profiles \cup {NoPath}]
      /\ \A j \in Bases : /\ base'[j].old = base[j].old
                          /\ base'[j].path = IF j = k THEN path ELSE base[j].path
                          /\ wanted'[j] = IF j = k THEN ProfileAt(path) ELSE wanted[j]
  BY <1>1, <1>2, <1>4 DEF StoreTyped
<1>6. StoreTyped'
  <2>1. \A j \in Bases : base'[j].old \in Own(j) /\ base'[j].path \in Own(j)
    BY <1>1, <1>4, <1>5 DEF StoreTyped
  <2> QED BY <1>1, <1>2, <1>5, <2>1 DEF StoreTyped, Own, schemaVars
<1>7. OldGone'
  <2>1. \A j \in Bases : base'[j].old = NoPath BY <1>1, <1>3, <1>5 DEF OldGone
  <2> QED BY <1>1, <1>2, <1>3, <2>1 DEF OldGone, Migrated, schemaVars
<1>8. InHand'
  <2>1. ASSUME NEW q \in Starters, NEW j \in Bases
        PROVE  /\ at[q] \in {"infer", "clean"} => found[q][j] \in Own(j)
               /\ at[q] = "rewrite" => found[q][j] \in BuiltInFiles \cup {NoPath}
               /\ j \notin crossed' =>
                    /\ at[q] = "infer" /\ found[q][j] \in LegacyFiles =>
                         holds[found[q][j]] \in {NoPath, wanted'[j]}
                    /\ at[q] = "rewrite" /\ found[q][j] # NoPath =>
                         ProfileOf[found[q][j]] = wanted'[j]
                    /\ at[q] = "clean" /\ found[q][j] \in BuiltInFiles =>
                         base'[j].path \in BuiltInFiles
    <3>1. CASE at[q] \notin {"infer", "rewrite", "clean"} BY <3>1
    <3>2. CASE at[q] \in {"infer", "rewrite", "clean"}
      <4>1. crossed' = crossed \cup {k} BY <1>2, <3>2
      <4> QED BY <1>1, <1>5, <4>1 DEF InHand
    <3> QED BY <3>1, <3>2
  <2> QED BY <1>2, <2>1 DEF InHand, Own
<1>9. ParametersKept'
  <2>1. ASSUME NEW j \in Bases \ crossed' PROVE ProfileAt(PathOf(j))' = wanted'[j]
    <3>1. CASE j = k
      <4>1. PathOf(k)' = path BY <1>4, <1>5 DEF PathOf
      <4> QED BY <1>2, <1>5, <3>1, <4>1 DEF ProfileAt
    <3>2. CASE j # k
      <4>1. j \notin crossed BY <1>2, <3>2
      <4>2. PathOf(j)' = PathOf(j) BY <1>5, <3>2 DEF PathOf
      <4> QED BY <1>1, <1>2, <1>5, <3>2, <4>1, <4>2 DEF ParametersKept, ProfileAt, PathOf
    <3> QED BY <3>1, <3>2
  <2> QED BY <2>1 DEF ParametersKept, PathOf
<1> QED BY <1>6, <1>7, <1>8, <1>9 DEF MigrationsInv

-----------------------------------------------------------------------------
LEMMA MigrationsAlways == MigrationsSpec => []MigrationsInv
<1>1. ASSUME MigrationsInv, [MigrationsNext]_migrationVars PROVE MigrationsInv'
  <2>1. CASE UNCHANGED migrationVars
    BY <1>1, <2>1 DEF migrationVars, schemaVars, MigrationsInv, StoreTyped, OldGone, InHand,
                     ParametersKept, ProfileAt, Own
  <2>2. ASSUME NEW p \in Starters,
               InitSchema(p) \/ Exchange(p) \/ Collides(p) \/ StarterKilled(p)
        PROVE  MigrationsInv'
    <3>1. CASE InitSchema(p)
      <4>1. SchemaStep(p) BY <1>1, <3>1, SchemaIs DEF MigrationsInv
      <4> QED BY <1>1, <4>1, SchemaKeeps
    <3> QED BY <1>1, <2>2, <3>1, ExchangeKeeps, CollidesKeeps, KilledKeeps
  <2>3. ASSUME NEW k \in Bases, NEW path \in BuiltInFiles \cup ({k} \X {"config", "index"}),
               Registers(k, path)
        PROVE  MigrationsInv'
    BY <1>1, <2>3, RegistersKeeps
  <2> QED BY <1>1, <2>1, <2>2, <2>3 DEF MigrationsNext
<1> QED BY MigrationsStart, <1>1, PTL DEF MigrationsSpec

(* The store's columns, rows and files keep their types while processes    *)
(* start, migrate and die in any order (mysql_manager.py:25-107,           *)
(* knowledge_bases.py:64-152).                                             *)
THEOREM MigrationsTypeCorrect == MigrationsSpec => []MigrationsTypeOK
<1>1. MigrationsInv => MigrationsTypeOK
  BY DEF MigrationsInv, StoreTyped, MigrationsTypeOK, Paths
<1> QED BY MigrationsAlways, <1>1, PTL

(* Wherever migrations are cut short and however many run at once, the row *)
(* of a knowledge base leads to a file that is there and materialises to   *)
(* the parameters it was registered with, unless it was registered anew    *)
(* while a process had its row in hand (knowledge_bases.py:64-152).        *)
THEOREM ParametersCorrect == MigrationsSpec => []ParametersKept
  BY MigrationsAlways, PTL DEF MigrationsInv

-----------------------------------------------------------------------------
(* Calls, spans and sweeps.  The argument has three parts: Founded ties    *)
(* the records to the place of each call in its line of steps; Calm says   *)
(* what nobody disturbs while no living call falls silent; NoneForgotten   *)
(* follows what a dead call has left through the steps of a sweep.         *)

(* The line of steps a call is on: until its work is done the opening one, *)
(* then the closing one of its verdict; what it has still to do is always  *)
(* the end of that line.                                                   *)
Verdicts == {"none", "success", "failed"}
Line(c, v) == IF v = "none" THEN Opening(c) ELSE Closing(c, v)
Length(c, v) == IF ByEvent(c) THEN IF v = "none" THEN 6 ELSE 5
                              ELSE IF v = "none" THEN 4 ELSE 3
Steps == {<<w>> : w \in {"claim", "create", "work", "report", "finish"}}
           \cup ({"open", "close"} \X (1..3))

LEMMA StepIs ==
  /\ <<"claim">> \in Steps /\ <<"create">> \in Steps /\ <<"work">> \in Steps
  /\ <<"report">> \in Steps /\ <<"finish">> \in Steps
  /\ <<"open", 1>> \in Steps /\ <<"open", 2>> \in Steps /\ <<"open", 3>> \in Steps
  /\ <<"close", 1>> \in Steps /\ <<"close", 2>> \in Steps /\ <<"close", 3>> \in Steps
<1>1. \A w \in {"claim", "create", "work", "report", "finish"} : <<w>> \in Steps
  BY DEF Steps
<1>2. \A w \in {"open", "close"}, l \in 1..3 : <<w, l>> \in Steps
  BY DEF Steps
<1> QED BY <1>1, <1>2

LEMMA OpeningIs ==
  ASSUME NEW c \in Calls
  PROVE  Opening(c) \in Seq(Steps) /\ Len(Opening(c)) = Length(c, "none")
<1>1. CASE ByEvent(c)
  <2>1. Opening(c) = << <<"claim">>, <<"open", 1>>, <<"open", 2>>, <<"create">>, <<"open", 3>>,
                        <<"work">> >>
    BY <1>1 DEF Opening
  <2> QED BY <1>1, <2>1, StepIs DEF Length
<1>2. CASE ~ByEvent(c)
  <2>1. Opening(c) = << <<"create">>, <<"open", 1>>, <<"open", 2>>, <<"work">> >>
    BY <1>2 DEF Opening
  <2> QED BY <1>2, <2>1, StepIs DEF Length
<1> QED BY <1>1, <1>2

(* The end of a sequence, its head and its tail.                           *)
LEMMA Pops ==
  ASSUME NEW L \in Seq(Steps), NEW n \in 1..(Len(L) + 1), NEW s \in {SubSeq(L, n, Len(L))}
  PROVE  /\ s \in Seq(Steps) /\ Len(s) = Len(L) + 1 - n
         /\ s # <<>> <=> n <= Len(L)
         /\ n <= Len(L) => /\ Head(s) = L[n] /\ Tail(s) = SubSeq(L, n + 1, Len(L))
                           /\ Tail(s) \in Seq(Steps) /\ Len(Tail(s)) = Len(s) - 1
<1> s = SubSeq(L, n, Len(L))
  OBVIOUS
<1>1. s \in Seq(Steps) /\ Len(s) = Len(L) + 1 - n
  OBVIOUS
<1>2. \A j \in 1..Len(s) : s[j] = L[n + j - 1]
  OBVIOUS
<1>3. s # <<>> <=> n <= Len(L)
  <2>1. s = <<>> <=> Len(s) = 0
    BY <1>1, EmptySeq
  <2> QED BY <1>1, <2>1
<1>4. ASSUME n <= Len(L)
      PROVE  /\ Head(s) = L[n] /\ Tail(s) = SubSeq(L, n + 1, Len(L))
             /\ Tail(s) \in Seq(Steps) /\ Len(Tail(s)) = Len(s) - 1
  <2>1. Len(s) >= 1 /\ s # <<>>
    BY <1>1, <1>3, <1>4
  <2>2. Head(s) = L[n]
    BY <1>1, <1>2, <2>1
  <2>3. Tail(s) \in Seq(Steps) /\ Len(Tail(s)) = Len(s) - 1 /\ \A j \in 1..Len(s) - 1 : Tail(s)[j] = s[j + 1]
    BY <1>1, <2>1
  <2>4. SubSeq(L, n + 1, Len(L)) \in Seq(Steps) /\ Len(SubSeq(L, n + 1, Len(L))) = Len(L) - n
        /\ \A j \in 1..Len(L) - n : SubSeq(L, n + 1, Len(L))[j] = L[n + j]
    BY <1>4
  <2> QED BY <1>1, <1>2, <2>2, <2>3, <2>4, SeqEqual
<1> QED BY <1>1, <1>3, <1>4

LEMMA Within ==
  ASSUME NEW S, NEW L \in Seq(S), NEW n \in 1..(Len(L) + 1), NEW s, s = SubSeq(L, n, Len(L))
  PROVE  /\ \A j \in DOMAIN s : n + j - 1 \in n..Len(L) /\ s[j] = L[n + j - 1]
         /\ \A j \in n..Len(L) : j + 1 - n \in DOMAIN s /\ s[j + 1 - n] = L[j]
  OBVIOUS

LEMMA ClosingIs ==
  ASSUME NEW c \in Calls, NEW v \in {"success", "failed"}
  PROVE  Closing(c, v) \in Seq(Steps) /\ Len(Closing(c, v)) = Length(c, v)
<1>1. CASE ByEvent(c) /\ v = "success"
  <2>1. Closing(c, v) = << <<"report">>, <<"close", 3>>, <<"finish">>, <<"close", 2>>, <<"close", 1>> >>
    BY <1>1 DEF Closing
  <2>2. Closing(c, v) \in Seq(Steps) /\ Len(Closing(c, v)) = 5
    BY <2>1, StepIs
  <2>3. Length(c, v) = 5
    BY <1>1 DEF Length
  <2> QED BY <2>2, <2>3
<1>2. CASE ByEvent(c) /\ v = "failed"
  <2>1. Closing(c, v) = << <<"close", 3>>, <<"report">>, <<"close", 2>>, <<"finish">>, <<"close", 1>> >>
    BY <1>2 DEF Closing
  <2>2. Closing(c, v) \in Seq(Steps) /\ Len(Closing(c, v)) = 5
    BY <2>1, StepIs
  <2>3. Length(c, v) = 5
    BY <1>2 DEF Length
  <2> QED BY <2>2, <2>3
<1>3. CASE ~ByEvent(c) /\ v = "success"
  <2>1. Closing(c, v) = << <<"close", 2>>, <<"report">>, <<"close", 1>> >>
    BY <1>3 DEF Closing
  <2>2. Closing(c, v) \in Seq(Steps) /\ Len(Closing(c, v)) = 3
    BY <2>1, StepIs
  <2>3. Length(c, v) = 3
    BY <1>3 DEF Length
  <2> QED BY <2>2, <2>3
<1>4. CASE ~ByEvent(c) /\ v = "failed"
  <2>1. Closing(c, v) = << <<"close", 2>>, <<"close", 1>>, <<"report">> >>
    BY <1>4 DEF Closing
  <2>2. Closing(c, v) \in Seq(Steps) /\ Len(Closing(c, v)) = 3
    BY <2>1, StepIs
  <2>3. Length(c, v) = 3
    BY <1>4 DEF Length
  <2> QED BY <2>2, <2>3
<1> QED BY <1>1, <1>2, <1>3, <1>4

LEMMA LineIs ==
  ASSUME NEW c \in Calls, NEW v \in Verdicts
  PROVE  Line(c, v) \in Seq(Steps) /\ Len(Line(c, v)) = Length(c, v) /\ Length(c, v) \in 3..6
<1>1. CASE v = "none"
  BY <1>1, OpeningIs DEF Line, Length
<1>2. CASE v # "none"
  <2>1. v \in {"success", "failed"}
    BY <1>2 DEF Verdicts
  <2>2. Closing(c, v) \in Seq(Steps) /\ Len(Closing(c, v)) = Length(c, v)
    BY <2>1, ClosingIs
  <2> QED BY <1>2, <2>2 DEF Line, Length
<1> QED BY <1>1, <1>2

(* Where in its line each step stands.                                     *)
CreateAt(c) == IF ByEvent(c) THEN 4 ELSE 1
WorkAt(c)   == IF ByEvent(c) THEN 6 ELSE 4
OpenAt(l)   == IF l = 3 THEN 5 ELSE l + 1
ReportAt(c, v) == IF ByEvent(c) THEN IF v = "success" THEN 1 ELSE 2
                                ELSE IF v = "success" THEN 2 ELSE 3
FinishAt(v) == IF v = "success" THEN 3 ELSE 4
CloseAt(c, v, l) ==
  IF ByEvent(c) THEN IF l = 1 THEN 5 ELSE IF v = "success" THEN IF l = 2 THEN 4 ELSE 2
                                     ELSE IF l = 2 THEN 3 ELSE 1
                ELSE IF l = 2 THEN 1 ELSE IF v = "success" THEN 3 ELSE 2

LEMMA OpeningReads ==
  ASSUME NEW c \in Calls, NEW n \in 1..Length(c, "none")
  PROVE  LET s == Opening(c)[n] IN
         /\ s[1] = "claim" <=> ByEvent(c) /\ n = 1
         /\ s[1] = "create" <=> n = CreateAt(c)
         /\ s[1] = "work" <=> n = WorkAt(c)
         /\ s[1] = "open" => s[2] \in Levels(c) /\ n = OpenAt(s[2])
         /\ s[1] \notin {"report", "finish", "close"}
<1> USE DEF Length, Levels, CreateAt, WorkAt, OpenAt
<1>1. CASE ByEvent(c)
  <2>1. Opening(c) = << <<"claim">>, <<"open", 1>>, <<"open", 2>>, <<"create">>, <<"open", 3>>,
                        <<"work">> >>
    BY <1>1 DEF Opening
  <2>2. n \in 1..6 BY <1>1
  <2>3. CASE n = 1 BY <1>1, <2>1, <2>3
  <2>4. CASE n = 2 BY <1>1, <2>1, <2>4
  <2>5. CASE n = 3 BY <1>1, <2>1, <2>5
  <2>6. CASE n = 4 BY <1>1, <2>1, <2>6
  <2>7. CASE n = 5 BY <1>1, <2>1, <2>7
  <2>8. CASE n = 6 BY <1>1, <2>1, <2>8
  <2> QED BY <2>2, <2>3, <2>4, <2>5, <2>6, <2>7, <2>8
<1>2. CASE ~ByEvent(c)
  <2>1. Opening(c) = << <<"create">>, <<"open", 1>>, <<"open", 2>>, <<"work">> >>
    BY <1>2 DEF Opening
  <2>2. n \in 1..4 BY <1>2
  <2>3. CASE n = 1 BY <1>2, <2>1, <2>3
  <2>4. CASE n = 2 BY <1>2, <2>1, <2>4
  <2>5. CASE n = 3 BY <1>2, <2>1, <2>5
  <2>6. CASE n = 4 BY <1>2, <2>1, <2>6
  <2> QED BY <2>2, <2>3, <2>4, <2>5, <2>6
<1> QED BY <1>1, <1>2

LEMMA ClosingReads ==
  ASSUME NEW c \in Calls, NEW v \in {"success", "failed"}, NEW n \in 1..Length(c, v)
  PROVE  LET s == Closing(c, v)[n] IN
         /\ s[1] = "report" <=> n = ReportAt(c, v)
         /\ s[1] = "finish" <=> ByEvent(c) /\ n = FinishAt(v)
         /\ s[1] = "close" => s[2] \in Levels(c) /\ n = CloseAt(c, v, s[2])
         /\ s[1] \notin {"claim", "create", "work", "open"}
<1> USE DEF Length, Levels, ReportAt, FinishAt, CloseAt
<1>1. CASE ByEvent(c) /\ v = "success"
  <2>1. Closing(c, v) = << <<"report">>, <<"close", 3>>, <<"finish">>, <<"close", 2>>, <<"close", 1>> >>
    BY <1>1 DEF Closing
  <2>2. n \in 1..5
    BY <1>1
  <2>3. CASE n = 1 BY <1>1, <2>1, <2>3
  <2>4. CASE n = 2 BY <1>1, <2>1, <2>4
  <2>5. CASE n = 3 BY <1>1, <2>1, <2>5
  <2>6. CASE n = 4 BY <1>1, <2>1, <2>6
  <2>7. CASE n = 5 BY <1>1, <2>1, <2>7
  <2> QED BY <2>2, <2>3, <2>4, <2>5, <2>6, <2>7
<1>2. CASE ByEvent(c) /\ v = "failed"
  <2>1. Closing(c, v) = << <<"close", 3>>, <<"report">>, <<"close", 2>>, <<"finish">>, <<"close", 1>> >>
    BY <1>2 DEF Closing
  <2>2. n \in 1..5
    BY <1>2
  <2>3. CASE n = 1 BY <1>2, <2>1, <2>3
  <2>4. CASE n = 2 BY <1>2, <2>1, <2>4
  <2>5. CASE n = 3 BY <1>2, <2>1, <2>5
  <2>6. CASE n = 4 BY <1>2, <2>1, <2>6
  <2>7. CASE n = 5 BY <1>2, <2>1, <2>7
  <2> QED BY <2>2, <2>3, <2>4, <2>5, <2>6, <2>7
<1>3. CASE ~ByEvent(c) /\ v = "success"
  <2>1. Closing(c, v) = << <<"close", 2>>, <<"report">>, <<"close", 1>> >>
    BY <1>3 DEF Closing
  <2>2. n \in 1..3
    BY <1>3
  <2>3. CASE n = 1 BY <1>3, <2>1, <2>3
  <2>4. CASE n = 2 BY <1>3, <2>1, <2>4
  <2>5. CASE n = 3 BY <1>3, <2>1, <2>5
  <2> QED BY <2>2, <2>3, <2>4, <2>5
<1>4. CASE ~ByEvent(c) /\ v = "failed"
  <2>1. Closing(c, v) = << <<"close", 2>>, <<"close", 1>>, <<"report">> >>
    BY <1>4 DEF Closing
  <2>2. n \in 1..3
    BY <1>4
  <2>3. CASE n = 1 BY <1>4, <2>1, <2>3
  <2>4. CASE n = 2 BY <1>4, <2>1, <2>4
  <2>5. CASE n = 3 BY <1>4, <2>1, <2>5
  <2> QED BY <2>2, <2>3, <2>4, <2>5
<1> QED BY <1>1, <1>2, <1>3, <1>4

(* The step that comes next; one past the line when nothing is left.       *)
At(c) == Length(c, verdict[c]) + 1 - Len(todo[c])

(* The types of what is recorded.                                          *)
Recorded ==
  /\ midway \subseteq dead /\ dead \subseteq Calls /\ IsFiniteSet(dead)
  /\ verdict \in [Calls -> Verdicts]
  /\ task \in [Calls -> {"none", "running", "success", "failed", "cancelled"}]
  /\ span \in [Spans -> {"none", "running", "success", "failed", "abandoned"}]
  /\ row \in [Events -> {"queued", "running", "success", "failed"}]
  /\ attempts \in [Events -> Nat]
  /\ overdue \subseteq Calls \cup Events
  /\ sweep \in [pc : {"idle", "cancel", "events", "requeue", "match", "abandon", "orphans", "last"},
                found : SUBSET (Calls \cup Events), rows : SUBSET Spans]
  /\ silences \in Nat /\ deaths \in Nat

PlacedAt(c) ==
  /\ At(c) \in 1..(Length(c, verdict[c]) + 1)
  /\ todo[c] = SubSeq(Line(c, verdict[c]), At(c), Length(c, verdict[c]))

Placed == todo \in [Calls -> Seq(Steps)] /\ \A c \in Calls : PlacedAt(c)

LEMMA PlaceIs ==
  ASSUME Recorded, Placed, NEW c \in Calls
  PROVE  /\ verdict[c] \in Verdicts /\ Length(c, verdict[c]) \in 3..6
         /\ Line(c, verdict[c]) \in Seq(Steps) /\ Len(Line(c, verdict[c])) = Length(c, verdict[c])
         /\ At(c) \in 1..(Len(Line(c, verdict[c])) + 1)
         /\ todo[c] = SubSeq(Line(c, verdict[c]), At(c), Len(Line(c, verdict[c])))
<1>1. verdict[c] \in Verdicts BY DEF Recorded
<1>2. /\ Line(c, verdict[c]) \in Seq(Steps) /\ Len(Line(c, verdict[c])) = Length(c, verdict[c])
      /\ Length(c, verdict[c]) \in 3..6
  BY <1>1, LineIs
<1>3. PlacedAt(c) BY DEF Placed
<1> QED BY <1>1, <1>2, <1>3 DEF PlacedAt

LEMMA Reads ==
  ASSUME Recorded, Placed, NEW c \in Calls
  PROVE  /\ verdict[c] \in Verdicts /\ Length(c, verdict[c]) \in 3..6
         /\ At(c) \in 1..(Length(c, verdict[c]) + 1)
         /\ todo[c] \in Seq(Steps) /\ Len(todo[c]) = Length(c, verdict[c]) + 1 - At(c)
         /\ todo[c] # <<>> <=> At(c) <= Length(c, verdict[c])
         /\ At(c) <= Length(c, verdict[c]) =>
              /\ Head(todo[c]) = Line(c, verdict[c])[At(c)]
              /\ Tail(todo[c]) = SubSeq(Line(c, verdict[c]), At(c) + 1, Length(c, verdict[c]))
              /\ Tail(todo[c]) \in Seq(Steps) /\ Len(Tail(todo[c])) = Len(todo[c]) - 1
<1> DEFINE L == Line(c, verdict[c])  n == At(c)  s == todo[c]  k == Length(c, verdict[c])
<1>1. /\ verdict[c] \in Verdicts /\ k \in 3..6
      /\ L \in Seq(Steps) /\ Len(L) = k /\ n \in 1..(Len(L) + 1) /\ s = SubSeq(L, n, Len(L))
  BY PlaceIs
<1> HIDE DEF n, s, L, k
<1>2. /\ s \in Seq(Steps) /\ Len(s) = Len(L) + 1 - n
      /\ s # <<>> <=> n <= Len(L)
  BY <1>1, Pops
<1>4. ASSUME n <= Len(L)
      PROVE  /\ Head(s) = L[n] /\ Tail(s) = SubSeq(L, n + 1, Len(L))
             /\ Tail(s) \in Seq(Steps) /\ Len(Tail(s)) = Len(s) - 1
  BY <1>1, <1>4, Pops
<1>3. /\ verdict[c] \in Verdicts /\ k \in 3..6 /\ n \in 1..(k + 1)
      /\ s \in Seq(Steps) /\ Len(s) = k + 1 - n
      /\ s # <<>> <=> n <= k
      /\ n <= k => /\ Head(s) = L[n] /\ Tail(s) = SubSeq(L, n + 1, k)
                   /\ Tail(s) \in Seq(Steps) /\ Len(Tail(s)) = Len(s) - 1
  BY <1>1, <1>2, <1>4
<1> QED BY <1>3 DEF n, s, L, k

LEMMA ReadsOn ==
  ASSUME Recorded, Placed, NEW c \in Calls
  PROVE  /\ \A j \in DOMAIN todo[c] :
              At(c) + j - 1 \in At(c)..Length(c, verdict[c])
              /\ todo[c][j] = Line(c, verdict[c])[At(c) + j - 1]
         /\ \A j \in At(c)..Length(c, verdict[c]) :
              j + 1 - At(c) \in DOMAIN todo[c]
              /\ todo[c][j + 1 - At(c)] = Line(c, verdict[c])[j]
<1> DEFINE L == Line(c, verdict[c])  n == At(c)  s == todo[c]  k == Length(c, verdict[c])
<1>1. /\ L \in Seq(Steps) /\ Len(L) = k /\ n \in 1..(Len(L) + 1) /\ s = SubSeq(L, n, Len(L))
  BY PlaceIs
<1> HIDE DEF n, s, L, k
<1>2. /\ \A j \in DOMAIN s : n + j - 1 \in n..Len(L) /\ s[j] = L[n + j - 1]
      /\ \A j \in n..Len(L) : j + 1 - n \in DOMAIN s /\ s[j + 1 - n] = L[j]
  BY <1>1, Within
<1>3. /\ \A j \in DOMAIN s : n + j - 1 \in n..k /\ s[j] = L[n + j - 1]
      /\ \A j \in n..k : j + 1 - n \in DOMAIN s /\ s[j + 1 - n] = L[j]
  BY <1>1, <1>2
<1> QED BY <1>3 DEF n, s, L, k

LEMMA LineReads ==
  ASSUME NEW c \in Calls, NEW v \in Verdicts, NEW n \in 1..Length(c, v)
  PROVE  LET s == Line(c, v)[n] IN
         IF v = "none"
         THEN /\ s[1] = "claim" <=> ByEvent(c) /\ n = 1
              /\ s[1] = "create" <=> n = CreateAt(c)
              /\ s[1] = "work" <=> n = WorkAt(c)
              /\ s[1] = "open" => s[2] \in Levels(c) /\ n = OpenAt(s[2])
              /\ s[1] \notin {"report", "finish", "close"}
         ELSE /\ s[1] = "report" <=> n = ReportAt(c, v)
              /\ s[1] = "finish" <=> ByEvent(c) /\ n = FinishAt(v)
              /\ s[1] = "close" => s[2] \in Levels(c) /\ n = CloseAt(c, v, s[2])
              /\ s[1] \notin {"claim", "create", "work", "open"}
<1>1. CASE v = "none"
  <2>1. Line(c, v) = Opening(c) BY <1>1 DEF Line
  <2>2. n \in 1..Length(c, "none") BY <1>1
  <2> QED BY <1>1, <2>1, <2>2, OpeningReads
<1>2. CASE v # "none"
  <2>1. Line(c, v) = Closing(c, v) /\ v \in {"success", "failed"} BY <1>2 DEF Line, Verdicts
  <2> QED BY <1>2, <2>1, ClosingReads
<1> QED BY <1>1, <1>2

(* A call that takes a step other than its work.                           *)
LEMMA Takes ==
  ASSUME Recorded, Placed, NEW c \in Calls, NEW w, Ready(c, w), Done(c), verdict' = verdict
  PROVE  /\ At(c) \in 1..Length(c, verdict[c]) /\ Head(todo[c]) = Line(c, verdict[c])[At(c)]
         /\ Head(todo[c])[1] = w /\ c \notin dead
         /\ At(c)' = At(c) + 1 /\ \A d \in Calls \ {c} : At(d)' = At(d)
         /\ Placed'
<1>1. /\ At(c) \in 1..Length(c, verdict[c]) /\ Head(todo[c]) = Line(c, verdict[c])[At(c)]
      /\ Head(todo[c])[1] = w /\ c \notin dead
      /\ Tail(todo[c]) \in Seq(Steps) /\ Len(Tail(todo[c])) = Len(todo[c]) - 1
      /\ Len(todo[c]) = Length(c, verdict[c]) + 1 - At(c)
      /\ Tail(todo[c]) = SubSeq(Line(c, verdict[c]), At(c) + 1, Length(c, verdict[c]))
      /\ Length(c, verdict[c]) \in 3..6
  <2>1. todo[c] # <<>> /\ Head(todo[c])[1] = w /\ c \notin dead
    BY DEF Ready
  <2>2. At(c) \in 1..Length(c, verdict[c]) /\ At(c) <= Length(c, verdict[c])
    BY <2>1, Reads
  <2>3. /\ Head(todo[c]) = Line(c, verdict[c])[At(c)]
        /\ Tail(todo[c]) = SubSeq(Line(c, verdict[c]), At(c) + 1, Length(c, verdict[c]))
        /\ Tail(todo[c]) \in Seq(Steps) /\ Len(Tail(todo[c])) = Len(todo[c]) - 1
    BY <2>2, Reads
  <2>4. Len(todo[c]) = Length(c, verdict[c]) + 1 - At(c) /\ Length(c, verdict[c]) \in 3..6
    BY Reads
  <2> QED BY <2>1, <2>2, <2>3, <2>4, Zenon
<1>2. todo' = [todo EXCEPT ![c] = Tail(todo[c])]
  BY DEF Done
<1>3. todo \in [Calls -> Seq(Steps)] /\ \A d \in Calls : PlacedAt(d)
  BY DEF Placed
<1>4. todo' \in [Calls -> Seq(Steps)] /\ todo'[c] = Tail(todo[c])
      /\ \A d \in Calls \ {c} : todo'[d] = todo[d]
  BY <1>1, <1>2, <1>3
<1>5. At(c)' = At(c) + 1
  <2>1. At(c)' = Length(c, verdict[c]) + 1 - Len(Tail(todo[c]))
    BY <1>4 DEF At
  <2>2. /\ Len(Tail(todo[c])) = Len(todo[c]) - 1 /\ Len(todo[c]) = Length(c, verdict[c]) + 1 - At(c)
        /\ At(c) \in 1..Length(c, verdict[c]) /\ Length(c, verdict[c]) \in 3..6
    BY <1>1
  <2> QED BY <2>1, <2>2
<1>6. \A d \in Calls \ {c} : At(d)' = At(d)
  BY <1>4 DEF At
<1>7. PlacedAt(c)'
  <2>1. At(c)' \in 1..(Length(c, verdict[c]) + 1)
    BY <1>1, <1>5
  <2>2. todo'[c] = SubSeq(Line(c, verdict[c]), At(c)', Length(c, verdict[c]))
    BY <1>1, <1>4, <1>5
  <2> QED BY <2>1, <2>2 DEF PlacedAt
<1>8. \A d \in Calls \ {c} : PlacedAt(d)'
  BY <1>3, <1>4, <1>6 DEF PlacedAt
<1>9. Placed'
  BY <1>4, <1>7, <1>8 DEF Placed
<1> QED BY <1>1, <1>5, <1>6, <1>9

LEMMA Stands ==
  ASSUME Placed, UNCHANGED <<todo, verdict>>
  PROVE  Placed' /\ \A d \in Calls : At(d)' = At(d)
<1>1. \A d \in Calls : At(d)' = At(d)
  BY DEF At
<1>2. \A d \in Calls : PlacedAt(d)'
  BY <1>1 DEF Placed, PlacedAt
<1> QED BY <1>1, <1>2 DEF Placed

LEMMA Claims ==
  ASSUME Recorded, Placed, NEW c \in Calls, ClaimRow(c)
  PROVE  /\ verdict[c] = "none" /\ ByEvent(c) /\ At(c) = 1 /\ At(c)' = 2 /\ c \notin dead
         /\ Placed' /\ \A d \in Calls \ {c} : At(d)' = At(d)
<1>1. Ready(c, "claim") /\ Done(c) /\ verdict' = verdict BY DEF ClaimRow
<1>2. /\ At(c) \in 1..Length(c, verdict[c]) /\ Head(todo[c]) = Line(c, verdict[c])[At(c)]
      /\ Head(todo[c])[1] = "claim" /\ c \notin dead /\ At(c)' = At(c) + 1
      /\ Placed' /\ \A d \in Calls \ {c} : At(d)' = At(d)
  BY <1>1, Takes
<1>3. verdict[c] \in Verdicts BY DEF Recorded
<1>4. verdict[c] = "none" /\ ByEvent(c) /\ At(c) = 1
  BY <1>2, <1>3, LineReads
<1> QED BY <1>2, <1>4

LEMMA SpanOpens ==
  ASSUME Recorded, Placed, NEW c \in Calls, OpenSpan(c)
  PROVE  /\ verdict[c] = "none" /\ c \notin dead
         /\ \E l \in Levels(c) : /\ At(c) = OpenAt(l) /\ At(c)' = OpenAt(l) + 1
                                 /\ span' = [span EXCEPT ![<<c, l>>] = "running"]
         /\ Placed' /\ \A d \in Calls \ {c} : At(d)' = At(d)
<1>1. Ready(c, "open") /\ Done(c) /\ verdict' = verdict
      /\ span' = [span EXCEPT ![<<c, Head(todo[c])[2]>>] = "running"]
  BY DEF OpenSpan
<1>2. /\ At(c) \in 1..Length(c, verdict[c]) /\ Head(todo[c]) = Line(c, verdict[c])[At(c)]
      /\ Head(todo[c])[1] = "open" /\ c \notin dead /\ At(c)' = At(c) + 1
      /\ Placed' /\ \A d \in Calls \ {c} : At(d)' = At(d)
  BY <1>1, Takes
<1>3. verdict[c] \in Verdicts BY DEF Recorded
<1>4. verdict[c] = "none" /\ Head(todo[c])[2] \in Levels(c) /\ At(c) = OpenAt(Head(todo[c])[2])
  BY <1>2, <1>3, LineReads
<1> QED BY <1>1, <1>2, <1>4

LEMMA Creates ==
  ASSUME Recorded, Placed, NEW c \in Calls, CreateTask(c)
  PROVE  /\ verdict[c] = "none" /\ At(c) = CreateAt(c) /\ At(c)' = CreateAt(c) + 1 /\ c \notin dead
         /\ Placed' /\ \A d \in Calls \ {c} : At(d)' = At(d)
<1>1. Ready(c, "create") /\ Done(c) /\ verdict' = verdict BY DEF CreateTask
<1>2. /\ At(c) \in 1..Length(c, verdict[c]) /\ Head(todo[c]) = Line(c, verdict[c])[At(c)]
      /\ Head(todo[c])[1] = "create" /\ c \notin dead /\ At(c)' = At(c) + 1
      /\ Placed' /\ \A d \in Calls \ {c} : At(d)' = At(d)
  BY <1>1, Takes
<1>3. verdict[c] \in Verdicts BY DEF Recorded
<1>4. verdict[c] = "none" /\ At(c) = CreateAt(c)
  BY <1>2, <1>3, LineReads
<1> QED BY <1>2, <1>4

LEMMA Closes ==
  ASSUME Recorded, Placed, NEW c \in Calls, CloseSpan(c)
  PROVE  /\ verdict[c] \in {"success", "failed"} /\ c \notin dead
         /\ \E l \in Levels(c) : /\ At(c) = CloseAt(c, verdict[c], l)
                                 /\ At(c)' = CloseAt(c, verdict[c], l) + 1
                                 /\ span' = [span EXCEPT ![<<c, l>>] = verdict[c]]
         /\ Placed' /\ \A d \in Calls \ {c} : At(d)' = At(d)
<1>1. Ready(c, "close") /\ Done(c) /\ verdict' = verdict
      /\ span' = [span EXCEPT ![<<c, Head(todo[c])[2]>>] = verdict[c]]
  BY DEF CloseSpan
<1>2. /\ At(c) \in 1..Length(c, verdict[c]) /\ Head(todo[c]) = Line(c, verdict[c])[At(c)]
      /\ Head(todo[c])[1] = "close" /\ c \notin dead /\ At(c)' = At(c) + 1
      /\ Placed' /\ \A d \in Calls \ {c} : At(d)' = At(d)
  BY <1>1, Takes
<1>3. verdict[c] \in Verdicts BY DEF Recorded
<1>4. /\ verdict[c] # "none" /\ Head(todo[c])[2] \in Levels(c)
      /\ At(c) = CloseAt(c, verdict[c], Head(todo[c])[2])
  BY <1>2, <1>3, LineReads
<1>5. verdict[c] \in {"success", "failed"} BY <1>3, <1>4 DEF Verdicts
<1> QED BY <1>1, <1>2, <1>4, <1>5

LEMMA Reports ==
  ASSUME Recorded, Placed, NEW c \in Calls, ReportTask(c)
  PROVE  /\ verdict[c] \in {"success", "failed"} /\ At(c) = ReportAt(c, verdict[c])
         /\ At(c)' = At(c) + 1 /\ c \notin dead
         /\ Placed' /\ \A d \in Calls \ {c} : At(d)' = At(d)
<1>1. Ready(c, "report") /\ Done(c) /\ verdict' = verdict BY DEF ReportTask
<1>2. /\ At(c) \in 1..Length(c, verdict[c]) /\ Head(todo[c]) = Line(c, verdict[c])[At(c)]
      /\ Head(todo[c])[1] = "report" /\ c \notin dead /\ At(c)' = At(c) + 1
      /\ Placed' /\ \A d \in Calls \ {c} : At(d)' = At(d)
  BY <1>1, Takes
<1>3. verdict[c] \in Verdicts BY DEF Recorded
<1>4. verdict[c] # "none" /\ At(c) = ReportAt(c, verdict[c])
  BY <1>2, <1>3, LineReads
<1>5. verdict[c] \in {"success", "failed"} BY <1>3, <1>4 DEF Verdicts
<1> QED BY <1>2, <1>4, <1>5

LEMMA Finishes ==
  ASSUME Recorded, Placed, NEW c \in Calls, FinishEvent(c)
  PROVE  /\ verdict[c] \in {"success", "failed"} /\ ByEvent(c) /\ At(c) = FinishAt(verdict[c])
         /\ At(c)' = At(c) + 1 /\ c \notin dead
         /\ Placed' /\ \A d \in Calls \ {c} : At(d)' = At(d)
<1>1. Ready(c, "finish") /\ Done(c) /\ verdict' = verdict BY DEF FinishEvent
<1>2. /\ At(c) \in 1..Length(c, verdict[c]) /\ Head(todo[c]) = Line(c, verdict[c])[At(c)]
      /\ Head(todo[c])[1] = "finish" /\ c \notin dead /\ At(c)' = At(c) + 1
      /\ Placed' /\ \A d \in Calls \ {c} : At(d)' = At(d)
  BY <1>1, Takes
<1>3. verdict[c] \in Verdicts BY DEF Recorded
<1>4. verdict[c] # "none" /\ ByEvent(c) /\ At(c) = FinishAt(verdict[c])
  BY <1>2, <1>3, LineReads
<1>5. verdict[c] \in {"success", "failed"} BY <1>3, <1>4 DEF Verdicts
<1> QED BY <1>2, <1>4, <1>5

LEMMA Works ==
  ASSUME Recorded, Placed, NEW c \in Calls, Work(c)
  PROVE  /\ verdict[c] = "none" /\ At(c) = WorkAt(c) /\ At(c)' = 1 /\ c \notin dead
         /\ \E v \in {"success", "failed"} : verdict' = [verdict EXCEPT ![c] = v]
         /\ Placed' /\ \A d \in Calls \ {c} : At(d)' = At(d)
<1>1. Ready(c, "work") BY DEF Work
<1>2. PICK v \in {"success", "failed"} : /\ verdict' = [verdict EXCEPT ![c] = v]
                                         /\ todo' = [todo EXCEPT ![c] = Closing(c, v)]
  BY DEF Work
<1>3. todo[c] # <<>> /\ Head(todo[c])[1] = "work" /\ c \notin dead
  BY <1>1 DEF Ready
<1>4. At(c) \in 1..Length(c, verdict[c]) /\ verdict[c] \in Verdicts
  BY <1>3, Reads
<1>5. Head(todo[c]) = Line(c, verdict[c])[At(c)]
  BY <1>4, Reads
<1>6. verdict[c] = "none" /\ At(c) = WorkAt(c)
  BY <1>3, <1>4, <1>5, LineReads
<1>7. verdict \in [Calls -> Verdicts] /\ todo \in [Calls -> Seq(Steps)]
      /\ \A d \in Calls : PlacedAt(d)
  BY DEF Recorded, Placed
<1>8. /\ verdict'[c] = v /\ \A d \in Calls \ {c} : verdict'[d] = verdict[d]
      /\ todo'[c] = Closing(c, v) /\ \A d \in Calls \ {c} : todo'[d] = todo[d]
  BY <1>2, <1>7
<1>9. /\ Closing(c, v) \in Seq(Steps) /\ Len(Closing(c, v)) = Length(c, v)
      /\ Length(c, v) \in 3..6 /\ Line(c, v) = Closing(c, v)
  BY LineIs, ClosingIs DEF Line, Verdicts
<1>10. At(c)' = 1
  <2>1. At(c)' = Length(c, v) + 1 - Len(Closing(c, v))
    BY <1>8 DEF At
  <2>2. Len(Closing(c, v)) = Length(c, v) /\ Length(c, v) \in 3..6
    BY <1>9
  <2> QED BY <2>1, <2>2
<1>11. \A d \in Calls \ {c} : At(d)' = At(d)
  BY <1>8 DEF At
<1>12. PlacedAt(c)'
  <2>1. Closing(c, v) = SubSeq(Closing(c, v), 1, Len(Closing(c, v)))
    BY <1>9
  <2>2. At(c)' \in 1..(Length(c, v) + 1)
    BY <1>9, <1>10
  <2>3. todo'[c] = SubSeq(Line(c, v), At(c)', Length(c, v))
    BY <1>8, <1>9, <1>10, <2>1
  <2> QED BY <1>8, <2>2, <2>3 DEF PlacedAt
<1>13. \A d \in Calls \ {c} : PlacedAt(d)'
  BY <1>7, <1>8, <1>11 DEF PlacedAt
<1>14. todo' \in [Calls -> Seq(Steps)]
  BY <1>2, <1>7, <1>9
<1> QED BY <1>2, <1>3, <1>6, <1>10, <1>11, <1>12, <1>13, <1>14 DEF Placed

-----------------------------------------------------------------------------
LEMMA SpanIs ==
  /\ \A c \in Calls : \A l \in Levels(c) : <<c, l>> \in Spans
  /\ \A s \in Spans : s[1] \in Calls /\ s[2] \in Levels(s[1]) /\ s = <<s[1], s[2]>>
<1>1. ASSUME NEW c \in Calls, NEW l \in Levels(c) PROVE <<c, l>> \in Spans
  BY <1>1 DEF Spans, Levels
<1>2. ASSUME NEW s \in Spans PROVE s[1] \in Calls /\ s[2] \in Levels(s[1]) /\ s = <<s[1], s[2]>>
  BY <1>2 DEF Spans, Levels
<1> QED BY <1>1, <1>2

(* What a call has behind it, by its place.                                *)
Opened(c, l) == verdict[c] # "none" \/ (OpenAt(l) < At(c) /\ At(c) <= WorkAt(c))
Closed(c, l) == verdict[c] # "none" /\ CloseAt(c, verdict[c], l) < At(c)
Created(c)   == verdict[c] # "none" \/ (CreateAt(c) < At(c) /\ At(c) <= WorkAt(c))
Reported(c)  == verdict[c] # "none" /\ ReportAt(c, verdict[c]) < At(c)

(* The records say what the place of the call allows: a sweep may have     *)
(* cancelled a task that is not reported, and abandoned any open span.     *)
TaskFits(c) ==
  IF Reported(c) THEN task[c] = verdict[c]
  ELSE IF Created(c) THEN task[c] \in {"running", "cancelled"} ELSE task[c] = "none"

SpanFits(c, l) ==
  IF Closed(c, l) THEN span[<<c, l>>] \in {verdict[c], "abandoned"}
  ELSE IF Opened(c, l) THEN span[<<c, l>>] \in {"running", "abandoned"}
  ELSE span[<<c, l>>] = "none"

TasksFit == \A c \in Calls : TaskFits(c)
SpansFit ==
  /\ \A c \in Calls : \A l \in Levels(c) : SpanFits(c, l)
  /\ \A s \in sweep.rows : Opened(s[1], s[2])
(* A call that died midway had a task and had not reported.                *)
MidwayFit == \A c \in midway : Created(c) /\ ~Reported(c)

Founded == Recorded /\ Placed /\ TasksFit /\ SpansFit /\ MidwayFit

LEMMA Unmoved ==
  ASSUME NEW c \in Calls, At(c)' = At(c), verdict'[c] = verdict[c]
  PROVE  /\ Created(c)' <=> Created(c)
         /\ Reported(c)' <=> Reported(c)
         /\ \A l \in 1..3 : (Opened(c, l)' <=> Opened(c, l)) /\ (Closed(c, l)' <=> Closed(c, l))
BY DEF Created, Reported, Opened, Closed

LEMMA FoundedStart == TasksInit => Founded
<1> SUFFICES ASSUME TasksInit PROVE Founded
  OBVIOUS
<1>1. Recorded
  <2>1. /\ verdict \in [Calls -> Verdicts]
        /\ task \in [Calls -> {"none", "running", "success", "failed", "cancelled"}]
    BY DEF TasksInit, Verdicts
  <2>2. /\ span \in [Spans -> {"none", "running", "success", "failed", "abandoned"}]
        /\ row \in [Events -> {"queued", "running", "success", "failed"}]
        /\ attempts \in [Events -> Nat]
    BY DEF TasksInit
  <2>3. /\ midway = {} /\ dead = {} /\ IsFiniteSet(dead) /\ overdue = {} /\ silences = 0 /\ deaths = 0
    BY FS_EmptySet DEF TasksInit
  <2>4. sweep \in [pc : {"idle", "cancel", "events", "requeue", "match", "abandon", "orphans", "last"},
                   found : SUBSET (Calls \cup Events), rows : SUBSET Spans]
    BY DEF TasksInit, NoSweep
  <2> QED BY <2>1, <2>2, <2>3, <2>4 DEF Recorded
<1>2. PICK C \in Crews : todo = [c \in Calls |-> IF c \in C THEN Opening(c) ELSE <<>>]
  BY DEF TasksInit
<1>3. \A c \in Calls : verdict[c] = "none" /\ task[c] = "none"
  BY DEF TasksInit
<1>4. ASSUME NEW c \in Calls
      PROVE  /\ todo[c] \in Seq(Steps) /\ PlacedAt(c)
             /\ At(c) \in Nat /\ (At(c) = 1 \/ At(c) > WorkAt(c))
  <2>1. /\ Opening(c) \in Seq(Steps) /\ Len(Opening(c)) = Length(c, "none")
        /\ Length(c, "none") \in 3..6 /\ Line(c, "none") = Opening(c)
    BY OpeningIs, LineIs DEF Line, Verdicts
  <2>2. CASE c \in C
    <3>1. todo[c] = Opening(c) BY <1>2, <2>2
    <3>2. At(c) = Length(c, "none") + 1 - Len(Opening(c))
      BY <1>3, <3>1 DEF At
    <3>3. At(c) = 1 BY <2>1, <3>2
    <3>4. Opening(c) = SubSeq(Opening(c), 1, Len(Opening(c))) BY <2>1
    <3> QED BY <1>3, <2>1, <3>1, <3>3, <3>4 DEF PlacedAt
  <2>3. CASE c \notin C
    <3>1. todo[c] = <<>> BY <1>2, <2>3
    <3>2. At(c) = Length(c, "none") + 1 - 0
      BY <1>3, <3>1 DEF At
    <3>3. At(c) = Length(c, "none") + 1 BY <2>1, <3>2
    <3>4. <<>> = SubSeq(Opening(c), Len(Opening(c)) + 1, Len(Opening(c))) BY <2>1
    <3>5. PlacedAt(c) BY <1>3, <2>1, <3>1, <3>3, <3>4 DEF PlacedAt
    <3> QED BY <3>1, <3>3, <3>5 DEF Length, WorkAt
  <2> QED BY <2>2, <2>3
<1>5. Placed BY <1>2, <1>4 DEF Placed
<1>6. TasksFit
  BY <1>3, <1>4 DEF TasksFit, TaskFits, Created, Reported, CreateAt, WorkAt
<1>7. SpansFit
  <2>1. sweep.rows = {} BY DEF TasksInit, NoSweep
  <2>2. ASSUME NEW c \in Calls, NEW l \in Levels(c) PROVE SpanFits(c, l)
    <3>1. span[<<c, l>>] = "none" BY SpanIs DEF TasksInit
    <3>2. l \in 1..3 BY DEF Levels
    <3> QED BY <1>3, <1>4, <3>1, <3>2 DEF SpanFits, Opened, Closed, OpenAt, WorkAt
  <2> QED BY <2>1, <2>2 DEF SpansFit
<1>8. MidwayFit BY DEF TasksInit, MidwayFit
<1> QED BY <1>1, <1>5, <1>6, <1>7, <1>8 DEF Founded

LEMMA TasksStay ==
  ASSUME TasksFit, UNCHANGED <<task, verdict>>,
         \A d \in Calls : (Created(d)' <=> Created(d)) /\ (Reported(d)' <=> Reported(d))
  PROVE  TasksFit'
BY DEF TasksFit, TaskFits

LEMMA SpansStay ==
  ASSUME Recorded, SpansFit, UNCHANGED <<span, verdict>>, sweep'.rows \subseteq sweep.rows,
         \A d \in Calls : \A l \in 1..3 : /\ Opened(d, l)' <=> Opened(d, l)
                                          /\ Closed(d, l)' <=> Closed(d, l)
  PROVE  SpansFit'
<1>1. ASSUME NEW d \in Calls, NEW l \in Levels(d) PROVE SpanFits(d, l)'
  <2>1. l \in 1..3 BY DEF Levels
  <2>2. SpanFits(d, l) BY DEF SpansFit
  <2> QED BY <2>1, <2>2 DEF SpanFits
<1>2. ASSUME NEW s \in sweep'.rows PROVE Opened(s[1], s[2])'
  <2>1. s[1] \in Calls /\ s[2] \in 1..3 BY SpanIs DEF Recorded, Levels
  <2>2. Opened(s[1], s[2]) BY DEF SpansFit
  <2> QED BY <2>1, <2>2
<1> QED BY <1>1, <1>2 DEF SpansFit

LEMMA MidwayStays ==
  ASSUME Recorded, MidwayFit, midway' \subseteq midway,
         \A d \in dead : At(d)' = At(d) /\ verdict'[d] = verdict[d]
  PROVE  MidwayFit'
<1>1. ASSUME NEW d \in midway' PROVE Created(d)' /\ ~Reported(d)'
  <2>1. d \in Calls /\ d \in midway /\ d \in dead BY DEF Recorded
  <2>2. Created(d) /\ ~Reported(d) BY <2>1 DEF MidwayFit
  <2> QED BY <2>1, <2>2, Unmoved
<1> QED BY <1>1 DEF MidwayFit

LEMMA EventIs ==
  ASSUME NEW c \in Calls, ByEvent(c)
  PROVE  EventOf[c] \in Events
BY TasksAssumption DEF ByEvent

LEMMA ClaimFits ==
  ASSUME Founded, NEW c \in Calls, ClaimRow(c)
  PROVE  Founded'
<1>1. Recorded /\ Placed /\ TasksFit /\ SpansFit /\ MidwayFit BY DEF Founded
<1>2. /\ row' = [row EXCEPT ![EventOf[c]] = "running"]
      /\ attempts' = [attempts EXCEPT ![EventOf[c]] = attempts[EventOf[c]] + 1]
      /\ overdue' = overdue \ {EventOf[c]}
      /\ UNCHANGED <<dead, midway, sweep, silences, deaths, verdict, task, span>>
  BY DEF ClaimRow, CallOnly
<1>3. /\ verdict[c] = "none" /\ ByEvent(c) /\ At(c) = 1 /\ At(c)' = 2 /\ c \notin dead
      /\ Placed' /\ \A d \in Calls \ {c} : At(d)' = At(d)
  BY <1>1, Claims
<1>4. Recorded'
  <2>1. EventOf[c] \in Events BY <1>3, EventIs
  <2>2. row' \in [Events -> {"queued", "running", "success", "failed"}] BY <1>1, <1>2, <2>1 DEF Recorded
  <2>3. attempts' \in [Events -> Nat] BY <1>1, <1>2, <2>1 DEF Recorded
  <2> QED BY <1>1, <1>2, <2>2, <2>3 DEF Recorded
<1>5. ASSUME NEW d \in Calls
      PROVE  /\ Created(d)' <=> Created(d)
             /\ Reported(d)' <=> Reported(d)
             /\ \A l \in 1..3 : (Opened(d, l)' <=> Opened(d, l)) /\ (Closed(d, l)' <=> Closed(d, l))
  <2>1. CASE d = c
    BY <1>2, <1>3, <2>1 DEF Created, Reported, Opened, Closed, CreateAt, OpenAt, WorkAt
  <2>2. CASE d # c BY <1>2, <1>3, <2>2, Unmoved
  <2> QED BY <2>1, <2>2
<1>6. TasksFit' BY <1>1, <1>2, <1>5, TasksStay
<1>7. SpansFit' BY <1>1, <1>2, <1>5, SpansStay
<1>8. MidwayFit' BY <1>1, <1>2, <1>3, MidwayStays DEF Recorded
<1> QED BY <1>3, <1>4, <1>6, <1>7, <1>8 DEF Founded

LEMMA OpenFits ==
  ASSUME Founded, NEW c \in Calls, OpenSpan(c)
  PROVE  Founded'
<1>1. Recorded /\ Placed /\ TasksFit /\ SpansFit /\ MidwayFit BY DEF Founded
<1>2. UNCHANGED <<dead, midway, sweep, silences, deaths, verdict, task, row, attempts, overdue>>
  BY DEF OpenSpan, CallOnly
<1>3. /\ verdict[c] = "none" /\ c \notin dead
      /\ Placed' /\ \A d \in Calls \ {c} : At(d)' = At(d)
  BY <1>1, SpanOpens
<1>4. PICK l \in Levels(c) : /\ At(c) = OpenAt(l) /\ At(c)' = OpenAt(l) + 1
                             /\ span' = [span EXCEPT ![<<c, l>>] = "running"]
  BY <1>1, SpanOpens
<1>5. <<c, l>> \in Spans /\ l \in 1..3 BY SpanIs DEF Levels
<1>6. Recorded' BY <1>1, <1>2, <1>4, <1>5 DEF Recorded
<1>7. ASSUME NEW d \in Calls
      PROVE  /\ Created(d)' <=> Created(d)
             /\ Reported(d)' <=> Reported(d)
  <2>1. CASE d = c
    BY <1>2, <1>3, <1>4, <1>5, <2>1 DEF Created, Reported, CreateAt, OpenAt, WorkAt, Levels
  <2>2. CASE d # c BY <1>2, <1>3, <2>2, Unmoved
  <2> QED BY <2>1, <2>2
<1>8. TasksFit' BY <1>1, <1>2, <1>7, TasksStay
<1>9. MidwayFit' BY <1>1, <1>2, <1>3, MidwayStays DEF Recorded
<1>10. ASSUME NEW m \in Levels(c)
       PROVE  /\ (Opened(c, m)' <=> Opened(c, m) \/ m = l)
              /\ ~Closed(c, m)' /\ ~Closed(c, m)
  <2>1. ~Closed(c, m)' /\ ~Closed(c, m) BY <1>2, <1>3 DEF Closed
  <2>2. Opened(c, m) <=> OpenAt(m) < At(c) /\ At(c) <= WorkAt(c)
    BY <1>3 DEF Opened
  <2>3. Opened(c, m)' <=> OpenAt(m) < At(c)' /\ At(c)' <= WorkAt(c)
    BY <1>2, <1>3 DEF Opened
  <2> QED BY <1>4, <2>1, <2>2, <2>3 DEF OpenAt, WorkAt, Levels
<1>11. ASSUME NEW d \in Calls \ {c}
       PROVE  \A m \in 1..3 : (Opened(d, m)' <=> Opened(d, m)) /\ (Closed(d, m)' <=> Closed(d, m))
  BY <1>2, <1>3, Unmoved
<1>12. ASSUME NEW d \in Calls, NEW m \in Levels(d) PROVE SpanFits(d, m)'
  <2>1. <<d, m>> \in Spans /\ m \in 1..3 BY SpanIs DEF Levels
  <2>2. SpanFits(d, m) BY <1>1 DEF SpansFit
  <2>3. CASE d = c /\ m = l
    <3>1. span'[<<d, m>>] = "running" BY <1>1, <1>4, <1>5, <2>3 DEF Recorded
    <3> QED BY <1>10, <2>3, <3>1 DEF SpanFits
  <2>4. CASE d = c /\ m # l
    <3>1. span'[<<d, m>>] = span[<<d, m>>] BY <1>1, <1>4, <1>5, <2>1, <2>4 DEF Recorded
    <3> QED BY <1>10, <2>2, <2>4, <3>1 DEF SpanFits
  <2>5. CASE d # c
    <3>1. span'[<<d, m>>] = span[<<d, m>>] BY <1>1, <1>4, <1>5, <2>1, <2>5 DEF Recorded
    <3> QED BY <1>2, <1>11, <2>1, <2>2, <2>5, <3>1 DEF SpanFits
  <2> QED BY <2>3, <2>4, <2>5
<1>13. ASSUME NEW s \in sweep'.rows PROVE Opened(s[1], s[2])'
  <2>1. s \in Spans /\ s[1] \in Calls /\ s[2] \in Levels(s[1]) /\ s[2] \in 1..3
    BY <1>1, <1>2, SpanIs DEF Recorded, Levels
  <2>2. Opened(s[1], s[2]) BY <1>1, <1>2 DEF SpansFit
  <2>3. CASE s[1] = c BY <1>10, <2>1, <2>2, <2>3
  <2>4. CASE s[1] # c BY <1>11, <2>1, <2>2, <2>4
  <2> QED BY <2>3, <2>4
<1>14. SpansFit' BY <1>12, <1>13 DEF SpansFit
<1> QED BY <1>3, <1>6, <1>8, <1>9, <1>14 DEF Founded

LEMMA CreateFits ==
  ASSUME Founded, NEW c \in Calls, CreateTask(c)
  PROVE  Founded'
<1>1. Recorded /\ Placed /\ TasksFit /\ SpansFit /\ MidwayFit BY DEF Founded
<1>2. /\ task' = [task EXCEPT ![c] = "running"]
      /\ UNCHANGED <<dead, midway, sweep, silences, deaths, verdict, span, row, attempts, overdue>>
  BY DEF CreateTask, CallOnly
<1>3. /\ verdict[c] = "none" /\ c \notin dead /\ At(c) = CreateAt(c) /\ At(c)' = CreateAt(c) + 1
      /\ Placed' /\ \A d \in Calls \ {c} : At(d)' = At(d)
  BY <1>1, Creates
<1>4. Recorded' BY <1>1, <1>2 DEF Recorded
<1>5. ASSUME NEW d \in Calls, NEW l \in 1..3
      PROVE  (Opened(d, l)' <=> Opened(d, l)) /\ (Closed(d, l)' <=> Closed(d, l))
  <2>1. CASE d = c
    <3>1. ~Closed(c, l)' /\ ~Closed(c, l) BY <1>2, <1>3 DEF Closed
    <3>2. (Opened(c, l) <=> OpenAt(l) < At(c) /\ At(c) <= WorkAt(c))
          /\ (Opened(c, l)' <=> OpenAt(l) < At(c)' /\ At(c)' <= WorkAt(c))
      BY <1>2, <1>3 DEF Opened
    <3> QED BY <1>3, <2>1, <3>1, <3>2 DEF OpenAt, CreateAt, WorkAt
  <2>2. CASE d # c BY <1>2, <1>3, <2>2, Unmoved
  <2> QED BY <2>1, <2>2
<1>6. SpansFit' BY <1>1, <1>2, <1>5, SpansStay
<1>7. MidwayFit' BY <1>1, <1>2, <1>3, MidwayStays DEF Recorded
<1>8. ASSUME NEW d \in Calls PROVE TaskFits(d)'
  <2>1. TaskFits(d) BY <1>1 DEF TasksFit
  <2>2. CASE d = c
    <3>1. task'[c] = "running" BY <1>1, <1>2 DEF Recorded
    <3>2. Created(c)' /\ ~Reported(c)'
      BY <1>2, <1>3 DEF Created, Reported, CreateAt, WorkAt
    <3> QED BY <2>2, <3>1, <3>2 DEF TaskFits
  <2>3. CASE d # c
    <3>1. task'[d] = task[d] BY <1>1, <1>2, <2>3 DEF Recorded
    <3>2. (Created(d)' <=> Created(d)) /\ (Reported(d)' <=> Reported(d))
      BY <1>2, <1>3, <2>3, Unmoved
    <3> QED BY <1>2, <2>1, <3>1, <3>2 DEF TaskFits
  <2> QED BY <2>2, <2>3
<1> QED BY <1>3, <1>4, <1>6, <1>7, <1>8 DEF Founded, TasksFit

LEMMA ReportFits ==
  ASSUME Founded, NEW c \in Calls, ReportTask(c)
  PROVE  Founded'
<1>1. Recorded /\ Placed /\ TasksFit /\ SpansFit /\ MidwayFit BY DEF Founded
<1>2. /\ task' = [task EXCEPT ![c] = verdict[c]] /\ overdue' = overdue \ {c}
      /\ UNCHANGED <<dead, midway, sweep, silences, deaths, verdict, span, row, attempts>>
  BY DEF ReportTask, CallOnly
<1>3. /\ verdict[c] \in {"success", "failed"} /\ At(c) = ReportAt(c, verdict[c])
      /\ At(c)' = At(c) + 1 /\ c \notin dead
      /\ Placed' /\ \A d \in Calls \ {c} : At(d)' = At(d)
  BY <1>1, Reports
<1>4. Recorded' BY <1>1, <1>2, <1>3 DEF Recorded
<1>5. ASSUME NEW d \in Calls, NEW l \in 1..3
      PROVE  (Opened(d, l)' <=> Opened(d, l)) /\ (Closed(d, l)' <=> Closed(d, l))
  <2>1. CASE d = c
    <3>1. Opened(c, l)' /\ Opened(c, l) BY <1>2, <1>3 DEF Opened
    <3>2. (Closed(c, l) <=> CloseAt(c, verdict[c], l) < At(c))
          /\ (Closed(c, l)' <=> CloseAt(c, verdict[c], l) < At(c)')
      BY <1>2, <1>3 DEF Closed
    <3> QED BY <1>3, <2>1, <3>1, <3>2 DEF CloseAt, ReportAt
  <2>2. CASE d # c BY <1>2, <1>3, <2>2, Unmoved
  <2> QED BY <2>1, <2>2
<1>6. SpansFit' BY <1>1, <1>2, <1>5, SpansStay
<1>7. MidwayFit' BY <1>1, <1>2, <1>3, MidwayStays DEF Recorded
<1>8. ASSUME NEW d \in Calls PROVE TaskFits(d)'
  <2>1. TaskFits(d) BY <1>1 DEF TasksFit
  <2>2. CASE d = c
    <3>1. task'[c] = verdict[c] BY <1>1, <1>2 DEF Recorded
    <3>2. Reported(c)' BY <1>2, <1>3 DEF Reported, ReportAt
    <3> QED BY <1>2, <2>2, <3>1, <3>2 DEF TaskFits
  <2>3. CASE d # c
    <3>1. task'[d] = task[d] BY <1>1, <1>2, <2>3 DEF Recorded
    <3>2. (Created(d)' <=> Created(d)) /\ (Reported(d)' <=> Reported(d))
      BY <1>2, <1>3, <2>3, Unmoved
    <3> QED BY <1>2, <2>1, <3>1, <3>2 DEF TaskFits
  <2> QED BY <2>2, <2>3
<1> QED BY <1>3, <1>4, <1>6, <1>7, <1>8 DEF Founded, TasksFit

LEMMA FinishFits ==
  ASSUME Founded, NEW c \in Calls, FinishEvent(c)
  PROVE  Founded'
<1>1. Recorded /\ Placed /\ TasksFit /\ SpansFit /\ MidwayFit BY DEF Founded
<1>2. /\ row' = [row EXCEPT ![EventOf[c]] = verdict[c]] /\ overdue' = overdue \ {EventOf[c]}
      /\ UNCHANGED <<dead, midway, sweep, silences, deaths, verdict, task, span, attempts>>
  BY DEF FinishEvent, CallOnly
<1>3. /\ verdict[c] \in {"success", "failed"} /\ ByEvent(c) /\ At(c) = FinishAt(verdict[c])
      /\ At(c)' = At(c) + 1 /\ c \notin dead
      /\ Placed' /\ \A d \in Calls \ {c} : At(d)' = At(d)
  BY <1>1, Finishes
<1>4. Recorded'
  <2>1. EventOf[c] \in Events BY <1>3, EventIs
  <2>2. row' \in [Events -> {"queued", "running", "success", "failed"}]
    BY <1>1, <1>2, <1>3, <2>1 DEF Recorded
  <2> QED BY <1>1, <1>2, <2>2 DEF Recorded
<1>5. ASSUME NEW d \in Calls
      PROVE  /\ Created(d)' <=> Created(d)
             /\ Reported(d)' <=> Reported(d)
             /\ \A l \in 1..3 : (Opened(d, l)' <=> Opened(d, l)) /\ (Closed(d, l)' <=> Closed(d, l))
  <2>1. CASE d = c
    <3>1. Created(c) /\ Created(c)' /\ \A l \in 1..3 : Opened(c, l)' /\ Opened(c, l)
      BY <1>2, <1>3 DEF Created, Opened
    <3>2. Reported(c) /\ Reported(c)'
      BY <1>2, <1>3 DEF Reported, ReportAt, FinishAt
    <3>3. \A l \in 1..3 : Closed(c, l)' <=> Closed(c, l)
      BY <1>2, <1>3 DEF Closed, CloseAt, FinishAt
    <3> QED BY <2>1, <3>1, <3>2, <3>3
  <2>2. CASE d # c BY <1>2, <1>3, <2>2, Unmoved
  <2> QED BY <2>1, <2>2
<1>6. TasksFit' BY <1>1, <1>2, <1>5, TasksStay
<1>7. SpansFit' BY <1>1, <1>2, <1>5, SpansStay
<1>8. MidwayFit' BY <1>1, <1>2, <1>3, MidwayStays DEF Recorded
<1> QED BY <1>3, <1>4, <1>6, <1>7, <1>8 DEF Founded

LEMMA WorkFits ==
  ASSUME Founded, NEW c \in Calls, Work(c)
  PROVE  Founded'
<1>1. Recorded /\ Placed /\ TasksFit /\ SpansFit /\ MidwayFit BY DEF Founded
<1>2. UNCHANGED <<dead, midway, sweep, silences, deaths, task, span, row, attempts, overdue>>
  BY DEF Work, CallOnly, recordVars
<1>3. /\ verdict[c] = "none" /\ c \notin dead /\ At(c) = WorkAt(c) /\ At(c)' = 1
      /\ Placed' /\ \A d \in Calls \ {c} : At(d)' = At(d)
  BY <1>1, Works
<1>4. PICK v \in {"success", "failed"} : verdict' = [verdict EXCEPT ![c] = v]
  BY <1>1, Works
<1>5. verdict' \in [Calls -> Verdicts] /\ verdict'[c] = v
      /\ \A d \in Calls \ {c} : verdict'[d] = verdict[d]
  BY <1>1, <1>4 DEF Recorded, Verdicts
<1>6. Recorded' BY <1>1, <1>2, <1>5 DEF Recorded
<1>7. /\ Created(c) /\ Created(c)' /\ ~Reported(c) /\ ~Reported(c)'
      /\ \A l \in Levels(c) : Opened(c, l) /\ Opened(c, l)' /\ ~Closed(c, l) /\ ~Closed(c, l)'
  <2>1. Created(c)' /\ ~Reported(c) /\ \A l \in Levels(c) : Opened(c, l)' /\ ~Closed(c, l)
    BY <1>3, <1>5 DEF Created, Reported, Opened, Closed
  <2>2. Created(c) /\ \A l \in Levels(c) : Opened(c, l)
    BY <1>3 DEF Created, Opened, CreateAt, WorkAt, OpenAt, Levels
  <2>3. ~Reported(c)' /\ \A l \in Levels(c) : ~Closed(c, l)'
    BY <1>3, <1>5 DEF Reported, Closed, ReportAt, CloseAt, Levels
  <2> QED BY <2>1, <2>2, <2>3
<1>8. ASSUME NEW d \in Calls \ {c}
      PROVE  /\ Created(d)' <=> Created(d)
             /\ Reported(d)' <=> Reported(d)
             /\ \A l \in 1..3 : (Opened(d, l)' <=> Opened(d, l)) /\ (Closed(d, l)' <=> Closed(d, l))
  BY <1>3, <1>5, Unmoved
<1>9. ASSUME NEW d \in Calls PROVE TaskFits(d)'
  <2>1. TaskFits(d) BY <1>1 DEF TasksFit
  <2>2. CASE d = c BY <1>2, <1>7, <2>1, <2>2 DEF TaskFits
  <2>3. CASE d # c BY <1>2, <1>5, <1>8, <2>1, <2>3 DEF TaskFits
  <2> QED BY <2>2, <2>3
<1>10. ASSUME NEW d \in Calls, NEW m \in Levels(d) PROVE SpanFits(d, m)'
  <2>1. SpanFits(d, m) /\ m \in 1..3 BY <1>1 DEF SpansFit, Levels
  <2>2. CASE d = c BY <1>2, <1>7, <2>1, <2>2 DEF SpanFits
  <2>3. CASE d # c BY <1>2, <1>5, <1>8, <2>1, <2>3 DEF SpanFits
  <2> QED BY <2>2, <2>3
<1>11. ASSUME NEW s \in sweep'.rows PROVE Opened(s[1], s[2])'
  <2>1. s \in Spans /\ s[1] \in Calls /\ s[2] \in Levels(s[1]) /\ s[2] \in 1..3
    BY <1>1, <1>2, SpanIs DEF Recorded, Levels
  <2>2. Opened(s[1], s[2]) BY <1>1, <1>2 DEF SpansFit
  <2>3. CASE s[1] = c BY <1>7, <2>1, <2>3
  <2>4. CASE s[1] # c BY <1>8, <2>1, <2>2, <2>4
  <2> QED BY <2>3, <2>4
<1>12. MidwayFit'
  <2>1. \A d \in dead : At(d)' = At(d) /\ verdict'[d] = verdict[d]
    BY <1>1, <1>3, <1>5 DEF Recorded
  <2> QED BY <1>1, <1>2, <2>1, MidwayStays
<1> QED BY <1>3, <1>6, <1>9, <1>10, <1>11, <1>12 DEF Founded, TasksFit, SpansFit

LEMMA CloseFits ==
  ASSUME Founded, NEW c \in Calls, CloseSpan(c)
  PROVE  Founded'
<1>1. Recorded /\ Placed /\ TasksFit /\ SpansFit /\ MidwayFit BY DEF Founded
<1>2. UNCHANGED <<dead, midway, sweep, silences, deaths, verdict, task, row, attempts, overdue>>
  BY DEF CloseSpan, CallOnly
<1>3. /\ verdict[c] \in {"success", "failed"} /\ c \notin dead
      /\ Placed' /\ \A d \in Calls \ {c} : At(d)' = At(d)
  BY <1>1, Closes
<1>4. PICK l \in Levels(c) : /\ At(c) = CloseAt(c, verdict[c], l)
                             /\ At(c)' = CloseAt(c, verdict[c], l) + 1
                             /\ span' = [span EXCEPT ![<<c, l>>] = verdict[c]]
  BY <1>1, Closes
<1>5. <<c, l>> \in Spans /\ l \in 1..3 BY SpanIs DEF Levels
<1>6. Recorded' BY <1>1, <1>2, <1>3, <1>4, <1>5 DEF Recorded
<1>7. ASSUME NEW d \in Calls
      PROVE  /\ Created(d)' <=> Created(d)
             /\ Reported(d)' <=> Reported(d)
  <2>1. CASE d = c
    <3>1. Created(c) /\ Created(c)' BY <1>2, <1>3 DEF Created
    <3>2. (Reported(c) <=> ReportAt(c, verdict[c]) < At(c))
          /\ (Reported(c)' <=> ReportAt(c, verdict[c]) < At(c)')
      BY <1>2, <1>3 DEF Reported
    <3> QED BY <1>3, <1>4, <2>1, <3>1, <3>2 DEF ReportAt, CloseAt, Levels
  <2>2. CASE d # c BY <1>2, <1>3, <2>2, Unmoved
  <2> QED BY <2>1, <2>2
<1>8. TasksFit' BY <1>1, <1>2, <1>7, TasksStay
<1>9. MidwayFit' BY <1>1, <1>2, <1>3, MidwayStays DEF Recorded
<1>10. ASSUME NEW m \in Levels(c)
       PROVE  /\ Opened(c, m)' /\ Opened(c, m)
              /\ (Closed(c, m)' <=> Closed(c, m) \/ m = l)
  <2>1. Opened(c, m)' /\ Opened(c, m) BY <1>2, <1>3 DEF Opened
  <2>2. (Closed(c, m) <=> CloseAt(c, verdict[c], m) < At(c))
        /\ (Closed(c, m)' <=> CloseAt(c, verdict[c], m) < At(c)')
    BY <1>2, <1>3 DEF Closed
  <2> QED BY <1>3, <1>4, <2>1, <2>2 DEF CloseAt, Levels
<1>11. ASSUME NEW d \in Calls \ {c}
       PROVE  \A m \in 1..3 : (Opened(d, m)' <=> Opened(d, m)) /\ (Closed(d, m)' <=> Closed(d, m))
  BY <1>2, <1>3, Unmoved
<1>12. ASSUME NEW d \in Calls, NEW m \in Levels(d) PROVE SpanFits(d, m)'
  <2>1. <<d, m>> \in Spans /\ m \in 1..3 BY SpanIs DEF Levels
  <2>2. SpanFits(d, m) BY <1>1 DEF SpansFit
  <2>3. CASE d = c /\ m = l
    <3>1. span'[<<d, m>>] = verdict[c] BY <1>1, <1>4, <1>5, <2>3 DEF Recorded
    <3> QED BY <1>2, <1>10, <2>3, <3>1 DEF SpanFits
  <2>4. CASE d = c /\ m # l
    <3>1. span'[<<d, m>>] = span[<<d, m>>] BY <1>1, <1>4, <1>5, <2>1, <2>4 DEF Recorded
    <3> QED BY <1>2, <1>10, <2>2, <2>4, <3>1 DEF SpanFits
  <2>5. CASE d # c
    <3>1. span'[<<d, m>>] = span[<<d, m>>] BY <1>1, <1>4, <1>5, <2>1, <2>5 DEF Recorded
    <3> QED BY <1>2, <1>11, <2>1, <2>2, <2>5, <3>1 DEF SpanFits
  <2> QED BY <2>3, <2>4, <2>5
<1>13. ASSUME NEW s \in sweep'.rows PROVE Opened(s[1], s[2])'
  <2>1. s \in Spans /\ s[1] \in Calls /\ s[2] \in Levels(s[1]) /\ s[2] \in 1..3
    BY <1>1, <1>2, SpanIs DEF Recorded, Levels
  <2>2. Opened(s[1], s[2]) BY <1>1, <1>2 DEF SpansFit
  <2>3. CASE s[1] = c BY <1>10, <2>1, <2>3
  <2>4. CASE s[1] # c BY <1>11, <2>1, <2>2, <2>4
  <2> QED BY <2>3, <2>4
<1>14. SpansFit' BY <1>12, <1>13 DEF SpansFit
<1> QED BY <1>3, <1>6, <1>8, <1>9, <1>14 DEF Founded

LEMMA FoundedStays ==
  ASSUME Founded, Recorded', UNCHANGED <<todo, verdict, task, span, midway>>,
         \A s \in sweep'.rows : Opened(s[1], s[2])
  PROVE  Founded'
<1>1. Recorded /\ Placed /\ TasksFit /\ SpansFit /\ MidwayFit BY DEF Founded
<1>2. Placed' /\ \A d \in Calls : At(d)' = At(d) BY <1>1, Stands
<1>3. ASSUME NEW d \in Calls
      PROVE  /\ Created(d)' <=> Created(d)
             /\ Reported(d)' <=> Reported(d)
             /\ \A l \in 1..3 : (Opened(d, l)' <=> Opened(d, l)) /\ (Closed(d, l)' <=> Closed(d, l))
  BY <1>2, Unmoved
<1>4. TasksFit' BY <1>1, <1>3, TasksStay
<1>5. ASSUME NEW d \in Calls, NEW l \in Levels(d) PROVE SpanFits(d, l)'
  <2>1. l \in 1..3 /\ SpanFits(d, l) BY <1>1 DEF Levels, SpansFit
  <2> QED BY <1>3, <2>1 DEF SpanFits
<1>6. ASSUME NEW s \in sweep'.rows PROVE Opened(s[1], s[2])'
  <2>1. s \in Spans BY DEF Recorded
  <2>2. s[1] \in Calls /\ s[2] \in 1..3 BY <2>1, SpanIs DEF Levels
  <2> QED BY <1>3, <2>2
<1>7. MidwayFit' BY <1>1, <1>2, MidwayStays DEF Recorded
<1> QED BY <1>2, <1>4, <1>5, <1>6, <1>7 DEF Founded, SpansFit

LEMMA HeartbeatFits ==
  ASSUME Founded,
         \/ \E c \in Calls : TouchTask(c) \/ TaskLapses(c)
         \/ \E e \in Events : TouchLease(e) \/ LeaseLapses(e)
  PROVE  Founded'
<1>1. UNCHANGED <<todo, verdict, task, span, row, attempts, dead, midway, sweep>>
  BY DEF TouchTask, TaskLapses, TouchLease, LeaseLapses, Silent, CallOnly, recordVars
<1>2. Recorded BY DEF Founded
<1>3. overdue' \subseteq Calls \cup Events /\ silences' \in Nat /\ deaths' \in Nat
  BY <1>2 DEF Recorded, TouchTask, TaskLapses, TouchLease, LeaseLapses, Silent, CallOnly
<1>4. Recorded' BY <1>1, <1>2, <1>3 DEF Recorded
<1>5. \A s \in sweep'.rows : Opened(s[1], s[2]) BY <1>1 DEF Founded, SpansFit
<1> QED BY <1>1, <1>4, <1>5, FoundedStays

LEMMA DiesFits ==
  ASSUME Founded, NEW c \in Calls, Dies(c)
  PROVE  Founded'
<1>1. Recorded /\ Placed /\ TasksFit /\ SpansFit /\ MidwayFit BY DEF Founded
<1>2. /\ dead' = dead \cup {c} /\ deaths' = deaths + 1
      /\ midway' = IF task[c] = "running" /\ sweep.pc = "idle" THEN midway \cup {c} ELSE midway
      /\ UNCHANGED <<todo, verdict, task, span, row, attempts, overdue, sweep, silences>>
  BY DEF Dies, recordVars
<1>3. IsFiniteSet(dead') BY <1>1, <1>2, FS_AddElement DEF Recorded
<1>4. Recorded' BY <1>1, <1>2, <1>3 DEF Recorded
<1>5. Placed' /\ \A d \in Calls : At(d)' = At(d) BY <1>1, <1>2, Stands
<1>6. ASSUME NEW d \in Calls
      PROVE  /\ Created(d)' <=> Created(d)
             /\ Reported(d)' <=> Reported(d)
             /\ \A l \in 1..3 : (Opened(d, l)' <=> Opened(d, l)) /\ (Closed(d, l)' <=> Closed(d, l))
  BY <1>2, <1>5, Unmoved
<1>7. TasksFit' BY <1>1, <1>2, <1>6, TasksStay
<1>8. SpansFit' BY <1>1, <1>2, <1>6, SpansStay
<1>9. ASSUME NEW d \in midway' PROVE Created(d)' /\ ~Reported(d)'
  <2>1. CASE d \in midway BY <1>1, <1>6, <2>1 DEF MidwayFit, Recorded
  <2>2. CASE d = c /\ task[c] = "running"
    <3>1. TaskFits(c) /\ verdict[c] \in Verdicts BY <1>1 DEF TasksFit, Recorded
    <3>2. Created(c) /\ ~Reported(c) BY <2>2, <3>1 DEF TaskFits, Verdicts
    <3> QED BY <1>6, <2>2, <3>2
  <2> QED BY <1>2, <2>1, <2>2
<1> QED BY <1>4, <1>5, <1>7, <1>8, <1>9 DEF Founded, MidwayFit

LEMMA CancelFits ==
  ASSUME Founded, CancelStale
  PROVE  Founded'
<1>1. Recorded /\ Placed /\ TasksFit /\ SpansFit /\ MidwayFit BY DEF Founded
<1>2. /\ task' = [c \in Calls |-> IF c \in sweep.found /\ task[c] = "running"
                                  THEN "cancelled" ELSE task[c]]
      /\ sweep' = [sweep EXCEPT !.pc = "events"]
      /\ UNCHANGED <<todo, dead, midway, verdict, attempts, overdue, silences, deaths, span, row>>
  BY DEF CancelStale, SweepOnly, boundVars
<1>3. task' \in [Calls -> {"none", "running", "success", "failed", "cancelled"}]
  BY <1>1, <1>2 DEF Recorded
<1>4. /\ sweep' \in [pc : {"idle", "cancel", "events", "requeue", "match", "abandon", "orphans", "last"},
                     found : SUBSET (Calls \cup Events), rows : SUBSET Spans]
      /\ sweep'.rows = sweep.rows
  BY <1>1, <1>2 DEF Recorded
<1>5. Recorded' BY <1>1, <1>2, <1>3, <1>4 DEF Recorded
<1>6. Placed' /\ \A d \in Calls : At(d)' = At(d) BY <1>1, <1>2, Stands
<1>7. ASSUME NEW d \in Calls
      PROVE  /\ Created(d)' <=> Created(d)
             /\ Reported(d)' <=> Reported(d)
             /\ \A l \in 1..3 : (Opened(d, l)' <=> Opened(d, l)) /\ (Closed(d, l)' <=> Closed(d, l))
  BY <1>2, <1>6, Unmoved
<1>8. SpansFit' BY <1>1, <1>2, <1>4, <1>7, SpansStay
<1>9. MidwayFit' BY <1>1, <1>2, <1>6, MidwayStays DEF Recorded
<1>10. ASSUME NEW d \in Calls PROVE TaskFits(d)'
  <2>1. TaskFits(d) /\ verdict[d] \in Verdicts BY <1>1 DEF TasksFit, Recorded
  <2>2. CASE task'[d] = task[d] BY <1>2, <1>7, <2>1, <2>2 DEF TaskFits
  <2>3. CASE task[d] = "running" /\ task'[d] = "cancelled"
    <3>1. Created(d) /\ ~Reported(d) BY <2>1, <2>3 DEF TaskFits, Verdicts
    <3> QED BY <1>7, <2>3, <3>1 DEF TaskFits
  <2> QED BY <1>2, <2>2, <2>3
<1> QED BY <1>5, <1>6, <1>8, <1>9, <1>10 DEF Founded, TasksFit

LEMMA RunningOpened ==
  ASSUME Founded, NEW s \in Running
  PROVE  s \in Spans /\ Opened(s[1], s[2])
<1>1. s \in Spans /\ span[s] = "running" BY DEF Running
<1>2. s[1] \in Calls /\ s[2] \in Levels(s[1]) /\ s = <<s[1], s[2]>> BY <1>1, SpanIs
<1>3. SpanFits(s[1], s[2]) BY <1>2 DEF Founded, SpansFit
<1>4. span[<<s[1], s[2]>>] = "running" BY <1>1, <1>2
<1>5. verdict[s[1]] \in Verdicts BY <1>2 DEF Founded, Recorded
<1> QED BY <1>1, <1>3, <1>4, <1>5 DEF SpanFits, Opened, Closed, Verdicts

LEMMA AbandonFits ==
  ASSUME Founded, AbandonNext
  PROVE  Founded'
<1>1. Recorded /\ Placed /\ TasksFit /\ SpansFit /\ MidwayFit BY DEF Founded
<1>2. PICK s \in sweep.rows : /\ span' = [span EXCEPT ![s] = "abandoned"]
                              /\ sweep' = [sweep EXCEPT !.rows = sweep.rows \ {s}]
  BY DEF AbandonNext
<1>3. UNCHANGED <<todo, dead, midway, verdict, attempts, overdue, silences, deaths, task, row>>
  BY DEF AbandonNext, SweepOnly, boundVars
<1>4. s \in Spans BY <1>1 DEF Recorded
<1>5. /\ sweep' \in [pc : {"idle", "cancel", "events", "requeue", "match", "abandon", "orphans", "last"},
                     found : SUBSET (Calls \cup Events), rows : SUBSET Spans]
      /\ sweep'.rows = sweep.rows \ {s}
  BY <1>1, <1>2 DEF Recorded
<1>6. Recorded' BY <1>1, <1>2, <1>3, <1>4, <1>5 DEF Recorded
<1>7. Placed' /\ \A d \in Calls : At(d)' = At(d) BY <1>1, <1>3, Stands
<1>8. ASSUME NEW d \in Calls
      PROVE  /\ Created(d)' <=> Created(d)
             /\ Reported(d)' <=> Reported(d)
             /\ \A l \in 1..3 : (Opened(d, l)' <=> Opened(d, l)) /\ (Closed(d, l)' <=> Closed(d, l))
  BY <1>3, <1>7, Unmoved
<1>9. TasksFit' BY <1>1, <1>3, <1>8, TasksStay
<1>10. MidwayFit' BY <1>1, <1>3, <1>7, MidwayStays DEF Recorded
<1>11. ASSUME NEW t \in sweep'.rows PROVE Opened(t[1], t[2])'
  <2>1. t \in Spans /\ Opened(t[1], t[2]) BY <1>1, <1>5 DEF Recorded, SpansFit
  <2>2. t[1] \in Calls /\ t[2] \in 1..3 BY <2>1, SpanIs DEF Levels
  <2> QED BY <1>8, <2>1, <2>2
<1>12. ASSUME NEW d \in Calls, NEW l \in Levels(d) PROVE SpanFits(d, l)'
  <2>1. <<d, l>> \in Spans /\ l \in 1..3 /\ SpanFits(d, l) BY <1>1, SpanIs DEF Levels, SpansFit
  <2>2. CASE s = <<d, l>>
    <3>1. span'[<<d, l>>] = "abandoned" BY <1>1, <1>2, <1>4, <2>2 DEF Recorded
    <3>2. Opened(s[1], s[2]) BY <1>1, <1>2 DEF SpansFit
    <3>3. s[1] = d /\ s[2] = l BY <2>2
    <3>4. Opened(d, l)' BY <1>8, <2>1, <3>2, <3>3
    <3> QED BY <3>1, <3>4 DEF SpanFits
  <2>3. CASE s # <<d, l>>
    <3>1. span'[<<d, l>>] = span[<<d, l>>] BY <1>1, <1>2, <1>4, <2>1, <2>3 DEF Recorded
    <3> QED BY <1>3, <1>8, <2>1, <3>1 DEF SpanFits
  <2> QED BY <2>2, <2>3
<1> QED BY <1>6, <1>7, <1>9, <1>10, <1>11, <1>12 DEF Founded, SpansFit

LEMMA SweepFits ==
  ASSUME Founded,
         \/ ListStale \/ ListExpired \/ RequeueExpired \/ ListMatching \/ ListOrphans
         \/ AllAbandoned \/ SweeperDies
  PROVE  Founded'
<1>1. Recorded BY DEF Founded
<1>2. UNCHANGED <<todo, verdict, task, span, midway, dead, attempts, overdue, silences>>
      /\ deaths' \in Nat
  BY <1>1 DEF Recorded, ListStale, ListExpired, RequeueExpired, ListMatching, ListOrphans, AllAbandoned,
              SweeperDies, SweepOnly, boundVars, recordVars
<1>3. row' \in [Events -> {"queued", "running", "success", "failed"}]
  BY <1>1 DEF Recorded, ListStale, ListExpired, RequeueExpired, ListMatching, ListOrphans,
              AllAbandoned, SweeperDies, recordVars
<1>4. /\ sweep' \in [pc : {"idle", "cancel", "events", "requeue", "match", "abandon", "orphans", "last"},
                     found : SUBSET (Calls \cup Events), rows : SUBSET Spans]
      /\ sweep'.rows \subseteq sweep.rows \cup Running
  <2>0. /\ sweep \in [pc : {"idle", "cancel", "events", "requeue", "match", "abandon", "orphans", "last"},
                      found : SUBSET (Calls \cup Events), rows : SUBSET Spans]
        /\ Running \subseteq Spans /\ Matching(Running) \subseteq Running /\ Orphans \subseteq Running
    BY <1>1 DEF Recorded, Running, Matching, Orphans
  <2>1. CASE ListStale
    <3> DEFINE S == {c \in Calls : task[c] = "running" /\ c \in overdue}
    <3>1. S \subseteq Calls /\ sweep' = [NoSweep EXCEPT !.pc = IF S = {} THEN "events" ELSE "cancel", !.found = S]
      BY <2>1 DEF ListStale
    <3> QED BY <3>1 DEF NoSweep
  <2>2. CASE ListExpired
    <3> DEFINE S == {e \in Events : row[e] = "running" /\ e \in overdue}
    <3>1. S \subseteq Events
          /\ sweep' = [sweep EXCEPT !.found = sweep.found \cup S,
                            !.pc = IF S # {} THEN "requeue"
                                   ELSE IF sweep.found # {} THEN "match" ELSE "orphans"]
      BY <2>2 DEF ListExpired
    <3> HIDE DEF S
    <3> QED BY <2>0, <3>1
  <2>3. CASE RequeueExpired BY <2>0, <2>3 DEF RequeueExpired
  <2>4. CASE ListMatching BY <2>0, <2>4 DEF ListMatching
  <2>5. CASE ListOrphans BY <2>0, <2>5 DEF ListOrphans, NoSweep
  <2>6. CASE AllAbandoned BY <2>0, <2>6 DEF AllAbandoned, NoSweep
  <2>7. CASE SweeperDies BY <2>0, <2>7 DEF SweeperDies, NoSweep
  <2> QED BY <2>1, <2>2, <2>3, <2>4, <2>5, <2>6, <2>7
<1>5. Recorded' BY <1>1, <1>2, <1>3, <1>4 DEF Recorded
<1>6. \A s \in sweep'.rows : Opened(s[1], s[2])
  BY <1>4, RunningOpened DEF Founded, SpansFit
<1> QED BY <1>2, <1>5, <1>6, FoundedStays

LEMMA FoundedStep ==
  ASSUME Founded, [TasksNext]_tasksVars
  PROVE  Founded'
<1>1. ASSUME NEW c \in Calls, CallStep(c) PROVE Founded'
  BY <1>1, ClaimFits, OpenFits, CreateFits, WorkFits, CloseFits, ReportFits, FinishFits,
     HeartbeatFits, DiesFits DEF CallStep
<1>2. ASSUME NEW e \in Events, LeaseStep(e) PROVE Founded'
  BY <1>2, HeartbeatFits DEF LeaseStep
<1>3. ASSUME SweepStep \/ SweeperDies PROVE Founded'
  BY <1>3, CancelFits, AbandonFits, SweepFits DEF SweepStep
<1>4. CASE UNCHANGED tasksVars
  <2>1. UNCHANGED <<todo, verdict, task, span, midway, dead, row, attempts, overdue, sweep, silences, deaths>>
    BY <1>4 DEF tasksVars, recordVars, boundVars
  <2>2. Recorded' BY <2>1 DEF Founded, Recorded
  <2>3. \A s \in sweep'.rows : Opened(s[1], s[2]) BY <2>1 DEF Founded, SpansFit
  <2> QED BY <2>1, <2>2, <2>3, FoundedStays
<1> QED BY <1>1, <1>2, <1>3, <1>4 DEF TasksNext

(* A step is pending while it stands at the place of the call or behind it.*)
LEMMA PendingOn ==
  ASSUME Recorded, Placed, NEW c \in Calls, NEW w
  PROVE  Pending(c, w) <=> \E j \in At(c)..Length(c, verdict[c]) : Line(c, verdict[c])[j][1] = w
<1>1. ASSUME Pending(c, w)
      PROVE  \E j \in At(c)..Length(c, verdict[c]) : Line(c, verdict[c])[j][1] = w
  <2>1. PICK i \in DOMAIN todo[c] : todo[c][i][1] = w BY <1>1 DEF Pending
  <2>2. At(c) + i - 1 \in At(c)..Length(c, verdict[c])
        /\ todo[c][i] = Line(c, verdict[c])[At(c) + i - 1]
    BY ReadsOn
  <2> QED BY <2>1, <2>2
<1>2. ASSUME NEW j \in At(c)..Length(c, verdict[c]), Line(c, verdict[c])[j][1] = w
      PROVE  Pending(c, w)
  <2>1. j + 1 - At(c) \in DOMAIN todo[c] /\ todo[c][j + 1 - At(c)] = Line(c, verdict[c])[j]
    BY ReadsOn
  <2> QED BY <1>2, <2>1 DEF Pending
<1> QED BY <1>1, <1>2

LEMMA PendingIs ==
  ASSUME Recorded, Placed, NEW c \in Calls
  PROVE  /\ At(c) \in Nat
         /\ IF verdict[c] = "none"
            THEN /\ Pending(c, "claim") <=> ByEvent(c) /\ At(c) = 1
                 /\ Pending(c, "work") <=> At(c) <= WorkAt(c)
                 /\ ~Pending(c, "finish")
            ELSE /\ Pending(c, "report") <=> At(c) <= ReportAt(c, verdict[c])
                 /\ Pending(c, "finish") <=> ByEvent(c) /\ At(c) <= FinishAt(verdict[c])
                 /\ ~Pending(c, "claim") /\ ~Pending(c, "work")
<1> DEFINE v == verdict[c]  n == At(c)
<1>1. v \in Verdicts /\ Length(c, v) \in 3..6 /\ n \in 1..(Length(c, v) + 1) BY Reads
<1>2. \A w : Pending(c, w) <=> \E j \in n..Length(c, v) : Line(c, v)[j][1] = w BY PendingOn
<1>3. CASE v = "none"
  <2>1. \A j \in 1..Length(c, v) :
          /\ Line(c, v)[j][1] = "claim" <=> ByEvent(c) /\ j = 1
          /\ Line(c, v)[j][1] = "work" <=> j = WorkAt(c)
          /\ Line(c, v)[j][1] # "finish"
    BY <1>1, <1>3, LineReads
  <2>2. \A j \in n..Length(c, v) : j \in 1..Length(c, v) BY <1>1
  <2>3. WorkAt(c) \in 1..Length(c, v) BY <1>3 DEF WorkAt, Length
  <2> HIDE DEF n
  <2>4. Pending(c, "claim") <=> ByEvent(c) /\ n = 1
    <3>1. \A j \in n..Length(c, v) : Line(c, v)[j][1] = "claim" <=> ByEvent(c) /\ j = 1
      BY <2>1, <2>2
    <3>2. 1 \in n..Length(c, v) <=> n = 1 BY <1>1
    <3> QED BY <1>1, <1>2, <3>1, <3>2
  <2>5. Pending(c, "work") <=> n <= WorkAt(c)
    <3>1. \A j \in n..Length(c, v) : Line(c, v)[j][1] = "work" <=> j = WorkAt(c)
      BY <2>1, <2>2
    <3>2. WorkAt(c) \in n..Length(c, v) <=> n <= WorkAt(c) BY <1>1, <2>3
    <3> QED BY <1>1, <1>2, <3>1, <3>2
  <2>6. ~Pending(c, "finish") BY <1>2, <2>1, <2>2
  <2> QED BY <1>1, <1>3, <2>4, <2>5, <2>6 DEF n
<1>4. CASE v # "none"
  <2>1. \A j \in 1..Length(c, v) :
          /\ Line(c, v)[j][1] = "report" <=> j = ReportAt(c, v)
          /\ Line(c, v)[j][1] = "finish" <=> ByEvent(c) /\ j = FinishAt(v)
          /\ Line(c, v)[j][1] \notin {"claim", "work"}
    BY <1>1, <1>4, LineReads
  <2>2. \A j \in n..Length(c, v) : j \in 1..Length(c, v) BY <1>1
  <2>3. ReportAt(c, v) \in 1..Length(c, v) /\ (ByEvent(c) => FinishAt(v) \in 1..Length(c, v))
    BY <1>4 DEF ReportAt, FinishAt, Length
  <2> HIDE DEF n
  <2>4. Pending(c, "report") <=> n <= ReportAt(c, v)
    <3>1. \A j \in n..Length(c, v) : Line(c, v)[j][1] = "report" <=> j = ReportAt(c, v)
      BY <2>1, <2>2
    <3>2. ReportAt(c, v) \in n..Length(c, v) <=> n <= ReportAt(c, v) BY <1>1, <2>3
    <3> QED BY <1>1, <1>2, <3>1, <3>2
  <2>5. Pending(c, "finish") <=> ByEvent(c) /\ n <= FinishAt(v)
    <3>1. \A j \in n..Length(c, v) : Line(c, v)[j][1] = "finish" <=> ByEvent(c) /\ j = FinishAt(v)
      BY <2>1, <2>2
    <3>2. ByEvent(c) => (FinishAt(v) \in n..Length(c, v) <=> n <= FinishAt(v)) BY <1>1, <2>3
    <3> QED BY <1>1, <1>2, <3>1, <3>2
  <2>6. ~Pending(c, "claim") /\ ~Pending(c, "work") BY <1>2, <2>1, <2>2
  <2> QED BY <1>1, <1>4, <2>4, <2>5, <2>6 DEF n
<1> QED BY <1>3, <1>4

LEMMA FoundedTypes == Founded => TasksTypeOK
BY DEF Founded, Recorded, Placed, TasksTypeOK, Steps, Verdicts

LEMMA FoundedVerdicts == Founded => TaskKeepsVerdict
<1> SUFFICES ASSUME Founded, NEW c \in Calls,
                    ~Pending(c, "create"), ~Pending(c, "work"), ~Pending(c, "report")
             PROVE  task[c] = verdict[c]
  BY DEF TaskKeepsVerdict
<1>1. Recorded /\ Placed /\ TaskFits(c) BY DEF Founded, TasksFit
<1>2. CASE verdict[c] = "none"
  <2>1. At(c) \in Nat /\ ~(At(c) <= WorkAt(c)) BY <1>1, <1>2, PendingIs
  <2> QED BY <1>1, <1>2, <2>1 DEF TaskFits, Reported, Created
<1>3. CASE verdict[c] # "none"
  <2>1. At(c) \in Nat /\ ~(At(c) <= ReportAt(c, verdict[c])) BY <1>1, <1>3, PendingIs
  <2>2. ReportAt(c, verdict[c]) \in Nat BY DEF ReportAt
  <2>3. Reported(c) BY <1>3, <2>1, <2>2 DEF Reported
  <2> QED BY <1>1, <2>3 DEF TaskFits
<1> QED BY <1>2, <1>3

-----------------------------------------------------------------------------
(* The living call that has claimed an event, and has not finished it.     *)
Holds(c) ==
  /\ ByEvent(c) /\ c \notin dead
  /\ IF verdict[c] = "none" THEN At(c) \in 2..6 ELSE At(c) <= FinishAt(verdict[c])

HeldBy(c, e) == Holds(c) /\ EventOf[c] = e

LEMMA BeatingIs ==
  ASSUME Recorded, Placed, NEW e \in Events
  PROVE  Beating(e) = {c \in Calls : HeldBy(c, e)}
<1>1. ASSUME NEW c \in Calls, EventOf[c] = e, c \notin dead
      PROVE  Holds(c) <=> ~Pending(c, "claim") /\ (Pending(c, "work") \/ Pending(c, "finish"))
  <2>1. ByEvent(c) BY <1>1, TasksAssumption DEF ByEvent
  <2>2. At(c) \in 1..(Length(c, verdict[c]) + 1) BY Reads
  <2>3. CASE verdict[c] = "none"
    <3>1. At(c) \in 1..7 BY <2>1, <2>2, <2>3 DEF Length
    <3> QED BY <1>1, <2>1, <2>3, <3>1, PendingIs DEF Holds, WorkAt
  <2>4. CASE verdict[c] # "none"
    BY <1>1, <2>1, <2>4, PendingIs DEF Holds
  <2> QED BY <2>3, <2>4
<1> QED BY <1>1 DEF Beating, HeldBy, Holds

LEMMA HoldsUnmoved ==
  ASSUME NEW c \in Calls, At(c)' = At(c), verdict'[c] = verdict[c], c \in dead' <=> c \in dead
  PROVE  Holds(c)' <=> Holds(c)
BY DEF Holds

(* The steps of a call between the claim of its event and the end of it.   *)
LEMMA HoldsOn ==
  ASSUME Founded, NEW c \in Calls,
         OpenSpan(c) \/ CreateTask(c) \/ Work(c) \/ CloseSpan(c) \/ ReportTask(c)
  PROVE  \A d \in Calls : Holds(d)' <=> Holds(d)
<1>1. Recorded /\ Placed BY DEF Founded
<1>2. dead' = dead
  BY DEF OpenSpan, CreateTask, Work, CloseSpan, ReportTask, CallOnly
<1>3. \A d \in Calls \ {c} : At(d)' = At(d)
  BY <1>1, SpanOpens, Creates, Works, Closes, Reports
<1>4. \A d \in Calls \ {c} : verdict'[d] = verdict[d]
  BY <1>1 DEF Recorded, OpenSpan, CreateTask, Work, CloseSpan, ReportTask
<1>5. \A d \in Calls \ {c} : Holds(d)' <=> Holds(d)
  BY <1>2, <1>3, <1>4, HoldsUnmoved
<1>6. Holds(c)' <=> Holds(c)
  <2>1. CASE OpenSpan(c)
    <3>1. verdict[c] = "none" /\ verdict' = verdict BY <1>1, <2>1, SpanOpens DEF OpenSpan
    <3>2. PICK l \in Levels(c) : At(c) = OpenAt(l) /\ At(c)' = OpenAt(l) + 1
      BY <1>1, <2>1, SpanOpens
    <3> QED BY <1>2, <3>1, <3>2 DEF Holds, OpenAt, Levels
  <2>2. CASE CreateTask(c)
    <3>1. /\ verdict[c] = "none" /\ verdict' = verdict
          /\ At(c) = CreateAt(c) /\ At(c)' = CreateAt(c) + 1
      BY <1>1, <2>2, Creates DEF CreateTask
    <3> QED BY <1>2, <3>1 DEF Holds, CreateAt
  <2>3. CASE Work(c)
    <3>1. verdict[c] = "none" /\ At(c) = WorkAt(c) /\ At(c)' = 1 BY <1>1, <2>3, Works
    <3>2. PICK v \in {"success", "failed"} : verdict' = [verdict EXCEPT ![c] = v]
      BY <1>1, <2>3, Works
    <3>3. verdict'[c] \in {"success", "failed"} BY <1>1, <3>2 DEF Recorded
    <3> QED BY <1>2, <3>1, <3>3 DEF Holds, WorkAt, FinishAt
  <2>4. CASE CloseSpan(c)
    <3>1. verdict[c] \in {"success", "failed"} /\ verdict' = verdict
      BY <1>1, <2>4, Closes DEF CloseSpan
    <3>2. PICK l \in Levels(c) : At(c) = CloseAt(c, verdict[c], l)
                                 /\ At(c)' = CloseAt(c, verdict[c], l) + 1
      BY <1>1, <2>4, Closes
    <3> QED BY <1>2, <3>1, <3>2 DEF Holds, CloseAt, FinishAt, Levels
  <2>5. CASE ReportTask(c)
    <3>1. /\ verdict[c] \in {"success", "failed"} /\ verdict' = verdict
          /\ At(c) = ReportAt(c, verdict[c]) /\ At(c)' = ReportAt(c, verdict[c]) + 1
      BY <1>1, <2>5, Reports DEF ReportTask
    <3> QED BY <1>2, <3>1 DEF Holds, ReportAt, FinishAt
  <2> QED BY <2>1, <2>2, <2>3, <2>4, <2>5
<1> QED BY <1>5, <1>6

(* Dead calls are counted, and a sweep looks at tasks before it looks at   *)
(* events.                                                                 *)
Counted == Cardinality(dead) <= deaths

CallsFirst == sweep.pc \in {"cancel", "events"} => sweep.found \subseteq Calls

(* As long as no living call falls silent, a claimed row has one living    *)
(* holder at most, is running and not overdue while it has one, and what a *)
(* sweep is about to put back has none.                                    *)
RowsHeld ==
  silences = 0 =>
    \A e \in Events :
      /\ \A c, d \in Calls : HeldBy(c, e) /\ HeldBy(d, e) => c = d
      /\ \A c \in Calls : HeldBy(c, e) => row[e] = "running" /\ e \notin overdue
      /\ sweep.pc = "requeue" /\ e \in sweep.found =>
           row[e] = "running" /\ \A c \in Calls : ~HeldBy(c, e)

(* As long as, besides, nothing dies, sweeps find nothing.                 *)
Undisturbed ==
  silences = 0 /\ deaths = 0 =>
    /\ overdue = {} /\ sweep.found = {} /\ sweep.rows = {} /\ sweep.pc \in {"idle", "events", "orphans"}
    /\ \A c \in Calls : task[c] # "cancelled"
    /\ \A s \in Spans : span[s] # "abandoned"
    /\ \A e \in Events : /\ attempts[e] <= 1 /\ (row[e] = "queued" => attempts[e] = 0)
                         /\ row[e] = "running" => \E c \in Calls : HeldBy(c, e)

Calm == Counted /\ CallsFirst /\ RowsHeld /\ Undisturbed

LEMMA CalmStart == TasksInit => Calm
<1> SUFFICES ASSUME TasksInit PROVE Calm
  OBVIOUS
<1>1. Founded BY FoundedStart
<1>2. /\ dead = {} /\ overdue = {} /\ sweep = NoSweep /\ silences = 0 /\ deaths = 0
      /\ \A c \in Calls : task[c] = "none" /\ verdict[c] = "none"
      /\ \A s \in Spans : span[s] = "none"
      /\ \A e \in Events : row[e] = "queued" /\ attempts[e] = 0
  BY DEF TasksInit
<1>3. sweep.pc = "idle" /\ sweep.found = {} /\ sweep.rows = {} BY <1>2 DEF NoSweep
<1>4. ASSUME NEW c \in Calls PROVE ~Holds(c)
  <2>1. PICK C \in Crews : todo = [d \in Calls |-> IF d \in C THEN Opening(d) ELSE <<>>]
    BY DEF TasksInit
  <2>2. ASSUME ByEvent(c) PROVE At(c) \in {1, 7}
    <3>1. Length(c, "none") = 6 /\ Len(Opening(c)) = 6 BY <2>2, OpeningIs DEF Length
    <3>2. At(c) = 6 + 1 - Len(todo[c]) BY <1>2, <3>1 DEF At
    <3>3. CASE Len(todo[c]) = 0 BY <3>2, <3>3
    <3>4. CASE Len(todo[c]) = 6 BY <3>2, <3>4
    <3> QED BY <2>1, <3>1, <3>3, <3>4
  <2> QED BY <1>2, <2>2 DEF Holds
<1>5. Cardinality(dead) = 0 BY <1>2, FS_EmptySet
<1> QED BY <1>2, <1>3, <1>4, <1>5 DEF Calm, Counted, CallsFirst, RowsHeld, Undisturbed, HeldBy

LEMMA ClaimCalm ==
  ASSUME Founded, Calm, NEW c \in Calls, ClaimRow(c)
  PROVE  Calm'
<1>1. Recorded /\ Placed BY DEF Founded
<1> DEFINE e0 == EventOf[c]
<1>2. /\ row[e0] = "queued" /\ row' = [row EXCEPT ![e0] = "running"]
      /\ attempts' = [attempts EXCEPT ![e0] = attempts[e0] + 1]
      /\ overdue' = overdue \ {e0}
      /\ UNCHANGED <<dead, midway, sweep, silences, deaths, verdict, task, span>>
  BY DEF ClaimRow, CallOnly
<1>3. /\ verdict[c] = "none" /\ ByEvent(c) /\ At(c) = 1 /\ At(c)' = 2 /\ c \notin dead
      /\ \A d \in Calls \ {c} : At(d)' = At(d)
  BY <1>1, Claims
<1>4. e0 \in Events BY <1>3, EventIs
<1>5. Holds(c)' /\ ~Holds(c) BY <1>2, <1>3 DEF Holds
<1>6. \A d \in Calls \ {c} : Holds(d)' <=> Holds(d) BY <1>2, <1>3, HoldsUnmoved
<1>7. /\ row'[e0] = "running" /\ \A e \in Events \ {e0} : row'[e] = row[e]
      /\ attempts'[e0] = attempts[e0] + 1 /\ \A e \in Events \ {e0} : attempts'[e] = attempts[e]
      /\ attempts[e0] \in Nat
  BY <1>1, <1>2, <1>4 DEF Recorded
<1> HIDE DEF e0
<1>9. \A e \in Events, d \in Calls : HeldBy(d, e)' <=> HeldBy(d, e) \/ (d = c /\ e = e0)
  BY <1>5, <1>6 DEF HeldBy, e0
<1>10. RowsHeld'
  <2> SUFFICES ASSUME silences = 0, NEW e \in Events
               PROVE  /\ \A a, d \in Calls : HeldBy(a, e)' /\ HeldBy(d, e)' => a = d
                      /\ \A d \in Calls : HeldBy(d, e)' => row'[e] = "running" /\ e \notin overdue'
                      /\ sweep.pc = "requeue" /\ e \in sweep.found =>
                           row'[e] = "running" /\ \A d \in Calls : ~HeldBy(d, e)'
    BY <1>2 DEF RowsHeld
  <2>1. /\ \A a, d \in Calls : HeldBy(a, e) /\ HeldBy(d, e) => a = d
        /\ \A d \in Calls : HeldBy(d, e) => row[e] = "running" /\ e \notin overdue
        /\ sweep.pc = "requeue" /\ e \in sweep.found =>
             row[e] = "running" /\ \A d \in Calls : ~HeldBy(d, e)
    BY DEF Calm, RowsHeld
  <2>2. CASE e = e0 BY <1>2, <1>7, <1>9, <2>1, <2>2
  <2>3. CASE e # e0 BY <1>2, <1>7, <1>9, <2>1, <2>3
  <2> QED BY <2>2, <2>3
<1>11. Undisturbed'
  <2> SUFFICES ASSUME silences = 0, deaths = 0
               PROVE  Undisturbed'
    BY <1>2 DEF Undisturbed
  <2>1. /\ overdue = {} /\ sweep.found = {} /\ sweep.rows = {}
        /\ sweep.pc \in {"idle", "events", "orphans"}
        /\ \A d \in Calls : task[d] # "cancelled"
        /\ \A s \in Spans : span[s] # "abandoned"
        /\ \A e \in Events : /\ attempts[e] <= 1 /\ (row[e] = "queued" => attempts[e] = 0)
                             /\ row[e] = "running" => \E d \in Calls : HeldBy(d, e)
    BY DEF Calm, Undisturbed
  <2>2. ASSUME NEW e \in Events
        PROVE  /\ attempts'[e] <= 1 /\ (row'[e] = "queued" => attempts'[e] = 0)
               /\ row'[e] = "running" => \E d \in Calls : HeldBy(d, e)'
    <3>1. CASE e = e0
      <4>1. attempts[e] = 0 /\ attempts'[e] = attempts[e] + 1 /\ row'[e] = "running"
        BY <1>2, <1>7, <2>1, <3>1
      <4>2. HeldBy(c, e)' BY <1>9, <3>1
      <4> QED BY <4>1, <4>2
    <3>2. CASE e # e0 BY <1>7, <1>9, <2>1, <3>2
    <3> QED BY <3>1, <3>2
  <2> QED BY <1>2, <2>1, <2>2 DEF Undisturbed
<1> QED BY <1>2, <1>10, <1>11 DEF Calm, Counted, CallsFirst

(* Steps that move no holder and change neither the sweep nor what it looks for.*)
LEMMA CalmStays ==
  ASSUME Founded, Calm, UNCHANGED <<dead, sweep, row, attempts, silences, deaths>>,
         overdue' \subseteq overdue,
         \A d \in Calls : Holds(d)' <=> Holds(d),
         \A d \in Calls : task'[d] # "cancelled" \/ task'[d] = task[d],
         \A s \in Spans : span'[s] # "abandoned" \/ span'[s] = span[s]
  PROVE  Calm'
<1>1. \A e, d \in Events \cup Calls : d \in Calls => (HeldBy(d, e)' <=> HeldBy(d, e))
  BY DEF HeldBy
<1>2. RowsHeld'
  <2> SUFFICES ASSUME silences = 0, NEW e \in Events
               PROVE  /\ \A a, d \in Calls : HeldBy(a, e)' /\ HeldBy(d, e)' => a = d
                      /\ \A d \in Calls : HeldBy(d, e)' => row'[e] = "running" /\ e \notin overdue'
                      /\ sweep'.pc = "requeue" /\ e \in sweep'.found =>
                           row'[e] = "running" /\ \A d \in Calls : ~HeldBy(d, e)'
    BY DEF RowsHeld
  <2>1. /\ \A a, d \in Calls : HeldBy(a, e) /\ HeldBy(d, e) => a = d
        /\ \A d \in Calls : HeldBy(d, e) => row[e] = "running" /\ e \notin overdue
        /\ sweep.pc = "requeue" /\ e \in sweep.found =>
             row[e] = "running" /\ \A d \in Calls : ~HeldBy(d, e)
    BY DEF Calm, RowsHeld
  <2> QED BY <1>1, <2>1
<1>3. Undisturbed'
  BY <1>1 DEF Calm, Undisturbed
<1>4. Counted' /\ CallsFirst' BY DEF Calm, Counted, CallsFirst
<1> QED BY <1>2, <1>3, <1>4 DEF Calm

LEMMA WorkingCalm ==
  ASSUME Founded, Calm, NEW c \in Calls,
         OpenSpan(c) \/ CreateTask(c) \/ Work(c) \/ CloseSpan(c) \/ ReportTask(c)
  PROVE  Calm'
<1>1. Recorded /\ Placed BY DEF Founded
<1>2. UNCHANGED <<dead, sweep, row, attempts, silences, deaths>>
  BY DEF OpenSpan, CreateTask, Work, CloseSpan, ReportTask, CallOnly, recordVars
<1>3. overdue' \subseteq overdue
  BY DEF OpenSpan, CreateTask, Work, CloseSpan, ReportTask
<1>4. \A d \in Calls : Holds(d)' <=> Holds(d)
  BY HoldsOn
<1>5. \A d \in Calls : task'[d] # "cancelled" \/ task'[d] = task[d]
  <2>1. CASE OpenSpan(c) \/ Work(c) \/ CloseSpan(c)
    BY <2>1 DEF OpenSpan, Work, CloseSpan, recordVars
  <2>2. CASE CreateTask(c) BY <1>1, <2>2 DEF CreateTask, Recorded
  <2>3. CASE ReportTask(c)
    <3>1. verdict[c] \in {"success", "failed"} BY <1>1, <2>3, Reports
    <3> QED BY <1>1, <2>3, <3>1 DEF ReportTask, Recorded
  <2> QED BY <2>1, <2>2, <2>3
<1>6. \A s \in Spans : span'[s] # "abandoned" \/ span'[s] = span[s]
  <2>1. CASE CreateTask(c) \/ Work(c) \/ ReportTask(c)
    BY <2>1 DEF CreateTask, Work, ReportTask, recordVars
  <2>2. CASE OpenSpan(c) BY <1>1, <2>2 DEF OpenSpan, Recorded
  <2>3. CASE CloseSpan(c)
    <3>1. verdict[c] \in {"success", "failed"} BY <1>1, <2>3, Closes
    <3> QED BY <1>1, <2>3, <3>1 DEF CloseSpan, Recorded
  <2> QED BY <2>1, <2>2, <2>3
<1> QED BY <1>2, <1>3, <1>4, <1>5, <1>6, CalmStays

LEMMA FinishCalm ==
  ASSUME Founded, Calm, NEW c \in Calls, FinishEvent(c)
  PROVE  Calm'
<1>1. Recorded /\ Placed BY DEF Founded
<1> DEFINE e0 == EventOf[c]
<1>2. /\ row' = [row EXCEPT ![e0] = verdict[c]] /\ overdue' = overdue \ {e0}
      /\ UNCHANGED <<dead, midway, sweep, silences, deaths, verdict, task, span, attempts>>
  BY DEF FinishEvent, CallOnly
<1>3. /\ verdict[c] \in {"success", "failed"} /\ ByEvent(c) /\ At(c) = FinishAt(verdict[c])
      /\ At(c)' = At(c) + 1 /\ c \notin dead
      /\ \A d \in Calls \ {c} : At(d)' = At(d)
  BY <1>1, Finishes
<1>4. e0 \in Events BY <1>3, EventIs
<1>5. ~Holds(c)' /\ Holds(c) BY <1>2, <1>3 DEF Holds, FinishAt
<1>6. \A d \in Calls \ {c} : Holds(d)' <=> Holds(d) BY <1>2, <1>3, HoldsUnmoved
<1>7. row'[e0] = verdict[c] /\ \A e \in Events \ {e0} : row'[e] = row[e]
  BY <1>1, <1>2, <1>4 DEF Recorded
<1>8. HeldBy(c, e0) BY <1>5 DEF HeldBy
<1>9. \A e \in Events, d \in Calls : HeldBy(d, e)' <=> HeldBy(d, e) /\ d # c
  BY <1>5, <1>6 DEF HeldBy
<1>10. \A e \in Events \ {e0} : ~HeldBy(c, e) BY DEF HeldBy
<1> HIDE DEF e0
<1>11. RowsHeld'
  <2> SUFFICES ASSUME silences = 0, NEW e \in Events
               PROVE  /\ \A a, d \in Calls : HeldBy(a, e)' /\ HeldBy(d, e)' => a = d
                      /\ \A d \in Calls : HeldBy(d, e)' => row'[e] = "running" /\ e \notin overdue'
                      /\ sweep.pc = "requeue" /\ e \in sweep.found =>
                           row'[e] = "running" /\ \A d \in Calls : ~HeldBy(d, e)'
    BY <1>2 DEF RowsHeld
  <2>1. /\ \A a, d \in Calls : HeldBy(a, e) /\ HeldBy(d, e) => a = d
        /\ \A d \in Calls : HeldBy(d, e) => row[e] = "running" /\ e \notin overdue
        /\ sweep.pc = "requeue" /\ e \in sweep.found =>
             row[e] = "running" /\ \A d \in Calls : ~HeldBy(d, e)
    BY DEF Calm, RowsHeld
  <2>2. CASE e = e0 BY <1>2, <1>7, <1>8, <1>9, <2>1, <2>2
  <2>3. CASE e # e0 BY <1>2, <1>7, <1>9, <2>1, <2>3
  <2> QED BY <2>2, <2>3
<1>12. Undisturbed'
  <2> SUFFICES ASSUME silences = 0, deaths = 0
               PROVE  Undisturbed'
    BY <1>2 DEF Undisturbed
  <2>1. /\ overdue = {} /\ sweep.found = {} /\ sweep.rows = {}
        /\ sweep.pc \in {"idle", "events", "orphans"}
        /\ \A d \in Calls : task[d] # "cancelled"
        /\ \A s \in Spans : span[s] # "abandoned"
        /\ \A e \in Events : /\ attempts[e] <= 1 /\ (row[e] = "queued" => attempts[e] = 0)
                             /\ row[e] = "running" => \E d \in Calls : HeldBy(d, e)
    BY DEF Calm, Undisturbed
  <2>2. ASSUME NEW e \in Events
        PROVE  /\ attempts'[e] <= 1 /\ (row'[e] = "queued" => attempts'[e] = 0)
               /\ row'[e] = "running" => \E d \in Calls : HeldBy(d, e)'
    <3>1. CASE e = e0 BY <1>2, <1>3, <1>7, <2>1, <3>1
    <3>2. CASE e # e0 BY <1>2, <1>7, <1>9, <1>10, <2>1, <3>2
    <3> QED BY <3>1, <3>2
  <2> QED BY <1>2, <2>1, <2>2 DEF Undisturbed
<1> QED BY <1>2, <1>11, <1>12 DEF Calm, Counted, CallsFirst

LEMMA NobodyDead ==
  ASSUME Recorded, Counted, deaths = 0
  PROVE  dead = {}
<1>1. IsFiniteSet(dead) /\ Cardinality(dead) \in Nat BY FS_CardinalityType DEF Recorded
<1>2. Cardinality(dead) = 0 BY <1>1 DEF Counted
<1> QED BY <1>1, <1>2, FS_EmptySet

LEMMA SameHolds ==
  ASSUME Recorded, Placed, UNCHANGED <<todo, verdict, dead>>
  PROVE  \A d \in Calls : Holds(d)' <=> Holds(d)
BY Stands, HoldsUnmoved

LEMMA HeartbeatCalm ==
  ASSUME Founded, Calm,
         \/ \E c \in Calls : TouchTask(c) \/ TaskLapses(c)
         \/ \E e \in Events : TouchLease(e) \/ LeaseLapses(e)
  PROVE  Calm'
<1>1. Recorded /\ Placed BY DEF Founded
<1>2. UNCHANGED <<todo, verdict, task, span, row, attempts, dead, sweep, deaths>>
  BY DEF TouchTask, TaskLapses, TouchLease, LeaseLapses, Silent, CallOnly, recordVars
<1>3. \A d \in Calls : Holds(d)' <=> Holds(d) BY <1>1, <1>2, SameHolds
<1>4. CASE \/ \E c \in Calls : TouchTask(c)
           \/ \E e \in Events : TouchLease(e)
  <2>1. overdue' \subseteq overdue /\ silences' = silences BY <1>4 DEF TouchTask, TouchLease, CallOnly
  <2> QED BY <1>2, <1>3, <2>1, CalmStays
<1>5. CASE \/ \E c \in Calls : TaskLapses(c)
           \/ \E e \in Events : LeaseLapses(e)
  <2>1. silences' = 0 => silences = 0
    BY <1>1, <1>5 DEF TaskLapses, LeaseLapses, Silent, Recorded
  <2>2. ASSUME silences' = 0
        PROVE  \E x : /\ overdue' = overdue \cup {x}
                      /\ \/ x \in Calls /\ x \in dead
                         \/ x \in Events /\ row[x] = "running" /\ \A d \in Calls : ~HeldBy(d, x)
    <3>1. CASE \E c \in Calls : TaskLapses(c)
      <4>1. PICK c \in Calls : TaskLapses(c) BY <3>1
      <4>2. overdue' = overdue \cup {c} /\ c \in dead
        BY <1>1, <2>2, <4>1 DEF TaskLapses, Silent, Recorded
      <4> QED BY <4>2
    <3>2. CASE \E e \in Events : LeaseLapses(e)
      <4>1. PICK e \in Events : LeaseLapses(e) BY <3>2
      <4>2. overdue' = overdue \cup {e} /\ Beating(e) = {} /\ row[e] = "running"
        BY <1>1, <2>2, <4>1 DEF LeaseLapses, Silent, Recorded
      <4>3. \A d \in Calls : ~HeldBy(d, e) BY <1>1, <4>2, BeatingIs
      <4> QED BY <4>2, <4>3
    <3> QED BY <1>5, <3>1, <3>2
  <2>3. RowsHeld'
    <3> SUFFICES ASSUME silences' = 0, NEW e \in Events
                 PROVE  /\ \A a, d \in Calls : HeldBy(a, e)' /\ HeldBy(d, e)' => a = d
                        /\ \A d \in Calls : HeldBy(d, e)' => row'[e] = "running" /\ e \notin overdue'
                        /\ sweep'.pc = "requeue" /\ e \in sweep'.found =>
                             row'[e] = "running" /\ \A d \in Calls : ~HeldBy(d, e)'
      BY DEF RowsHeld
    <3>1. /\ \A a, d \in Calls : HeldBy(a, e) /\ HeldBy(d, e) => a = d
          /\ \A d \in Calls : HeldBy(d, e) => row[e] = "running" /\ e \notin overdue
          /\ sweep.pc = "requeue" /\ e \in sweep.found =>
               row[e] = "running" /\ \A d \in Calls : ~HeldBy(d, e)
      BY <2>1 DEF Calm, RowsHeld
    <3>2. \A d \in Calls : HeldBy(d, e)' <=> HeldBy(d, e) BY <1>3 DEF HeldBy
    <3>3. \A d \in Calls : HeldBy(d, e) => e \notin overdue'
      BY <2>2, <3>1, TasksAssumption
    <3> QED BY <1>2, <3>1, <3>2, <3>3
  <2>4. Undisturbed'
    <3> SUFFICES ASSUME silences' = 0, deaths = 0 PROVE FALSE
      BY <1>2 DEF Undisturbed
    <3>1. dead = {} BY <1>1, NobodyDead DEF Calm
    <3>2. \A e \in Events : row[e] = "running" => \E d \in Calls : HeldBy(d, e)
      BY <2>1 DEF Calm, Undisturbed
    <3> QED BY <2>2, <3>1, <3>2
  <2> QED BY <1>2, <2>3, <2>4 DEF Calm, Counted, CallsFirst
<1> QED BY <1>4, <1>5

LEMMA DiesCalm ==
  ASSUME Founded, Calm, NEW c \in Calls, Dies(c)
  PROVE  Calm'
<1>1. Recorded /\ Placed BY DEF Founded
<1>2. /\ dead' = dead \cup {c} /\ deaths' = deaths + 1 /\ c \notin dead
      /\ UNCHANGED <<todo, verdict, task, span, row, attempts, overdue, sweep, silences>>
  BY DEF Dies, recordVars
<1>3. \A d \in Calls : At(d)' = At(d) BY <1>1, <1>2, Stands
<1>4. \A d \in Calls : Holds(d)' => Holds(d)
  BY <1>2, <1>3 DEF Holds
<1>5. Counted'
  <2>1. IsFiniteSet(dead) /\ Cardinality(dead) \in Nat /\ deaths \in Nat
    BY <1>1, FS_CardinalityType DEF Recorded
  <2>2. Cardinality(dead') = Cardinality(dead) + 1
    BY <1>2, <2>1, FS_AddElement
  <2> QED BY <1>2, <2>1, <2>2 DEF Calm, Counted
<1>6. RowsHeld'
  <2> SUFFICES ASSUME silences = 0, NEW e \in Events
               PROVE  /\ \A a, d \in Calls : HeldBy(a, e)' /\ HeldBy(d, e)' => a = d
                      /\ \A d \in Calls : HeldBy(d, e)' => row'[e] = "running" /\ e \notin overdue'
                      /\ sweep'.pc = "requeue" /\ e \in sweep'.found =>
                           row'[e] = "running" /\ \A d \in Calls : ~HeldBy(d, e)'
    BY <1>2 DEF RowsHeld
  <2>1. /\ \A a, d \in Calls : HeldBy(a, e) /\ HeldBy(d, e) => a = d
        /\ \A d \in Calls : HeldBy(d, e) => row[e] = "running" /\ e \notin overdue
        /\ sweep.pc = "requeue" /\ e \in sweep.found =>
             row[e] = "running" /\ \A d \in Calls : ~HeldBy(d, e)
    BY DEF Calm, RowsHeld
  <2>2. \A d \in Calls : HeldBy(d, e)' => HeldBy(d, e) BY <1>4 DEF HeldBy
  <2> QED BY <1>2, <2>1, <2>2
<1>7. deaths' # 0 BY <1>1, <1>2 DEF Recorded
<1> QED BY <1>2, <1>5, <1>6, <1>7 DEF Calm, CallsFirst, Undisturbed

LEMMA NoOrphans ==
  ASSUME Founded, \A s \in Spans : span[s] # "abandoned"
  PROVE  Orphans = {}
<1>1. ASSUME NEW s \in Running, NEW l \in 1..(s[2] - 1),
             span[<<s[1], l>>] \in {"abandoned", "cancelled", "failed"}
      PROVE  FALSE
  <2>1. s \in Spans /\ span[s] = "running" BY DEF Running
  <2> DEFINE c == s[1]  m == s[2]
  <2>2. c \in Calls /\ m \in Levels(c) /\ s = <<c, m>> BY <2>1, SpanIs
  <2>3. l \in Levels(c) /\ l < m BY <2>2 DEF Levels
  <2> HIDE DEF c, m
  <2>4. <<c, l>> \in Spans BY <2>2, <2>3, SpanIs
  <2>5. span[<<c, m>>] = "running" /\ span[<<c, l>>] = "failed"
    BY <1>1, <2>1, <2>2, <2>4 DEF Founded, Recorded, c
  <2>6. SpanFits(c, m) /\ SpanFits(c, l) BY <2>2, <2>3 DEF Founded, SpansFit
  <2>7. verdict[c] \in Verdicts BY <2>2 DEF Founded, Recorded
  <2>8. ~Closed(c, m) /\ Opened(c, m) BY <2>5, <2>6, <2>7 DEF SpanFits, Verdicts
  <2>9. Closed(c, l) BY <2>5, <2>6, <2>7 DEF SpanFits, Verdicts
  <2>10. At(c) \in Nat BY <2>2, PendingIs DEF Founded
  <2> QED BY <2>2, <2>3, <2>7, <2>8, <2>9, <2>10 DEF Closed, CloseAt, Levels, Verdicts
<1> QED BY <1>1 DEF Orphans

LEMMA SweepRows ==
  ASSUME Founded, Calm, UNCHANGED <<todo, verdict, dead, overdue, silences>>,
         silences = 0 =>
           \A e \in Events :
             /\ row'[e] = row[e] \/ \A d \in Calls : ~HeldBy(d, e)
             /\ sweep'.pc = "requeue" /\ e \in sweep'.found => row'[e] = "running" /\ e \in overdue
  PROVE  RowsHeld'
<1> SUFFICES ASSUME silences = 0, NEW e \in Events
             PROVE  /\ \A a, d \in Calls : HeldBy(a, e)' /\ HeldBy(d, e)' => a = d
                    /\ \A d \in Calls : HeldBy(d, e)' => row'[e] = "running" /\ e \notin overdue'
                    /\ sweep'.pc = "requeue" /\ e \in sweep'.found =>
                         row'[e] = "running" /\ \A d \in Calls : ~HeldBy(d, e)'
  BY DEF RowsHeld
<1>1. \A d \in Calls : HeldBy(d, e)' <=> HeldBy(d, e)
  BY SameHolds DEF Founded, HeldBy
<1>2. /\ \A a, d \in Calls : HeldBy(a, e) /\ HeldBy(d, e) => a = d
      /\ \A d \in Calls : HeldBy(d, e) => row[e] = "running" /\ e \notin overdue
  BY DEF Calm, RowsHeld
<1> QED BY <1>1, <1>2

LEMMA SweepCalm ==
  ASSUME Founded, Calm, SweepStep
  PROVE  Calm'
<1>1. Recorded BY DEF Founded
<1>2. UNCHANGED <<todo, dead, midway, verdict, attempts, overdue, silences, deaths>>
  BY DEF SweepStep, ListStale, CancelStale, ListExpired, RequeueExpired, ListMatching, ListOrphans,
         AbandonNext, AllAbandoned, SweepOnly, boundVars
<1>3. Counted' BY <1>2 DEF Calm, Counted
<1>4. sweep \in [pc : {"idle", "cancel", "events", "requeue", "match", "abandon", "orphans", "last"},
                 found : SUBSET (Calls \cup Events), rows : SUBSET Spans]
  BY <1>1 DEF Recorded
<1>5. ASSUME silences = 0, deaths = 0
      PROVE  /\ overdue = {} /\ sweep.found = {} /\ sweep.rows = {}
             /\ sweep.pc \in {"idle", "events", "orphans"}
             /\ \A d \in Calls : task[d] # "cancelled"
             /\ \A s \in Spans : span[s] # "abandoned"
             /\ \A e \in Events : /\ attempts[e] <= 1 /\ (row[e] = "queued" => attempts[e] = 0)
                                  /\ row[e] = "running" => \E d \in Calls : HeldBy(d, e)
  BY <1>5 DEF Calm, Undisturbed
<1>6. \A e \in Events, d \in Calls : HeldBy(d, e)' <=> HeldBy(d, e)
  BY <1>2, SameHolds DEF Founded, HeldBy
<1>7. ASSUME UNCHANGED <<task, span, row>>, sweep'.found = {}, sweep'.rows = {},
             sweep'.pc \in {"idle", "events", "orphans"}
      PROVE  silences = 0 /\ deaths = 0 => Undisturbed'
  BY <1>2, <1>5, <1>6, <1>7 DEF Undisturbed
<1>8. CASE ListStale
  <2> DEFINE S == {c \in Calls : task[c] = "running" /\ c \in overdue}
  <2>1. /\ sweep' = [NoSweep EXCEPT !.pc = IF S = {} THEN "events" ELSE "cancel", !.found = S]
        /\ UNCHANGED <<task, span, row>>
    BY <1>8 DEF ListStale
  <2>2. /\ sweep'.pc = (IF S = {} THEN "events" ELSE "cancel") /\ sweep'.found = S
        /\ sweep'.rows = {} /\ S \subseteq Calls
    BY <2>1 DEF NoSweep
  <2>3. RowsHeld' BY <1>2, <2>1, <2>2, SweepRows
  <2>4. CallsFirst' BY <2>2 DEF CallsFirst
  <2>5. silences = 0 /\ deaths = 0 => S = {} BY <1>5
  <2> HIDE DEF S
  <2>6. silences = 0 /\ deaths = 0 => Undisturbed' BY <1>7, <2>1, <2>2, <2>5
  <2> QED BY <1>2, <1>3, <2>3, <2>4, <2>6 DEF Calm, Undisturbed
<1>9. CASE CancelStale
  <2>1. sweep.pc = "cancel" /\ sweep' = [sweep EXCEPT !.pc = "events"] /\ row' = row
    BY <1>9 DEF CancelStale
  <2>2. sweep'.pc = "events" /\ sweep'.found = sweep.found BY <1>4, <2>1
  <2>3. RowsHeld' BY <1>2, <2>1, <2>2, SweepRows
  <2>4. CallsFirst' BY <2>1, <2>2 DEF Calm, CallsFirst
  <2>5. ~(silences = 0 /\ deaths = 0) BY <1>5, <2>1
  <2> QED BY <1>2, <1>3, <2>3, <2>4, <2>5 DEF Calm, Undisturbed
<1>10. CASE ListExpired
  <2> DEFINE S == {e \in Events : row[e] = "running" /\ e \in overdue}
  <2>1. /\ sweep.pc = "events" /\ UNCHANGED <<task, span, row>>
        /\ sweep' = [sweep EXCEPT !.found = sweep.found \cup S,
                       !.pc = IF S # {} THEN "requeue"
                              ELSE IF sweep.found # {} THEN "match" ELSE "orphans"]
    BY <1>10 DEF ListExpired
  <2>2. /\ sweep'.pc = (IF S # {} THEN "requeue" ELSE IF sweep.found # {} THEN "match" ELSE "orphans")
        /\ sweep'.found = sweep.found \cup S /\ sweep'.rows = sweep.rows
    BY <1>4, <2>1
  <2>3. RowsHeld'
    <3>1. sweep.found \subseteq Calls BY <2>1 DEF Calm, CallsFirst
    <3>2. \A e \in Events : e \in sweep'.found => row'[e] = "running" /\ e \in overdue
      BY <2>1, <2>2, <3>1, TasksAssumption
    <3> QED BY <1>2, <2>1, <3>2, SweepRows
  <2>4. CallsFirst' BY <2>2 DEF CallsFirst
  <2>5. silences = 0 /\ deaths = 0 => S = {} BY <1>5
  <2> HIDE DEF S
  <2>6. silences = 0 /\ deaths = 0 => Undisturbed' BY <1>5, <1>7, <2>1, <2>2, <2>5
  <2> QED BY <1>2, <1>3, <2>3, <2>4, <2>6 DEF Calm, Undisturbed
<1>11. CASE RequeueExpired
  <2>1. /\ sweep.pc = "requeue" /\ sweep' = [sweep EXCEPT !.pc = "match"]
        /\ row' = [e \in Events |->
                     IF e \in sweep.found /\ row[e] = "running"
                     THEN IF attempts[e] >= MaxAttempts THEN "failed" ELSE "queued"
                     ELSE row[e]]
    BY <1>11 DEF RequeueExpired
  <2>2. sweep'.pc = "match" BY <1>4, <2>1
  <2>3. silences = 0 => \A e \in Events : row'[e] = row[e] \/ \A d \in Calls : ~HeldBy(d, e)
    <3>1. silences = 0 => \A e \in Events : e \in sweep.found => \A d \in Calls : ~HeldBy(d, e)
      BY <2>1 DEF Calm, RowsHeld
    <3> QED BY <2>1, <3>1
  <2>4. RowsHeld' BY <1>2, <2>2, <2>3, SweepRows
  <2>5. ~(silences = 0 /\ deaths = 0) BY <1>5, <2>1
  <2> QED BY <1>2, <1>3, <2>2, <2>4, <2>5 DEF Calm, CallsFirst, Undisturbed
<1>12. CASE ListMatching \/ AbandonNext \/ AllAbandoned
  <2>1. /\ sweep.pc \in {"match", "abandon", "last"} /\ row' = row
        /\ sweep'.pc \notin {"requeue", "cancel", "events"}
    <3>1. CASE ListMatching BY <1>4, <3>1 DEF ListMatching
    <3>2. CASE AbandonNext
      <4>1. PICK s \in sweep.rows : sweep' = [sweep EXCEPT !.rows = sweep.rows \ {s}]
        BY <3>2 DEF AbandonNext
      <4>2. sweep.pc \in {"abandon", "last"} /\ row' = row BY <3>2 DEF AbandonNext
      <4> QED BY <1>4, <4>1, <4>2
    <3>3. CASE AllAbandoned BY <1>4, <3>3 DEF AllAbandoned, NoSweep
    <3> QED BY <1>12, <3>1, <3>2, <3>3
  <2>2. RowsHeld' BY <1>2, <2>1, SweepRows
  <2>3. ~(silences = 0 /\ deaths = 0) BY <1>5, <2>1
  <2> QED BY <1>2, <1>3, <2>1, <2>2, <2>3 DEF Calm, CallsFirst, Undisturbed
<1>13. CASE ListOrphans
  <2>1. /\ UNCHANGED <<task, span, row>>
        /\ sweep' = IF Orphans = {} THEN NoSweep ELSE [sweep EXCEPT !.pc = "last", !.rows = Orphans]
    BY <1>13 DEF ListOrphans
  <2>2. sweep'.pc \notin {"requeue", "cancel", "events"} BY <1>4, <2>1 DEF NoSweep
  <2>3. RowsHeld' BY <1>2, <2>1, <2>2, SweepRows
  <2>4. silences = 0 /\ deaths = 0 => Orphans = {} BY <1>5, NoOrphans
  <2>5. silences = 0 /\ deaths = 0 => Undisturbed' BY <1>7, <2>1, <2>4 DEF NoSweep
  <2> QED BY <1>2, <1>3, <2>2, <2>3, <2>5 DEF Calm, CallsFirst, Undisturbed
<1> QED BY <1>8, <1>9, <1>10, <1>11, <1>12, <1>13 DEF SweepStep

LEMMA SweeperDiesCalm ==
  ASSUME Founded, Calm, SweeperDies
  PROVE  Calm'
<1>1. /\ sweep' = NoSweep /\ deaths' = deaths + 1
      /\ UNCHANGED <<todo, dead, verdict, task, span, row, overdue, silences>>
  BY DEF SweeperDies, recordVars
<1>2. sweep'.pc = "idle" BY <1>1 DEF NoSweep
<1>3. RowsHeld' BY <1>1, <1>2, SweepRows
<1>4. deaths \in Nat BY DEF Founded, Recorded
<1>5. Counted'
  <2>1. Cardinality(dead) \in Nat BY FS_CardinalityType DEF Founded, Recorded
  <2> QED BY <1>1, <1>4, <2>1 DEF Calm, Counted
<1>6. CallsFirst' BY <1>2 DEF CallsFirst
<1>7. Undisturbed' BY <1>1, <1>4 DEF Undisturbed
<1> QED BY <1>3, <1>5, <1>6, <1>7 DEF Calm

LEMMA CalmStep ==
  ASSUME Founded, Calm, [TasksNext]_tasksVars
  PROVE  Calm'
<1>1. ASSUME NEW c \in Calls, CallStep(c) PROVE Calm'
  BY <1>1, ClaimCalm, WorkingCalm, FinishCalm, HeartbeatCalm, DiesCalm DEF CallStep
<1>2. ASSUME NEW e \in Events, LeaseStep(e) PROVE Calm'
  BY <1>2, HeartbeatCalm DEF LeaseStep
<1>3. CASE SweepStep BY <1>3, SweepCalm
<1>4. CASE SweeperDies BY <1>4, SweeperDiesCalm
<1>5. CASE UNCHANGED tasksVars
  <2>1. UNCHANGED <<todo, verdict, task, span, dead, row, attempts, overdue, sweep, silences, deaths>>
    BY <1>5 DEF tasksVars, recordVars, boundVars
  <2>2. \A d \in Calls : Holds(d)' <=> Holds(d) BY <2>1, SameHolds DEF Founded
  <2> QED BY <2>1, <2>2, CalmStays
<1> QED BY <1>1, <1>2, <1>3, <1>4, <1>5 DEF TasksNext

-----------------------------------------------------------------------------
(* What a sweep looks for a call by: its event, or its task if it has none.*)
Key(c) == IF ByEvent(c) THEN EventOf[c] ELSE c

(* Neither the row nor the task of a dead call has been settled yet.       *)
Unsettled(c) ==
  IF ByEvent(c) THEN row[EventOf[c]] = "running" /\ \A d \in Calls : ~HeldBy(d, EventOf[c])
                ELSE task[c] = "running"

RunningOf(c) == {s \in Running : s[1] = c}
KeyRuns(c)   == \E s \in RunningOf(c) : IdOf(s) = Key(c)

(* How the spans a dead call has left are going to be abandoned.           *)
Provided(c) ==
  \/ Unsettled(c)
  \/ sweep.pc \in {"cancel", "events", "requeue", "match"} /\ Key(c) \in sweep.found
  \/ sweep.pc \in {"abandon", "orphans"} /\ ~KeyRuns(c)
  \/ sweep.pc \in {"abandon", "last"} /\ RunningOf(c) \subseteq sweep.rows

(* No sweep has been cut short, and no living call has fallen silent.      *)
Uncut == silences = 0 /\ deaths = Cardinality(dead)

(* SweepTellsLivingFromDead is not inductive: what a dead call has left    *)
(* behind is provided for at every step of a sweep, not only between them. *)
NoneForgotten == Uncut => \A c \in midway : RunningOf(c) # {} => Provided(c)

LEMMA Covered ==
  ASSUME Founded, NEW c \in midway, ~KeyRuns(c)
  PROVE  RunningOf(c) \subseteq Orphans
<1>1. c \in Calls /\ Created(c) /\ ~Reported(c) BY DEF Founded, Recorded, MidwayFit
<1>2. verdict[c] \in Verdicts /\ At(c) \in Nat BY <1>1, PendingIs DEF Founded, Recorded
<1>3. ASSUME NEW s \in RunningOf(c) PROVE s \in Orphans
  <2>1. s \in Spans /\ span[s] = "running" /\ s[1] = c BY <1>3 DEF RunningOf, Running
  <2> DEFINE m == s[2]
  <2>2. m \in Levels(c) /\ s = <<c, m>> BY <2>1, SpanIs
  <2>3. SpanFits(c, m) BY <1>1, <2>2 DEF Founded, SpansFit
  <2>4. Opened(c, m) /\ ~Closed(c, m) BY <1>2, <2>1, <2>2, <2>3 DEF SpanFits, Verdicts
  <2>5. \A l \in Levels(c) : IdOf(<<c, l>>) = Key(c) => span[<<c, l>>] # "running"
    <3>1. \A l \in Levels(c) : <<c, l>> \in Spans BY <1>1, SpanIs
    <3> QED BY <3>1 DEF KeyRuns, RunningOf, Running
  <2>6. span[<<c, 1>>] # "running" /\ 1 \in Levels(c) /\ m # 1
    <3>1. IdOf(<<c, 1>>) = Key(c) BY DEF IdOf, Key
    <3>2. 1 \in Levels(c) BY DEF Levels
    <3> QED BY <2>1, <2>2, <2>5, <3>1, <3>2
  <2>7. SpanFits(c, 1) BY <1>1, <2>6 DEF Founded, SpansFit
  <2>8. Opened(c, 1) /\ ~Closed(c, 1)
    BY <1>1, <1>2, <2>2, <2>4, <2>6
       DEF Opened, Closed, Created, Reported, OpenAt, CloseAt, CreateAt, ReportAt, WorkAt, Levels, Verdicts
  <2>9. span[<<c, 1>>] = "abandoned" BY <2>6, <2>7, <2>8 DEF SpanFits
  <2>10. 1 \in 1..(s[2] - 1) BY <2>2, <2>6 DEF Levels
  <2>11. s \in Running BY <1>3 DEF RunningOf
  <2>12. span[<<s[1], 1>>] = "abandoned" BY <2>1, <2>9
  <2> QED BY <2>10, <2>11, <2>12 DEF Orphans
<1> QED BY <1>3

(* Steps that leave the sweep and the spans of the dead alone.             *)
LEMMA ForgottenStays ==
  ASSUME Founded, NoneForgotten, UNCHANGED <<dead, midway, sweep, deaths>>, silences' = 0 => silences = 0,
         \A s \in Spans : s[1] \in dead => span'[s] = span[s],
         \A d \in dead : Unsettled(d) => Unsettled(d)'
  PROVE  NoneForgotten'
<1> SUFFICES ASSUME Uncut', NEW c \in midway, RunningOf(c)' # {} PROVE Provided(c)'
  BY DEF NoneForgotten
<1>1. Uncut BY DEF Uncut
<1>2. c \in dead BY DEF Founded, Recorded
<1>3. RunningOf(c)' = RunningOf(c) BY <1>2 DEF RunningOf, Running
<1>4. Provided(c) BY <1>1, <1>3 DEF NoneForgotten
<1>5. KeyRuns(c)' <=> KeyRuns(c) BY <1>3 DEF KeyRuns, IdOf, Key
<1> QED BY <1>2, <1>3, <1>4, <1>5 DEF Provided, Key

LEMMA LivingForget ==
  ASSUME Founded, Calm, NoneForgotten, NEW c \in Calls,
         \/ ClaimRow(c) \/ OpenSpan(c) \/ CreateTask(c) \/ Work(c)
         \/ CloseSpan(c) \/ ReportTask(c) \/ FinishEvent(c)
  PROVE  NoneForgotten'
<1>1. Recorded /\ Placed BY DEF Founded
<1>2. UNCHANGED <<dead, midway, sweep, silences, deaths>>
  BY DEF ClaimRow, OpenSpan, CreateTask, Work, CloseSpan, ReportTask, FinishEvent, CallOnly
<1>3. c \notin dead
  BY DEF ClaimRow, OpenSpan, CreateTask, Work, CloseSpan, ReportTask, FinishEvent, Ready
<1>4. \A s \in Spans : s[1] \in dead => span'[s] = span[s]
  <2>1. CASE OpenSpan(c) BY <1>1, <1>3, <2>1 DEF OpenSpan, Recorded
  <2>2. CASE CloseSpan(c) BY <1>1, <1>3, <2>2 DEF CloseSpan, Recorded
  <2>3. CASE span' = span BY <2>3
  <2> QED BY <2>1, <2>2, <2>3 DEF ClaimRow, CreateTask, Work, ReportTask, FinishEvent, recordVars
<1>5. \A d \in dead : task'[d] = task[d]
  <2>1. CASE CreateTask(c) BY <1>1, <1>3, <2>1 DEF CreateTask, Recorded
  <2>2. CASE ReportTask(c) BY <1>1, <1>3, <2>2 DEF ReportTask, Recorded
  <2>3. CASE task' = task BY <2>3
  <2> QED BY <2>1, <2>2, <2>3 DEF ClaimRow, OpenSpan, CloseSpan, Work, FinishEvent, recordVars
<1>6. ASSUME NEW e \in Events, row[e] = "running", \A d \in Calls : ~HeldBy(d, e)
      PROVE  row'[e] = "running" /\ \A d \in Calls : ~HeldBy(d, e)'
  <2>1. CASE ClaimRow(c)
    <3>1. /\ row[EventOf[c]] = "queued" /\ row' = [row EXCEPT ![EventOf[c]] = "running"]
          /\ verdict' = verdict /\ dead' = dead
      BY <2>1 DEF ClaimRow, CallOnly
    <3>2. \A d \in Calls \ {c} : At(d)' = At(d) BY <1>1, <2>1, Claims
    <3>3. \A d \in Calls \ {c} : Holds(d)' <=> Holds(d) BY <3>1, <3>2, HoldsUnmoved
    <3>4. EventOf[c] # e BY <1>6, <3>1
    <3> QED BY <1>1, <1>6, <3>1, <3>3, <3>4 DEF HeldBy, Recorded
  <2>2. CASE FinishEvent(c)
    <3>1. /\ row' = [row EXCEPT ![EventOf[c]] = verdict[c]]
          /\ verdict' = verdict /\ dead' = dead
      BY <2>2 DEF FinishEvent, CallOnly
    <3>2. /\ ByEvent(c) /\ c \notin dead /\ At(c) = FinishAt(verdict[c])
          /\ verdict[c] \in {"success", "failed"} /\ At(c)' = At(c) + 1
          /\ \A d \in Calls \ {c} : At(d)' = At(d)
      BY <1>1, <2>2, Finishes
    <3>3. Holds(c) BY <3>2 DEF Holds, FinishAt
    <3>4. EventOf[c] # e BY <1>6, <3>3 DEF HeldBy
    <3>5. \A d \in Calls \ {c} : Holds(d)' <=> Holds(d) BY <3>1, <3>2, HoldsUnmoved
    <3> QED BY <1>1, <1>6, <3>1, <3>4, <3>5 DEF HeldBy, Recorded
  <2>3. CASE OpenSpan(c) \/ CreateTask(c) \/ Work(c) \/ CloseSpan(c) \/ ReportTask(c)
    <3>1. \A d \in Calls : Holds(d)' <=> Holds(d) BY <2>3, HoldsOn
    <3>2. row' = row BY <2>3 DEF OpenSpan, CreateTask, Work, CloseSpan, ReportTask, recordVars
    <3> QED BY <1>6, <3>1, <3>2 DEF HeldBy
  <2> QED BY <2>1, <2>2, <2>3
<1>7. ASSUME NEW d \in dead, Unsettled(d) PROVE Unsettled(d)'
  <2>1. d \in Calls BY <1>1 DEF Recorded
  <2>2. CASE ByEvent(d)
    <3>1. EventOf[d] \in Events BY <2>1, <2>2, EventIs
    <3>2. row[EventOf[d]] = "running" /\ \A b \in Calls : ~HeldBy(b, EventOf[d])
      BY <1>7, <2>2 DEF Unsettled
    <3>3. row'[EventOf[d]] = "running" /\ \A b \in Calls : ~HeldBy(b, EventOf[d])'
      BY <1>6, <3>1, <3>2
    <3> QED BY <2>2, <3>3 DEF Unsettled
  <2>3. CASE ~ByEvent(d) BY <1>5, <1>7, <2>3 DEF Unsettled
  <2> QED BY <2>2, <2>3
<1> QED BY <1>2, <1>4, <1>7, ForgottenStays

LEMMA HeartbeatForgets ==
  ASSUME Founded, NoneForgotten,
         \/ \E c \in Calls : TouchTask(c) \/ TaskLapses(c)
         \/ \E e \in Events : TouchLease(e) \/ LeaseLapses(e)
  PROVE  NoneForgotten'
<1>1. Recorded /\ Placed BY DEF Founded
<1>2. UNCHANGED <<todo, verdict, task, span, row, dead, midway, sweep, deaths>>
  BY DEF TouchTask, TaskLapses, TouchLease, LeaseLapses, Silent, CallOnly, recordVars
<1>3. silences' = 0 => silences = 0
  BY <1>1 DEF TouchTask, TaskLapses, TouchLease, LeaseLapses, Silent, CallOnly, Recorded
<1>4. \A d \in Calls : Holds(d)' <=> Holds(d) BY <1>1, <1>2, SameHolds
<1>5. \A d \in dead : Unsettled(d) => Unsettled(d)'
  BY <1>2, <1>4 DEF Unsettled, HeldBy
<1> QED BY <1>2, <1>3, <1>5, ForgottenStays

LEMMA DiesForget ==
  ASSUME Founded, Calm, NoneForgotten, NEW c \in Calls, Dies(c)
  PROVE  NoneForgotten'
<1>1. Recorded /\ Placed BY DEF Founded
<1>2. /\ dead' = dead \cup {c} /\ deaths' = deaths + 1 /\ c \notin dead
      /\ midway' = IF task[c] = "running" /\ sweep.pc = "idle" THEN midway \cup {c} ELSE midway
      /\ UNCHANGED <<todo, verdict, task, span, row, sweep, silences>>
  BY DEF Dies, recordVars
<1>3. \A d \in Calls : At(d)' = At(d) BY <1>1, <1>2, Stands
<1>4. \A d \in Calls : Holds(d)' <=> Holds(d) /\ d # c
  BY <1>2, <1>3 DEF Holds
<1>5. \A e \in Events, d \in Calls : HeldBy(d, e)' <=> HeldBy(d, e) /\ d # c
  BY <1>4 DEF HeldBy
<1> SUFFICES ASSUME Uncut', NEW d \in midway', RunningOf(d)' # {} PROVE Provided(d)'
  BY DEF NoneForgotten
<1>6. Uncut
  <2>1. IsFiniteSet(dead) /\ Cardinality(dead) \in Nat /\ deaths \in Nat
    BY <1>1, FS_CardinalityType DEF Recorded
  <2>2. Cardinality(dead \cup {c}) = Cardinality(dead) + 1 BY <1>2, <2>1, FS_AddElement
  <2>3. silences' = 0 /\ deaths' = Cardinality(dead') BY DEF Uncut
  <2>4. silences = 0 /\ deaths + 1 = Cardinality(dead \cup {c}) BY <1>2, <2>3
  <2>5. deaths = Cardinality(dead) BY <2>1, <2>2, <2>4
  <2> QED BY <2>4, <2>5 DEF Uncut
<1>7. CASE d \in midway
  <2>1. d \in Calls BY <1>1, <1>7 DEF Recorded
  <2>2. RunningOf(d)' = RunningOf(d) BY <1>2 DEF RunningOf, Running
  <2>3. Provided(d) BY <1>6, <1>7, <2>2 DEF NoneForgotten
  <2>4. Unsettled(d) => Unsettled(d)'
    <3>1. CASE ByEvent(d)
      <4>1. EventOf[d] \in Events BY <2>1, <3>1, EventIs
      <4> QED BY <1>2, <1>5, <3>1, <4>1 DEF Unsettled
    <3>2. CASE ~ByEvent(d) BY <1>2, <3>2 DEF Unsettled
    <3> QED BY <3>1, <3>2
  <2>5. KeyRuns(d)' <=> KeyRuns(d) BY <2>2 DEF KeyRuns, IdOf, Key
  <2> QED BY <1>2, <2>2, <2>3, <2>4, <2>5 DEF Provided, Key
<1>8. CASE d = c /\ task[c] = "running"
  <2>1. TaskFits(c) /\ verdict[c] \in Verdicts /\ At(c) \in Nat
    BY <1>1, PendingIs DEF Founded, TasksFit, Recorded
  <2>2. Created(c) /\ ~Reported(c) BY <1>8, <2>1 DEF TaskFits, Verdicts
  <2>3. CASE ByEvent(c)
    <3>1. Holds(c)
      BY <1>2, <2>1, <2>2, <2>3
         DEF Holds, Created, Reported, CreateAt, WorkAt, ReportAt, FinishAt, Verdicts
    <3>2. EventOf[c] \in Events BY <2>3, EventIs
    <3>3. HeldBy(c, EventOf[c]) BY <3>1 DEF HeldBy
    <3>4. row[EventOf[c]] = "running" /\ \A b \in Calls : HeldBy(b, EventOf[c]) => b = c
      BY <1>6, <3>2, <3>3 DEF Calm, RowsHeld, Uncut
    <3>5. Unsettled(c)' BY <1>2, <1>5, <2>3, <3>2, <3>4 DEF Unsettled
    <3> QED BY <1>8, <3>5 DEF Provided
  <2>4. CASE ~ByEvent(c) BY <1>2, <1>8, <2>4 DEF Provided, Unsettled
  <2> QED BY <2>3, <2>4
<1> QED BY <1>2, <1>7, <1>8

LEMMA SweepForgets ==
  ASSUME Founded, Calm, NoneForgotten, SweepStep
  PROVE  NoneForgotten'
<1>1. Recorded /\ Placed BY DEF Founded
<1>2. UNCHANGED <<todo, dead, midway, verdict, silences, deaths>>
  BY DEF SweepStep, ListStale, CancelStale, ListExpired, RequeueExpired, ListMatching, ListOrphans,
         AbandonNext, AllAbandoned, SweepOnly, boundVars
<1> SUFFICES ASSUME Uncut', NEW c \in midway, RunningOf(c)' # {} PROVE Provided(c)'
  BY <1>2 DEF NoneForgotten
<1>3. Uncut BY <1>2 DEF Uncut
<1>4. c \in Calls BY <1>1 DEF Recorded
<1>5. sweep \in [pc : {"idle", "cancel", "events", "requeue", "match", "abandon", "orphans", "last"},
                 found : SUBSET (Calls \cup Events), rows : SUBSET Spans]
  BY <1>1 DEF Recorded
<1>6. \A e \in Events, d \in Calls : HeldBy(d, e)' <=> HeldBy(d, e)
  BY <1>1, <1>2, SameHolds DEF HeldBy
<1>7. ByEvent(c) => EventOf[c] \in Events BY <1>4, EventIs
<1>8. ASSUME UNCHANGED <<task, row>> PROVE Unsettled(c) => Unsettled(c)'
  <2>1. CASE ByEvent(c) BY <1>6, <1>7, <1>8, <2>1 DEF Unsettled
  <2>2. CASE ~ByEvent(c) BY <1>8, <2>2 DEF Unsettled
  <2> QED BY <2>1, <2>2
<1>9. ASSUME UNCHANGED span PROVE Provided(c) /\ RunningOf(c)' = RunningOf(c) /\ RunningOf(c) # {}
  <2>1. RunningOf(c)' = RunningOf(c) BY <1>9 DEF RunningOf, Running
  <2> QED BY <1>3, <2>1 DEF NoneForgotten
<1>10. CASE ListStale
  <2>1. sweep.pc = "idle" /\ UNCHANGED <<task, row, span>> BY <1>10 DEF ListStale
  <2>2. Unsettled(c) BY <1>9, <2>1 DEF Provided
  <2> QED BY <1>8, <2>1, <2>2 DEF Provided
<1>11. CASE CancelStale
  <2>1. /\ sweep.pc = "cancel" /\ sweep' = [sweep EXCEPT !.pc = "events"] /\ UNCHANGED <<span, row>>
        /\ task' = [d \in Calls |-> IF d \in sweep.found /\ task[d] = "running"
                                    THEN "cancelled" ELSE task[d]]
    BY <1>11 DEF CancelStale
  <2>2. sweep'.pc = "events" /\ sweep'.found = sweep.found BY <1>5, <2>1
  <2>3. Unsettled(c) \/ Key(c) \in sweep.found BY <1>9, <2>1 DEF Provided
  <2>4. Unsettled(c) => Unsettled(c)' \/ Key(c) \in sweep.found
    <3>1. CASE ByEvent(c) BY <1>6, <1>7, <2>1, <3>1 DEF Unsettled
    <3>2. CASE ~ByEvent(c) BY <1>4, <2>1, <3>2 DEF Unsettled, Key
    <3> QED BY <3>1, <3>2
  <2> QED BY <2>2, <2>3, <2>4 DEF Provided, Key
<1>12. CASE ListExpired
  <2> DEFINE S == {e \in Events : row[e] = "running" /\ e \in overdue}
  <2>1. /\ sweep.pc = "events" /\ UNCHANGED <<task, span, row>>
        /\ sweep' = [sweep EXCEPT !.found = sweep.found \cup S,
                       !.pc = IF S # {} THEN "requeue"
                              ELSE IF sweep.found # {} THEN "match" ELSE "orphans"]
    BY <1>12 DEF ListExpired
  <2>2. /\ sweep'.pc = (IF S # {} THEN "requeue" ELSE IF sweep.found # {} THEN "match" ELSE "orphans")
        /\ sweep'.found = sweep.found \cup S
    BY <1>5, <2>1
  <2> HIDE DEF S
  <2>3. Unsettled(c) \/ Key(c) \in sweep.found BY <1>9, <2>1 DEF Provided
  <2>4. Key(c) \in sweep.found => sweep'.pc \in {"requeue", "match"} /\ Key(c) \in sweep'.found
    BY <2>2
  <2> QED BY <1>8, <2>1, <2>3, <2>4 DEF Provided, Key
<1>13. CASE RequeueExpired
  <2>1. /\ sweep.pc = "requeue" /\ sweep' = [sweep EXCEPT !.pc = "match"] /\ UNCHANGED <<task, span>>
        /\ row' = [e \in Events |->
                     IF e \in sweep.found /\ row[e] = "running"
                     THEN IF attempts[e] >= MaxAttempts THEN "failed" ELSE "queued"
                     ELSE row[e]]
    BY <1>13 DEF RequeueExpired
  <2>2. sweep'.pc = "match" /\ sweep'.found = sweep.found BY <1>5, <2>1
  <2>3. Unsettled(c) \/ Key(c) \in sweep.found BY <1>9, <2>1 DEF Provided
  <2>4. Unsettled(c) => Unsettled(c)' \/ Key(c) \in sweep.found
    <3>1. CASE ByEvent(c) BY <1>6, <1>7, <2>1, <3>1 DEF Unsettled, Key
    <3>2. CASE ~ByEvent(c) BY <2>1, <3>2 DEF Unsettled
    <3> QED BY <3>1, <3>2
  <2> QED BY <2>2, <2>3, <2>4 DEF Provided, Key
<1>14. CASE ListMatching
  <2>1. /\ sweep.pc = "match" /\ UNCHANGED <<task, span, row>>
        /\ sweep' = [sweep EXCEPT !.pc = "abandon", !.rows = Matching(Running)]
    BY <1>14 DEF ListMatching
  <2>2. sweep'.pc = "abandon" /\ sweep'.rows = Matching(Running) BY <1>5, <2>1
  <2>3. Unsettled(c) \/ Key(c) \in sweep.found BY <1>9, <2>1 DEF Provided
  <2>4. RunningOf(c)' = RunningOf(c) /\ (KeyRuns(c)' <=> KeyRuns(c))
    BY <1>9, <2>1 DEF KeyRuns, IdOf, Key
  <2>5. KeyRuns(c) /\ Key(c) \in sweep.found => RunningOf(c) \subseteq Matching(Running)
    BY DEF KeyRuns, RunningOf, Matching
  <2> QED BY <1>8, <2>1, <2>2, <2>3, <2>4, <2>5 DEF Provided
<1>15. CASE AbandonNext
  <2>1. PICK s \in sweep.rows : /\ span' = [span EXCEPT ![s] = "abandoned"]
                                /\ sweep' = [sweep EXCEPT !.rows = sweep.rows \ {s}]
    BY <1>15 DEF AbandonNext
  <2>2. sweep.pc \in {"abandon", "last"} /\ UNCHANGED <<task, row>> BY <1>15 DEF AbandonNext
  <2>3. sweep'.pc = sweep.pc /\ sweep'.rows = sweep.rows \ {s} BY <1>5, <2>1
  <2>4. s \in Spans BY <1>5
  <2>5. RunningOf(c)' \subseteq RunningOf(c) \ {s}
    BY <1>1, <2>1, <2>4 DEF RunningOf, Running, Recorded
  <2>6. Provided(c) BY <1>3, <2>5 DEF NoneForgotten
  <2>7. KeyRuns(c)' => KeyRuns(c) BY <2>5 DEF KeyRuns, IdOf, Key
  <2> QED BY <1>8, <2>2, <2>3, <2>5, <2>6, <2>7 DEF Provided
<1>16. CASE AllAbandoned
  <2>1. /\ sweep.pc \in {"abandon", "last"} /\ sweep.rows = {} /\ UNCHANGED <<task, span, row>>
        /\ sweep' = IF sweep.pc = "last" THEN NoSweep ELSE [sweep EXCEPT !.pc = "orphans"]
    BY <1>16 DEF AllAbandoned
  <2>2. Provided(c) /\ RunningOf(c)' = RunningOf(c) /\ ~(RunningOf(c) \subseteq sweep.rows)
    BY <1>9, <2>1
  <2>3. KeyRuns(c)' <=> KeyRuns(c) BY <2>2 DEF KeyRuns, IdOf, Key
  <2>4. sweep.pc = "abandon" => sweep'.pc = "orphans" BY <1>5, <2>1
  <2> QED BY <1>8, <2>1, <2>2, <2>3, <2>4 DEF Provided
<1>17. CASE ListOrphans
  <2>1. /\ sweep.pc = "orphans" /\ UNCHANGED <<task, span, row>>
        /\ sweep' = IF Orphans = {} THEN NoSweep ELSE [sweep EXCEPT !.pc = "last", !.rows = Orphans]
    BY <1>17 DEF ListOrphans
  <2>2. Provided(c) /\ RunningOf(c)' = RunningOf(c) /\ RunningOf(c) # {}
    BY <1>9, <2>1
  <2>3. Unsettled(c) \/ ~KeyRuns(c) BY <2>1, <2>2 DEF Provided
  <2>4. ~KeyRuns(c) => sweep'.pc = "last" /\ RunningOf(c)' \subseteq sweep'.rows
    BY <1>5, <2>1, <2>2, Covered
  <2> QED BY <1>8, <2>1, <2>3, <2>4 DEF Provided
<1> QED BY <1>10, <1>11, <1>12, <1>13, <1>14, <1>15, <1>16, <1>17 DEF SweepStep

LEMMA ForgottenStep ==
  ASSUME Founded, Calm, NoneForgotten, [TasksNext]_tasksVars
  PROVE  NoneForgotten'
<1>1. ASSUME NEW c \in Calls, CallStep(c) PROVE NoneForgotten'
  BY <1>1, LivingForget, HeartbeatForgets, DiesForget DEF CallStep
<1>2. ASSUME NEW e \in Events, LeaseStep(e) PROVE NoneForgotten'
  BY <1>2, HeartbeatForgets DEF LeaseStep
<1>3. CASE SweepStep BY <1>3, SweepForgets
<1>4. CASE SweeperDies
  <2>1. deaths' = deaths + 1 /\ dead' = dead BY <1>4 DEF SweeperDies
  <2>2. Cardinality(dead) \in Nat /\ deaths \in Nat
    BY FS_CardinalityType DEF Founded, Recorded
  <2>3. ~Uncut' BY <2>1, <2>2 DEF Calm, Counted, Uncut
  <2> QED BY <2>3 DEF NoneForgotten
<1>5. CASE UNCHANGED tasksVars
  <2>1. UNCHANGED <<todo, verdict, task, span, dead, midway, row, sweep, silences, deaths>>
    BY <1>5 DEF tasksVars, recordVars, boundVars
  <2>2. \A d \in Calls : Holds(d)' <=> Holds(d) BY <2>1, SameHolds DEF Founded
  <2>3. \A d \in dead : Unsettled(d) => Unsettled(d)' BY <2>1, <2>2 DEF Unsettled, HeldBy
  <2> QED BY <2>1, <2>3, ForgottenStays
<1> QED BY <1>1, <1>2, <1>3, <1>4, <1>5 DEF TasksNext

-----------------------------------------------------------------------------
TasksInv == Founded /\ Calm /\ NoneForgotten

LEMMA TasksAlways == TasksSpec => []TasksInv
<1>1. TasksInit => TasksInv
  <2>1. TasksInit => NoneForgotten BY DEF TasksInit, NoneForgotten
  <2> QED BY <2>1, FoundedStart, CalmStart DEF TasksInv
<1>2. TasksInv /\ [TasksNext]_tasksVars => TasksInv'
  BY FoundedStep, CalmStep, ForgottenStep DEF TasksInv
<1> QED BY <1>1, <1>2, PTL DEF TasksSpec

LEMMA SweepsTell == TasksInv => SweepTellsLivingFromDead
<1> SUFFICES ASSUME TasksInv PROVE SweepTellsLivingFromDead
  OBVIOUS
<1>1. ASSUME silences = 0, deaths = 0
      PROVE  /\ \A c \in Calls : task[c] # "cancelled"
             /\ \A s \in Spans : span[s] # "abandoned"
             /\ \A e \in Events : attempts[e] <= 1
  BY <1>1 DEF TasksInv, Calm, Undisturbed
<1>2. ASSUME sweep.pc = "idle", silences = 0, deaths = Cardinality(dead),
             NEW s \in Spans, s[1] \in midway, span[s] = "running"
      PROVE  "running" \in {task[s[1]]} \cup {row[e] : e \in {EventOf[s[1]]} \cap Events}
  <2>1. s[1] \in Calls BY SpanIs
  <2>2. s \in RunningOf(s[1]) BY <1>2 DEF RunningOf, Running
  <2>3. Unsettled(s[1]) BY <1>2, <2>2 DEF TasksInv, NoneForgotten, Uncut, Provided
  <2>4. ByEvent(s[1]) => EventOf[s[1]] \in Events BY <2>1, EventIs
  <2> QED BY <2>3, <2>4 DEF Unsettled
<1> QED BY <1>1, <1>2 DEF SweepTellsLivingFromDead

(* What is left to do, the tasks, spans and rows and the sweep keep to their*)
(* types (metadata_store.py:712-1361).                                     *)
THEOREM TasksTypeCorrect == TasksSpec => []TasksTypeOK
BY TasksAlways, FoundedTypes, PTL DEF TasksInv

(* A call that has come to its end leaves its own verdict in its task,     *)
(* whatever a sweep that ran alongside had listed (metadata_store.py:      *)
(* 830-838).                                                               *)
THEOREM TaskVerdictsCorrect == TasksSpec => []TaskKeepsVerdict
BY TasksAlways, FoundedVerdicts, PTL DEF TasksInv

(* As long as heartbeats come in time and nothing dies, no sweep touches a *)
(* call; and one that is not cut short leaves none of the spans of a dead  *)
(* call running once its task and event are settled (metadata_store.py:    *)
(* 1288-1361).                                                             *)
THEOREM SweepsCorrect == TasksSpec => []SweepTellsLivingFromDead
BY TasksAlways, SweepsTell, PTL DEF TasksInv
=============================================================================
