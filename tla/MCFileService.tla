---------------------------- MODULE MCFileService ----------------------------
(* Model checking of file_service: its catalogue with the watcher and the  *)
(* requests, and its outbox with the publisher and the bridge at the other *)
(* end of the queue.  Init picks a scene; what is not in it stays asleep.  *)
(*   "faults"   a directory, and the catalogue under every fault           *)
(*   "returns"  a directory with files that come back                      *)
(*   "uploads"  a directory, and requests for other files beside it        *)
(*   "order"    events of two seconds, none of which is poison             *)
(*   "poison"   events of one second, some of which are poison             *)
EXTENDS FileCatalog, OutboxRabbit

CONSTANTS e1, e2, e3

VARIABLE scene \* what goes on

ServiceInit ==
  /\ scene \in {"faults", "returns", "uploads", "order", "poison"}
  /\ CatalogInit /\ Init

serviceVars == <<scene, catalogVars, vars>>

Cataloguing == scene \in {"faults", "returns", "uploads"} /\ UNCHANGED <<scene, vars>>
Uploading   == scene = "uploads" /\ Cataloguing
Delivering  == scene \in {"order", "poison"} /\ UNCHANGED <<scene, catalogVars>>
Blocking    == scene = "poison" /\ Delivering

(* Files come back, calls fail and directories change as the scene has it. *)
InScene ==
  /\ \A f \in Watched : disk'[f] # Null => (f \in Returning <=> scene = "returns")
  /\ IF scene = "faults" THEN failures' + kills' <= MaxFailures ELSE failures' = 0
  /\ scene = "uploads" => edits' <= 2
  /\ scene = "order" => errors' + storeErrors' + crashes' <= MaxErrors
  /\ scene = "poison" => errors' <= 2 /\ crashes' = 0

(* The next-state relations of both, action by action. *)
ServiceNext ==
  \/ Cataloguing /\ MakeDir /\ InScene
  \/ Cataloguing /\ RemoveDir /\ InScene
  \/ Cataloguing /\ TakeChanges /\ InScene
  \/ Cataloguing /\ HandleDirectory /\ InScene
  \/ Cataloguing /\ StartPass /\ InScene
  \/ Cataloguing /\ ListFiles /\ InScene
  \/ Cataloguing /\ EndScan /\ InScene
  \/ Cataloguing /\ EndMissing /\ InScene
  \/ Cataloguing /\ Cleanup /\ InScene
  \/ Cataloguing /\ CatalogCrash /\ InScene
  \/ Cataloguing /\ CatalogRestart /\ InScene
  \/ \E f \in Watched :
       \/ Cataloguing /\ RemoveFile(f) /\ InScene
       \/ Cataloguing /\ (\E c \in Contents \cup {Empty} : WriteFile(f, c)) /\ InScene
       \/ Cataloguing /\ HandleAdded(f) /\ InScene
       \/ Cataloguing /\ HandleDeleted(f) /\ InScene
       \/ Cataloguing /\ ScanFile(f) /\ InScene
       \/ Cataloguing /\ DeleteMissing(f) /\ InScene
  \/ \E w \in hand :
       \/ Cataloguing /\ up /\ WriteBlob(w) /\ InScene
       \/ Cataloguing /\ up /\ WriteRow(w) /\ InScene
       \/ Cataloguing /\ up /\ WriteVersion(w) /\ InScene
       \/ Cataloguing /\ up /\ WriteEvent(w) /\ InScene
       \/ Cataloguing /\ up /\ WriteFails(w) /\ InScene
  \/ \E c \in Callers :
       \/ Uploading /\ FinishUpdate(c) /\ InScene
       \/ \E f \in Files :
            \/ Uploading /\ CreateFile(c, f) /\ InScene
            \/ Uploading /\ DeleteFile(c, f) /\ InScene
            \/ Uploading /\ BeginUpdate(c, f) /\ InScene
  \/ \E e \in Events :
       \/ Delivering /\ Store(e) /\ (IF scene = "poison" THEN e # e2 ELSE e \notin Poison) /\ InScene
       \/ Delivering /\ Publish(e) /\ InScene
       \/ Delivering /\ PublishFails(e) /\ InScene
       \/ Delivering /\ GiveUpNext(e) /\ InScene
  \/ Delivering /\ Pass /\ scene = "order" /\ InScene
  \/ Delivering /\ Claim /\ InScene
  \/ Delivering /\ Connect /\ InScene
  \/ Delivering /\ ConnectFails /\ InScene
  \/ Delivering /\ Confirm /\ InScene
  \/ Delivering /\ ConfirmFails /\ InScene
  \/ Delivering /\ ConfirmFailsTwice /\ InScene
  \/ Delivering /\ Close /\ InScene
  \/ Delivering /\ CloseFails /\ InScene
  \/ Delivering /\ PublisherDies /\ InScene
  \/ Delivering /\ ServiceCrash /\ InScene
  \/ Delivering /\ ServiceRestart /\ InScene
  \/ Delivering /\ Receive /\ InScene
  \/ Delivering /\ Acknowledge /\ InScene
  \/ Blocking   /\ BridgeRejects /\ InScene
  \/ Delivering /\ BridgeFails /\ InScene
  \/ Delivering /\ BridgeRestart /\ InScene

(* The fairness of FileCatalog and of OutboxRabbit. *)
ServiceSpec ==
  /\ ServiceInit /\ [][ServiceNext]_serviceVars
  /\ WF_serviceVars(Cataloguing /\ WriteStep) /\ WF_serviceVars(Cataloguing /\ HandlerStep)
  /\ WF_serviceVars(Cataloguing /\ PassStep) /\ WF_serviceVars(Cataloguing /\ CatalogRestart)
  /\ WF_serviceVars(Delivering /\ PublisherStep) /\ WF_serviceVars(Delivering /\ BridgeStep)
  /\ WF_serviceVars(Delivering /\ ServiceRestart)
  /\ Supervised => WF_serviceVars(Delivering /\ BridgeRestart)
=============================================================================
