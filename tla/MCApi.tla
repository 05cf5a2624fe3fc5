-------------------------------- MODULE MCApi --------------------------------
(* Model checking of what the API process serves, in one run: Init picks   *)
(* the part that is active - the intake of events from the HTTP publisher, *)
(* the read path, or the way of a change from file_service to its document *)
(* - and the others stay asleep.                                           *)
EXTENDS OutboxHttp, ReadPath, WritePath, TLC

VARIABLE active \* "intake", "reads" or "writes"

ApiInit == active \in {"intake", "reads", "writes"} /\ Init /\ ReadInit /\ WriteInit

Intake  == active = "intake" /\ UNCHANGED <<active, readVars, writeVars>>
Reading == active = "reads" /\ UNCHANGED <<active, vars, writeVars>>
Writing == active = "writes" /\ UNCHANGED <<active, vars, readVars>>

(* The next-state relations of the parts, action by action. *)
ApiNext ==
  \/ \E e \in Events :
       \/ Store(e) /\ Intake
       \/ MarkNext(e) /\ Intake
       \/ GiveUpNext(e) /\ Intake
  \/ Pass /\ Intake
  \/ Claim /\ Intake
  \/ Post /\ Intake
  \/ TakeReply /\ Intake
  \/ PostFails /\ Intake
  \/ MarkingFails /\ Intake
  \/ PublisherDies /\ Intake
  \/ ServiceCrash /\ Intake
  \/ ServiceRestart /\ Intake
  \/ \E r \in requests :
       \/ Serve(r) /\ Intake
       \/ ServeFails(r) /\ Intake
  \/ \E k \in Refreshed :
       \/ WriteCorpus(k) /\ Reading
       \/ CorpusWritten(k) /\ Reading
       \/ ClearIndex(k) /\ Reading
       \/ SaveIndex(k) /\ Reading
       \/ SaveVocabulary(k) /\ Reading
       \/ WriterStops(k) /\ Reading
  \/ StartCold /\ Reading
  \/ StartWarming /\ Reading
  \/ StartFails /\ Reading
  \/ Stop /\ Reading
  \/ ServerDies /\ Reading
  \/ \E r \in Requests, k \in KBs :
       \/ WarmupQuery(r, k) /\ Reading
       \/ Ask(r, k) /\ Reading
  \/ \E r \in Requests :
       \/ WarmupAnswered(r) /\ Reading
       \/ WarmupFailed(r) /\ Reading
       \/ Respond(r) /\ Reading
       \/ EnterSession(r) /\ Reading
       \/ SessionThere(r) /\ Reading
       \/ SessionFails(r) /\ Reading
       \/ Acquire(r) /\ Reading
       \/ ServerGone(r) /\ Reading
       \/ SkipInit(r) /\ Reading
       \/ BeginInit(r) /\ Reading
       \/ LoadCorpus(r) /\ Reading
       \/ TornRow(r) /\ Reading
       \/ LoadIndex(r) /\ Reading
       \/ TornIndex(r) /\ Reading
       \/ Search(r) /\ Reading
       \/ SearchFails(r) /\ Reading
  \/ \E f \in Sources :
       \/ Create(f) /\ Writing
       \/ Replace(f) /\ Writing
       \/ Revive(f) /\ Writing
       \/ Remove(f) /\ Writing
       \/ Patch(f) /\ Writing
  \/ \E n \in Numbers :
       \/ Deliver(n) /\ Writing
       \/ Lapses(n) /\ Writing
  \/ \E p \in Processors :
       \/ Fetch(p) /\ Writing
       \/ FetchGone(p) /\ Writing
       \/ Check(p) /\ Writing
       \/ Refused(p) /\ Writing
       \/ Save(p) /\ Writing
       \/ IngestFails(p) /\ Writing
       \/ Look(p) /\ Writing
       \/ Erase(p) /\ Writing
       \/ DeletionFails(p) /\ Writing
       \/ Succeeds(p) /\ Writing
       \/ \E n \in Numbers :
            \/ ClaimEvent(p, n) /\ Writing
            \/ PostEvent(p, n) /\ Writing
            \/ Replay(p, n) /\ Writing
  \/ RegisterBase /\ Writing
  \/ DropBase /\ Writing

ApiSpec == ApiInit /\ [][ApiNext]_<<active, vars, readVars, writeVars>>

Symmetry == Permutations(Events) \cup Permutations(Processors)
=============================================================================
