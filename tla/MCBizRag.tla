------------------------------ MODULE MCBizRag --------------------------------
(* Model checking of BizRAG: its queue of events, and in the same run of   *)
(* parts that share nothing with it: the ingestion of a file, the dataset  *)
(* built from documents, the page of operations, the parameters of a       *)
(* knowledge base and the ranking of a query's hits.  Init picks the part  *)
(* that is active, and the others stay asleep.                             *)
EXTENDS EventQueue, Ingestion, Dataset, Overview, Configuration, Ranking, TLC

CONSTANTS f1, f2, o1, o2, k1, k2, c1, c2, c3

MCLayouts   == {<<"text", "blank", "text", "text">>, <<"text", "box">>, <<"blank">>}
MCFileTypes == f1 :> {".xlsx", ".pdf", ".docx", ".doc", ".txt"} @@ f2 :> {".xlsx"}
MCChunkSize    == "default" :> 2 @@ "sap" :> 2
MCChunkOverlap == "default" :> 1 @@ "sap" :> 2

MCKindOf == o1 :> "file" @@ o2 :> "excel"
MCRowsOf == o1 :> << << <<"x", ".", "x", "y">> >>, << <<"y", " ", "y">> >> >>
            @@ o2 :> << << <<"x", "y", "x">>, <<" ">>, <<"y">> >> >>
MCCuts   == {[size |-> 3, overlap |-> 0, minimum |-> 1], [size |-> 3, overlap |-> 1, minimum |-> 2]}
MCSeparators == << <<".", " ">>, <<".">>, <<" ">> >>
Subset(name, pairs, answerable) ==
  [name |-> name, ratio |-> 1, pairs |-> pairs, answerable |-> answerable]
MCPlans  == {<<Subset("core", FALSE, TRUE), Subset("unanswerable", FALSE, FALSE)>>,
             <<Subset("cross", TRUE, TRUE)>>}
MCRatings     == {<<0, 5, 5>>, <<5, 5, 5>>, <<5, 0, 5>>}
MCSplitTexts  == UNION {[1..n -> {"x", ".", " "}] : n \in 0..5}
MCSplitRatios == UNION {[1..n -> 1..3] : n \in 1..3}

MCKinds == {<<"worker", k1>>, <<"retrieve", k2>>}

MCServerTree ==
  <<"retriever", "model_name_or_path">> :> <<"bge">> @@ <<"retriever", "backend">> :> <<"st">>
  @@ <<"retriever", "backend_configs", "bm25", "save_path">> :> <<"index">>
  @@ <<"retriever", "index_backend">> :> <<"milvus">>
  @@ <<"retriever", "index_backend_configs", "milvus", "uri">> :> <<"server">>
  @@ <<"retriever", "collection_name">> :> <<"wiki">> @@ <<"retriever", "batch_size">> :> <<"16">>
  @@ <<"retriever", "gpu_ids">> :> Null
  @@ <<"reranker", "model_name_or_path">> :> <<"rank">> @@ <<"reranker", "gpu_ids">> :> Null
  @@ <<"reranker", "backend_configs", "infinity", "device">> :> <<"cpu">>
  @@ <<"generation", "sampling_params", "top_p">> :> <<"1">>
  @@ <<"generation", "system_prompt">> :> Null
Body(base, tree) == [base |-> base, tree |-> tree]
MCBodies ==
  {Body(NoBase, <<"batch_size">> :> <<"8">> @@ <<"index_backend">> :> <<"faiss">>
                @@ <<"model_name_or_path">> :> <<"models--", "minicpm">>),
   Body(NoBase, <<"retriever", "index_backend_configs", "milvus">> :> Null
                @@ <<"generation", "sampling_params">> :> Null),
   Body("base", <<"retriever", "batch_size">> :> <<"4">>
                @@ <<"retriever", "backend_configs", "bm25", "lang">> :> <<"zh">>
                @@ <<"reranker", "model_name_or_path">> :> <<"minicpm">>),
   Body("base", <<"index_backend_configs", "milvus", "uri">> :> <<"site">>
                @@ <<"generation", "sampling_params", "top_p">> :> <<"2">>)}
MCLegacyModel  == <<"minicpm">>
MCDefaultModel == <<"bge">>
MCGivenUris    == {Null, <<"given">>}
Environment(mode, gpus) == [mode |-> mode, gpus |-> gpus]
MCEnvironments == {Environment("auto", Null), Environment("cuda", Null),
                   Environment("cuda", <<"0">>), Environment("cpu", Null)}

MCDocumentOf   == c1 :> "A" @@ c2 :> "A" @@ c3 :> "B"
MCFilters      == {{c1, c2, c3}, {c1, c3}}
MCWeights      == <<1, 2>>
MCScoreShapes  == {<<2, 1, 1>>}

ASSUME DictsStay

VARIABLE active \* the part that runs

IngestionAsleep ==
  /\ suffix = [d \in Documents |-> ".xlsx"] /\ contents = 0 /\ inHand = NoFile
  /\ corpusRows = [d \in Documents |-> NoRows] /\ chunkRows = [d \in Documents |-> NoRows]
  /\ markdown = [d \in Documents |-> Unread]
  /\ record = [d \in Documents |-> [status |-> "none", hash |-> 0]] /\ stale = {}

ConfigAsleep ==
  /\ body = [f \in ConfigFiles |-> Body(NoBase, <<>>)]
  /\ machine = [p \in {"index", "read"} |-> Environment("auto", Null)]
  /\ kbRow = NoRow /\ builtWith = Nowhere /\ readWith = Nowhere /\ fileEdits = 0

PartsInit ==
  /\ active \in {"queue", "ingestion", "dataset", "overview", "configuration", "ranking"}
  /\ Init /\ DatasetInit /\ OverviewInit /\ RankingInit
  /\ IF active = "ingestion" THEN IngestionInit ELSE IngestionAsleep
  /\ IF active = "configuration" THEN ConfigInit ELSE ConfigAsleep

Working     == active = "queue"
               /\ UNCHANGED <<active, ingestionVars, datasetVars, overviewVars, configVars, rankingVars>>
Ingesting   == active = "ingestion"
               /\ UNCHANGED <<active, vars, datasetVars, overviewVars, configVars, rankingVars>>
Evaluating  == active = "dataset"
               /\ UNCHANGED <<active, vars, ingestionVars, overviewVars, configVars, rankingVars>>
Viewing     == active = "overview"
               /\ UNCHANGED <<active, vars, ingestionVars, datasetVars, configVars, rankingVars>>
Configuring == active = "configuration"
               /\ UNCHANGED <<active, vars, ingestionVars, datasetVars, overviewVars, rankingVars>>
Querying    == active = "ranking"
               /\ UNCHANGED <<active, vars, ingestionVars, datasetVars, overviewVars, configVars>>

(* Bound: the page sees as many operations as there may be, or fewer of    *)
(* them beside a queue that moves.                                         *)
InView == Len(spans') < MaxSpans \/ (backlog' = 0 /\ held' = {})

(* The next-state relations of the parts, action by action. *)
PartsNext ==
  \/ \E e \in Events :
       \/ Working /\ Enqueue(e)
       \/ Working /\ LeaseLapses(e)
  \/ \E w \in Workers :
       \/ Working /\ ReadExpired(w)
       \/ Working /\ Claim(w)
       \/ Working /\ Crash(w)
       \/ Working /\ Restart(w)
       \/ \E e \in Events :
            \/ Working /\ RequeueExpired(w, e)
            \/ Working /\ FailExpired(w, e)
            \/ Working /\ RejectPayload(w, e)
            \/ Working /\ CheckDuplicate(w, e)
            \/ Working /\ StartProcessing(w, e)
            \/ Working /\ FinishEvent(w, e)
            \/ Working /\ CancelEvent(w, e)
            \/ Working /\ StoreError(w, e)
            \/ Working /\ Heartbeat(w, e)
  \/ Viewing /\ (\E k \in Kinds : Starts(k[1], k[2])) /\ InView
  \/ \E i \in DOMAIN spans :
       \/ Viewing /\ Finishes(i, "failed", Fast) /\ InView
       \/ Viewing /\ (\E ms \in {Fast, Slow} : Finishes(i, "success", ms)) /\ InView
  \/ Viewing /\ TimePasses /\ InView
  \/ Viewing /\ (\E n \in Backlogs : BacklogBecomes(n)) /\ InView
  \/ Viewing /\ EventUpdated /\ InView
  \/ Viewing /\ (\E t \in held : EventLeaves(t)) /\ InView
  \/ Viewing /\ ReadRecent /\ InView
  \/ Viewing /\ ReadRunning /\ InView
  \/ Viewing /\ (\E answers, ready \in BOOLEAN : ReadHealth(answers, ready)) /\ InView
  \/ Viewing /\ ReadAlerts /\ InView
  \/ Viewing /\ QueryFails /\ InView
  \/ Ingesting /\ \E d \in Documents, layout \in Layouts, profile \in WriteProfiles :
       \E able \in SUBSET Tools(suffix[d]) :
       \E broken \in IF suffix[d] \in Excel THEN 1..(Len(layout) + 1) ELSE {0} :
       \E temp \in IF suffix[d] = ".pdf" THEN BOOLEAN ELSE {FALSE} :
         TakeFile(d, layout, able, broken, profile, temp)
  \/ Ingesting /\ BuildExcel
  \/ Ingesting /\ BuildMineru
  \/ Ingesting /\ BuildText
  \/ Ingesting /\ ChunkDocument
  \/ Evaluating /\ \E o \in Origins : OriginChanges(o)
  \/ Evaluating /\ \E o \in Origins, cut \in Cuts, plan \in Plans : StartBuild(o, cut, plan)
  \/ Evaluating /\ UseDocs
  \/ Evaluating /\ LoadDocs
  \/ Evaluating /\ SaveDocsManifest
  \/ Evaluating /\ UsePool
  \/ Evaluating /\ BuildPool
  \/ Evaluating /\ SavePoolManifest
  \/ Evaluating /\ DrawTasks
  \/ Evaluating /\ GivesUp
  \/ Evaluating /\ NoQuestion
  \/ Evaluating /\ \E rating \in Ratings : Question(rating)
  \/ Evaluating /\ SaveDataset
  \/ Evaluating /\ BuildCrashes
  \/ Evaluating /\ DocsCutOff
  \/ Evaluating /\ PoolCutOff
  \/ Evaluating /\ ManifestCutOff
  \/ Configuring /\ \E f \in ConfigFiles, new \in FileBodies : EditFile(f, new)
  \/ Configuring /\ \E f \in ConfigFiles, given \in GivenUris : Register(f, given)
  \/ Configuring /\ WriteIndex
  \/ Configuring /\ \E prompt \in {Null, <<"asked">>} : ReadIndex(prompt)
  \/ Querying /\ \E admits \in Filters, asked \in AskedTopKs, profile \in ProfileTopKs,
                  strategy \in Strategies : BuildInputs(admits, asked, profile, strategy)
  \/ Querying /\ \E shape \in ScoreShapes : SearchDense(shape)
  \/ Querying /\ \E shape \in ScoreShapes : SearchSparse(shape)
  \/ Querying /\ Merge
  \/ Querying /\ Rerank
  \/ Querying /\ TakeItems

allVars == <<active, vars, ingestionVars, datasetVars, overviewVars, configVars, rankingVars>>

(* The fairness of EventQueue. *)
PartsSpec ==
  /\ PartsInit /\ [][PartsNext]_allVars
  /\ \A w \in Workers : WF_allVars(Working /\ WorkerStep(w))
  /\ \A e \in Events : WF_allVars(Working /\ LeaseLapses(e))
=============================================================================
