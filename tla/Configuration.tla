---------------------------- MODULE Configuration ----------------------------
(***************************************************************************)
(* Server parameters: the chain of parameter files of a knowledge base     *)
(* (server_parameters.py), what its index is written with (kb_config.py,   *)
(* kb_indexer.py) and what a read hands to the pipeline's servers          *)
(* (read_pipeline_payload.py).  The two sides run in different processes   *)
(* and resolve the files again on every call.                              *)
(*                                                                         *)
(* A tree of parameters is a function from the paths of its leaves, which  *)
(* are sequences of keys, to their values, which are sequences too: null   *)
(* and the empty string are <<>>.  An empty dict says nothing here.        *)
(***************************************************************************)
EXTENDS Naturals, FiniteSets, Sequences, SequencesExt

CONSTANTS
  ConfigFiles,  \* the parameter files
  FileBodies,   \* what a file may hold: [base |-> a file or NoBase, tree |-> a tree]
  NoBase,       \* the file names no base_config
  ServerTree,   \* the servers' own parameter.yaml, by section
  LegacyModel, DefaultModel, \* the embedding model of old files, and the one in its place
  Environments, \* [mode, gpus]: BIZRAG_ACCELERATOR and BIZRAG_GPU_IDS of a process
  GivenUris,    \* what register-kb's index_uri may be, Null among them
  MaxFileEdits  \* bound: edits of the files

OtherSections == {"benchmark", "reranker", "merge", "prompt", "generation", "evaluation"}
Sections      == OtherSections \cup {"retriever"}

ASSUME ConfigAssumption ==
  /\ IsFiniteSet(ConfigFiles) /\ NoBase \notin ConfigFiles /\ MaxFileEdits \in Nat
  /\ \A b \in FileBodies : /\ b.base \in ConfigFiles \cup {NoBase}
                           /\ \A p \in DOMAIN b.tree : p \in Seq(STRING) \ {<<>>}
  /\ \A p \in DOMAIN ServerTree : p \in Seq(STRING) /\ Len(p) > 1 /\ Head(p) \in Sections
  /\ \E p \in DOMAIN ServerTree : Head(p) = "retriever"

VARIABLES
  body,      \* what each file holds
  machine,   \* the environments of the process that indexes and of the one that reads
  kbRow,     \* the row of knowledge_bases, or NoRow
  builtWith, \* the parameters of the last writing of the index, and of the last
  readWith,  \* read, since the files or the row changed; Nowhere before there is one
  fileEdits

configVars == <<body, machine, kbRow, builtWith, readWith, fileEdits>>

Null    == <<>>
NoRow   == [path |-> NoBase, uri |-> Null]
Nowhere == [dense |-> <<>>, sparse |-> <<>>, reranker |-> <<>>, generation |-> <<>>]

-----------------------------------------------------------------------------
(* Trees.                                                                  *)

Comparable(p, q) == IsPrefix(p, q) \/ IsPrefix(q, p)

Leaf(p, value) == [q \in {p} |-> value]

(* The leaves of a tree, and of another what it has not. *)
Over(top, rest) ==
  [p \in DOMAIN top \cup DOMAIN rest |-> IF p \in DOMAIN top THEN top[p] ELSE rest[p]]

(* A faulty Overlay: a key of the first level replaces all that is below.  *)
UpdateOnly(base, over) ==
  Over(over, [p \in {q \in DOMAIN base :
                       \A o \in DOMAIN over : SubSeq(o, 1, 2) # SubSeq(q, 1, 2)} |-> base[p]])

(* deep_merge_dicts: dicts are merged, anything else replaces what is there. *)
Overlay(base, over) ==
  Over(over, [p \in {q \in DOMAIN base : \A o \in DOMAIN over : ~Comparable(o, q)} |-> base[p]])

Section(t, name) ==
  [p \in {Tail(q) : q \in {r \in DOMAIN t : Len(r) > 1 /\ Head(r) = name}} |-> t[<<name>> \o p]]

Under(name, t) == [p \in {<<name>> \o q : q \in DOMAIN t} |-> t[Tail(p)]]

PickLocal(t, fields) == [p \in {q \in DOMAIN t : Head(q) \in fields} |-> t[p]]

Value(t, p) == IF p \in DOMAIN t THEN t[p] ELSE Null

(* extract_override_dict: the keys whose values differ, with all below them. *)
ExtractOverride(base, target) ==
  PickLocal(target, {Head(p) : p \in {q \in DOMAIN target :
                       PickLocal(base, {Head(q)}) # PickLocal(target, {Head(q)})}})

-----------------------------------------------------------------------------
(* The parameters of a file.                                               *)

Nested(t) == \E p \in DOMAIN t : Head(p) = "retriever" /\ Len(p) > 1

(* A file without a retriever section is the retriever section, but for    *)
(* the sections of the other servers.                                      *)
Normalized(t) ==
  IF Nested(t) THEN t
  ELSE Over(PickLocal(t, OtherSections),
            Under("retriever", PickLocal(t, {Head(p) : p \in DOMAIN t} \ OtherSections)))

WithDefaults(t) == Overlay(ServerTree, Normalized(t))

(* The file n base_configs away from f. *)
BaseOf(f) ==
  LET far[n \in 0..Cardinality(ConfigFiles)] ==
        IF n = 0 THEN f ELSE IF far[n - 1] = NoBase THEN NoBase ELSE body[far[n - 1]].base
  IN far

(* A chain longer than there are files comes back to one of them. *)
Circular(f) == BaseOf(f)[Cardinality(ConfigFiles)] # NoBase

Chain(f) ==
  LET length == Cardinality({n \in 0..Cardinality(ConfigFiles) : BaseOf(f)[n] # NoBase})
  IN [i \in 1..length |-> BaseOf(f)[i - 1]]

(* The files are merged as they are written, from the farthest on, and     *)
(* normalized afterwards. *)
OverrideOf(f) ==
  LET length == Len(Chain(f))
      merged[n \in 0..length] ==
        IF n = 0 THEN <<>> ELSE Overlay(merged[n - 1], body[Chain(f)[length - n + 1]].tree)
  IN merged[length]

Load(f) == WithDefaults(OverrideOf(f))

-----------------------------------------------------------------------------
(* The parameters of the knowledge base.                                   *)

CanonicalModel(v) ==
  LET plain == IF Len(v) > 1 /\ v[1] = "models--" THEN Tail(v) ELSE v
  IN IF plain = LegacyModel THEN DefaultModel ELSE plain

CanUse(env) == env.mode \in {"auto", "cpu", "cuda"} /\ (env.mode = "cuda" => env.gpus # Null)

GpuFields == {<<"retriever", "gpu_ids">>, <<"retriever", "retriever_gpu_ids">>}
DeviceFields ==
  {<<"reranker", "backend_configs", b, "device">> : b \in {"sentence_transformers", "infinity"}}

AcceleratorProfile(t, env) ==
  LET gpus  == IF env.mode = "cpu" THEN Null ELSE env.gpus
      reranks == DOMAIN Section(t, "reranker") # {}
      place == Over([p \in IF reranks THEN DeviceFields ELSE {} |-> <<env.mode>>],
                    [p \in GpuFields \cup (IF reranks THEN {<<"reranker", "gpu_ids">>} ELSE {}) |-> gpus])
  IN IF env.mode = "auto" THEN t ELSE Overlay(t, place)

(* What the runtime sets whatever the files say: places of the workspace,  *)
(* the collection and the index. *)
RuntimePlaces ==
  {<<"corpus_path">>, <<"embedding_path">>, <<"collection_name">>,
   <<"index_backend">>, <<"retriever_index_backend">>, <<"backend_configs", "bm25", "save_path">>,
   <<"index_backend_configs", "faiss", "index_path">>, <<"index_backend_configs", "milvus", "uri">>}

RuntimeOverrides(uri) ==
  Under("retriever",
    [p \in RuntimePlaces |->
       CASE p = <<"index_backend_configs", "milvus", "uri">> -> uri
         [] p = <<"collection_name">> -> <<"the KB">>
         [] p \in {<<"index_backend">>, <<"retriever_index_backend">>} -> <<"milvus">>
         [] OTHER -> <<"workspace", Head(p)>>])

ModelFields == {<<"retriever", "model_name_or_path">>, <<"retriever", "retriever_model_name_or_path">>}
RerankModelFields == {<<"reranker", "model_name_or_path">>}

CanonicalModels(t) ==
  LET model(s) == CanonicalModel(Value(t, <<s, "model_name_or_path">>))
  IN Overlay(t, Over([p \in ModelFields |-> model("retriever")],
                     [p \in IF DOMAIN Section(t, "reranker") # {} THEN RerankModelFields ELSE {} |->
                        model("reranker")]))

(* build_runtime_server_parameters, by which a migration recognises the    *)
(* profile of a runtime file of old.  *)
BuildRuntime(source, uri, env) ==
  AcceleratorProfile(CanonicalModels(Overlay(WithDefaults(source), RuntimeOverrides(uri))), env)

IsMilvus(t)  == Value(t, <<"retriever", "index_backend">>) = <<"milvus">>
MilvusUri(t) == Value(t, <<"retriever", "index_backend_configs", "milvus", "uri">>)

(* The uri of the files comes before the one the row was registered with. *)
IndexUri(t, row) == IF IsMilvus(t) /\ MilvusUri(t) # Null THEN MilvusUri(t) ELSE row.uri

Resolvable(row, env) == row # NoRow /\ ~Circular(row.path) /\ CanUse(env)

Resolve(row, env) ==
  LET source == Load(row.path)
      merged == Overlay(WithDefaults(source), RuntimeOverrides(IndexUri(source, row)))
  IN AcceleratorProfile(CanonicalModels(merged), env)

-----------------------------------------------------------------------------
(* The operations.                                                         *)

RetrieverFields ==
  {"model_name_or_path", "backend_configs", "batch_size", "corpus_path", "gpu_ids",
   "is_multimodal", "backend", "index_backend", "index_backend_configs", "is_demo",
   "collection_name"}
RerankerFields   == {"model_name_or_path", "backend_configs", "batch_size", "gpu_ids", "backend"}
GenerationFields == {"backend", "backend_configs", "sampling_params", "extra_params", "system_prompt"}

Sparse(t) == Over(Leaf(<<"backend">>, <<"bm25">>), t)

RetrieverParams(t) == PickLocal(Section(t, "retriever"), RetrieverFields \cup {"embedding_path"})
BM25Params(t)      == Sparse(PickLocal(Section(t, "retriever"), RetrieverFields))

(* What a server gets of a section: the override over its own parameters.  *)
ServerHas(section, fields, target) ==
  LET own == PickLocal(Section(ServerTree, section), fields)
  IN Overlay(own, ExtractOverride(own, target))

(* What the servers of the pipeline have with the payload over their own.  *)
Payload(t, prompt) ==
  LET dense   == PickLocal(Section(t, "retriever"), RetrieverFields)
      answers == PickLocal(Section(t, "generation"), GenerationFields)
      said    == IF prompt # Null THEN prompt ELSE Value(answers, <<"system_prompt">>)
  IN [dense      |-> ServerHas("retriever", RetrieverFields, dense),
      sparse     |-> ServerHas("retriever", RetrieverFields, Sparse(dense)),
      reranker   |-> ServerHas("reranker", RerankerFields,
                              PickLocal(Section(t, "reranker"), RerankerFields)),
      generation |-> ServerHas("generation", GenerationFields,
                              Over(Leaf(<<"system_prompt">>, said), answers))]

ConfigInit ==
  /\ body \in [ConfigFiles -> FileBodies]
  /\ machine \in [{"index", "read"} -> Environments]
  /\ kbRow = NoRow /\ builtWith = Nowhere /\ readWith = Nowhere
  /\ fileEdits = 0

EditFile(f, new) ==
  /\ fileEdits < MaxFileEdits /\ new # body[f]
  /\ fileEdits' = fileEdits + 1
  /\ body' = [body EXCEPT ![f] = new]
  /\ builtWith' = Nowhere /\ readWith' = Nowhere
  /\ UNCHANGED <<machine, kbRow>>

(* register-kb, also over a knowledge base that is there.  A uri that is   *)
(* None is stored as the text "None". *)
Register(f, given) ==
  /\ ~Circular(f)
  /\ LET milvus == IsMilvus(Load(f))
         uri    == IF given = Null /\ milvus THEN MilvusUri(Load(f)) ELSE given
     IN /\ ~(milvus /\ uri = Null)
        /\ kbRow' = [path |-> f, uri |-> IF uri = Null THEN <<"None">> ELSE uri]
  /\ builtWith' = Nowhere /\ readWith' = Nowhere
  /\ UNCHANGED <<body, machine, fileEdits>>

WriteIndex ==
  /\ Resolvable(kbRow, machine["index"])
  /\ LET t == Resolve(kbRow, machine["index"])
     IN builtWith' = [Nowhere EXCEPT !.dense = RetrieverParams(t), !.sparse = BM25Params(t)]
  /\ UNCHANGED <<body, machine, kbRow, readWith, fileEdits>>

ReadIndex(prompt) ==
  /\ Resolvable(kbRow, machine["read"])
  /\ readWith' = Payload(Resolve(kbRow, machine["read"]), prompt)
  /\ UNCHANGED <<body, machine, kbRow, builtWith, fileEdits>>

ConfigNext ==
  \/ \E f \in ConfigFiles, new \in FileBodies : EditFile(f, new)
  \/ \E f \in ConfigFiles, given \in GivenUris : Register(f, given)
  \/ WriteIndex
  \/ \E prompt \in {Null, <<"asked">>} : ReadIndex(prompt)

ConfigSpec == ConfigInit /\ [][ConfigNext]_configVars

-----------------------------------------------------------------------------
(* The nearest of the trees that says anything of a place, above or below  *)
(* it, decides on it. *)
Nearest(trees) ==
  LET speaker(p) == CHOOSE i \in DOMAIN trees :
                      /\ \E q \in DOMAIN trees[i] : Comparable(p, q)
                      /\ \A j \in 1..(i - 1) : \A q \in DOMAIN trees[j] : ~Comparable(p, q)
      places == {p \in UNION {DOMAIN trees[i] : i \in DOMAIN trees} : p \in DOMAIN trees[speaker(p)]}
  IN [p \in places |-> trees[speaker(p)][p]]

(* What a chain of files says, file by file: a flat key counts only where  *)
(* no file of the chain has a retriever section. *)
Says(f) ==
  LET nested  == \E i \in DOMAIN Chain(f) : Nested(body[Chain(f)[i]].tree)
      read(t) == IF nested THEN PickLocal(t, Sections) ELSE Normalized(t)
  IN Nearest([i \in DOMAIN Chain(f) |-> read(body[Chain(f)[i]].tree)] \o <<ServerTree>>)

KeysTakeEffect == PickLocal(Load(kbRow.path), Sections) = Says(kbRow.path)

(* Where there may be a leaf: in a file as it is written, in a flat file   *)
(* when it is read, where the runtime sets one and in the servers' files.   *)
FilePlaces == UNION {DOMAIN b.tree : b \in FileBodies}
SetPlaces  == {<<"retriever">> \o p : p \in RuntimePlaces} \cup ModelFields \cup RerankModelFields
              \cup GpuFields \cup {<<"reranker", "gpu_ids">>} \cup DeviceFields
GivenPlaces == FilePlaces \cup {<<"retriever">> \o p : p \in FilePlaces} \cup SetPlaces
LeafPlaces  == GivenPlaces \cup DOMAIN ServerTree

(* No file has a value for a whole section; and a dict of the servers' own *)
(* files that a file has null for, to empty it, is not filled again, but   *)
(* with the one key the servers have there. *)
DictsStay ==
  /\ \A p \in FilePlaces : Len(p) = 1 => Head(p) \notin Sections
  /\ \A p \in DOMAIN ServerTree, q \in LeafPlaces, r \in GivenPlaces :
       IsPrefix(q, p) /\ IsPrefix(q, r) => Comparable(p, r)

(* But for the devices, which each process has of its own. *)
SidesAgree ==
  LET placed(t) == PickLocal(t, RetrieverFields \ {"gpu_ids"})
  IN /\ placed(readWith.dense) = placed(builtWith.dense)
     /\ placed(readWith.sparse) = placed(builtWith.sparse)

ServersHaveProfile ==
  LET t == Resolve(kbRow, machine["read"])
  IN /\ readWith.dense = PickLocal(Section(t, "retriever"), RetrieverFields)
     /\ readWith.reranker = PickLocal(Section(t, "reranker"), RerankerFields)
     /\ t = BuildRuntime(Load(kbRow.path), IndexUri(Load(kbRow.path), kbRow), machine["read"])

(* Parameters arrive where they are meant: every key of the chain of files *)
(* counts as far as no nearer file or form overrules it, the servers of a  *)
(* read have the knowledge base's profile though they are sent only what   *)
(* differs from their own, and a read looks in the collection, the index   *)
(* files and with the model the index was written with. *)
ParametersArrive ==
  /\ (kbRow # NoRow /\ builtWith = Nowhere /\ readWith = Nowhere) => KeysTakeEffect
  /\ readWith # Nowhere => ServersHaveProfile
  /\ (readWith # Nowhere /\ builtWith # Nowhere) => SidesAgree
=============================================================================
