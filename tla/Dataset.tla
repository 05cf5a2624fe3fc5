------------------------------ MODULE Dataset -------------------------------
(***************************************************************************)
(* The building of an evaluation dataset (scripts/build_rag_eval_dataset): *)
(* documents are read, cut into chunks, drawn for questions, and what the  *)
(* model asks and rates is filtered.  Documents and chunks are kept under  *)
(* prepared/<slug>, each with a manifest beside it, and used again by the  *)
(* next run whose manifest is equal.  All sources here have one slug.      *)
(*                                                                         *)
(* A character is " ", "." or any other.  A content is <<origin, version,  *)
(* texts, rows>>: so many texts of that version, and of a pool made from   *)
(* them so many rows, are in the file.  Left out: prompts, titles, the     *)
(* files of results, Hugging Face's cache.                                 *)
(***************************************************************************)
EXTENDS Integers, Sequences, FiniteSets, Selections, SequencesExt

CONSTANTS
  Origins,     \* what a dataset is built from
  KindOf,      \* "hf", "excel" or "file"
  RowsOf,      \* per origin and version: the texts of its rows
  Cuts,        \* chunk settings: [size, overlap, minimum]
  Separators,  \* in the order of their priority
  Plans,       \* sequences of subsets: [name, ratio, pairs, answerable]
  Total,       \* generations
  Ratings,     \* <<groundedness, relevance, standalone>>; 0: not understood
  Threshold, Ungrounded, \* 4 and 2
  SplitTexts,  \* bound: texts the splitter is tried on, with the settings in Cuts
  SplitRatios, \* bound: ratios the allocation is tried on
  MaxRuns, MaxBreaks \* bounds

ASSUME DatasetAssumption ==
  /\ \A c \in Cuts : c.size \in Nat \ {0} /\ c.overlap \in Nat /\ c.minimum \in Nat
  /\ \A o \in Origins : RowsOf[o] \in Seq(Seq(Seq(STRING))) \ {<<>>}
  /\ \A o \in Origins : KindOf[o] \notin {"hf", "excel"} =>
       \A v \in DOMAIN RowsOf[o] : RowsOf[o][v] # <<>> \* a file has a text
  /\ Separators \in Seq(Seq(STRING) \ {<<>>})
  /\ Plans \subseteq Seq([name : STRING, ratio : Nat, pairs : BOOLEAN, answerable : BOOLEAN])
  /\ \A plan \in Plans : \A i, j \in DOMAIN plan : plan[i].name = plan[j].name => i = j
  /\ SplitTexts \subseteq Seq(STRING) /\ SplitRatios \subseteq Seq(Nat \ {0}) \ {<<>>}
  /\ Origins \cap {<<>>, <<"half">>} = {} \* a manifest missing, or cut off
  /\ {Total, MaxRuns, MaxBreaks} \subseteq Nat

VARIABLES
  version,  \* of each origin, as it is now
  docs,     \* source_documents.jsonl and its manifest
  pools,    \* contexts.jsonl and manifest.json, per chunk settings
  build,    \* the run under way
  runs, breaks,
  torn      \* history: a run was cut off with its file beside another's manifest

datasetVars == <<version, docs, pools, build, runs, breaks, torn>>

Nothing == <<>>
Half    == <<"half">> \* a file that ends in the middle of a line
NoCache == [content |-> Nothing, manifest |-> Nothing]
NoBuild == [stage |-> "none", origin |-> "none",
            cut |-> [size |-> 0, overlap |-> 0, minimum |-> 0], plan |-> <<>>, docs |-> Nothing,
            pool |-> Nothing, tasks |-> <<>>, rows |-> <<>>]

DatasetInit ==
  /\ version = [o \in Origins |-> 1]
  /\ docs = NoCache /\ pools = [c \in Cuts |-> NoCache]
  /\ build = NoBuild /\ runs = 0 /\ breaks = 0 /\ torn = FALSE

-----------------------------------------------------------------------------
(* Documents.  Rows without text are left out; the documents of a sheet    *)
(* have one source, those of a Hugging Face dataset one each.              *)

Space == " "
Blank(text) == \A i \in DOMAIN text : text[i] = Space

WithText(rows) == {i \in DOMAIN rows : ~Blank(rows[i])}

HfDocuments(rows) ==
  LET full == Ascending(WithText(rows))
  IN [j \in DOMAIN full |-> [text |-> rows[full[j]], source |-> full[j]]]

ExcelDocuments(rows) ==
  LET full == Picked(rows, WithText(rows))
  IN [j \in DOMAIN full |-> [text |-> full[j], source |-> 1]]

FileDocument(rows) == ExcelDocuments(SubSeq(rows, 1, 1))

TextsOf(origin, at) ==
  LET rows == RowsOf[origin][at]
  IN CASE KindOf[origin] = "hf"    -> HfDocuments(rows)
       [] KindOf[origin] = "excel" -> ExcelDocuments(rows)
       [] OTHER                    -> FileDocument(rows)

(* What a file has of the rows it was to have. *)
Written(rows, n) == SubSeq(rows, 1, IF n < Len(rows) THEN n ELSE Len(rows))

DocumentsOf(content) == Written(TextsOf(content[1], content[2]), content[3])

-----------------------------------------------------------------------------
(* Chunks.  Positions are offsets, from 0.                                 *)

Smaller(a, b) == IF a < b THEN a ELSE b
Larger(a, b)  == IF a > b THEN a ELSE b

Slice(text, from, to) == SubSeq(text, from + 1, to)

(* text.rfind(separator, from, to), or -1. *)
RFind(text, separator, from, to) ==
  LET places == {p \in from..(to - Len(separator)) :
                   Slice(text, p, p + Len(separator)) = separator}
  IN IF places = {} THEN -1 ELSE CHOOSE p \in places : \A q \in places : q <= p

(* Where the chunk that starts at start ends: after the last separator of  *)
(* the first kind there is in its second half.                             *)
EndOf(text, start, cut) ==
  LET limit == Smaller(start + cut.size, Len(text))
      half  == start + Larger(1, cut.size \div 2)
      hits  == {k \in DOMAIN Separators : RFind(text, Separators[k], half, limit) # -1}
      first == CHOOSE k \in hits : \A l \in hits : k <= l
  IN IF limit = Len(text) \/ hits = {} THEN limit
     ELSE RFind(text, Separators[first], half, limit) + Len(Separators[first])

NextStart(text, start, cut) == Larger(start + 1, EndOf(text, start, cut) - cut.overlap)

(* strip *)
Stripped(text, start, end) ==
  LET inked == {p \in start..(end - 1) : text[p + 1] # Space}
      low   == CHOOSE p \in inked : \A q \in inked : p <= q
      high  == CHOOSE p \in inked : \A q \in inked : p >= q
  IN IF inked = {} THEN <<>> ELSE <<[start |-> low, end |-> high + 1]>>

(* split_document_text *)
Split(text, cut) ==
  LET from[start \in 0..Len(text)] ==
        IF start >= Len(text) THEN <<>>
        ELSE LET end == EndOf(text, start, cut)
             IN Stripped(text, start, end)
                \o IF end >= Len(text) THEN <<>> ELSE from[NextStart(text, start, cut)]
  IN IF Blank(text) THEN <<>> ELSE from[0]

(* build_chunks: short ones are left out, and each <<source, start, text>> *)
(* is taken once.                                                          *)
LongEnough(pieces, cut) ==
  Picked(pieces, {i \in DOMAIN pieces : pieces[i].end - pieces[i].start >= cut.minimum})

Chunk(doc, piece) == [source |-> doc.source, start |-> piece.start,
                      text |-> Slice(doc.text, piece.start, piece.end)]

ChunksOf(doc, cut) ==
  LET pieces == LongEnough(Split(doc.text, cut), cut)
  IN [i \in DOMAIN pieces |-> Chunk(doc, pieces[i])]

ChunksOfAll(texts, cut) == FlattenSeq([d \in DOMAIN texts |-> ChunksOf(texts[d], cut)])

Distinct(rows) == Picked(rows, {i \in DOMAIN rows : \A j \in 1..(i - 1) : rows[j] # rows[i]})

WholePool(content, cut) == Distinct(ChunksOfAll(DocumentsOf(content), cut))

Pool(content, cut) == Written(WholePool(content, cut), content[4])

(* build_adjacent_chunk_pairs: neighbours in the order of their starts, by *)
(* source; the sort is stable.                                             *)
Pairs(pool) ==
  LET before(a, b) == /\ pool[a].source = pool[b].source
                      /\ \/ pool[a].start < pool[b].start
                         \/ pool[a].start = pool[b].start /\ a < b
      next(a, b)   == /\ before(a, b) /\ pool[a].start # pool[b].start
                      /\ ~\E c \in DOMAIN pool : before(a, c) /\ before(c, b)
  IN {pair \in (DOMAIN pool) \X (DOMAIN pool) : next(pair[1], pair[2])}

-----------------------------------------------------------------------------
(* Questions.                                                              *)

(* build_subset_configs *)
ActiveSubsets(plan) == Picked(plan, {i \in DOMAIN plan : plan[i].ratio > 0})

SumOf(numbers) ==
  LET upTo[n \in 0..Len(numbers)] == IF n = 0 THEN 0 ELSE upTo[n - 1] + numbers[n]
  IN upTo[Len(numbers)]

(* allocate_subset_generations: what is left goes to the largest           *)
(* remainders, the first first.  Ratios are whole numbers here.             *)
Allocation(ratios, total) ==
  LET sum      == SumOf(ratios)
      whole(i) == (total * ratios[i]) \div sum
      over(i)  == (total * ratios[i]) % sum
      left     == total - SumOf([i \in DOMAIN ratios |-> whole(i)])
      rank(i)  == Cardinality({j \in DOMAIN ratios :
                   over(j) > over(i) \/ (over(j) = over(i) /\ j < i)})
  IN [i \in DOMAIN ratios |-> whole(i) + IF rank(i) < left THEN 1 ELSE 0]

Shares(plan) == Allocation([i \in DOMAIN plan |-> plan[i].ratio], Total)

(* sample_items: without replacement if there are enough of them. *)
Samples(items, n) ==
  IF items = {} THEN {<<>>}
  ELSE {f \in [1..n -> items] : n <= Cardinality(items) => \A i, j \in 1..n : f[i] = f[j] => i = j}

(* build_generation_tasks; their order, which is shuffled, does not matter. *)
Items(subset, pool) == IF subset.pairs THEN Pairs(pool) ELSE {<<i>> : i \in DOMAIN pool}

TaskLists(plan, pool) ==
  LET drawn(i) == Samples(Items(plan[i], pool), Shares(plan)[i])
      lists    == {f \in [DOMAIN plan -> UNION {drawn(i) : i \in DOMAIN plan}] :
                     \A i \in DOMAIN plan : f[i] \in drawn(i)}
  IN {FlattenSeq([i \in DOMAIN plan |->
                    [j \in DOMAIN f[i] |-> [subset |-> plan[i], chunks |-> f[i][j]]]]) : f \in lists}

(* filter_candidates: a rating that was not understood is 0. *)
Kept(candidate) ==
  /\ IF candidate.task.subset.answerable THEN candidate.rating[1] >= Threshold ELSE candidate.rating[1] <= Ungrounded
  /\ candidate.rating[2] >= Threshold /\ candidate.rating[3] >= Threshold

-----------------------------------------------------------------------------
(* A run.                                                                  *)

CachesStay  == UNCHANGED <<docs, pools>>
RestStays   == UNCHANGED <<version, runs, breaks, torn>>
Stage(s)    == build.stage = s

OriginChanges(o) ==
  /\ version[o] < Len(RowsOf[o]) /\ version' = [version EXCEPT ![o] = @ + 1]
  /\ CachesStay /\ UNCHANGED <<build, runs, breaks, torn>>

StartBuild(o, cut, plan) ==
  /\ Stage("none") \/ Stage("done")
  /\ runs < MaxRuns /\ runs' = runs + 1
  /\ build' = [NoBuild EXCEPT !.stage = "docs", !.origin = o, !.cut = cut, !.plan = ActiveSubsets(plan)]
  /\ CachesStay /\ UNCHANGED <<version, breaks, torn>>

(* ensure_prepared_source_documents; the manifest names the origin, and    *)
(* not what is in it.  A run ends at a line that does not parse.           *)
KnownIn(cache) == cache.manifest = build.origin

Unreadable(cache) == cache.manifest = Half \/ (KnownIn(cache) /\ cache.content = Half)

UseDocs ==
  /\ Stage("docs") /\ ~Unreadable(docs) /\ KnownIn(docs)
  /\ build' = [build EXCEPT !.stage = "pool", !.docs = docs.content]
  /\ CachesStay /\ RestStays

(* The documents of the origin as it is now, the first n of them written. *)
NewDocs(n) == <<build.origin, version[build.origin], n, 0>>

AllDocs == Len(TextsOf(build.origin, version[build.origin]))

DocsMissing == Stage("docs") /\ ~Unreadable(docs) /\ ~KnownIn(docs)

LoadDocs ==
  /\ DocsMissing
  /\ docs' = [docs EXCEPT !.content = NewDocs(AllDocs)]
  /\ build' = [build EXCEPT !.stage = "docs manifest", !.docs = NewDocs(AllDocs)]
  /\ UNCHANGED pools /\ RestStays

SaveDocsManifest ==
  /\ Stage("docs manifest")
  /\ docs' = [docs EXCEPT !.manifest = build.origin]
  /\ build' = [build EXCEPT !.stage = "pool"]
  /\ UNCHANGED pools /\ RestStays

(* Mutant: a chunk pool is known by its settings alone. *)
PoolOfSettings == pools[build.cut].manifest # Nothing

PoolKnown == KnownIn(pools[build.cut])

(* ensure_prepared_chunk_pool *)
AtPool == Stage("pool") /\ DocumentsOf(build.docs) # <<>> /\ ~Unreadable(pools[build.cut])

UsePool ==
  /\ AtPool /\ PoolKnown
  /\ build' = [build EXCEPT !.stage = "tasks", !.pool = pools[build.cut].content]
  /\ CachesStay /\ RestStays

(* The pool made from the documents, its first n rows written. *)
NewPool(n) == <<build.docs[1], build.docs[2], build.docs[3], n>>

AllRows == Len(WholePool(build.docs, build.cut))

BuildPool ==
  /\ AtPool /\ ~PoolKnown
  /\ pools' = [pools EXCEPT ![build.cut].content = NewPool(AllRows)]
  /\ build' = [build EXCEPT !.stage = "pool manifest", !.pool = NewPool(AllRows)]
  /\ UNCHANGED docs /\ RestStays

SavePoolManifest ==
  /\ Stage("pool manifest")
  /\ pools' = [pools EXCEPT ![build.cut].manifest = build.origin]
  /\ build' = [build EXCEPT !.stage = "tasks"]
  /\ UNCHANGED docs /\ RestStays

Chunks == Pool(build.pool, build.cut)

DrawTasks ==
  /\ Stage("tasks") /\ Chunks # <<>>
  /\ \E tasks \in TaskLists(build.plan, Chunks) :
       build' = [build EXCEPT !.stage = "ask", !.tasks = tasks]
  /\ CachesStay /\ RestStays

(* No documents, no chunks, no candidates: SystemExit; a file of an        *)
(* earlier run that was cut off: JSONDecodeError.                          *)
GivesUp ==
  /\ \/ Stage("docs") /\ Unreadable(docs)
     \/ Stage("pool") /\ (DocumentsOf(build.docs) = <<>> \/ Unreadable(pools[build.cut]))
     \/ Stage("tasks") /\ Chunks = <<>>
     \/ Stage("ask") /\ build.tasks = <<>> /\ build.rows = <<>>
  /\ build' = NoBuild
  /\ CachesStay /\ RestStays

(* generate_candidates: no answer of the expected form, or one too long. *)
NoQuestion ==
  /\ Stage("ask") /\ build.tasks # <<>>
  /\ build' = [build EXCEPT !.tasks = Tail(@)]
  /\ CachesStay /\ RestStays

(* A question, and what critique_candidates makes of it, which follows for *)
(* all questions together.                                                 *)
Question(rating) ==
  /\ Stage("ask") /\ build.tasks # <<>>
  /\ build' = [build EXCEPT !.tasks = Tail(@),
                 !.rows = Append(@, [task |-> Head(build.tasks), rating |-> rating])]
  /\ CachesStay /\ RestStays

SaveDataset ==
  /\ Stage("ask") /\ build.tasks = <<>> /\ build.rows # <<>>
  /\ build' = [build EXCEPT !.stage = "done", !.rows = Picked(@, {r \in DOMAIN @ : Kept(@[r])})]
  /\ CachesStay /\ RestStays

(* The model fails max_retries times, or the process is killed: what has   *)
(* been asked is lost.                                                     *)
Breaks ==
  /\ breaks < MaxBreaks /\ breaks' = breaks + 1
  /\ build' = NoBuild /\ UNCHANGED <<version, runs>>

(* A file is whole, and beside it may be the manifest of another origin. *)
BuildCrashes ==
  /\ ~Stage("none") /\ ~Stage("done") /\ Breaks
  /\ torn' = \/ torn
             \/ Stage("docs manifest") /\ docs.manifest # Nothing
             \/ Stage("pool manifest") /\ pools[build.cut].manifest # Nothing
  /\ CachesStay

(* save_jsonl is cut off: of the new rows there are the first, and maybe   *)
(* half of one more; the old ones are gone.                                *)
DocsCutOff ==
  /\ DocsMissing /\ Breaks
  /\ \E content \in {Half} \cup {NewDocs(n) : n \in 0..AllDocs} :
       docs' = [docs EXCEPT !.content = content]
  /\ torn' = (torn \/ docs.manifest # Nothing)
  /\ UNCHANGED pools

PoolCutOff ==
  /\ AtPool /\ ~PoolKnown /\ Breaks
  /\ \E content \in {Half} \cup {NewPool(n) : n \in 0..AllRows} :
       pools' = [pools EXCEPT ![build.cut].content = content]
  /\ torn' = (torn \/ pools[build.cut].manifest # Nothing)
  /\ UNCHANGED docs

(* save_json is cut off. *)
ManifestCutOff ==
  /\ \/ Stage("docs manifest") /\ docs' = [docs EXCEPT !.manifest = Half] /\ UNCHANGED pools
     \/ Stage("pool manifest") /\ pools' = [pools EXCEPT ![build.cut].manifest = Half] /\ UNCHANGED docs
  /\ Breaks /\ UNCHANGED torn

DatasetNext ==
  \/ \E o \in Origins : OriginChanges(o)
  \/ \E o \in Origins, cut \in Cuts, plan \in Plans : StartBuild(o, cut, plan)
  \/ UseDocs \/ LoadDocs \/ SaveDocsManifest
  \/ UsePool \/ BuildPool \/ SavePoolManifest
  \/ DrawTasks \/ GivesUp \/ NoQuestion
  \/ \E rating \in Ratings : Question(rating)
  \/ SaveDataset
  \/ BuildCrashes \/ DocsCutOff \/ PoolCutOff \/ ManifestCutOff

DatasetSpec == DatasetInit /\ [][DatasetNext]_datasetVars

-----------------------------------------------------------------------------
(* The splitter ends, leaves no character out that is not blank, and gives *)
(* pieces in order and no longer than asked for.                           *)
SplitsWell(text, pieces, size) ==
  /\ \A p \in 0..(Len(text) - 1) : text[p + 1] # Space =>
       \E i \in DOMAIN pieces : p \in pieces[i].start..(pieces[i].end - 1)
  /\ \A i \in DOMAIN pieces : pieces[i].end - pieces[i].start \in 1..size
  /\ \A i, j \in DOMAIN pieces : i < j => pieces[i].start <= pieces[j].start

(* Every generation is given away, and no subset's share is one or more    *)
(* from what its ratio asks for.                                           *)
SharesWell(ratios, share, total) ==
  LET sum == SumOf(ratios)
  IN /\ SumOf(share) = total
     /\ \A i \in DOMAIN ratios : share[i] * sum - total * ratios[i] \in (1 - sum)..(sum - 1)

(* Every chunk stands where it says in a document of its source. *)
StandsIn(pool, texts) ==
  \A i \in DOMAIN pool : \E d \in DOMAIN texts :
    /\ texts[d].source = pool[i].source
    /\ pool[i].start + Len(pool[i].text) <= Len(texts[d].text)
    /\ Slice(texts[d].text, pool[i].start, pool[i].start + Len(pool[i].text)) = pool[i].text

Neighbours(a, b, pool) ==
  /\ a.source = b.source /\ a.start < b.start
  /\ ~\E i \in DOMAIN pool : pool[i].source = a.source /\ pool[i].start \in (a.start + 1)..(b.start - 1)

(* No question is there twice if there were enough chunks to draw from; a  *)
(* pair are neighbours.                                                    *)
AskedWell(rows, pool) ==
  /\ \A r, s \in DOMAIN rows :
       rows[r].task = rows[s].task /\ r # s => Cardinality(Items(rows[r].task.subset, pool)) < Total
  /\ \A r \in DOMAIN rows : rows[r].task.subset.pairs =>
       Neighbours(pool[Head(rows[r].task.chunks)], pool[Last(rows[r].task.chunks)], pool)

(* A dataset that is finished was made from the origin asked for, and from *)
(* all of it, through whatever caches earlier runs have left, unless one   *)
(* of these was cut off with its file beside the manifest of another; its  *)
(* chunks may be of an earlier version than its documents (a pool is kept  *)
(* when the documents are read again), never of a later one.               *)
ComesFromOrigin ==
  Stage("done") /\ ~torn =>
    /\ build.docs[1] = build.origin /\ build.pool[1] = build.origin
    /\ build.pool[2] <= build.docs[2] /\ build.docs[2] <= version[build.origin]
    /\ DocumentsOf(build.docs) = TextsOf(build.origin, build.docs[2])
    /\ DocumentsOf(build.pool) = TextsOf(build.origin, build.pool[2])
    /\ Chunks = WholePool(build.pool, build.cut)

(* And its chunks stand in the text where they say, even out of a cache of *)
(* another origin or one that was cut off; a pair are neighbours among the *)
(* chunks of their source; no question is there twice if there were enough *)
(* chunks to draw from.  And the splitter and the allocation are right on  *)
(* all small inputs.                                                       *)
DatasetIsWhatWasAsked ==
  /\ ComesFromOrigin
  /\ Stage("docs") /\ runs = 1 =>
       /\ \A text \in SplitTexts, cut \in Cuts : SplitsWell(text, Split(text, cut), cut.size)
       /\ \A ratios \in SplitRatios, total \in 1..5 : SharesWell(ratios, Allocation(ratios, total), total)
  /\ Stage("done") =>
       /\ StandsIn(Chunks, DocumentsOf(build.pool))
       /\ AskedWell(build.rows, Chunks)
=============================================================================
