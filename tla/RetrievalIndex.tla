--------------------------- MODULE RetrievalIndex ---------------------------
(***************************************************************************)
(* The retrieval index on disk, the server that loads it once and queries  *)
(* its metadata store on every request, and the graded search with its one *)
(* retry (retrieval/index.py, store.py, search.py, grading.py, rewrite.py, *)
(* the factory of graph/runtime.py).                                       *)
(*                                                                         *)
(* An index is four files replaced one by one. A server keeps the vectors  *)
(* it has read in memory, but opens the metadata store by its path for     *)
(* every query, so a rebuild changes the store under it.                   *)
(***************************************************************************)
EXTENDS Corpus, FiniteSetsExt

CONSTANTS
    Archives,       \* [name -> dataset]: what the archive may hold
    Requests,       \* what the retrieval tools are asked
    Relevance,      \* [attempt -> [passage -> 0..2]]: see Score
    MaxBuilds,      \* bound: builds of the index
    CANDIDATES_PER_LANE, MAX_ACCOUNT_CITATIONS, MAX_KNOWLEDGE_CITATIONS,
    RECENT_AGE,     \* maximum age in days when a query asks for recent evidence
    Undated         \* doc_date of an article, and as_of of a request without one

ASSUME BuildsAssumption == MaxBuilds \in Nat
ASSUME LimitsAssumption == /\ CANDIDATES_PER_LANE \in Nat
                           /\ MAX_ACCOUNT_CITATIONS \in Nat
                           /\ MAX_KNOWLEDGE_CITATIONS \in Nat

Datasets == DOMAIN Archives
Builds   == 1..MaxBuilds
None     == 0
Files    == <<"faiss", "store", "corpus", "manifest">>  \* in the order replaced
FileSet  == {"faiss", "store", "corpus", "manifest"}
MAX_RETRIES == 1

VARIABLES
    raw,       \* the dataset in the archive
    built,     \* the dataset each build was made from
    disk,      \* the build each file of the index directory comes from
    stage,     \* files the running build has still to replace
    served,    \* the dataset the server's repository was loaded from
    expected,  \* the archive when the server last computed the digest it expects
    loaded,    \* the builds of the manifest and vectors in memory
    step,      \* what the request in hand does next
    req,       \* the request in hand or last answered
    attempt,   \* 1, then 2 for the rewritten query
    hits,      \* scored rows, then records, of the lane
    citations, \* citations accepted so far, all requirements checked at the end
    reply,     \* the outcome of the last request
    calm       \* history: no file was replaced since a complete set was loaded

builder == <<raw, built, disk, stage>>
search  == <<step, req, attempt, hits, citations, reply>>
server  == <<served, expected, loaded>>
vars    == <<builder, server, search, calm>>

NoIndex == [manifest |-> None, vectors |-> None]
Waiting == [kind |-> "none", citations |-> {}, insufficient |-> FALSE, missing |-> {}]

\* The corpus of a repository and an archive, and those that load and build.
Corpora     == [data \in Datasets |-> [archive \in Datasets |->
                   Content(Archives[data], Archives[archive])]]
Loading     == {data \in Datasets : Loadable(Archives[data])}
Building    == {data \in Datasets : Buildable(Archives[data])}

BuiltOf(b)  == Corpora[built[b]][built[b]]
Chunks(b)   == BuiltOf(b).chunks
Parents(b)  == BuiltOf(b).parents
Current     == Corpora[served][expected]
Complete    == \E b \in Builds : \A f \in FileSet : disk[f] = b

Init ==
    /\ raw \in Loading
    /\ built = <<>> /\ stage = <<>>
    /\ disk = [f \in FileSet |-> None]
    /\ served = raw /\ expected = raw
    /\ loaded = NoIndex
    /\ step = "idle" /\ req \in Requests /\ attempt = 1
    /\ hits = <<>> /\ citations = {} /\ reply = Waiting
    /\ calm = FALSE

----------------------------------------------------------------------------
\* The archive and the build. A build that fails before it publishes leaves
\* the directory as it was.

ChangeData ==
    /\ raw' \in Datasets \ {raw}
    /\ UNCHANGED <<built, disk, stage, server, search, calm>>

Build ==
    /\ stage = <<>> /\ Len(built) < MaxBuilds
    /\ raw \in Building
    /\ built' = Append(built, raw)
    /\ stage' = Files
    /\ UNCHANGED <<raw, disk, server, search, calm>>

\* Mutant: the manifest is replaced first.
Publish_manifest_first ==
    /\ stage # <<>>
    /\ disk' = [disk EXCEPT ![Last(stage)] = Len(built)]
    /\ stage' = Front(stage)
    /\ calm' = FALSE
    /\ UNCHANGED <<raw, built, server, search>>

Publish ==
    /\ stage # <<>>
    /\ disk' = [disk EXCEPT ![Head(stage)] = Len(built)]
    /\ stage' = Tail(stage)
    /\ calm' = FALSE
    /\ UNCHANGED <<raw, built, server, search>>

CrashBuild ==
    /\ stage # <<>>
    /\ stage' = <<>>
    /\ UNCHANGED <<raw, built, disk, server, search, calm>>

----------------------------------------------------------------------------
\* The server starts with the archive of the moment and no index in memory.

Restart ==
    /\ raw \in Loading
    /\ served' = raw /\ expected' = raw
    /\ loaded' = NoIndex
    /\ step' = "idle" /\ attempt' = 1 /\ hits' = <<>> /\ citations' = {}
    /\ reply' = Waiting /\ calm' = FALSE
    /\ UNCHANGED <<builder, req>>

End(kind) ==
    /\ reply' = [Waiting EXCEPT !.kind = kind]
    /\ step' = "idle" /\ hits' = <<>> /\ citations' = {} /\ attempt' = 1
    /\ UNCHANGED req

\* A tool handler takes a request; the service is built on first use.
Ask ==
    /\ step = "idle"
    /\ req' \in Requests
    /\ reply' = Waiting
    /\ step' = IF loaded = NoIndex THEN "manifest" ELSE "rows"
    /\ expected' = IF loaded = NoIndex THEN raw ELSE expected
    /\ UNCHANGED <<builder, served, loaded, attempt, hits, citations, calm>>

ReadManifest ==
    /\ step = "manifest"
    /\ IF disk["manifest"] = None
       THEN End("unavailable") /\ UNCHANGED <<loaded, calm>>
       ELSE /\ loaded' = [loaded EXCEPT !.manifest = disk["manifest"]]
            /\ step' = "agree"
            /\ calm' = Complete
            /\ UNCHANGED <<req, attempt, hits, citations, reply>>
    /\ UNCHANGED <<builder, served, expected>>

\* Mutant: load_index is called without the digest of the served corpus.
Agree_undigested ==
    /\ \A f \in FileSet : disk[f] # None
    /\ BuiltOf(disk["corpus"]) = BuiltOf(loaded.manifest)

\* The two manifests must describe one corpus, the one this code makes now.
Agree ==
    /\ \A f \in FileSet : disk[f] # None
    /\ BuiltOf(disk["corpus"]) = BuiltOf(loaded.manifest)
    /\ BuiltOf(loaded.manifest) = Current

CheckManifests ==
    /\ step = "agree"
    /\ IF Agree THEN /\ step' = "vectors"
                     /\ UNCHANGED <<loaded, req, attempt, hits, citations, reply>>
                ELSE /\ loaded' = NoIndex
                     /\ End("unavailable")
    /\ UNCHANGED <<builder, served, expected, calm>>

ReadVectors ==
    /\ step = "vectors"
    /\ loaded' = [loaded EXCEPT !.vectors = disk["faiss"]]
    /\ step' = "counts"
    /\ UNCHANGED <<builder, served, expected, req, attempt, hits, citations, reply, calm>>

\* The files are held against the manifest by their counts alone.
Counted ==
    /\ Len(Chunks(loaded.vectors)) = Len(Chunks(loaded.manifest))
    /\ Len(Chunks(disk["store"])) = Len(Chunks(loaded.manifest))
    /\ Len(Parents(disk["store"])) = Len(Parents(loaded.manifest))

CheckCounts ==
    /\ step = "counts"
    /\ IF Counted THEN /\ step' = "rows"
                       /\ UNCHANGED <<loaded, req, attempt, hits, citations, reply>>
                  ELSE /\ loaded' = NoIndex
                       /\ End("unavailable")
    /\ UNCHANGED <<builder, served, expected, calm>>

----------------------------------------------------------------------------
\* One attempt. Each query of the store opens it anew: rows, records and
\* parents may come from different builds.

Cutoff == IF req.as_of = Undated THEN effective_cutoff(Archives[served], req.account)
          ELSE Earliest(effective_cutoff(Archives[served], req.account), req.as_of)

Knowledge == req.kind = "knowledge"

candidate_rows ==
    LET chunks == Chunks(disk["store"])
    IN  {r \in DOMAIN chunks :
            IF Knowledge
            THEN chunks[r].account = NoAccount /\ chunks[r].type = KNOWLEDGE_TYPE
            ELSE /\ chunks[r].account = req.account
                 /\ chunks[r].date <= Cutoff
                 /\ chunks[r].type \in req.allowed}

\* External, the embedding: 0 below MINIMUM_SCORE, 2 from MIN_GRADED_RELEVANCE.
Score(text) == Relevance[attempt][text]

\* Rows scored with the vectors in memory, best first. A row they do not have
\* makes faiss raise.
search_rows ==
    /\ step = "rows"
    /\ LET vectors == Chunks(loaded.vectors)
           Known   == candidate_rows \subseteq DOMAIN vectors
           scored  == [r \in candidate_rows |-> Score(vectors[r].text)]
           best    == SetToSortSeq({r \in candidate_rows : scored[r] >= 1},
                        LAMBDA q, r : \/ scored[q] > scored[r]
                                      \/ scored[q] = scored[r] /\ q < r)
           top     == SubSeq(best, 1, Earliest(Len(best), CANDIDATES_PER_LANE))
       IN  IF ~Known THEN End("error")
           ELSE /\ hits' = [i \in DOMAIN top |-> [row |-> top[i], score |-> scored[top[i]]]]
                /\ step' = "records"
                /\ UNCHANGED <<req, attempt, citations, reply>>
    /\ UNCHANGED <<builder, server, calm>>

Limit == IF Knowledge THEN MAX_KNOWLEDGE_CITATIONS ELSE MAX_ACCOUNT_CITATIONS

\* One passage per parent, its best; of those the best one and, up to the
\* limit, the ones reranking prefers (_maximal_marginal_relevance).
Usable(chunks) ==
    {i \in DOMAIN hits :
        /\ hits[i].row \in DOMAIN chunks
        /\ \A j \in 1..(i - 1) :
              hits[j].row \in DOMAIN chunks =>
                  chunks[hits[j].row].parent # chunks[hits[i].row].parent}

Reranked(usable) ==
    {chosen \in SUBSET usable :
        /\ Cardinality(chosen) = Earliest(Limit, Cardinality(usable))
        /\ chosen # {} => Min(usable) \in chosen}

_rank ==
    /\ step = "records"
    /\ LET chunks == Chunks(disk["store"])
       IN  \E chosen \in Reranked(Usable(chunks)) :
              LET order == SetToSortSeq(chosen, <)
              IN  hits' = [i \in DOMAIN order |->
                             [record |-> <<built[disk["store"]], hits[order[i]].row>>,
                              score  |-> hits[order[i]].score]]
    /\ step' = "parents"
    /\ UNCHANGED <<builder, server, req, attempt, citations, reply, calm>>

_validate(record) ==
    /\ record.account = req.account
    /\ record.date <= Cutoff
    /\ record.type \in req.allowed

\* MetadataStore.parent: what the store now holds under an id.
StoredParent(id) == {p \in ToSet(Parents(disk["store"])) : p.id = id}

\* Mutant: the parent is taken by its id, whatever its scope is now.
_parent_for_record_any(record) ==
    StoredParent(record.parent)

_parent_for_record(record) ==
    {p \in StoredParent(record.parent) :
        /\ p.type = record.type
        /\ p.account = record.account /\ p.date = record.date
        /\ p.account = req.account /\ p.date <= Cutoff}

\* search_knowledge asks less of a parent: that it is nobody's.
_knowledge_parent(record) ==
    {p \in StoredParent(record.parent) :
        /\ record.account = NoAccount /\ record.type = KNOWLEDGE_TYPE
        /\ record.date = Undated
        /\ p.account = NoAccount}

\* A passage is the row of a corpus it was read from, its context a parent.
Passage(at) == Corpora[at[1]][at[1]].chunks[at[2]]

_to_citation(hit, parent) ==
    [parent |-> parent.id, type |-> Passage(hit.record).type,
     account |-> Passage(hit.record).account, date |-> Passage(hit.record).date,
     score |-> hit.score, passage |-> hit.record,
     context |-> [type |-> parent.type, account |-> parent.account, date |-> parent.date]]

Cite ==
    /\ step = "parents" /\ hits # <<>>
    /\ LET record  == Passage(Head(hits).record)
           parents == IF Knowledge THEN _knowledge_parent(record)
                      ELSE IF _validate(record) THEN _parent_for_record(record)
                      ELSE {}
       IN  citations' = citations \cup {_to_citation(Head(hits), p) : p \in parents}
    /\ hits' = Tail(hits)
    /\ UNCHANGED <<builder, server, step, req, attempt, reply, calm>>

\* RetrievalResult rechecks every citation, and raises.
validate_boundary ==
    /\ Cutoff <= DATASET_AS_OF_DATE
    /\ \A c \in citations : /\ c.account = req.account
                            /\ c.date <= Cutoff
                            /\ c.type \in req.allowed

----------------------------------------------------------------------------
\* Grading and the one retry. Requirements are inferred from the question and
\* kept within the sources the caller allows.

Required == req.inferred \cap req.allowed

Relevant == {c \in citations : c.score >= 2}

Missing == {f \in Required : \A c \in Relevant : c.type # f}

DuplicateHeavy ==
    LET duplicates == Cardinality(Relevant) - Cardinality({c.parent : c \in Relevant})
    IN  Relevant # {} /\ duplicates >= Max({1, Cardinality(Relevant) \div 3})

Insufficient ==
    \/ Relevant = {}
    \/ req.corroborate /\ Cardinality({c.parent : c \in Relevant}) < 2
    \/ Missing # {}
    \/ DuplicateHeavy
    \/ req.recent /\ \A c \in Relevant : Cutoff - c.date > RECENT_AGE

Answer(kind, insufficient) ==
    /\ reply' = [kind |-> kind, citations |-> citations,
                 insufficient |-> insufficient,
                 missing |-> IF insufficient THEN Missing ELSE {}]
    /\ step' = "idle" /\ attempt' = 1 /\ citations' = {}

\* The rewritten query asks for what the first lacked; Relevance tells the two
\* apart by their number.
rewrite(query) == query + 1

\* The second attempt is a search for the rewritten query in the same scope.
Retrieve ==
    /\ step = "parents" /\ hits = <<>>
    /\ IF Knowledge THEN Answer("guidance", FALSE)
       ELSE IF ~validate_boundary
       THEN /\ reply' = [Waiting EXCEPT !.kind = "error"]
            /\ step' = "idle" /\ attempt' = 1 /\ citations' = {}
       ELSE IF Insufficient /\ attempt <= MAX_RETRIES
       THEN /\ attempt' = rewrite(attempt) /\ step' = "rows" /\ citations' = {}
            /\ UNCHANGED reply
       ELSE Answer("evidence", Insufficient)
    /\ UNCHANGED <<builder, server, req, hits, calm>>

Serve == \/ ReadManifest \/ CheckManifests \/ ReadVectors \/ CheckCounts
         \/ search_rows \/ _rank \/ Cite \/ Retrieve

Next == ChangeData \/ Build \/ Publish \/ CrashBuild \/ Restart \/ Ask \/ Serve

Spec == Init /\ [][Next]_vars

----------------------------------------------------------------------------
\* Properties.

\* The order of the replacements (index.py:249-252) keeps every file at least
\* as new as the manifest, through any number of crashed builds, and a server
\* that reads the manifest first never searches vectors older than it says.
NeverOlderThanAdvertised ==
    /\ disk["manifest"] <= disk["corpus"]
    /\ disk["corpus"] <= disk["store"]
    /\ disk["store"] <= disk["faiss"]
    /\ loaded.vectors # None => loaded.manifest <= loaded.vectors

\* Whatever was rebuilt while a search ran, the text an answer shows beside a
\* passage is of a document its caller may see: the right account, no later
\* than the cutoff, an allowed source (search.py:129-178).
CitationsInScope ==
    \A c \in reply.citations :
        IF Knowledge THEN c.context.account = NoAccount
        ELSE /\ c.context.account = req.account
             /\ c.context.date <= Cutoff /\ Cutoff <= DATASET_AS_OF_DATE
             /\ c.context.type \in req.allowed

\* An index loaded from a complete set, and not replaced since, holds exactly
\* the passages this code makes of the data it serves (index.py:303-340).
QuietIndexIsCurrent ==
    calm /\ step \notin {"manifest", "agree", "vectors", "counts"} /\ loaded # NoIndex =>
        /\ Chunks(loaded.vectors) = Current.chunks
        /\ Chunks(disk["store"]) = Current.chunks
=============================================================================
