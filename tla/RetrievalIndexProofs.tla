------------------------ MODULE RetrievalIndexProofs ------------------------
(***************************************************************************)
(* Theorems about the retrieval index for any archives, requests, scores   *)
(* and number of builds.                                                   *)
(***************************************************************************)
EXTENDS RetrievalIndex, TLAPS

\* What a build has still to replace: a suffix of Files.
Stages == {<<>>, <<"manifest">>, <<"corpus", "manifest">>,
           <<"store", "corpus", "manifest">>, Files}

DiskType == /\ built \in Seq(Datasets)
            /\ disk \in [FileSet -> Nat]
            /\ \A f \in FileSet : disk[f] <= Len(built)
            /\ stage \in Stages

\* The files are replaced in order, so those already replaced are the newest.
Ordered == /\ disk["manifest"] <= disk["corpus"]
           /\ disk["corpus"] <= disk["store"]
           /\ disk["store"] <= disk["faiss"]
           /\ stage # <<>> /\ stage # Files => disk["faiss"] = Len(built)
           /\ stage \in {<<"manifest">>, <<"corpus", "manifest">>} =>
                 disk["store"] = Len(built)
           /\ stage = <<"manifest">> => disk["corpus"] = Len(built)

\* The manifest is read first, and only by a server that has nothing loaded.
LoadedOrder == /\ loaded \in [manifest : Nat, vectors : Nat]
               /\ loaded.manifest <= disk["manifest"]
               /\ loaded.vectors # None => loaded.manifest <= loaded.vectors
               /\ step = "manifest" => loaded = NoIndex

DiskInv == DiskType /\ Ordered /\ LoadedOrder

LEMMA Appended ==
    ASSUME NEW S, NEW s \in Seq(S), NEW e \in S
    PROVE  /\ Append(s, e) \in Seq(S)
           /\ Len(Append(s, e)) = Len(s) + 1
           /\ \A i \in 1..Len(s) : Append(s, e)[i] = s[i]
  OBVIOUS

\* One replacement: the first file of a stage, and the rest of it.
LEMMA Replaced ==
    ASSUME NEW s \in Stages, s # <<>>
    PROVE  \/ s = <<"manifest">> /\ Head(s) = "manifest" /\ Tail(s) = <<>>
           \/ s = <<"corpus", "manifest">> /\ Head(s) = "corpus" /\ Tail(s) = <<"manifest">>
           \/ s = <<"store", "corpus", "manifest">>
              /\ Head(s) = "store" /\ Tail(s) = <<"corpus", "manifest">>
           \/ s = Files /\ Head(s) = "faiss"
              /\ Tail(s) = <<"store", "corpus", "manifest">>
  <1>1. Head(<<"manifest">>) = "manifest" /\ Tail(<<"manifest">>) = <<>>
    OBVIOUS
  <1>2. /\ Head(<<"corpus", "manifest">>) = "corpus"
        /\ Tail(<<"corpus", "manifest">>) = <<"manifest">>
    OBVIOUS
  <1>3. /\ Head(<<"store", "corpus", "manifest">>) = "store"
        /\ Tail(<<"store", "corpus", "manifest">>) = <<"corpus", "manifest">>
    OBVIOUS
  <1>4. Head(Files) = "faiss" /\ Tail(Files) = <<"store", "corpus", "manifest">>
    BY DEF Files
  <1> QED
    BY <1>1, <1>2, <1>3, <1>4, Zenon DEF Stages

LEMMA StagesDiffer ==
    /\ Files # <<>> /\ Files # <<"manifest">> /\ Files # <<"corpus", "manifest">>
    /\ Files # <<"store", "corpus", "manifest">>
    /\ <<"manifest">> # <<>> /\ <<"manifest">> # <<"corpus", "manifest">>
    /\ <<"manifest">> # <<"store", "corpus", "manifest">>
    /\ <<"corpus", "manifest">> # <<>>
    /\ <<"corpus", "manifest">> # <<"store", "corpus", "manifest">>
    /\ <<"store", "corpus", "manifest">> # <<>>
  BY DEF Files

LEMMA InitDisk == Init => DiskInv
  <1> SUFFICES ASSUME Init PROVE DiskInv
    OBVIOUS
  <1>1. DiskType
    BY DEF Init, DiskType, Stages, FileSet, None
  <1>2. Ordered
    BY StagesDiffer DEF Init, Ordered, FileSet, None
  <1>3. LoadedOrder
    BY DEF Init, LoadedOrder, NoIndex, None, FileSet
  <1> QED
    BY <1>1, <1>2, <1>3 DEF DiskInv

LEMMA BuildStep == DiskInv /\ Build => DiskInv'
  <1> SUFFICES ASSUME DiskInv, Build PROVE DiskInv'
    OBVIOUS
  <1>1. raw \in Datasets /\ built' = Append(built, raw) /\ stage' = Files
        /\ UNCHANGED <<disk, loaded, step>>
    BY DEF Build, Building, server, search
  <1>2. built' \in Seq(Datasets) /\ Len(built') = Len(built) + 1
    BY <1>1, Appended DEF DiskInv, DiskType
  <1>3. DiskType'
    BY <1>1, <1>2 DEF DiskInv, DiskType, Stages
  <1>4. Ordered'
    BY <1>1, StagesDiffer DEF DiskInv, Ordered
  <1>5. LoadedOrder'
    BY <1>1 DEF DiskInv, LoadedOrder
  <1> QED
    BY <1>3, <1>4, <1>5 DEF DiskInv

LEMMA PublishStep == DiskInv /\ Publish => DiskInv'
  <1> SUFFICES ASSUME DiskInv, Publish PROVE DiskInv'
    OBVIOUS
  <1>1. /\ stage # <<>> /\ stage \in Stages
        /\ disk' = [disk EXCEPT ![Head(stage)] = Len(built)]
        /\ stage' = Tail(stage)
        /\ UNCHANGED <<built, loaded, step>>
    BY DEF Publish, server, search, DiskInv, DiskType
  <1>2. Len(built) \in Nat
    BY DEF DiskInv, DiskType
  <1>3. Head(stage) \in FileSet /\ stage' \in Stages
    BY <1>1, Replaced DEF FileSet, Stages
  <1>4. DiskType'
    BY <1>1, <1>2, <1>3 DEF DiskInv, DiskType
  <1>5. /\ \A f \in FileSet : disk'[f] = IF f = Head(stage) THEN Len(built) ELSE disk[f]
        /\ \A f \in FileSet : disk[f] \in Nat /\ disk[f] <= Len(built)
    BY <1>1, <1>3 DEF DiskInv, DiskType
  <1>6. Ordered'
    <2>1. ASSUME stage = <<"manifest">>, Head(stage) = "manifest", Tail(stage) = <<>>
          PROVE  Ordered'
      BY <2>1, <1>1, <1>5, StagesDiffer DEF DiskInv, Ordered, FileSet
    <2>2. ASSUME stage = <<"corpus", "manifest">>, Head(stage) = "corpus",
                 Tail(stage) = <<"manifest">>
          PROVE  Ordered'
      BY <2>2, <1>1, <1>5, StagesDiffer DEF DiskInv, Ordered, FileSet
    <2>3. ASSUME stage = <<"store", "corpus", "manifest">>, Head(stage) = "store",
                 Tail(stage) = <<"corpus", "manifest">>
          PROVE  Ordered'
      BY <2>3, <1>1, <1>5, StagesDiffer DEF DiskInv, Ordered, FileSet
    <2>4. ASSUME stage = Files, Head(stage) = "faiss",
                 Tail(stage) = <<"store", "corpus", "manifest">>
          PROVE  Ordered'
      BY <2>4, <1>1, <1>5, StagesDiffer DEF DiskInv, Ordered, FileSet
    <2> QED
      BY <1>1, Replaced, <2>1, <2>2, <2>3, <2>4
  <1>7. LoadedOrder'
    BY <1>1, <1>2, <1>5 DEF DiskInv, LoadedOrder, FileSet
  <1> QED
    BY <1>4, <1>6, <1>7 DEF DiskInv

\* Steps that leave the files and the builds alone.
LEMMA DiskKept ==
    ASSUME DiskInv, UNCHANGED <<built, disk, stage>>, LoadedOrder'
    PROVE  DiskInv'
  BY DEF DiskInv, DiskType, Ordered

LEMMA ServerStep ==
    ASSUME DiskInv, UNCHANGED <<built, disk, stage>>,
           \/ Restart \/ Ask \/ Serve \/ UNCHANGED <<loaded, step>>
    PROVE  DiskInv'
  <1> USE DEF DiskInv
  <1>1. UNCHANGED <<loaded, step>> => LoadedOrder'
    BY DEF LoadedOrder
  <1>2. Restart => LoadedOrder'
    BY DEF Restart, LoadedOrder, NoIndex, None, FileSet, DiskType
  <1>3. Ask => LoadedOrder'
    BY DEF Ask, LoadedOrder
  <1>4. ReadManifest => LoadedOrder'
    <2> SUFFICES ASSUME ReadManifest PROVE LoadedOrder'
      OBVIOUS
    <2>1. loaded = NoIndex /\ step = "manifest"
      BY DEF ReadManifest, LoadedOrder
    <2>2. CASE disk["manifest"] = None
      BY <2>1, <2>2 DEF ReadManifest, LoadedOrder, End
    <2>3. CASE disk["manifest"] # None
      <3>1. loaded' = [manifest |-> disk["manifest"], vectors |-> None] /\ step' = "agree"
        BY <2>1, <2>3 DEF ReadManifest, NoIndex
      <3> QED
        BY <3>1 DEF LoadedOrder, DiskType, FileSet, None
    <2> QED
      BY <2>2, <2>3
  <1>5. CheckManifests => LoadedOrder'
    BY DEF CheckManifests, LoadedOrder, End, NoIndex, None, DiskType, FileSet
  <1>6. ReadVectors => LoadedOrder'
    <2> SUFFICES ASSUME ReadVectors PROVE LoadedOrder'
      OBVIOUS
    <2>1. loaded' = [loaded EXCEPT !.vectors = disk["faiss"]] /\ step' = "counts"
      BY DEF ReadVectors
    <2>2. /\ disk["faiss"] \in Nat /\ disk["manifest"] \in Nat /\ disk["corpus"] \in Nat
          /\ disk["store"] \in Nat
      BY DEF DiskType, FileSet
    <2>3. loaded.manifest <= disk["faiss"]
      BY <2>2 DEF LoadedOrder, Ordered
    <2> QED
      BY <2>1, <2>2, <2>3 DEF LoadedOrder
  <1>7. CheckCounts => LoadedOrder'
    BY DEF CheckCounts, LoadedOrder, End, NoIndex, None, DiskType, FileSet
  <1>8. search_rows \/ _rank \/ Cite \/ Retrieve => UNCHANGED loaded /\ step' # "manifest"
    <2>1. search_rows => UNCHANGED loaded /\ step' # "manifest"
      BY DEF search_rows, server, End
    <2>2. _rank => UNCHANGED loaded /\ step' # "manifest"
      BY DEF _rank, server
    <2>3. Cite => UNCHANGED loaded /\ step' # "manifest"
      BY DEF Cite, server
    <2>4. Retrieve => UNCHANGED loaded /\ step' # "manifest"
      BY DEF Retrieve, Answer, server
    <2> QED
      BY <2>1, <2>2, <2>3, <2>4
  <1>9. search_rows \/ _rank \/ Cite \/ Retrieve => LoadedOrder'
    BY <1>8 DEF LoadedOrder
  <1>10. LoadedOrder'
    BY <1>1, <1>2, <1>3, <1>4, <1>5, <1>6, <1>7, <1>9 DEF Serve
  <1> QED
    BY <1>10, DiskKept

LEMMA DiskStep == DiskInv /\ [Next]_vars => DiskInv'
  <1> SUFFICES ASSUME DiskInv, [Next]_vars PROVE DiskInv'
    OBVIOUS
  <1>1. ChangeData => UNCHANGED <<built, disk, stage, loaded, step>>
    BY DEF ChangeData, server, search
  <1>2. CrashBuild => DiskInv'
    <2> SUFFICES ASSUME CrashBuild PROVE DiskInv'
      OBVIOUS
    <2>1. stage' = <<>> /\ UNCHANGED <<built, disk, loaded, step>>
      BY DEF CrashBuild, server, search
    <2> QED
      BY <2>1, StagesDiffer DEF DiskInv, DiskType, Ordered, LoadedOrder, Stages
  <1>3. Restart \/ Ask => UNCHANGED <<built, disk, stage>>
    BY DEF Restart, Ask, builder
  <1>4. Serve => UNCHANGED <<built, disk, stage>>
    BY DEF Serve, ReadManifest, CheckManifests, ReadVectors, CheckCounts,
           search_rows, _rank, Cite, Retrieve, builder
  <1>5. UNCHANGED vars => UNCHANGED <<built, disk, stage, loaded, step>>
    BY DEF vars, builder, server, search
  <1> QED
    BY <1>1, <1>2, <1>3, <1>4, <1>5, BuildStep, PublishStep, ServerStep DEF Next

\* Through any number of builds and crashes, no file is older than the manifest
\* says, and no loaded index searches vectors older than its manifest.
THEOREM Advertised == Spec => []NeverOlderThanAdvertised
  <1>1. DiskInv => NeverOlderThanAdvertised
    BY DEF DiskInv, Ordered, LoadedOrder, NeverOlderThanAdvertised
  <1> QED
    BY InitDisk, DiskStep, <1>1, PTL DEF Spec

----------------------------------------------------------------------------
\* What an answer may show.

InScope(c) == IF Knowledge THEN c.context.account = NoAccount
              ELSE /\ c.context.account = req.account
                   /\ c.context.date <= Cutoff
                   /\ c.context.type \in req.allowed

\* A context is in scope when its citation is made; the scope cannot change
\* while there are citations, for the request and the served data stay.
ScopeInv == /\ \A c \in citations : InScope(c)
            /\ step # "parents" => citations = {}
            /\ CitationsInScope

LEMMA InitScope == Init => ScopeInv
  BY DEF Init, ScopeInv, CitationsInScope, Waiting

\* The scope is the request's and the served data's.
LEMMA SameScope ==
    ASSUME UNCHANGED <<req, served>>
    PROVE  /\ Cutoff' = Cutoff /\ (Knowledge <=> Knowledge')
           /\ \A c : InScope(c) => InScope(c)'
  BY DEF Cutoff, Knowledge, InScope

\* A step that changes neither the request nor what was found for it.
LEMMA ScopeKept ==
    ASSUME ScopeInv, UNCHANGED <<req, served, citations, reply>>,
           step' # "parents" => citations' = {}
    PROVE  ScopeInv'
  BY SameScope DEF ScopeInv, CitationsInScope

\* A step that shows nothing and holds nothing.
LEMMA NothingShown ==
    ASSUME citations' = {}, reply'.citations = {}
    PROVE  ScopeInv'
  BY DEF ScopeInv, CitationsInScope

LEMMA EndShowsNothing == \A kind : End(kind) => citations' = {} /\ reply'.citations = {}
  BY DEF End, Waiting

LEMMA AskScope == ScopeInv /\ (Restart \/ Ask) => ScopeInv'
  <1>1. ScopeInv /\ Restart => citations' = {} /\ reply'.citations = {}
    BY DEF Restart, Waiting
  <1>2. ScopeInv /\ Ask => citations' = {} /\ reply'.citations = {}
    BY DEF Ask, Waiting, ScopeInv
  <1> QED
    BY <1>1, <1>2, NothingShown

LEMMA LoadScope ==
    ASSUME ScopeInv, ReadManifest \/ CheckManifests \/ ReadVectors \/ CheckCounts
                        \/ search_rows \/ _rank
    PROVE  ScopeInv'
  <1>1. step # "parents" /\ citations = {}
    BY DEF ScopeInv, ReadManifest, CheckManifests, ReadVectors, CheckCounts,
           search_rows, _rank
  <1>2. ReadManifest => \/ End("unavailable") \/ UNCHANGED <<req, served, citations, reply>>
    BY DEF ReadManifest
  <1>3. CheckManifests => \/ End("unavailable") \/ UNCHANGED <<req, served, citations, reply>>
    BY DEF CheckManifests
  <1>4. ReadVectors => UNCHANGED <<req, served, citations, reply>>
    BY DEF ReadVectors
  <1>5. CheckCounts => \/ End("unavailable") \/ UNCHANGED <<req, served, citations, reply>>
    BY DEF CheckCounts
  <1>6. search_rows => \/ End("error") \/ UNCHANGED <<req, served, citations, reply>>
    BY DEF search_rows, server
  <1>7. _rank => UNCHANGED <<req, served, citations, reply>>
    BY DEF _rank, server
  <1>8. ASSUME NEW kind, End(kind) PROVE ScopeInv'
    BY <1>8, EndShowsNothing, NothingShown
  <1>9. UNCHANGED <<req, served, citations, reply>> => ScopeInv'
    BY <1>1, ScopeKept
  <1> QED
    BY <1>2, <1>3, <1>4, <1>5, <1>6, <1>7, <1>8, <1>9

LEMMA CiteScope == ScopeInv /\ Cite => ScopeInv'
  <1> SUFFICES ASSUME ScopeInv, Cite PROVE ScopeInv'
    OBVIOUS
  <1> DEFINE record  == Passage(Head(hits).record)
             parents == IF Knowledge THEN _knowledge_parent(record)
                        ELSE IF _validate(record) THEN _parent_for_record(record)
                        ELSE {}
  <1>1. /\ citations' = citations \cup {_to_citation(Head(hits), p) : p \in parents}
        /\ step = "parents" /\ UNCHANGED <<req, served, step, reply>>
    BY DEF Cite, server
  <1>2. ASSUME NEW p \in parents PROVE InScope(_to_citation(Head(hits), p))
    <2>1. _to_citation(Head(hits), p).context
             = [type |-> p.type, account |-> p.account, date |-> p.date]
      BY DEF _to_citation
    <2>2. CASE Knowledge
      <3>1. p \in _knowledge_parent(record)
        BY <1>2, <2>2
      <3>2. p.account = NoAccount
        BY <3>1 DEF _knowledge_parent
      <3> QED
        BY <2>1, <2>2, <3>2 DEF InScope
    <2>3. CASE ~Knowledge
      <3>1. _validate(record) /\ p \in _parent_for_record(record)
        BY <1>2, <2>3
      <3>2. /\ record.type \in req.allowed
            /\ p.type = record.type /\ p.account = req.account /\ p.date <= Cutoff
        BY <3>1 DEF _validate, _parent_for_record
      <3> HIDE DEF record
      <3> QED
        BY <2>1, <2>3, <3>2 DEF InScope
    <2> QED
      BY <2>2, <2>3
  <1> HIDE DEF record, parents
  <1>3. \A c \in citations' : InScope(c)
    BY <1>1, <1>2 DEF ScopeInv
  <1> QED
    BY <1>1, <1>3, SameScope DEF ScopeInv, CitationsInScope

LEMMA RetrieveScope == ScopeInv /\ Retrieve => ScopeInv'
  <1> SUFFICES ASSUME ScopeInv, Retrieve PROVE ScopeInv'
    OBVIOUS
  <1>1. UNCHANGED <<req, served>> /\ citations' = {}
    BY DEF Retrieve, Answer, server
  <1>2. \/ reply'.citations = {}
        \/ reply'.citations = citations /\ (Knowledge \/ validate_boundary)
        \/ UNCHANGED reply
    BY DEF Retrieve, Answer, Waiting
  <1>3. CASE reply'.citations = {}
    BY <1>1, <1>3, NothingShown
  <1>4. CASE reply'.citations = citations /\ (Knowledge \/ validate_boundary)
    <2>1. CitationsInScope'
      BY <1>1, <1>4, SameScope
         DEF ScopeInv, CitationsInScope, InScope, validate_boundary
    <2> QED
      BY <1>1, <2>1 DEF ScopeInv
  <1>5. CASE UNCHANGED reply
    BY <1>1, <1>5, SameScope DEF ScopeInv, CitationsInScope
  <1> QED
    BY <1>2, <1>3, <1>4, <1>5

LEMMA ScopeStep == ScopeInv /\ [Next]_vars => ScopeInv'
  <1> SUFFICES ASSUME ScopeInv, [Next]_vars PROVE ScopeInv'
    OBVIOUS
  <1>1. ChangeData \/ Build \/ Publish \/ CrashBuild \/ UNCHANGED vars
           => UNCHANGED <<req, served, citations, reply, step>>
    BY DEF ChangeData, Build, Publish, CrashBuild, vars, server, search
  <1>2. UNCHANGED <<req, served, citations, reply, step>> => ScopeInv'
    BY ScopeKept DEF ScopeInv
  <1> QED
    BY <1>1, <1>2, AskScope, LoadScope, CiteScope, RetrieveScope DEF Next, Serve

\* Whatever is rebuilt under a search, an answer shows beside its passages only
\* documents of the account, the time and the sources that were asked for.
THEOREM ScopeSafety == Spec => []CitationsInScope
  <1>1. ScopeInv => CitationsInScope
    BY DEF ScopeInv
  <1> QED
    BY InitScope, ScopeStep, <1>1, PTL DEF Spec

----------------------------------------------------------------------------
\* What a loaded index holds.

Calm == disk["manifest"] \in 1..Len(built) /\ \A f \in FileSet : disk[f] = disk["manifest"]

\* Between the reading of the manifest and the next replacement of a file, the
\* files, the manifest in memory and the vectors are of one build; past the
\* comparison of the manifests, that build is of the served corpus.
QuietInv ==
    /\ step \in {"agree", "vectors"} => loaded # NoIndex
    /\ calm => Calm
    /\ calm /\ loaded # NoIndex => loaded.manifest = disk["manifest"]
    /\ calm /\ loaded # NoIndex /\ step \notin {"manifest", "agree"} =>
          BuiltOf(loaded.manifest) = Current
    /\ calm /\ loaded # NoIndex /\ step \notin {"manifest", "agree", "vectors"} =>
          loaded.vectors = disk["faiss"]

LEMMA InitQuiet == Init => QuietInv
  BY DEF Init, QuietInv

LEMMA ExpectationKept ==
    ASSUME UNCHANGED <<served, expected>>
    PROVE  Current' = Current
  BY DEF Current

\* A server step that leaves the loaded index where it was.
LEMMA QuietKept ==
    ASSUME QuietInv, UNCHANGED <<built, disk, loaded, calm, served, expected>>,
           step \notin {"manifest", "agree", "vectors"},
           step' \notin {"manifest", "agree", "vectors"}
    PROVE  QuietInv'
  BY ExpectationKept DEF QuietInv, Calm, BuiltOf

LEMMA Unloaded ==
    ASSUME QuietInv, UNCHANGED <<built, disk, calm>>, loaded' = NoIndex,
           step' \notin {"agree", "vectors"}
    PROVE  QuietInv'
  BY DEF QuietInv, Calm

LEMMA BuildQuiet == DiskInv /\ QuietInv /\ Build => QuietInv'
  <1> SUFFICES ASSUME DiskInv, QuietInv, Build PROVE QuietInv'
    OBVIOUS
  <1>1. /\ raw \in Datasets /\ built' = Append(built, raw)
        /\ UNCHANGED <<disk, loaded, step, served, expected, calm>>
    BY DEF Build, Building, server, search
  <1>2. /\ Len(built') = Len(built) + 1 /\ Len(built) \in Nat
        /\ \A i \in 1..Len(built) : built'[i] = built[i]
    BY <1>1, Appended DEF DiskInv, DiskType
  <1>3. disk["manifest"] \in 1..Len(built) =>
           disk["manifest"] \in 1..Len(built') /\ BuiltOf(disk["manifest"])' = BuiltOf(disk["manifest"])
    BY <1>1, <1>2 DEF BuiltOf
  <1>4. calm => Calm /\ Calm'
    BY <1>1, <1>3 DEF QuietInv, Calm
  <1>5. calm /\ loaded # NoIndex => BuiltOf(loaded.manifest)' = BuiltOf(loaded.manifest)
    BY <1>1, <1>3, <1>4 DEF QuietInv, Calm
  <1> QED
    BY <1>1, <1>4, <1>5, ExpectationKept DEF QuietInv

LEMMA ReadManifestQuiet == DiskInv /\ QuietInv /\ ReadManifest => QuietInv'
  <1> SUFFICES ASSUME DiskInv, QuietInv, ReadManifest PROVE QuietInv'
    OBVIOUS
  <1>1. loaded = NoIndex /\ UNCHANGED <<built, disk, served, expected>>
    BY DEF ReadManifest, DiskInv, LoadedOrder, builder
  <1>2. CASE disk["manifest"] = None
    <2>1. UNCHANGED <<loaded, calm>> /\ step' = "idle"
      BY <1>2 DEF ReadManifest, End
    <2> QED
      BY <1>1, <2>1, Unloaded
  <1>3. CASE disk["manifest"] # None
    <2>1. /\ loaded' = [manifest |-> disk["manifest"], vectors |-> None]
          /\ step' = "agree" /\ calm' = Complete
      BY <1>1, <1>3 DEF ReadManifest, NoIndex
    <2>2. loaded' # NoIndex /\ loaded'.manifest = disk["manifest"]
      BY <1>3, <2>1 DEF NoIndex
    <2>3. Complete => Calm
      BY BuildsAssumption DEF Complete, Calm, Builds, FileSet, DiskInv, DiskType
    <2>4. Calm => Calm'
      BY <1>1 DEF Calm
    <2> QED
      BY <1>1, <2>1, <2>2, <2>3, <2>4 DEF QuietInv
  <1> QED
    BY <1>2, <1>3

LEMMA CheckQuiet == DiskInv /\ QuietInv /\ (CheckManifests \/ CheckCounts) => QuietInv'
  <1> SUFFICES ASSUME DiskInv, QuietInv PROVE CheckManifests \/ CheckCounts => QuietInv'
    OBVIOUS
  <1>1. ASSUME CheckManifests PROVE QuietInv'
    <2>1. step = "agree" /\ UNCHANGED <<built, disk, served, expected, calm>>
      BY <1>1 DEF CheckManifests, builder
    <2>2. CASE Agree
      <3>1. step' = "vectors" /\ UNCHANGED loaded
        BY <1>1, <2>2 DEF CheckManifests
      <3>2. BuiltOf(loaded.manifest) = Current
        BY <2>2 DEF Agree
      <3>3. BuiltOf(loaded.manifest)' = Current'
        BY <2>1, <3>1, <3>2, ExpectationKept DEF BuiltOf
      <3> QED
        BY <2>1, <3>1, <3>3 DEF QuietInv, Calm
    <2>3. CASE ~Agree
      BY <1>1, <2>1, <2>3, Unloaded DEF CheckManifests, End
    <2> QED
      BY <2>2, <2>3
  <1>2. ASSUME CheckCounts PROVE QuietInv'
    <2>1. step = "counts" /\ UNCHANGED <<built, disk, served, expected, calm>>
      BY <1>2 DEF CheckCounts, builder
    <2>2. CASE Counted
      BY <1>2, <2>1, <2>2, QuietKept DEF CheckCounts
    <2>3. CASE ~Counted
      BY <1>2, <2>1, <2>3, Unloaded DEF CheckCounts, End
    <2> QED
      BY <2>2, <2>3
  <1> QED
    BY <1>1, <1>2

LEMMA ReadVectorsQuiet == DiskInv /\ QuietInv /\ ReadVectors => QuietInv'
  <1> SUFFICES ASSUME DiskInv, QuietInv, ReadVectors PROVE QuietInv'
    OBVIOUS
  <1>1. /\ step = "vectors" /\ step' = "counts"
        /\ loaded' = [loaded EXCEPT !.vectors = disk["faiss"]]
        /\ UNCHANGED <<built, disk, served, expected, calm>>
    BY DEF ReadVectors, builder
  <1>2. loaded \in [manifest : Nat, vectors : Nat]
    BY DEF DiskInv, LoadedOrder
  <1>3. loaded'.manifest = loaded.manifest /\ loaded'.vectors = disk["faiss"]
    BY <1>1, <1>2
  <1>4. BuiltOf(loaded.manifest)' = BuiltOf(loaded.manifest)
    BY <1>1, <1>3 DEF BuiltOf
  <1> QED
    BY <1>1, <1>3, <1>4, ExpectationKept DEF QuietInv, Calm

LEMMA SearchQuiet ==
    ASSUME DiskInv, QuietInv, search_rows \/ _rank \/ Cite \/ Retrieve
    PROVE  QuietInv'
  <1>1. search_rows => /\ step = "rows" /\ step' \in {"idle", "records"}
                       /\ UNCHANGED <<built, disk, loaded, calm, served, expected>>
    BY DEF search_rows, server, builder, End
  <1>2. _rank => /\ step = "records" /\ step' = "parents"
                 /\ UNCHANGED <<built, disk, loaded, calm, served, expected>>
    BY DEF _rank, server, builder
  <1>3. Cite => /\ step = "parents" /\ step' = "parents"
                /\ UNCHANGED <<built, disk, loaded, calm, served, expected>>
    BY DEF Cite, server, builder
  <1>4. Retrieve => /\ step = "parents" /\ step' \in {"idle", "rows"}
                    /\ UNCHANGED <<built, disk, loaded, calm, served, expected>>
    BY DEF Retrieve, Answer, server, builder
  <1> QED
    BY <1>1, <1>2, <1>3, <1>4, QuietKept

LEMMA QuietStep == DiskInv /\ QuietInv /\ [Next]_vars => QuietInv'
  <1> SUFFICES ASSUME DiskInv, QuietInv, [Next]_vars PROVE QuietInv'
    OBVIOUS
  <1>1. ChangeData \/ CrashBuild \/ UNCHANGED vars
           => UNCHANGED <<built, disk, loaded, calm, served, expected, step>>
    BY DEF ChangeData, CrashBuild, vars, builder, server, search
  <1>2. UNCHANGED <<built, disk, loaded, calm, served, expected, step>> => QuietInv'
    BY ExpectationKept DEF QuietInv, Calm, BuiltOf
  <1>3. Publish => QuietInv'
    BY DEF Publish, QuietInv, server, search
  <1>4. Restart => QuietInv'
    BY DEF Restart, QuietInv
  <1>5. Ask => QuietInv'
    <2> SUFFICES ASSUME Ask PROVE QuietInv'
      OBVIOUS
    <2>1. step = "idle" /\ UNCHANGED <<built, disk, loaded, calm, served>>
      BY DEF Ask, builder
    <2>2. CASE loaded = NoIndex
      BY <2>1, <2>2, Unloaded DEF Ask
    <2>3. CASE loaded # NoIndex
      BY <2>1, <2>3, QuietKept DEF Ask
    <2> QED
      BY <2>2, <2>3
  <1> QED
    BY <1>1, <1>2, <1>3, <1>4, <1>5, BuildQuiet, ReadManifestQuiet, CheckQuiet,
       ReadVectorsQuiet, SearchQuiet DEF Next, Serve

\* An index loaded from a complete set of files, none of them replaced since,
\* holds the passages made of the data it serves, for any archives.
THEOREM QuietSafety == Spec => []QuietIndexIsCurrent
  <1>1. DiskInv /\ QuietInv => QuietIndexIsCurrent
    <2> SUFFICES ASSUME QuietInv, calm, loaded # NoIndex,
                        step \notin {"manifest", "agree", "vectors", "counts"}
                 PROVE  /\ Chunks(loaded.vectors) = Current.chunks
                        /\ Chunks(disk["store"]) = Current.chunks
      BY DEF QuietIndexIsCurrent
    <2>1. loaded.vectors = loaded.manifest /\ disk["store"] = loaded.manifest
      BY DEF QuietInv, Calm, FileSet
    <2>2. BuiltOf(loaded.manifest) = Current
      BY DEF QuietInv
    <2> QED
      BY <2>1, <2>2 DEF Chunks
  <1> QED
    BY InitDisk, InitQuiet, DiskStep, QuietStep, <1>1, PTL DEF Spec
=============================================================================
