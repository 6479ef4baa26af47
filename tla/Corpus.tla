------------------------------- MODULE Corpus -------------------------------
(***************************************************************************)
(* What an index is built from: the validated dataset, the documents made  *)
(* of it for one cutoff per account (data/repository.py,                   *)
(* retrieval/documents.py) and the child chunks they are split into        *)
(* (retrieval/chunking.py).                                                *)
(*                                                                         *)
(* A dataset is [accounts, forecast, facts, knowledge]: accounts in order, *)
(* the forecast date of each, the dated rows [id, type, account, date,     *)
(* leaks, passages], and the articles. How a text is cut into passages is  *)
(* left out: a document comes with the passages it is cut into.            *)
(***************************************************************************)
EXTENDS Integers, Sequences, FiniteSets, SequencesExt

CONSTANTS
    DATASET_AS_OF_DATE,  \* the horizon no record may pass
    NoAccount            \* account_id of an article

ACCOUNT_SOURCE_FAMILIES == <<"csm_note", "support_ticket", "external_event">>
KNOWLEDGE_TYPE == "knowledge_base"

Earliest(a, b) == IF a < b THEN a ELSE b

----------------------------------------------------------------------------
\* data/: a table is taken or refused as a whole, for a malformed value or for
\* a row of an unknown account; rows past the cutoff are never seen.

Loadable(data) == \A i \in DOMAIN data.facts :
                      data.facts[i].account \in ToSet(data.accounts)

effective_cutoff(data, account) == Earliest(data.forecast[account], DATASET_AS_OF_DATE)

_account_facts(data, type, account) ==
    SelectSeq(data.facts, LAMBDA f : /\ f.type = type /\ f.account = account
                                     /\ f.date <= effective_cutoff(data, account))

----------------------------------------------------------------------------
\* documents.py: notes, tickets and events of each account in turn, then the
\* articles, which the sanitizer rids of the forbidden field names.

_account_documents(data, account) ==
    FlattenSeq([i \in DOMAIN ACCOUNT_SOURCE_FAMILIES |->
                  _account_facts(data, ACCOUNT_SOURCE_FAMILIES[i], account)])

sanitize_knowledge_text(article) == [article EXCEPT !.leaks = FALSE]

load_knowledge_base(data) ==
    [i \in DOMAIN data.knowledge |->
       [sanitize_knowledge_text(data.knowledge[i]) EXCEPT !.type = KNOWLEDGE_TYPE]]

\* The rows are a repository's, the articles are read from the archive now.
Documents(data, archive) ==
    FlattenSeq([i \in DOMAIN data.accounts |-> _account_documents(data, data.accounts[i])])
        \o load_knowledge_base(archive)

build_parent_documents(data, archive) ==
    [ok   |-> /\ \A i \in DOMAIN archive.knowledge :
                    archive.knowledge[i].account = NoAccount
              /\ \A i \in DOMAIN Documents(data, archive) :
                    ~Documents(data, archive)[i].leaks,
     docs |-> Documents(data, archive)]

----------------------------------------------------------------------------
\* chunking.py: every passage of a document inherits its scope.

chunk_parent(doc) ==
    [i \in DOMAIN doc.passages |->
       [parent |-> doc.id, type |-> doc.type, account |-> doc.account,
        date |-> doc.date, text |-> doc.passages[i]]]

chunk_documents(docs) == FlattenSeq([i \in DOMAIN docs |-> chunk_parent(docs[i])])

----------------------------------------------------------------------------
\* index.py

_validate_corpus(docs, chunks) ==
    /\ docs # <<>> /\ chunks # <<>>
    /\ \A i, j \in DOMAIN docs : docs[i].id = docs[j].id => i = j
    /\ \A i \in DOMAIN docs : ~docs[i].leaks
    /\ \A i \in DOMAIN chunks : \E j \in DOMAIN docs :
          /\ chunks[i].parent = docs[j].id
          /\ chunks[i].type = docs[j].type
          /\ chunks[i].account = docs[j].account
          /\ chunks[i].date = docs[j].date

\* What corpus_digest hashes: every parent and every chunk, in order.
Content(data, archive) ==
    LET docs == build_parent_documents(data, archive).docs
    IN  [parents |-> docs, chunks |-> chunk_documents(docs)]

\* A build of this dataset reaches the point where it publishes.
Buildable(data) ==
    /\ Loadable(data)
    /\ build_parent_documents(data, data).ok
    /\ _validate_corpus(Content(data, data).parents, Content(data, data).chunks)
=============================================================================
