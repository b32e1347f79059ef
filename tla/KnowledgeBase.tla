----------------------------- MODULE KnowledgeBase -----------------------------
(***************************************************************************)
(* The knowledge base: the ingestion command (rag/ingest.py), the upload   *)
(* and status endpoints (routers/knowledge.py) and scoped hybrid retrieval *)
(* (rag/retrieval.py) over the tables knowledge_documents and              *)
(* knowledge_chunks.                                                       *)
(*                                                                         *)
(* Ingestions are processes of their own.  Each is one transaction that    *)
(* stays open across the calls to the embedding provider; its session does *)
(* not autoflush, so a write reaches the database at the next flush, which *)
(* takes its locks at once here.  PostgreSQL reads are READ COMMITTED.  A  *)
(* search reads in three sessions, with the query's embedding between the  *)
(* first and the second.                                                   *)
(***************************************************************************)
EXTENDS Integers, Sequences, FiniteSets, SequencesExt

CONSTANTS
  Paths,        \* the corpus files
  Position,     \* [Paths -> its place in sorted(rglob)]
  Revisions,    \* the contents a file may have
  ServiceOf,    \* [Revisions -> the front matter's service]
  EnvironmentOf,\* [Revisions -> the front matter's environment]
  SizeOf,       \* [Revisions -> the number of its chunks]
  Similarity,   \* [Revisions -> vector score of its chunks, 1 - distance, scaled]
  Keywords,     \* [Revisions -> full-text rank for the query, 0 is no match]
  Ingestions, Uploads, Searches, \* the actors
  ModelOf,      \* [actor -> the embedding model, and so dimension, it uses]
  Metadata,     \* the forms an upload may send
  Scopes,       \* the scopes a search may have
  TopK, CandidateMultiplier,
  Indexed, Original, \* the file that is already indexed, and its revision
  Corpora,      \* what an ingestion may find on disk: [Paths -> revision,
                \* "absent" or "malformed"]; the directory is edited at will
  MaxUpdates,   \* bound: PATCH requests on a document's status
  Faults        \* the failures injected

Legacy == "legacy" \* MIGRATION_COMPATIBILITY_TARGET_SLUG, owner of CLI documents
Actors == Ingestions \cup Uploads \cup Searches
Keys == Paths \cup Uploads \* source_path; every upload gets one of its own

ASSUME KnowledgeAssumption ==
  /\ Paths \cap Uploads = {} /\ Indexed \in Paths /\ Original \in Revisions
  /\ Position \in [Paths -> Nat]
  /\ "earlier" \notin Actors /\ "absent" \notin Revisions /\ "none" \notin Revisions
  /\ Ingestions \cap Uploads = {} /\ Searches \cap (Ingestions \cup Uploads) = {}
  /\ \A r \in Revisions : ServiceOf[r] # "none"
  /\ \A m \in Metadata : m.revision \in Revisions /\ m.shared \in BOOLEAN
  /\ SizeOf \in [Revisions -> Nat \ {0}]
  /\ Similarity \in [Revisions -> Int] /\ Keywords \in [Revisions -> Nat]
  /\ Corpora \subseteq [Paths -> Revisions \cup {"absent", "malformed"}]
  /\ TopK \in Nat \ {0} /\ CandidateMultiplier \in Nat \ {0} /\ MaxUpdates \in Nat

VARIABLES
  docs,     \* committed knowledge_documents: [key -> row or Absent]
  chunks,   \* committed knowledge_chunks
  pc,       \* [actor -> where it stands]
  parsed,   \* [ingestion -> the files still to ingest, each with its revision]
  current,  \* [ingestion -> the document it is at: the row and the chunks that
            \* its session has loaded of it]
  staged,   \* [ingestion -> its writes that are not flushed]
  flushed,  \* [ingestion -> its writes that are flushed and not committed]
  form,     \* [upload -> its metadata]
  scope,    \* [search -> its scope]
  ranked,   \* [search -> the vector candidates it has read and not yet fused]
  results,  \* [search -> the fused results]
  eligible, \* history: [search -> chunks that were its to find at some moment]
  updates   \* status updates so far

ingestVars == <<parsed, current, staged, flushed>>
searchVars == <<scope, ranked, results>>
vars == <<docs, chunks, pc, ingestVars, form, searchVars, eligible,
          updates>>

Go(a, place) == pc' = [pc EXCEPT ![a] = place]

-----------------------------------------------------------------------------
(* Rows. *)

Absent == [revision |-> "absent"]

\* The table's CHECK constraints: a shared document names no service.
IsDocument(row) ==
  /\ row.revision \in Revisions /\ row.status \in {"enabled", "disabled"}
  /\ IF row.shared THEN row.owner = "none" /\ row.service = "none" ELSE row.owner # "none"

IsChunk(c) == c.doc \in Keys /\ c.revision \in Revisions /\ c.index \in 1..SizeOf[c.revision]

\* The sections and paragraph groups of a text, numbered.
Indices(revision) == 1..SizeOf[revision]

\* chunk_markdown and _database_chunks: `by` stands for the fresh ids.
NewChunks(a, key, revision) ==
  {[doc |-> key, revision |-> revision, index |-> i, model |-> ModelOf[a], by |-> a] :
     i \in Indices(revision)}

\* The service of that name in the compatibility target.
CompatibilityService(revision) == ServiceOf[revision]

\* _preserve_legacy_knowledge_document_scope: a new document of the command
\* goes to the compatibility target, owned by the service it names.
LegacyRow(revision) ==
  [revision |-> revision, target |-> Legacy, shared |-> FALSE,
   service |-> ServiceOf[revision], owner |-> CompatibilityService(revision),
   environment |-> EnvironmentOf[revision], status |-> "enabled"]

UploadedRow(m) ==
  [revision |-> m.revision, target |-> m.target, shared |-> m.shared,
   service |-> m.service, owner |-> m.service,
   environment |-> m.environment, status |-> "enabled"]

\* The UPDATE the session flushes for an existing document: only the columns
\* whose value differs from the loaded one.  The owner is not among them.
Updated(row, old, revision) ==
  [row EXCEPT
     !.revision = revision,
     !.service = IF ServiceOf[revision] # old.service THEN ServiceOf[revision] ELSE @,
     !.environment =
       IF EnvironmentOf[revision] # old.environment THEN EnvironmentOf[revision] ELSE @]

ChunksOf(key) == {c \in chunks : c.doc = key}

\* What an uncommitted transaction has locked: the rows it has flushed, and
\* the old chunks of a document whose new ones are still staged.
RowsOf(j) == {w.key : w \in flushed[j]}
LocksOf(j) == RowsOf(j) \cup {w.key : w \in {v \in staged[j] : v.old # Absent}}
Waits(i, keys) == \E j \in Ingestions \ {i} : LocksOf(j) \intersect keys # {}

-----------------------------------------------------------------------------
(* The ingestion command. *)

\* Mutant: the transaction's locks outlive it.
RollbackKept(i) == Go(i, "failed") /\ UNCHANGED <<staged, flushed>>

Rollback(i) ==
  /\ Go(i, "failed")
  /\ staged' = [staged EXCEPT ![i] = {}] /\ flushed' = [flushed EXCEPT ![i] = {}]

Malformed(corpus) == \E p \in Paths : corpus[p] = "malformed"

\* collect_documents: every file is parsed before the database is touched.
Collect(i) ==
  /\ pc[i] = "idle"
  /\ \E corpus \in Corpora :
       LET present == {p \in Paths : corpus[p] # "absent"} IN
       IF present = {} \/ Malformed(corpus)
         THEN Go(i, "failed") /\ UNCHANGED parsed
         ELSE /\ parsed' = [parsed EXCEPT ![i] =
                   {[key |-> p, revision |-> corpus[p]] : p \in present}]
              /\ Go(i, "select")
  /\ UNCHANGED <<docs, chunks, current, staged, flushed, form, searchVars, updates>>

\* A document to write: `old` and `removed` are the row and chunks loaded of it.
NewWrite(file, row) ==
  [key |-> file.key, revision |-> file.revision, old |-> row, removed |-> {}]

NoWrite == NewWrite([key |-> Indexed, revision |-> Original], Absent)

\* The document of the next file; the one whose hash is unchanged is skipped.
SelectDocument(i) ==
  /\ pc[i] = "select"
  /\ \E file \in parsed[i] :
       /\ \A other \in parsed[i] : Position[file.key] <= Position[other.key]
       /\ parsed' = [parsed EXCEPT ![i] = @ \ {file}]
       /\ IF docs[file.key].revision = file.revision
            THEN UNCHANGED <<pc, current>>
            ELSE /\ current' = [current EXCEPT ![i] = NewWrite(file, docs[file.key])]
                 /\ Go(i, "embed")
  /\ UNCHANGED <<docs, chunks, staged, flushed, form, searchVars, updates>>

\* embed, then the lazy load of document.chunks.
EmbedDocument(i) ==
  /\ pc[i] = "embed"
  /\ \/ /\ current' = [current EXCEPT ![i].removed = ChunksOf(current[i].key)]
        /\ Go(i, "write") /\ UNCHANGED <<staged, flushed>>
     \/ /\ "provider" \in Faults
        /\ Rollback(i) /\ UNCHANGED current
  /\ UNCHANGED <<docs, chunks, parsed, form, searchVars, updates>>

\* Mutant: neither source_path nor (document_id, chunk_index) is unique.
ConflictsUnchecked(w) == FALSE

\* A flushed write violates a unique constraint: another ingestion has inserted
\* the document, or chunks that this one had not loaded to delete.
Conflicts(w) ==
  IF w.old = Absent
    THEN docs[w.key] # Absent
    ELSE \E c \in ChunksOf(w.key) \ w.removed : c.index <= SizeOf[w.revision]

\* A new document is staged; for a changed one, session.flush() first deletes
\* its old chunks and writes everything staged before it.
StageDocument(i) ==
  /\ pc[i] = "write"
  /\ \/ /\ current[i].old = Absent
        /\ staged' = [staged EXCEPT ![i] = @ \cup {current[i]}]
        /\ UNCHANGED flushed
     \/ /\ current[i].old # Absent
        /\ ~Waits(i, {w.key : w \in staged[i]} \cup {current[i].key})
        /\ \A w \in staged[i] : ~Conflicts(w)
        /\ staged' = [staged EXCEPT ![i] = {current[i]}]
        /\ flushed' = [flushed EXCEPT ![i] = @ \cup staged[i]]
  /\ Go(i, "select")
  /\ UNCHANGED <<docs, chunks, parsed, current, form, searchVars, updates>>

\* The flush, here or in the commit, raises: everything is rolled back.
FlushFails(i) ==
  /\ \/ pc[i] = "write" /\ current[i].old # Absent
     \/ pc[i] = "select" /\ parsed[i] = {}
  /\ ~Waits(i, {w.key : w \in staged[i]})
  /\ "database" \in Faults \/ \E w \in staged[i] : Conflicts(w)
  /\ Rollback(i)
  /\ UNCHANGED <<docs, chunks, parsed, current, form, searchVars, updates>>

RowAfter(w) ==
  IF w.old = Absent THEN LegacyRow(w.revision) ELSE Updated(docs[w.key], w.old, w.revision)

Publish(i, writes) ==
  /\ docs' = [key \in Keys |->
       IF \E w \in writes : w.key = key
         THEN RowAfter(CHOOSE w \in writes : w.key = key) ELSE docs[key]]
  /\ chunks' = (chunks \ UNION {w.removed : w \in writes})
                 \cup UNION {NewChunks(i, w.key, w.revision) : w \in writes}

Committed(i, place) ==
  /\ ~Waits(i, {w.key : w \in staged[i]}) /\ \A w \in staged[i] : ~Conflicts(w)
  /\ Publish(i, flushed[i] \cup staged[i]) /\ Go(i, place)
  /\ staged' = [staged EXCEPT ![i] = {}] /\ flushed' = [flushed EXCEPT ![i] = {}]

\* Mutant: each file is committed when it is ingested.
CommitIngestionEach(i) ==
  /\ pc[i] = "select"
  /\ Committed(i, IF parsed[i] = {} THEN "done" ELSE "select")
  /\ UNCHANGED <<parsed, current, form, searchVars, updates>>

\* The one commit.  When it takes effect and its acknowledgement is lost, the
\* rollback undoes nothing and the command reports a failure.
CommitIngestion(i) ==
  /\ pc[i] = "select" /\ parsed[i] = {}
  /\ \/ Committed(i, "done")
     \/ "acknowledgement" \in Faults /\ Committed(i, "misreported")
  /\ UNCHANGED <<parsed, current, form, searchVars, updates>>

\* The command is stopped: its connection closes and PostgreSQL rolls back.
StopIngestion(i) ==
  /\ "crash" \in Faults /\ pc[i] \in {"select", "embed", "write"}
  /\ Rollback(i)
  /\ UNCHANGED <<docs, chunks, parsed, current, form, searchVars, updates>>

-----------------------------------------------------------------------------
(* POST /knowledge and PATCH /knowledge/{id}/status. *)

\* _validate_upload_scope; Metadata holds the targets and services it looks up.
Acceptable(m) ==
  /\ m.registered
  /\ m.environment \in {"common", m.home}
  /\ m.shared <=> m.service = "none"

ReceiveUpload(u) ==
  /\ pc[u] = "idle"
  /\ \E m \in Metadata :
       form' = [form EXCEPT ![u] = m] /\ Go(u, IF Acceptable(m) THEN "embed" ELSE "failed")
  /\ UNCHANGED <<docs, chunks, ingestVars, searchVars, updates>>

EmbedUpload(u) ==
  /\ pc[u] = "embed"
  /\ \/ Go(u, "insert")
     \/ "provider" \in Faults /\ Go(u, "failed")
  /\ UNCHANGED <<docs, chunks, ingestVars, form, searchVars, updates>>

\* Document and chunks are one commit; its acknowledgement may be lost, and the
\* refresh after it may fail: the request then answers that nothing was saved.
InsertUpload(u) ==
  /\ pc[u] = "insert"
  /\ \/ /\ docs' = [docs EXCEPT ![u] = UploadedRow(form[u])]
        /\ chunks' = chunks \cup NewChunks(u, u, form[u].revision)
        /\ \/ Go(u, "done")
           \/ {"acknowledgement", "refresh"} \cap Faults # {} /\ Go(u, "misreported")
     \/ "database" \in Faults /\ Go(u, "failed") /\ UNCHANGED <<docs, chunks>>
  /\ UNCHANGED <<ingestVars, form, searchVars, updates>>

UpdateStatus(key) ==
  /\ updates < MaxUpdates /\ updates' = updates + 1
  /\ docs[key] # Absent /\ \A j \in Ingestions : key \notin RowsOf(j)
  /\ \E s \in {"enabled", "disabled"} : docs' = [docs EXCEPT ![key].status = s]
  /\ UNCHANGED <<chunks, pc, ingestVars, form, searchVars>>

-----------------------------------------------------------------------------
(* RAGService.search_scoped. *)

\* Mutant: a disabled document is still searched.
InScopeAnyStatus(row, s) ==
  /\ row.target = s.target
  /\ row.environment \in {s.environment, "common"}
  /\ row.shared \/ row.owner = s.service

\* _scope_filter_clauses
InScope(row, s) ==
  /\ row.target = s.target /\ row.status = "enabled"
  /\ row.environment \in {s.environment, "common"}
  /\ row.shared \/ row.owner = s.service

Searchable(q) == {c \in chunks : InScope(docs[c.doc], scope[q])}

\* ORDER BY ... LIMIT: the best elements of a set, best first and each once.
\* What ties is in the order of the chunk ids, which are random: any order.
Rankings(set, Better(_, _), limit) ==
  {s \in SeqOf(set, limit) :
     /\ IsInjective(s)
     /\ Len(s) < limit => ToSet(s) = set
     /\ \A i \in DOMAIN s, c \in set :
          Better(c, s[i]) => \E j \in 1..(i - 1) : s[j] = c}

CandidateLimit == TopK * CandidateMultiplier

Nearer(c, d) == Similarity[c.revision] > Similarity[d.revision]
Matches(c, d) == Keywords[c.revision] > Keywords[d.revision]

\* Reciprocal-rank fusion with RRF_K = 60, scaled to integers.  A score that a
\* list does not give is 0.
Share(c, s) == IF Contains(s, c) THEN 100000000 \div (60 + IndexFirstSubSeq(<<c>>, s)) ELSE 0
Fuse(vector, keyword) ==
  LET score(c) == Share(c, vector) + Share(c, keyword)
      similarity(c) == IF Contains(vector, c) THEN Similarity[c.revision] ELSE 0
      match(c) == IF Contains(keyword, c) THEN Keywords[c.revision] ELSE 0
      better(c, d) ==
        \/ score(c) > score(d)
        \/ /\ score(c) = score(d)
           /\ \/ similarity(c) > similarity(d)
              \/ similarity(c) = similarity(d) /\ match(c) > match(d)
  IN Rankings(ToSet(vector) \cup ToSet(keyword), better, TopK)

BeginSearch(q) ==
  /\ pc[q] = "idle" /\ Go(q, "dimensions")
  /\ \E s \in Scopes : scope' = [scope EXCEPT ![q] = s]
  /\ UNCHANGED <<docs, chunks, ingestVars, form, ranked, results, updates>>

\* _corpus_dimensions_for_scope: mixed dimensions fail, an empty corpus needs
\* no query vector, and a query vector of another dimension fails.
ReadDimensions(q) ==
  /\ pc[q] = "dimensions"
  /\ LET models == {c.model : c \in Searchable(q)} IN
     \/ models = {} /\ Go(q, "keyword")
     \/ models = {ModelOf[q]} /\ Go(q, "vector")
     \/ models # {} /\ (models # {ModelOf[q]} \/ "provider" \in Faults) /\ Go(q, "failed")
  /\ UNCHANGED <<docs, chunks, ingestVars, form, searchVars, updates>>

\* cosine_distance refuses vectors of different dimensions.
ReadVectors(q) ==
  /\ pc[q] = "vector"
  /\ IF \E c \in Searchable(q) : c.model # ModelOf[q]
       THEN Go(q, "failed") /\ UNCHANGED ranked
       ELSE /\ \E s \in Rankings(Searchable(q), Nearer, CandidateLimit) :
                 ranked' = [ranked EXCEPT ![q] = s]
            /\ Go(q, "keyword")
  /\ UNCHANGED <<docs, chunks, ingestVars, form, scope, results, updates>>

ReadKeywords(q) ==
  /\ pc[q] = "keyword"
  /\ LET matching == {c \in Searchable(q) : Keywords[c.revision] > 0} IN
     \E keyword \in Rankings(matching, Matches, CandidateLimit) :
       \E s \in Fuse(ranked[q], keyword) : results' = [results EXCEPT ![q] = s]
  /\ ranked' = [ranked EXCEPT ![q] = << >>]
  /\ Go(q, "done")
  /\ UNCHANGED <<docs, chunks, ingestVars, form, scope, updates>>

-----------------------------------------------------------------------------

\* "misreported": committed, and answered with a failure.
Ends == {"done", "failed", "misreported"}

Finished ==
  /\ \A a \in Actors : pc[a] \in Ends
  /\ updates = MaxUpdates
  /\ UNCHANGED <<docs, chunks, pc, ingestVars, form, searchVars, updates>>

\* What a search of scope s may find in a document, whatever the queries say.
Allowed(row, s) ==
  /\ row # Absent
  /\ row.target = s.target /\ row.status # "disabled"
  /\ row.environment = "common" \/ row.environment = s.environment
  /\ ~row.shared => row.owner = s.service

\* The history of what each running search could have seen.
Observe ==
  eligible' = [q \in Searches |->
    IF pc[q] \in Ends \/ pc'[q] = "idle" THEN eligible[q]
    ELSE eligible[q] \cup {c \in chunks' : Allowed(docs'[c.doc], scope'[q])}]

IngestionStep(i) ==
  \/ Collect(i) \/ SelectDocument(i) \/ EmbedDocument(i) \/ StageDocument(i)
  \/ FlushFails(i) \/ CommitIngestion(i) \/ StopIngestion(i)

UploadStep(u) == ReceiveUpload(u) \/ EmbedUpload(u) \/ InsertUpload(u)

SearchStep(q) ==
  BeginSearch(q) \/ ReadDimensions(q) \/ ReadVectors(q) \/ ReadKeywords(q)

Step ==
  \/ \E i \in Ingestions : IngestionStep(i)
  \/ \E u \in Uploads : UploadStep(u)
  \/ \E q \in Searches : SearchStep(q)
  \/ \E key \in Keys : UpdateStatus(key)
  \/ Finished

\* One file is indexed already, the others are new.
Init ==
  /\ docs = [key \in Keys |-> IF key = Indexed THEN LegacyRow(Original) ELSE Absent]
  /\ chunks = {[doc |-> Indexed, revision |-> Original, index |-> i,
                model |-> "current", by |-> "earlier"] : i \in Indices(Original)}
  /\ pc = [a \in Actors |-> "idle"]
  /\ parsed = [i \in Ingestions |-> {}] /\ current = [i \in Ingestions |-> NoWrite]
  /\ staged = [i \in Ingestions |-> {}]
  /\ flushed = [i \in Ingestions |-> {}]
  /\ form = [u \in Uploads |-> CHOOSE m \in Metadata : TRUE]
  /\ scope = [q \in Searches |-> CHOOSE s \in Scopes : TRUE]
  /\ ranked = [q \in Searches |-> << >>] /\ results = [q \in Searches |-> << >>]
  /\ eligible = [q \in Searches |-> {}]
  /\ updates = 0

Next == Step /\ Observe

Spec == Init /\ [][Next]_vars

-----------------------------------------------------------------------------
(* Properties. *)

\* The shape of the tables, of every actor's place and of the bound's counter.
\* The rows an ingestion has written and not yet committed belong to it alone,
\* and to nobody once its transaction has ended (ingest_documents).
TypeOK ==
  /\ pc \in [Actors -> {"idle", "select", "embed", "write", "insert", "dimensions",
                        "vector", "keyword"} \cup Ends]
  /\ DOMAIN docs = Keys
  /\ \A key \in Keys : docs[key] = Absent \/ IsDocument(docs[key])
  /\ \A c \in chunks : IsChunk(c)
  /\ \A i \in Ingestions :
       /\ staged[i] \cup flushed[i] # {} => pc[i] \in {"select", "embed", "write"}
       /\ ~Waits(i, LocksOf(i))
  /\ updates \in 0..MaxUpdates

\* A committed document is whole: its chunks are all those of the revision its
\* content_hash names and of no other, and one process embedded them, also when
\* two ingestions replaced them at once ("replacing chunks when content
\* changes", ingest_documents).
DocumentWhole ==
  \A key \in Keys :
    IF docs[key] = Absent THEN ChunksOf(key) = {}
    ELSE \E a \in Actors \cup {"earlier"} :
           ChunksOf(key) = {[doc |-> key, revision |-> docs[key].revision, index |-> i,
             model |-> IF a = "earlier" THEN "current" ELSE ModelOf[a], by |-> a] :
             i \in Indices(docs[key].revision)}

\* All or nothing: nothing of an ingestion or an upload can be found before it
\* has committed everything, nor ever when it failed before its commit ("one
\* all-or-nothing ingestion run", rag/ingest.py:36).
AllOrNothing ==
  \A a \in Ingestions \cup Uploads :
    pc[a] \notin {"done", "misreported"} => \A c \in chunks : c.by # a

\* A search returns every chunk once, at most top_k of them, and only chunks
\* that a document enabled and within its scope held at some moment of the
\* search, whatever was replaced or disabled between its three reads
\* ("scoped retrieval reads this status on every request", routers/knowledge.py).
SearchInScope ==
  \A q \in Searches :
    /\ Len(results[q]) <= TopK
    /\ Cardinality(ToSet(results[q])) = Len(results[q])
    /\ ToSet(results[q]) \subseteq eligible[q]
=============================================================================
