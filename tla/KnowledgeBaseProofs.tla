-------------------------- MODULE KnowledgeBaseProofs --------------------------
(***************************************************************************)
(* Proofs about KnowledgeBase, for any corpus, any number of ingestions,   *)
(* uploads and searches, and any choice of faults: first the tables, then  *)
(* what a search may return.                                               *)
(***************************************************************************)
EXTENDS KnowledgeBase, FiniteSetTheorems, TLAPS

(* The chunks that process a writes for one revision of a document.        *)
ChunkSet(a, key, revision) ==
  {[doc |-> key, revision |-> revision, index |-> i,
    model |-> IF a = "earlier" THEN "current" ELSE ModelOf[a], by |-> a] :
     i \in Indices(revision)}

Writers == Actors \cup {"earlier"}

RowFields ==
  {"revision", "target", "shared", "service", "owner", "environment", "status"}

(* A committed row has all its columns, and the command's rows are never   *)
(* shared: their service may change, their owner does not.                 *)
RowSound(key) ==
  docs[key] # Absent =>
    /\ DOMAIN docs[key] = RowFields
    /\ key \in Paths => docs[key].shared = FALSE
RowsSound == \A key \in Keys : RowSound(key)

(* A form that passed validation stays what it was until it is inserted,   *)
(* and nothing is inserted before.                                         *)
FormSound(u) ==
  /\ pc[u] \in {"embed", "insert"} => form[u] \in Metadata /\ Acceptable(form[u])
  /\ pc[u] \in {"idle", "embed", "insert"} => docs[u] = Absent
FormsSound == DOMAIN form = Uploads /\ \A u \in Uploads : FormSound(u)

Pending(i) == staged[i] \cup flushed[i]

(* What a transaction has loaded of a document it replaces is the whole    *)
(* chunk set of some revision, and the document still exists.              *)
WriteSound(w) ==
  /\ w.key \in Paths /\ w.revision \in Revisions
  /\ \A c \in w.removed : c.doc = w.key
  /\ w.old # Absent =>
       /\ docs[w.key] # Absent
       /\ \E a \in Writers, r \in Revisions : w.removed = ChunkSet(a, w.key, r)

(* The files an ingestion has still to do, the document it is at and the   *)
(* writes it has made are of different documents.                          *)
QueueSound(i) ==
  /\ \A f \in parsed[i] : f.key \in Paths /\ f.revision \in Revisions
  /\ \A f, g \in parsed[i] : f.key = g.key => f = g
  /\ \A v, w \in Pending(i) : v.key = w.key => v = w
  /\ \A w \in Pending(i), f \in parsed[i] : w.key # f.key

CurrentSound(i) ==
  /\ DOMAIN current[i] = {"key", "revision", "old", "removed"}
  /\ pc[i] \in {"embed", "write"} =>
       /\ current[i].key \in Paths /\ current[i].revision \in Revisions
       /\ current[i].old # Absent => docs[current[i].key] # Absent
       /\ \A w \in Pending(i) : w.key # current[i].key
       /\ \A f \in parsed[i] : f.key # current[i].key
  /\ pc[i] = "write" => WriteSound(current[i])

(* A flushed write can no longer conflict: its rows are locked.            *)
TransactionSound(i) ==
  /\ QueueSound(i)
  /\ CurrentSound(i)
  /\ \A w \in Pending(i) : WriteSound(w)
  /\ \A w \in flushed[i] : ~Conflicts(w)

TransactionsSound ==
  /\ DOMAIN parsed = Ingestions /\ DOMAIN current = Ingestions
  /\ DOMAIN staged = Ingestions /\ DOMAIN flushed = Ingestions
  /\ \A i \in Ingestions : TransactionSound(i)

(* The inductive invariant.                                                *)
IInv ==
  /\ TypeOK
  /\ DocumentWhole
  /\ AllOrNothing
  /\ RowsSound
  /\ FormsSound
  /\ TransactionsSound

-----------------------------------------------------------------------------
(* What DocumentWhole says of one document.                                *)
Whole(key) ==
  IF docs[key] = Absent THEN ChunksOf(key) = {}
  ELSE \E a \in Writers : ChunksOf(key) = ChunkSet(a, key, docs[key].revision)

(* DocumentWhole in the terms of this module.                              *)
LEMMA WholeIsWhole == DocumentWhole <=> \A key \in Keys : Whole(key)
BY DEF DocumentWhole, Whole, ChunkSet, Writers

(* New chunks are the chunk set of the process that makes them.            *)
LEMMA NewChunksAreSet ==
  ASSUME NEW a \in Actors, NEW key, NEW r
  PROVE  NewChunks(a, key, r) = ChunkSet(a, key, r)
BY KnowledgeAssumption DEF NewChunks, ChunkSet

(* A revision has a first chunk.                                           *)
LEMMA FirstIndex ==
  ASSUME NEW r \in Revisions
  PROVE  SizeOf[r] \in Nat /\ 1 <= SizeOf[r] /\ 1 \in Indices(r)
BY KnowledgeAssumption DEF Indices

(* So a chunk set has a first chunk.                                       *)
LEMMA FirstChunk ==
  ASSUME NEW a, NEW key, NEW r \in Revisions
  PROVE  \E c \in ChunkSet(a, key, r) : c.index = 1
<1> DEFINE c == [doc |-> key, revision |-> r, index |-> 1,
                 model |-> IF a = "earlier" THEN "current" ELSE ModelOf[a], by |-> a]
<1>1. c \in ChunkSet(a, key, r) /\ c.index = 1
  BY FirstIndex DEF ChunkSet
<1> QED
  BY <1>1

(* Two chunk sets of a document that share their first chunk are equal.    *)
LEMMA SameFirstChunk ==
  ASSUME NEW a, NEW b, NEW key, NEW q \in Revisions, NEW r \in Revisions,
         NEW c \in ChunkSet(a, key, q), c \in ChunkSet(b, key, r)
  PROVE  ChunkSet(a, key, q) = ChunkSet(b, key, r)
BY DEF ChunkSet

(* A row read from the tables is not the absent one.                       *)
LEMMA RowPresent ==
  ASSUME NEW row, row.revision \in Revisions
  PROVE  row # Absent
BY KnowledgeAssumption DEF Absent

(* The key point: a write that does not conflict has loaded every chunk    *)
(* the document has.                                                       *)
LEMMA NoConflictRemovesAll ==
  ASSUME TypeOK, NEW w, WriteSound(w), Whole(w.key), ~Conflicts(w)
  PROVE  ChunksOf(w.key) \subseteq w.removed
<1>1. CASE w.old = Absent
  BY <1>1 DEF Conflicts, Whole
<1>2. CASE w.old # Absent
  <2>1. w.key \in Keys /\ docs[w.key] # Absent
    BY <1>2 DEF WriteSound, Keys
  <2>2. docs[w.key].revision \in Revisions
    BY <2>1 DEF TypeOK, IsDocument
  <2>3. PICK a \in Writers : ChunksOf(w.key) = ChunkSet(a, w.key, docs[w.key].revision)
    BY <2>1 DEF Whole
  <2>4. PICK b \in Writers, r \in Revisions : w.removed = ChunkSet(b, w.key, r)
    BY <1>2 DEF WriteSound
  <2>5. PICK c \in ChunksOf(w.key) : c.index = 1
    BY <2>2, <2>3, FirstChunk
  <2>6. 1 <= SizeOf[w.revision]
    BY FirstIndex DEF WriteSound
  <2>7. c \in w.removed
    BY <1>2, <2>5, <2>6 DEF Conflicts
  <2> QED
    BY <2>2, <2>3, <2>4, <2>5, <2>7, SameFirstChunk
<1> QED
  BY <1>1, <1>2

-----------------------------------------------------------------------------
(* The parts of TypeOK.                                                    *)
Places ==
  {"idle", "select", "embed", "write", "insert", "dimensions", "vector", "keyword"} \cup Ends

TablesTyped ==
  /\ DOMAIN docs = Keys
  /\ \A key \in Keys : docs[key] = Absent \/ IsDocument(docs[key])
  /\ \A c \in chunks : IsChunk(c)

LockSound(i) ==
  /\ staged[i] \cup flushed[i] # {} => pc[i] \in {"select", "embed", "write"}
  /\ \A j \in Ingestions \ {i} : LocksOf(i) \intersect LocksOf(j) = {}

(* TypeOK in the terms of this module.                                     *)
TypeByParts ==
  /\ pc \in [Actors -> Places]
  /\ TablesTyped
  /\ \A i \in Ingestions : LockSound(i)
  /\ updates \in 0..MaxUpdates

(* They are all of it.                                                     *)
LEMMA TypeParts == TypeOK <=> TypeByParts
<1>1. ASSUME NEW i \in Ingestions
      PROVE  ~Waits(i, LocksOf(i))
               <=> \A j \in Ingestions \ {i} : LocksOf(i) \intersect LocksOf(j) = {}
  BY DEF Waits
<1> QED
  BY <1>1 DEF TypeOK, TypeByParts, Places, TablesTyped, LockSound

(* The same of the next state.                                             *)
LEMMA TypePartsNext == TypeOK' <=> TypeByParts'
BY TypeParts, PTL

(* What a step leaves alone of the other ingestions.                       *)
OthersKept(i) ==
  /\ DOMAIN parsed' = Ingestions /\ DOMAIN current' = Ingestions
  /\ DOMAIN staged' = Ingestions /\ DOMAIN flushed' = Ingestions
  /\ \A j \in Ingestions \ {i} :
       /\ parsed'[j] = parsed[j] /\ current'[j] = current[j]
       /\ staged'[j] = staged[j] /\ flushed'[j] = flushed[j]
       /\ pc'[j] = pc[j]

DocumentsStay == \A key \in Keys : docs[key] # Absent => docs'[key] # Absent

(* A write stays sound while documents are not deleted.                    *)
LEMMA WriteKept ==
  ASSUME NEW w, WriteSound(w), DocumentsStay
  PROVE  WriteSound(w)'
BY DEF WriteSound, DocumentsStay, Keys

(* A write that conflicts with nothing goes on so while nobody touches its *)
(* document.                                                               *)
LEMMA NoConflictKept ==
  ASSUME NEW w, ~Conflicts(w), ChunksOf(w.key)' = ChunksOf(w.key),
         (docs'[w.key] = Absent) <=> (docs[w.key] = Absent)
  PROVE  ~Conflicts(w)'
BY DEF Conflicts

(* A transaction is not disturbed by what others do to other documents.    *)
LEMMA TransactionKept ==
  ASSUME NEW j \in Ingestions, TransactionSound(j), DocumentsStay,
         parsed'[j] = parsed[j], current'[j] = current[j],
         staged'[j] = staged[j], flushed'[j] = flushed[j], pc'[j] = pc[j],
         \A w \in flushed[j] : ~Conflicts(w)'
  PROVE  TransactionSound(j)'
<1>1. QueueSound(j)' /\ Pending(j)' = Pending(j)
  BY DEF TransactionSound, QueueSound, Pending
<1>2. CurrentSound(j)'
  BY <1>1, WriteKept DEF TransactionSound, CurrentSound, DocumentsStay, Keys
<1>3. \A w \in Pending(j)' : WriteSound(w)'
  BY <1>1, WriteKept DEF TransactionSound
<1> QED
  BY <1>1, <1>2, <1>3 DEF TransactionSound

(* A step on the tables alone leaves alone what it says of them.           *)
LEMMA TablesKept ==
  ASSUME docs' = docs, chunks' = chunks
  PROVE  /\ DocumentsStay
         /\ TablesTyped => TablesTyped'
         /\ DocumentWhole => DocumentWhole'
         /\ RowsSound => RowsSound'
         /\ \A w : Conflicts(w)' <=> Conflicts(w)
BY DEF DocumentsStay, TablesTyped, DocumentWhole, ChunksOf, RowsSound, RowSound, Conflicts

(* Nobody leaves an end, so a writer whose chunks can be found has ended.  *)
LEMMA FoundKept ==
  ASSUME AllOrNothing, chunks' = chunks, pc \in [Actors -> Places],
         NEW a \in Actors, NEW p \in Places, Go(a, p), pc[a] \notin Ends
  PROVE  AllOrNothing'
BY DEF AllOrNothing, Go, Ends, Actors

(* Locks are exclusive after a step of i if i only locks what is free.     *)
LEMMA LocksKept ==
  ASSUME NEW i \in Ingestions, \A j \in Ingestions : LockSound(j), OthersKept(i),
         staged'[i] \cup flushed'[i] # {} => pc'[i] \in {"select", "embed", "write"},
         \A j \in Ingestions \ {i} : LocksOf(i)' \intersect LocksOf(j) = {}
  PROVE  \A j \in Ingestions : LockSound(j)'
<1>1. \A j \in Ingestions \ {i} : LocksOf(j)' = LocksOf(j)
  BY DEF OthersKept, LocksOf, RowsOf
<1>2. LockSound(i)'
  BY <1>1 DEF LockSound
<1>3. ASSUME NEW j \in Ingestions \ {i}
      PROVE  LockSound(j)'
  <2>1. LocksOf(j)' \intersect LocksOf(i)' = {}
    BY <1>1
  <2>2. \A k \in Ingestions \ {i, j} : LocksOf(j)' \intersect LocksOf(k)' = {}
    BY <1>1 DEF LockSound
  <2> QED
    BY <2>1, <2>2 DEF LockSound, OthersKept
<1> QED
  BY <1>2, <1>3

(* A step of an ingestion that does not commit: it changes its own memory  *)
(* and its own locks.                                                      *)
LEMMA LocalStep ==
  ASSUME IInv, NEW i \in Ingestions, NEW p \in Places,
         Go(i, p), pc[i] \notin Ends,
         docs' = docs, chunks' = chunks, form' = form, updates' = updates,
         OthersKept(i), TransactionSound(i)',
         staged'[i] \cup flushed'[i] # {} => p \in {"select", "embed", "write"},
         \A j \in Ingestions \ {i} : LocksOf(i)' \intersect LocksOf(j) = {}
  PROVE  IInv'
<1>1. pc \in [Actors -> Places] /\ pc' \in [Actors -> Places] /\ pc'[i] = p
  BY TypeParts DEF TypeByParts, IInv, Go, Actors
<1>2. \A j \in Ingestions : LockSound(j)'
  BY <1>1, LocksKept, TypeParts DEF TypeByParts, IInv
<1>3. TypeOK'
  <2>1. TablesTyped /\ updates' \in 0..MaxUpdates
    BY TypeParts DEF TypeByParts, IInv
  <2> QED
    BY <1>1, <1>2, <2>1, TablesKept, TypePartsNext DEF TypeByParts
<1>4. DocumentWhole' /\ RowsSound'
  BY TablesKept DEF IInv
<1>5. AllOrNothing'
  BY <1>1, FoundKept DEF IInv, Actors
<1>6. FormsSound'
  BY <1>1, KnowledgeAssumption DEF IInv, FormsSound, FormSound, Go, Actors
<1>7. TransactionsSound'
  <2>1. ASSUME NEW j \in Ingestions \ {i}
        PROVE  TransactionSound(j)'
    <3>1. TransactionSound(j) /\ \A w \in flushed[j] : ~Conflicts(w)'
      BY TablesKept DEF IInv, TransactionsSound, TransactionSound
    <3> QED
      BY <3>1, TransactionKept, TablesKept DEF OthersKept
  <2> QED
    BY <2>1 DEF TransactionsSound, OthersKept
<1> QED
  BY <1>3, <1>4, <1>5, <1>6, <1>7 DEF IInv

(* A step of an upload before it inserts, or of a search.                  *)
LEMMA QuietStep ==
  ASSUME IInv, NEW a \in Uploads \cup Searches, NEW p \in Places,
         Go(a, p), pc[a] \notin Ends,
         docs' = docs, chunks' = chunks, UNCHANGED ingestVars, updates' = updates,
         FormsSound'
  PROVE  IInv'
<1>1. pc \in [Actors -> Places] /\ pc' \in [Actors -> Places]
  BY TypeParts DEF TypeByParts, IInv, Go, Actors
<1>2. \A j \in Ingestions : pc'[j] = pc[j]
  BY <1>1, KnowledgeAssumption DEF Go, Actors
<1>3. \A j \in Ingestions : LockSound(j)'
  BY <1>2, TypeParts DEF TypeByParts, IInv, LockSound, LocksOf, RowsOf, ingestVars
<1>4. TypeOK'
  <2>1. TablesTyped /\ updates' \in 0..MaxUpdates
    BY TypeParts DEF TypeByParts, IInv
  <2> QED
    BY <1>1, <1>3, <2>1, TablesKept, TypePartsNext DEF TypeByParts
<1>5. DocumentWhole' /\ RowsSound'
  BY TablesKept DEF IInv
<1>6. AllOrNothing'
  BY <1>1, FoundKept DEF IInv, Actors
<1>7. TransactionsSound'
  <2>1. ASSUME NEW j \in Ingestions
        PROVE  TransactionSound(j)'
    <3>1. TransactionSound(j) /\ \A w \in flushed[j] : ~Conflicts(w)'
      BY TablesKept DEF IInv, TransactionsSound, TransactionSound
    <3> QED
      BY <1>2, <3>1, TransactionKept, TablesKept DEF ingestVars
  <2> QED
    BY <2>1 DEF IInv, TransactionsSound, ingestVars
<1> QED
  BY <1>4, <1>5, <1>6, <1>7 DEF IInv

-----------------------------------------------------------------------------
(* What the invariant says of one ingestion.                               *)
LEMMA Own ==
  ASSUME IInv, NEW i \in Ingestions
  PROVE  /\ TransactionSound(i)
         /\ LockSound(i)
         /\ i \in DOMAIN parsed /\ i \in DOMAIN current
         /\ i \in DOMAIN staged /\ i \in DOMAIN flushed /\ i \in DOMAIN pc
         /\ \A j \in Ingestions \ {i} : LocksOf(i) \intersect LocksOf(j) = {}
BY TypeParts DEF TypeByParts, IInv, TransactionsSound, LockSound, Actors

(* A step of i leaves the other ingestions alone.                          *)
LEMMA OwnStep ==
  ASSUME IInv, NEW i \in Ingestions, NEW p, Go(i, p),
         NEW a, NEW b, NEW c, NEW d,
         parsed' = parsed \/ parsed' = [parsed EXCEPT ![i] = a],
         current' = current \/ current' = [current EXCEPT ![i] = b],
         staged' = staged \/ staged' = [staged EXCEPT ![i] = c],
         flushed' = flushed \/ flushed' = [flushed EXCEPT ![i] = d]
  PROVE  OthersKept(i) /\ pc'[i] = p
<1>1. pc'[i] = p /\ \A j \in Ingestions \ {i} : pc'[j] = pc[j]
  BY TypeParts DEF IInv, TypeByParts, Go, Actors
<1> QED
  BY <1>1 DEF IInv, TransactionsSound, OthersKept

(* Any failure of an ingestion: the transaction is rolled back.            *)
LEMMA RollbackStep ==
  ASSUME IInv, NEW i \in Ingestions, pc[i] \in {"idle", "select", "embed", "write"},
         Rollback(i), UNCHANGED <<docs, chunks, parsed, current, form, updates>>
  PROVE  IInv'
<1>1. OthersKept(i) /\ pc'[i] = "failed"
  BY OwnStep DEF Rollback
<1>2. staged'[i] = {} /\ flushed'[i] = {}
  BY Own DEF Rollback
<1>3. TransactionSound(i)'
  BY <1>1, <1>2, Own DEF TransactionSound, QueueSound, CurrentSound, Pending
<1>4. LocksOf(i)' = {}
  BY <1>2 DEF LocksOf, RowsOf
<1> QED
  BY <1>1, <1>2, <1>3, <1>4, LocalStep DEF Rollback, Places, Ends

(* A corpus that is read has distinct files with known contents.           *)
LEMMA CollectStep ==
  ASSUME IInv, NEW i \in Ingestions, Collect(i)
  PROVE  IInv'
<1> DEFINE Present(corpus) == {p \in Paths : corpus[p] # "absent"}
           Files(corpus) == {[key |-> p, revision |-> corpus[p]] : p \in Present(corpus)}
<1>1. PICK corpus \in Corpora :
        \/ Go(i, "failed") /\ UNCHANGED parsed
        \/ /\ ~Malformed(corpus)
           /\ parsed' = [parsed EXCEPT ![i] = Files(corpus)]
           /\ Go(i, "select")
  BY DEF Collect
<1>2. pc[i] = "idle" /\ UNCHANGED <<docs, chunks, current, staged, flushed, form, updates>>
  BY DEF Collect
<1>3. staged[i] = {} /\ flushed[i] = {}
  BY <1>2, Own DEF LockSound
<1>4. OthersKept(i)
  BY <1>1, <1>2, OwnStep
<1>5. LocksOf(i)' = LocksOf(i)
  BY <1>2 DEF LocksOf, RowsOf
<1>6. CASE Go(i, "failed") /\ UNCHANGED parsed
  <2>1. pc'[i] = "failed"
    BY <1>2, <1>6, OwnStep
  <2>2. TransactionSound(i)'
    BY <1>2, <1>3, <1>6, <2>1, Own DEF TransactionSound, QueueSound, CurrentSound, Pending
  <2> QED
    BY <1>2, <1>3, <1>4, <1>5, <1>6, <2>2, Own, LocalStep DEF Places, Ends
<1>7. CASE /\ ~Malformed(corpus)
           /\ parsed' = [parsed EXCEPT ![i] = Files(corpus)]
           /\ Go(i, "select")
  <2>1. pc'[i] = "select" /\ parsed'[i] = Files(corpus)
    BY <1>2, <1>7, Own, OwnStep
  <2>2. \A p \in Present(corpus) : corpus[p] \in Revisions
    BY <1>7, KnowledgeAssumption DEF Malformed
  <2>3. QueueSound(i)'
    BY <1>2, <1>3, <2>1, <2>2 DEF QueueSound, Pending
  <2>4. TransactionSound(i)'
    BY <1>2, <1>3, <2>1, <2>3, Own DEF TransactionSound, CurrentSound, Pending
  <2> QED
    BY <1>2, <1>3, <1>4, <1>5, <1>7, <2>4, Own, LocalStep DEF Places, Ends
<1> QED
  BY <1>1, <1>6, <1>7

(* The document an ingestion selects is none of those it has written.      *)
LEMMA SelectStep ==
  ASSUME IInv, NEW i \in Ingestions, SelectDocument(i)
  PROVE  IInv'
<1>1. PICK file \in parsed[i] :
        /\ parsed' = [parsed EXCEPT ![i] = @ \ {file}]
        /\ \/ UNCHANGED <<pc, current>>
           \/ /\ current' = [current EXCEPT ![i] = NewWrite(file, docs[file.key])]
              /\ Go(i, "embed")
  BY DEF SelectDocument
<1>2. pc[i] = "select" /\ UNCHANGED <<docs, chunks, staged, flushed, form, updates>>
  BY DEF SelectDocument
<1>3. parsed'[i] = parsed[i] \ {file} /\ Pending(i)' = Pending(i)
  BY <1>1, <1>2, Own DEF Pending
<1>4. LocksOf(i)' = LocksOf(i)
  BY <1>2 DEF LocksOf, RowsOf
<1>5. QueueSound(i)'
  BY <1>3, Own DEF TransactionSound, QueueSound
<1>6. /\ \A w \in Pending(i)' : WriteSound(w)'
      /\ \A w \in flushed'[i] : ~Conflicts(w)'
  BY <1>2, <1>3, Own, TablesKept, WriteKept DEF TransactionSound
<1>7. CASE UNCHANGED <<pc, current>>
  <2>1. Go(i, "select")
    BY <1>2, <1>7, TypeParts DEF IInv, TypeByParts, Go
  <2>2. OthersKept(i)
    BY <1>1, <1>2, <1>7, <2>1, OwnStep
  <2>3. TransactionSound(i)'
    BY <1>2, <1>5, <1>6, <1>7, Own DEF TransactionSound, CurrentSound
  <2> QED
    BY <1>2, <1>4, <2>1, <2>2, <2>3, Own, LocalStep DEF Places, Ends
<1>8. CASE /\ current' = [current EXCEPT ![i] = NewWrite(file, docs[file.key])]
           /\ Go(i, "embed")
  <2>1. OthersKept(i) /\ pc'[i] = "embed"
    BY <1>1, <1>2, <1>8, OwnStep
  <2>2. current'[i] = NewWrite(file, docs[file.key])
    BY <1>8, Own
  <2>3. file.key \in Paths /\ file.revision \in Revisions
    BY <1>1, Own DEF TransactionSound, QueueSound
  <2>4. /\ \A w \in Pending(i)' : w.key # file.key
        /\ \A f \in parsed'[i] : f.key # file.key
    BY <1>1, <1>3, Own DEF TransactionSound, QueueSound
  <2>5. CurrentSound(i)'
    BY <1>2, <2>1, <2>2, <2>3, <2>4 DEF CurrentSound, NewWrite
  <2> QED
    BY <1>2, <1>4, <1>5, <1>6, <1>8, <2>1, <2>5, Own, LocalStep
       DEF TransactionSound, Places, Ends
<1> QED
  BY <1>1, <1>7, <1>8

(* The old chunks are loaded whole, because the tables hold them whole.    *)
LEMMA EmbedStep ==
  ASSUME IInv, NEW i \in Ingestions, EmbedDocument(i)
  PROVE  IInv'
<1>1. pc[i] = "embed" /\ UNCHANGED <<docs, chunks, parsed, form, updates>>
  BY DEF EmbedDocument
<1>2. CASE Rollback(i) /\ UNCHANGED current
  BY <1>1, <1>2, RollbackStep
<1>3. CASE /\ current' = [current EXCEPT ![i].removed = ChunksOf(current[i].key)]
           /\ Go(i, "write") /\ UNCHANGED <<staged, flushed>>
  <2> DEFINE key == current[i].key
  <2>1. current' = [current EXCEPT ![i] = [current[i] EXCEPT !.removed = ChunksOf(key)]]
    BY <1>3
  <2>2. OthersKept(i) /\ pc'[i] = "write"
    BY <1>1, <1>3, <2>1, OwnStep
  <2>3. CurrentSound(i)
    BY Own DEF TransactionSound
  <2>4. current'[i] = [current[i] EXCEPT !.removed = ChunksOf(key)]
    BY <2>1, Own
  <2>5. /\ DOMAIN current'[i] = {"key", "revision", "old", "removed"}
        /\ current'[i].key = key /\ current'[i].revision = current[i].revision
        /\ current'[i].old = current[i].old /\ current'[i].removed = ChunksOf(key)
    BY <2>3, <2>4 DEF CurrentSound
  <2>6. Pending(i)' = Pending(i) /\ LocksOf(i)' = LocksOf(i)
    BY <1>3 DEF Pending, LocksOf, RowsOf
  <2>7. WriteSound(current[i])'
    <3> PICK w : w = current'[i]
      OBVIOUS
    <3>1. key \in Paths /\ key \in Keys /\ current[i].revision \in Revisions
      BY <1>1, <2>3 DEF CurrentSound, Keys
    <3>2. \A c \in ChunksOf(key) : c.doc = key
      BY DEF ChunksOf
    <3>3. ASSUME current[i].old # Absent
          PROVE  /\ docs[key] # Absent
                 /\ \E a \in Writers, r \in Revisions : ChunksOf(key) = ChunkSet(a, key, r)
      <4>1. docs[key] # Absent
        BY <1>1, <2>3, <3>3 DEF CurrentSound
      <4>2. docs[key].revision \in Revisions
        BY <3>1, <4>1, TypeParts DEF IInv, TypeByParts, TablesTyped, IsDocument
      <4>3. Whole(key)
        BY <3>1, WholeIsWhole DEF IInv
      <4> QED
        BY <4>1, <4>2, <4>3 DEF Whole
    <3>4. WriteSound(w)
      BY <2>5, <3>1, <3>2, <3>3 DEF WriteSound
    <3>5. WriteSound(w)'
      BY <1>1, <3>4, WriteKept, TablesKept
    <3> QED
      BY <3>5 DEF WriteSound
  <2>8. CurrentSound(i)'
    BY <1>1, <2>2, <2>3, <2>5, <2>6, <2>7 DEF CurrentSound
  <2>9. TransactionSound(i)'
    <3>1. QueueSound(i)'
      BY <1>1, <2>6, Own DEF TransactionSound, QueueSound
    <3>2. /\ \A w \in Pending(i)' : WriteSound(w)'
          /\ \A w \in flushed'[i] : ~Conflicts(w)'
      BY <1>1, <1>3, <2>6, Own, TablesKept, WriteKept DEF TransactionSound
    <3> QED
      BY <2>8, <3>1, <3>2 DEF TransactionSound
  <2> QED
    BY <1>1, <1>3, <2>2, <2>6, <2>9, Own, LocalStep DEF Places, Ends
<1> QED
  BY <1>2, <1>3 DEF EmbedDocument

(* A flush takes locks that nobody holds, on rows that do not conflict.    *)
LEMMA StageStep ==
  ASSUME IInv, NEW i \in Ingestions, StageDocument(i)
  PROVE  IInv'
<1> DEFINE w0 == current[i]
<1>1. /\ pc[i] = "write" /\ Go(i, "select")
      /\ UNCHANGED <<docs, chunks, parsed, current, form, updates>>
  BY DEF StageDocument
<1>2. OthersKept(i) /\ pc'[i] = "select"
  BY <1>1, OwnStep DEF StageDocument
<1>3. \/ /\ w0.old = Absent
         /\ staged'[i] = staged[i] \cup {w0} /\ flushed'[i] = flushed[i]
      \/ /\ w0.old # Absent
         /\ ~Waits(i, {w.key : w \in staged[i]} \cup {w0.key})
         /\ \A w \in staged[i] : ~Conflicts(w)
         /\ staged'[i] = {w0} /\ flushed'[i] = flushed[i] \cup staged[i]
  BY Own DEF StageDocument
<1>4. Pending(i)' = Pending(i) \cup {w0}
  BY <1>3 DEF Pending
<1>5. WriteSound(w0) /\ QueueSound(i) /\ CurrentSound(i)
  BY <1>1, Own DEF TransactionSound, CurrentSound
<1>6. QueueSound(i)'
  BY <1>1, <1>4, <1>5 DEF QueueSound, CurrentSound
<1>7. CurrentSound(i)'
  BY <1>1, <1>2, <1>5 DEF CurrentSound
<1>8. /\ \A w \in Pending(i)' : WriteSound(w)'
      /\ \A w \in flushed'[i] : ~Conflicts(w)'
  BY <1>1, <1>3, <1>4, <1>5, Own, TablesKept, WriteKept DEF TransactionSound
<1>9. LocksOf(i)' \subseteq LocksOf(i) \cup
        (IF w0.old = Absent THEN {} ELSE {w.key : w \in staged[i]} \cup {w0.key})
  <2>1. CASE /\ w0.old = Absent
             /\ staged'[i] = staged[i] \cup {w0} /\ flushed'[i] = flushed[i]
    BY <2>1 DEF LocksOf, RowsOf
  <2>2. CASE /\ w0.old # Absent
             /\ staged'[i] = {w0} /\ flushed'[i] = flushed[i] \cup staged[i]
    BY <2>2 DEF LocksOf, RowsOf
  <2> QED
    BY <1>3, <2>1, <2>2
<1>10. \A j \in Ingestions \ {i} : LocksOf(i)' \intersect LocksOf(j) = {}
  BY <1>3, <1>9, Own DEF Waits
<1> QED
  BY <1>1, <1>2, <1>6, <1>7, <1>8, <1>10, LocalStep DEF TransactionSound, Places, Ends

-----------------------------------------------------------------------------
(* WholeIsWhole of the next state.                                         *)
LEMMA WholeIsWholeNext == DocumentWhole' <=> \A key \in Keys : Whole(key)'
BY DEF DocumentWhole, Whole, ChunkSet, Writers

(* The row of a committed write has its revision; it is never shared.      *)
LEMMA RowAfterSound ==
  ASSUME IInv, NEW w, WriteSound(w)
  PROVE  /\ IsDocument(RowAfter(w)) /\ RowAfter(w) # Absent
         /\ DOMAIN RowAfter(w) = RowFields
         /\ RowAfter(w).shared = FALSE /\ RowAfter(w).revision = w.revision
<1>1. w.revision \in Revisions /\ w.key \in Paths /\ w.key \in Keys
  BY DEF WriteSound, Keys
<1>2. CASE w.old = Absent
  <2>1. RowAfter(w) = LegacyRow(w.revision)
    BY <1>2 DEF RowAfter
  <2> QED
    BY <1>1, <2>1, KnowledgeAssumption, RowPresent
       DEF LegacyRow, IsDocument, RowFields, CompatibilityService
<1>3. CASE w.old # Absent
  <2> DEFINE row == docs[w.key]
  <2>1. row # Absent
    BY <1>3 DEF WriteSound
  <2>2. DOMAIN row = RowFields /\ row.shared = FALSE /\ IsDocument(row)
    BY <1>1, <2>1, TypeParts
       DEF IInv, RowsSound, RowSound, TypeByParts, TablesTyped
  <2>3. RowAfter(w) = Updated(row, w.old, w.revision)
    BY <1>3 DEF RowAfter
  <2>4. /\ DOMAIN RowAfter(w) = RowFields
        /\ RowAfter(w).revision = w.revision /\ RowAfter(w).shared = FALSE
        /\ RowAfter(w).owner = row.owner /\ RowAfter(w).status = row.status
    BY <2>2, <2>3 DEF Updated, RowFields
  <2> QED
    BY <1>1, <2>2, <2>4, RowPresent DEF IsDocument
<1> QED
  BY <1>2, <1>3

(* The chunks made for a write belong to its document, and are well typed. *)
LEMMA ChunkSetSound ==
  ASSUME NEW a, NEW key \in Keys, NEW r \in Revisions, NEW c \in ChunkSet(a, key, r)
  PROVE  IsChunk(c) /\ c.doc = key /\ c.by = a
BY DEF ChunkSet, IsChunk, Indices

(* The commit replaces every document it touches by a whole revision and   *)
(* leaves the others as they were.                                         *)
LEMMA CommitEffect ==
  ASSUME IInv, NEW i \in Ingestions, CommitIngestion(i)
  PROVE  /\ DOMAIN docs' = Keys
         /\ \A w \in Pending(i) :
              docs'[w.key] = RowAfter(w) /\ ChunksOf(w.key)' = ChunkSet(i, w.key, w.revision)
         /\ \A key \in Keys : (\A w \in Pending(i) : w.key # key)
              => docs'[key] = docs[key] /\ ChunksOf(key)' = ChunksOf(key)
         /\ chunks' \subseteq chunks
              \cup UNION {ChunkSet(i, w.key, w.revision) : w \in Pending(i)}
<1> DEFINE W == Pending(i)
<1>1. /\ docs' = [key \in Keys |->
             IF \E w \in W : w.key = key
               THEN RowAfter(CHOOSE w \in W : w.key = key) ELSE docs[key]]
      /\ chunks' = (chunks \ UNION {w.removed : w \in W})
                      \cup UNION {NewChunks(i, w.key, w.revision) : w \in W}
  <2>1. W = flushed[i] \cup staged[i]
    BY DEF Pending
  <2> QED
    BY <2>1 DEF CommitIngestion, Committed, Publish
<1>2. \A w \in W : NewChunks(i, w.key, w.revision) = ChunkSet(i, w.key, w.revision)
  BY NewChunksAreSet DEF Actors
<1>3. \A w \in W : WriteSound(w) /\ ~Conflicts(w)
  BY Own DEF TransactionSound, CommitIngestion, Committed, Pending
<1>4. \A v, w \in W : v.key = w.key => v = w
  BY Own DEF TransactionSound, QueueSound
<1>5. \A w \in W : w.key \in Keys /\ w.revision \in Revisions
  BY <1>3 DEF WriteSound, Keys
<1>6. ASSUME NEW w \in W
      PROVE  docs'[w.key] = RowAfter(w)
  <2>1. (CHOOSE v \in W : v.key = w.key) = w
    BY <1>4
  <2> QED
    BY <1>1, <1>5, <2>1
<1>7. ASSUME NEW w \in W
      PROVE  ChunksOf(w.key)' = ChunkSet(i, w.key, w.revision)
  <2>1. ChunksOf(w.key) \subseteq w.removed
    BY <1>3, <1>5, NoConflictRemovesAll, WholeIsWhole DEF IInv
  <2>2. \A c \in ChunksOf(w.key)' : c \in ChunkSet(i, w.key, w.revision)
    <3> SUFFICES ASSUME NEW c \in chunks', c.doc = w.key
                 PROVE  c \in ChunkSet(i, w.key, w.revision)
      BY DEF ChunksOf
    <3>1. c \notin chunks \ UNION {v.removed : v \in W}
      BY <2>1 DEF ChunksOf
    <3>2. PICK v \in W : c \in ChunkSet(i, v.key, v.revision)
      BY <1>1, <1>2, <3>1
    <3>3. v = w
      BY <1>4, <1>5, <3>2, ChunkSetSound
    <3> QED
      BY <3>2, <3>3
  <2>3. \A c \in ChunkSet(i, w.key, w.revision) : c \in chunks' /\ c.doc = w.key
    BY <1>1, <1>2, <1>5, ChunkSetSound
  <2> QED
    BY <2>2, <2>3 DEF ChunksOf
<1>8. ASSUME NEW key \in Keys, \A w \in W : w.key # key
      PROVE  docs'[key] = docs[key] /\ ChunksOf(key)' = ChunksOf(key)
  <2>1. \A w \in W : \A c \in w.removed : c.doc # key
    BY <1>3, <1>8 DEF WriteSound
  <2>2. \A w \in W : \A c \in ChunkSet(i, w.key, w.revision) : c.doc # key
    BY <1>5, <1>8, ChunkSetSound
  <2>3. ChunksOf(key)' = ChunksOf(key)
    BY <1>1, <1>2, <2>1, <2>2 DEF ChunksOf
  <2> QED
    BY <1>1, <1>8, <2>3
<1> QED
  BY <1>1, <1>2, <1>6, <1>7, <1>8

(* A commit preserves the invariant.                                       *)
LEMMA CommitStep ==
  ASSUME IInv, NEW i \in Ingestions, CommitIngestion(i)
  PROVE  IInv'
<1> DEFINE W == Pending(i)
<1> PICK end \in {"done", "misreported"} : Go(i, end)
  BY DEF CommitIngestion, Committed
<1>1. /\ pc[i] = "select" /\ Go(i, end) /\ ~Waits(i, {w.key : w \in staged[i]})
      /\ UNCHANGED <<parsed, current, form, updates>>
  BY DEF CommitIngestion, Committed
<1>2. OthersKept(i) /\ pc'[i] = end
  BY <1>1, OwnStep DEF CommitIngestion, Committed
<1>3. staged'[i] = {} /\ flushed'[i] = {}
  BY Own DEF CommitIngestion, Committed
<1>4. \A w \in W : WriteSound(w) /\ w.key \in Paths /\ w.key \in Keys /\ w.revision \in Revisions
  BY Own DEF TransactionSound, WriteSound, Keys
<1>5. pc \in [Actors -> Places] /\ pc' \in [Actors -> Places] /\ TablesTyped
  BY <1>1, TypeParts DEF IInv, TypeByParts, Go, Places, Ends, Actors
<1>6. ASSUME NEW key \in Keys
      PROVE  \/ docs'[key] = docs[key] /\ ChunksOf(key)' = ChunksOf(key)
             \/ \E w \in W : /\ w.key = key /\ docs'[key] = RowAfter(w)
                             /\ ChunksOf(key)' = ChunkSet(i, key, w.revision)
  BY CommitEffect
<1>7. TypeOK'
  <2>1. ASSUME NEW key \in Keys
        PROVE  docs'[key] = Absent \/ IsDocument(docs'[key])
    <3>1. CASE docs'[key] = docs[key]
      BY <1>5, <3>1 DEF TablesTyped
    <3>2. ASSUME NEW w \in W, docs'[key] = RowAfter(w)
          PROVE  IsDocument(docs'[key])
      BY <1>4, <3>2, RowAfterSound
    <3> QED
      BY <1>6, <3>1, <3>2
  <2>2. \A c \in chunks' : IsChunk(c)
    BY <1>4, <1>5, CommitEffect, ChunkSetSound DEF TablesTyped
  <2>3. TablesTyped'
    BY <2>1, <2>2, CommitEffect DEF TablesTyped, IsDocument, IsChunk
  <2>4. \A j \in Ingestions : LockSound(j)'
    <3>1. LocksOf(i)' = {}
      BY <1>3 DEF LocksOf, RowsOf
    <3>2. \A j \in Ingestions : LockSound(j)
      BY TypeParts DEF IInv, TypeByParts
    <3> QED
      BY <1>2, <1>3, <3>1, <3>2, LocksKept
  <2>5. updates' \in 0..MaxUpdates
    BY <1>1, TypeParts DEF IInv, TypeByParts
  <2> QED
    BY <1>5, <2>3, <2>4, <2>5, TypePartsNext DEF TypeByParts
<1>8. DocumentWhole'
  <2>1. ASSUME NEW key \in Keys
        PROVE  Whole(key)'
    <3>1. CASE docs'[key] = docs[key] /\ ChunksOf(key)' = ChunksOf(key)
      BY <3>1, WholeIsWhole DEF IInv, Whole
    <3>2. ASSUME NEW w \in W, w.key = key, docs'[key] = RowAfter(w),
                 ChunksOf(key)' = ChunkSet(i, key, w.revision)
          PROVE  Whole(key)'
      BY <1>4, <3>2, RowAfterSound DEF Whole, Writers, Actors
    <3> QED
      BY <1>6, <3>1, <3>2
  <2> QED
    BY <2>1, WholeIsWholeNext
<1>9. RowsSound'
  <2>1. ASSUME NEW key \in Keys
        PROVE  RowSound(key)'
    <3>1. CASE docs'[key] = docs[key]
      BY <3>1 DEF IInv, RowsSound, RowSound
    <3>2. ASSUME NEW w \in W, docs'[key] = RowAfter(w)
          PROVE  RowSound(key)'
      BY <1>4, <3>2, RowAfterSound DEF RowSound
    <3> QED
      BY <1>6, <3>1, <3>2
  <2> QED
    BY <2>1 DEF RowsSound
<1>10. AllOrNothing'
  <2>1. \A c \in chunks' : c \in chunks \/ c.by = i
    BY <1>4, CommitEffect, ChunkSetSound
  <2> QED
    BY <1>2, <1>1, <1>5, <2>1 DEF IInv, AllOrNothing, Go, Actors
<1>11. FormsSound'
  <2>1. ASSUME NEW u \in Uploads
        PROVE  FormSound(u)'
    <3>1. pc'[u] = pc[u] /\ form'[u] = form[u]
      BY <1>1, <1>5, KnowledgeAssumption DEF Go, Actors
    <3>2. u \in Keys /\ u \notin Paths
      BY KnowledgeAssumption DEF Keys
    <3>3. docs'[u] = docs[u]
      BY <1>4, <3>2, CommitEffect
    <3> QED
      BY <3>1, <3>3 DEF IInv, FormsSound, FormSound, Acceptable
  <2> QED
    BY <1>1, <2>1 DEF IInv, FormsSound
<1>12. DocumentsStay
  BY <1>4, <1>6, RowAfterSound DEF DocumentsStay
<1>13. TransactionSound(i)'
  BY <1>1, <1>2, <1>3, Own DEF TransactionSound, QueueSound, CurrentSound, Pending
<1>14. ASSUME NEW j \in Ingestions \ {i}
       PROVE  TransactionSound(j)'
  <2>1. TransactionSound(j)
    BY Own
  <2>2. ASSUME NEW w \in flushed[j]
        PROVE  ~Conflicts(w)'
    <3>1. w.key \in LocksOf(j) /\ w.key \in Keys
      BY <2>1 DEF LocksOf, RowsOf, TransactionSound, WriteSound, Pending, Keys
    <3>2. \A v \in W : v.key # w.key
      <4>1. \A v \in flushed[i] : v.key \in LocksOf(i)
        BY DEF LocksOf, RowsOf
      <4>2. LocksOf(i) \intersect LocksOf(j) = {}
        BY Own
      <4>3. \A v \in staged[i] : v.key \notin LocksOf(j)
        BY <1>1 DEF Waits
      <4> QED
        BY <3>1, <4>1, <4>2, <4>3 DEF Pending
    <3>3. docs'[w.key] = docs[w.key] /\ ChunksOf(w.key)' = ChunksOf(w.key)
      BY <3>1, <3>2, CommitEffect
    <3> QED
      BY <2>1, <3>3, NoConflictKept DEF TransactionSound
  <2> QED
    BY <1>2, <1>12, <2>1, <2>2, TransactionKept DEF OthersKept
<1> QED
  BY <1>2, <1>7, <1>8, <1>9, <1>10, <1>11, <1>13, <1>14
     DEF IInv, TransactionsSound, OthersKept

(* What a step on the tables keeps when it leaves the command's writes and *)
(* the documents they are about as they were.                              *)
LEMMA TransactionsKept ==
  ASSUME IInv, DocumentsStay, UNCHANGED ingestVars,
         \A j \in Ingestions : pc'[j] = pc[j],
         \A key \in Paths : ChunksOf(key)' = ChunksOf(key),
         \A key \in Paths : (docs'[key] = Absent) <=> (docs[key] = Absent)
  PROVE  TransactionsSound' /\ \A j \in Ingestions : LockSound(j)'
<1>1. ASSUME NEW j \in Ingestions
      PROVE  TransactionSound(j)'
  <2>1. TransactionSound(j)
    BY Own
  <2>2. ASSUME NEW w \in flushed[j]
        PROVE  ~Conflicts(w)'
    <3>1. ~Conflicts(w) /\ w.key \in Paths
      BY <2>1 DEF TransactionSound, WriteSound, Pending
    <3>2. ChunksOf(w.key)' = ChunksOf(w.key)
      BY <3>1
    <3>3. (docs'[w.key] = Absent) <=> (docs[w.key] = Absent)
      BY <3>1
    <3> QED
      BY <3>1, <3>2, <3>3, NoConflictKept
  <2> QED
    BY <2>1, <2>2, TransactionKept DEF ingestVars
<1>2. \A j \in Ingestions : LockSound(j)'
  BY TypeParts DEF IInv, TypeByParts, LockSound, LocksOf, RowsOf, ingestVars
<1> QED
  BY <1>1, <1>2 DEF IInv, TransactionsSound, ingestVars

(* An upload inserts its own document whole.                               *)
LEMMA InsertStep ==
  ASSUME IInv, NEW u \in Uploads, InsertUpload(u)
  PROVE  IInv'
<1> DEFINE row == UploadedRow(form[u])
           r == form[u].revision
<1>1. pc[u] = "insert" /\ UNCHANGED <<ingestVars, form, updates>>
  BY DEF InsertUpload
<1>2. u \in Actors /\ u \in Keys /\ u \notin Paths /\ u \notin Ingestions
  BY KnowledgeAssumption DEF Actors, Keys
<1>3. pc \in [Actors -> Places] /\ TablesTyped /\ updates \in 0..MaxUpdates
  BY TypeParts DEF IInv, TypeByParts
<1>4. form[u] \in Metadata /\ Acceptable(form[u]) /\ r \in Revisions
  BY <1>1, KnowledgeAssumption DEF IInv, FormsSound, FormSound
<1>5. /\ IsDocument(row) /\ row # Absent /\ DOMAIN row = RowFields /\ row.revision = r
  BY <1>4, KnowledgeAssumption, RowPresent DEF UploadedRow, IsDocument, RowFields, Acceptable
<1>6. CASE Go(u, "failed") /\ UNCHANGED <<docs, chunks>>
  <2>1. FormsSound'
    BY <1>1, <1>3, <1>6 DEF IInv, FormsSound, FormSound, Go, Actors
  <2> QED
    BY <1>1, <1>6, <2>1, QuietStep DEF Places, Ends
<1>7. ASSUME NEW p \in {"done", "misreported"}, Go(u, p),
             docs' = [docs EXCEPT ![u] = row],
             chunks' = chunks \cup NewChunks(u, u, r)
      PROVE  IInv'
  <2>1. pc' \in [Actors -> Places] /\ \A j \in Ingestions : pc'[j] = pc[j]
    BY <1>2, <1>3, <1>7 DEF Go, Places, Ends, Actors
  <2>2. chunks' = chunks \cup ChunkSet(u, u, r)
    BY <1>2, <1>7, NewChunksAreSet
  <2>3. DOMAIN docs' = Keys /\ docs'[u] = row /\ \A key \in Keys \ {u} : docs'[key] = docs[key]
    BY <1>2, <1>3, <1>7 DEF TablesTyped
  <2>4. \A key \in Keys \ {u} : ChunksOf(key)' = ChunksOf(key)
    BY <1>2, <1>4, <2>2, ChunkSetSound DEF ChunksOf
  <2>5. ChunksOf(u) = {}
    <3>1. \A c \in chunks : c.by # u
      BY <1>1 DEF IInv, AllOrNothing
    <3>2. docs[u] = Absent
      BY <1>1 DEF IInv, FormsSound, FormSound
    <3> QED
      BY <1>2, <3>2, WholeIsWhole DEF IInv, Whole
  <2>6. ChunksOf(u)' = ChunkSet(u, u, r)
    BY <1>2, <1>4, <2>2, <2>5, ChunkSetSound DEF ChunksOf
  <2>7. DocumentsStay /\ TransactionsSound' /\ \A j \in Ingestions : LockSound(j)'
    <3>1. DocumentsStay
      BY <1>5, <2>3 DEF DocumentsStay
    <3>2. /\ \A key \in Paths : ChunksOf(key)' = ChunksOf(key)
          /\ \A key \in Paths : (docs'[key] = Absent) <=> (docs[key] = Absent)
      BY <1>2, <2>3, <2>4 DEF Keys
    <3> QED
      BY <1>1, <2>1, <3>1, <3>2, TransactionsKept
  <2>8. TypeOK'
    <3>1. \A key \in Keys : docs'[key] = Absent \/ IsDocument(docs'[key])
      BY <1>3, <1>5, <2>3 DEF TablesTyped
    <3>2. \A c \in chunks' : IsChunk(c)
      BY <1>2, <1>3, <1>4, <2>2, ChunkSetSound DEF TablesTyped
    <3>3. TablesTyped'
      BY <2>3, <3>1, <3>2 DEF TablesTyped, IsDocument, IsChunk
    <3> QED
      BY <1>1, <1>3, <2>1, <2>7, <3>3, TypePartsNext DEF TypeByParts
  <2>9. DocumentWhole'
    <3>1. ASSUME NEW key \in Keys \ {u}
          PROVE  Whole(key)'
      BY <2>3, <2>4, WholeIsWhole DEF IInv, Whole
    <3>2. Whole(u)'
      BY <1>2, <1>5, <2>3, <2>6 DEF Whole, Writers
    <3> QED
      BY <3>1, <3>2, WholeIsWholeNext
  <2>10. RowsSound'
    BY <1>2, <1>5, <2>3 DEF IInv, RowsSound, RowSound
  <2>11. AllOrNothing'
    <3>1. \A c \in chunks' : c \in chunks \/ c.by = u
      BY <1>2, <1>4, <2>2, ChunkSetSound
    <3>2. pc'[u] = p /\ \A a \in Actors \ {u} : pc'[a] = pc[a]
      BY <1>2, <1>3, <1>7 DEF Go
    <3> QED
      BY <3>1, <3>2 DEF IInv, AllOrNothing, Actors
  <2>12. FormsSound'
    <3>1. ASSUME NEW v \in Uploads
          PROVE  FormSound(v)'
      <4>1. v \in Keys /\ v \in Actors
        BY DEF Keys, Actors
      <4>2. CASE v = u
        BY <1>2, <1>3, <1>7, <4>2 DEF FormSound, Go
      <4>3. CASE v # u
        BY <1>1, <1>3, <1>7, <2>3, <4>1, <4>3 DEF IInv, FormsSound, FormSound, Acceptable, Go
      <4> QED
        BY <4>2, <4>3
    <3> QED
      BY <1>1, <3>1 DEF IInv, FormsSound
  <2> QED
    BY <2>7, <2>8, <2>9, <2>10, <2>11, <2>12 DEF IInv
<1> QED
  BY <1>6, <1>7 DEF InsertUpload

(* The status endpoint changes nothing that the transactions rely on.      *)
LEMMA StatusStep ==
  ASSUME IInv, NEW key \in Keys, UpdateStatus(key)
  PROVE  IInv'
<1>1. /\ UNCHANGED <<chunks, pc, ingestVars, form>> /\ docs[key] # Absent
      /\ updates < MaxUpdates /\ updates' = updates + 1
  BY DEF UpdateStatus
<1>2. PICK s \in {"enabled", "disabled"} : docs' = [docs EXCEPT ![key].status = s]
  BY DEF UpdateStatus
<1>3. pc \in [Actors -> Places] /\ TablesTyped /\ updates \in 0..MaxUpdates
  BY TypeParts DEF IInv, TypeByParts
<1> DEFINE row == [docs[key] EXCEPT !.status = s]
<1>4. /\ DOMAIN docs' = Keys /\ docs'[key] = row
      /\ \A k \in Keys \ {key} : docs'[k] = docs[k]
  BY <1>2, <1>3 DEF TablesTyped
<1>5. IsDocument(docs[key]) /\ DOMAIN docs[key] = RowFields
  BY <1>1, <1>3 DEF IInv, RowsSound, RowSound, TablesTyped
<1>6. /\ DOMAIN row = RowFields /\ row.revision = docs[key].revision
      /\ row.shared = docs[key].shared /\ row.owner = docs[key].owner
      /\ row.service = docs[key].service /\ row.status = s
  BY <1>5 DEF RowFields
<1>7. IsDocument(row) /\ row # Absent
  BY <1>5, <1>6, RowPresent DEF IsDocument
<1>8. \A k : ChunksOf(k)' = ChunksOf(k)
  BY <1>1 DEF ChunksOf
<1>9. \A k \in Keys : (docs'[k] = Absent) <=> (docs[k] = Absent)
  BY <1>1, <1>4, <1>7
<1>10. TransactionsSound' /\ \A j \in Ingestions : LockSound(j)'
  <2>1. DocumentsStay
    BY <1>9 DEF DocumentsStay
  <2> QED
    BY <1>1, <1>8, <1>9, <2>1, TransactionsKept DEF Keys
<1>11. TypeOK'
  <2>1. \A k \in Keys : docs'[k] = Absent \/ IsDocument(docs'[k])
    BY <1>3, <1>4, <1>7 DEF TablesTyped
  <2>2. TablesTyped'
    BY <1>1, <1>3, <1>4, <2>1 DEF TablesTyped, IsDocument, IsChunk
  <2>3. updates' \in 0..MaxUpdates
    BY <1>1, <1>3, KnowledgeAssumption
  <2> QED
    BY <1>1, <1>3, <1>10, <2>2, <2>3, TypePartsNext DEF TypeByParts
<1>12. DocumentWhole'
  <2>1. ASSUME NEW k \in Keys
        PROVE  Whole(k)'
    <3>1. docs'[k].revision = docs[k].revision
      BY <1>4, <1>6
    <3> QED
      BY <1>8, <1>9, <3>1, WholeIsWhole DEF IInv, Whole
  <2> QED
    BY <2>1, WholeIsWholeNext
<1>13. RowsSound' /\ AllOrNothing'
  BY <1>1, <1>4, <1>6 DEF IInv, RowsSound, RowSound, AllOrNothing
<1>14. FormsSound'
  BY <1>1, <1>9 DEF IInv, FormsSound, FormSound, Acceptable, Keys
<1> QED
  BY <1>10, <1>11, <1>12, <1>13, <1>14 DEF IInv

-----------------------------------------------------------------------------
(* The first state satisfies the invariant.                                *)
LEMMA InitIInv == Init => IInv
<1> SUFFICES ASSUME Init PROVE IInv
  OBVIOUS
<1>1. Indexed \in Keys /\ Indexed \in Paths /\ Original \in Revisions
  BY KnowledgeAssumption DEF Keys
<1>2. chunks = ChunkSet("earlier", Indexed, Original)
  BY DEF Init, ChunkSet
<1>3. docs = [key \in Keys |-> IF key = Indexed THEN LegacyRow(Original) ELSE Absent]
  BY DEF Init
<1>4. \A i \in Ingestions : staged[i] = {} /\ flushed[i] = {} /\ parsed[i] = {}
  BY DEF Init
<1>5. pc \in [Actors -> Places] /\ \A a \in Actors : pc[a] = "idle"
  BY DEF Init, Places
<1>6. LegacyRow(Original).revision = Original
  BY DEF LegacyRow
<1>7. IsDocument(LegacyRow(Original)) /\ LegacyRow(Original) # Absent
  BY <1>1, <1>6, RowPresent, KnowledgeAssumption DEF LegacyRow, IsDocument, CompatibilityService
<1>8. TablesTyped
  <2>1. \A c \in chunks : IsChunk(c)
    BY <1>1, <1>2, ChunkSetSound
  <2> QED
    BY <1>3, <1>7, <2>1 DEF TablesTyped
<1>9. TypeOK
  <2>1. \A i \in Ingestions : LocksOf(i) = {}
    BY <1>4 DEF LocksOf, RowsOf
  <2>2. \A i \in Ingestions : LockSound(i)
    BY <1>4, <2>1 DEF LockSound
  <2>3. updates \in 0..MaxUpdates
    BY KnowledgeAssumption DEF Init
  <2> QED
    BY <1>5, <1>8, <2>2, <2>3, TypeParts DEF TypeByParts
<1>10. DocumentWhole
  <2>1. ASSUME NEW key \in Keys
        PROVE  Whole(key)
    <3>1. CASE key = Indexed
      <4>1. ChunksOf(key) = ChunkSet("earlier", Indexed, Original)
        BY <1>1, <1>2, <3>1, ChunkSetSound DEF ChunksOf
      <4> QED
        BY <1>3, <1>6, <1>7, <3>1, <4>1 DEF Whole, Writers
    <3>2. CASE key # Indexed
      <4>1. ChunksOf(key) = {}
        BY <1>1, <1>2, <3>2, ChunkSetSound DEF ChunksOf
      <4> QED
        BY <1>3, <3>2, <4>1 DEF Whole
    <3> QED
      BY <3>1, <3>2
  <2> QED
    BY <2>1, WholeIsWhole
<1>11. AllOrNothing
  <2>1. \A c \in chunks : c.by = "earlier"
    BY <1>1, <1>2, ChunkSetSound
  <2> QED
    BY <2>1, KnowledgeAssumption DEF AllOrNothing, Actors
<1>12. RowsSound
  BY <1>3 DEF RowsSound, RowSound, RowFields, LegacyRow
<1>13. FormsSound
  <2>1. DOMAIN form = Uploads
    BY DEF Init
  <2>2. ASSUME NEW u \in Uploads
        PROVE  FormSound(u)
    <3>1. u \in Keys /\ u \in Actors /\ u # Indexed
      BY KnowledgeAssumption DEF Keys, Actors
    <3> QED
      BY <1>3, <1>5, <3>1 DEF FormSound
  <2> QED
    BY <2>1, <2>2 DEF FormsSound
<1>14. TransactionsSound
  <2>1. ASSUME NEW i \in Ingestions
        PROVE  TransactionSound(i)
    <3>1. DOMAIN current[i] = {"key", "revision", "old", "removed"}
      BY DEF Init, NoWrite, NewWrite
    <3>2. pc[i] = "idle"
      BY <1>5 DEF Actors
    <3> QED
      BY <1>4, <3>1, <3>2 DEF TransactionSound, QueueSound, CurrentSound, Pending
  <2> QED
    BY <2>1 DEF TransactionsSound, Init
<1> QED
  BY <1>9, <1>10, <1>11, <1>12, <1>13, <1>14 DEF IInv

(* Steps that change nothing the invariant speaks of.                      *)
LEMMA StutterStep ==
  ASSUME IInv, UNCHANGED <<docs, chunks, pc, ingestVars, form, updates>>
  PROVE  IInv'
<1>1. DocumentsStay
  BY DEF DocumentsStay
<1>2. TransactionsSound' /\ \A j \in Ingestions : LockSound(j)'
  <2>1. \A key \in Paths : ChunksOf(key)' = ChunksOf(key)
    BY DEF ChunksOf
  <2> QED
    BY <1>1, <2>1, TransactionsKept
<1>3. TypeOK'
  BY <1>2, TablesKept, TypeParts, TypePartsNext DEF IInv, TypeByParts
<1> QED
  BY <1>2, <1>3, TablesKept
     DEF IInv, AllOrNothing, FormsSound, FormSound, Acceptable

(* A step of an ingestion.                                                 *)
LEMMA IngestionPreserves ==
  ASSUME IInv, NEW i \in Ingestions, IngestionStep(i)
  PROVE  IInv'
<1>1. CASE FlushFails(i)
  BY <1>1, RollbackStep DEF FlushFails
<1>2. CASE StopIngestion(i)
  BY <1>2, RollbackStep DEF StopIngestion
<1> QED
  BY <1>1, <1>2, CollectStep, SelectStep, EmbedStep, StageStep, CommitStep DEF IngestionStep

(* A step of an upload.                                                    *)
LEMMA UploadPreserves ==
  ASSUME IInv, NEW u \in Uploads, UploadStep(u)
  PROVE  IInv'
<1>1. pc \in [Actors -> Places] /\ u \in Actors
  BY TypeParts DEF IInv, TypeByParts, Actors
<1>2. CASE ReceiveUpload(u)
  <2>1. PICK m \in Metadata :
          form' = [form EXCEPT ![u] = m] /\ Go(u, IF Acceptable(m) THEN "embed" ELSE "failed")
    BY <1>2 DEF ReceiveUpload
  <2>2. pc[u] = "idle" /\ UNCHANGED <<docs, chunks, ingestVars, updates>>
    BY <1>2 DEF ReceiveUpload
  <2>3. FormsSound'
    <3>1. DOMAIN form' = Uploads /\ form'[u] = m /\ \A v \in Uploads \ {u} : form'[v] = form[v]
      BY <2>1 DEF IInv, FormsSound
    <3>2. ASSUME NEW v \in Uploads
          PROVE  FormSound(v)'
      BY <1>1, <2>1, <2>2, <3>1 DEF IInv, FormsSound, FormSound, Acceptable, Go, Actors
    <3> QED
      BY <3>1, <3>2 DEF FormsSound
  <2> QED
    BY <2>1, <2>2, <2>3, QuietStep DEF Places, Ends
<1>3. CASE EmbedUpload(u)
  <2>1. PICK p \in {"insert", "failed"} : Go(u, p)
    BY <1>3 DEF EmbedUpload
  <2>2. pc[u] = "embed" /\ UNCHANGED <<docs, chunks, ingestVars, form, updates>>
    BY <1>3 DEF EmbedUpload
  <2>3. FormsSound'
    BY <1>1, <2>1, <2>2 DEF IInv, FormsSound, FormSound, Acceptable, Go, Actors
  <2> QED
    BY <2>1, <2>2, <2>3, QuietStep DEF Places, Ends
<1> QED
  BY <1>2, <1>3, InsertStep DEF UploadStep

(* A step of a search reads the tables only.                               *)
LEMMA SearchPreserves ==
  ASSUME IInv, NEW q \in Searches, SearchStep(q)
  PROVE  IInv'
<1>1. pc \in [Actors -> Places] /\ q \in Actors
  BY TypeParts DEF IInv, TypeByParts, Actors
<1>2. /\ pc[q] \notin Ends /\ UNCHANGED <<docs, chunks, ingestVars, form, updates>>
      /\ \E p \in {"dimensions", "vector", "keyword", "done", "failed"} : Go(q, p)
  BY DEF SearchStep, BeginSearch, ReadDimensions, ReadVectors, ReadKeywords, Ends
<1>3. PICK p \in {"dimensions", "vector", "keyword", "done", "failed"} : Go(q, p)
  BY <1>2
<1>4. FormsSound'
  <2>1. \A u \in Uploads : pc'[u] = pc[u]
    BY <1>1, <1>3, KnowledgeAssumption DEF Go, Actors
  <2> QED
    BY <1>2, <2>1 DEF IInv, FormsSound, FormSound, Acceptable
<1> QED
  BY <1>2, <1>3, <1>4, QuietStep DEF Places, Ends

(* Every step preserves the invariant.                                     *)
LEMMA NextIInv == IInv /\ [Next]_vars => IInv'
<1> SUFFICES ASSUME IInv, [Next]_vars PROVE IInv'
  OBVIOUS
<1>1. CASE Finished \/ UNCHANGED vars
  BY <1>1, StutterStep DEF Finished, vars
<1>2. ASSUME NEW key \in Keys, UpdateStatus(key)
      PROVE  IInv'
  BY <1>2, StatusStep
<1> QED
  BY <1>1, <1>2, IngestionPreserves, UploadPreserves, SearchPreserves DEF Next, Step

(* The invariant holds in every reachable state.                           *)
LEMMA Inductive == Spec => []IInv
BY InitIInv, NextIInv, PTL DEF Spec

(* The tables only hold rows that their CHECK constraints allow, and no    *)
(* two ingestions ever hold uncommitted writes of the same document.       *)
THEOREM TypeCorrect == Spec => []TypeOK
BY Inductive, PTL DEF IInv

(* A committed document holds all the chunks of its revision and no other, *)
(* however many ingestions race and wherever they fail (ingest_documents). *)
THEOREM DocumentsAreWhole == Spec => []DocumentWhole
BY Inductive, PTL DEF IInv

(* Nothing of a run that has not committed can be found.                   *)
THEOREM RunsAreAtomic == Spec => []AllOrNothing
BY Inductive, PTL DEF IInv

-----------------------------------------------------------------------------
(* Searches.  What a search has read so far it was allowed to find at some *)
(* moment: the history only grows.                                         *)
SearchSound(q) ==
  /\ ToSet(ranked[q]) \subseteq eligible[q]
  /\ Len(results[q]) <= TopK
  /\ Cardinality(ToSet(results[q])) = Len(results[q])
  /\ ToSet(results[q]) \subseteq eligible[q]

SearchesSound ==
  /\ DOMAIN ranked = Searches /\ DOMAIN results = Searches
  /\ \A q \in Searches : SearchSound(q)

(* The elements of a sequence that names each of its elements once.        *)
LEMMA DistinctElements ==
  ASSUME NEW S, NEW n \in Nat, NEW s \in [1..n -> S], IsInjective(s)
  PROVE  Len(s) = n /\ ToSet(s) \subseteq S /\ Cardinality(ToSet(s)) = n
<1>1. s \in Seq(S) /\ Len(s) = n /\ DOMAIN s = 1..n
  OBVIOUS
<1>2. ToSet(s) = {s[i] : i \in 1..n}
  BY <1>1 DEF ToSet
<1>3. s \in Bijection(1..n, ToSet(s))
  BY <1>2 DEF IsInjective, Bijection, Injection, Surjection
<1>4. ExistsBijection(1..n, ToSet(s))
  BY <1>3 DEF ExistsBijection
<1>5. IsFiniteSet(1..n) /\ Cardinality(1..n) = n
  BY FS_Interval
<1> QED
  BY <1>1, <1>2, <1>4, <1>5, FS_Bijection

(* A ranking lists elements of its set, each once, and no more than asked. *)
LEMMA VectorRanking ==
  ASSUME NEW S, NEW n \in Nat, NEW s \in Rankings(S, Nearer, n)
  PROVE  ToSet(s) \subseteq S
<1>1. PICK k \in 0..n : s \in [1..k -> S]
  BY DEF Rankings, SeqOf
<1> QED
  BY <1>1, DistinctElements DEF Rankings

LEMMA KeywordRanking ==
  ASSUME NEW S, NEW n \in Nat, NEW s \in Rankings(S, Matches, n)
  PROVE  ToSet(s) \subseteq S
<1>1. PICK k \in 0..n : s \in [1..k -> S]
  BY DEF Rankings, SeqOf
<1> QED
  BY <1>1, DistinctElements DEF Rankings

(* So is what the two rankings are fused to.                               *)
LEMMA Fused ==
  ASSUME NEW v, NEW k, NEW s \in Fuse(v, k)
  PROVE  /\ Len(s) <= TopK /\ Cardinality(ToSet(s)) = Len(s)
         /\ ToSet(s) \subseteq ToSet(v) \cup ToSet(k)
<1>1. s \in SeqOf(ToSet(v) \cup ToSet(k), TopK) /\ IsInjective(s)
  BY DEF Fuse, Rankings
<1>2. PICK n \in 0..TopK : s \in [1..n -> ToSet(v) \cup ToSet(k)]
  BY <1>1 DEF SeqOf
<1>3. TopK \in Nat /\ n \in Nat /\ n <= TopK
  BY KnowledgeAssumption
<1>4. /\ Len(s) = n /\ ToSet(s) \subseteq ToSet(v) \cup ToSet(k)
      /\ Cardinality(ToSet(s)) = n
  BY <1>1, <1>2, <1>3, DistinctElements
<1> QED
  BY <1>3, <1>4

(* What the scope filter lets through is allowed, and a search that is not *)
(* over has it recorded.                                                   *)
LEMMA SearchableRecorded ==
  ASSUME IInv, Observe, NEW q \in Searches, pc[q] \notin Ends, pc'[q] # "idle",
         UNCHANGED <<docs, chunks>>, scope'[q] = scope[q]
  PROVE  Searchable(q) \subseteq eligible'[q]
<1> SUFFICES ASSUME NEW c \in Searchable(q)
             PROVE  c \in eligible'[q]
  OBVIOUS
<1>1. c \in chunks /\ InScope(docs[c.doc], scope[q])
  BY DEF Searchable
<1>2. c.doc \in Keys
  BY <1>1 DEF IInv, TypeOK, IsChunk
<1>3. docs[c.doc] # Absent
  BY <1>1, <1>2 DEF IInv, DocumentWhole, ChunksOf
<1>4. Allowed(docs[c.doc], scope[q])
  BY <1>1, <1>3 DEF InScope, Allowed
<1> QED
  BY <1>1, <1>4 DEF Observe

(* The history forgets nothing.                                            *)
LEMMA HistoryGrows ==
  ASSUME Observe, NEW q \in Searches
  PROVE  eligible[q] \subseteq eligible'[q]
BY DEF Observe

(* A search of which a step says nothing stays sound.                      *)
LEMMA SearchKept ==
  ASSUME Observe, NEW q \in Searches, SearchSound(q),
         ranked'[q] = ranked[q], results'[q] = results[q]
  PROVE  SearchSound(q)'
BY HistoryGrows DEF SearchSound

(* The first read: the candidates by distance.                             *)
LEMMA ReadVectorsSound ==
  ASSUME IInv, SearchesSound, Observe, NEW q \in Searches, ReadVectors(q)
  PROVE  SearchesSound'
<1>1. pc \in [Actors -> Places] /\ q \in Actors
  BY TypeParts DEF IInv, TypeByParts, Actors
<1>2. CASE UNCHANGED ranked
  BY <1>2, SearchKept DEF ReadVectors, SearchesSound
<1>3. CASE ~UNCHANGED ranked
  <2>1. PICK s \in Rankings(Searchable(q), Nearer, CandidateLimit) :
          ranked' = [ranked EXCEPT ![q] = s] /\ Go(q, "keyword")
    BY <1>3 DEF ReadVectors
  <2>2. results' = results /\ UNCHANGED <<docs, chunks, scope>> /\ pc[q] = "vector"
    BY DEF ReadVectors
  <2>3. CandidateLimit \in Nat
    BY KnowledgeAssumption DEF CandidateLimit
  <2>4. ToSet(s) \subseteq Searchable(q)
    BY <2>3, VectorRanking
  <2>5. pc'[q] = "keyword"
    BY <1>1, <2>1 DEF Go
  <2>6. Searchable(q) \subseteq eligible'[q]
    BY <2>2, <2>5, SearchableRecorded DEF Ends
  <2>7. ranked'[q] = s /\ \A p \in Searches \ {q} : ranked'[p] = ranked[p]
    BY <2>1 DEF SearchesSound
  <2>8. SearchSound(q)'
    BY <2>2, <2>4, <2>6, <2>7, HistoryGrows DEF SearchesSound, SearchSound
  <2>9. \A p \in Searches \ {q} : SearchSound(p)'
    BY <2>2, <2>7, SearchKept DEF SearchesSound
  <2> QED
    BY <2>1, <2>2, <2>8, <2>9 DEF SearchesSound
<1> QED
  BY <1>2, <1>3

(* The second read: the candidates by keywords, fused with the first.      *)
LEMMA ReadKeywordsSound ==
  ASSUME IInv, SearchesSound, Observe, NEW q \in Searches, ReadKeywords(q)
  PROVE  SearchesSound'
<1> DEFINE matching == {c \in Searchable(q) : Keywords[c.revision] > 0}
<1>1. PICK k \in Rankings(matching, Matches, CandidateLimit) :
        \E s \in Fuse(ranked[q], k) : results' = [results EXCEPT ![q] = s]
  BY DEF ReadKeywords
<1>2. PICK s \in Fuse(ranked[q], k) : results' = [results EXCEPT ![q] = s]
  BY <1>1
<1>3. /\ ranked' = [ranked EXCEPT ![q] = << >>] /\ Go(q, "done")
      /\ UNCHANGED <<docs, chunks, scope>> /\ pc[q] = "keyword"
  BY DEF ReadKeywords
<1>4. pc'[q] = "done"
  <2>1. pc \in [Actors -> Places] /\ q \in Actors
    BY TypeParts DEF IInv, TypeByParts, Actors
  <2> QED
    BY <1>3, <2>1 DEF Go
<1>5. Searchable(q) \subseteq eligible'[q]
  BY <1>3, <1>4, SearchableRecorded DEF Ends
<1>6. ToSet(k) \subseteq eligible'[q]
  <2>1. CandidateLimit \in Nat
    BY KnowledgeAssumption DEF CandidateLimit
  <2>2. ToSet(k) \subseteq matching
    BY <2>1, KeywordRanking
  <2> QED
    BY <1>5, <2>2
<1>7. ToSet(ranked[q]) \subseteq eligible'[q]
  BY HistoryGrows DEF SearchesSound, SearchSound
<1>8. /\ Len(s) <= TopK /\ Cardinality(ToSet(s)) = Len(s)
      /\ ToSet(s) \subseteq eligible'[q]
  BY <1>6, <1>7, Fused
<1>9. /\ results'[q] = s /\ ranked'[q] = << >>
      /\ \A p \in Searches \ {q} : results'[p] = results[p] /\ ranked'[p] = ranked[p]
  BY <1>2, <1>3 DEF SearchesSound
<1>10. SearchSound(q)'
  <2>1. ToSet(<< >>) = {}
    BY DEF ToSet
  <2> QED
    BY <1>8, <1>9, <2>1 DEF SearchSound
<1>11. \A p \in Searches \ {q} : SearchSound(p)'
  BY <1>9, SearchKept DEF SearchesSound
<1> QED
  BY <1>2, <1>3, <1>10, <1>11 DEF SearchesSound

(* All other steps leave alone what a search has read.                     *)
LEMMA NextSearches == IInv /\ SearchesSound /\ [Next]_vars => SearchesSound'
<1> SUFFICES ASSUME IInv, SearchesSound, [Next]_vars PROVE SearchesSound'
  OBVIOUS
<1>1. CASE UNCHANGED vars
  BY <1>1 DEF vars, searchVars, SearchesSound, SearchSound
<1>2. ASSUME Observe, ranked' = ranked, results' = results
      PROVE  SearchesSound'
  BY <1>2, SearchKept DEF SearchesSound
<1>3. ASSUME Observe, NEW q \in Searches, SearchStep(q)
      PROVE  SearchesSound'
  <2>1. CASE BeginSearch(q) \/ ReadDimensions(q)
    BY <1>2, <1>3, <2>1 DEF BeginSearch, ReadDimensions, searchVars
  <2> QED
    BY <1>3, <2>1, ReadVectorsSound, ReadKeywordsSound DEF SearchStep
<1>4. ASSUME Observe, NEW i \in Ingestions, IngestionStep(i)
      PROVE  SearchesSound'
  <2>1. UNCHANGED searchVars
    BY <1>4 DEF IngestionStep, Collect, SelectDocument, EmbedDocument, StageDocument,
                FlushFails, CommitIngestion, StopIngestion
  <2> QED
    BY <1>2, <1>4, <2>1 DEF searchVars
<1>5. ASSUME Observe, NEW u \in Uploads, UploadStep(u)
      PROVE  SearchesSound'
  BY <1>2, <1>5 DEF UploadStep, ReceiveUpload, EmbedUpload, InsertUpload, searchVars
<1>6. ASSUME Observe, NEW key \in Keys, UpdateStatus(key)
      PROVE  SearchesSound'
  BY <1>2, <1>6 DEF UpdateStatus, searchVars
<1>7. ASSUME Observe, Finished
      PROVE  SearchesSound'
  BY <1>2, <1>7 DEF Finished, searchVars
<1> QED
  BY <1>1, <1>3, <1>4, <1>5, <1>6, <1>7 DEF Next, Step

(* Before the first step nothing has been read.                            *)
LEMMA InitSearches == Init => SearchesSound
<1> SUFFICES ASSUME Init PROVE SearchesSound
  OBVIOUS
<1>1. \A q \in Searches : ranked[q] = << >> /\ results[q] = << >>
  BY DEF Init
<1>2. ToSet(<< >>) = {} /\ Len(<< >>) = 0 /\ Cardinality({}) = 0
  BY FS_EmptySet DEF ToSet
<1>3. \A q \in Searches : SearchSound(q)
  <2>1. 0 <= TopK
    BY KnowledgeAssumption
  <2> QED
    BY <1>1, <1>2, <2>1 DEF SearchSound
<1> QED
  BY <1>3 DEF Init, SearchesSound

(* A search returns each chunk once, at most top_k, and only what its      *)
(* scope let it see at some moment, however the corpus changes between its *)
(* reads (search_scoped).                                                  *)
THEOREM SearchesStayInScope == Spec => []SearchInScope
<1>1. Spec => []SearchesSound
  BY Inductive, InitSearches, NextSearches, PTL DEF Spec
<1>2. SearchesSound => SearchInScope
  BY DEF SearchesSound, SearchSound, SearchInScope
<1> QED
  BY <1>1, <1>2, PTL
=============================================================================
