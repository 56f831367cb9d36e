------------------------------- MODULE Blobs --------------------------------
(***************************************************************************)
(* BlobManager (crates/ovn-core/src/storage/blob.rs) over BufferPool       *)
(* (storage/buffer_pool.rs): threads that store and read blobs page by page*)
(* through a cache of bounded size, each lock section and each access to the *)
(* file a step.  A page holds one chunk; its content is the chunk or the   *)
(* zeroes the file is extended with.                                       *)
(***************************************************************************)
EXTENDS Integers, Sequences, FiniteSets

CONSTANTS
  Storers,      \* threads that store a blob each
  Lookers,      \* threads that read blobs
  ChunksOf,       \* the number of chunks of each storer's blob
  CachePages,     \* pages in the cache
  MaxReads      \* bound: blobs that are read

Zeroes == <<>>    \* a page nobody wrote a chunk to
NoPage == 0         \* no page number; pages are numbered from 1

ASSUME BlobAssumption ==
  /\ \A s \in Storers : ChunksOf[s] \in Nat \ {0}
  /\ CachePages \in Nat \ {0} /\ MaxReads \in Nat
  /\ NoPage \notin Storers

VARIABLES
  pages,       \* the file: the content of each of its pages
  cache,       \* cached pages: [content, dirty, protected, seq]
  seq,         \* seq_counter
  putting,     \* what each storer is doing: [at, page, list]
  directory,   \* the pages of each stored blob
  getting,     \* what each looker is doing: [at, blob, got]
  reads,
  damaged      \* history: blobs a page of which another thread got too, or evicted unwritten

blobVars == <<pages, cache, seq, putting, directory, getting, reads, damaged>>

ChunkOf(s, i) == <<s, i>>
Contents == {Zeroes} \cup UNION {{ChunkOf(s, i) : i \in 1 .. ChunksOf[s]} : s \in Storers}
Blob(s) == [i \in 1 .. ChunksOf[s] |-> ChunkOf(s, i)]

BlobTypeOK ==
  /\ pages \in Seq(Contents)
  /\ \A p \in DOMAIN cache : p \in 1 .. Len(pages) /\ cache[p].content \in Contents /\ cache[p].seq <= seq
  /\ \A s \in Storers : putting[s].at \in {"size", "extend", "cache", "put", "write", "clear", "list", "done"}
  /\ DOMAIN directory \subseteq Storers
  /\ \A r \in Lookers : getting[r].at \in {"none", "look", "load"}
  /\ damaged \subseteq Storers

BlobInit ==
  /\ pages = <<>> /\ cache = <<>> /\ seq = 0
  /\ putting = [s \in Storers |-> [at |-> "size", page |-> NoPage, list |-> <<>>]]
  /\ directory = <<>> /\ reads = 0 /\ damaged = {}
  /\ getting = [r \in Lookers |-> [at |-> "none", blob |-> NoPage, got |-> <<>>, read |-> Zeroes]]

(***************************************************************************)
(* BufferPool::insert.                                                     *)
(***************************************************************************)

Oldest(ps) == CHOOSE p \in ps : \A q \in ps : cache[p].seq <= cache[q].seq
Probationary == {p \in DOMAIN cache : ~cache[p].protected}

\* The page evict_one removes for one that is inserted: it looks at neither its
\* dirty mark nor the file.
Victims(p) ==
  IF Cardinality(DOMAIN cache) < CachePages \/ p \in DOMAIN cache THEN {}
  ELSE {Oldest(IF Probationary # {} THEN Probationary ELSE DOMAIN cache)}

Fresh(content, dirty) ==
  [content |-> content, dirty |-> dirty, protected |-> FALSE, seq |-> seq + 1]

InsertPage(p, content, dirty) ==
  /\ cache' = [q \in (DOMAIN cache \ Victims(p)) \cup {p} |->
                 IF q = p THEN Fresh(content, dirty) ELSE cache[q]]
  /\ seq' = seq + 1

\* Blobs of which a page leaves the cache unwritten.
Unwritten(p) == {s \in Storers : \E v \in Victims(p) : cache[v].dirty /\ putting[s].page = v}

(***************************************************************************)
(* put_blob.                                                               *)
(***************************************************************************)

Moves(s, from, to) == putting[s].at = from /\ putting' = [putting EXCEPT ![s].at = to]

\* allocate_page: the size of the file, the page behind its end, the cache.  Two
\* threads that read the size before either extends the file get the same page.
SizeOfFile(s) ==
  /\ putting[s].at = "size"
  /\ putting' = [putting EXCEPT ![s].at = "extend", ![s].page = Len(pages) + 1]
  /\ UNCHANGED <<pages, cache, seq, directory, getting, reads, damaged>>

Extend(s) ==
  LET p == putting[s].page
      others == {t \in Storers \ {s} : putting[t].page = p \/ \E i \in 1 .. Len(putting[t].list) : putting[t].list[i] = p}
  IN
  /\ Moves(s, "extend", "cache")
  /\ pages' = IF p > Len(pages) THEN Append(pages, Zeroes) ELSE [pages EXCEPT ![p] = Zeroes]
  /\ damaged' = IF others = {} THEN damaged ELSE damaged \cup others \cup {s}
  /\ UNCHANGED <<cache, seq, directory, getting, reads>>

CacheNew(s) ==
  /\ Moves(s, "cache", "put")
  /\ InsertPage(putting[s].page, Zeroes, FALSE)
  /\ damaged' = damaged \cup Unwritten(putting[s].page)
  /\ UNCHANGED <<pages, directory, getting, reads>>

NextChunk(s) == ChunkOf(s, Len(putting[s].list) + 1)

PutPage(s) ==
  /\ Moves(s, "put", "write")
  /\ InsertPage(putting[s].page, NextChunk(s), TRUE)
  /\ damaged' = damaged \cup Unwritten(putting[s].page)
  /\ UNCHANGED <<pages, directory, getting, reads>>

\* flush_page: the page is written under the read lock and its mark cleared under
\* the write lock.
WritePage(s) ==
  LET p == putting[s].page IN
  /\ Moves(s, "write", "clear")
  /\ pages' = IF p \in DOMAIN cache /\ cache[p].dirty
              THEN [pages EXCEPT ![p] = cache[p].content] ELSE pages
  /\ UNCHANGED <<cache, seq, directory, getting, reads, damaged>>

ClearMark(s) ==
  LET p == putting[s].page
      list == Append(putting[s].list, p)
  IN
  /\ putting[s].at = "clear"
  /\ putting' = [putting EXCEPT ![s] =
       [at |-> IF Len(list) = ChunksOf[s] THEN "list" ELSE "size", page |-> NoPage, list |-> list]]
  /\ cache' = IF p \in DOMAIN cache THEN [cache EXCEPT ![p].dirty = FALSE] ELSE cache
  /\ UNCHANGED <<pages, seq, directory, getting, reads, damaged>>

ListBlob(s) ==
  /\ Moves(s, "list", "done")
  /\ directory' = [t \in DOMAIN directory \cup {s} |->
                     IF t = s THEN putting[s].list ELSE directory[t]]
  /\ UNCHANGED <<pages, cache, seq, getting, reads, damaged>>

(***************************************************************************)
(* get_blob: page by page from the cache, or from the file into the cache. *)
(***************************************************************************)

PageToRead(r) == directory[getting[r].blob][Len(getting[r].got) + 1]

GetBlob(r, s) ==
  /\ getting[r].at = "none" /\ s \in DOMAIN directory /\ reads < MaxReads
  /\ getting' = [getting EXCEPT ![r] = [at |-> "look", blob |-> s, got |-> <<>>, read |-> Zeroes]]
  /\ reads' = reads + 1
  /\ UNCHANGED <<pages, cache, seq, putting, directory, damaged>>

More(r) == getting[r].at = "look" /\ Len(getting[r].got) < ChunksOf[getting[r].blob]

\* A page is promoted when it is asked for again.
Hit(r) ==
  LET p == PageToRead(r) IN
  /\ More(r) /\ p \in DOMAIN cache
  /\ cache' = [cache EXCEPT ![p].seq = seq + 1, ![p].protected = TRUE]
  /\ seq' = seq + 1
  /\ getting' = [getting EXCEPT ![r].got = Append(@, cache[p].content)]
  /\ UNCHANGED <<pages, putting, directory, reads, damaged>>

Miss(r) ==
  /\ More(r) /\ PageToRead(r) \notin DOMAIN cache
  /\ getting' = [getting EXCEPT ![r].at = "load", ![r].read = pages[PageToRead(r)]]
  /\ UNCHANGED <<pages, cache, seq, putting, directory, reads, damaged>>

CacheRead(r) ==
  /\ getting[r].at = "load"
  /\ InsertPage(PageToRead(r), getting[r].read, FALSE)
  /\ getting' = [getting EXCEPT ![r].at = "look", ![r].got = Append(@, getting[r].read)]
  /\ damaged' = damaged \cup Unwritten(PageToRead(r))
  /\ UNCHANGED <<pages, putting, directory, reads>>

GotBlob(r) ==
  /\ getting[r].at = "look" /\ ~More(r)
  /\ getting' = [getting EXCEPT ![r].at = "none"]
  /\ UNCHANGED <<pages, cache, seq, putting, directory, reads, damaged>>

BlobNext ==
  \/ \E s \in Storers : SizeOfFile(s) \/ Extend(s) \/ CacheNew(s) \/ PutPage(s)
                        \/ WritePage(s) \/ ClearMark(s) \/ ListBlob(s)
  \/ \E r \in Lookers : Hit(r) \/ Miss(r) \/ CacheRead(r) \/ GotBlob(r)
  \/ \E r \in Lookers, s \in Storers : GetBlob(r, s)

BlobSpec == BlobInit /\ [][BlobNext]_blobVars

----------------------------------------------------------------------------
(* Properties.                                                             *)

\* The cache never holds more than its capacity.
CacheBounded == Cardinality(DOMAIN cache) <= CachePages

\* A blob that is listed is in the file, chunk by chunk, and what a thread has read
\* of it is its beginning, unless another thread was given one of its pages or one
\* of them was evicted before it was written.
BlobsReadBack ==
  /\ \A s \in DOMAIN directory \ damaged : \A i \in 1 .. ChunksOf[s] :
       /\ pages[directory[s][i]] = ChunkOf(s, i)
       /\ directory[s][i] \in DOMAIN cache => cache[directory[s][i]].content = ChunkOf(s, i)
  /\ \A r \in Lookers : getting[r].blob \notin damaged \cup {NoPage} =>
       getting[r].got = SubSeq(Blob(getting[r].blob), 1, Len(getting[r].got))

BlobsSound == BlobTypeOK /\ CacheBounded /\ BlobsReadBack
=============================================================================
