----------------------------- MODULE JobBatches -----------------------------
(***************************************************************************)
(* A batch of jobs on its way into the database: enqueueBatch of JobQueue  *)
(* cuts it into slices, pushMany of OvnDbAdapter hands a slice to insertMany *)
(* of Collection, which cuts it again when it is long, and the engine      *)
(* inserts document by document (crud.rs:165) up to the first that fails.  *)
(* pushMany is written for a database that refuses a second document with an *)
(* _id; this engine writes the new one over the old.  Both are checked.    *)
(* Process loops take the jobs that are there meanwhile.  Jobs that are not*)
(* due yet go to the scheduler and are no part of it; the jobs' hooks are  *)
(* those of Admission.                                                     *)
(***************************************************************************)
EXTENDS Integers, Sequences, FiniteSets

CONSTANTS
  Listed,         \* the jobs that are due, in order
  SliceSizes,    \* chunkSize of enqueueBatch
  NativeChunk,   \* chunkSize of insertMany, 5000 in the code
  Earlier,       \* sets of jobs of the batch that are in the collection already
  Unfit          \* sets of jobs whose documents the engine refuses

DocsOf(s) == {s[i] : i \in 1 .. Len(s)}

ASSUME BatchAssumption ==
  /\ Listed \in Seq(DocsOf(Listed))
  /\ \A i, k \in 1 .. Len(Listed) : Listed[i] = Listed[k] => i = k
  /\ NativeChunk \in Nat \ {0} /\ SliceSizes \subseteq Nat \ {0}
  /\ \A e \in Earlier \cup Unfit : e \subseteq DocsOf(Listed)

VARIABLES
  slice,     \* the size of the slices
  refuses,   \* the database refuses a document whose _id it has
  known,     \* jobs that were there before the batch
  unfit,
  rows,      \* the state of each job's document
  next,      \* the place in the batch where the next slice begins
  upserts,   \* documents pushMany has yet to write one by one
  told,      \* how enqueueBatch ended
  starts     \* how often the job was taken to be run

batchVars == <<slice, refuses, known, unfit, rows, next, upserts, told, starts>>

BatchTypeOK ==
  /\ slice \in SliceSizes /\ refuses \in BOOLEAN /\ known \in Earlier /\ unfit \in Unfit
  /\ rows \in [DocsOf(Listed) -> {"none", "pending", "active", "over"}]
  /\ next \in 1 .. Len(Listed) + slice /\ upserts \in Seq(DocsOf(Listed))
  /\ told \in {"pushing", "returned", "thrown"}
  /\ starts \in [DocsOf(Listed) -> Nat]

BatchInit ==
  /\ slice \in SliceSizes /\ refuses \in BOOLEAN /\ known \in Earlier /\ unfit \in Unfit
  /\ rows = [j \in DocsOf(Listed) |-> IF j \in known THEN "pending" ELSE "none"]
  /\ next = 1 /\ upserts = <<>> /\ told = "pushing"
  /\ starts = [j \in DocsOf(Listed) |-> 0]

\* The document is refused as a duplicate, or for what it is.
Duplicate(j) == refuses /\ rows[j] # "none"
Fails(j) == Duplicate(j) \/ j \in unfit

\* insert_many of the engine: the documents before the first that fails.
BeforeFailure(s) == {s[i] : i \in {k \in 1 .. Len(s) : \A m \in 1 .. k : ~Fails(s[m])}}

\* insertMany: a long slice goes in chunks, and a chunk that fails is passed over.
Chunks(s) ==
  {SubSeq(s, i, IF i + NativeChunk - 1 < Len(s) THEN i + NativeChunk - 1 ELSE Len(s)) :
     i \in {k \in 1 .. Len(s) : k % NativeChunk = 1 % NativeChunk}}

Long(s) == Len(s) > NativeChunk
Inserted(s) == IF Long(s) THEN UNION {BeforeFailure(c) : c \in Chunks(s)} ELSE BeforeFailure(s)

NextSlice(n) == SubSeq(Listed, n, IF n + slice - 1 < Len(Listed) THEN n + slice - 1 ELSE Len(Listed))

\* pushMany up to its first await: a short slice with a failure throws; if what
\* failed is a duplicate, all its documents are written one by one instead.
PushMany ==
  LET s == NextSlice(next)
      in == Inserted(s)
      first == CHOOSE i \in 1 .. Len(s) : Fails(s[i]) /\ \A m \in 1 .. i - 1 : ~Fails(s[m])
  IN
  /\ told = "pushing" /\ next <= Len(Listed) /\ upserts = <<>>
  /\ rows' = [j \in DOMAIN rows |-> IF j \in in THEN "pending" ELSE rows[j]]
  /\ IF Long(s) \/ in = DocsOf(s)
     THEN next' = next + slice /\ UNCHANGED <<upserts, told>>
     ELSE IF Duplicate(s[first])
          THEN upserts' = s /\ UNCHANGED <<next, told>>
          ELSE told' = "thrown" /\ UNCHANGED <<next, upserts>>
  /\ UNCHANGED <<slice, refuses, known, unfit, starts>>

\* updateOne, or insertOne when it finds nothing; when that fails too, another
\* updateOne that finds nothing.
Upsert ==
  LET j == Head(upserts) IN
  /\ upserts # <<>> /\ upserts' = Tail(upserts)
  /\ rows' = [rows EXCEPT ![j] = IF @ = "none" /\ j \in unfit THEN @ ELSE "pending"]
  /\ next' = IF Len(upserts) = 1 THEN next + slice ELSE next
  /\ UNCHANGED <<slice, refuses, known, unfit, told, starts>>

BatchReturns ==
  /\ told = "pushing" /\ next > Len(Listed) /\ told' = "returned"
  /\ UNCHANGED <<slice, refuses, known, unfit, rows, next, upserts, starts>>

\* A process loop takes and finishes jobs.
TakeRow(j) ==
  /\ rows[j] = "pending"
  /\ rows' = [rows EXCEPT ![j] = "active"] /\ starts' = [starts EXCEPT ![j] = @ + 1]
  /\ UNCHANGED <<slice, refuses, known, unfit, next, upserts, told>>

EndRow(j) ==
  /\ rows[j] = "active" /\ rows' = [rows EXCEPT ![j] = "over"]
  /\ UNCHANGED <<slice, refuses, known, unfit, next, upserts, told, starts>>

BatchNext ==
  \/ PushMany \/ Upsert \/ BatchReturns
  \/ \E j \in DocsOf(Listed) : TakeRow(j) \/ EndRow(j)

BatchSpec == BatchInit /\ [][BatchNext]_batchVars

----------------------------------------------------------------------------
(* Properties.                                                             *)

Short == slice <= NativeChunk

\* The slices a job may be in, by the place where they begin.
SlicesWith(j) ==
  {n \in 1 .. Len(Listed) :
     /\ \E q \in 0 .. Len(Listed) : n = slice * q + 1
     /\ j \in DocsOf(NextSlice(n))}

\* A slice that goes in one call and has a job that was there before the batch.
WrittenOneByOne(n) ==
  refuses /\ ~Long(NextSlice(n)) /\ DocsOf(NextSlice(n)) \cap known # {}

\* A job of a batch whose call returned is in the collection, or was; it is missing
\* only if its slice was too long for one call, and insertMany passed over its chunk,
\* or if its own document was refused in a slice that was written one by one.
ReturnedAreStored ==
  told = "returned" => \A j \in DOMAIN rows :
    rows[j] = "none" => \E n \in SlicesWith(j) :
      Long(NextSlice(n)) \/ (j \in unfit /\ WrittenOneByOne(n))

\* A batch whose call threw is in the collection up to the document that failed
\* and no further.
ThrownIsAPrefix ==
  told = "thrown" /\ Short /\ known = {} =>
    \E n \in 0 .. Len(Listed) : \A i \in 1 .. Len(Listed) : rows[Listed[i]] # "none" <=> i <= n

\* A job is taken twice only if it was there before the batch and its document was
\* written over; or if pushMany, after a duplicate in the job's own slice, wrote that
\* slice again when a process loop had already taken jobs of it.
TakenAgainOnlyByUpsert ==
  \A j \in DOMAIN rows : starts[j] > 1 =>
    IF refuses THEN \E n \in SlicesWith(j) : WrittenOneByOne(n) ELSE j \in known

BatchesSound == BatchTypeOK /\ ReturnedAreStored /\ ThrownIsAPrefix /\ TakenAgainOnlyByUpsert
=============================================================================
