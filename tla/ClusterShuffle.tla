---------------------------- MODULE ClusterShuffle ----------------------------
(***************************************************************************)
(* The routing of rows in a clustered rewrite (maintenance/cluster.py).    *)
(* The driver packs the partition histogram into write buckets; read       *)
(* tasks, one per shard of fragments, send every row to a bucket through   *)
(* buffers flushed under a cap; the shuffle sorts the chunks of a bucket   *)
(* by partition; write tasks stream them to the new fragments; and the     *)
(* driver commits the fragments only if no task failed and as many rows    *)
(* were written as planned.                                                *)
(*                                                                         *)
(* A shard is a sequence of batches, a batch the sequence of its rows'     *)
(* partitions: 0 .. Partitions - 1 for the nearest centroid, Partitions    *)
(* for a row without a vector.  A row is named <<shard, batch, position>>. *)
(***************************************************************************)
EXTENDS Integers, Sequences, FiniteSets

CONSTANTS
    Partitions,     \* centroids of the index
    ChunkRows,      \* rows a reader buffers before it flushes (SHUFFLE_CHUNK_BYTES)
    Tables,         \* tables that may be rewritten: the shards, batches and rows of a version
    ShardSignature, \* the weighted sum of the fragment ids of each shard
    Caps,           \* rows_per_task
    MaxFailures     \* read and write tasks that fail

Pids == 0 .. Partitions

ASSUME ShuffleAssumption ==
    /\ Partitions \in Nat \ {0} /\ ChunkRows \in Nat \ {0} /\ MaxFailures \in Nat
    /\ Caps \subseteq Nat \ {0}
    /\ ShardSignature \in Seq(Nat)
    /\ \A t \in Tables : t \in Seq(Seq(Seq(Pids))) /\ Len(t) <= Len(ShardSignature)

VARIABLES
    pinned,         \* the version being rewritten
    cap,            \* its rows_per_task
    packing,        \* the buckets closed so far and the open one, see derive_buckets
    readers,        \* the read task of each shard
    shuffled,       \* chunks the read tasks have emitted
    output,         \* the chunks written to each bucket, in order
    rowsWritten,    \* rows the write tasks reported
    failed,         \* tasks that ended in an error: <<"read", shard>> or <<"write", bucket>>
    rewriteStage    \* "idle", "pack", "read", "write", "documents" or "refused"

shuffleVars == <<pinned, cap, packing, readers, shuffled, output, rowsWritten, failed, rewriteStage>>

(***************************************************************************)
(* Rows and partitions.                                                    *)
(***************************************************************************)
RowsOf(t) == UNION {UNION {{<<s, b, i>> : i \in DOMAIN t[s][b]} : b \in DOMAIN t[s]} : s \in DOMAIN t}

Pid(t, row) == t[row[1]][row[2]][row[3]]

(* partition_histogram: the shards' counts added up.                       *)
partition_count(t, pid) == Cardinality({row \in RowsOf(t) : Pid(t, row) = pid})

(***************************************************************************)
(* derive_buckets, one partition after another.  The open bucket starts at *)
(* low, or there is none (-1), and holds running rows.                     *)
(***************************************************************************)
CeilDiv(a, b) == (a + b - 1) \div b

Bucket(low, high, salt, salts) == [low |-> low, high |-> high, salt |-> salt, salts |-> salts]

Packing(buckets, low, running, next) ==
    [buckets |-> buckets, low |-> low, running |-> running, next |-> next]

Closed(p) == IF p.low = -1 THEN p.buckets ELSE Append(p.buckets, Bucket(p.low, p.next - 1, 0, 1))

Salted(pid, salts) == [k \in 1 .. salts |-> Bucket(pid, pid, k - 1, salts)]

PackPartition(p, count) ==
    CASE p.low # -1 /\ p.running + count <= cap ->
            Packing(p.buckets, p.low, p.running + count, p.next + 1)
      [] p.low = -1 /\ count = 0 -> Packing(p.buckets, -1, 0, p.next + 1)
      [] count > cap ->
            Packing(Closed(p) \o Salted(p.next, CeilDiv(count, cap)), -1, 0, p.next + 1)
      [] OTHER -> Packing(Closed(p), p.next, count, p.next + 1)

buckets == packing.buckets

(***************************************************************************)
(* Where a row goes.                                                       *)
(***************************************************************************)
(* build_bucket_lookup: the buckets a partition's rows go to.              *)
bucket_lookup(pid) == {k \in DOMAIN buckets : buckets[k].low <= pid /\ pid <= buckets[k].high}

(* Mutant: every batch starts again at the shard's first offset.           *)
salts_before_batch(row) == {}

(* The rows of a partition that the shard's earlier batches have routed.   *)
salts_before(row) ==
    {r \in RowsOf(pinned) : r[1] = row[1] /\ r[2] < row[2] /\ Pid(pinned, r) = Pid(pinned, row)}

SameBatchBefore(row) ==
    {r \in RowsOf(pinned) :
        r[1] = row[1] /\ r[2] = row[2] /\ r[3] < row[3] /\ Pid(pinned, r) = Pid(pinned, row)}

(* initial_salt_offsets: tasks of different shards start at different      *)
(* salts.                                                                  *)
initial_salt_offset(s, pid) == ShardSignature[s] + pid

NextInTurn(bs, targets, turn) == CHOOSE k \in targets : bs[k].salt = turn % bs[k].salts

(* assign_global_buckets: consecutive rows of an oversized partition take  *)
(* its buckets in turn, across the batches of the shard; a partition       *)
(* without a bucket has the lookup's default, which is none.               *)
assign_global_bucket(row) ==
    LET targets == bucket_lookup(Pid(pinned, row))
        rank == Cardinality(SameBatchBefore(row)) + Cardinality(salts_before(row))
        turn == initial_salt_offset(row[1], Pid(pinned, row)) + rank
    IN  IF targets = {} THEN 0 ELSE NextInTurn(buckets, targets, turn)

(* The shuffle key: bucket, then partition.                                *)
KeyOf(row) == <<assign_global_bucket(row), Pid(pinned, row)>>

KeyBelow(x, y) == x[1] < y[1] \/ (x[1] = y[1] /\ x[2] <= y[2])

Least(slices) == {x \in slices : \A y \in slices : KeyBelow(x.key, y.key)}

(***************************************************************************)
(* The plan.                                                               *)
(***************************************************************************)
ReadTask(batch, pending, buffers, emitted) ==
    [batch |-> batch, pending |-> pending, buffers |-> buffers, emitted |-> emitted]

ShuffleInit ==
    /\ pinned = <<>> /\ cap = 0
    /\ packing = Packing(<<>>, -1, 0, 0)
    /\ readers = <<>> /\ shuffled = {} /\ output = <<>>
    /\ rowsWritten = 0 /\ failed = {} /\ rewriteStage = "idle"

StartRewrite ==
    /\ rewriteStage = "idle"
    /\ rewriteStage' = "pack"
    /\ pinned' \in Tables /\ cap' \in Caps
    /\ UNCHANGED <<packing, readers, shuffled, output, rowsWritten, failed>>

PackNext ==
    /\ rewriteStage = "pack" /\ packing.next <= Partitions
    /\ packing' = PackPartition(packing, partition_count(pinned, packing.next))
    /\ UNCHANGED <<pinned, cap, readers, shuffled, output, rowsWritten, failed, rewriteStage>>

(* Without a bucket the job returns at once (run_rewrite_shuffle).         *)
StartReading ==
    /\ rewriteStage = "pack" /\ packing.next > Partitions
    /\ packing' = Packing(Closed(packing), -1, 0, packing.next)
    /\ readers' = [s \in DOMAIN pinned |-> ReadTask(0, {}, {}, 0)]
    /\ output' = [k \in DOMAIN Closed(packing) |-> <<>>]
    /\ rewriteStage' = IF Closed(packing) = <<>> THEN "write" ELSE "read"
    /\ UNCHANGED <<pinned, cap, shuffled, rowsWritten, failed>>

(***************************************************************************)
(* The read task of a shard (read_rewrite_chunks).                         *)
(***************************************************************************)
BucketSlice(key, rows) == [key |-> key, rows |-> rows]

BatchRows(s, b) == {<<s, b, i>> : i \in DOMAIN pinned[s][b]}

(* The slices of a batch, one per bucket and partition.                    *)
Slices(s, b) ==
    {BucketSlice(key, {row \in BatchRows(s, b) : KeyOf(row) = key}) : key \in {KeyOf(row) : row \in BatchRows(s, b)}}

RowsIn(slices) == UNION {x.rows : x \in slices}

Reading(s) == rewriteStage = "read" /\ <<"read", s>> \notin failed

ReadBatch(s) ==
    /\ Reading(s) /\ readers[s].pending = {} /\ readers[s].batch < Len(pinned[s])
    /\ readers' = [readers EXCEPT ![s] = ReadTask(@.batch + 1, Slices(s, @.batch + 1), @.buffers, @.emitted)]
    /\ UNCHANGED <<pinned, cap, packing, shuffled, output, rowsWritten, failed, rewriteStage>>

(* Mutant: a second slice of a bucket replaces the first.                  *)
BufferLastSlice(buffers, slice) == {x \in buffers : x.key # slice.key} \cup {slice}

BufferSlice(buffers, slice) ==
    LET held == {x \in buffers : x.key = slice.key}
    IN  (buffers \ held) \cup {BucketSlice(slice.key, RowsIn(held) \cup slice.rows)}

(* pop_largest_bucket: the buffers left, and the chunk emitted.            *)
Largest(buffers) ==
    {x \in buffers : \A y \in buffers : Cardinality(y.rows) <= Cardinality(x.rows)}

ShuffleChunk(s, n, x) == [key |-> x.key, rows |-> x.rows, shard |-> s, seq |-> n]

pop_largest_bucket(s, pending, buffers) ==
    \E x \in Largest(buffers) :
        /\ shuffled' = shuffled \cup {ShuffleChunk(s, readers[s].emitted, x)}
        /\ readers' = [readers EXCEPT ![s] = ReadTask(@.batch, pending, buffers \ {x}, @.emitted + 1)]

(* A slice is buffered, and the largest buffer flushed at the cap.         *)
TakeSlice(s) ==
    /\ Reading(s)
    /\ \E slice \in Least(readers[s].pending) :
         LET pending == readers[s].pending \ {slice}
             grown == BufferSlice(readers[s].buffers, slice)
         IN  IF Cardinality(RowsIn(grown)) >= ChunkRows
             THEN pop_largest_bucket(s, pending, grown)
             ELSE /\ readers' = [readers EXCEPT ![s] = ReadTask(@.batch, pending, grown, @.emitted)]
                  /\ UNCHANGED shuffled
    /\ UNCHANGED <<pinned, cap, packing, output, rowsWritten, failed, rewriteStage>>

Scanned(s) == readers[s].pending = {} /\ readers[s].batch = Len(pinned[s])

DrainBuffer(s) ==
    /\ Reading(s) /\ Scanned(s)
    /\ pop_largest_bucket(s, {}, readers[s].buffers)
    /\ UNCHANGED <<pinned, cap, packing, output, rowsWritten, failed, rewriteStage>>

(* What the task has emitted before it fails stays in the shuffle.         *)
FailRead(s) ==
    /\ Reading(s) /\ ~(Scanned(s) /\ readers[s].buffers = {})
    /\ Cardinality(failed) < MaxFailures
    /\ failed' = failed \cup {<<"read", s>>}
    /\ UNCHANGED <<pinned, cap, packing, readers, shuffled, output, rowsWritten, rewriteStage>>

(* The shuffle waits for every read task.                                  *)
StartWriting ==
    /\ rewriteStage = "read"
    /\ \A s \in DOMAIN pinned : <<"read", s>> \in failed \/ (Scanned(s) /\ readers[s].buffers = {})
    /\ rewriteStage' = "write"
    /\ UNCHANGED <<pinned, cap, packing, readers, shuffled, output, rowsWritten, failed>>

(***************************************************************************)
(* The write side: the chunks of a bucket come sorted by partition.        *)
(***************************************************************************)
ChunksWritten(k) == {output[k][n] : n \in DOMAIN output[k]}

ChunksLeft(k) == {x \in shuffled : x.key[1] = k} \ ChunksWritten(k)

Writing(k) == rewriteStage = "write" /\ <<"write", k>> \notin failed /\ ChunksLeft(k) # {}

(* Mutant: repartitioned, but not sorted.                                  *)
AnyOrder(chunks) == chunks

WriteOrder(chunks) == Least(chunks)

WriteChunk(k) ==
    /\ Writing(k)
    /\ \E x \in WriteOrder(ChunksLeft(k)) :
         /\ output' = [output EXCEPT ![k] = Append(@, x)]
         /\ rowsWritten' = rowsWritten + Cardinality(x.rows)
    /\ UNCHANGED <<pinned, cap, packing, readers, shuffled, failed, rewriteStage>>

(* A failed bucket reports no fragment; its rows no longer matter.         *)
FailWrite(k) ==
    /\ Writing(k)
    /\ Cardinality(failed) < MaxFailures
    /\ failed' = failed \cup {<<"write", k>>}
    /\ UNCHANGED <<pinned, cap, packing, readers, shuffled, output, rowsWritten, rewriteStage>>

(* validate_rewrite: any error, or a row total that is not the plan's.     *)
validate_rewrite ==
    /\ rewriteStage = "write"
    /\ \A k \in DOMAIN buckets : ~Writing(k)
    /\ rewriteStage' = IF failed # {} \/ rowsWritten # Cardinality(RowsOf(pinned)) THEN "refused" ELSE "documents"
    /\ UNCHANGED <<pinned, cap, packing, readers, shuffled, output, rowsWritten, failed>>

ShuffleNext ==
    \/ StartRewrite \/ PackNext \/ StartReading \/ StartWriting \/ validate_rewrite
    \/ \E s \in DOMAIN readers : ReadBatch(s) \/ TakeSlice(s) \/ DrainBuffer(s) \/ FailRead(s)
    \/ \E k \in DOMAIN output : WriteChunk(k) \/ FailWrite(k)

ShuffleSpec == ShuffleInit /\ [][ShuffleNext]_shuffleVars

-------------------------------------------------------------------------------

(* The clustered rewrite loses and doubles nothing (run_rewrite_shuffle): what the *)
(* driver commits holds every row of the table in exactly one chunk of one bucket, *)
(* and it refuses nothing unless a task failed.                                    *)
EveryRowRoutedOnce ==
    /\ rewriteStage = "documents" =>
         /\ UNION {RowsIn(ChunksWritten(k)) : k \in DOMAIN output} = RowsOf(pinned)
         /\ \A k, l \in DOMAIN output : \A m \in DOMAIN output[k], n \in DOMAIN output[l] :
              <<k, m>> # <<l, n>> => output[k][m].rows \cap output[l][n].rows = {}
    /\ rewriteStage = "refused" => failed # {}

(* The new fragments follow the partitions (repartitionAndSortWithinPartitions): read *)
(* bucket by bucket, the partitions of the rows never decrease.                       *)
WrittenInPartitionOrder ==
    \A k, l \in DOMAIN output : \A m \in DOMAIN output[k], n \in DOMAIN output[l] :
        k < l \/ (k = l /\ m <= n) =>
            \A r \in output[k][m].rows, q \in output[l][n].rows : Pid(pinned, r) <= Pid(pinned, q)

(* No executor is handed more than the cap (derive_buckets): a bucket receives at most *)
(* as many rows as the cap, and a salted one at most one more for each further shard.  *)
BucketsBounded ==
    \A k \in DOMAIN output :
        Cardinality(RowsIn({x \in shuffled : x.key[1] = k}))
            <= cap + (IF buckets[k].salts = 1 THEN 0 ELSE Len(pinned) - 1)

================================================================================
