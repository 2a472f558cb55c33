----------------------------- MODULE LineageWalk -----------------------------
(***************************************************************************)
(* The constant-memory walk over the parents of a pinned Iceberg head      *)
(* (iter_snapshot_documents, bounded_snapshot_documents).  The metadata    *)
(* may be damaged: parents may be missing and may form a cycle.  The walk  *)
(* keeps the requested tail of the ancestry in a bounded deque.            *)
(***************************************************************************)
EXTENDS Naturals, Sequences, FiniteSets

CONSTANTS
  Snapshots,  \* snapshot ids
  MaxLimit,   \* bound: largest descendant_limit
  None        \* no parent, or no document under this id

ASSUME WalkAssumption == None \notin Snapshots /\ MaxLimit \in Nat

VARIABLES
  parent,    \* the metadata generation: the parent of each document the loader finds
  head,      \* pinned head
  stop,      \* recorded ancestor
  limit,     \* descendant_limit
  cursor, slow, fast,
  yielded,   \* every document yielded so far
  deque,     \* bounded tail of them
  walked     \* "idle", "running", "done" or "cycle"

chain    == <<parent, head, stop, limit>>
walkVars == <<chain, cursor, slow, fast, yielded, deque, walked>>

WalkInit ==
  /\ parent = <<>> /\ head = None /\ stop = None /\ limit = 0
  /\ cursor = None /\ slow = None /\ fast = None
  /\ yielded = <<>> /\ deque = <<>>
  /\ walked = "idle"

Generations == UNION {[found -> Snapshots \cup {None}] : found \in SUBSET Snapshots}

StartWalk ==
  /\ walked = "idle" /\ walked' = "running"
  /\ parent' \in Generations /\ head' \in Snapshots /\ stop' \in Snapshots /\ limit' \in 0..MaxLimit
  /\ cursor' = head' /\ slow' = head' /\ fast' = head'
  /\ UNCHANGED <<yielded, deque>>

next_snapshot_id(id) == IF id \in DOMAIN parent THEN parent[id] ELSE None

\* deque(maxlen=descendant_limit + 1)
Retain(q, id) ==
  LET full == Append(q, id) IN
  IF Len(full) > limit + 1 THEN Tail(full) ELSE full

\* Mutant: the walk runs past the recorded ancestor.
AtEndRoot == parent[cursor] = None

\* The recorded ancestor, or a document without parent, ends the walk.
AtEnd == cursor = stop \/ parent[cursor] = None

Missing ==
  /\ walked = "running" /\ cursor \notin DOMAIN parent
  /\ walked' = "done"
  /\ UNCHANGED <<chain, cursor, slow, fast, yielded, deque>>

\* Mutant: the cursors are never compared.
iter_without_cycle_check ==
  /\ walked = "running" /\ cursor \in DOMAIN parent
  /\ yielded' = Append(yielded, cursor)
  /\ deque' = Retain(deque, cursor)
  /\ IF AtEnd
     THEN walked' = "done" /\ UNCHANGED <<cursor, slow, fast>>
     ELSE cursor' = parent[cursor] /\ UNCHANGED <<slow, fast, walked>>
  /\ UNCHANGED chain

\* One turn of the loop: yield the document, then move and compare the cursors.
iter_snapshot_documents ==
  /\ walked = "running" /\ cursor \in DOMAIN parent
  /\ yielded' = Append(yielded, cursor)
  /\ deque' = Retain(deque, cursor)
  /\ IF AtEnd
     THEN walked' = "done" /\ UNCHANGED <<cursor, slow, fast>>
     ELSE /\ cursor' = parent[cursor]
          /\ slow' = next_snapshot_id(slow)
          /\ fast' = next_snapshot_id(next_snapshot_id(fast))
          /\ walked' = IF slow' # None /\ slow' = fast' THEN "cycle" ELSE "running"
  /\ UNCHANGED chain

WalkNext == StartWalk \/ Missing \/ iter_snapshot_documents

WalkSpec == WalkInit /\ [][WalkNext]_walkVars

\* The projection with retain_head: the head once more in front, unless the tail has it.
bounded_snapshot_documents ==
  IF yielded # <<>> /\ \A i \in DOMAIN deque : deque[i] # head THEN <<head>> \o deque ELSE deque

-----------------------------------------------------------------------------

\* Although it remembers two cursors only, the walk never yields a document twice,
\* so a damaged parent chain cannot trap the planner: the walk ends after at most
\* one turn per document.
NoDocumentTwice == \A i, j \in 1..Len(yielded) : yielded[i] = yielded[j] => i = j

\* The projection is the head and the oldest documents the walk saw: bounded_incremental_candidates
\* takes the last of them for the checkpoint and the others for its direct descendants.
RetainsTheTail ==
  LET documents == bounded_snapshot_documents IN
  /\ Len(deque) <= limit + 1
  /\ \A i \in 1..Len(deque) : deque[i] = yielded[Len(yielded) - Len(deque) + i]
  /\ \A i \in 1..(Len(deque) - 1) : parent[deque[i]] = deque[i + 1]
  /\ \A i \in 1..Len(documents) : documents[i] = head <=> i = 1
  /\ stop \in {yielded[i] : i \in 1..Len(yielded)} => documents[Len(documents)] = stop

=============================================================================
