-------------------------- MODULE BucketRefinement --------------------------
(***************************************************************************)
(* Bucket implements BucketMap: the entries are those found by following   *)
(* pages, inline values and nodes from the root, the cursor is where the   *)
(* top of its stack points.                                                *)
(***************************************************************************)
EXTENDS Bucket

\* Where the cursor is, for its user.
CursorAt ==
  LET p == cursor.path
      ref == Last(cursor.stack)
      at(where, key) == [path |-> p, at |-> where, key |-> key]
  IN  CASE ~cursor.on -> at("none", 0)
        [] cursor.on /\ ~cursor.fresh -> at("stale", 0)
        [] cursor.on /\ cursor.fresh /\ cursor.stack = <<>> -> at("gone", 0)
        [] OTHER -> IF InRange(p, ref) THEN at("at", Current(p, ref).key)
                    ELSE at(IF RefCount(p, ref) = 0 THEN "gone" ELSE "end", 0)

Map == INSTANCE BucketMap WITH
  committed <- Entries(Committed),
  working <- Entries(Working),
  mode <- IF mode = "spill" THEN "rw" ELSE mode,
  cur <- CursorAt

\* Calls that are not served: those that end the process, as Bucket::remove of
\* a missing key right before a bucket does, and a deleteBucket that returns,
\* which leaves the bucket where it is.
Served ==
  /\ mode # "dead" /\ mode' # "dead"
  /\ call'.op = "DeleteBucket" => call' = call

\* Every call that is served has the effect it has on a sorted map, wherever the
\* bucket happens to be stored: a transaction's changes stay in the transaction
\* until Tx::commit, which moves all of them to the file; opening a bucket,
\* making its node or writing it inline is never seen; a cursor walks the
\* keys in order from wherever first, last or seek put it, until its bucket
\* changes.  A call that is not served leaves what is committed.  It holds
\* while nothing splits, the cursor shows no bucket as plain and freed memory
\* keeps its bytes.
ImplementsMap ==
  /\ Map!Init
  /\ [][IF Served THEN Map!Next ELSE Entries(Committed)' = Entries(Committed)]_(Map!vars)
=============================================================================
