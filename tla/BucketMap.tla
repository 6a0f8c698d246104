----------------------------- MODULE BucketMap -----------------------------
(***************************************************************************)
(* What buckets and cursors promise their users: a set of entries          *)
(* [path, key, len], one per key of each bucket, len being SubBucket for a *)
(* bucket in a bucket; transactions that work on a copy; a cursor that     *)
(* walks a bucket in the order of its keys until the bucket changes.  No   *)
(* pages, no nodes, no inline buckets.  BucketRefinement shows that Bucket *)
(* implements it.  call is the interface: the last call made and its       *)
(* arguments, so that each call has to have its own effect.                *)
(***************************************************************************)
EXTENDS Integers, Sequences

CONSTANTS
  Keys,      \* the keys, and the names of buckets: positive numbers
  Lens,      \* the values
  SubBucket  \* the len of a sub-bucket's entry

VARIABLES
  committed,   \* the entries a new transaction sees
  working,     \* the entries the transaction sees
  mode,        \* "none", "ro", "rw": the transaction
  cur,         \* the cursor: its bucket and the key it is at
  call         \* the last call

vars == <<committed, working, mode, cur, call>>

Paths == {<<>>} \cup {Append(e.path, e.key) : e \in {w \in working : w.len = SubBucket}}
In(p) == {e \in working : e.path = p}
At(p, k) == {e \in In(p) : e.key = k}
Plain(p, k) == \E e \in At(p, k) : e.len # SubBucket
IsBucket(p, k) == \E e \in At(p, k) : e.len = SubBucket
Least(S) == {e \in S : \A f \in S : e.key <= f.key}
Greatest(S) == {e \in S : \A f \in S : e.key >= f.key}

NoCursor == [path |-> <<>>, at |-> "none", key |-> 0]

Called(op, p, k, len) == call' = [op |-> op, path |-> p, key |-> k, len |-> len]

Init ==
  /\ committed = {} /\ working = {}
  /\ mode = "none" /\ cur = NoCursor
  /\ call = [op |-> "Open", path |-> <<>>, key |-> 0, len |-> 0]

Begin(m) ==
  /\ Called("Begin", <<>>, 0, 0)
  /\ mode = "none" /\ mode' = m
  /\ working' = committed /\ cur' = NoCursor
  /\ UNCHANGED committed

---------------------------------------------------------------------------
(* Changes.  They make a cursor on the same bucket stale.                  *)

Change(p, E) ==
  /\ mode = "rw"
  /\ working' = E
  /\ cur' = IF cur.at # "none" /\ cur.path = p /\ E # working
            THEN [cur EXCEPT !.at = "stale", !.key = 0] ELSE cur
  /\ UNCHANGED <<committed, mode>>

Entry(p, k, len) == [path |-> p, key |-> k, len |-> len]

Put(p, k, len) ==
  /\ Called("Put", p, k, len)
  /\ ~IsBucket(p, k)
  /\ Change(p, (working \ At(p, k)) \cup {Entry(p, k, len)})

Remove(p, k) ==
  /\ Called("Remove", p, k, 0)
  /\ ~IsBucket(p, k)
  /\ Change(p, working \ At(p, k))

CreateBucket(p, k) ==
  /\ Called("CreateBucket", p, k, 0)
  /\ At(p, k) = {}
  /\ Change(p, working \cup {Entry(p, k, SubBucket)})

\* A bucket goes with all that is in it.
DeleteBucket(p, k) ==
  /\ Called("DeleteBucket", p, k, 0)
  /\ IsBucket(p, k)
  /\ Change(p, {e \in working \ At(p, k) :
                  Len(e.path) > Len(p) => SubSeq(e.path, 1, Len(p) + 1) # Append(p, k)})

---------------------------------------------------------------------------
(* The cursor.                                                             *)

\* It goes to the one entry of E, or away if there is none.
Goto(op, p, k, E, away) ==
  /\ Called(op, p, k, 0)
  /\ mode \in {"ro", "rw"}
  /\ cur' = IF E = {} THEN [path |-> p, at |-> away, key |-> 0]
            ELSE [path |-> p, at |-> "at", key |-> (CHOOSE e \in E : TRUE).key]
  /\ UNCHANGED <<committed, working, mode>>

First(p) == Goto("First", p, 0, Least(In(p)), "gone")
Last(p) == Goto("Last", p, 0, Greatest(In(p)), "gone")

\* Beyond the last key of a bucket the cursor can still go back.
Seek(p, k) ==
  Goto("Seek", p, k, Least({e \in In(p) : e.key >= k}),
       IF In(p) = {} THEN "gone" ELSE "end")

\* A cursor whose bucket has changed may be anywhere.
Wander(op) ==
  /\ Called(op, cur.path, 0, 0)
  /\ cur.at = "stale"
  /\ UNCHANGED <<committed, working, mode, cur>>

MoveNext ==
  LET E == CASE cur.at = "at" -> Least({e \in In(cur.path) : e.key > cur.key})
             [] OTHER -> {}
  IN  \/ cur.at \in {"at", "end", "gone"} /\ Goto("Next", cur.path, 0, E, "gone")
      \/ Wander("Next")

MovePrev ==
  LET E == CASE cur.at = "at" -> Greatest({e \in In(cur.path) : e.key < cur.key})
             [] cur.at = "end" -> Greatest(In(cur.path))
             [] OTHER -> {}
  IN  \/ cur.at \in {"at", "end", "gone"} /\ Goto("Prev", cur.path, 0, E, "gone")
      \/ Wander("Prev")

\* What the cursor is at, if that is a key and not a bucket; a stale cursor
\* may remove any one key.
CursorRemove ==
  /\ Called("CursorRemove", cur.path, 0, 0)
  /\ \E E \in SUBSET In(cur.path) :
       /\ \A e \in E : e.len # SubBucket
       /\ CASE cur.at = "at" -> E = {e \in At(cur.path, cur.key) : e.len # SubBucket}
            [] cur.at = "stale" -> \A e, f \in E : e = f
            [] OTHER -> E = {}
       /\ Change(cur.path, working \ E)

---------------------------------------------------------------------------
(* The end of a transaction.                                               *)

End(op, E) ==
  /\ Called(op, <<>>, 0, 0)
  /\ mode \in {"ro", "rw"} /\ mode' = "none"
  /\ committed' = E /\ working' = E
  /\ cur' = NoCursor

Commit == mode = "rw" /\ End("Commit", working)
Rollback == End("Rollback", committed)

Next ==
  \/ \E m \in {"ro", "rw"} : Begin(m)
  \/ \E p \in Paths, k \in Keys :
       \/ \E len \in Lens : Put(p, k, len)
       \/ Remove(p, k) \/ CreateBucket(p, k) \/ DeleteBucket(p, k)
       \/ Seek(p, k)
  \/ \E p \in Paths : First(p) \/ Last(p)
  \/ MoveNext \/ MovePrev \/ CursorRemove
  \/ Commit \/ Rollback

Spec == Init /\ [][Next]_vars
=============================================================================
