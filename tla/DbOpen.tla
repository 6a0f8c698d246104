------------------------------- MODULE DbOpen -------------------------------
(***************************************************************************)
(* Opening, initialising and closing the database file: DB::Open,          *)
(* DB::Init, DB::initMeta's checks, DB::DbClose, ~DB and the file lock     *)
(* (FlockUtil), for DB objects, of one process each, that are given the    *)
(* same path.  Processes die and the machine crashes at any step.          *)
(*                                                                         *)
(* The file is its size in pages up to four, which of the four pages of    *)
(* Init hold what Init wrote (or later commits made of it) and not zeros,  *)
(* whether its freelist lists page 0, and the last commit in it.  What a   *)
(* commit does in between is in Db.tla.  No reader is open, so what one    *)
(* commit frees the next releases.                                         *)
(***************************************************************************)
EXTENDS Integers, FiniteSets

CONSTANTS
  Objects,    \* the DB objects
  NoObject,   \* not an object
  MaxCommit,  \* bound on commits
  MaxCrash    \* bound on crashes of the machine

ASSUME DbOpenAssumption ==
  /\ NoObject \notin Objects
  /\ MaxCommit \in Nat /\ MaxCrash \in Nat

\* 2 meta pages, 1 freelist page, 1 leaf page.
InitPages == 0 .. 3
Absent == [size |-> 0, good |-> {}, lists0 |-> FALSE, commit |-> 0]

\* Mutant: the buffer is a page short.
FreshShort == [size |-> 3, good |-> InitPages, lists0 |-> FALSE, commit |-> 0]

\* What DB::Init writes.
Fresh == [size |-> 4, good |-> InitPages, lists0 |-> FALSE, commit |-> 0]

VARIABLES
  file,     \* the database file, as processes see it
  disk,     \* the file as of its last fdatasync
  lock,     \* the object whose process holds the file lock, or NoObject
  lockFd,   \* whether FlockUtil::fd_ is the descriptor that holds it
  pc,       \* where each object is
  fileFd,   \* objects that have the file open
  hasPath,  \* whether path_ is still set
  acked,    \* the last commit that returned 0
  misread,  \* whether the size of a file with an acknowledged commit has read as 0
  crashes   \* crashes so far

vars == <<file, disk, lock, lockFd, pc, fileFd, hasPath, acked, misread, crashes>>

Init ==
  /\ file = Absent /\ disk = Absent
  /\ lock = NoObject
  /\ lockFd = [o \in Objects |-> FALSE]
  /\ pc = [o \in Objects |-> "new"]
  /\ fileFd = {}
  /\ hasPath = [o \in Objects |-> TRUE]
  /\ acked = 0 /\ misread = FALSE /\ crashes = 0

Goto(o, from, to) == pc[o] \in from /\ pc' = [pc EXCEPT ![o] = to]

---------------------------------------------------------------------------
(* DB::Open.                                                               *)

\* An object on which Open does something: file_ is 0 or -1.
Idle == {"new", "closed", "failed"}

\* Mutant: the answer of flock is not looked at.
LockAlways(o) ==
  /\ Goto(o, Idle, "locked")
  /\ lock' = o /\ lockFd' = [lockFd EXCEPT ![o] = TRUE]
  /\ UNCHANGED <<file, disk, fileFd, hasPath, acked, misread, crashes>>

\* FlockUtil::lock: flock with LOCK_NB on a descriptor of its own.
Lock(o) ==
  /\ lock = NoObject /\ lock' = o
  /\ lockFd' = [lockFd EXCEPT ![o] = TRUE]
  /\ Goto(o, Idle, "locked")
  /\ UNCHANGED <<file, disk, fileFd, hasPath, acked, misread, crashes>>

\* The lock is taken, perhaps by an earlier descriptor of this object, which
\* fd_ then forgets: DbClose has not unlocked it.
LockFails(o) ==
  /\ lock # NoObject
  /\ pc[o] \in Idle
  /\ lockFd' = [lockFd EXCEPT ![o] = FALSE]
  /\ UNCHANGED <<file, disk, lock, pc, fileFd, hasPath, acked, misread, crashes>>

\* open(2), which creates the file; an object that was closed has no path.
OpenFile(o) ==
  /\ hasPath[o]
  /\ Goto(o, {"locked"}, "opened")
  /\ fileFd' = fileFd \cup {o}
  /\ UNCHANGED <<file, disk, lock, lockFd, hasPath, acked, misread, crashes>>

\* Open returns -1 and keeps the file lock.
OpenFileFails(o) ==
  /\ Goto(o, {"locked"}, "failed")
  /\ UNCHANGED <<file, disk, lock, lockFd, fileFd, hasPath, acked, misread, crashes>>

\* GetFileSize decides whether the file is new.
GetFileSize(o) ==
  /\ IF file.size = 0 THEN Goto(o, {"opened"}, "init") ELSE Goto(o, {"opened"}, "check")
  /\ UNCHANGED <<file, disk, lock, lockFd, fileFd, hasPath, acked, misread, crashes>>

\* It returns 0 when fstat fails, which Open takes for a new file.
StatFails(o) ==
  /\ Goto(o, {"opened"}, "init")
  /\ misread' = (misread \/ acked > 0)
  /\ UNCHANGED <<file, disk, lock, lockFd, fileFd, hasPath, acked, crashes>>

\* DB::Init writes the four pages over whatever the file holds.
InitWrite(o) ==
  /\ Goto(o, {"init"}, "sync")
  /\ file' = Fresh
  /\ UNCHANGED <<disk, lock, lockFd, fileFd, hasPath, acked, misread, crashes>>

\* What DbClose leaves: the file lock is still locked.
Closing(o) ==
  /\ fileFd' = fileFd \ {o}
  /\ hasPath' = [hasPath EXCEPT ![o] = FALSE]
  /\ UNCHANGED <<lock, lockFd>>

\* A short write of n pages: Init fails and Open calls DbClose.  Which commit
\* is left in a file that was not new depends on the meta that is left.
InitFails(o, n) ==
  /\ Goto(o, {"init"}, "closed")
  /\ \E c \in 0 .. file.commit :
       file' = [size |-> IF n < file.size THEN file.size ELSE n,
                good |-> file.good \cup (0 .. n - 1),
                lists0 |-> file.lists0 /\ n < 3,
                commit |-> IF n = 0 THEN file.commit ELSE c]
  /\ Closing(o)
  /\ UNCHANGED <<disk, acked, misread, crashes>>

\* A failing fdatasync is only logged.
InitSync(o) ==
  /\ Goto(o, {"sync"}, "check")
  /\ disk' \in {file, disk}
  /\ UNCHANGED <<file, lock, lockFd, fileFd, hasPath, acked, misread, crashes>>

\* The page size comes from the meta on page 0, so a file whose page 0 is
\* bad fails, whatever page 1 holds; then initMeta wants two pages.
MetaOK == file.size >= 2 /\ 0 \in file.good

\* The freelist's page, 2, can be read: it is not past the end of the file.
FreelistReadable == file.size > 2

OpenDone(o) ==
  /\ MetaOK /\ FreelistReadable
  /\ Goto(o, {"check"}, "open")
  /\ UNCHANGED <<file, disk, lock, lockFd, fileFd, hasPath, acked, misread, crashes>>

\* The checks fail, or pread or mmap does on a good file.
OpenFails(o) ==
  /\ Goto(o, {"check"}, "closed")
  /\ Closing(o)
  /\ UNCHANGED <<file, disk, acked, misread, crashes>>

\* The process ends and its descriptors with it.
Ends(o) ==
  /\ pc' = [pc EXCEPT ![o] = "gone"]
  /\ fileFd' = fileFd \ {o}
  /\ lock' = IF lock = o THEN NoObject ELSE lock
  /\ lockFd' = [lockFd EXCEPT ![o] = FALSE]
  /\ UNCHANGED <<file, disk, hasPath, acked, misread, crashes>>

\* freeList::read reads the mapping past the end of the file.
OpenFaults(o) ==
  /\ pc[o] = "check" /\ MetaOK /\ ~FreelistReadable
  /\ Ends(o)

---------------------------------------------------------------------------
(* Using and closing.                                                      *)

\* A commit that returns 0; with a bad root page, one that changes nothing.
\* It frees the freelist's page by the id stored in that page, which is 0
\* if Init's page never reached the disk, and moves the freelist elsewhere.
\* The first commit after an Init that lost meta page 1 writes that one.
Commit(o) ==
  /\ pc[o] = "open"
  /\ ~file.lists0 /\ file.commit < MaxCommit
  /\ file' = [size |-> 4, good |-> file.good \cup {1, 2},
              lists0 |-> 2 \notin file.good, commit |-> file.commit + 1]
  /\ disk' = file'
  /\ acked' = file'.commit
  /\ UNCHANGED <<lock, lockFd, pc, fileFd, hasPath, misread, crashes>>

\* freeList::allocate ends the process when page 0 is free.
CommitAborts(o) ==
  /\ pc[o] = "open" /\ file.lists0
  /\ Ends(o)

DbClose(o) ==
  /\ Goto(o, {"open"}, "closed")
  /\ Closing(o)
  /\ UNCHANGED <<file, disk, acked, misread, crashes>>

\* ~DB: DbClose, then ~FlockUtil closes fd_.
Destroy(o) ==
  /\ Goto(o, {"open"} \cup Idle, "gone")
  /\ fileFd' = fileFd \ {o}
  /\ lock' = IF lock = o /\ lockFd[o] THEN NoObject ELSE lock
  /\ lockFd' = [lockFd EXCEPT ![o] = FALSE]
  /\ UNCHANGED <<file, disk, hasPath, acked, misread, crashes>>

\* The process makes a new object.
Construct(o) ==
  /\ Goto(o, {"gone"}, "new")
  /\ hasPath' = [hasPath EXCEPT ![o] = TRUE]
  /\ UNCHANGED <<file, disk, lock, lockFd, fileFd, acked, misread, crashes>>

\* The process dies, at any step.
Die(o) == Ends(o)

\* What a crash may leave of what was not synced: any size in between, and
\* any of the pages within it; of pages written over, all or none.
Survivors ==
  {disk, file} \cup
  IF disk.size = file.size THEN {}
  ELSE {f \in [size : disk.size .. file.size, good : SUBSET file.good,
              lists0 : {FALSE}, commit : {0}] :
          f.good \subseteq 0 .. f.size - 1}

Crash ==
  /\ crashes < MaxCrash /\ crashes' = crashes + 1
  /\ file' \in Survivors /\ disk' = file'
  /\ pc' = [o \in Objects |-> "gone"] /\ fileFd' = {}
  /\ lock' = NoObject /\ lockFd' = [o \in Objects |-> FALSE]
  /\ UNCHANGED <<hasPath, acked, misread>>

Next ==
  \/ \E o \in Objects :
       \/ Lock(o) \/ LockFails(o) \/ OpenFile(o) \/ OpenFileFails(o)
       \/ GetFileSize(o) \/ StatFails(o) \/ InitWrite(o) \/ InitSync(o)
       \/ \E n \in InitPages : InitFails(o, n)
       \/ OpenDone(o) \/ OpenFails(o) \/ OpenFaults(o)
       \/ Commit(o) \/ CommitAborts(o) \/ DbClose(o) \/ Destroy(o) \/ Construct(o) \/ Die(o)
  \/ Crash

Spec == Init /\ [][Next]_vars

---------------------------------------------------------------------------
(* Properties.                                                             *)

TypeOK ==
  /\ \A f \in {file, disk} :
       /\ f.size \in 0 .. 4 /\ f.good \subseteq InitPages \cap (0 .. f.size - 1)
       /\ f.lists0 \in BOOLEAN /\ f.commit \in 0 .. MaxCommit
  /\ lock \in Objects \cup {NoObject}
  /\ lockFd \in [Objects -> BOOLEAN] /\ hasPath \in [Objects -> BOOLEAN]
  /\ pc \in [Objects -> Idle \cup {"locked", "opened", "init", "sync", "check", "open", "gone"}]
  /\ fileFd \subseteq Objects
  /\ acked \in 0 .. MaxCommit /\ misread \in BOOLEAN /\ crashes \in 0 .. MaxCrash

\* "No two DBs open the same file" (the comment in DB::Open): a process
\* that has the file open holds the lock, through every failing Open, every
\* DbClose that forgets to unlock and every process that dies.
OneOwner == fileFd \subseteq {lock} /\ (\A o \in Objects : pc[o] = "open" => o \in fileFd)

\* An acknowledged commit is never wiped out by an Init, neither that of
\* another process that found the file empty before, nor that of an Open
\* after a crash; and a file that holds one can be opened again, though its
\* Init may have been interrupted and none of it but page 0 written.  "first
\* time to init a DB" is what DB::Open says of the Init it runs; the one way
\* in which it is not the first time is that fstat has failed on the file.
AckedKept ==
  ~misread =>
    /\ file.commit >= acked /\ disk.commit >= acked
    /\ acked > 0 => MetaOK /\ FreelistReadable
=============================================================================
