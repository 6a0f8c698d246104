--------------------------- MODULE DbOpenProofs ---------------------------
(***************************************************************************)
(* The file lock keeps every other process off the file and, as long as    *)
(* fstat does not fail, no Init wipes out an acknowledged commit, for any  *)
(* number of objects, commits, deaths of processes and crashes.            *)
(***************************************************************************)
EXTENDS DbOpen, TLAPS

\* The steps of an object that has the file open.
OnFile == {"opened", "init", "sync", "check", "open"}

\* From flock on an object is alone with the file, so what the checks of Open
\* found still holds when a commit builds on it: an open database has a good
\* page 0, whatever other processes do with the path meanwhile.
AloneOnFile ==
  /\ \A o \in Objects : o \in fileFd <=> pc[o] \in OnFile
  /\ \A o \in Objects : pc[o] \in OnFile \cup {"locked"} => lock = o
  /\ \A o \in Objects : pc[o] = "open" => MetaOK

\* Unless fstat has failed: no Init is about to write to a file with an
\* acknowledged commit, and once a commit is acknowledged a crash has nothing
\* left to take away.
CommitsKept ==
  /\ AckedKept
  /\ \A o \in Objects : pc[o] = "init" => acked = 0
  /\ acked > 0 => disk = file

\* OneOwner and AckedKept need to know that nobody else comes in between what
\* Open looks at and what it does: AloneOnFile.
IInv == TypeOK /\ OneOwner /\ AloneOnFile /\ (~misread => CommitsKept)

---------------------------------------------------------------------------
(* The invariant is inductive.                                             *)

\* No file and no objects that use it.
LEMMA InitIInv == Init => IInv
<1> SUFFICES ASSUME Init PROVE IInv
  OBVIOUS
<1>1. misread \in BOOLEAN
  BY Zenon DEF Init
<1> QED
  BY <1>1, DbOpenAssumption
  DEF Init, IInv, TypeOK, OneOwner, CommitsKept, AckedKept, AloneOnFile, Absent, InitPages, Idle, OnFile

USE DbOpenAssumption DEF IInv, InitPages, Idle, OnFile, Goto

\* FlockUtil::lock succeeds only when no process has the file open.
LEMMA LockKeeps ==
  ASSUME IInv, NEW o \in Objects, Lock(o)
  PROVE  IInv'
<1>1. TypeOK'
  BY DEF Lock, TypeOK
<1>2. OneOwner'
  BY DEF Lock, TypeOK, OneOwner, AloneOnFile
<1>3. ~misread' => CommitsKept'
  BY DEF Lock, TypeOK, CommitsKept, AckedKept, AloneOnFile, MetaOK, FreelistReadable
<1>4. AloneOnFile'
  BY DEF Lock, TypeOK, CommitsKept, AckedKept, AloneOnFile, MetaOK, FreelistReadable
<1> QED
  BY <1>1, <1>2, <1>3, <1>4

\* A failed flock changes nothing but FlockUtil::fd_.
LEMMA LockFailsKeeps ==
  ASSUME IInv, NEW o \in Objects, LockFails(o)
  PROVE  IInv'
<1>1. TypeOK'
  BY DEF LockFails, TypeOK
<1>2. OneOwner'
  BY DEF LockFails, TypeOK, OneOwner, AloneOnFile
<1>3. ~misread' => CommitsKept'
  BY DEF LockFails, TypeOK, CommitsKept, AckedKept, AloneOnFile, MetaOK, FreelistReadable
<1>4. AloneOnFile'
  BY DEF LockFails, TypeOK, CommitsKept, AckedKept, AloneOnFile, MetaOK, FreelistReadable
<1> QED
  BY <1>1, <1>2, <1>3, <1>4

\* open(2), with the lock held.
LEMMA OpenFileKeeps ==
  ASSUME IInv, NEW o \in Objects, OpenFile(o)
  PROVE  IInv'
<1>1. TypeOK'
  BY DEF OpenFile, TypeOK
<1>2. OneOwner'
  BY DEF OpenFile, TypeOK, OneOwner, AloneOnFile
<1>3. ~misread' => CommitsKept'
  BY DEF OpenFile, TypeOK, CommitsKept, AckedKept, AloneOnFile, MetaOK, FreelistReadable
<1>4. AloneOnFile'
  BY DEF OpenFile, TypeOK, CommitsKept, AckedKept, AloneOnFile, MetaOK, FreelistReadable
<1> QED
  BY <1>1, <1>2, <1>3, <1>4

\* Open fails and keeps the lock.
LEMMA OpenFileFailsKeeps ==
  ASSUME IInv, NEW o \in Objects, OpenFileFails(o)
  PROVE  IInv'
<1>1. TypeOK'
  BY DEF OpenFileFails, TypeOK
<1>2. OneOwner'
  BY DEF OpenFileFails, TypeOK, OneOwner, AloneOnFile
<1>3. ~misread' => CommitsKept'
  BY DEF OpenFileFails, TypeOK, CommitsKept, AckedKept, AloneOnFile, MetaOK, FreelistReadable
<1>4. AloneOnFile'
  BY DEF OpenFileFails, TypeOK, CommitsKept, AckedKept, AloneOnFile, MetaOK, FreelistReadable
<1> QED
  BY <1>1, <1>2, <1>3, <1>4

\* A file with an acknowledged commit is not empty, so it is not initialised.
LEMMA GetFileSizeKeeps ==
  ASSUME IInv, NEW o \in Objects, GetFileSize(o)
  PROVE  IInv'
<1>1. TypeOK'
  BY DEF GetFileSize, TypeOK
<1>2. OneOwner'
  BY DEF GetFileSize, TypeOK, OneOwner, AloneOnFile
<1>3. ~misread' => CommitsKept'
  BY DEF GetFileSize, TypeOK, CommitsKept, AckedKept, AloneOnFile, MetaOK, FreelistReadable
<1>4. AloneOnFile'
  BY DEF GetFileSize, TypeOK, CommitsKept, AckedKept, AloneOnFile, MetaOK, FreelistReadable
<1> QED
  BY <1>1, <1>2, <1>3, <1>4

\* A failing fstat on a file that is not empty is remembered in misread.
LEMMA StatFailsKeeps ==
  ASSUME IInv, NEW o \in Objects, StatFails(o)
  PROVE  IInv'
<1>b. misread' \in BOOLEAN
  BY Zenon DEF StatFails
<1>1. TypeOK'
  BY <1>b DEF StatFails, TypeOK
<1>2. OneOwner'
  BY DEF StatFails, TypeOK, OneOwner, AloneOnFile
<1>3. ~misread' => CommitsKept'
  <2>1. ~misread' => ~misread /\ ~(acked > 0)
    BY Zenon DEF StatFails
  <2>2. ~misread' => acked = 0
    BY <2>1 DEF TypeOK
  <2> QED
    BY <2>1, <2>2 DEF StatFails, TypeOK, CommitsKept, AckedKept
<1>4. AloneOnFile'
  BY DEF StatFails, TypeOK, CommitsKept, AckedKept, AloneOnFile, MetaOK, FreelistReadable
<1> QED
  BY <1>1, <1>2, <1>3, <1>4

\* Init writes to a file without acknowledged commits.
LEMMA InitWriteKeeps ==
  ASSUME IInv, NEW o \in Objects, InitWrite(o)
  PROVE  IInv'
<1>1. TypeOK'
  BY DEF InitWrite, Fresh, TypeOK
<1>2. OneOwner'
  BY DEF InitWrite, Fresh, TypeOK, OneOwner, AloneOnFile
<1>3. ~misread' => CommitsKept'
  BY DEF InitWrite, Fresh, TypeOK, CommitsKept, AckedKept, AloneOnFile, MetaOK, FreelistReadable
<1>4. AloneOnFile'
  BY DEF InitWrite, Fresh, TypeOK, CommitsKept, AckedKept, AloneOnFile, MetaOK, FreelistReadable
<1> QED
  BY <1>1, <1>2, <1>3, <1>4

\* Init syncs, or fails to.
LEMMA InitSyncKeeps ==
  ASSUME IInv, NEW o \in Objects, InitSync(o)
  PROVE  IInv'
<1>1. TypeOK'
  BY DEF InitSync, TypeOK
<1>2. OneOwner'
  BY DEF InitSync, TypeOK, OneOwner, AloneOnFile
<1>3. ~misread' => CommitsKept'
  BY DEF InitSync, TypeOK, CommitsKept, AckedKept, AloneOnFile, MetaOK, FreelistReadable
<1>4. AloneOnFile'
  BY DEF InitSync, TypeOK, CommitsKept, AckedKept, AloneOnFile, MetaOK, FreelistReadable
<1> QED
  BY <1>1, <1>2, <1>3, <1>4

\* So does an Init that fails half way.
LEMMA InitFailsKeeps ==
  ASSUME IInv, NEW o \in Objects, NEW n \in InitPages, InitFails(o, n)
  PROVE  IInv'
<1>1. TypeOK'
  BY DEF InitFails, Fresh, Closing, TypeOK
<1>2. OneOwner'
  BY DEF InitFails, Fresh, Closing, TypeOK, OneOwner, AloneOnFile
<1>3. ~misread' => CommitsKept'
  BY DEF InitFails, Fresh, Closing, TypeOK, CommitsKept, AckedKept, AloneOnFile, MetaOK, FreelistReadable
<1>4. AloneOnFile'
  BY DEF InitFails, Fresh, Closing, TypeOK, CommitsKept, AckedKept, AloneOnFile, MetaOK, FreelistReadable
<1> QED
  BY <1>1, <1>2, <1>3, <1>4

\* Open succeeds with a good page 0.
LEMMA OpenDoneKeeps ==
  ASSUME IInv, NEW o \in Objects, OpenDone(o)
  PROVE  IInv'
<1>1. TypeOK'
  BY DEF OpenDone, TypeOK
<1>2. OneOwner'
  BY DEF OpenDone, TypeOK, OneOwner, AloneOnFile
<1>3. ~misread' => CommitsKept'
  BY DEF OpenDone, TypeOK, CommitsKept, AckedKept, AloneOnFile, MetaOK, FreelistReadable
<1>4. AloneOnFile'
  BY DEF OpenDone, TypeOK, CommitsKept, AckedKept, AloneOnFile, MetaOK, FreelistReadable
<1> QED
  BY <1>1, <1>2, <1>3, <1>4

\* DbClose closes the file and leaves it locked.
LEMMA OpenFailsKeeps ==
  ASSUME IInv, NEW o \in Objects, OpenFails(o)
  PROVE  IInv'
<1>1. TypeOK'
  BY DEF OpenFails, Closing, TypeOK
<1>2. OneOwner'
  BY DEF OpenFails, Closing, TypeOK, OneOwner, AloneOnFile
<1>3. ~misread' => CommitsKept'
  BY DEF OpenFails, Closing, TypeOK, CommitsKept, AckedKept, AloneOnFile, MetaOK, FreelistReadable
<1>4. AloneOnFile'
  BY DEF OpenFails, Closing, TypeOK, CommitsKept, AckedKept, AloneOnFile, MetaOK, FreelistReadable
<1> QED
  BY <1>1, <1>2, <1>3, <1>4

\* The process faults while it reads the freelist.
LEMMA OpenFaultsKeeps ==
  ASSUME IInv, NEW o \in Objects, OpenFaults(o)
  PROVE  IInv'
<1>1. TypeOK'
  BY DEF OpenFaults, Ends, TypeOK
<1>2. OneOwner'
  BY DEF OpenFaults, Ends, TypeOK, OneOwner, AloneOnFile
<1>3. ~misread' => CommitsKept'
  BY DEF OpenFaults, Ends, TypeOK, CommitsKept, AckedKept, AloneOnFile, MetaOK, FreelistReadable
<1>4. AloneOnFile'
  BY DEF OpenFaults, Ends, TypeOK, CommitsKept, AckedKept, AloneOnFile, MetaOK, FreelistReadable
<1> QED
  BY <1>1, <1>2, <1>3, <1>4

\* A commit is synced before it is acknowledged, and page 0 stays good.
LEMMA CommitKeeps ==
  ASSUME IInv, NEW o \in Objects, Commit(o)
  PROVE  IInv'
<1>1. TypeOK'
  BY DEF Commit, TypeOK
<1>2. OneOwner'
  BY DEF Commit, TypeOK, OneOwner, AloneOnFile
<1>3. ~misread' => CommitsKept'
  BY DEF Commit, TypeOK, CommitsKept, AckedKept, AloneOnFile, MetaOK, FreelistReadable
<1>4. AloneOnFile'
  BY DEF Commit, TypeOK, CommitsKept, AckedKept, AloneOnFile, MetaOK, FreelistReadable
<1> QED
  BY <1>1, <1>2, <1>3, <1>4

\* freeList::allocate ends the process.
LEMMA CommitAbortsKeeps ==
  ASSUME IInv, NEW o \in Objects, CommitAborts(o)
  PROVE  IInv'
<1>1. TypeOK'
  BY DEF CommitAborts, Ends, TypeOK
<1>2. OneOwner'
  BY DEF CommitAborts, Ends, TypeOK, OneOwner, AloneOnFile
<1>3. ~misread' => CommitsKept'
  BY DEF CommitAborts, Ends, TypeOK, CommitsKept, AckedKept, AloneOnFile, MetaOK, FreelistReadable
<1>4. AloneOnFile'
  BY DEF CommitAborts, Ends, TypeOK, CommitsKept, AckedKept, AloneOnFile, MetaOK, FreelistReadable
<1> QED
  BY <1>1, <1>2, <1>3, <1>4

\* DbClose closes the file and leaves it locked.
LEMMA DbCloseKeeps ==
  ASSUME IInv, NEW o \in Objects, DbClose(o)
  PROVE  IInv'
<1>1. TypeOK'
  BY DEF DbClose, Closing, TypeOK
<1>2. OneOwner'
  BY DEF DbClose, Closing, TypeOK, OneOwner, AloneOnFile
<1>3. ~misread' => CommitsKept'
  BY DEF DbClose, Closing, TypeOK, CommitsKept, AckedKept, AloneOnFile, MetaOK, FreelistReadable
<1>4. AloneOnFile'
  BY DEF DbClose, Closing, TypeOK, CommitsKept, AckedKept, AloneOnFile, MetaOK, FreelistReadable
<1> QED
  BY <1>1, <1>2, <1>3, <1>4

\* The destructor may unlock the file only after it has closed it.
LEMMA DestroyKeeps ==
  ASSUME IInv, NEW o \in Objects, Destroy(o)
  PROVE  IInv'
<1>1. TypeOK'
  BY DEF Destroy, TypeOK
<1>2. OneOwner'
  BY DEF Destroy, TypeOK, OneOwner, AloneOnFile
<1>3. ~misread' => CommitsKept'
  BY DEF Destroy, TypeOK, CommitsKept, AckedKept, AloneOnFile, MetaOK, FreelistReadable
<1>4. AloneOnFile'
  BY DEF Destroy, TypeOK, CommitsKept, AckedKept, AloneOnFile, MetaOK, FreelistReadable
<1> QED
  BY <1>1, <1>2, <1>3, <1>4

\* A new object has nothing.
LEMMA ConstructKeeps ==
  ASSUME IInv, NEW o \in Objects, Construct(o)
  PROVE  IInv'
<1>1. TypeOK'
  BY DEF Construct, TypeOK
<1>2. OneOwner'
  BY DEF Construct, TypeOK, OneOwner, AloneOnFile
<1>3. ~misread' => CommitsKept'
  BY DEF Construct, TypeOK, CommitsKept, AckedKept, AloneOnFile, MetaOK, FreelistReadable
<1>4. AloneOnFile'
  BY DEF Construct, TypeOK, CommitsKept, AckedKept, AloneOnFile, MetaOK, FreelistReadable
<1> QED
  BY <1>1, <1>2, <1>3, <1>4

\* A process that dies takes its lock and its descriptors along.
LEMMA DieKeeps ==
  ASSUME IInv, NEW o \in Objects, Die(o)
  PROVE  IInv'
<1>1. TypeOK'
  BY DEF Die, Ends, TypeOK
<1>2. OneOwner'
  BY DEF Die, Ends, TypeOK, OneOwner, AloneOnFile
<1>3. ~misread' => CommitsKept'
  BY DEF Die, Ends, TypeOK, CommitsKept, AckedKept, AloneOnFile, MetaOK, FreelistReadable
<1>4. AloneOnFile'
  BY DEF Die, Ends, TypeOK, CommitsKept, AckedKept, AloneOnFile, MetaOK, FreelistReadable
<1> QED
  BY <1>1, <1>2, <1>3, <1>4

\* What a crash leaves of a file is well-typed, and after an acknowledged
\* commit it is all of it.
LEMMA SurvivorsType ==
  ASSUME IInv, NEW f \in Survivors
  PROVE  /\ f.size \in 0 .. 4 /\ f.good \subseteq InitPages \cap (0 .. f.size - 1)
         /\ f.lists0 \in BOOLEAN /\ f.commit \in 0 .. MaxCommit
         /\ ~misread => f.commit >= acked /\ (acked > 0 => f = file)
<1>1. CASE f \in {disk, file}
  BY <1>1 DEF TypeOK, CommitsKept, AckedKept, AloneOnFile
<1>2. CASE f \notin {disk, file}
  <2>1. disk.size # file.size
        /\ f \in [size : disk.size .. file.size, good : SUBSET file.good,
                 lists0 : {FALSE}, commit : {0}]
        /\ f.good \subseteq 0 .. f.size - 1
    BY <1>2 DEF Survivors
  <2>2. f.size \in disk.size .. file.size /\ f.good \subseteq file.good /\ f.commit = 0
    BY <2>1
  <2>3. f.lists0 \in BOOLEAN
    BY <2>1, Zenon
  <2>4. ~misread => acked = 0
    BY <2>1 DEF TypeOK, CommitsKept
  <2> QED
    BY <2>1, <2>2, <2>3, <2>4 DEF TypeOK
<1> QED
  BY <1>1, <1>2

\* A crash ends every process and takes away only what was not synced, which
\* is nothing once a commit has been acknowledged.
LEMMA CrashKeeps ==
  ASSUME IInv, Crash
  PROVE  IInv'
<1>1. /\ file'.size \in 0 .. 4 /\ file'.good \subseteq InitPages \cap (0 .. file'.size - 1)
      /\ file'.lists0 \in BOOLEAN /\ file'.commit \in 0 .. MaxCommit
      /\ ~misread => file'.commit >= acked /\ (acked > 0 => file' = file)
      /\ disk' = file'
  BY SurvivorsType DEF Crash
<1>2. TypeOK'
  BY <1>1 DEF Crash, TypeOK
<1>3. OneOwner'
  BY DEF Crash, OneOwner
<1>4. ~misread' => CommitsKept'
  BY <1>1 DEF Crash, CommitsKept, AckedKept, MetaOK, FreelistReadable
<1>5. AloneOnFile'
  BY <1>1 DEF Crash, AloneOnFile
<1> QED
  BY <1>2, <1>3, <1>4, <1>5

\* Every step keeps the invariant.
LEMMA NextIInv == IInv /\ [Next]_vars => IInv'
<1> SUFFICES ASSUME IInv, [Next]_vars PROVE IInv'
  OBVIOUS
<1>1. CASE UNCHANGED vars
  BY <1>1 DEF vars, TypeOK, OneOwner, CommitsKept, AckedKept, AloneOnFile, MetaOK, FreelistReadable
<1>2. CASE Next
  BY <1>2, LockKeeps, LockFailsKeeps, OpenFileKeeps, OpenFileFailsKeeps, GetFileSizeKeeps, StatFailsKeeps,
    InitWriteKeeps, InitSyncKeeps, InitFailsKeeps, OpenDoneKeeps, OpenFailsKeeps,
    OpenFaultsKeeps, CommitKeeps, CommitAbortsKeeps, DbCloseKeeps, DestroyKeeps,
    ConstructKeeps, DieKeeps, CrashKeeps DEF Next
<1> QED
  BY <1>1, <1>2

\* The types: the file never has a length that neither Init nor a crash in the
\* middle of it leaves.
THEOREM TypeCorrect == Spec => []TypeOK
<1>1. IInv => TypeOK
  OBVIOUS
<1> QED
  BY InitIInv, NextIInv, <1>1, PTL DEF Spec

\* What Open has looked at does not change before it is used, whether fstat
\* works or not.
THEOREM FileIsLocked == Spec => []AloneOnFile
<1>1. IInv => AloneOnFile
  OBVIOUS
<1> QED
  BY InitIInv, NextIInv, <1>1, PTL DEF Spec

\* "No two DBs open the same file", as the comment in DB::Open has it.
THEOREM FileHasOneOwner == Spec => []OneOwner
<1>1. IInv => OneOwner
  OBVIOUS
<1> QED
  BY InitIInv, NextIInv, <1>1, PTL DEF Spec

\* No Open, whatever it finds and wherever it stops, loses an acknowledged
\* commit, unless fstat has failed in GetFileSize on a file that had one.
THEOREM OpenKeepsCommits == Spec => []AckedKept
<1>1. IInv => AckedKept
  BY DEF CommitsKept, AckedKept
<1> QED
  BY InitIInv, NextIInv, <1>1, PTL DEF Spec
=============================================================================
