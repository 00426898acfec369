------------------------------- MODULE DataDir -------------------------------
(***************************************************************************)
(* What a start of the server does to its data directory:                  *)
(* identifyDataDirOrDie, then NewServer with the directories it touches,   *)
(* the backend it opens and the write-ahead log that startNode creates.    *)
(* A process may crash between any two file operations and start again,    *)
(* and several processes may be started on one directory.                  *)
(*                                                                         *)
(* External: the file system, whose names survive a crash of a process,    *)
(* and bbolt, which waits for an exclusive lock on db.  Starts that fail   *)
(* for other reasons than the directory are in Startup.                    *)
(***************************************************************************)
EXTENDS Naturals

CONSTANTS
  Procs,       \* processes started on the directory
  MaxCrashes   \* bound on the number of crashes

NoProc == "nobody"

ASSUME DirAssumption == MaxCrashes \in Nat /\ NoProc \notin Procs

VARIABLES
  disk,     \* names that exist
  walFile,  \* the process whose open file is the one named 0.wal in wal.tmp, or NoProc
  dbLock,   \* the process that holds the lock on db, or NoProc
  place,    \* per process: where it is
  dirType,  \* per process: what it took the directory for
  crashes   \* crashes so far

dirVars == <<disk, walFile, dbLock, place, dirType, crashes>>

\* Directories: the data directory, member, member/snap, member/wal and wal.tmp.
Dir(dir) == <<dir>>
Touch(dir) == <<dir, ".touch">>
Wal(dir) == <<dir, "0.wal">>
Touched == {"data", "snap", "wal.tmp", "member"}
WithParents(dir) == CASE dir = "data" -> {Dir("data")}
                      [] dir = "member" -> {Dir("data"), Dir("member")}
                      [] OTHER -> {Dir("data"), Dir("member"), Dir(dir)}
Db == <<"snap", "db">>
Content(dir) == {Touch(dir), Wal(dir)} \cap disk

\* Where a process can be: the steps of TouchDirAll(dir), and the others.
At(step) == <<step>>
Mkdir(dir) == <<dir, "mkdir">>
WriteTouch(dir) == <<dir, "write">>
RemoveTouch(dir) == <<dir, "remove">>

DirInit ==
  /\ disk = {} /\ walFile = NoProc /\ dbLock = NoProc
  /\ crashes = 0
  /\ place = [p \in Procs |-> At("idle")] /\ dirType = [p \in Procs |-> "none"]

Advance(p, from, to) == place[p] = from /\ place' = [place EXCEPT ![p] = to]

\* Mistake: a directory is a member's once its log is in place.
IdentifyByLog(p) ==
  /\ Advance(p, At("idle"), Mkdir("data"))
  /\ dirType' = [dirType EXCEPT ![p] = IF Wal("wal") \in disk THEN "dirMember" ELSE "dirEmpty"]
  /\ UNCHANGED <<disk, walFile, dbLock, crashes>>

\* identifyDataDirOrDie; no other name under the data directory counts (a
\* .touch a crash left only gives a warning), and nothing creates proxy.
IdentifyDataDir(p) ==
  /\ Advance(p, At("idle"), Mkdir("data"))
  /\ dirType' = [dirType EXCEPT ![p] = IF Dir("member") \in disk THEN "dirMember" ELSE "dirEmpty"]
  /\ UNCHANGED <<disk, walFile, dbLock, crashes>>

\* NewServer touches the data directory, the one of snapshots, later its own; and
\* wal.Create the temporary directory of the log.
AfterTouch(dir) ==
  CASE dir = "data" -> Mkdir("snap")
    [] dir = "snap" -> At("openBackend")
    [] dir = "wal.tmp" -> At("readDir")
    [] dir = "member" -> At("running")

\* TouchDirAll: MkdirAll, then IsDirWriteable writes a file and removes it.
MkdirAll(p, dir) ==
  /\ Advance(p, Mkdir(dir), WriteTouch(dir))
  /\ disk' = disk \cup WithParents(dir)
  /\ UNCHANGED <<walFile, dbLock, dirType, crashes>>

WriteFile(p, dir) ==
  /\ Advance(p, WriteTouch(dir), RemoveTouch(dir))
  /\ disk' = disk \cup {Touch(dir)}
  /\ UNCHANGED <<walFile, dbLock, dirType, crashes>>

\* Remove fails when another process that starts has removed the file.  NewServer
\* returns the error, or ends the process; either way it never serves.
Remove(p, dir) ==
  /\ place[p] = RemoveTouch(dir)
  /\ place' = [place EXCEPT ![p] = IF Touch(dir) \in disk THEN AfterTouch(dir) ELSE At("error")]
  /\ disk' = disk \ {Touch(dir)}
  /\ dbLock' = IF dbLock = p /\ Touch(dir) \notin disk THEN NoProc ELSE dbLock
  /\ UNCHANGED <<walFile, dirType, crashes>>

\* Mistake: after 10 s the wait for the lock is given up; a start takes less, so
\* whoever holds it as long is running.
OpenBackendShared(p) ==
  /\ Advance(p, At("openBackend"), At("create"))
  /\ \A q \in Procs : dbLock = q => place[q] = At("running")
  /\ dbLock' = p /\ disk' = disk \cup {Db}
  /\ UNCHANGED <<walFile, dirType, crashes>>

\* openBackend waits for bbolt, after a warning if it takes longer than 10 s.
OpenBackend(p) ==
  /\ Advance(p, At("openBackend"), At("create")) /\ dbLock = NoProc
  /\ dbLock' = p /\ disk' = disk \cup {Db}
  /\ UNCHANGED <<walFile, dirType, crashes>>

\* Mistake: an error of NewServer leaves the backend open.
BootstrapFailsOpen(p) ==
  /\ Advance(p, At("create"), At("error"))
  /\ UNCHANGED <<disk, walFile, dbLock, dirType, crashes>>

\* An error of NewServer once the backend is open: the deferred function closes
\* it.  The process lives on without a server.
BootstrapFails(p) ==
  /\ Advance(p, At("create"), At("error"))
  /\ dbLock' = NoProc
  /\ UNCHANGED <<disk, walFile, dirType, crashes>>

\* wal.Exist
Exist(dir) == Wal(dir) \in disk

\* Mistake: Create reuses a temporary directory that is already there.
CreateReusesTmp(p) ==
  /\ Advance(p, At("create"), Mkdir("wal.tmp")) /\ ~Exist("wal")
  /\ UNCHANGED <<disk, walFile, dbLock, dirType, crashes>>

\* wal.Create: nothing to do for a log that exists; otherwise the temporary
\* directory of an earlier attempt goes, with all its files.
Create(p) ==
  /\ Advance(p, At("create"), Mkdir("wal.tmp")) /\ ~Exist("wal")
  /\ disk' = disk \ ({Dir("wal.tmp")} \cup Content("wal.tmp"))
  /\ walFile' = NoProc
  /\ UNCHANGED <<dbLock, dirType, crashes>>

\* CreateDirAll wants the directory empty.
ReadDir(p) ==
  /\ place[p] = At("readDir")
  /\ place' = [place EXCEPT ![p] = IF Content("wal.tmp") = {} THEN At("lockFile") ELSE At("panicked")]
  /\ UNCHANGED <<disk, walFile, dbLock, dirType, crashes>>

\* LockFile creates 0.wal in the temporary directory, where it stays.  The raft
\* node is started, and the directory of the member touched.
LockFile(p) ==
  /\ Advance(p, At("lockFile"), Mkdir("member"))
  /\ disk' = disk \cup {Wal("wal.tmp")} /\ walFile' = p
  /\ UNCHANGED <<dbLock, dirType, crashes>>

\* The process ends, however far it has got; the kernel drops its locks.
Crash(p) ==
  /\ place[p] # At("idle")
  /\ place' = [place EXCEPT ![p] = At("idle")]
  /\ dbLock' = IF dbLock = p THEN NoProc ELSE dbLock
  /\ walFile' = IF walFile = p THEN NoProc ELSE walFile
  /\ crashes < MaxCrashes /\ crashes' = crashes + 1
  /\ UNCHANGED <<disk, dirType>>

Step(p) ==
  \/ \E dir \in Touched : MkdirAll(p, dir) \/ WriteFile(p, dir) \/ Remove(p, dir)
  \/ OpenBackend(p) \/ BootstrapFails(p) \/ Create(p) \/ ReadDir(p) \/ LockFile(p)

DirNext == \E p \in Procs : IdentifyDataDir(p) \/ Step(p) \/ Crash(p)

DirSpec == DirInit /\ [][DirNext]_dirVars

\* A process that has started and is not blocked goes on.
DirFairness == \A p \in Procs : WF_dirVars(Step(p))

DirFairSpec == DirSpec /\ DirFairness

-----------------------------------------------------------------------------

\* startNode, wal.Create: wherever an earlier start crashed, and whoever else is
\* starting, the log can be created: CreateDirAll never finds files in the
\* temporary directory, which would be a panic at every start from then on.
CreateNeverPanics == \A p \in Procs : place[p] # At("panicked")

\* NewServer opens the backend before it creates the log, so the lock on db keeps
\* a second process from removing the log of a running one.
RunningKeepsItsLog ==
  \A p \in Procs : place[p] = At("running") => walFile = p /\ dbLock = p /\ Wal("wal.tmp") \in disk

\* identifyDataDirOrDie, "初次启动为空即dirEmpty , 第二次启动则为member" (empty at
\* the first start, member at the second): once the database is there, so after
\* every start that got as far, no start takes the directory for an empty one.
SecondStartIsMember ==
  [][\A p \in Procs : Db \in disk /\ place[p] = At("idle") /\ place'[p] # At("idle") => dirType'[p] = "dirMember"]_dirVars

\* openBackend, NewServer: whoever waits for the database gets it, unless a
\* running server has it: no start that failed or crashed keeps it.
BackendIsGivenUp ==
  \A p \in Procs : place[p] = At("openBackend")
    ~> \/ place[p] # At("openBackend")
       \/ \E q \in Procs : dbLock = q /\ place[q] = At("running")

=============================================================================
