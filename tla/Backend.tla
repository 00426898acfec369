------------------------------ MODULE Backend ------------------------------
(***************************************************************************)
(* mvcc/backend and etcdserver/backend.go: opening the database in a       *)
(* goroutine of its own, the goroutine backend.run, ForceCommit, Snapshot  *)
(* with its watcher goroutine, and Close.  What commits and begins bolt    *)
(* transactions inside of unsafeCommit is commented out in the code, so    *)
(* Commit takes and releases its two locks and changes nothing: the only   *)
(* transactions are those of snapshots.  b.mu is only ever read-locked and *)
(* left out.                                                               *)
(*                                                                         *)
(* External: bolt.  Open may wait for the lock on the file or fail, Begin  *)
(* fails on a closed database, Close waits for the open transactions.      *)
(***************************************************************************)
EXTENDS Naturals, FiniteSets

CONSTANTS Users   \* goroutines that call ForceCommit or Snapshot

Nobody == "nobody"

ASSUME UsersAssumption == Nobody \notin Users

VARIABLES
  main,     \* the goroutine in NewServer: "select", "receive", "opened", then
            \* "close", "wait", "dbClose", "closed" in backend.Close
  opener,   \* the goroutine of openBackend: "open", "send", "ended",
            \* "panicked"
  runner,   \* backend.run: "none", "select", "reset", "ended"
  stopc,    \* stopc is closed
  donec,    \* donec is closed
  db,       \* the database: "none", "open", "closed"
  txLock,   \* who holds batchTx.Mutex, or Nobody
  readLock, \* who holds readTx.mu, or Nobody
  user,     \* per user: where it is
  watcher,  \* per user: the goroutine of its snapshot, "none", "select", "ended"
  txOpen    \* per user: the transaction of its snapshot is open

openVars == <<main, opener>>
runVars == <<runner, stopc, donec>>
lockVars == <<txLock, readLock>>
snapVars == <<user, watcher, txOpen>>
backendVars == <<openVars, runVars, db, lockVars, snapVars>>

BackendInit ==
  /\ main = "select" /\ opener = "open"
  /\ runner = "none" /\ stopc = FALSE /\ donec = FALSE /\ db = "none"
  /\ txLock = Nobody /\ readLock = Nobody
  /\ user = [u \in Users |-> "idle"] /\ watcher = [u \in Users |-> "none"]
  /\ txOpen = [u \in Users |-> FALSE]

-----------------------------------------------------------------------------
(* openBackend, newBackend *)

\* bolt.Open; nobody else has the backend yet, so newBatchTxBuffered's Commit
\* meets no one.  run is started.
NewBackend ==
  /\ opener = "open" /\ opener' = "send" /\ db' = "open" /\ runner' = "select"
  /\ UNCHANGED <<main, stopc, donec, lockVars, snapVars>>

\* bolt.Open fails: the logger panics and the process is gone, whoever waits.
OpenPanics ==
  /\ opener = "open" /\ opener' = "panicked"
  /\ UNCHANGED <<main, runVars, db, lockVars, snapVars>>

\* 10 s have passed: a warning, and the wait goes on.
Timeout ==
  /\ main = "select" /\ main' = "receive" /\ opener # "panicked"
  /\ UNCHANGED <<opener, runVars, db, lockVars, snapVars>>

\* beOpened is unbuffered: both sides meet.
Receive ==
  /\ main \in {"select", "receive"} /\ opener = "send"
  /\ main' = "opened" /\ opener' = "ended"
  /\ UNCHANGED <<runVars, db, lockVars, snapVars>>

-----------------------------------------------------------------------------
(* run and Close *)

\* The timer has fired; the commit is commented out, the timer is reset.
RunTimer ==
  /\ runner = "select" /\ runner' = "reset"
  /\ UNCHANGED <<stopc, donec, openVars, db, lockVars, snapVars>>

RunReset ==
  /\ runner = "reset" /\ runner' = "select"
  /\ UNCHANGED <<stopc, donec, openVars, db, lockVars, snapVars>>

\* Mistake: donec is left open.
RunStopsSilently ==
  /\ runner = "select" /\ stopc /\ runner' = "ended"
  /\ UNCHANGED <<stopc, donec, openVars, db, lockVars, snapVars>>

RunStops ==
  /\ runner = "select" /\ stopc /\ runner' = "ended" /\ donec' = TRUE
  /\ UNCHANGED <<stopc, openVars, db, lockVars, snapVars>>

\* NewServer closes the backend when a later step of it fails, once.
Close ==
  /\ main = "opened" /\ main' = "wait" /\ stopc' = TRUE
  /\ UNCHANGED <<opener, runner, donec, db, lockVars, snapVars>>

CloseWait ==
  /\ main = "wait" /\ donec /\ main' = "dbClose"
  /\ UNCHANGED <<opener, runVars, db, lockVars, snapVars>>

\* bolt's Close.
CloseDb ==
  /\ main = "dbClose" /\ \A u \in Users : ~txOpen[u]
  /\ main' = "closed" /\ db' = "closed"
  /\ UNCHANGED <<opener, runVars, lockVars, snapVars>>

-----------------------------------------------------------------------------
(* ForceCommit and Snapshot *)

Goto(u, from, to) == user[u] = from /\ user' = [user EXCEPT ![u] = to]

\* batchTxBuffered.Commit: batchTx's lock, then readTx's.
Commit(u) ==
  /\ Goto(u, "idle", "commit") /\ main # "select" /\ main # "receive"
  /\ UNCHANGED <<openVars, runVars, db, lockVars, watcher, txOpen>>

CommitLock(u) ==
  /\ Goto(u, "commit", "readLock") /\ txLock = Nobody /\ txLock' = u
  /\ UNCHANGED <<openVars, runVars, db, readLock, watcher, txOpen>>

CommitReadLock(u) ==
  /\ Goto(u, "readLock", "unlock") /\ readLock = Nobody /\ readLock' = u
  /\ UNCHANGED <<openVars, runVars, db, txLock, watcher, txOpen>>

\* Mistake: readTx stays locked.
CommitUnlockForgets(u) ==
  /\ Goto(u, "unlock", "unlockTx")
  /\ UNCHANGED <<openVars, runVars, db, lockVars, watcher, txOpen>>

\* unsafeCommit finds readTx.tx nil and does nothing to batchTx.tx; both locks are
\* released, readTx's first.
CommitUnlock(u) ==
  /\ Goto(u, "unlock", "unlockTx") /\ readLock' = Nobody
  /\ UNCHANGED <<openVars, runVars, db, txLock, watcher, txOpen>>

\* ForceCommit returns; Snapshot goes on to begin.
CommitReturns(u) ==
  /\ \E to \in {"idle", "begin"} : Goto(u, "unlockTx", to)
  /\ txLock' = Nobody
  /\ UNCHANGED <<openVars, runVars, db, readLock, watcher, txOpen>>

\* Snapshot begins a transaction on the open database, which waits while bolt
\* closes it, and starts the watcher.
Begin(u) ==
  /\ db = "open" /\ main # "dbClose" /\ Goto(u, "begin", "snapshot")
  /\ txOpen' = [txOpen EXCEPT ![u] = TRUE]
  /\ watcher' = [watcher EXCEPT ![u] = "select"]
  /\ UNCHANGED <<openVars, runVars, db, lockVars>>

\* On a closed one it ends the process.
BeginFails(u) ==
  /\ db = "closed" /\ Goto(u, "begin", "fatal")
  /\ UNCHANGED <<openVars, runVars, db, lockVars, watcher, txOpen>>

\* snapshot.Close: stopc is closed,
SnapshotClose(u) ==
  /\ Goto(u, "snapshot", "stopping")
  /\ UNCHANGED <<openVars, runVars, db, lockVars, watcher, txOpen>>

\* the watcher notices,
WatcherStops(u) ==
  /\ watcher[u] = "select" /\ user[u] = "stopping"
  /\ watcher' = [watcher EXCEPT ![u] = "ended"]
  /\ UNCHANGED <<openVars, runVars, db, lockVars, user, txOpen>>

\* and the transaction is rolled back.
Rollback(u) ==
  /\ Goto(u, "stopping", "idle") /\ watcher[u] = "ended"
  /\ watcher' = [watcher EXCEPT ![u] = "none"]
  /\ txOpen' = [txOpen EXCEPT ![u] = FALSE]
  /\ UNCHANGED <<openVars, runVars, db, lockVars>>

UserStep(u) ==
  \/ CommitLock(u) \/ CommitReadLock(u) \/ CommitUnlock(u) \/ CommitReturns(u)
  \/ Begin(u) \/ BeginFails(u) \/ SnapshotClose(u) \/ Rollback(u)

BackendNext ==
  \/ NewBackend \/ OpenPanics \/ Timeout \/ Receive
  \/ RunTimer \/ RunReset \/ RunStops
  \/ Close \/ CloseWait \/ CloseDb
  \/ \E u \in Users : Commit(u) \/ UserStep(u) \/ WatcherStops(u)

BackendSpec == BackendInit /\ [][BackendNext]_backendVars

\* Every goroutine goes on.  Go's select takes a ready case some day even if
\* another one is always ready, and its mutex does not starve a waiter.
BackendFairness ==
  /\ WF_backendVars(NewBackend \/ OpenPanics) /\ WF_backendVars(Receive)
  /\ WF_backendVars(RunReset) /\ SF_backendVars(RunStops)
  /\ WF_backendVars(CloseWait) /\ WF_backendVars(CloseDb)
  /\ \A u \in Users :
       /\ WF_backendVars(UserStep(u)) /\ WF_backendVars(WatcherStops(u))
       /\ SF_backendVars(CommitLock(u)) /\ SF_backendVars(CommitReadLock(u))

BackendFairSpec == BackendSpec /\ BackendFairness

-----------------------------------------------------------------------------

\* backend.Close, run: Close returns, with the goroutine run ended, whichever of
\* timer and stop the select of run meets first and whatever snapshots are open.
CloseReturns == main = "wait" ~> main = "closed" /\ runner = "ended"

\* Commit: with its two locks always taken in the same order, everyone who commits
\* gets through.
CommitEnds == \A u \in Users : user[u] = "commit" ~> user[u] \in {"idle", "begin"}

=============================================================================
