------------------------------ MODULE MCServer ------------------------------
(***************************************************************************)
(* Three parts of a server in one instance: its goroutines from Start to   *)
(* the end of run, its data directory, and the backend.  The modules share *)
(* no variable, and what one needs of another it has as a choice of its    *)
(* own: in Backend, bolt.Open waits for the lock on db that DataDir hands  *)
(* out.  Each behaviour lets one part, unit, run.                          *)
(***************************************************************************)
EXTENDS ServerLifecycle, DataDir, Backend

VARIABLE unit

serverVars == <<unit, lifecycleVars, dirVars, backendVars>>

ServerInit ==
  /\ unit \in {"lifecycle", "dataDir", "backend"}
  /\ LifecycleInit /\ DirInit /\ BackendInit

ServerNext ==
  \/ unit = "lifecycle" /\ LifecycleNext /\ UNCHANGED <<unit, dirVars, backendVars>>
  \/ unit = "dataDir" /\ DirNext /\ UNCHANGED <<unit, lifecycleVars, backendVars>>
  \/ unit = "backend" /\ BackendNext /\ UNCHANGED <<unit, lifecycleVars, dirVars>>

\* The fairness of the three modules, for the part that runs.
ServerFairness ==
  /\ WF_lifecycleVars(unit = "lifecycle" /\ Starter)
  /\ WF_lifecycleVars(unit = "lifecycle" /\ Run)
  /\ WF_lifecycleVars(unit = "lifecycle" /\ AdjustTicks)
  /\ WF_lifecycleVars(unit = "lifecycle" /\ Publish)
  /\ \A t \in Stoppers : WF_lifecycleVars(unit = "lifecycle" /\ StopSend(t))
  /\ \A p \in Procs : WF_dirVars(unit = "dataDir" /\ Step(p))
  /\ WF_backendVars(unit = "backend" /\ (NewBackend \/ OpenPanics)) /\ WF_backendVars(unit = "backend" /\ Receive)
  /\ WF_backendVars(unit = "backend" /\ RunReset) /\ SF_backendVars(unit = "backend" /\ RunStops)
  /\ WF_backendVars(unit = "backend" /\ CloseWait) /\ WF_backendVars(unit = "backend" /\ CloseDb)
  /\ \A u \in Users :
       /\ WF_backendVars(unit = "backend" /\ UserStep(u))
       /\ WF_backendVars(unit = "backend" /\ WatcherStops(u))
       /\ SF_backendVars(unit = "backend" /\ CommitLock(u))
       /\ SF_backendVars(unit = "backend" /\ CommitReadLock(u))

ServerSpec == ServerInit /\ [][ServerNext]_serverVars /\ ServerFairness

=============================================================================
