----------------------------- MODULE Interrupts -----------------------------
(***************************************************************************)
(* pkg/osutil: goroutines register interrupt handlers, one goroutine waits *)
(* for SIGINT or SIGTERM and runs them, others call Exit meanwhile.        *)
(* interruptExitMu, once taken, is never released: it is held until the    *)
(* process ends.                                                           *)
(*                                                                         *)
(* External: the signals, and os/signal: a notified signal goes into the   *)
(* notifier, of capacity 1, or is dropped; without a notifier the signal   *)
(* ends the process.                                                       *)
(***************************************************************************)
EXTENDS Naturals, Sequences

CONSTANTS
  Registrars,   \* goroutines that register a handler, each its own
  Exiters,      \* goroutines that call Exit
  MaxSignals    \* bound on the number of signals

ASSUME SignalBound == MaxSignals \in Nat

VARIABLES
  interruptHandlers,  \* the handlers, in the order of their registration
  ihs, ran,           \* the copy of the goroutine in HandleInterrupts, what it has run
  exitMu,             \* who holds interruptExitMu
  notifying, notifier,  \* is the notifier installed; number of signals in it
  handler,            \* where the goroutine of HandleInterrupts is
  isInit,             \* is this process number 1
  exiter,             \* per caller of Exit: where it is
  process,            \* "running", or how it ended
  signals, before     \* signals so far; the handlers registered when the first was notified

interruptVars == <<interruptHandlers, ihs, ran, exitMu, notifying, notifier, handler, isInit, exiter, process, signals, before>>

InterruptInit ==
  /\ interruptHandlers = <<>> /\ ihs = <<>> /\ ran = <<>>
  /\ exitMu = "none" /\ notifying = FALSE /\ notifier = 0 /\ handler = "none"
  /\ isInit \in BOOLEAN
  /\ exiter = [x \in Exiters |-> "idle"]
  /\ process = "running" /\ signals = 0 /\ before = <<>>

Running == process = "running"

RegisterInterruptHandler(r) ==
  /\ Running /\ (\A i \in 1..Len(interruptHandlers) : interruptHandlers[i] # r)
  /\ interruptHandlers' = Append(interruptHandlers, r)
  /\ UNCHANGED <<ihs, ran, exitMu, notifying, notifier, handler, isInit, exiter, process, signals, before>>

HandleInterrupts ==
  /\ Running /\ handler = "none"
  /\ notifying' = TRUE /\ handler' = "wait"
  /\ UNCHANGED <<interruptHandlers, ihs, ran, exitMu, notifier, isInit, exiter, process, signals, before>>

\* External: a signal reaches the process.
Signal ==
  /\ Running /\ signals < MaxSignals
  /\ signals' = signals + 1
  /\ IF notifying
     THEN /\ notifier' = IF notifier < 1 THEN notifier + 1 ELSE notifier
          /\ before' = IF handler = "wait" /\ notifier = 0 THEN interruptHandlers ELSE before
          /\ UNCHANGED process
     ELSE process' = "signalled" /\ UNCHANGED <<notifier, before>>
  /\ UNCHANGED <<interruptHandlers, ihs, ran, exitMu, notifying, handler, isInit, exiter>>

Receive ==
  /\ Running /\ handler = "wait" /\ notifier > 0
  /\ notifier' = notifier - 1 /\ handler' = "copy"
  /\ UNCHANGED <<interruptHandlers, ihs, ran, exitMu, notifying, isInit, exiter, process, signals, before>>

\* Under interruptRegisterMu.
Copy ==
  /\ Running /\ handler = "copy"
  /\ ihs' = interruptHandlers /\ handler' = "lock"
  /\ UNCHANGED <<interruptHandlers, ran, exitMu, notifying, notifier, isInit, exiter, process, signals, before>>

Lock ==
  /\ Running /\ handler = "lock" /\ exitMu = "none"
  /\ exitMu' = "handler" /\ handler' = "run"
  /\ UNCHANGED <<interruptHandlers, ihs, ran, notifying, notifier, isInit, exiter, process, signals, before>>

RunHandler ==
  /\ Running /\ handler = "run" /\ Len(ran) < Len(ihs)
  /\ ran' = Append(ran, ihs[Len(ran) + 1])
  /\ UNCHANGED <<interruptHandlers, ihs, exitMu, notifying, notifier, handler, isInit, exiter, process, signals, before>>

\* Mistake: the signal stays with the notifier, and the kill is swallowed.
KeepNotifying ==
  /\ Running /\ handler = "run" /\ Len(ran) = Len(ihs)
  /\ handler' = "kill"
  /\ UNCHANGED <<interruptHandlers, ihs, ran, exitMu, notifying, notifier, isInit, exiter, process, signals, before>>

\* signal.Stop gives the signal its default action back.
Stop ==
  /\ Running /\ handler = "run" /\ Len(ran) = Len(ihs)
  /\ notifying' = FALSE /\ handler' = "kill"
  /\ UNCHANGED <<interruptHandlers, ihs, ran, exitMu, notifier, isInit, exiter, process, signals, before>>

\* os.Exit for process 1, otherwise the signal once more to the process itself.
Kill ==
  /\ Running /\ handler = "kill"
  /\ handler' = "killed"
  /\ process' = CASE isInit -> "handled"
                  [] ~isInit /\ ~notifying -> "handled"
                  [] OTHER -> process
  /\ UNCHANGED <<interruptHandlers, ihs, ran, exitMu, notifying, notifier, isInit, exiter, signals, before>>

\* Mistake: Exit does not wait for the lock.
ExitUnlocked(x) ==
  /\ Running /\ exiter[x] = "idle"
  /\ exiter' = [exiter EXCEPT ![x] = "exit"]
  /\ UNCHANGED <<interruptHandlers, ihs, ran, exitMu, notifying, notifier, handler, isInit, process, signals, before>>

ExitLock(x) ==
  /\ Running /\ exiter[x] = "idle" /\ exitMu = "none"
  /\ exitMu' = "exit" /\ exiter' = [exiter EXCEPT ![x] = "exit"]
  /\ UNCHANGED <<interruptHandlers, ihs, ran, notifying, notifier, handler, isInit, process, signals, before>>

Exit(x) ==
  /\ Running /\ exiter[x] = "exit"
  /\ process' = "exited"
  /\ UNCHANGED <<interruptHandlers, ihs, ran, exitMu, notifying, notifier, handler, isInit, exiter, signals, before>>

Handler == Receive \/ Copy \/ Lock \/ RunHandler \/ Stop \/ Kill

InterruptNext ==
  \/ \E r \in Registrars : RegisterInterruptHandler(r)
  \/ HandleInterrupts \/ Signal
  \/ Handler
  \/ \E x \in Exiters : ExitLock(x) \/ Exit(x)

InterruptSpec == InterruptInit /\ [][InterruptNext]_interruptVars

\* The goroutines that have begun to end the process go on; handlers return.
InterruptFairness ==
  WF_interruptVars(Handler) /\ \A x \in Exiters : WF_interruptVars(Exit(x))

InterruptFairSpec == InterruptSpec /\ InterruptFairness

-----------------------------------------------------------------------------

\* Exit: "relays to os.Exit if no interrupt handlers are running, blocks
\* otherwise."  No call of Exit cuts the handlers short, and a process that ends
\* because of a notified signal has run every handler that was registered when the
\* signal came, in that order.
HandlersRunWhole ==
  /\ process = "exited" => handler \notin {"run", "kill"} /\ ran = <<>>
  /\ process = "handled" =>
       Len(before) <= Len(ran) /\ \A i \in 1..Len(before) : ran[i] = before[i]

\* HandleInterrupts, Exit: a notified signal ends the process, whoever gets the
\* lock.
SignalEndsProcess == notifier > 0 /\ handler = "wait" ~> ~Running
=============================================================================
