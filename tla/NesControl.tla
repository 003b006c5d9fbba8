----------------------------- MODULE NesControl -----------------------------
(***************************************************************************)
(* How the emulator is started, stopped, reloaded and quit.  The Qt main   *)
(* thread ("ui") handles the menu; every ROM loaded spawns a thread that   *)
(* serves CommandPrompt's queue and runs the machine inside a command.     *)
(* The two sides meet in state_ and should_exit_ (system/nes.cpp) and in   *)
(* the prompt's queue, mutex and semaphore (io/prompt.cpp).                *)
(*                                                                         *)
(* Each read or write of an atomic that another thread can get in between  *)
(* is a step of its own.  What is done under mutex_ and touches nothing    *)
(* outside it is one step.                                                 *)
(***************************************************************************)
EXTENDS Naturals, Sequences, FiniteSets

CONSTANTS
  Prompts,     \* the threads start_nes may spawn, as many as ROMs can be loaded
  Nobody,      \* the owner of a free mutex
  Commands,    \* the commands a user types: a subset of "run", "step", "exit"
  MaxQueued    \* bound on the commands waiting in queued_commands_

ASSUME PromptsAssumption == IsFiniteSet(Prompts) /\ Nobody \notin Prompts
ASSUME CommandsAssumption == Commands \subseteq {"run", "step", "exit"}
ASSUME MaxQueuedAssumption == MaxQueued \in Nat

VARIABLES
  state_,            \* Nes::state_
  should_exit_,      \* Nes::should_exit_
  queued_commands_,  \* CommandPrompt's queue
  command_sema_,     \* the counter of its semaphore
  mutex_,            \* the prompt thread that holds CommandPrompt::mutex_
  do_shutdown_,      \* CommandPrompt::do_shutdown_
  ui,                \* where the Qt main thread is
  task,              \* the menu item it is serving
  prompt             \* where each prompt thread is

vars == <<state_, should_exit_, queued_commands_, command_sema_, mutex_,
          do_shutdown_, ui, task, prompt>>

nesVars == <<state_, should_exit_>>
queueVars == <<queued_commands_, command_sema_, do_shutdown_>>
uiVars == <<ui, task>>

\* Where the threads can be.  "idle test", "idle write" and "idle clear" are
\* the three accesses of update_state(IDLE).
UiPlaces == {"menu", "write", "interrupt", "raise", "wait", "attach", "reset",
             "idle test", "idle write", "idle clear", "spawn", "destroy",
             "shutdown", "exited"}
PromptPlaces == {"unborn", "acquire", "lock", "start run", "test", "step",
                 "idle test", "idle write", "idle clear", "stepping", "unlock",
                 "ended"}
Tasks == {"none", "stop", "load", "load invalid", "quit"} \cup Commands

\* A thread inside execute_command().
Executing(t) == prompt[t] \notin {"unborn", "acquire", "lock", "ended"}

\* A thread inside run(), from update_state(RUNNING) to update_state(IDLE).
InRun(t) == prompt[t] \in {"test", "step", "idle test", "idle write"}

\* The threads that took the semaphore and wait for the mutex.
Serving == {t \in Prompts : prompt[t] = "lock"}

Init ==
  /\ state_ = "OFF"
  /\ should_exit_ = FALSE
  /\ queued_commands_ = <<>>
  /\ command_sema_ = 0
  /\ mutex_ = Nobody
  /\ do_shutdown_ = FALSE
  /\ ui = "menu"
  /\ task = "none"
  /\ prompt = [t \in Prompts |-> "unborn"]

-----------------------------------------------------------------------------
(* The mutex and the semaphore of CommandPrompt. *)

\* Defect: a lock that does not wait for its owner.
MutexIgnored == TRUE

MutexFree == mutex_ = Nobody

\* Defect: a release that saturates at one, as a wake-up flag would.
ReleasedFlag == 1

\* release() counts up.  The declared maximum is 1 and more is a broken
\* precondition; the libraries' binary_semaphore adds without looking.
Released == command_sema_ + 1

-----------------------------------------------------------------------------
(* The Qt main thread. *)

UiGoes(from, to) == ui = from /\ ui' = to

\* stop(), start_nes() and aboutToQuit all begin with user_interrupt().
ChooseInterrupt(item) ==
  /\ UiGoes("menu", "interrupt")
  /\ item \in {"load", "load invalid"} => \E t \in Prompts : prompt[t] = "unborn"
  /\ task' = item
  /\ UNCHANGED <<nesVars, queueVars, mutex_, prompt>>

\* run(), step() and command() hand a command to write_command().
ChooseCommand(cmd) ==
  /\ UiGoes("menu", "write")
  /\ Len(queued_commands_) < MaxQueued
  /\ task' = cmd
  /\ UNCHANGED <<nesVars, queueVars, mutex_, prompt>>

\* write_command() blocks while a prompt thread holds mutex_, which it does
\* for as long as its command runs.
write_command ==
  /\ UiGoes("write", "menu")
  /\ MutexFree
  /\ queued_commands_' = Append(queued_commands_, task)
  /\ command_sema_' = Released
  /\ task' = "none"
  /\ UNCHANGED <<nesVars, do_shutdown_, mutex_, prompt>>

\* Where user_interrupt() returns to.
AfterInterrupt ==
  CASE task = "stop" -> "menu"
    [] task = "load" -> "attach"
    [] task = "load invalid" -> "spawn"
    [] task = "quit" -> "destroy"

InterruptReturns ==
  /\ ui' = AfterInterrupt
  /\ task' = IF task = "stop" THEN "none" ELSE task

\* user_interrupt() of an idle machine returns at once.
InterruptIdle ==
  /\ ui = "interrupt"
  /\ state_ = "IDLE"
  /\ InterruptReturns
  /\ UNCHANGED <<nesVars, queueVars, mutex_, prompt>>

InterruptNotIdle ==
  /\ UiGoes("interrupt", "raise")
  /\ state_ # "IDLE"
  /\ UNCHANGED <<nesVars, queueVars, mutex_, task, prompt>>

RaiseExit ==
  /\ UiGoes("raise", "wait")
  /\ should_exit_' = TRUE
  /\ UNCHANGED <<state_, queueVars, mutex_, task, prompt>>

\* One look at state_ that ends the wait; the looks that do not change nothing.
WaitOver ==
  /\ ui = "wait"
  /\ state_ # "RUNNING"
  /\ InterruptReturns
  /\ UNCHANGED <<nesVars, queueVars, mutex_, prompt>>

\* load_cartridge() of a valid cartridge: attach it, then reset the parts.
Attach ==
  /\ UiGoes("attach", "reset")
  /\ UNCHANGED <<nesVars, queueVars, mutex_, task, prompt>>

ResetDone ==
  /\ UiGoes("reset", "idle test")
  /\ UNCHANGED <<nesVars, queueVars, mutex_, task, prompt>>

\* update_state(IDLE): return if the state is IDLE already, else write it and
\* then take the exit request back.
UiIdleTest ==
  /\ UiGoes("idle test", IF state_ = "IDLE" THEN "spawn" ELSE "idle write")
  /\ UNCHANGED <<nesVars, queueVars, mutex_, task, prompt>>

UiIdleWrite ==
  /\ UiGoes("idle write", "idle clear")
  /\ state_' = "IDLE"
  /\ UNCHANGED <<should_exit_, queueVars, mutex_, task, prompt>>

UiIdleClear ==
  /\ UiGoes("idle clear", "spawn")
  /\ should_exit_' = FALSE
  /\ UNCHANGED <<state_, queueVars, mutex_, task, prompt>>

\* Every load, of a valid cartridge or not, ends in one more prompt thread.
Spawn(t) ==
  /\ UiGoes("spawn", "menu")
  /\ prompt[t] = "unborn"
  /\ prompt' = [prompt EXCEPT ![t] = "acquire"]
  /\ task' = "none"
  /\ UNCHANGED <<nesVars, queueVars, mutex_>>

\* After the event loop main() drops the machine ...
Destroy ==
  /\ UiGoes("destroy", "shutdown")
  /\ UNCHANGED <<nesVars, queueVars, mutex_, task, prompt>>

\* Defect: shutdown() sets its flag without the lock.
shutdownUnlocked ==
  /\ UiGoes("shutdown", "exited")
  /\ do_shutdown_' = TRUE
  /\ command_sema_' = Released
  /\ UNCHANGED <<nesVars, queued_commands_, mutex_, task, prompt>>

\* ... and tells the prompt to shut down.
shutdown ==
  /\ UiGoes("shutdown", "exited")
  /\ MutexFree
  /\ do_shutdown_' = TRUE
  /\ command_sema_' = Released
  /\ UNCHANGED <<nesVars, queued_commands_, mutex_, task, prompt>>

\* What the main thread does on its own once a menu item is chosen.
UiStep ==
  \/ write_command
  \/ InterruptIdle \/ InterruptNotIdle \/ RaiseExit \/ WaitOver
  \/ Attach \/ ResetDone
  \/ UiIdleTest \/ UiIdleWrite \/ UiIdleClear
  \/ \E t \in Prompts : Spawn(t)
  \/ Destroy \/ shutdown

UiChoice ==
  \/ \E item \in {"stop", "load", "load invalid", "quit"} : ChooseInterrupt(item)
  \/ \E cmd \in Commands : ChooseCommand(cmd)

-----------------------------------------------------------------------------
(* The prompt threads. *)

Goes(t, from, to) ==
  /\ prompt[t] = from
  /\ prompt' = [prompt EXCEPT ![t] = to]

\* Defect: a wait that returns without a release (a timeout taken for one).
AcquireTimedOut(t) ==
  /\ Goes(t, "acquire", "lock")
  /\ command_sema_' = command_sema_ - 1
  /\ UNCHANGED <<nesVars, queued_commands_, do_shutdown_, mutex_, uiVars>>

Acquire(t) ==
  /\ Goes(t, "acquire", "lock")
  /\ command_sema_ > 0
  /\ command_sema_' = command_sema_ - 1
  /\ UNCHANGED <<nesVars, queued_commands_, do_shutdown_, mutex_, uiVars>>

\* The lock is taken, do_shutdown_ is seen and the lock is given back.
LeaveOnShutdown(t) ==
  /\ Goes(t, "lock", "ended")
  /\ MutexFree
  /\ do_shutdown_
  /\ UNCHANGED <<nesVars, queueVars, mutex_, uiVars>>

\* The lock is taken and stays taken while the front command is executed.
\* front() of an empty queue is undefined: NeverPopsEmpty says it never is.
StartCommand(t) ==
  /\ prompt[t] = "lock"
  /\ MutexFree
  /\ ~do_shutdown_
  /\ queued_commands_ # <<>>
  /\ queued_commands_' = Tail(queued_commands_)
  /\ CASE Head(queued_commands_) = "run" ->
            /\ prompt' = [prompt EXCEPT ![t] = "start run"]
            /\ mutex_' = t
       [] Head(queued_commands_) = "step" ->
            /\ prompt' = [prompt EXCEPT ![t] = "stepping"]
            /\ mutex_' = t
       [] Head(queued_commands_) = "exit" ->
            /\ prompt' = [prompt EXCEPT ![t] = "ended"]
            /\ UNCHANGED mutex_
  /\ UNCHANGED <<nesVars, command_sema_, do_shutdown_, uiVars>>

\* run(): update_state(RUNNING).
StartRun(t) ==
  /\ Goes(t, "start run", "test")
  /\ state_' = "RUNNING"
  /\ UNCHANGED <<should_exit_, queueVars, mutex_, uiVars>>

\* Defect: the loop looks at should_exit_ once, before it starts.
TestExitHoisted(t) ==
  /\ Goes(t, "test", "step")
  /\ UNCHANGED <<nesVars, queueVars, mutex_, uiVars>>

\* Defect: an interrupted run leaves without update_state(IDLE).
TestExitLeaves(t) ==
  /\ Goes(t, "test", IF should_exit_ THEN "unlock" ELSE "step")
  /\ UNCHANGED <<nesVars, queueVars, mutex_, uiVars>>

\* while (!should_exit_)
TestExit(t) ==
  /\ Goes(t, "test", IF should_exit_ THEN "idle test" ELSE "step")
  /\ UNCHANGED <<nesVars, queueVars, mutex_, uiVars>>

\* One step() of the machine; a breakpoint, a watchpoint or the stop address
\* makes it ask to stop.
RunStep(t, should_continue) ==
  /\ Goes(t, "step", IF should_continue THEN "test" ELSE "idle test")
  /\ UNCHANGED <<nesVars, queueVars, mutex_, uiVars>>

\* update_state(IDLE) at the end of run().
IdleTest(t) ==
  /\ Goes(t, "idle test", IF state_ = "IDLE" THEN "unlock" ELSE "idle write")
  /\ UNCHANGED <<nesVars, queueVars, mutex_, uiVars>>

IdleWrite(t) ==
  /\ Goes(t, "idle write", "idle clear")
  /\ state_' = "IDLE"
  /\ UNCHANGED <<should_exit_, queueVars, mutex_, uiVars>>

IdleClear(t) ==
  /\ Goes(t, "idle clear", "unlock")
  /\ should_exit_' = FALSE
  /\ UNCHANGED <<state_, queueVars, mutex_, uiVars>>

\* "step N": step_cpu_instruction() N times, state_ as it was.
StepDone(t) ==
  /\ Goes(t, "stepping", "unlock")
  /\ UNCHANGED <<nesVars, queueVars, mutex_, uiVars>>

Unlock(t) ==
  /\ Goes(t, "unlock", "acquire")
  /\ mutex_' = Nobody
  /\ UNCHANGED <<nesVars, queueVars, uiVars>>

PromptStep(t) ==
  \/ Acquire(t) \/ LeaveOnShutdown(t) \/ StartCommand(t)
  \/ StartRun(t) \/ TestExit(t)
  \/ \E should_continue \in BOOLEAN : RunStep(t, should_continue)
  \/ IdleTest(t) \/ IdleWrite(t) \/ IdleClear(t)
  \/ StepDone(t) \/ Unlock(t)

-----------------------------------------------------------------------------
Next ==
  \/ UiChoice
  \/ UiStep
  \/ \E t \in Prompts : PromptStep(t)

Spec == Init /\ [][Next]_vars

\* The scheduler lets every thread go on while the process lives.  main()
\* returns right after shutdown() and joins no prompt thread: what they still
\* do from there on is not promised.  Which menu item the user chooses, and
\* whether, is up to the user; a mutex is not promised to a waiting thread
\* that others keep overtaking.
FairSpec ==
  /\ Spec
  /\ WF_vars(UiStep)
  /\ \A t \in Prompts : WF_vars(ui # "exited" /\ PromptStep(t))

-----------------------------------------------------------------------------
(* Safety. *)

\* Every variable stays in its range.
TypeOK ==
  /\ state_ \in {"OFF", "IDLE", "RUNNING"}
  /\ should_exit_ \in BOOLEAN
  /\ queued_commands_ \in Seq(Commands)
  /\ command_sema_ \in Nat
  /\ mutex_ \in Prompts \cup {Nobody}
  /\ do_shutdown_ \in BOOLEAN
  /\ ui \in UiPlaces
  /\ task \in Tasks
  /\ prompt \in [Prompts -> PromptPlaces]

\* Although every load adds a prompt thread over the same machine, no two of
\* them ever execute a command at the same time: one instruction stream.
OneCommandAtATime ==
  \A s, t \in Prompts : Executing(s) /\ Executing(t) => s = t

\* launch_prompt() takes front() of the queue without looking whether it is
\* empty: the semaphore must have been released once per command, and no
\* release be lost, doubled or taken by a thread that does not take a command.
NeverPopsEmpty ==
  ~do_shutdown_ => command_sema_ + Cardinality(Serving) = Len(queued_commands_)

\* The state the UI shows as RUNNING is never a leftover: a prompt thread is
\* inside run() and will look at should_exit_ or write IDLE.
RunningIsReal == state_ = "RUNNING" => \E t \in Prompts : InRun(t)

\* main() returns while prompt threads are left: from the moment shutdown() has
\* returned, none of them touches the machine, whatever is still queued and
\* however long the command before it took.
NothingRunsAfterShutdown == do_shutdown_ => \A t \in Prompts : ~Executing(t)

\* user_interrupt() "blocks until running has exited" (system/nes.hpp:40): at
\* the moment it returns to stop(), load_cartridge() or main(), no thread is in
\* the loop of run(), or entering run() with no request to exit to end it.
InterruptReturnsStopped ==
  [][(ui \in {"interrupt", "wait"} /\ ui' \notin {"interrupt", "raise", "wait"})
       => \A t \in Prompts :
            /\ prompt[t] \notin {"test", "step"}
            /\ prompt[t] = "start run" => should_exit_]_vars

-----------------------------------------------------------------------------
(* Liveness. *)

\* A run that is under way when stop() raises should_exit_ and starts to wait
\* does leave its loop.
StopEndsTheRun ==
  \A t \in Prompts :
    ui = "wait" /\ should_exit_ /\ prompt[t] \in {"test", "step"} ~> ~InRun(t)
=============================================================================
