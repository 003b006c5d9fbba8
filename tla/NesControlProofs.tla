-------------------------- MODULE NesControlProofs --------------------------
(***************************************************************************)
(* The safety of the command prompt and of the RUNNING state, for every    *)
(* number of prompt threads, every queue bound and every set of commands.  *)
(***************************************************************************)
EXTENDS NesControl, FiniteSetTheorems, SequenceTheorems, TLAPS

\* What the main thread is serving at each place: the CASE of AfterInterrupt
\* is exhaustive, and write_command only ever queues commands.
TaskFits ==
  /\ ui = "write" => task \in Commands
  /\ ui \in {"interrupt", "raise", "wait"} => task \in {"stop", "load", "load invalid", "quit"}

\* The mutex is held by exactly the thread that executes a command.
MutexHeld == \A t \in Prompts : Executing(t) <=> mutex_ = t

-----------------------------------------------------------------------------
(* Types. *)

\* A prompt thread that moves to another place keeps every variable in its
\* range if what it writes is in range.
LEMMA PromptTyped ==
  ASSUME TypeOK, TaskFits, NEW t \in Prompts, NEW to \in PromptPlaces,
         prompt' = [prompt EXCEPT ![t] = to],
         state_' = state_ \/ state_' \in {"IDLE", "RUNNING"},
         should_exit_' = should_exit_ \/ should_exit_' = FALSE,
         queued_commands_' \in Seq(Commands),
         command_sema_' \in Nat,
         mutex_' \in Prompts \cup {Nobody},
         UNCHANGED <<do_shutdown_, uiVars>>
  PROVE  TypeOK' /\ TaskFits'
<1>1. prompt' \in [Prompts -> PromptPlaces]
  BY DEF TypeOK
<1>2. state_' \in {"OFF", "IDLE", "RUNNING"} /\ should_exit_' \in BOOLEAN
  BY DEF TypeOK
<1>3. do_shutdown_' \in BOOLEAN /\ ui' \in UiPlaces /\ task' \in Tasks
  BY DEF TypeOK, uiVars
<1>4. TypeOK'
  BY <1>1, <1>2, <1>3 DEF TypeOK
<1>5. TaskFits'
  BY DEF TaskFits, uiVars
<1>6. QED
  BY <1>4, <1>5

\* The same for a thread that only moves.
LEMMA PromptMoves ==
  ASSUME TypeOK, TaskFits, NEW t \in Prompts, NEW to \in PromptPlaces,
         prompt' = [prompt EXCEPT ![t] = to],
         UNCHANGED <<nesVars, queueVars, mutex_, uiVars>>
  PROVE  TypeOK' /\ TaskFits'
<1>1. /\ queued_commands_' \in Seq(Commands)
      /\ command_sema_' \in Nat
      /\ mutex_' \in Prompts \cup {Nobody}
  BY DEF TypeOK, queueVars
<1>2. state_' = state_ /\ should_exit_' = should_exit_ /\ do_shutdown_' = do_shutdown_
  BY DEF nesVars, queueVars
<1>3. QED
  BY <1>1, <1>2, PromptTyped

\* Every variable stays in its range, and the task fits the place.
LEMMA TypeAndTask == Spec => [](TypeOK /\ TaskFits)
<1>1. Init => TypeOK /\ TaskFits
  <2> SUFFICES ASSUME Init
               PROVE  TypeOK /\ TaskFits
    OBVIOUS
  <2>1. prompt \in [Prompts -> PromptPlaces]
    BY DEF Init, PromptPlaces
  <2>2. should_exit_ \in BOOLEAN /\ do_shutdown_ \in BOOLEAN
    BY Zenon DEF Init
  <2>3. QED
    BY <2>1, <2>2 DEF Init, TypeOK, TaskFits, UiPlaces, Tasks
<1>2. TypeOK /\ TaskFits /\ [Next]_vars => TypeOK' /\ TaskFits'
  <2> SUFFICES ASSUME TypeOK, TaskFits, [Next]_vars
               PROVE  TypeOK' /\ TaskFits'
    OBVIOUS
  <2>a. command_sema_ \in Nat
    BY DEF TypeOK
  <2>b. queued_commands_ \in Seq(Commands)
    BY DEF TypeOK
  <2>c. ui = "write" => task \in Commands
    BY DEF TaskFits
  <2> USE DEF TypeOK, TaskFits, UiPlaces, PromptPlaces, Tasks
  <2>1. ASSUME NEW item \in {"stop", "load", "load invalid", "quit"}, ChooseInterrupt(item)
        PROVE  TypeOK' /\ TaskFits'
    BY <2>1 DEF ChooseInterrupt, UiGoes, nesVars, queueVars
  <2>2. ASSUME NEW cmd \in Commands, ChooseCommand(cmd)
        PROVE  TypeOK' /\ TaskFits'
    BY <2>2, CommandsAssumption DEF ChooseCommand, UiGoes, nesVars, queueVars
  <2>3. CASE write_command
    <3>1. command_sema_' \in Nat
      <4> HIDE DEF TypeOK, TaskFits
      <4>1. QED
        BY <2>3, <2>a DEF write_command, Released
    <3>2. queued_commands_' \in Seq(Commands)
      <4> HIDE DEF TypeOK, TaskFits
      <4>1. QED
        BY <2>3, <2>b, <2>c DEF write_command, UiGoes
    <3>3. QED
      BY <2>3, <3>1, <3>2 DEF write_command, UiGoes, nesVars
  <2>0. ASSUME ui \in {"interrupt", "wait"}, InterruptReturns
        PROVE  ui' \in {"menu", "attach", "spawn", "destroy"} /\ task' \in {"none", task}
    BY <2>0 DEF InterruptReturns, AfterInterrupt
  <2>4. CASE InterruptIdle
    <3>1. ui' \in {"menu", "attach", "spawn", "destroy"} /\ task' \in {"none", task}
      BY <2>0, <2>4 DEF InterruptIdle
    <3>2. UNCHANGED <<state_, should_exit_, queued_commands_, command_sema_,
                      do_shutdown_, mutex_, prompt>>
      BY <2>4 DEF InterruptIdle, nesVars, queueVars
    <3>3. QED
      BY <3>1, <3>2
  <2>5. CASE InterruptNotIdle
    BY <2>5 DEF InterruptNotIdle, UiGoes, nesVars, queueVars
  <2>6. CASE RaiseExit
    BY <2>6 DEF RaiseExit, UiGoes, queueVars
  <2>7. CASE WaitOver
    <3>1. ui' \in {"menu", "attach", "spawn", "destroy"} /\ task' \in {"none", task}
      BY <2>0, <2>7 DEF WaitOver
    <3>2. UNCHANGED <<state_, should_exit_, queued_commands_, command_sema_,
                      do_shutdown_, mutex_, prompt>>
      BY <2>7 DEF WaitOver, nesVars, queueVars
    <3>3. QED
      BY <3>1, <3>2
  <2>8. CASE Attach
    BY <2>8 DEF Attach, UiGoes, nesVars, queueVars
  <2>9. CASE ResetDone
    BY <2>9 DEF ResetDone, UiGoes, nesVars, queueVars
  <2>10. CASE UiIdleTest
    BY <2>10 DEF UiIdleTest, UiGoes, nesVars, queueVars
  <2>11. CASE UiIdleWrite
    BY <2>11 DEF UiIdleWrite, UiGoes, queueVars
  <2>12. CASE UiIdleClear
    BY <2>12 DEF UiIdleClear, UiGoes, queueVars
  <2>13. ASSUME NEW t \in Prompts, Spawn(t)
         PROVE  TypeOK' /\ TaskFits'
    BY <2>13 DEF Spawn, UiGoes, nesVars, queueVars
  <2>14. CASE Destroy
    BY <2>14 DEF Destroy, UiGoes, nesVars, queueVars
  <2>15. CASE shutdown
    <3>1. command_sema_' \in Nat
      <4> HIDE DEF TypeOK, TaskFits
      <4>1. QED
        BY <2>15, <2>a DEF shutdown, Released
    <3>2. do_shutdown_' \in BOOLEAN
      BY <2>15, Zenon DEF shutdown
    <3>3. QED
      BY <2>15, <3>1, <3>2 DEF shutdown, UiGoes, nesVars
  <2> HIDE DEF TypeOK, TaskFits, UiPlaces, PromptPlaces, Tasks
  <2>d. mutex_ \in Prompts \cup {Nobody}
    BY DEF TypeOK
  <2>16. ASSUME NEW t \in Prompts, PromptStep(t)
         PROVE  TypeOK' /\ TaskFits'
    <3>1. CASE Acquire(t)
      <4>1. PICK to \in PromptPlaces : prompt' = [prompt EXCEPT ![t] = to]
        BY <3>1 DEF Acquire, Goes, PromptPlaces
      <4>2. command_sema_' \in Nat
        BY <3>1, <2>a DEF Acquire
      <4>3. UNCHANGED <<nesVars, queued_commands_, do_shutdown_, mutex_, uiVars>>
        BY <3>1 DEF Acquire
      <4>4. QED
        BY <4>1, <4>2, <4>3, <2>b, <2>d, PromptTyped DEF nesVars
    <3>2. CASE LeaveOnShutdown(t)
      <4>1. PICK to \in PromptPlaces : prompt' = [prompt EXCEPT ![t] = to]
        BY <3>2 DEF LeaveOnShutdown, Goes, PromptPlaces
      <4>2. QED
        BY <3>2, <4>1, PromptMoves DEF LeaveOnShutdown
    <3>3. CASE StartCommand(t)
      <4>1. Head(queued_commands_) \in Commands /\ Tail(queued_commands_) \in Seq(Commands)
        BY <3>3, <2>b, HeadTailProperties DEF StartCommand
      <4>2. Head(queued_commands_) \in {"run", "step", "exit"}
        BY <4>1, CommandsAssumption
      <4>3. PICK to \in PromptPlaces : prompt' = [prompt EXCEPT ![t] = to]
        BY <3>3, <4>2 DEF StartCommand, PromptPlaces
      <4>4. mutex_' \in {t, mutex_}
        BY <3>3, <4>2 DEF StartCommand
      <4>5. /\ queued_commands_' = Tail(queued_commands_)
            /\ UNCHANGED <<nesVars, command_sema_, do_shutdown_, uiVars>>
        BY <3>3 DEF StartCommand
      <4>6. QED
        BY <4>1, <4>3, <4>4, <4>5, <2>a, <2>d, PromptTyped DEF nesVars
    <3>4. CASE StartRun(t)
      <4>1. PICK to \in PromptPlaces : prompt' = [prompt EXCEPT ![t] = to]
        BY <3>4 DEF StartRun, Goes, PromptPlaces
      <4>2. UNCHANGED <<queueVars, mutex_, uiVars>>
        BY <3>4 DEF StartRun
      <4>3. QED
        BY <3>4, <4>1, <4>2, PromptTyped, <2>a, <2>b, <2>d DEF StartRun, queueVars
    <3>5. CASE TestExit(t)
      <4>1. PICK to \in PromptPlaces : prompt' = [prompt EXCEPT ![t] = to]
        BY <3>5 DEF TestExit, Goes, PromptPlaces
      <4>2. QED
        BY <3>5, <4>1, PromptMoves DEF TestExit
    <3>6. CASE \E should_continue \in BOOLEAN : RunStep(t, should_continue)
      <4>1. PICK to \in PromptPlaces : prompt' = [prompt EXCEPT ![t] = to]
        BY <3>6 DEF RunStep, Goes, PromptPlaces
      <4>2. QED
        BY <3>6, <4>1, PromptMoves DEF RunStep
    <3>7. CASE IdleTest(t)
      <4>1. PICK to \in PromptPlaces : prompt' = [prompt EXCEPT ![t] = to]
        BY <3>7 DEF IdleTest, Goes, PromptPlaces
      <4>2. QED
        BY <3>7, <4>1, PromptMoves DEF IdleTest
    <3>8. CASE IdleWrite(t)
      <4>1. PICK to \in PromptPlaces : prompt' = [prompt EXCEPT ![t] = to]
        BY <3>8 DEF IdleWrite, Goes, PromptPlaces
      <4>2. UNCHANGED <<queueVars, mutex_, uiVars>>
        BY <3>8 DEF IdleWrite
      <4>3. QED
        BY <3>8, <4>1, <4>2, PromptTyped, <2>a, <2>b, <2>d DEF IdleWrite, queueVars
    <3>9. CASE IdleClear(t)
      <4>1. PICK to \in PromptPlaces : prompt' = [prompt EXCEPT ![t] = to]
        BY <3>9 DEF IdleClear, Goes, PromptPlaces
      <4>2. UNCHANGED <<queueVars, mutex_, uiVars>>
        BY <3>9 DEF IdleClear
      <4>3. QED
        BY <3>9, <4>1, <4>2, PromptTyped, <2>a, <2>b, <2>d DEF IdleClear, queueVars
    <3>10. CASE StepDone(t)
      <4>1. PICK to \in PromptPlaces : prompt' = [prompt EXCEPT ![t] = to]
        BY <3>10 DEF StepDone, Goes, PromptPlaces
      <4>2. QED
        BY <3>10, <4>1, PromptMoves DEF StepDone
    <3>11. CASE Unlock(t)
      <4>1. PICK to \in PromptPlaces : prompt' = [prompt EXCEPT ![t] = to]
        BY <3>11 DEF Unlock, Goes, PromptPlaces
      <4>2. mutex_' = Nobody /\ UNCHANGED <<nesVars, queueVars, uiVars>>
        BY <3>11 DEF Unlock
      <4>3. QED
        BY <4>1, <4>2, <2>a, <2>b, PromptTyped DEF nesVars, queueVars
    <3>12. QED
      BY <2>16, <3>1, <3>2, <3>3, <3>4, <3>5, <3>6, <3>7, <3>8, <3>9, <3>10, <3>11
         DEF PromptStep
  <2>17. CASE UNCHANGED vars
    BY <2>17 DEF vars, TypeOK, TaskFits
  <2>18. CASE UiChoice
    BY <2>18, <2>1, <2>2 DEF UiChoice
  <2>19. CASE UiStep
    BY <2>19, <2>3, <2>4, <2>5, <2>6, <2>7, <2>8, <2>9, <2>10, <2>11, <2>12,
       <2>13, <2>14, <2>15
       DEF UiStep
  <2>20. QED
    BY <2>16, <2>17, <2>18, <2>19 DEF Next
<1>3. QED
  BY <1>1, <1>2, PTL DEF Spec

\* The type invariant.
THEOREM TypeCorrect == Spec => []TypeOK
  BY TypeAndTask, PTL

-----------------------------------------------------------------------------
(* The mutex. *)

\* No step breaks the link between the mutex and the executing thread: it is
\* taken free, and only by StartCommand.
LEMMA MutexStep ==
  ASSUME TypeOK, MutexHeld, [Next]_vars
  PROVE  MutexHeld'
<1> USE DEF MutexHeld, Executing
<1>a. prompt \in [Prompts -> PromptPlaces]
  BY DEF TypeOK
<1>b. Nobody \notin Prompts
  BY PromptsAssumption
<1>1. CASE UNCHANGED <<prompt, mutex_>>
  BY <1>1
<1>2. ASSUME NEW t \in Prompts, Spawn(t)
      PROVE  MutexHeld'
  BY <1>2, <1>a DEF Spawn
<1>3. ASSUME NEW t \in Prompts, PromptStep(t)
      PROVE  MutexHeld'
  <2>1. CASE Acquire(t)
    BY <2>1, <1>a DEF Acquire, Goes
  <2>2. CASE LeaveOnShutdown(t)
    BY <2>2, <1>a DEF LeaveOnShutdown, Goes
  <2>3. CASE StartCommand(t)
    <3>1. /\ prompt[t] = "lock"
          /\ mutex_ = Nobody
      BY <2>3 DEF StartCommand, MutexFree
    <3>2. Head(queued_commands_) \in {"run", "step", "exit"}
      BY <2>3, HeadTailProperties, CommandsAssumption DEF StartCommand, TypeOK
    <3>3. \/ /\ prompt' \in {[prompt EXCEPT ![t] = "start run"],
                            [prompt EXCEPT ![t] = "stepping"]}
             /\ mutex_' = t
          \/ prompt' = [prompt EXCEPT ![t] = "ended"] /\ mutex_' = mutex_
      BY <2>3, <3>2 DEF StartCommand
    <3>4. \A u \in Prompts : mutex_ # u /\ ~Executing(u)
      BY <3>1, <1>b
    <3>5. ASSUME NEW place \in {"start run", "stepping"},
                 prompt' = [prompt EXCEPT ![t] = place], mutex_' = t
          PROVE  MutexHeld'
      BY <3>4, <3>5, <1>a
    <3>6. ASSUME prompt' = [prompt EXCEPT ![t] = "ended"], mutex_' = mutex_
          PROVE  MutexHeld'
      BY <3>4, <3>6, <1>a
    <3>7. QED
      BY <3>3, <3>5, <3>6
  <2>4. CASE StartRun(t)
    BY <2>4, <1>a DEF StartRun, Goes
  <2>5. CASE TestExit(t)
    BY <2>5, <1>a DEF TestExit, Goes
  <2>6. ASSUME NEW should_continue \in BOOLEAN, RunStep(t, should_continue)
        PROVE  MutexHeld'
    BY <2>6, <1>a DEF RunStep, Goes
  <2>7. CASE IdleTest(t)
    BY <2>7, <1>a DEF IdleTest, Goes
  <2>8. CASE IdleWrite(t)
    BY <2>8, <1>a DEF IdleWrite, Goes
  <2>9. CASE IdleClear(t)
    BY <2>9, <1>a DEF IdleClear, Goes
  <2>10. CASE StepDone(t)
    BY <2>10, <1>a DEF StepDone, Goes
  <2>11. CASE Unlock(t)
    BY <2>11, <1>a, <1>b DEF Unlock, Goes
  <2>12. QED
    BY <1>3, <2>1, <2>2, <2>3, <2>4, <2>5, <2>6, <2>7, <2>8, <2>9, <2>10, <2>11
       DEF PromptStep
<1>4. CASE UiChoice
  BY <1>4, <1>1 DEF UiChoice, ChooseInterrupt, ChooseCommand
<1>5. ASSUME UiStep, ~ \E t \in Prompts : Spawn(t)
      PROVE  MutexHeld'
  BY <1>5, <1>1
     DEF UiStep, write_command, InterruptIdle, InterruptNotIdle, RaiseExit, WaitOver,
         Attach, ResetDone, UiIdleTest, UiIdleWrite, UiIdleClear, Destroy, shutdown
<1>6. CASE UNCHANGED vars
  BY <1>6, <1>1 DEF vars
<1>7. QED
  BY <1>2, <1>3, <1>4, <1>5, <1>6 DEF Next

\* The mutex is held by exactly the executing thread.
LEMMA MutexInvariant == Spec => []MutexHeld
<1>1. Init => MutexHeld
  BY PromptsAssumption DEF Init, MutexHeld, Executing
<1>2. TypeOK /\ MutexHeld /\ [Next]_vars => MutexHeld'
  BY MutexStep
<1>3. QED
  BY <1>1, <1>2, TypeCorrect, PTL DEF Spec

\* However many ROMs were loaded, at most one prompt thread executes a command
\* (launch_prompt holds mutex_ around execute_command).
THEOREM OneAtATime == Spec => []OneCommandAtATime
<1>1. MutexHeld => OneCommandAtATime
  BY DEF MutexHeld, OneCommandAtATime
<1>2. QED
  BY <1>1, MutexInvariant, PTL

\* shutdown() finds the mutex free, so no command is being executed then; and
\* StartCommand, which sees do_shutdown_, begins none afterwards.
LEMMA ShutdownStep ==
  ASSUME TypeOK, MutexHeld, NothingRunsAfterShutdown, [Next]_vars
  PROVE  NothingRunsAfterShutdown'
<1> USE DEF NothingRunsAfterShutdown, Executing
<1>a. prompt \in [Prompts -> PromptPlaces]
  BY DEF TypeOK
<1>b. Nobody \notin Prompts
  BY PromptsAssumption
<1>1. CASE UNCHANGED <<prompt, do_shutdown_>>
  BY <1>1
<1>2. CASE shutdown
  <2>1. mutex_ = Nobody /\ prompt' = prompt
    BY <1>2 DEF shutdown, MutexFree
  <2>2. \A t \in Prompts : ~Executing(t)
    BY <2>1, <1>b DEF MutexHeld
  <2>3. QED
    BY <2>1, <2>2
<1>3. ASSUME NEW t \in Prompts, UNCHANGED do_shutdown_,
             NEW place \in {"acquire", "lock", "ended"},
             prompt' = [prompt EXCEPT ![t] = place]
      PROVE  NothingRunsAfterShutdown'
  BY <1>3, <1>a
<1>4. ASSUME NEW t \in Prompts, PromptStep(t)
      PROVE  NothingRunsAfterShutdown'
  <2>1. CASE Acquire(t)
    BY <2>1, <1>3 DEF Acquire, Goes
  <2>2. CASE LeaveOnShutdown(t)
    BY <2>2, <1>3 DEF LeaveOnShutdown, Goes, queueVars
  <2>3. CASE StartCommand(t)
    BY <2>3 DEF StartCommand
  <2>4. ASSUME Executing(t), UNCHANGED do_shutdown_
        PROVE  NothingRunsAfterShutdown'
    BY <2>4
  <2>5. QED
    BY <1>4, <2>1, <2>2, <2>3, <2>4
       DEF PromptStep, StartRun, TestExit, RunStep, IdleTest, IdleWrite, IdleClear,
           StepDone, Unlock, Goes, queueVars
<1>5. ASSUME NEW t \in Prompts, Spawn(t)
      PROVE  NothingRunsAfterShutdown'
  BY <1>3, <1>5 DEF Spawn, queueVars
<1>6. CASE UiChoice
  BY <1>6, <1>1 DEF UiChoice, ChooseInterrupt, ChooseCommand, queueVars
<1>7. ASSUME UiStep, ~shutdown, ~ \E t \in Prompts : Spawn(t)
      PROVE  NothingRunsAfterShutdown'
  BY <1>7, <1>1
     DEF UiStep, write_command, InterruptIdle, InterruptNotIdle, RaiseExit, WaitOver,
         Attach, ResetDone, UiIdleTest, UiIdleWrite, UiIdleClear, Destroy, queueVars
<1>8. CASE UNCHANGED vars
  BY <1>8, <1>1 DEF vars
<1>9. QED
  BY <1>2, <1>4, <1>5, <1>6, <1>7, <1>8 DEF Next

\* Once shutdown() has returned, and main() with it, no prompt thread executes
\* a command: the machine is left alone while the process ends.
THEOREM QuietAfterShutdown == Spec => []NothingRunsAfterShutdown
<1>1. Init => NothingRunsAfterShutdown
  BY DEF Init, NothingRunsAfterShutdown
<1>2. TypeOK /\ MutexHeld /\ NothingRunsAfterShutdown /\ [Next]_vars
        => NothingRunsAfterShutdown'
  BY ShutdownStep
<1>3. QED
  BY <1>1, <1>2, TypeCorrect, MutexInvariant, PTL DEF Spec

-----------------------------------------------------------------------------
(* The RUNNING state. *)

\* A thread leaves the loop of run() only by way of update_state(IDLE), and
\* nobody else writes RUNNING.
LEMMA RunningStep ==
  ASSUME TypeOK, RunningIsReal, [Next]_vars
  PROVE  RunningIsReal'
<1> USE DEF RunningIsReal, InRun
<1>a. prompt \in [Prompts -> PromptPlaces]
  BY DEF TypeOK
<1>1. CASE UNCHANGED <<prompt, state_>>
  BY <1>1
<1>2. CASE state_' = "IDLE"
  BY <1>2
<1>3. ASSUME NEW t \in Prompts, prompt[t] \notin {"test", "step", "idle test", "idle write"},
             UNCHANGED state_, NEW place, prompt' = [prompt EXCEPT ![t] = place]
      PROVE  RunningIsReal'
  BY <1>3, <1>a
<1>4. ASSUME NEW t \in Prompts,
             NEW place \in {"test", "step", "idle test", "idle write"},
             prompt' = [prompt EXCEPT ![t] = place]
      PROVE  RunningIsReal'
  BY <1>4, <1>a
<1>5. ASSUME NEW t \in Prompts, Spawn(t)
      PROVE  RunningIsReal'
  BY <1>3, <1>5 DEF Spawn, nesVars
<1>6. ASSUME NEW t \in Prompts, PromptStep(t)
      PROVE  RunningIsReal'
  <2>1. CASE Acquire(t)
    BY <2>1, <1>3 DEF Acquire, Goes, nesVars
  <2>2. CASE LeaveOnShutdown(t)
    BY <2>2, <1>3 DEF LeaveOnShutdown, Goes, nesVars
  <2>3. CASE StartCommand(t)
    <3>1. Head(queued_commands_) \in {"run", "step", "exit"}
      BY <2>3, HeadTailProperties, CommandsAssumption DEF StartCommand, TypeOK
    <3>2. \E place : prompt' = [prompt EXCEPT ![t] = place]
      BY <2>3, <3>1 DEF StartCommand
    <3>3. prompt[t] = "lock" /\ UNCHANGED state_
      BY <2>3 DEF StartCommand, nesVars
    <3>4. QED
      BY <3>2, <3>3, <1>3
  <2>4. CASE StartRun(t)
    BY <2>4, <1>4 DEF StartRun, Goes
  <2>5. CASE TestExit(t)
    BY <2>5, <1>4 DEF TestExit, Goes
  <2>6. ASSUME NEW should_continue \in BOOLEAN, RunStep(t, should_continue)
        PROVE  RunningIsReal'
    BY <2>6, <1>4 DEF RunStep, Goes
  <2>7. CASE IdleTest(t)
    <3>1. CASE state_ = "IDLE"
      BY <3>1, <2>7, <1>2 DEF IdleTest, nesVars
    <3>2. CASE state_ # "IDLE"
      BY <3>2, <2>7, <1>4 DEF IdleTest, Goes
    <3>3. QED
      BY <3>1, <3>2
  <2>8. CASE IdleWrite(t)
    BY <2>8, <1>2 DEF IdleWrite
  <2>9. CASE IdleClear(t)
    BY <2>9, <1>3 DEF IdleClear, Goes
  <2>10. CASE StepDone(t)
    BY <2>10, <1>3 DEF StepDone, Goes, nesVars
  <2>11. CASE Unlock(t)
    BY <2>11, <1>3 DEF Unlock, Goes, nesVars
  <2>12. QED
    BY <1>6, <2>1, <2>2, <2>3, <2>4, <2>5, <2>6, <2>7, <2>8, <2>9, <2>10, <2>11
       DEF PromptStep
<1>7. CASE UiChoice
  BY <1>7, <1>1 DEF UiChoice, ChooseInterrupt, ChooseCommand, nesVars
<1>8. ASSUME UiStep, ~ \E t \in Prompts : Spawn(t)
      PROVE  RunningIsReal'
  BY <1>8, <1>1, <1>2
     DEF UiStep, write_command, InterruptIdle, InterruptNotIdle, RaiseExit, WaitOver,
         Attach, ResetDone, UiIdleTest, UiIdleWrite, UiIdleClear, Destroy, shutdown,
         nesVars
<1>9. CASE UNCHANGED vars
  BY <1>9, <1>1 DEF vars, nesVars
<1>10. QED
  BY <1>5, <1>6, <1>7, <1>8, <1>9 DEF Next

\* RUNNING is never a leftover: some prompt thread is inside run().
THEOREM RunningCorrect == Spec => []RunningIsReal
<1>1. Init => RunningIsReal
  BY DEF Init, RunningIsReal
<1>2. TypeOK /\ RunningIsReal /\ [Next]_vars => RunningIsReal'
  BY RunningStep
<1>3. QED
  BY <1>1, <1>2, TypeCorrect, PTL DEF Spec

-----------------------------------------------------------------------------
(* The semaphore counts the queue. *)

\* A thread that moves between places other than "lock" leaves Serving alone.
LEMMA ServingSame ==
  ASSUME TypeOK, NEW t \in Prompts, prompt[t] # "lock",
         NEW place, place # "lock", prompt' = [prompt EXCEPT ![t] = place]
  PROVE  Serving' = Serving
BY DEF TypeOK, Serving

\* Every release of the semaphore goes with one command queued, every acquire
\* with one thread that is going to take a command.
LEMMA CountStep ==
  ASSUME TypeOK, NeverPopsEmpty, [Next]_vars
  PROVE  NeverPopsEmpty'
<1>a. command_sema_ \in Nat
  BY DEF TypeOK
<1>b. queued_commands_ \in Seq(Commands)
  BY DEF TypeOK
<1>c. ~do_shutdown_ => command_sema_ + Cardinality(Serving) = Len(queued_commands_)
  BY DEF NeverPopsEmpty
<1>d. IsFiniteSet(Serving) /\ Cardinality(Serving) \in Nat
  <2>1. IsFiniteSet(Serving)
    BY PromptsAssumption, FS_Subset DEF Serving
  <2>2. QED
    BY <2>1, FS_CardinalityType
<1>1. CASE Serving' = Serving /\ UNCHANGED queueVars
  BY <1>1 DEF NeverPopsEmpty, queueVars
<1>2. CASE UNCHANGED <<prompt, queueVars>>
  BY <1>1, <1>2 DEF Serving
<1>3. CASE write_command
  <2>1. Len(queued_commands_') = Len(queued_commands_) + 1
    BY <1>3, <1>b, AppendProperties DEF write_command
  <2>2. Serving' = Serving
    BY <1>3 DEF write_command, Serving
  <2>3. command_sema_' = command_sema_ + 1 /\ do_shutdown_' = do_shutdown_
    BY <1>3 DEF write_command, Released
  <2>4. Len(queued_commands_) \in Nat
    BY <1>b, LenProperties
  <2>5. ~do_shutdown_ => command_sema_' + Cardinality(Serving) = Len(queued_commands_')
    BY <1>a, <1>c, <1>d, <2>1, <2>3, <2>4
  <2>6. QED
    BY <2>2, <2>3, <2>5 DEF NeverPopsEmpty
<1>4. CASE shutdown
  BY <1>4 DEF shutdown, NeverPopsEmpty
<1>5. ASSUME NEW t \in Prompts, Spawn(t)
      PROVE  NeverPopsEmpty'
  <2>1. Serving' = Serving
    BY <1>5, ServingSame DEF Spawn
  <2>2. QED
    BY <1>1, <1>5, <2>1 DEF Spawn
<1>6. ASSUME NEW t \in Prompts, PromptStep(t)
      PROVE  NeverPopsEmpty'
  <2>1. CASE Acquire(t)
    <3>1. t \notin Serving /\ Serving' = Serving \cup {t}
      BY <2>1 DEF Acquire, Goes, Serving, TypeOK
    <3>2. Cardinality(Serving') = Cardinality(Serving) + 1
      BY <3>1, <1>d, FS_AddElement
    <3>3. command_sema_' = command_sema_ - 1
      BY <2>1 DEF Acquire
    <3>4. UNCHANGED <<queued_commands_, do_shutdown_>>
      BY <2>1 DEF Acquire
    <3>5. command_sema_' + Cardinality(Serving') = command_sema_ + Cardinality(Serving)
      BY <3>2, <3>3, <1>a, <1>d
    <3>6. QED
      BY <3>4, <3>5, <1>c DEF NeverPopsEmpty
  <2>2. CASE LeaveOnShutdown(t)
    BY <2>2 DEF LeaveOnShutdown, queueVars, NeverPopsEmpty
  <2>3. CASE StartCommand(t)
    <3>1. t \in Serving
      BY <2>3 DEF StartCommand, Serving
    <3>2. Head(queued_commands_) \in {"run", "step", "exit"}
      BY <2>3, HeadTailProperties, CommandsAssumption DEF StartCommand, TypeOK
    <3>3. prompt' \in {[prompt EXCEPT ![t] = "start run"],
                      [prompt EXCEPT ![t] = "stepping"],
                      [prompt EXCEPT ![t] = "ended"]}
      BY <2>3, <3>2 DEF StartCommand
    <3>4. Serving' = Serving \ {t}
      BY <3>3 DEF Serving, TypeOK
    <3>5. Cardinality(Serving') = Cardinality(Serving) - 1
      BY <3>1, <3>4, <1>d, FS_RemoveElement
    <3>6. /\ ~do_shutdown_
          /\ queued_commands_ # <<>>
          /\ queued_commands_' = Tail(queued_commands_)
          /\ UNCHANGED command_sema_
      BY <2>3 DEF StartCommand
    <3>7. Len(queued_commands_') = Len(queued_commands_) - 1
      BY <3>6, <1>b, HeadTailProperties
    <3>8. Len(queued_commands_) \in Nat
      BY <1>b, LenProperties
    <3>9. command_sema_' + Cardinality(Serving') = Len(queued_commands_')
      BY <3>5, <3>6, <3>7, <3>8, <1>a, <1>c, <1>d
    <3>10. QED
      BY <3>9 DEF NeverPopsEmpty
  <2>4. ASSUME prompt[t] # "lock", UNCHANGED queueVars,
               NEW place \in PromptPlaces \ {"lock"},
               prompt' = [prompt EXCEPT ![t] = place]
        PROVE  NeverPopsEmpty'
    BY <2>4, <1>1, ServingSame
  <2> USE DEF PromptPlaces, Goes
  <2>5. CASE StartRun(t)
    BY <2>4, <2>5 DEF StartRun
  <2>6. CASE TestExit(t)
    BY <2>4, <2>6 DEF TestExit
  <2>7. ASSUME NEW should_continue \in BOOLEAN, RunStep(t, should_continue)
        PROVE  NeverPopsEmpty'
    BY <2>4, <2>7 DEF RunStep
  <2>8. CASE IdleTest(t)
    BY <2>4, <2>8 DEF IdleTest
  <2>9. CASE IdleWrite(t)
    BY <2>4, <2>9 DEF IdleWrite
  <2>10. CASE IdleClear(t)
    BY <2>4, <2>10 DEF IdleClear
  <2>11. CASE StepDone(t)
    BY <2>4, <2>11 DEF StepDone
  <2>12. CASE Unlock(t)
    BY <2>4, <2>12 DEF Unlock
  <2>13. QED
    BY <1>6, <2>1, <2>2, <2>3, <2>5, <2>6, <2>7, <2>8, <2>9, <2>10, <2>11, <2>12
       DEF PromptStep
<1>7. CASE UiChoice
  BY <1>7, <1>2 DEF UiChoice, ChooseInterrupt, ChooseCommand
<1>8. ASSUME UiStep, ~write_command, ~shutdown, ~ \E t \in Prompts : Spawn(t)
      PROVE  NeverPopsEmpty'
  BY <1>8, <1>2
     DEF UiStep, InterruptIdle, InterruptNotIdle, RaiseExit, WaitOver, Attach,
         ResetDone, UiIdleTest, UiIdleWrite, UiIdleClear, Destroy, queueVars
<1>9. CASE UNCHANGED vars
  BY <1>9, <1>2 DEF vars, queueVars
<1>10. QED
  BY <1>3, <1>4, <1>5, <1>6, <1>7, <1>8, <1>9 DEF Next

\* front() is never called on an empty queue: until the shutdown, the releases
\* not yet acquired and the threads about to take a command add up to the
\* commands queued.
THEOREM QueueCounted == Spec => []NeverPopsEmpty
<1>1. Init => NeverPopsEmpty
  <2> SUFFICES ASSUME Init PROVE NeverPopsEmpty
    OBVIOUS
  <2>1. Serving = {}
    BY DEF Init, Serving
  <2>2. QED
    BY <2>1, FS_EmptySet DEF Init, NeverPopsEmpty
<1>2. TypeOK /\ NeverPopsEmpty /\ [Next]_vars => NeverPopsEmpty'
  BY CountStep
<1>3. QED
  BY <1>1, <1>2, TypeCorrect, PTL DEF Spec
=============================================================================
