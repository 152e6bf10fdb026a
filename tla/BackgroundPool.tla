--------------------------- MODULE BackgroundPool ---------------------------
(***************************************************************************)
(* The threads that draw the animated background                           *)
(* (src/compositor/src/shell/shell_background.c).  The shell's thread      *)
(* writes a task for every worker, advances the generation and waits with  *)
(* them at a barrier; first for the waves, then for the gradient on which  *)
(* the waves of all stripes are blended.  What happens under start_mutex   *)
(* is one step.  A worker reads its task and draws without the lock.       *)
(***************************************************************************)
EXTENDS Naturals

CONSTANTS
  Workers,       \* LUMO_BG_THREADS of them, all of which were created
  MaxGeneration  \* bound of a uint64_t

ASSUME PoolAssumption == MaxGeneration \in Nat

VARIABLES
  generation,  \* bg_pool.generation
  task,        \* the pass of bg_pool.tasks[w]
  caller,      \* bg_parallel_fill: "ready" to write tasks, "posted", "waits"
  pass,        \* the pass it is in or will post next
  pc,          \* where each worker is
  seen,        \* its own generation
  glow,        \* the generation for which each stripe of the waves was drawn
  blend        \* the same for the stripes of the picture

vars == <<generation, task, caller, pass, pc, seen, glow, blend>>

Init ==
  /\ generation = 0 /\ task = [w \in Workers |-> 0]
  /\ caller = "ready" /\ pass = 0
  /\ pc = [w \in Workers |-> "new"] /\ seen = [w \in Workers |-> 0]
  /\ glow = [w \in Workers |-> 0] /\ blend = [w \in Workers |-> 0]

\* The thread begins to run, maybe after the first task was posted.
Start(w) ==
  /\ pc[w] = "new"
  /\ pc' = [pc EXCEPT ![w] = "check"]
  /\ UNCHANGED <<generation, task, caller, pass, seen, glow, blend>>

Check(w) ==
  /\ pc[w] = "check"
  /\ IF generation = seen[w]
     THEN pc' = [pc EXCEPT ![w] = "asleep"] /\ UNCHANGED seen
     ELSE pc' = [pc EXCEPT ![w] = "draws"] /\ seen' = [seen EXCEPT ![w] = generation]
  /\ UNCHANGED <<generation, task, caller, pass, glow, blend>>

\* Mutant: whoever wakes draws, as with an if for the while.
Wakes_Draws(w) ==
  /\ pc[w] = "asleep"
  /\ pc' = [pc EXCEPT ![w] = "draws"] /\ seen' = [seen EXCEPT ![w] = generation]
  /\ UNCHANGED <<generation, task, caller, pass, glow, blend>>

\* pthread_cond_wait may return for no reason.
Wakes(w) ==
  /\ pc[w] = "asleep"
  /\ pc' = [pc EXCEPT ![w] = "check"]
  /\ UNCHANGED <<generation, task, caller, pass, seen, glow, blend>>

\* Mutant: the tasks are posted and one worker is told.
Post_Signal ==
  /\ caller = "ready" /\ generation < MaxGeneration
  /\ task' = [w \in Workers |-> pass] /\ generation' = generation + 1
  /\ \/ \E w \in Workers : pc[w] = "asleep" /\ pc' = [pc EXCEPT ![w] = "check"]
     \/ (\A w \in Workers : pc[w] # "asleep") /\ UNCHANGED pc
  /\ caller' = "posted"
  /\ UNCHANGED <<pass, seen, glow, blend>>

\* Tasks, generation and broadcast, under the lock.
Post ==
  /\ caller = "ready" /\ generation < MaxGeneration
  /\ task' = [w \in Workers |-> pass] /\ generation' = generation + 1
  /\ pc' = [w \in Workers |-> IF pc[w] = "asleep" THEN "check" ELSE pc[w]]
  /\ caller' = "posted"
  /\ UNCHANGED <<pass, seen, glow, blend>>

Others(w) == Workers \ {w}

\* The barrier opens for the workers and the caller together.
Opens ==
  /\ pc' = [w \in Workers |-> "check"]
  /\ caller' = "ready" /\ pass' = 1 - pass

\* A stripe is drawn as its task says, and the worker goes to the barrier.
Draw(w) ==
  /\ pc[w] = "draws"
  /\ IF task[w] = 0
     THEN glow' = [glow EXCEPT ![w] = generation] /\ UNCHANGED blend
     ELSE blend' = [blend EXCEPT ![w] = generation] /\ UNCHANGED glow
  /\ IF caller = "waits" /\ \A u \in Others(w) : pc[u] = "barrier" THEN Opens
     ELSE pc' = [pc EXCEPT ![w] = "barrier"] /\ UNCHANGED <<caller, pass>>
  /\ UNCHANGED <<generation, task, seen>>

\* Mutant: only the workers wait for each other.
Wait_NotAtAll ==
  /\ caller = "posted"
  /\ caller' = "ready" /\ pass' = 1 - pass
  /\ pc' = [w \in Workers |-> IF pc[w] = "barrier" THEN "check" ELSE pc[w]]
  /\ UNCHANGED <<generation, task, seen, glow, blend>>

Wait ==
  /\ caller = "posted"
  /\ IF \A w \in Workers : pc[w] = "barrier" THEN Opens
     ELSE caller' = "waits" /\ UNCHANGED <<pc, pass>>
  /\ UNCHANGED <<generation, task, seen, glow, blend>>

Next ==
  \/ Post \/ Wait
  \/ \E w \in Workers : Start(w) \/ Check(w) \/ Wakes(w) \/ Draw(w)

\* Threads that can run do.
Fairness ==
  /\ WF_vars(Wait) /\ WF_vars(Post)
  /\ \A w \in Workers : WF_vars(Start(w)) /\ WF_vars(Check(w)) /\ WF_vars(Draw(w))

Spec == Init /\ [][Next]_vars /\ Fairness
-----------------------------------------------------------------------------
(***************************************************************************)
(* The tasks are rewritten only when no worker reads them without the      *)
(* lock, also by workers that started late or woke for nothing             *)
(* (shell_background.c:463-479, 622-637, 642-662).                         *)
(***************************************************************************)
TasksAreQuiet == caller = "ready" => \A w \in Workers : pc[w] # "draws"

(***************************************************************************)
(* The picture is that of StripedFill: a worker blends only when the waves *)
(* of all stripes are drawn for this frame, since it reads rows of its     *)
(* neighbours', and when bg_parallel_fill returns no stripe is left out    *)
(* (shell_background.c:410-424, 637, 660-662).                             *)
(***************************************************************************)
Phase ==
  IF caller = "ready" THEN IF pass = 0 THEN "idle" ELSE "between"
  ELSE IF pass = 0 THEN "glow" ELSE "blend"

Done ==
  {w \in Workers : generation = IF Phase \in {"glow", "between"} THEN glow[w] ELSE blend[w]}

F == INSTANCE StripedFill WITH phase <- Phase, done <- Done

FillsInTwoPasses == F!Spec

(***************************************************************************)
(* A call of bg_parallel_fill returns: no worker sleeps over what was      *)
(* posted, and nobody waits at the barrier for one that does               *)
(* (shell_background.c:464-470, 634-637).                                  *)
(***************************************************************************)
FillEnds == caller # "ready" ~> caller = "ready"
=============================================================================
