------------------------ MODULE BackgroundPoolProofs ------------------------
(***************************************************************************)
(* The pool draws as StripedFill says, for any number of threads.  The     *)
(* barrier is why: nobody can be one generation behind while another is    *)
(* one ahead, because the caller posts only when it has left the barrier,  *)
(* which it does together with all workers.                                *)
(***************************************************************************)
EXTENDS BackgroundPool, TLAPS

PoolType ==
  /\ generation \in Nat
  /\ task \in [Workers -> 0 .. 1]
  /\ caller \in {"ready", "posted", "waits"} /\ pass \in 0 .. 1
  /\ pc \in [Workers -> {"new", "check", "asleep", "draws", "barrier"}]
  /\ seen \in [Workers -> Nat]
  /\ glow \in [Workers -> Nat] /\ blend \in [Workers -> Nat]

\* The stripes of the pass that is being drawn.
Drawn(w) == (IF pass = 0 THEN glow[w] ELSE blend[w]) = generation

\* Between two passes all workers have seen the last generation and are on
\* their way to sleep.
Rests ==
  caller = "ready" =>
    \A w \in Workers :
      /\ pc[w] \in {"new", "check", "asleep"}
      /\ seen[w] = generation
      /\ IF pass = 0 THEN blend[w] = generation ELSE glow[w] = generation

\* During one, each is before, in or after its stripe.
Works ==
  caller # "ready" =>
    /\ generation > 0
    /\ \A w \in Workers :
         /\ task[w] = pass
         /\ pc[w] \in {"new", "check"} => seen[w] = generation - 1 /\ ~Drawn(w)
         /\ pc[w] = "draws" => seen[w] = generation /\ ~Drawn(w)
         /\ pc[w] = "barrier" => seen[w] = generation /\ Drawn(w)
         /\ pc[w] # "asleep"
         /\ pass = 1 => glow[w] = generation - 1

\* The caller waits at a barrier that is not open.
Waits == caller = "waits" => \E w \in Workers : pc[w] # "barrier"

\* Nothing is drawn for a generation to come.
Past == \A w \in Workers : glow[w] <= generation /\ blend[w] <= generation

PoolOK == PoolType /\ Rests /\ Works /\ Waits /\ Past

LEMMA InitOK == Init => PoolOK
  BY DEF Init, PoolOK, PoolType, Rests, Works, Waits, Past, Drawn

-----------------------------------------------------------------------------
LEMMA StartOK == ASSUME PoolOK, NEW w \in Workers, Start(w) PROVE PoolOK'
  BY DEF PoolOK, PoolType, Rests, Works, Waits, Past, Drawn, Start

LEMMA CheckOK == ASSUME PoolOK, NEW w \in Workers, Check(w) PROVE PoolOK'
  <1> USE DEF PoolOK, PoolType, Check
  <1>1. PoolType' OBVIOUS
  <1>2. Rests' BY DEF Rests, Works
  <1>3. Works' BY DEF Works, Drawn
  <1>4. Waits' BY DEF Waits
  <1>5. Past' BY DEF Past
  <1> QED BY <1>1, <1>2, <1>3, <1>4, <1>5

LEMMA WakesOK == ASSUME PoolOK, NEW w \in Workers, Wakes(w) PROVE PoolOK'
  BY DEF PoolOK, PoolType, Rests, Works, Waits, Past, Drawn, Wakes

LEMMA PostOK == ASSUME PoolOK, Post PROVE PoolOK'
  <1> USE PoolAssumption DEF PoolOK, PoolType, Post
  <1>1. PoolType' OBVIOUS
  <1>2. Rests' BY DEF Rests
  <1>3. Works' BY DEF Works, Rests, Past, Drawn
  <1>4. Waits' BY DEF Waits
  <1>5. Past' BY DEF Past
  <1> QED BY <1>1, <1>2, <1>3, <1>4, <1>5

\* Whoever comes last to the barrier, all have drawn their stripes.
LEMMA OpensOK ==
  ASSUME PoolOK, Opens, caller # "ready",
         UNCHANGED <<generation, task, seen>>,
         glow' \in [Workers -> Nat], blend' \in [Workers -> Nat], Past',
         \A w \in Workers : seen[w] = generation,
         \A w \in Workers : IF pass = 0 THEN glow'[w] = generation
                            ELSE blend'[w] = generation
  PROVE  PoolOK'
  <1> USE DEF PoolOK, PoolType, Opens
  <1>1. PoolType' OBVIOUS
  <1>2. Rests' BY DEF Rests
  <1>3. Works' BY DEF Works
  <1>4. Waits' BY DEF Waits
  <1> QED BY <1>1, <1>2, <1>3, <1>4

LEMMA DrawOK == ASSUME PoolOK, NEW w \in Workers, Draw(w) PROVE PoolOK'
  <1> USE DEF PoolOK, PoolType
  <1>1. caller # "ready" BY DEF Draw, Rests
  <1>2. /\ glow' \in [Workers -> Nat] /\ blend' \in [Workers -> Nat]
        /\ Past'
    BY DEF Draw, Past
  <1>3. IF pass = 0 THEN glow' = [glow EXCEPT ![w] = generation] /\ UNCHANGED blend
        ELSE blend' = [blend EXCEPT ![w] = generation] /\ UNCHANGED glow
    BY <1>1 DEF Draw, Works
  <1>4. CASE caller = "waits" /\ \A u \in Others(w) : pc[u] = "barrier"
    <2>1. \A u \in Workers : seen[u] = generation
      BY <1>1, <1>4 DEF Works, Draw, Others
    <2>2. \A u \in Workers : IF pass = 0 THEN glow'[u] = generation
                             ELSE blend'[u] = generation
      BY <1>1, <1>3, <1>4 DEF Works, Drawn, Others
    <2> QED BY <1>1, <1>2, <1>4, <2>1, <2>2, OpensOK DEF Draw
  <1>5. CASE ~(caller = "waits" /\ \A u \in Others(w) : pc[u] = "barrier")
    <2> USE <1>5 DEF Draw
    <2>1. PoolType' BY <1>2
    <2>2. Rests' BY <1>1 DEF Rests
    <2>3. Works' BY <1>1, <1>3 DEF Works, Drawn
    <2>4. Waits' BY DEF Waits, Others
    <2> QED BY <1>2, <2>1, <2>2, <2>3, <2>4
  <1> QED BY <1>4, <1>5

LEMMA WaitOK == ASSUME PoolOK, Wait PROVE PoolOK'
  <1> USE DEF PoolOK, PoolType
  <1>1. CASE \A w \in Workers : pc[w] = "barrier"
    <2>1. \A w \in Workers : seen[w] = generation /\ Drawn(w)
      BY <1>1 DEF Wait, Works
    <2>2. Past' BY DEF Past, Wait
    <2> QED BY <1>1, <2>1, <2>2, OpensOK DEF Wait, Drawn
  <1>2. CASE ~\A w \in Workers : pc[w] = "barrier"
    BY <1>2 DEF Wait, Rests, Works, Waits, Past, Drawn
  <1> QED BY <1>1, <1>2

LEMMA StutterOK == ASSUME PoolOK, UNCHANGED vars PROVE PoolOK'
  BY DEF PoolOK, PoolType, Rests, Works, Waits, Past, Drawn, vars

LEMMA NextOK == ASSUME PoolOK, [Next]_vars PROVE PoolOK'
  BY StartOK, CheckOK, WakesOK, PostOK, DrawOK, WaitOK, StutterOK DEF Next

\* The inductive invariant of the pool, for any workers and jobs.
THEOREM PoolInvariant == Spec => []PoolOK
  BY InitOK, NextOK, PTL DEF Spec

(***************************************************************************)
(* No worker reads a task while the shell's thread rewrites it, for any    *)
(* number of threads.                                                      *)
(***************************************************************************)
THEOREM TasksStayQuiet == Spec => []TasksAreQuiet
  <1>1. PoolOK => TasksAreQuiet BY DEF PoolOK, Rests, TasksAreQuiet
  <1> QED BY <1>1, PoolInvariant, PTL

-----------------------------------------------------------------------------
(* The refinement.                                                         *)

LEMMA InitMaps == Init => F!Init
  BY DEF Init, F!Init, Phase, Done

\* Two passes do not have the same name.
LEMMA Phases ==
  ASSUME PoolType
  PROVE  /\ Phase = "idle" <=> caller = "ready" /\ pass = 0
         /\ Phase = "between" <=> caller = "ready" /\ pass = 1
         /\ Phase = "glow" <=> caller # "ready" /\ pass = 0
         /\ Phase = "blend" <=> caller # "ready" /\ pass = 1
  BY DEF PoolType, Phase

\* A pass that is complete.
LEMMA AllDone ==
  ASSUME PoolOK, caller = "ready" PROVE Done = Workers
  BY DEF PoolOK, PoolType, Rests, Done, Phase

\* The stripes that are done while a pass is drawn.
LEMMA DoneIsDrawn ==
  ASSUME PoolOK, caller # "ready" PROVE Done = {w \in Workers : Drawn(w)}
  BY DEF PoolOK, PoolType, Done, Phase, Drawn

LEMMA PostMaps == ASSUME PoolOK, Post PROVE F!Begin
  <1>1. PoolOK' BY PostOK
  <1>2. Done' = {}
    BY DEF Done, Phase, PoolOK, PoolType, Past, Rests, Post
  <1>3. \/ Phase = "idle" /\ Phase' = "glow"
        \/ Phase = "between" /\ Phase' = "blend"
    BY DEF Phase, Post, PoolOK, PoolType
  <1> QED BY <1>2, <1>3 DEF F!Begin

LEMMA QuietMaps ==
  ASSUME UNCHANGED <<generation, caller, pass, glow, blend>>
  PROVE  UNCHANGED <<Phase, Done>>
  BY DEF Phase, Done

\* A pass that ends names the pause after it.
LEMMA OpensNames ==
  ASSUME PoolType, Opens, caller # "ready"
  PROVE  \/ Phase = "glow" /\ Phase' = "between"
         \/ Phase = "blend" /\ Phase' = "idle"
  BY DEF PoolType, Opens, Phase

LEMMA DrawMaps ==
  ASSUME PoolOK, NEW w \in Workers, Draw(w)
  PROVE  F!Stripe(w) \/ F!LastStripe(w)
  <1> USE DEF PoolOK, PoolType
  <1>1. caller # "ready" BY DEF Draw, Rests
  <1>2. PoolOK' BY DrawOK
  <1>3. Phase \in {"glow", "blend"} /\ w \notin Done
    BY <1>1, DoneIsDrawn DEF Phase, Draw, Works
  <1>4. IF pass = 0 THEN glow' = [glow EXCEPT ![w] = generation] /\ UNCHANGED blend
        ELSE blend' = [blend EXCEPT ![w] = generation] /\ UNCHANGED glow
    BY <1>1 DEF Draw, Works
  <1>5. CASE caller = "waits" /\ \A u \in Others(w) : pc[u] = "barrier"
    <2>1. Opens BY <1>5 DEF Draw
    <2>2. Done' = Workers BY <1>2, <2>1, AllDone DEF Opens, Done, Phase, Rests
    <2>3. Done \cup {w} = Workers
      BY <1>1, <1>5, DoneIsDrawn DEF Works, Others
    <2> QED BY <1>1, <1>3, <2>1, <2>2, <2>3, OpensNames DEF F!LastStripe
  <1>6. CASE ~(caller = "waits" /\ \A u \in Others(w) : pc[u] = "barrier")
    <2>1. UNCHANGED <<caller, pass, generation>> BY <1>6 DEF Draw
    <2>2. UNCHANGED Phase BY <2>1 DEF Phase
    <2>3. Done' = Done \cup {w}
      BY <1>1, <1>4, <2>1 DEF Done, Phase
    <2> QED BY <1>3, <2>2, <2>3 DEF F!Stripe
  <1> QED BY <1>5, <1>6

LEMMA WaitMaps ==
  ASSUME PoolOK, Wait
  PROVE  F!End \/ UNCHANGED <<Phase, Done>>
  <1> USE DEF PoolOK, PoolType
  <1>1. CASE \A w \in Workers : pc[w] = "barrier"
    <2>1. Opens /\ caller # "ready" BY <1>1 DEF Wait
    <2>2. Done = Workers BY <1>1, <2>1, DoneIsDrawn DEF Works
    <2>3. PoolOK' BY WaitOK
    <2>4. Done' = Workers
      BY <2>1, <2>3 DEF Opens, Done, Phase, Rests
    <2> QED BY <2>1, <2>2, <2>4, OpensNames DEF F!End
  <1>2. CASE ~\A w \in Workers : pc[w] = "barrier"
    <2>1. UNCHANGED <<generation, pass, glow, blend>> /\ caller = "posted" /\ caller' = "waits"
      BY <1>2 DEF Wait
    <2> QED BY <2>1 DEF Phase, Done
  <1> QED BY <1>1, <1>2

LEMMA NextMaps ==
  ASSUME PoolOK, [Next]_vars
  PROVE  [F!Next]_<<Phase, Done>>
  <1>1. CASE Post BY <1>1, PostMaps DEF F!Next
  <1>2. CASE Wait BY <1>2, WaitMaps DEF F!Next
  <1>3. CASE \E w \in Workers : Start(w) \/ Check(w) \/ Wakes(w)
    BY <1>3, QuietMaps DEF Start, Check, Wakes
  <1>4. CASE \E w \in Workers : Draw(w) BY <1>4, DrawMaps DEF F!Next
  <1>5. CASE UNCHANGED vars BY <1>5, QuietMaps DEF vars
  <1> QED BY <1>1, <1>2, <1>3, <1>4, <1>5 DEF Next

(***************************************************************************)
(* The pool implements StripedFill, for any number of threads and frames.  *)
(***************************************************************************)
THEOREM PoolImplementsFill == Spec => FillsInTwoPasses
  <1>1. [][Next]_vars /\ []PoolOK => [][F!Next]_<<Phase, Done>>
    BY NextMaps, PTL
  <1> QED BY <1>1, InitMaps, PoolInvariant, PTL DEF Spec, FillsInTwoPasses, F!Spec
-----------------------------------------------------------------------------
(***************************************************************************)
(* A picture is whole and of one frame: when the second call of            *)
(* bg_parallel_fill returns, every stripe was blended by that call, on     *)
(* waves that the call before it drew, its neighbours' like its own; and   *)
(* when the first returns, every stripe's waves are new                    *)
(* (shell_background.c:410-424, 463-479, 642-662).                         *)
(***************************************************************************)
PicturesAreWhole ==
  caller = "ready" /\ generation > 0 =>
    \A w \in Workers :
      IF pass = 1 THEN glow[w] = generation
      ELSE blend[w] = generation /\ glow[w] = generation - 1

LEMMA StepIsWhole ==
  ASSUME PoolOK, PicturesAreWhole, [Next]_vars PROVE PicturesAreWhole'
  <1> USE DEF PoolOK, PoolType
  <1>1. PoolOK' BY NextOK
  <1>2. SUFFICES ASSUME caller' = "ready", generation' > 0, NEW w \in Workers
                 PROVE  IF pass' = 1 THEN glow'[w] = generation'
                        ELSE blend'[w] = generation' /\ glow'[w] = generation' - 1
    BY DEF PicturesAreWhole
  <1>3. CASE caller = "ready"
    <2>1. UNCHANGED <<generation, pass, glow, blend>>
      <3>1. ASSUME NEW u \in Workers, Draw(u) PROVE FALSE
        BY <1>3, <3>1 DEF Draw, Rests
      <3> QED BY <1>2, <1>3, <3>1 DEF Next, vars, Post, Wait, Start, Check, Wakes
    <2> QED BY <1>2, <1>3, <2>1 DEF PicturesAreWhole
  <1>4. CASE caller # "ready"
    <2>1. UNCHANGED generation /\ pass' = 1 - pass /\ (pass = 1 => UNCHANGED glow)
      <3>1. ASSUME NEW u \in Workers, Draw(u)
            PROVE  UNCHANGED generation /\ pass' = 1 - pass /\ (pass = 1 => UNCHANGED glow)
        BY <1>2, <1>4, <3>1 DEF Draw, Opens, Works
      <3> QED BY <1>2, <1>4, <3>1 DEF Next, vars, Post, Wait, Opens, Start, Check, Wakes
    <2>2. CASE pass = 0 BY <1>1, <1>2, <2>1, <2>2 DEF Rests
    <2>3. CASE pass = 1
      <3>1. glow[w] = generation - 1 BY <1>4, <2>3 DEF Works
      <3> QED BY <1>1, <1>2, <2>1, <2>3, <3>1 DEF Rests
    <2> QED BY <2>2, <2>3
  <1> QED BY <1>3, <1>4

(***************************************************************************)
(* No picture mixes the stripes or the waves of two frames, for any number *)
(* of threads.                                                             *)
(***************************************************************************)
THEOREM PicturesStayWhole == Spec => []PicturesAreWhole
  <1>1. Init => PicturesAreWhole
    <2>1. Init => ~(generation > 0) BY DEF Init
    <2> QED BY <2>1 DEF PicturesAreWhole
  <1> QED BY <1>1, StepIsWhole, PoolInvariant, PTL DEF Spec

(***************************************************************************)
(* Nobody oversleeps a pass: while bg_parallel_fill is in one no worker    *)
(* sleeps, also one that checked the generation before the thread started  *)
(* or woke for nothing, and the caller or a worker has something to do, so *)
(* that they never wait for each other (shell_background.c:464-470,        *)
(* 634-637).                                                               *)
(***************************************************************************)
NobodyOversleeps ==
  caller # "ready" =>
    /\ \A w \in Workers : pc[w] # "asleep"
    /\ caller = "posted" \/ \E w \in Workers : pc[w] \in {"new", "check", "draws"}

(***************************************************************************)
(* A posted pass always has somebody to do it.                             *)
(***************************************************************************)
THEOREM EverybodyIsAwake == Spec => []NobodyOversleeps
  <1>1. PoolOK => NobodyOversleeps
    BY DEF PoolOK, PoolType, Works, Waits, NobodyOversleeps
  <1> QED BY <1>1, PoolInvariant, PTL

(***************************************************************************)
(* During a pass a worker only goes on: it begins, sees the generation,    *)
(* draws and comes to the barrier, once, and each step of the pass but the *)
(* caller's takes one worker one place further                             *)
(* (shell_background.c:463-479).                                           *)
(***************************************************************************)
WorkersGoOn ==
  [][caller # "ready" /\ caller' # "ready" =>
       \/ caller = "posted" /\ caller' = "waits" /\ UNCHANGED pc
       \/ \E w \in Workers :
            /\ <<pc[w], pc'[w]>>
                 \in {<<"new", "check">>, <<"check", "draws">>, <<"draws", "barrier">>}
            /\ \A u \in Others(w) : pc'[u] = pc[u]]_vars

(***************************************************************************)
(* A pass takes at most three steps of every worker and two of the caller: *)
(* with NobodyOversleeps, this is why bg_parallel_fill returns.            *)
(***************************************************************************)
THEOREM PassesGoOn == Spec => WorkersGoOn
  <1> DEFINE Further(w) ==
               /\ <<pc[w], pc'[w]>>
                    \in {<<"new", "check">>, <<"check", "draws">>, <<"draws", "barrier">>}
               /\ \A u \in Others(w) : pc'[u] = pc[u]
             On == \/ caller = "posted" /\ caller' = "waits" /\ UNCHANGED pc
                   \/ \E w \in Workers : Further(w)
  <1>1. ASSUME PoolOK, [Next]_vars, caller # "ready", caller' # "ready"
        PROVE  On \/ UNCHANGED vars
    <2> USE <1>1 DEF PoolOK, PoolType
    <2>1. ~Post BY DEF Post
    <2>2. CASE Wait BY <2>2 DEF Wait, Opens
    <2>3. ASSUME NEW w \in Workers, Start(w) \/ Draw(w) PROVE Further(w)
      BY <2>3 DEF Start, Draw, Opens, Others
    <2>4. ASSUME NEW w \in Workers, Check(w) PROVE Further(w)
      <3>1. seen[w] # generation BY <2>4 DEF Check, Works
      <3> QED BY <2>4, <3>1 DEF Check, Others
    <2>5. ASSUME NEW w \in Workers, Wakes(w) PROVE FALSE
      BY <2>5 DEF Wakes, Works
    <2> HIDE DEF Further
    <2> QED BY <2>1, <2>2, <2>3, <2>4, <2>5 DEF Next
  <1> HIDE DEF On
  <1>2. PoolOK /\ [Next]_vars
          => [caller # "ready" /\ caller' # "ready" => On]_vars
    BY <1>1
  <1>3. Spec => [][caller # "ready" /\ caller' # "ready" => On]_vars
    BY <1>2, PoolInvariant, PTL DEF Spec
  <1> QED BY <1>3 DEF On, WorkersGoOn
=============================================================================
