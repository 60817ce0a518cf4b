---------------------- MODULE MultithreadContextProofs ----------------------
(***************************************************************************)
(* The protected context of experiment 09, for any number of workers and   *)
(* frames and any width of the counter.                                    *)
(*                                                                         *)
(* CallInv says that protected calls never overlap, FrameInv what each     *)
(* texture holds at each point of its worker's loop, and MainInv what the  *)
(* test has found.                                                         *)
(***************************************************************************)
EXTENDS MultithreadContext, TLAPS

WorkerLabels == {"start", "gate", "loop", "frame", "updating", "flush",
                 "flushing", "count", "done"}

\* In a protected context at most one worker is inside a call, so none is ever
\* disturbed.
CallsExclude ==
  setting.protected =>
    /\ overlapped = {}
    /\ \A v, w \in Workers : pc[v] \in InCall /\ pc[w] \in InCall => v = w

CallInv == pc \in [Workers -> WorkerLabels] /\ CallsExclude

LEMMA InitCall ==
  ASSUME Init
  PROVE  CallInv
BY DEF Init, CallInv, CallsExclude, WorkerLabels, InCall

\* A worker that starts no call.
LEMMA MoveKeepsCall ==
  ASSUME CallInv, NEW w \in Workers, NEW l \in WorkerLabels \ InCall,
         Goto(w, l), UNCHANGED setting, overlapped' \subseteq overlapped
  PROVE  CallInv'
BY DEF CallInv, CallsExclude, Goto, InCall

LEMMA BeginKeepsCall ==
  ASSUME CallInv, NEW w \in Workers, NEW from, NEW l \in InCall,
         BeginCall(w, from, l)
  PROVE  CallInv'
<1>1. /\ pc' \in [Workers -> WorkerLabels] /\ UNCHANGED setting
      /\ \A v \in Workers : v # w => pc'[v] = pc[v]
  BY DEF BeginCall, Goto, CallInv, WorkerLabels, InCall
<1>2. ASSUME setting.protected
      PROVE  /\ overlapped' = {}
             /\ \A v \in Workers : v # w => pc'[v] \notin InCall
  <2>1. Callers = {}
    BY <1>2 DEF BeginCall
  <2>2. overlapped' = {}
    BY <1>2, <2>1 DEF BeginCall, CallInv, CallsExclude
  <2>3. \A v \in Workers : pc[v] \notin InCall
    BY <2>1 DEF Callers
  <2> QED BY <1>1, <2>2, <2>3
<1> QED BY <1>1, <1>2 DEF CallInv, CallsExclude

LEMMA WorkerKeepsCall ==
  ASSUME CallInv, NEW w \in Workers, WorkerStep(w)
  PROVE  CallInv'
<1> USE DEF WorkerLabels, InCall
<1>1. CASE Arrive(w)
  <2>1. CASE pc' = [pc EXCEPT ![w] = "gate"]
    BY <1>1, <2>1, MoveKeepsCall DEF Arrive, Goto
  <2>2. CASE pc' = [v \in Workers |-> "loop"]
    BY <1>1, <2>2 DEF Arrive, CallInv, CallsExclude
  <2> QED BY <1>1, <2>1, <2>2 DEF Arrive
<1>2. CASE EnterLoop(w)
  BY <1>2, MoveKeepsCall DEF EnterLoop
<1>3. CASE BeginUpdate(w)
  BY <1>3, BeginKeepsCall DEF BeginUpdate
<1>4. CASE EndUpdate(w)
  BY <1>4, MoveKeepsCall DEF EndUpdate
<1>5. CASE BeginFlush(w)
  BY <1>5, BeginKeepsCall DEF BeginFlush
<1>6. CASE EndFlush(w)
  BY <1>6, MoveKeepsCall DEF EndFlush
<1>7. CASE Count(w)
  BY <1>7, MoveKeepsCall DEF Count
<1>8. CASE Catch(w)
  BY <1>8, MoveKeepsCall DEF Catch
<1> QED BY <1>1, <1>2, <1>3, <1>4, <1>5, <1>6, <1>7, <1>8 DEF WorkerStep

LEMMA NextSteps ==
  ASSUME [Next]_vars
  PROVE  \/ \E w \in Workers : WorkerStep(w)
         \/ MainStep \/ UNCHANGED vars
BY DEF Next, Finished

\* The test does nothing to the workers.
LEMMA MainLeavesWorkers ==
  ASSUME MainStep \/ UNCHANGED vars
  PROVE  UNCHANGED <<setting, pc, iteration, overlapped, texture, completed,
                     failed>>
BY DEF MainStep, Join, Validate, CreateFails, Report, vars

\* In a protected context at most one call is in progress.
THEOREM CallSafe == Spec => []CallInv
<1>1. CallInv /\ [Next]_vars => CallInv'
  <2>1. CASE MainStep \/ UNCHANGED vars
    BY <2>1, MainLeavesWorkers DEF CallInv, CallsExclude
  <2> QED BY <2>1, NextSteps, WorkerKeepsCall
<1> QED BY InitCall, <1>1, PTL DEF Spec

\* Protected calls never overlap, however many workers there are.
THEOREM ProtectedCallsExclude == Spec => []CallsExclude
BY CallSafe, PTL DEF CallInv

-----------------------------------------------------------------------------
(* What the textures hold.                                                 *)

\* Between two frames a texture holds the frame before the next one, after the
\* update the one of this round; a worker leaves its loop early only after a
\* failure was recorded.
FrameOf(w) ==
  IF pc[w] \in {"flush", "flushing", "count"} THEN iteration[w]
                                              ELSE iteration[w] - 1

WorkerInv(w) ==
  /\ setting.protected => texture[w] = FrameOf(w)
  /\ pc[w] \in {"frame", "updating", "flush", "flushing", "count"}
       => iteration[w] < Iterations
  /\ pc[w] = "done" => iteration[w] = Iterations \/ failed

FrameInv ==
  /\ iteration \in [Workers -> 0 .. Iterations]
  /\ texture \in [Workers -> Int]
  /\ failed \in BOOLEAN
  /\ \A w \in Workers : WorkerInv(w)

LEMMA InitFrame ==
  ASSUME Init
  PROVE  FrameInv
<1>1. 0 \in 0 .. Iterations
  BY IterationsAssumption
<1>2. /\ iteration \in [Workers -> 0 .. Iterations]
      /\ texture \in [Workers -> Int]
  BY <1>1 DEF Init, Blank
<1>3. ASSUME NEW w \in Workers PROVE WorkerInv(w)
  <2>1. pc[w] = "start" /\ iteration[w] = 0 /\ texture[w] = -1
    BY DEF Init, Blank
  <2> QED BY <2>1 DEF WorkerInv, FrameOf
<1> QED BY <1>2, <1>3 DEF Init, FrameInv

\* A step of one worker concerns only its own texture and loop counter.
LEMMA OthersKeepFrame ==
  ASSUME FrameInv, NEW w \in Workers, UNCHANGED setting,
         failed' \in BOOLEAN, failed => failed',
         iteration' \in [Workers -> 0 .. Iterations],
         texture' \in [Workers -> Int],
         \A v \in Workers : v # w =>
           /\ pc'[v] = pc[v] /\ iteration'[v] = iteration[v]
           /\ texture'[v] = texture[v],
         WorkerInv(w)'
  PROVE  FrameInv'
<1>1. ASSUME NEW v \in Workers, v # w PROVE WorkerInv(v)'
  BY <1>1 DEF FrameInv, WorkerInv, FrameOf
<1> QED BY <1>1 DEF FrameInv

LEMMA WorkerKeepsFrame ==
  ASSUME CallInv, FrameInv, NEW w \in Workers, WorkerStep(w)
  PROVE  FrameInv'
<1> USE IterationsAssumption
<1>a. /\ pc \in [Workers -> WorkerLabels]
      /\ iteration \in [Workers -> 0 .. Iterations]
      /\ texture \in [Workers -> Int]
      /\ failed \in BOOLEAN /\ WorkerInv(w)
      /\ setting.protected => w \notin overlapped
  BY DEF CallInv, CallsExclude, FrameInv
<1>1. CASE Arrive(w)
  <2>1. /\ UNCHANGED <<setting, iteration, texture, failed>>
        /\ \A v \in Workers : \/ pc'[v] = pc[v]
                              \/ pc[v] \in {"start", "gate"}
                                 /\ pc'[v] \in {"gate", "loop"}
    BY <1>1, <1>a DEF Arrive
  <2>2. ASSUME NEW v \in Workers PROVE WorkerInv(v)'
    BY <2>1 DEF FrameInv, WorkerInv, FrameOf
  <2> QED BY <1>a, <2>1, <2>2 DEF FrameInv
<1>2. CASE EnterLoop(w)
  <2>1. /\ pc[w] = "loop" /\ UNCHANGED <<setting, iteration, texture, failed>>
        /\ pc'[w] = IF iteration[w] < Iterations /\ ~failed
                    THEN "frame" ELSE "done"
        /\ \A v \in Workers : v # w => pc'[v] = pc[v]
    BY <1>2, <1>a DEF EnterLoop, Goto
  <2>2. WorkerInv(w)'
    BY <1>a, <2>1 DEF WorkerInv, FrameOf
  <2> QED BY <1>a, <2>1, <2>2, OthersKeepFrame
<1>3. CASE BeginUpdate(w) \/ BeginFlush(w)
  <2>1. /\ UNCHANGED <<setting, iteration, texture, failed>>
        /\ \/ pc[w] = "frame" /\ pc'[w] = "updating"
           \/ pc[w] = "flush" /\ pc'[w] = "flushing"
        /\ \A v \in Workers : v # w => pc'[v] = pc[v]
    BY <1>3, <1>a DEF BeginUpdate, BeginFlush, BeginCall, Goto
  <2>2. WorkerInv(w)'
    BY <1>a, <2>1 DEF WorkerInv, FrameOf
  <2> QED BY <1>a, <2>1, <2>2, OthersKeepFrame
<1>4. CASE EndUpdate(w)
  <2>1. /\ UNCHANGED <<setting, iteration, failed>>
        /\ pc[w] = "updating" /\ pc'[w] = "flush"
        /\ \A v \in Workers : v # w => pc'[v] = pc[v]
    BY <1>4, <1>a DEF EndUpdate, Goto
  <2>2. PICK f \in Int : /\ texture' = [texture EXCEPT ![w] = f]
                         /\ setting.protected => f = iteration[w]
    BY <1>4, <1>a DEF EndUpdate, Frame, Damaged
  <2>3. WorkerInv(w)'
    BY <1>a, <2>1, <2>2 DEF WorkerInv, FrameOf
  <2> QED BY <1>a, <2>1, <2>2, <2>3, OthersKeepFrame
<1>5. CASE EndFlush(w)
  <2>1. /\ UNCHANGED <<setting, iteration, failed>>
        /\ pc[w] = "flushing" /\ pc'[w] = "count"
        /\ \A v \in Workers : v # w => pc'[v] = pc[v]
    BY <1>5, <1>a DEF EndFlush, Goto
  <2>2. PICK f \in Int : /\ texture' = [texture EXCEPT ![w] = f]
                         /\ setting.protected => f = texture[w]
    BY <1>5, <1>a DEF EndFlush, Damaged
  <2>3. WorkerInv(w)'
    BY <1>a, <2>1, <2>2 DEF WorkerInv, FrameOf
  <2> QED BY <1>a, <2>1, <2>2, <2>3, OthersKeepFrame
<1>6. CASE Count(w)
  <2>1. /\ UNCHANGED <<setting, texture, failed>>
        /\ pc[w] = "count" /\ pc'[w] = "loop"
        /\ iteration' = [iteration EXCEPT ![w] = iteration[w] + 1]
        /\ \A v \in Workers : v # w => pc'[v] = pc[v]
    BY <1>6, <1>a DEF Count, Goto
  <2>2. iteration[w] < Iterations
    BY <1>a, <2>1 DEF WorkerInv
  <2>3. iteration' \in [Workers -> 0 .. Iterations]
    BY <1>a, <2>1, <2>2
  <2>4. WorkerInv(w)'
    BY <1>a, <2>1 DEF WorkerInv, FrameOf
  <2> QED BY <1>a, <2>1, <2>3, <2>4, OthersKeepFrame
<1>7. CASE Catch(w)
  <2>1. /\ UNCHANGED <<setting, iteration, texture>> /\ failed' = TRUE
        /\ pc[w] = "frame" /\ pc'[w] = "done"
        /\ \A v \in Workers : v # w => pc'[v] = pc[v]
    BY <1>7, <1>a DEF Catch, Goto
  <2>2. WorkerInv(w)'
    BY <1>a, <2>1 DEF WorkerInv, FrameOf
  <2> QED BY <1>a, <2>1, <2>2, OthersKeepFrame
<1> QED BY <1>1, <1>2, <1>3, <1>4, <1>5, <1>6, <1>7 DEF WorkerStep

\* At each point of its loop a worker's texture holds the frame it should.
THEOREM FrameSafe == Spec => []FrameInv
<1>1. CallInv /\ FrameInv /\ [Next]_vars => FrameInv'
  <2>1. CASE MainStep \/ UNCHANGED vars
    BY <2>1, MainLeavesWorkers DEF FrameInv, WorkerInv, FrameOf
  <2> QED BY <2>1, NextSteps, WorkerKeepsFrame
<1> QED BY InitFrame, CallSafe, <1>1, PTL DEF Spec

-----------------------------------------------------------------------------
(* What the test finds.                                                    *)

\* After the joins no worker moves; what is found is what happened.
MainInv ==
  /\ main # "join" => \A w \in Workers : pc[w] = "done"
  /\ main = "validate" => ~failed
  /\ main \in {"join", "validate"} => mismatched = {}
  /\ setting.protected /\ mismatched # {} => "map error" \in setting.faults
  /\ setting.protected /\ main = "pass" => ~failed

LEMMA StepKeepsMain ==
  ASSUME CallInv, FrameInv, MainInv, [Next]_vars
  PROVE  MainInv'
<1>1. ASSUME NEW w \in Workers, WorkerStep(w) PROVE MainInv'
  <2>1. UNCHANGED <<setting, main, mismatched>> /\ pc[w] # "done"
    BY <1>1
    DEF WorkerStep, Arrive, EnterLoop, BeginUpdate, BeginFlush, BeginCall,
        EndUpdate, EndFlush, Count, Catch, observation
  <2>2. main = "join"
    BY <2>1 DEF MainInv
  <2> QED BY <2>1, <2>2 DEF MainInv
<1>2. CASE Join
  BY <1>2 DEF Join, MainInv
<1>3. CASE Validate
  <2>1. /\ main = "validate" /\ main' = "report"
        /\ UNCHANGED <<setting, pc, failed>>
    BY <1>3 DEF Validate
  <2>2. ASSUME setting.protected, mismatched' # {}
        PROVE  "map error" \in setting.faults
    <3>1. \A w \in Workers : texture[w] = iteration[w] - 1
                             /\ iteration[w] = Iterations
      BY <2>1, <2>2 DEF MainInv, FrameInv, WorkerInv, FrameOf
    <3>2. {w \in Workers : ~HoldsLastFrame(w)} = {}
      BY <3>1 DEF HoldsLastFrame, LastFrame
    <3> QED BY <1>3, <2>2, <3>2 DEF Validate
  <2> QED BY <2>1, <2>2 DEF MainInv
<1>4. CASE CreateFails
  BY <1>4 DEF CreateFails, MainInv
<1>5. CASE Report
  <2>1. /\ main = "report" /\ main' \in {"pass", "fail"}
        /\ UNCHANGED <<setting, pc, failed, mismatched>>
        /\ setting.protected /\ main' = "pass" => BaselineHolds
    BY <1>5 DEF Report
  <2> QED BY <2>1 DEF MainInv, BaselineHolds
<1>6. CASE UNCHANGED vars
  BY <1>6 DEF vars, MainInv
<1> QED
  BY <1>1, <1>2, <1>3, <1>4, <1>5, <1>6, NextSteps DEF MainStep

LEMMA MainSafe == Spec => []MainInv
<1>1. Init => MainInv
  BY DEF Init, MainInv
<1> QED BY <1>1, StepKeepsMain, CallSafe, FrameSafe, PTL DEF Spec

\* In a protected context only a failed Map is ever taken for a wrong frame.
THEOREM MismatchesHaveCauses == Spec => []MismatchHasCause
<1>1. MainInv => MismatchHasCause
  BY DEF MainInv, MismatchHasCause
<1> QED BY <1>1, MainSafe, PTL

\* A passing baseline means that every worker did all its frames.
THEOREM PassesAreIntact == Spec => []PassMeansIntact
<1>1. FrameInv /\ MainInv => PassMeansIntact
  <2> SUFFICES ASSUME FrameInv, MainInv, setting.protected, main = "pass",
                      NEW w \in Workers
               PROVE  iteration[w] = Iterations /\ texture[w] = LastFrame
    BY DEF PassMeansIntact
  <2>1. pc[w] = "done" /\ ~failed
    BY DEF MainInv
  <2> QED BY <2>1 DEF FrameInv, WorkerInv, FrameOf, LastFrame
<1> QED BY <1>1, FrameSafe, MainSafe, PTL

-----------------------------------------------------------------------------
(* Types.                                                                  *)

LEMMA InitType ==
  ASSUME Init
  PROVE  TypeOK
<1>1. /\ iteration \in [Workers -> 0 .. Iterations]
      /\ completed \in 0 .. (DwordSize - 1)
  BY IterationsAssumption, DwordSizeAssumption DEF Init
<1>2. texture \in [Workers -> {Damaged, Blank} \cup 0 .. LastFrame]
  BY DEF Init
<1>3. /\ pc \in [Workers -> {"start", "gate", "loop", "frame", "flush",
                           "count", "done"} \cup InCall]
      /\ setting \in Settings /\ overlapped \subseteq Callers
      /\ failed \in BOOLEAN /\ mismatched \subseteq Workers
      /\ main \in {"join", "validate", "report"} \cup Verdict
  BY DEF Init
<1> QED BY <1>1, <1>2, <1>3 DEF TypeOK

\* Only a worker inside a call is ever among the overlapped ones.
LEMMA WorkerKeepsOverlapped ==
  ASSUME CallInv, overlapped \subseteq Callers, NEW w \in Workers, WorkerStep(w)
  PROVE  (overlapped \subseteq Callers)'
<1> USE DEF Callers, InCall
<1>1. CASE pc[w] \notin InCall /\ UNCHANGED overlapped
  <2>1. \A v \in Workers : pc[v] \in InCall => pc'[v] = pc[v]
    BY <1>1
    DEF WorkerStep, Arrive, EnterLoop, BeginUpdate, BeginFlush, BeginCall,
        EndUpdate, EndFlush, Count, Catch, Goto, CallInv
  <2> QED BY <1>1, <2>1
<1>2. CASE BeginUpdate(w) \/ BeginFlush(w)
  BY <1>2 DEF BeginUpdate, BeginFlush, BeginCall, Goto, CallInv
<1>3. CASE EndUpdate(w) \/ EndFlush(w)
  BY <1>3 DEF EndUpdate, EndFlush, Goto, CallInv
<1> QED
  BY <1>1, <1>2, <1>3
  DEF WorkerStep, Arrive, EnterLoop, Count, Catch

LEMMA WorkerKeepsType ==
  ASSUME TypeOK, CallInv, FrameInv, FrameInv', NEW w \in Workers, WorkerStep(w)
  PROVE  TypeOK'
<1>1. UNCHANGED <<setting, main, mismatched>>
  BY DEF WorkerStep, Arrive, EnterLoop, BeginUpdate, BeginFlush, BeginCall,
         EndUpdate, EndFlush, Count, Catch, observation
<1>2. pc' \in [Workers -> {"start", "gate", "loop", "frame", "flush", "count",
                         "done"} \cup InCall]
  BY WorkerKeepsCall DEF CallInv, WorkerLabels, InCall
<1>3. overlapped' \subseteq Callers'
  BY WorkerKeepsOverlapped DEF TypeOK
<1>4. texture' \in [Workers -> {Damaged, Blank} \cup 0 .. LastFrame]
  <2>1. CASE EndUpdate(w)
    <3>1. Frame(w) \in 0 .. LastFrame
      BY <2>1, IterationsAssumption
      DEF FrameInv, WorkerInv, EndUpdate, Frame, LastFrame
    <3> QED BY <2>1, <3>1 DEF EndUpdate, TypeOK
  <2>2. CASE EndFlush(w)
    BY <2>2 DEF EndFlush, TypeOK
  <2>3. CASE UNCHANGED texture
    BY <2>3 DEF TypeOK
  <2> QED
    BY <2>1, <2>2, <2>3
    DEF WorkerStep, Arrive, EnterLoop, BeginUpdate, BeginFlush, BeginCall,
        Count, Catch
<1>5. completed' \in 0 .. (DwordSize - 1)
  <2>1. CASE UNCHANGED completed
    BY <2>1 DEF TypeOK
  <2>2. CASE Count(w)
    BY <2>2, DwordSizeAssumption DEF Count, TypeOK
  <2> QED
    BY <2>1, <2>2
    DEF WorkerStep, Arrive, EnterLoop, BeginUpdate, BeginFlush, BeginCall,
        EndUpdate, EndFlush, Catch
<1> QED
  BY <1>1, <1>2, <1>3, <1>4, <1>5 DEF TypeOK, FrameInv

\* The types of the state, for any number of workers and any counter width.
THEOREM TypeCorrect == Spec => []TypeOK
<1>1. TypeOK /\ CallInv /\ FrameInv /\ FrameInv' /\ [Next]_vars => TypeOK'
  <2> SUFFICES ASSUME TypeOK, CallInv, FrameInv, FrameInv', [Next]_vars
               PROVE  TypeOK'
    OBVIOUS
  <2>1. CASE MainStep \/ UNCHANGED vars
    <3>1. UNCHANGED <<setting, pc, iteration, overlapped, texture, completed,
                      failed>>
      BY <2>1, MainLeavesWorkers
    <3>2. /\ main' \in {"join", "validate", "report"} \cup Verdict
          /\ mismatched' \subseteq Workers
      BY <2>1
      DEF TypeOK, MainStep, Join, Validate, CreateFails, Report, Verdict, vars
    <3> QED BY <3>1, <3>2 DEF TypeOK, Callers
  <2> QED BY <2>1, NextSteps, WorkerKeepsType
<1> QED BY InitType, CallSafe, FrameSafe, <1>1, PTL DEF Spec
=============================================================================
