-------------------------- MODULE TerraformProofs --------------------------
(***************************************************************************)
(* Proofs about the orchestration engine of Terraform.tla, for every value *)
(* of MaxOps and MaxSockets.                                               *)
(***************************************************************************)
EXTENDS Terraform, TLAPS

(* TypeOK is not inductive by itself: commandReturnWrapper decrements      *)
(* rpcLive.  It is when joined with the fact that while terraformWrapper's *)
(* own command is being started, waited for or returned from, the         *)
(* listener it spawned is counted in rpcLive.                             *)
RpcCounted ==
    (pc \in {"start", "wait", "c_ret"} /\ proc.cmd \in WrapCmds) => rpcLive >= 1

TypeInv == TypeOK /\ RpcCounted

(* The record sets stay opaque in the step proofs; these facts are all  *)
(* the proofs need of them.                                              *)
LEMMA NoChangesType == NoChanges \in Artifacts
  BY DEF NoChanges, Artifacts

LEMMA FreshProcType ==
  ASSUME NEW c \in Cmds
  PROVE  [cmd |-> c, running |-> FALSE, signalled |-> FALSE] \in Procs
  BY DEF Procs

LEMMA ProcUpdateType ==
  ASSUME NEW p \in Procs, NEW b \in BOOLEAN
  PROVE  /\ [p EXCEPT !.running = b] \in Procs
         /\ [p EXCEPT !.signalled = b] \in Procs
         /\ p.cmd \in Cmds
  BY DEF Procs

LEMMA InitTypeInv == Init => TypeInv
  <1> SUFFICES ASSUME Init PROVE TypeInv
    OBVIOUS
  <1>1. TypeFlags
    BY Zenon DEF Init, TypeFlags
  <1>2. TypeData
    BY OpsAssumption, SocketsAssumption, NoChangesType, FreshProcType
    DEF Init, TypeData, Cmds, PrepCmds, WrapCmds, PCs, Rets, Ops
  <1>3. RpcCounted
    BY DEF Init, RpcCounted
  <1>4. QED
    BY <1>1, <1>2, <1>3 DEF TypeInv, TypeOK

(* The Boolean flags are only ever set to TRUE, FALSE or another flag.   *)
LEMMA NextFlags == TypeInv /\ [Next]_vars => TypeFlags'
  <1> SUFFICES ASSUME TypeInv, [Next]_vars PROVE TypeFlags'
    OBVIOUS
  <1> USE DEF TypeInv, TypeOK, TypeFlags, vars, ctl, locals, session, env, ghost
  <1>1. CASE Apply
    BY <1>1, Zenon DEF Apply, BeginOp
  <1>2. CASE Plan
    BY <1>2, Zenon DEF Plan, BeginOp
  <1>3. CASE Destroy \/ ForceUnlock \/ Shell
    BY <1>3, Zenon DEF Destroy, ForceUnlock, Shell, Wrapped, BeginOp
  <1>4. CASE PrepareOp
    BY <1>4, Zenon DEF PrepareOp, BeginOp
  <1>5. CASE Cleanup
    BY <1>5, Zenon DEF Cleanup
  <1>6. CASE ResetTerraformWrapper
    BY <1>6, Zenon DEF ResetTerraformWrapper
  <1>7. CASE Cancel
    BY <1>7, Zenon DEF Cancel
  <1>8. CASE terraformWrapperEnter
    BY <1>8, Zenon DEF terraformWrapperEnter
  <1>9. CASE PrepareGenerate
    BY <1>9, Zenon DEF PrepareGenerate
  <1>10. CASE terraformWrapperRun
    BY <1>10, Zenon DEF terraformWrapperRun
  <1>11. CASE commandStart
    BY <1>11, Zenon DEF commandStart
  <1>12. CASE commandSignal
    BY <1>12, Zenon DEF commandSignal
  <1>13. CASE commandWait
    BY <1>13, Zenon DEF commandWait, ExitStatuses
  <1>14. CASE commandReturnPrepare
    BY <1>14, Zenon DEF commandReturnPrepare
  <1>15. CASE PrepareReturn
    BY <1>15, Zenon DEF PrepareReturn, Finish
  <1>16. CASE commandReturnWrapper
    BY <1>16, Zenon DEF commandReturnWrapper
  <1>17. CASE PlanStart
    BY <1>17, Zenon DEF PlanStart
  <1>18. CASE planWrapperReturn
    BY <1>18, Zenon DEF planWrapperReturn
  <1>19. CASE PlanPuppet
    BY <1>19, Zenon DEF PlanPuppet
  <1>20. CASE taintReturn
    BY <1>20, Zenon DEF taintReturn
  <1>21. CASE PlanGate
    BY <1>21, Zenon DEF PlanGate
  <1>22. CASE Prompt
    BY <1>22, Zenon DEF Prompt
  <1>23. CASE PlanReturn
    BY <1>23, Zenon DEF PlanReturn, Finish
  <1>24. CASE ApplyCheck
    BY <1>24, Zenon DEF ApplyCheck, Finish
  <1>25. CASE WrapperOpReturn
    BY <1>25, Zenon DEF WrapperOpReturn, Finish
  <1>26. CASE UNCHANGED vars
    BY <1>26, Zenon DEF vars
  <1>27. QED
    BY <1>1, <1>2, <1>3, <1>4, <1>5, <1>6, <1>7, <1>8, <1>9, <1>10,
       <1>11, <1>12, <1>13, <1>14, <1>15, <1>16, <1>17, <1>18, <1>19,
       <1>20, <1>21, <1>22, <1>23, <1>24, <1>25, <1>26
    DEF Next, EngineStep, Call

LEMMA NextData == TypeInv /\ [Next]_vars => (TypeData /\ RpcCounted)'
  <1> SUFFICES ASSUME TypeInv, [Next]_vars PROVE (TypeData /\ RpcCounted)'
    OBVIOUS
  <1> USE OpsAssumption, SocketsAssumption
  <1> USE DEF TypeInv, TypeOK, TypeData, RpcCounted, Cmds, PrepCmds, WrapCmds,
              PCs, Rets, Ops, vars, ctl, locals, session, env, ghost
  <1>1. CASE Apply
    <2>1. TypeData'
      BY <1>1 DEF Apply, BeginOp
    <2>2. RpcCounted'
      BY <1>1 DEF Apply, BeginOp
    <2>3. QED
      BY <2>1, <2>2
  <1>2. CASE Plan
    <2>1. TypeData'
      BY <1>2 DEF Plan, BeginOp
    <2>2. RpcCounted'
      BY <1>2 DEF Plan, BeginOp
    <2>3. QED
      BY <2>1, <2>2
  <1>3. CASE Destroy \/ ForceUnlock \/ Shell
    <2>1. TypeData'
      <3>1. CASE Destroy
        BY <3>1 DEF Destroy, Wrapped, BeginOp
      <3>2. CASE ForceUnlock
        BY <3>2 DEF ForceUnlock, Wrapped, BeginOp
      <3>3. CASE Shell
        BY <3>3 DEF Shell, Wrapped, BeginOp
      <3>4. QED
        BY <1>3, <3>1, <3>2, <3>3
    <2>2. RpcCounted'
      BY <1>3 DEF Destroy, ForceUnlock, Shell, Wrapped, BeginOp
    <2>3. QED
      BY <2>1, <2>2
  <1>4. CASE PrepareOp
    <2>1. TypeData'
      BY <1>4 DEF PrepareOp, BeginOp
    <2>2. RpcCounted'
      BY <1>4 DEF PrepareOp, BeginOp
    <2>3. QED
      BY <2>1, <2>2
  <1>5. CASE Cleanup
    <2>1. TypeData'
      <3>1. UNCHANGED <<op, pc, ret, wcmd, tfPlan, planFile, socketPath,
                        nextSock, rpcLive, proc, flags, ops, result, approved,
                        applied>>
        BY <1>5 DEF Cleanup
      <3>2. sockets' \subseteq sockets
        <4>1. \/ sockets' = sockets \ {socketPath}
              \/ sockets' = sockets
          BY <1>5, Zenon DEF Cleanup
        <4>2. QED
          BY <4>1
      <3>3. QED
        BY <3>1, <3>2
    <2>2. RpcCounted'
      BY <1>5 DEF Cleanup
    <2>3. QED
      BY <2>1, <2>2
  <1>6. CASE ResetTerraformWrapper
    <2>1. TypeData'
      BY <1>6 DEF ResetTerraformWrapper
    <2>2. RpcCounted'
      BY <1>6 DEF ResetTerraformWrapper
    <2>3. QED
      BY <2>1, <2>2
  <1>7. CASE Cancel
    <2>1. TypeData'
      BY <1>7 DEF Cancel
    <2>2. RpcCounted'
      BY <1>7 DEF Cancel
    <2>3. QED
      BY <2>1, <2>2
  <1>8. CASE terraformWrapperEnter
    <2>1. TypeData'
      <3>1. UNCHANGED <<op, wcmd, tfPlan, planFile, rpcLive, proc, flags, ops,
                        result, approved, applied>>
        BY <1>8 DEF terraformWrapperEnter
      <3>2. pc' \in PCs /\ ret' \in Rets
        BY <1>8, Zenon DEF terraformWrapperEnter
      <3>3. /\ socketPath' \in 0..MaxSockets
            /\ nextSock' \in 1..(MaxSockets + 1)
            /\ sockets' \subseteq 1..MaxSockets
        <4>1. \/ UNCHANGED <<socketPath, nextSock, sockets>>
              \/ /\ nextSock <= MaxSockets
                 /\ socketPath' = nextSock /\ nextSock' = nextSock + 1
                 /\ sockets' = sockets \cup {nextSock}
          BY <1>8, Zenon DEF terraformWrapperEnter
        <4>2. CASE UNCHANGED <<socketPath, nextSock, sockets>>
          BY <4>2
        <4>3. CASE /\ nextSock <= MaxSockets
                   /\ socketPath' = nextSock /\ nextSock' = nextSock + 1
                   /\ sockets' = sockets \cup {nextSock}
          BY <4>3
        <4>4. QED
          BY <4>1, <4>2, <4>3
      <3>4. QED
        BY <3>1, <3>2, <3>3
    <2>2. RpcCounted'
      BY <1>8 DEF terraformWrapperEnter
    <2>3. QED
      BY <2>1, <2>2
  <1>9. CASE PrepareGenerate
    <2>1. TypeData'
      BY <1>9, FreshProcType DEF PrepareGenerate
    <2>2. RpcCounted'
      BY <1>9 DEF PrepareGenerate
    <2>3. QED
      BY <2>1, <2>2
  <1>10. CASE terraformWrapperRun
    <2>1. TypeData'
      <3>1. UNCHANGED <<op, ret, wcmd, tfPlan, planFile, socketPath, nextSock,
                        sockets, flags, ops, result, approved, applied>>
        BY <1>10 DEF terraformWrapperRun
      <3>2. pc' \in PCs /\ rpcLive' \in Nat
        BY <1>10 DEF terraformWrapperRun
      <3>3. proc' \in Procs
        <4>1. wcmd \in Cmds
          OBVIOUS
        <4>2. QED
          BY <1>10, <4>1, FreshProcType DEF terraformWrapperRun
      <3>4. QED
        BY <3>1, <3>2, <3>3
    <2>2. RpcCounted'
      BY <1>10 DEF terraformWrapperRun
    <2>3. QED
      BY <2>1, <2>2
  <1>11. CASE commandStart
    <2>1. TypeData'
      BY <1>11, ProcUpdateType DEF commandStart
    <2>2. RpcCounted'
      BY <1>11 DEF commandStart, Procs
    <2>3. QED
      BY <2>1, <2>2
  <1>12. CASE commandSignal
    <2>1. TypeData'
      BY <1>12, ProcUpdateType DEF commandSignal
    <2>2. RpcCounted'
      BY <1>12 DEF commandSignal
    <2>3. QED
      BY <2>1, <2>2
  <1>13. CASE commandWait
    <2>1. TypeData'
      BY <1>13, ProcUpdateType, NoChangesType DEF commandWait, ExitStatuses
    <2>2. RpcCounted'
      BY <1>13 DEF commandWait, ExitStatuses
    <2>3. QED
      BY <2>1, <2>2
  <1>14. CASE commandReturnPrepare
    <2>1. TypeData'
      BY <1>14, FreshProcType DEF commandReturnPrepare
    <2>2. RpcCounted'
      BY <1>14 DEF commandReturnPrepare
    <2>3. QED
      BY <2>1, <2>2
  <1>15. CASE PrepareReturn
    <2>1. TypeData'
      BY <1>15 DEF PrepareReturn, Finish
    <2>2. RpcCounted'
      BY <1>15 DEF PrepareReturn, Finish
    <2>3. QED
      BY <2>1, <2>2
  <1>16. CASE commandReturnWrapper
    <2>1. TypeData'
      BY <1>16 DEF commandReturnWrapper
    <2>2. RpcCounted'
      BY <1>16 DEF commandReturnWrapper
    <2>3. QED
      BY <2>1, <2>2
  <1>17. CASE PlanStart
    <2>1. TypeData'
      BY <1>17 DEF PlanStart
    <2>2. RpcCounted'
      BY <1>17 DEF PlanStart
    <2>3. QED
      BY <2>1, <2>2
  <1>18. CASE planWrapperReturn
    <2>1. TypeData'
      BY <1>18 DEF planWrapperReturn
    <2>2. RpcCounted'
      BY <1>18 DEF planWrapperReturn
    <2>3. QED
      BY <2>1, <2>2
  <1>19. CASE PlanPuppet
    <2>1. TypeData'
      BY <1>19 DEF PlanPuppet
    <2>2. RpcCounted'
      BY <1>19 DEF PlanPuppet
    <2>3. QED
      BY <2>1, <2>2
  <1>20. CASE taintReturn
    <2>1. TypeData'
      BY <1>20 DEF taintReturn
    <2>2. RpcCounted'
      BY <1>20 DEF taintReturn
    <2>3. QED
      BY <2>1, <2>2
  <1>21. CASE PlanGate
    <2>1. TypeData'
      BY <1>21 DEF PlanGate
    <2>2. RpcCounted'
      BY <1>21 DEF PlanGate
    <2>3. QED
      BY <2>1, <2>2
  <1>22. CASE Prompt
    <2>1. TypeData'
      BY <1>22 DEF Prompt
    <2>2. RpcCounted'
      BY <1>22 DEF Prompt
    <2>3. QED
      BY <2>1, <2>2
  <1>23. CASE PlanReturn
    <2>1. TypeData'
      BY <1>23 DEF PlanReturn, Finish
    <2>2. RpcCounted'
      BY <1>23 DEF PlanReturn, Finish
    <2>3. QED
      BY <2>1, <2>2
  <1>24. CASE ApplyCheck
    <2>1. TypeData'
      BY <1>24 DEF ApplyCheck, Finish
    <2>2. RpcCounted'
      BY <1>24 DEF ApplyCheck, Finish
    <2>3. QED
      BY <2>1, <2>2
  <1>25. CASE WrapperOpReturn
    <2>1. TypeData'
      BY <1>25 DEF WrapperOpReturn, Finish
    <2>2. RpcCounted'
      BY <1>25 DEF WrapperOpReturn, Finish
    <2>3. QED
      BY <2>1, <2>2
  <1>26. CASE UNCHANGED vars
    <2>1. TypeData'
      BY <1>26 DEF vars
    <2>2. RpcCounted'
      BY <1>26 DEF vars
    <2>3. QED
      BY <2>1, <2>2
  <1>27. QED
    BY <1>1, <1>2, <1>3, <1>4, <1>5, <1>6, <1>7, <1>8, <1>9, <1>10,
       <1>11, <1>12, <1>13, <1>14, <1>15, <1>16, <1>17, <1>18, <1>19,
       <1>20, <1>21, <1>22, <1>23, <1>24, <1>25, <1>26
    DEF Next, EngineStep, Call

LEMMA NextTypeInv == TypeInv /\ [Next]_vars => TypeInv'
  BY NextFlags, NextData DEF TypeInv, TypeOK

(* Type correctness: in every reachable state of the engine each variable *)
(* has its type; in particular rpcLive never goes below zero.              *)
THEOREM TypeCorrect == Spec => []TypeOK
  <1>1. Init => TypeInv
    BY InitTypeInv
  <1>2. TypeInv /\ [Next]_vars => TypeInv'
    BY NextTypeInv
  <1>3. TypeInv => TypeOK
    BY DEF TypeInv
  <1>4. QED
    BY <1>1, <1>2, <1>3, PTL DEF Spec
-----------------------------------------------------------------------------
(* The destructive-change gate.  A plan file is gated when it destroys no *)
(* EBS volume or the gate of this operation passed it.                    *)
Gated(a) == a.volumes => a \in approved

\* The pcs of a terraformWrapper call, Prepare included, and of t.command.
WrapperPCs == {"w_enter", "p_gen", "start", "wait", "c_ret", "p_ret",
               "w_run", "ret"}
CmdPCs == {"start", "wait", "c_ret"}

(* Where the engine is in each operation: a direct Prepare never leaves  *)
(* Prepare; t.command runs a setup command or the wrapper's own one; the *)
(* wrapped command is apply only inside Apply, after its check.           *)
PhaseInv ==
    /\ (op = "idle") = (pc = "idle")
    /\ op = "prepare" => /\ pc \in {"p_gen", "p_ret"} \cup CmdPCs
                         /\ pc \in CmdPCs => proc.cmd \in PrepCmds
    /\ pc \in CmdPCs => proc.cmd \in PrepCmds \cup {wcmd}
    /\ (wcmd = "apply" /\ pc \in WrapperPCs) => op \in {"apply", "prepare"}
    /\ pc = "ap_check" => op = "apply"

(* What the gate knows: from the plan's read to the gate the parsed plan  *)
(* is the plan file on disk; after a successful gate, through Apply's     *)
(* check and its terraformWrapper("apply"), the plan file is gated and    *)
(* the check passed without cancellation.                                 *)
ApplyPhase == op = "apply" /\ wcmd = "apply" /\ pc \in WrapperPCs

GateInv ==
    /\ pc \in {"pl_puppet", "pl_gate", "prompt"} => tfPlan = planFile
    /\ ((pc = "pl_ret" /\ ret = "ok") \/ pc = "ap_check" \/ ApplyPhase)
         => Gated(planFile)
    /\ ApplyPhase => gatePassed
    /\ \A a \in applied : Gated(a)
    /\ applied # {} => gatePassed
    /\ gatePassed => ~doomed
    /\ doomed => cancelled

SafetyInv == TypeInv /\ PhaseInv /\ GateInv

LEMMA NextPhase == SafetyInv /\ [Next]_vars => PhaseInv'
  <1> SUFFICES ASSUME SafetyInv, [Next]_vars PROVE PhaseInv'
    OBVIOUS
  <1> USE DEF SafetyInv, TypeInv, TypeOK, TypeData, TypeFlags, RpcCounted,
              vars, ctl, locals, session, env, ghost
  <1>1. CASE Apply
    BY <1>1 DEF PhaseInv, WrapperPCs, CmdPCs, PrepCmds, WrapCmds, Cmds, Apply, BeginOp
  <1>2. CASE Plan
    BY <1>2 DEF PhaseInv, WrapperPCs, CmdPCs, PrepCmds, WrapCmds, Cmds, Plan, BeginOp
  <1>3. CASE Destroy \/ ForceUnlock \/ Shell
    BY <1>3 DEF PhaseInv, WrapperPCs, CmdPCs, PrepCmds, WrapCmds, Cmds, Destroy, ForceUnlock, Shell, Wrapped, BeginOp
  <1>4. CASE PrepareOp
    BY <1>4 DEF PhaseInv, WrapperPCs, CmdPCs, PrepCmds, WrapCmds, Cmds, PrepareOp, BeginOp
  <1>5. CASE Cleanup
    BY <1>5 DEF PhaseInv, WrapperPCs, CmdPCs, PrepCmds, WrapCmds, Cmds, Cleanup
  <1>6. CASE ResetTerraformWrapper
    BY <1>6 DEF PhaseInv, WrapperPCs, CmdPCs, PrepCmds, WrapCmds, Cmds, ResetTerraformWrapper
  <1>7. CASE Cancel
    BY <1>7 DEF PhaseInv, WrapperPCs, CmdPCs, PrepCmds, WrapCmds, Cmds, Cancel
  <1>8. CASE terraformWrapperEnter
    BY <1>8 DEF PhaseInv, WrapperPCs, CmdPCs, PrepCmds, WrapCmds, Cmds, terraformWrapperEnter
  <1>9. CASE PrepareGenerate
    BY <1>9 DEF PhaseInv, WrapperPCs, CmdPCs, PrepCmds, WrapCmds, Cmds, PrepareGenerate
  <1>10. CASE terraformWrapperRun
    BY <1>10 DEF PhaseInv, WrapperPCs, CmdPCs, PrepCmds, WrapCmds, Cmds, terraformWrapperRun
  <1>11. CASE commandStart
    BY <1>11 DEF PhaseInv, WrapperPCs, CmdPCs, PrepCmds, WrapCmds, Cmds, commandStart,
                 Procs
  <1>12. CASE commandSignal
    BY <1>12 DEF PhaseInv, WrapperPCs, CmdPCs, PrepCmds, WrapCmds, Cmds, commandSignal
  <1>13. CASE commandWait
    BY <1>13 DEF PhaseInv, WrapperPCs, CmdPCs, PrepCmds, WrapCmds, Cmds, commandWait, ExitStatuses
  <1>14. CASE commandReturnPrepare
    BY <1>14 DEF PhaseInv, WrapperPCs, CmdPCs, PrepCmds, WrapCmds, Cmds, commandReturnPrepare
  <1>15. CASE PrepareReturn
    BY <1>15 DEF PhaseInv, WrapperPCs, CmdPCs, PrepCmds, WrapCmds, Cmds, PrepareReturn, Finish
  <1>16. CASE commandReturnWrapper
    BY <1>16 DEF PhaseInv, WrapperPCs, CmdPCs, PrepCmds, WrapCmds, Cmds, commandReturnWrapper
  <1>17. CASE PlanStart
    BY <1>17 DEF PhaseInv, WrapperPCs, CmdPCs, PrepCmds, WrapCmds, Cmds, PlanStart
  <1>18. CASE planWrapperReturn
    BY <1>18 DEF PhaseInv, WrapperPCs, CmdPCs, PrepCmds, WrapCmds, Cmds, planWrapperReturn
  <1>19. CASE PlanPuppet
    BY <1>19 DEF PhaseInv, WrapperPCs, CmdPCs, PrepCmds, WrapCmds, Cmds, PlanPuppet
  <1>20. CASE taintReturn
    BY <1>20 DEF PhaseInv, WrapperPCs, CmdPCs, PrepCmds, WrapCmds, Cmds, taintReturn
  <1>21. CASE PlanGate
    BY <1>21 DEF PhaseInv, WrapperPCs, CmdPCs, PrepCmds, WrapCmds, Cmds, PlanGate
  <1>22. CASE Prompt
    BY <1>22 DEF PhaseInv, WrapperPCs, CmdPCs, PrepCmds, WrapCmds, Cmds, Prompt
  <1>23. CASE PlanReturn
    BY <1>23 DEF PhaseInv, WrapperPCs, CmdPCs, PrepCmds, WrapCmds, Cmds, PlanReturn, Finish
  <1>24. CASE ApplyCheck
    BY <1>24 DEF PhaseInv, WrapperPCs, CmdPCs, PrepCmds, WrapCmds, Cmds, ApplyCheck, Finish
  <1>25. CASE WrapperOpReturn
    BY <1>25 DEF PhaseInv, WrapperPCs, CmdPCs, PrepCmds, WrapCmds, Cmds, WrapperOpReturn, Finish
  <1>26. CASE UNCHANGED vars
    BY <1>26 DEF PhaseInv, WrapperPCs, CmdPCs, PrepCmds, WrapCmds, Cmds
  <1>27. QED
    BY <1>1, <1>2, <1>3, <1>4, <1>5, <1>6, <1>7, <1>8, <1>9, <1>10, <1>11, <1>12, <1>13, <1>14, <1>15, <1>16, <1>17, <1>18, <1>19, <1>20, <1>21, <1>22, <1>23, <1>24, <1>25, <1>26
    DEF Next, EngineStep, Call

LEMMA NextGate == SafetyInv /\ [Next]_vars => GateInv'
  <1> SUFFICES ASSUME SafetyInv, [Next]_vars PROVE GateInv'
    OBVIOUS
  <1> USE DEF SafetyInv, TypeInv, TypeOK, TypeData, TypeFlags, RpcCounted,
              vars, ctl, locals, session, env, ghost
  <1>1. CASE Apply
    BY <1>1 DEF GateInv, PhaseInv, ApplyPhase, Gated, WrapperPCs, CmdPCs, PrepCmds, WrapCmds, Cmds, Apply, BeginOp
  <1>2. CASE Plan
    BY <1>2 DEF GateInv, PhaseInv, ApplyPhase, Gated, WrapperPCs, CmdPCs, PrepCmds, WrapCmds, Cmds, Plan, BeginOp
  <1>3. CASE Destroy \/ ForceUnlock \/ Shell
    BY <1>3 DEF GateInv, PhaseInv, ApplyPhase, Gated, WrapperPCs, CmdPCs, PrepCmds, WrapCmds, Cmds, Destroy, ForceUnlock, Shell, Wrapped, BeginOp
  <1>4. CASE PrepareOp
    BY <1>4 DEF GateInv, PhaseInv, ApplyPhase, Gated, WrapperPCs, CmdPCs, PrepCmds, WrapCmds, Cmds, PrepareOp, BeginOp
  <1>5. CASE Cleanup
    BY <1>5 DEF GateInv, PhaseInv, ApplyPhase, Gated, WrapperPCs, CmdPCs, PrepCmds, WrapCmds, Cmds, Cleanup
  <1>6. CASE ResetTerraformWrapper
    BY <1>6 DEF GateInv, PhaseInv, ApplyPhase, Gated, WrapperPCs, CmdPCs, PrepCmds, WrapCmds, Cmds, ResetTerraformWrapper
  <1>7. CASE Cancel
    BY <1>7 DEF GateInv, PhaseInv, ApplyPhase, Gated, WrapperPCs, CmdPCs, PrepCmds, WrapCmds, Cmds, Cancel
  <1>8. CASE terraformWrapperEnter
    BY <1>8 DEF GateInv, PhaseInv, ApplyPhase, Gated, WrapperPCs, CmdPCs, PrepCmds, WrapCmds, Cmds, terraformWrapperEnter
  <1>9. CASE PrepareGenerate
    BY <1>9 DEF GateInv, PhaseInv, ApplyPhase, Gated, WrapperPCs, CmdPCs, PrepCmds, WrapCmds, Cmds, PrepareGenerate
  <1>10. CASE terraformWrapperRun
    BY <1>10 DEF GateInv, PhaseInv, ApplyPhase, Gated, WrapperPCs, CmdPCs, PrepCmds, WrapCmds, Cmds, terraformWrapperRun
  <1>11. CASE commandStart
    BY <1>11 DEF GateInv, PhaseInv, ApplyPhase, Gated, WrapperPCs, CmdPCs, PrepCmds, WrapCmds, Cmds, commandStart
  <1>12. CASE commandSignal
    BY <1>12 DEF GateInv, PhaseInv, ApplyPhase, Gated, WrapperPCs, CmdPCs, PrepCmds, WrapCmds, Cmds, commandSignal
  <1>13. CASE commandWait
    BY <1>13 DEF GateInv, PhaseInv, ApplyPhase, Gated, WrapperPCs, CmdPCs, PrepCmds, WrapCmds, Cmds, commandWait, ExitStatuses
  <1>14. CASE commandReturnPrepare
    BY <1>14 DEF GateInv, PhaseInv, ApplyPhase, Gated, WrapperPCs, CmdPCs, PrepCmds, WrapCmds, Cmds, commandReturnPrepare
  <1>15. CASE PrepareReturn
    BY <1>15 DEF GateInv, PhaseInv, ApplyPhase, Gated, WrapperPCs, CmdPCs, PrepCmds, WrapCmds, Cmds, PrepareReturn, Finish
  <1>16. CASE commandReturnWrapper
    BY <1>16 DEF GateInv, PhaseInv, ApplyPhase, Gated, WrapperPCs, CmdPCs, PrepCmds, WrapCmds, Cmds, commandReturnWrapper
  <1>17. CASE PlanStart
    BY <1>17 DEF GateInv, PhaseInv, ApplyPhase, Gated, WrapperPCs, CmdPCs, PrepCmds, WrapCmds, Cmds, PlanStart
  <1>18. CASE planWrapperReturn
    BY <1>18 DEF GateInv, PhaseInv, ApplyPhase, Gated, WrapperPCs, CmdPCs, PrepCmds, WrapCmds, Cmds, planWrapperReturn
  <1>19. CASE PlanPuppet
    BY <1>19 DEF GateInv, PhaseInv, ApplyPhase, Gated, WrapperPCs, CmdPCs, PrepCmds, WrapCmds, Cmds, PlanPuppet
  <1>20. CASE taintReturn
    BY <1>20 DEF GateInv, PhaseInv, ApplyPhase, Gated, WrapperPCs, CmdPCs, PrepCmds, WrapCmds, Cmds, taintReturn
  <1>21. CASE PlanGate
    BY <1>21 DEF GateInv, PhaseInv, ApplyPhase, Gated, WrapperPCs, CmdPCs, PrepCmds, WrapCmds, Cmds, PlanGate
  <1>22. CASE Prompt
    BY <1>22 DEF GateInv, PhaseInv, ApplyPhase, Gated, WrapperPCs, CmdPCs, PrepCmds, WrapCmds, Cmds, Prompt
  <1>23. CASE PlanReturn
    BY <1>23 DEF GateInv, PhaseInv, ApplyPhase, Gated, WrapperPCs, CmdPCs, PrepCmds, WrapCmds, Cmds, PlanReturn, Finish
  <1>24. CASE ApplyCheck
    BY <1>24 DEF GateInv, PhaseInv, ApplyPhase, Gated, WrapperPCs, CmdPCs, PrepCmds, WrapCmds, Cmds, ApplyCheck, Finish
  <1>25. CASE WrapperOpReturn
    BY <1>25 DEF GateInv, PhaseInv, ApplyPhase, Gated, WrapperPCs, CmdPCs, PrepCmds, WrapCmds, Cmds, WrapperOpReturn, Finish
  <1>26. CASE UNCHANGED vars
    BY <1>26 DEF GateInv, PhaseInv, ApplyPhase, Gated, WrapperPCs, CmdPCs, PrepCmds, WrapCmds, Cmds
  <1>27. QED
    BY <1>1, <1>2, <1>3, <1>4, <1>5, <1>6, <1>7, <1>8, <1>9, <1>10, <1>11, <1>12, <1>13, <1>14, <1>15, <1>16, <1>17, <1>18, <1>19, <1>20, <1>21, <1>22, <1>23, <1>24, <1>25, <1>26
    DEF Next, EngineStep, Call

LEMMA InitSafety == Init => SafetyInv
  <1> SUFFICES ASSUME Init PROVE SafetyInv
    OBVIOUS
  <1>1. TypeInv
    BY InitTypeInv
  <1>2. PhaseInv
    BY DEF Init, PhaseInv, WrapperPCs, CmdPCs
  <1>3. GateInv
    BY DEF Init, GateInv, ApplyPhase, WrapperPCs
  <1>4. QED
    BY <1>1, <1>2, <1>3 DEF SafetyInv

LEMMA SpecSafety == Spec => []SafetyInv
  <1>1. SafetyInv /\ [Next]_vars => SafetyInv'
    BY NextTypeInv, NextPhase, NextGate DEF SafetyInv
  <1>2. QED
    BY <1>1, InitSafety, PTL DEF Spec

(* For all MaxOps and MaxSockets: every plan file an apply subprocess is  *)
(* started on, if it destroys an EBS volume, was passed by the gate of    *)
(* this Apply (both auto-approve flags, or the user's yes), whatever the  *)
(* taint and re-plan and the Prepare that ran between the gate and the    *)
(* apply.                                                                  *)
THEOREM GatedApplyHolds == Spec => []GatedApply
  <1>1. SafetyInv => GatedApply
    BY DEF SafetyInv, GateInv, Gated, GatedApply
  <1>2. QED
    BY <1>1, SpecSafety, PTL

(* For all bounds: if the CancellationContext fired before Apply's `break *)
(* after sigterm` check passed, no apply subprocess was started.          *)
THEOREM NoApplyAfterCancelHolds == Spec => []NoApplyAfterCancel
  <1>1. SafetyInv => NoApplyAfterCancel
    BY DEF SafetyInv, GateInv, NoApplyAfterCancel
  <1>2. QED
    BY <1>1, SpecSafety, PTL
=============================================================================
