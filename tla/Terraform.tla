----------------------------- MODULE Terraform -----------------------------
(***************************************************************************)
(* The orchestration engine of pkg/terraform/terraform.go: the Terraform  *)
(* struct and its public operations Prepare, Plan, Apply, Destroy,        *)
(* ForceUnlock, Shell, Cleanup and ResetTerraformWrapper.                  *)
(*                                                                         *)
(* The engine is one goroutine whose calls nest (Apply -> Plan ->          *)
(* planWrapper -> terraformWrapper -> Prepare -> command).  The nesting is *)
(* flattened into a program counter pc; each action is the code between   *)
(* two points where another actor can act.  A callee leaves its return    *)
(* value in ret and the caller's continuation is the next action.  The    *)
(* other actors are the terraform subprocess (it exits when it likes),    *)
(* the user answering the yes/no prompt, and the process-wide             *)
(* CancellationContext, which fires at most once at any time.             *)
(*                                                                         *)
(* A plan artifact is abstracted to the two facts plan.Plan exposes:      *)
(* UpdatingPuppet (stale) and IsDestroyingEBSVolume (volumes).            *)
(***************************************************************************)
EXTENDS Naturals

CONSTANTS
    MaxOps,      \* number of public operations a behaviour calls
    MaxSockets   \* number of socket files ioutil.TempFile may create

ASSUME OpsAssumption == MaxOps \in Nat
ASSUME SocketsAssumption == MaxSockets \in Nat

Artifacts == [stale : BOOLEAN, volumes : BOOLEAN]
\* The artifact of a plan that exits 0: it changes nothing, so it neither
\* updates the puppet object nor destroys a volume.
NoChanges == [stale |-> FALSE, volumes |-> FALSE]

\* The terraform commands terraformWrapper runs, and those Prepare runs.
WrapCmds == {"plan", "taint", "apply", "destroy", "force-unlock", "shell"}
PrepCmds == {"init", "validate"}
Cmds == WrapCmds \cup PrepCmds

Ops == {"apply", "plan", "destroy", "force-unlock", "shell", "prepare"}
PCs == {"idle", "w_enter", "p_gen", "start", "wait", "c_ret", "p_ret",
        "w_run", "ret", "pl_start", "pl_puppet", "pl_gate", "prompt",
        "pl_ret", "ap_check"}
\* ret: nil, an *exec.ExitError with status 2, another error, or ctx.Err()
Rets == {"ok", "exit2", "err", "cancelErr"}

VARIABLES
    op,            \* the public operation in progress, or "idle"
    pc,            \* where the engine goroutine is
    ret,           \* the value the last callee returned
    preApply,      \* Plan's argument
    second,        \* planWrapper is the re-plan after the taint
    wcmd,          \* the command argument of terraformWrapper
    changesNeeded, \* Plan's result variable
    tfPlan,        \* Plan's parsed *plan.Plan
    planFile,      \* the plan file on disk that apply uses
    prepared,      \* Terraform.prepared
    socketPath,    \* Terraform.socketPath; 0 is ""
    nextSock,      \* the name the next TempFile call creates
    sockets,       \* socket files on disk created by the engine
    rpcLive,       \* rpc.ListenUnixSocket goroutines not yet returned
    proc,          \* the subprocess of t.command
    cancelled,     \* the CancellationContext's Done channel is closed
    flags,         \* the ClusterFlags the run was started with
    ops,           \* public operations called so far
    result,        \* what the last public operation returned
    approved,      \* ghost: plans the destructive-change gate let pass
    applied,       \* ghost: plan files an apply subprocess was started on
    doomed,        \* ghost: cancellation fired before Apply's check passed
    gatePassed,    \* ghost: Apply passed its cancellation check
    sigInOp        \* ghost: a subprocess of this operation was signalled

ctl == <<op, pc, ret>>
locals == <<preApply, second, wcmd, changesNeeded, tfPlan>>
session == <<prepared, socketPath, nextSock, sockets>>
env == <<planFile, proc, cancelled, rpcLive, flags, ops, result>>
ghost == <<approved, applied, doomed, gatePassed, sigInOp>>
vars == <<ctl, locals, session, env, ghost>>

Flags == [autoApprove : BOOLEAN, autoApproveDeletingData : BOOLEAN,
          customPlanFile : BOOLEAN]
Procs == [cmd : Cmds, running : BOOLEAN, signalled : BOOLEAN]

(* Type invariant: every variable of the engine stays within its domain, *)
(* split into the Boolean flags and the remaining data.                  *)
TypeFlags ==
    /\ preApply \in BOOLEAN
    /\ second \in BOOLEAN
    /\ changesNeeded \in BOOLEAN
    /\ prepared \in BOOLEAN
    /\ cancelled \in BOOLEAN
    /\ doomed \in BOOLEAN
    /\ gatePassed \in BOOLEAN
    /\ sigInOp \in BOOLEAN

TypeData ==
    /\ op \in Ops \cup {"idle"}
    /\ pc \in PCs
    /\ ret \in Rets
    /\ wcmd \in WrapCmds
    /\ tfPlan \in Artifacts
    /\ planFile \in Artifacts
    /\ socketPath \in 0..MaxSockets
    /\ nextSock \in 1..(MaxSockets + 1)
    /\ sockets \subseteq 1..MaxSockets
    /\ rpcLive \in Nat
    /\ proc \in Procs
    /\ flags \in Flags
    /\ ops \in 0..MaxOps
    /\ result \in {"none", "ok", "err", "cancelErr"}
    /\ approved \subseteq Artifacts
    /\ applied \subseteq Artifacts

TypeOK == TypeFlags /\ TypeData

(* New: no socket, not prepared.  The plan file at the apply location may *)
(* be left from an earlier run or be the user's custom file: any artifact. *)
Init ==
    /\ op = "idle" /\ pc = "idle" /\ ret = "ok"
    /\ preApply = FALSE /\ second = FALSE /\ wcmd = "plan"
    /\ changesNeeded = FALSE /\ tfPlan = NoChanges
    /\ planFile \in Artifacts
    /\ prepared = FALSE /\ socketPath = 0 /\ nextSock = 1 /\ sockets = {}
    /\ rpcLive = 0
    /\ proc = [cmd |-> "init", running |-> FALSE, signalled |-> FALSE]
    /\ cancelled = FALSE
    /\ flags \in Flags
    /\ ops = 0 /\ result = "none"
    /\ approved = {} /\ applied = {} /\ doomed = FALSE
    /\ gatePassed = FALSE /\ sigInOp = FALSE

-----------------------------------------------------------------------------
(* Calling a public operation: the ghosts describe this operation only.    *)
BeginOp(o, p) ==
    /\ op = "idle" /\ ops < MaxOps
    /\ op' = o /\ pc' = p /\ ops' = ops + 1 /\ result' = "none"
    /\ approved' = {} /\ applied' = {} /\ doomed' = cancelled
    /\ gatePassed' = FALSE /\ sigInOp' = FALSE

\* A public operation returns r to its caller.
Finish(r) ==
    /\ op' = "idle" /\ pc' = "idle"
    /\ result' = IF r = "exit2" THEN "err" ELSE r

\* Apply calls Plan(cluster, true); Plan(cluster, false) is `cluster plan`.
Apply ==
    /\ BeginOp("apply", "pl_start")
    /\ preApply' = TRUE
    /\ UNCHANGED <<ret, second, wcmd, changesNeeded, tfPlan, session>>
    /\ UNCHANGED <<planFile, proc, cancelled, rpcLive, flags>>

Plan ==
    /\ BeginOp("plan", "pl_start")
    /\ preApply' = FALSE
    /\ UNCHANGED <<ret, second, wcmd, changesNeeded, tfPlan, session>>
    /\ UNCHANGED <<planFile, proc, cancelled, rpcLive, flags>>

\* Destroy, ForceUnlock and Shell each call terraformWrapper once.
Wrapped(o, c) ==
    /\ BeginOp(o, "w_enter")
    /\ wcmd' = c
    /\ UNCHANGED <<ret, preApply, second, changesNeeded, tfPlan, session>>
    /\ UNCHANGED <<planFile, proc, cancelled, rpcLive, flags>>

Destroy == Wrapped("destroy", "destroy")
ForceUnlock == Wrapped("force-unlock", "force-unlock")
Shell == Wrapped("shell", "shell")

\* Prepare called directly; it does not set prepared.
PrepareOp ==
    /\ BeginOp("prepare", "p_gen")
    /\ UNCHANGED <<ret, locals, session>>
    /\ UNCHANGED <<planFile, proc, cancelled, rpcLive, flags>>

\* Cleanup removes the socket file, if any; os.RemoveAll may fail.
Cleanup ==
    /\ op = "idle"
    /\ socketPath # 0
    /\ \/ sockets' = sockets \ {socketPath}
       \/ UNCHANGED sockets
    /\ UNCHANGED <<ctl, locals, prepared, socketPath, nextSock, env, ghost>>

ResetTerraformWrapper ==
    /\ op = "idle"
    /\ socketPath' = 0 /\ prepared' = FALSE
    /\ UNCHANGED <<ctl, locals, nextSock, sockets, env, ghost>>

\* The CancellationContext fires (a signal reached tarmak).
Cancel ==
    /\ ~cancelled
    /\ cancelled' = TRUE
    /\ doomed' = (doomed \/ ~gatePassed)
    /\ UNCHANGED <<ctl, locals, session, planFile, proc, rpcLive, flags>>
    /\ UNCHANGED <<ops, result, approved, applied, gatePassed, sigInOp>>
-----------------------------------------------------------------------------
(* terraformWrapper: create the socket file on first use, then Prepare     *)
(* unless prepared.                                                         *)
terraformWrapperEnter ==
    /\ pc = "w_enter"
    /\ \/ /\ socketPath = 0                    \* TempFile fails
          /\ ret' = "err" /\ pc' = "ret"
          /\ UNCHANGED <<socketPath, nextSock, sockets>>
       \/ /\ socketPath = 0 /\ nextSock <= MaxSockets
          /\ socketPath' = nextSock /\ nextSock' = nextSock + 1
          /\ sockets' = sockets \cup {nextSock}
          /\ pc' = IF prepared THEN "w_run" ELSE "p_gen"
          /\ UNCHANGED ret
       \/ /\ socketPath # 0
          /\ pc' = IF prepared THEN "w_run" ELSE "p_gen"
          /\ UNCHANGED <<ret, socketPath, nextSock, sockets>>
    /\ UNCHANGED <<op, locals, prepared, env, ghost>>

(* Prepare up to `terraform init`: checkDone, GenerateCode, checkDone,     *)
(* preparePlugins, checkDone.                                               *)
PrepareGenerate ==
    /\ pc = "p_gen"
    /\ \/ cancelled /\ ret' = "cancelErr" /\ pc' = "p_ret" /\ UNCHANGED proc
       \/ ~cancelled /\ ret' = "err" /\ pc' = "p_ret" /\ UNCHANGED proc
       \/ /\ ~cancelled /\ pc' = "start" /\ UNCHANGED ret
          /\ proc' = [cmd |-> "init", running |-> FALSE, signalled |-> FALSE]
    /\ UNCHANGED <<op, locals, session, planFile, cancelled, rpcLive, flags>>
    /\ UNCHANGED <<ops, result, ghost>>

(* The terraformWrapper call spawns the rpc.ListenUnixSocket goroutine and  *)
(* then runs the command through t.command, or the debug shell.             *)
terraformWrapperRun ==
    /\ pc = "w_run"
    /\ rpcLive' = rpcLive + 1
    /\ proc' = [cmd |-> wcmd, running |-> FALSE, signalled |-> FALSE]
    /\ pc' = "start"
    /\ UNCHANGED <<op, ret, locals, session, planFile, cancelled, flags>>
    /\ UNCHANGED <<ops, result, ghost>>

(* t.command up to cmd.Start: envVars, osext.Executable, the pipes and     *)
(* Start can each fail.  For the debug shell, envVars can fail and the     *)
(* error of cmd.Run is ignored.                                             *)
commandStart ==
    /\ pc = "start"
    /\ \/ /\ ret' = "err" /\ pc' = "c_ret"
          /\ UNCHANGED <<proc, applied>>
       \/ /\ proc.cmd = "shell" /\ ret' = "ok" /\ pc' = "c_ret"
          /\ UNCHANGED <<proc, applied>>
       \/ /\ proc' = [proc EXCEPT !.running = TRUE] /\ pc' = "wait"
          /\ applied' = IF proc.cmd = "apply" THEN applied \cup {planFile}
                                              ELSE applied
          /\ UNCHANGED ret
    /\ UNCHANGED <<op, locals, session, planFile, cancelled, rpcLive, flags>>
    /\ UNCHANGED <<ops, result, approved, doomed, gatePassed, sigInOp>>

\* Mutant: the select of t.command does not watch the Done channel.
commandSignalIgnored ==
    /\ pc = "wait" /\ proc.running /\ ~proc.signalled
    /\ cancelled /\ proc.cmd # "shell"
    /\ UNCHANGED vars

(* The select of t.command takes the Done branch and forwards the signal  *)
(* to the process group.  exec.Command(shell).Run is not cancellable.      *)
commandSignal ==
    /\ pc = "wait" /\ proc.running /\ ~proc.signalled
    /\ cancelled /\ proc.cmd # "shell"
    /\ proc' = [proc EXCEPT !.signalled = TRUE]
    /\ sigInOp' = TRUE
    /\ UNCHANGED <<ctl, locals, session, planFile, cancelled, rpcLive, flags>>
    /\ UNCHANGED <<ops, result, approved, applied, doomed, gatePassed>>

\* The exit statuses of each command; plan runs with -detailed-exitcode.
ExitStatuses(c) == IF c = "plan" THEN {"ok", "exit2", "err"} ELSE {"ok", "err"}

(* The subprocess exits and cmd.Wait returns to t.command.  A plan writes  *)
(* its -out file unless it fails.  A signalled process may still exit     *)
(* with any status.                                                        *)
commandWait ==
    /\ pc = "wait" /\ proc.running
    /\ \E s \in ExitStatuses(proc.cmd) :
          /\ ret' = IF proc.cmd = "shell" THEN "ok" ELSE s
          /\ \/ proc.cmd = "plan" /\ s = "ok" /\ planFile' = NoChanges
             \/ proc.cmd = "plan" /\ s = "exit2" /\ planFile' \in Artifacts
             \/ (proc.cmd # "plan" \/ s = "err") /\ UNCHANGED planFile
    /\ proc' = [proc EXCEPT !.running = FALSE]
    /\ pc' = "c_ret"
    /\ UNCHANGED <<op, locals, session, cancelled, rpcLive, flags>>
    /\ UNCHANGED <<ops, result, ghost>>

(* Prepare after `terraform init` or `terraform validate` returned: an     *)
(* error is wrapped, then checkDone, then the next setup command.          *)
commandReturnPrepare ==
    /\ pc = "c_ret" /\ proc.cmd \in PrepCmds
    /\ \/ ret # "ok" /\ ret' = "err" /\ pc' = "p_ret" /\ UNCHANGED proc
       \/ ret = "ok" /\ cancelled /\ ret' = "cancelErr" /\ pc' = "p_ret"
          /\ UNCHANGED proc
       \/ /\ ret = "ok" /\ ~cancelled /\ proc.cmd = "init"
          /\ proc' = [cmd |-> "validate", running |-> FALSE, signalled |-> FALSE]
          /\ pc' = "start" /\ UNCHANGED ret
       \/ /\ ret = "ok" /\ ~cancelled /\ proc.cmd = "validate"
          /\ pc' = "p_ret" /\ UNCHANGED <<ret, proc>>
    /\ UNCHANGED <<op, locals, session, planFile, cancelled, rpcLive, flags>>
    /\ UNCHANGED <<ops, result, ghost>>

\* Mutant: stopRpcCh closed and wg.Wait() deferred before Prepare runs.
PrepareReturnStopsRpc ==
    /\ pc = "p_ret"
    /\ \/ /\ op = "prepare" /\ Finish(ret)
          /\ UNCHANGED <<ret, prepared, rpcLive>>
       \/ /\ op # "prepare" /\ ret = "ok"
          /\ prepared' = TRUE /\ pc' = "w_run"
          /\ UNCHANGED <<op, ret, result, rpcLive>>
       \/ /\ op # "prepare" /\ ret # "ok"
          /\ ret' = "err" /\ pc' = "ret" /\ rpcLive' = rpcLive - 1
          /\ UNCHANGED <<op, prepared, result>>
    /\ UNCHANGED <<locals, socketPath, nextSock, sockets, planFile, proc>>
    /\ UNCHANGED <<cancelled, flags, ops, ghost>>

(* Prepare returns: to the caller of Prepare, or to terraformWrapper,      *)
(* which sets prepared or returns the wrapped error.                       *)
PrepareReturn ==
    /\ pc = "p_ret"
    /\ \/ /\ op = "prepare" /\ Finish(ret)
          /\ UNCHANGED <<ret, prepared>>
       \/ /\ op # "prepare" /\ ret = "ok"
          /\ prepared' = TRUE /\ pc' = "w_run"
          /\ UNCHANGED <<op, ret, result>>
       \/ /\ op # "prepare" /\ ret # "ok"
          /\ ret' = "err" /\ pc' = "ret"
          /\ UNCHANGED <<op, prepared, result>>
    /\ UNCHANGED <<locals, socketPath, nextSock, sockets, planFile, proc>>
    /\ UNCHANGED <<cancelled, rpcLive, flags, ops, ghost>>

(* terraformWrapper after its command: an error is returned at once, past  *)
(* close(stopRpcCh) and wg.Wait(); on success the listener is stopped and  *)
(* waited for.                                                              *)
commandReturnWrapper ==
    /\ pc = "c_ret" /\ proc.cmd \in WrapCmds
    /\ rpcLive' = IF ret = "ok" THEN rpcLive - 1 ELSE rpcLive
    /\ pc' = "ret"
    /\ UNCHANGED <<op, ret, locals, session, planFile, proc, cancelled, flags>>
    /\ UNCHANGED <<ops, result, ghost>>
-----------------------------------------------------------------------------
(* Plan: with a custom plan file before an apply, read it; otherwise       *)
(* planFileStore (utils.Expand of a custom store path can fail) and       *)
(* planWrapper runs `terraform plan -detailed-exitcode` into the plan     *)
(* file.  changesNeeded starts TRUE.                                       *)
PlanStart ==
    /\ pc = "pl_start"
    /\ changesNeeded' = TRUE
    /\ \/ /\ preApply /\ flags.customPlanFile
          /\ \/ ret' = "err" /\ pc' = "pl_ret" /\ UNCHANGED tfPlan
             \/ tfPlan' = planFile /\ ret' = "ok" /\ pc' = "pl_puppet"
          /\ UNCHANGED <<second, wcmd>>
       \/ /\ ~(preApply /\ flags.customPlanFile)
          /\ \/ ret' = "err" /\ pc' = "pl_ret" /\ UNCHANGED <<second, wcmd>>
             \/ /\ wcmd' = "plan" /\ second' = FALSE /\ pc' = "w_enter"
                /\ UNCHANGED ret
          /\ UNCHANGED tfPlan
    /\ UNCHANGED <<op, preApply, session, env, ghost>>

(* planWrapper after terraformWrapper("plan"): exit status 2 means changes *)
(* are needed; any other error is returned; then plan.New reads the file.  *)
planWrapperReturn ==
    /\ pc = "ret" /\ wcmd = "plan"
    /\ \/ /\ ret \notin {"ok", "exit2"}
          /\ changesNeeded' = FALSE /\ pc' = "pl_ret"
          /\ UNCHANGED <<ret, tfPlan>>
       \/ /\ ret \in {"ok", "exit2"}
          /\ changesNeeded' = (ret = "exit2")
          /\ \/ ret' = "err" /\ pc' = "pl_ret" /\ UNCHANGED tfPlan
             \/ /\ tfPlan' = planFile /\ ret' = "ok"
                /\ pc' = IF second THEN "pl_gate" ELSE "pl_puppet"
    /\ UNCHANGED <<op, preApply, second, wcmd, session, env, ghost>>

(* A plan that updates the legacy puppet object: taint it, then plan again. *)
PlanPuppet ==
    /\ pc = "pl_puppet"
    /\ \/ tfPlan.stale /\ wcmd' = "taint" /\ pc' = "w_enter"
       \/ ~tfPlan.stale /\ pc' = "pl_gate" /\ UNCHANGED wcmd
    /\ UNCHANGED <<op, ret, preApply, second, changesNeeded, tfPlan>>
    /\ UNCHANGED <<session, env, ghost>>

taintReturn ==
    /\ pc = "ret" /\ wcmd = "taint"
    /\ \/ ret # "ok" /\ pc' = "pl_ret" /\ UNCHANGED <<wcmd, second>>
       \/ ret = "ok" /\ wcmd' = "plan" /\ second' = TRUE /\ pc' = "w_enter"
    /\ UNCHANGED <<op, ret, preApply, changesNeeded, tfPlan>>
    /\ UNCHANGED <<session, env, ghost>>

\* Mutant: one auto-approve flag is taken to be enough (|| for &&).
PlanGateEitherFlag ==
    /\ pc = "pl_gate"
    /\ \/ /\ ~tfPlan.volumes
          /\ ret' = "ok" /\ pc' = "pl_ret" /\ UNCHANGED approved
       \/ /\ tfPlan.volumes /\ ~preApply
          /\ ret' = "err" /\ pc' = "pl_ret" /\ UNCHANGED approved
       \/ /\ tfPlan.volumes /\ preApply
          /\ (flags.autoApproveDeletingData \/ flags.autoApprove)
          /\ ret' = "ok" /\ pc' = "pl_ret" /\ UNCHANGED approved
       \/ /\ tfPlan.volumes /\ preApply
          /\ ~(flags.autoApproveDeletingData \/ flags.autoApprove)
          /\ pc' = "prompt" /\ UNCHANGED <<ret, approved>>
    /\ UNCHANGED <<op, locals, session, env, applied, doomed, gatePassed>>
    /\ UNCHANGED sigInOp

(* The destructive-change gate on IsDestroyingEBSVolume: a plan-only call  *)
(* fails, both auto-approve flags pass it, otherwise the user is asked.    *)
PlanGate ==
    /\ pc = "pl_gate"
    /\ \/ /\ ~tfPlan.volumes
          /\ ret' = "ok" /\ pc' = "pl_ret" /\ UNCHANGED approved
       \/ /\ tfPlan.volumes /\ ~preApply
          /\ ret' = "err" /\ pc' = "pl_ret" /\ UNCHANGED approved
       \/ /\ tfPlan.volumes /\ preApply
          /\ flags.autoApproveDeletingData /\ flags.autoApprove
          /\ ret' = "ok" /\ pc' = "pl_ret" /\ approved' = approved \cup {tfPlan}
       \/ /\ tfPlan.volumes /\ preApply
          /\ ~(flags.autoApproveDeletingData /\ flags.autoApprove)
          /\ pc' = "prompt" /\ UNCHANGED <<ret, approved>>
    /\ UNCHANGED <<op, locals, session, env, applied, doomed, gatePassed>>
    /\ UNCHANGED sigInOp

(* input.AskYesNo, default no: it can fail, or the user answers.           *)
Prompt ==
    /\ pc = "prompt"
    /\ \/ ret' = "err" /\ UNCHANGED approved
       \/ ret' = "ok" /\ approved' = approved \cup {tfPlan}
    /\ pc' = "pl_ret"
    /\ UNCHANGED <<op, locals, session, env, applied, doomed, gatePassed>>
    /\ UNCHANGED sigInOp

(* Plan returns to its caller: `cluster plan`, or Apply, which returns at  *)
(* an error or when no changes are needed.                                 *)
PlanReturn ==
    /\ pc = "pl_ret"
    /\ \/ op = "plan" /\ Finish(ret)
       \/ op = "apply" /\ (ret # "ok" \/ ~changesNeeded) /\ Finish(ret)
       \/ /\ op = "apply" /\ ret = "ok" /\ changesNeeded
          /\ pc' = "ap_check" /\ UNCHANGED <<op, result>>
    /\ UNCHANGED <<ret, locals, session, planFile, proc, cancelled, rpcLive>>
    /\ UNCHANGED <<flags, ops, ghost>>

\* Mutant: Apply without its `break after sigterm` select.
ApplyCheckMissing ==
    /\ pc = "ap_check"
    /\ \/ /\ flags.customPlanFile /\ Finish("err")
          /\ UNCHANGED <<wcmd, gatePassed>>
       \/ /\ gatePassed' = TRUE
          /\ wcmd' = "apply" /\ pc' = "w_enter" /\ UNCHANGED <<op, result>>
    /\ UNCHANGED <<ret, preApply, second, changesNeeded, tfPlan, session>>
    /\ UNCHANGED <<planFile, proc, cancelled, rpcLive, flags, ops>>
    /\ UNCHANGED <<approved, applied, doomed, sigInOp>>

(* Apply: break after sigterm, then planFileLocation (utils.Expand of a    *)
(* custom path can fail), then terraformWrapper("apply").                  *)
ApplyCheck ==
    /\ pc = "ap_check"
    /\ \/ cancelled /\ Finish("cancelErr") /\ UNCHANGED <<wcmd, gatePassed>>
       \/ /\ ~cancelled /\ flags.customPlanFile /\ Finish("err")
          /\ UNCHANGED <<wcmd, gatePassed>>
       \/ /\ ~cancelled /\ gatePassed' = TRUE
          /\ wcmd' = "apply" /\ pc' = "w_enter" /\ UNCHANGED <<op, result>>
    /\ UNCHANGED <<ret, preApply, second, changesNeeded, tfPlan, session>>
    /\ UNCHANGED <<planFile, proc, cancelled, rpcLive, flags, ops>>
    /\ UNCHANGED <<approved, applied, doomed, sigInOp>>

(* Apply, Destroy, ForceUnlock and Shell return what terraformWrapper did. *)
WrapperOpReturn ==
    /\ pc = "ret" /\ wcmd \in {"apply", "destroy", "force-unlock", "shell"}
    /\ Finish(ret)
    /\ UNCHANGED <<ret, locals, session, planFile, proc, cancelled, rpcLive>>
    /\ UNCHANGED <<flags, ops, ghost>>

-----------------------------------------------------------------------------
\* The engine goroutine's own steps.
EngineStep ==
    \/ terraformWrapperEnter \/ PrepareGenerate \/ terraformWrapperRun
    \/ commandStart \/ commandSignal \/ commandReturnPrepare
    \/ PrepareReturn \/ commandReturnWrapper
    \/ PlanStart \/ planWrapperReturn \/ PlanPuppet \/ taintReturn
    \/ PlanGate \/ PlanReturn \/ ApplyCheck \/ WrapperOpReturn

\* Calls of the public operations by tarmak, one at a time.
Call ==
    \/ Apply \/ Plan \/ Destroy \/ ForceUnlock \/ Shell \/ PrepareOp
    \/ Cleanup \/ ResetTerraformWrapper

Next == EngineStep \/ Call \/ commandWait \/ Prompt \/ Cancel

(* The engine goroutine is never starved; a subprocess that was sent the   *)
(* cancellation signal exits (terraform shuts down on SIGTERM/SIGINT).  An *)
(* unsignalled subprocess, the user at the prompt, the caller and the     *)
(* signal itself get no fairness.                                          *)
Fairness ==
    /\ WF_vars(EngineStep)
    /\ WF_vars(commandWait /\ proc.signalled)

Spec == Init /\ [][Next]_vars
FairSpec == Spec /\ Fairness
-----------------------------------------------------------------------------
(* Destructive-change gate (Plan, lines 433-466, and Apply): every plan    *)
(* file an apply subprocess is started on, if it destroys an EBS volume,  *)
(* is a plan the gate passed in this Apply, by the two auto-approve flags *)
(* or by the user's yes, after any taint and re-plan.                      *)
GatedApply == \A a \in applied : a.volumes => a \in approved

(* Cancellation before apply: if the CancellationContext fired before      *)
(* Apply's `break after sigterm` check passed (during the plan, the taint, *)
(* or while the prompt was pending), no apply subprocess is started.       *)
NoApplyAfterCancel == doomed => applied = {}

(* Cancellation ends every operation: once cancellation has fired, an     *)
(* operation other than the debug shell returns, unless it is blocked at  *)
(* the yes/no prompt (which t.command's signal forwarding cannot reach).  *)
CancelledOpReturns ==
    (cancelled /\ op \notin {"idle", "shell"}) ~> (op = "idle" \/ pc = "prompt")

(* RPC lifetime (spec 4.1, 5): once a tool invocation is over, the control *)
(* RPC listener terraformWrapper started for it has been stopped.          *)
RpcStoppedWhenIdle == op = "idle" => rpcLive = 0

(* Cancellation error kind (spec 7, 8): an operation whose subprocess was  *)
(* sent the cancellation signal returns the cancellation error, not the   *)
(* subprocess's own failure.                                               *)
CancelErrorReported == (op = "idle" /\ sigInOp) => result = "cancelErr"
=============================================================================
