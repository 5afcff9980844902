# TLA+ models of tarmak's terraform engine, tunnels and control RPC

This directory holds TLA+ models of the core of tarmak:

- the subprocess-orchestration engine, `pkg/terraform/terraform.go`;
- the SSH tunnel manager, `pkg/tarmak/ssh/tunnel.go`;
- the control RPC method `BastionInstanceStatus`, `pkg/terraform/providers/tarmak/rpc/`;
- the AWS provider's encryption-provider key, `src/pkg/tarmak/provider/amazon/encryption_provider_kms.go`;
- vault-helper's init token, `src/__vendor/github.com/jetstack/vault-helper/pkg/kubernetes/init_token.go`.

Unless a path is given in full, the Go paths are under `src/vendor/github.com/jetstack/tarmak/`. The directory also holds the TLC configurations that check the models, and the TLAPS proofs about them.

## 1. Inventory

### Components and how they interact

- **Engine** (`Terraform` struct).
  - Public operations, called one at a time by the CLI through `CancellationContext().WaitOrCancel`: `Apply`, `Plan`, `Destroy`, `ForceUnlock`, `Shell`, `Prepare`, `Cleanup`, `ResetTerraformWrapper`.
  - Each tool invocation goes through `terraformWrapper`:
    - it creates the socket file once per session (`socketPath`);
    - it runs `Prepare` once per session (`prepared`): `checkDone`, code generation, plugins, `terraform init`, `terraform validate`;
    - it spawns the RPC listener goroutine;
    - it runs the subprocess through `command`, which forwards the cancellation signal while it waits;
    - it then stops the listener.
  - `Plan` runs `terraform plan -detailed-exitcode` (exit 2 means changes are needed). It taints the legacy puppet object and plans again when the plan updates it. A plan that destroys EBS volumes is gated: a plan-only run returns an error; an apply needs both auto-approve flags or a "yes" at the prompt.
  - `Apply` is `Plan(preApply=true)`, a cancellation check, then `terraformWrapper("apply")`.
- **Control RPC.** While a subprocess runs, the tarmak provider inside terraform calls `BastionInstanceStatus` over the unix socket. net/rpc serves each call in its own goroutine. The handler answers `unknown` in the destroy state. Otherwise it retries `VerifyBastionAvailable` up to `rpc.Retries` times, 1s apart.
- **Tunnel.**
  - `Start` makes `stopCh` and `doneCh`, then either starts a daemon child or listens and spawns `handle`.
  - `handle` loops: it dials through the bastion, accepts a local connection, appends both to `remoteConns` (without the lock), registers a channel in `openConns` (under `connsLock`) and starts two `io.Copy` goroutines. Ten dial errors end the loop.
  - `handleTimeout` (the reaper) sleeps 10 minutes. It then waits, with a loop that re-reads the length, on every registered channel, and finally runs `cleanup` and closes `doneCh`.
  - `Stop` runs `cleanup` (under the lock: close `stopCh` once, close every tracked connection and the listener) and kills the daemon.
- **Encryption-provider key.** Every tarmak invocation has a fresh `Amazon` struct and calls `ensureEncryptionProviderKMS`.
  - It calls `DescribeKey` on the alias `alias/tarmak/<env>/encryption-provider`.
  - If the alias exists, it records the key's ARN. If `DescribeKey` fails with a `NotFound` code, `initEncrytionProviderKMS` runs `CreateKey` and then `CreateAlias`.
  - Invocations from several operators can run against one account at the same time.
- **Init token** (vault-helper, run on the vault server).
  - `Ensure` runs `ensureCreated`: it fetches the token id from the secrets backend, caches it in `i.token` and looks the token up. If vault answers 403 "bad token", it creates an orphan token with the same id.
  - `Ensure` then writes the token role and the creator policy, gathering both errors, and renews the token.
  - `EnsureDryRun` reports whether `Ensure` has work to do. It checks the token's TTL (a year), the role's data, the policy, and the backend's token.
  - `Delete` removes the policy and the role.

### Hard behaviours

- Cancellation can arrive at any step. It is observed by polling (`checkDone`, the check in `Apply`) and by the `select` in `command`.
- The subprocess exits with any status, and a signalled one as well.
- Failures can occur at every step: TempFile, Prepare, envVars, Start, the plan read, the prompt, RemoveAll.
- The tunnel's goroutines interleave freely: `handle`, the 2 copiers of each pair, the reaper, and the caller's `Stop`. Each lock-protected section is one atomic step. The unlocked append of the dialed `remoteConn` (line 124) is a step of its own (`DialOk`). The unlocked append of the accepted `conn` (line 137) is not: `Register` merges it with the locked registration of its channel (139-142), so the model does not show another goroutine running between those two lines. Only `handle` writes `t.remoteConns`, and only cleanup reads it, under no lock. So the merge hides one order of the race: cleanup between line 137 and line 139. That order leaves the same connection open that `DoneAfterStop` already exhibits.
- Peers hang up at any time. A copier blocked on an idle peer never returns.

The hazards are listed, each at its line, in `PROJECT.json`.

## 2. Modules

| Module | Models | State | Actions |
|---|---|---|---|
| `Terraform` | engine, RPC listener lifetime | operation and program counter (`op`, `pc`), per-call locals, session (`prepared`, `socketPath`, socket files), subprocess record, cancellation, the plan file on disk, count of live listeners; ghosts `approved`, `applied`, `doomed`, `sigInOp` | one per public operation; `terraformWrapperEnter`/`Run`, `PrepareGenerate`/`Return`, `commandStart`/`Signal`/`Wait`, `commandReturn*`, `PlanStart`, `planWrapperReturn`, `PlanPuppet`, `taintReturn`, `PlanGate`, `Prompt`, `PlanReturn`, `ApplyCheck`, `WrapperOpReturn`; environment `Cancel` |
| `Tunnel` | one tunnel | channel states, listener, daemon, `handle`'s pc/`errCount`/current pair, per-pair connection states, peers' hang-ups, `remoteConns`, `openConns`, fired channels, copier and reaper pcs | `Start`, `Stop`, `DialFail`, `DialOk`, `AcceptFail`, `AcceptOk`, `Register`, `CopyAReturn`/`Fire`, `CopyBReturn`, `Reaper*`; environment `RemoteHangUp`, `ClientHangUp` |
| `KMS` | encryption-provider key, concurrent invocations | the account's `keys` and `alias`; per invocation: pc, the created key, `encryptionProviderKMS`, `remoteStateKMS`, the result | `ensureEncryptionProviderKMS`, `initCreateKey`, `initCreateAlias` |
| `InitToken` | one `InitToken` struct against vault | the token's state (`dead`, `short` TTL, `valid`), role and policy (`absent`, `match`, `stale`), whether the backend holds the id, `i.token`; the operation, its step, its results; whether the process panicked | `ensureCreated`, `EnsureWrite` (with `writeTokenRole`, `writeInitTokenPolicy`), `EnsureRenew`, `ensureDryRunExpDate`, `EnsureDryRunRest`, `Delete` (with `deleteTokenRole`, `deleteInitTokenPolicy`); environment `Environment` |
| `Bastion` | `BastionInstanceStatus` | per call: pc, `i`, `err`, status; ghosts: number of checks and whether the last one succeeded | `Request`, `Receive`, `Loop`, `Reply` |

The proof modules each extend their component and TLAPS, and hold its theorems and the inductive invariants they rest on:

- `TerraformProofs`;
- `TunnelProofs`;
- `BastionProofs`;
- `KMSProofs`;
- `InitTokenProofs`.

How the modules correspond to the code:

- Data is abstracted.
  - A plan is a record `[stale, volumes]`. These are the two facts the engine reads of a plan, through `UpdatingPuppet` and `IsDestroyingEBSVolume`.
  - A socket file is a number.
  - Errors are `ok`, `exit2`, `err` or `cancelErr`.
  - A connection is `none`, `open` or `closed`.
- Every early return of the code is a disjunct of its action, and the order of the steps is the code's.
- A remote call (AWS, vault) is one atomic step. It fails or succeeds nondeterministically, and a failed call changes nothing.
- In `InitToken`, vault is changed by others only between two operations: a token ages or is revoked, a role or policy is edited or removed, or a new process starts with an empty `i.token`. A change in the middle of an operation is a time-of-check race that no code can exclude, and it would only weaken the properties to snapshots.
- Some definitions (for example `PlanGateEitherFlag`, `TeardownKeepsListener`) are plausible bugs. They are used only to show that each property can fail; `Next` never uses them.

## 3. Runs

| Run | Checks | Result |
|---|---|---|
| `MCTerraform.cfg` | `TypeOK`, `GatedApply`, `NoApplyAfterCancel`, `CancelledOpReturns` under `FairSpec` | pass (about 1.2M states, 1 min) |
| `MCTerraform_RpcStoppedWhenIdle.cfg` | a finished operation leaves no RPC listener running | violated: a failing `destroy` returns at terraform.go:260 before `close(stopRpcCh)` |
| `MCTerraform_CancelErrorReported.cfg` | a signalled subprocess makes the operation return the cancellation error | violated: `command` returns `cmd.Wait`'s error (line 369) |
| `MCTunnel.cfg` | `TypeOK`, `ReaperWaitsForAllIdle`, `HandleExitsAfterStop` under `FairSpec` | pass (about 150k states, 20 s) |
| `MCTunnel_DialRetryConsecutive.cfg` | the loop gives up only after `MaxDialErrors` consecutive failures | violated: fail, success, fail gives up (errCount never reset, tunnel.go:115) |
| `MCTunnel_DoneAfterStop.cfg` | after `Stop`, an interactive tunnel's done signal fires | violated: a connection accepted just before cleanup is registered after it and never closed (tunnel.go:137) |
| `MCTunnel_ReaperTearsDownOnlyIdle.cfg` | the reaper tears down only when every registered channel fired | violated: a connection registered between the reaper's last check (unlock at tunnel.go:214) and `cleanup` (216) is cut |
| `MCBastion.cfg` | `TypeOK`, `ReplyContract` | pass (205 states) |
| `MCKMS.cfg` | `NoOrphanOnSuccess`, `ProviderKeyAgreed` | pass (957 states) |
| `MCKMS_ProviderKeyRecorded.cfg` | a successful invocation recorded the alias's key as `encryptionProviderKMS` | violated: with the key in place, encryption_provider_kms.go:67 writes `remoteStateKMS` instead |
| `MCInitToken.cfg` | `EnsureEstablishes`, `DryRunSound` | pass (about 3k states) |
| `MCInitToken_DryRunNeverPanics.cfg` | `EnsureDryRun` never panics | violated: a missing or unreadable role is a nil secret, dereferenced at init_token.go:112/116 |

What the properties say:

- `GatedApply`: every plan file that an apply subprocess started on, and that destroys volumes, was let through by the gate.
- `NoApplyAfterCancel`: if cancellation fired before Apply's check passed, no apply subprocess is started.
- `CancelledOpReturns`: after cancellation every operation except the debug shell returns, unless it waits at the prompt. The prompt reads stdin and nothing interrupts it.
- `ReaperWaitsForAllIdle`: the teardown by the reaper comes only after the channel of every connection registered at its last check has fired.
- `HandleExitsAfterStop`: after cleanup, the accept loop ends.
- `ReplyContract`: `unknown` comes only in the destroy state, with no check made; `ready` comes only after a successful check; an error comes only after `Retries` failed checks.
- `NoOrphanOnSuccess`: every key that the alias does not target was created by an invocation that failed or has not returned. A lost `CreateAlias` race, or a failing `CreateAlias`, leaves a key behind, but never silently.
- `ProviderKeyAgreed`: every two invocations that returned nil recorded the same key. The key is in `a.encryptionProviderKMS` for the one that created it, and in `a.remoteStateKMS` for one that found it through `DescribeKey`. So when two invocations race through `CreateKey` and `CreateAlias` on one alias, at most one of them wins. Breaking it takes two invocations and at least four steps. A `CreateAlias` whose `AlreadyExists` error is ignored breaks it.
- `EnsureEstablishes`: an `Ensure` that returns nil leaves a valid token under the cached and stored id, with the role and the policy written.
- `DryRunSound`: an `EnsureDryRun` that returns `(false, nil)` saw that same state, so `Ensure` had nothing to change.

### Bounds

- **Terraform.** `MaxOps = 2` operations in sequence, and `MaxSockets = 2` socket files. Two operations are needed for:
  - a session that is already prepared;
  - a reused socket;
  - a `ResetTerraformWrapper` between two runs;
  - a cancellation that fires in one operation and is seen by the next.

  Three operations take 12 minutes and bring no new control path.
- **Tunnel.**
  - `MaxDialErrors = 2` stands for the code's 10. The give-up test and the missing reset need two failures.
  - `MaxDials = 2` gives one pair live while another is set up, and a second registration while the reaper waits.
  - `MaxStops = 2` lets `Stop` race the reaper's cleanup and run twice.
- **Bastion.** Two concurrent calls, and `Retries = 3`: a failure before a success, and an exhausted bound.
- **KMS.** Three invocations and three key ids. Two are needed for the `CreateAlias` race, and a third arrives after the alias is bound, on the existing-key path.
- **InitToken.** Three operations and two outside changes. This covers, for example, `Ensure`, a revocation and a second `Ensure` that recreates the token, or `Ensure`, `Delete` and a dry run. Init allows every vault state in which the token exists only if the backend handed its id out.

### Fairness

The fairness is weak fairness on the steps of goroutines that are runnable, as the Go scheduler guarantees. In the engine:

- the engine's own steps;
- the exit of a subprocess that was sent the signal (terraform exits on SIGTERM/SIGINT).

An unsignalled subprocess, the user at the prompt, the caller and the signal itself get no fairness. In the tunnel:

- `Dial` returns;
- `Accept` returns on a closed listener;
- a copier returns once the connection it reads from ended or was closed;
- the sleeps end.

An `Accept` on an open listener, a peer's hang-up, and the caller's `Start` and `Stop` get no fairness.

Deadlock checking is off for `Tunnel`, `Bastion`, `KMS` and `InitToken`: all their goroutines or operations return, and the process then has nothing left to do. `KMS` and `InitToken` state no liveness, so they need no fairness.

## 4. Proofs (TLAPS)

- `TerraformProofs.TypeCorrect`: `Spec => []TypeOK`, for all `MaxOps`, `MaxSockets` in Nat.
  - `TypeOK` alone is not inductive: `commandReturnWrapper` decrements `rpcLive`.
  - The inductive invariant is `TypeOK /\ RpcCounted`. `RpcCounted` says that while terraformWrapper's own command starts, runs or returns, its listener is counted.
  - The step proof has one case per action, and each case proves the Boolean flags (`NextFlags`, with Zenon) and the data (`NextData`) separately.
  - Three lemmas state what the proofs need of the record sets: `NoChangesType`, `FreshProcType` and `ProcUpdateType`.
- `BastionProofs.ReplyContractHolds`: `Spec => [](TypeOK /\ ReplyContract)`, for every set `Calls` and every `Retries \in Nat \ {0}`.
  - The strengthening `CallInv(c)` records, per goroutine:
    - in the loop, `i - 1` checks were made and all failed;
    - at the reply, `err` is the negation of the last check, and an error means the bound was reached;
    - no status is set before the end.
  - The `Loop` step is split into its three outcomes.
  - `BastionProofs.TypeCorrect` (`Spec => []TypeOK`) follows from the same invariant. The loop counter stays in `1..Retries + 1` and no call makes more than `Retries` checks.
- `TerraformProofs.GatedApplyHolds` and `TerraformProofs.NoApplyAfterCancelHolds`: `Spec => []GatedApply` and `Spec => []NoApplyAfterCancel`, for all `MaxOps`, `MaxSockets` in Nat.
  - The inductive invariant is `SafetyInv == TypeInv /\ PhaseInv /\ GateInv`. TLC checked it first, with `MaxOps = 3` (13M states), as an invariant of `Spec`.
  - `PhaseInv` says where each operation can be:
    - `op` is idle exactly when `pc` is;
    - a direct `Prepare` never leaves Prepare and runs only `init` and `validate`;
    - `t.command` runs a setup command or the wrapper's own command;
    - the wrapped command is `apply` only inside `Apply`, and Apply's check is reached only in `Apply`.
  - `GateInv` follows the plan file from the gate to the apply:
    - from the read of the plan to the gate, the parsed plan is the file on disk;
    - after a successful gate, through Apply's check and the whole `terraformWrapper("apply")` call, the file is gated and the check passed;
    - no plan subprocess runs in that window, so nothing rewrites the file;
    - `applied # {} => gatePassed`, `gatePassed => ~doomed` and `doomed => cancelled`.
  - The first proof attempt showed the conjunct `pc = "ap_check" => op = "apply"` was missing. TLC had no way to report it, since it holds in every reachable state.
  - `NextPhase` and `NextGate` each have one case per action.
- `TunnelProofs.TypeCorrect` and `TunnelProofs.ReaperWaitsForAllIdleHolds`: for all `MaxDialErrors` in Nat \ {0}, and all `MaxDials`, `MaxStops` in Nat.
  - `IInv` is the type invariant, split into `Flags` (the Boolean variables, proved with Zenon) and `Data`, plus two groups of facts:
  - `HandleRel`, about the accept loop's counters:
    - before Start there is no loop;
    - inside the loop, `errCount` is below the give-up bound, and `consec <= errCount`;
    - the pair being set up is the last one dialed;
    - `Len(t.openConns)` plus the pair in progress never exceeds the dials made. This is what keeps `handleTimeout`'s index within `t.openConns`.
  - `ReaperRel`, about the reaper's index:
    - `ri <= Len(openConns)`, and it waits only on a registered channel;
    - every channel before `ri` has fired;
    - after the loop, `seenLen <= ri`.
  - The reaper's argument rests on `t.openConns` only growing by `Append`, and on the fired channels never un-firing.
  - TLC checked `IInv` first, on 151k states with bounds 2/2/2 and again with bounds 3/3/2.
  - The proof attempt showed that two conjuncts were needed:
    - before Start there is no accept loop;
    - the dial-error bound holds at accept and append as well as at dial, because a failed Accept and a registration both go back to dialing.

- `KMSProofs.NoOrphanOnSuccessHolds` and `KMSProofs.ProviderKeyAgreedHolds`: for every set of invocations and every set of key ids with `NoKey` outside it.
  - The strengthening `IInv` says:
    - every created key exists;
    - an invocation at `CreateAlias` holds a key;
    - an invocation that has not returned has no result, and before `CreateKey` it holds no key;
    - an invocation that succeeded after creating a key bound the alias to that key;
    - `a.encryptionProviderKMS` is set only when an invocation returns;
    - every invocation that succeeded recorded the key the alias targets, and that alias is bound.
  - The last conjunct makes the successful `CreateAlias` safe: the alias was unbound, so no earlier success had created a key.
  - The last conjunct gives agreement, since two keys equal to one alias are equal. It is preserved for three reasons: while any invocation has succeeded, the alias stays bound; a bound alias is never rebound; and a run's recorded fields change only in its own returning step.
- `InitTokenProofs.TypeCorrect`, `EnsureEstablishesHolds` and `DryRunSoundHolds`: for all `MaxOps`, `MaxEnv` in Nat.
  - `IInv` is the type invariant, split into the Boolean variables (`Flags`, proved with Zenon) and the rest (`Data`), plus `Rel`:
    - a cached id is stored;
    - the operation and its step agree;
    - at `e_write` the token is live;
    - at `e_renew` the role and the policy match;
    - at `d_role` the token is valid.
  - Both action properties follow from `IInv` and a case per action. The lemma `IdleStart` disposes of the operations that can only start from an idle helper.

Only TLC checks the following:

- the liveness properties (`CancelledOpReturns`, `HandleExitsAfterStop`), which TLAPS cannot prove under fairness;
- `ProviderKeyRecorded`, `DryRunNeverPanics`, `ReaperTearsDownOnlyIdle`, `RpcStoppedWhenIdle`, `CancelErrorReported`, `DialRetryConsecutive` and `DoneAfterStop`, which are violated;

TLAPS reaches every safety invariant that a passing run checks, but not liveness (it cannot reason about fairness or `ENABLED`).

## 5. Not modelled

- `MapToTerraformTfvars`: pure formatting.
- `pkg/tarmak/interfaces/interfaces.go`: Go interface declarations with no statements. The behaviour behind them is modelled where its code is under `src/`.
- `src/build.go`: a build-tag file that imports tools and prints a line.
- The vault-helper code that `init_token.go` calls and that is not under `src/`: the secrets backend's `InitToken` and `Kubernetes.ReadPolicy`. They are abstracted to the stored id, which is returned or stored anew, and to a policy read that returns its content. The formatting of names, paths and policy documents is left out too, since no property depends on it.
- A mid-operation change of vault by others (see §2).
- The CLI wiring, the packer template functions, generated defaults, mocks and build tools.
- The plan parser and the RPC listener package, which are not under `src/`. They appear only through the facts the engine reads: the two fields of a plan, and whether the listener is running.
- The daemon child's own tunnel, which is the same `Tunnel` run in another process.
- A second `Start` of one tunnel. No caller under `src/` starts a tunnel twice.
- The process tree below terraform.
