------------------------------ MODULE InitToken ------------------------------
(***************************************************************************)
(* The init token of one role, vault-helper's                              *)
(* pkg/kubernetes/init_token.go: Ensure, EnsureDryRun and Delete of one   *)
(* InitToken struct, against vault's token store, the token role, the     *)
(* creator policy and the secrets backend that holds the token id.  Each  *)
(* step below is one helper of the code and the vault calls it makes; a   *)
(* call may fail.  Others change vault (the token ages or is revoked, the *)
(* role or policy are edited) and a new vault-helper process starts with  *)
(* an empty i.token, between two operations.                              *)
(***************************************************************************)
EXTENDS Naturals

CONSTANTS
    MaxOps,  \* operations of vault-helper in a behaviour
    MaxEnv   \* changes by others in a behaviour

(* Both bounds are natural numbers.                                        *)
ASSUME BoundsAssumption == MaxOps \in Nat /\ MaxEnv \in Nat

VARIABLES
    tstate,   \* the token in vault's store: "dead" (absent, revoked or
              \* expired), "short" (TTL under a year) or "valid"
    role,     \* the token role at Path(): "absent", "match" or "stale"
    policy,   \* the <cluster>/<role>-creator policy: likewise
    stored,   \* the secrets backend holds the init token id
    cached,   \* i.token != nil
    op,       \* the running operation, or "idle"
    pc,       \* the step of the running operation
    ret,      \* the error the last operation returned: "ok" or "err"
    changes,  \* the bool EnsureDryRun returned
    panicked, \* vault-helper died on a nil pointer dereference
    nops,     \* operations started
    nenv      \* changes by others made

vars == <<tstate, role, policy, stored, cached, op, pc, ret, changes,
          panicked, nops, nenv>>

Entries == {"absent", "match", "stale"}

(* Type invariant of the init token.                                       *)
TypeOK ==
    /\ tstate \in {"dead", "short", "valid"}
    /\ role \in Entries
    /\ policy \in Entries
    /\ stored \in BOOLEAN
    /\ cached \in BOOLEAN
    /\ op \in {"idle", "ensure", "dryrun"}
    /\ pc \in {"idle", "e_write", "e_renew", "d_role"}
    /\ ret \in {"none", "ok", "err"}
    /\ changes \in BOOLEAN
    /\ panicked \in BOOLEAN
    /\ nops \in 0..MaxOps
    /\ nenv \in 0..MaxEnv

(* Any vault state; the token id exists only if the backend handed it    *)
(* out, and a new process has no i.token.                                 *)
Init ==
    /\ stored \in BOOLEAN
    /\ tstate \in IF stored THEN {"dead", "short", "valid"} ELSE {"dead"}
    /\ role \in Entries
    /\ policy \in Entries
    /\ cached = FALSE
    /\ op = "idle" /\ pc = "idle"
    /\ ret = "none" /\ changes = FALSE /\ panicked = FALSE
    /\ nops = 0 /\ nenv = 0

Finish(r) == op' = "idle" /\ pc' = "idle" /\ ret' = r

Begin == op = "idle" /\ nops < MaxOps /\ nops' = nops + 1

Continue(o, p) == op' = o /\ pc' = p

(* InitToken(): i.token when set; else the backend's InitToken, which     *)
(* returns the stored id or stores a new one, and the id is cached.       *)
InitTokenOk == cached' = TRUE /\ stored' = TRUE

InitTokenFails == ~cached /\ UNCHANGED <<cached, stored>>

(* Ensure, lines 24-26: ensureCreated.  InitToken(), then Lookup: a live  *)
(* token is kept; an error reading "Code: 403." and "bad token" (a dead   *)
(* token) leads to CreateOrphan with the same id; any other error, or a   *)
(* failing CreateOrphan, is returned.                                     *)
ensureCreated ==
    /\ Begin
    /\ \/ InitTokenFails /\ Finish("err") /\ UNCHANGED tstate
       \/ /\ InitTokenOk
          /\ \/ tstate \in {"short", "valid"} /\ Continue("ensure", "e_write")
                /\ UNCHANGED <<tstate, ret>>
             \/ tstate = "dead" /\ tstate' = "valid"
                /\ Continue("ensure", "e_write") /\ UNCHANGED ret
             \/ Finish("err") /\ UNCHANGED tstate
    /\ UNCHANGED <<role, policy, changes, panicked, nenv>>

(* The vault writes and deletes of the role and the policy; ok says the  *)
(* call succeeded, a failed call leaves the entry as it was.              *)
writeTokenRole(ok) == role' = IF ok THEN "match" ELSE role

writeInitTokenPolicy(ok) == policy' = IF ok THEN "match" ELSE policy

deleteTokenRole(ok) == role' = IF ok THEN "absent" ELSE role

deleteInitTokenPolicy(ok) == policy' = IF ok THEN "absent" ELSE policy

\* Mutant: the error of writeTokenRole is not kept in result.
EnsureWriteDropsRoleErr ==
    /\ pc = "e_write"
    /\ \E roleOk, policyOk \in BOOLEAN :
         /\ writeTokenRole(roleOk) /\ writeInitTokenPolicy(policyOk)
         /\ \/ policyOk /\ pc' = "e_renew" /\ UNCHANGED <<op, ret>>
            \/ ~policyOk /\ Finish("err")
    /\ UNCHANGED <<tstate, stored, cached, changes, panicked, nops, nenv>>

(* Ensure, lines 29-37: writeTokenRole and writeInitTokenPolicy are both *)
(* tried; their errors are gathered and returned together.                *)
EnsureWrite ==
    /\ pc = "e_write"
    /\ \E roleOk, policyOk \in BOOLEAN :
         /\ writeTokenRole(roleOk) /\ writeInitTokenPolicy(policyOk)
         /\ \/ roleOk /\ policyOk /\ pc' = "e_renew" /\ UNCHANGED <<op, ret>>
            \/ ~(roleOk /\ policyOk) /\ Finish("err")
    /\ UNCHANGED <<tstate, stored, cached, changes, panicked, nops, nenv>>

(* Ensure, lines 40-52: InitToken() returns the cached id, and Renew      *)
(* gives a live token a full period; it fails on a dead token.            *)
EnsureRenew ==
    /\ pc = "e_renew"
    /\ \/ tstate \in {"short", "valid"} /\ tstate' = "valid" /\ Finish("ok")
       \/ Finish("err") /\ UNCHANGED tstate
    /\ UNCHANGED <<role, policy, stored, cached, changes, panicked, nops, nenv>>

FinishDry(c, r) == Finish(r) /\ changes' = c

\* Mutant: the dry run's expiry check ignores the TTL.
EnsureDryRunIgnoresTTL ==
    /\ Begin
    /\ \/ InitTokenFails /\ FinishDry(TRUE, "err")
       \/ InitTokenOk /\ tstate = "dead" /\ FinishDry(TRUE, "ok")
       \/ InitTokenOk /\ FinishDry(TRUE, "err")
       \/ InitTokenOk /\ tstate # "dead" /\ Continue("dryrun", "d_role")
          /\ UNCHANGED <<ret, changes>>
    /\ UNCHANGED <<tstate, role, policy, panicked, nenv>>

(* EnsureDryRun, lines 104-107: ensureDryRunExpDate.  InitToken(), then   *)
(* Lookup: a bad token or a TTL under a year means changes; an error of   *)
(* InitToken, Lookup or TokenTTL is returned with changes.                *)
ensureDryRunExpDate ==
    /\ Begin
    /\ \/ InitTokenFails /\ FinishDry(TRUE, "err")
       \/ InitTokenOk /\ tstate \in {"dead", "short"} /\ FinishDry(TRUE, "ok")
       \/ InitTokenOk /\ FinishDry(TRUE, "err")
       \/ InitTokenOk /\ tstate = "valid" /\ Continue("dryrun", "d_role")
          /\ UNCHANGED <<ret, changes>>
    /\ UNCHANGED <<tstate, role, policy, panicked, nenv>>

(* EnsureDryRun, lines 109-135.  readTokenRole: an error leaves secret   *)
(* nil and line 116 dereferences it; a missing role is a nil secret with  *)
(* no error (vault's Logical().Read) and line 112 dereferences it; stale  *)
(* data means changes.  Then readInitTokenPolicy: different content means *)
(* changes, an error is kept; then the backend's InitToken, whose error   *)
(* is kept.  Otherwise: no changes, and the kept errors.                  *)
EnsureDryRunRest ==
    /\ pc = "d_role"
    /\ \/ panicked' = TRUE /\ UNCHANGED <<op, pc, ret, changes>>
       \/ role = "absent" /\ panicked' = TRUE /\ UNCHANGED <<op, pc, ret, changes>>
       \/ role = "stale" /\ FinishDry(TRUE, "ok") /\ UNCHANGED panicked
       \/ /\ role = "match"
          /\ \E policyRead, tokenRead \in BOOLEAN :
               \/ policyRead /\ policy # "match" /\ FinishDry(TRUE, "ok")
               \/ /\ ~policyRead \/ policy = "match"
                  /\ FinishDry(FALSE, IF policyRead /\ tokenRead THEN "ok"
                                                                ELSE "err")
          /\ UNCHANGED panicked
    /\ UNCHANGED <<tstate, role, policy, stored, cached, nops, nenv>>

(* Delete: deleteInitTokenPolicy and deleteTokenRole are both tried and   *)
(* their errors returned together; the token and the backend's id stay.   *)
Delete ==
    /\ Begin
    /\ \E policyOk, roleOk \in BOOLEAN :
         /\ deleteInitTokenPolicy(policyOk) /\ deleteTokenRole(roleOk)
         /\ ret' = IF policyOk /\ roleOk THEN "ok" ELSE "err"
    /\ UNCHANGED <<tstate, stored, cached, op, pc, changes, panicked, nenv>>

(* Between operations: the token's TTL runs down or it is revoked, the    *)
(* role or the policy is edited or removed, or a new process starts.      *)
Environment ==
    /\ op = "idle" /\ nenv < MaxEnv /\ nenv' = nenv + 1
    /\ \/ tstate' \in {"dead", "short"} /\ tstate' # tstate
          /\ UNCHANGED <<role, policy, cached>>
       \/ role' \in Entries \ {role} /\ UNCHANGED <<tstate, policy, cached>>
       \/ policy' \in Entries \ {policy} /\ UNCHANGED <<tstate, role, cached>>
       \/ cached /\ cached' = FALSE /\ UNCHANGED <<tstate, role, policy>>
    /\ UNCHANGED <<stored, op, pc, ret, changes, panicked, nops>>

Next ==
    /\ ~panicked
    /\ \/ ensureCreated \/ EnsureWrite \/ EnsureRenew
       \/ ensureDryRunExpDate \/ EnsureDryRunRest
       \/ Delete \/ Environment

Spec == Init /\ [][Next]_vars
-----------------------------------------------------------------------------
(* vault holds a live token under the cached id, the backend's id, with   *)
(* the role and the policy as Ensure writes them.                         *)
Ensured ==
    /\ tstate = "valid" /\ role = "match" /\ policy = "match"
    /\ stored /\ cached

(* An Ensure that returns nil leaves the init token in place: renewed,   *)
(* with the role and the policy written.                                  *)
EnsureEstablishes ==
    [][op = "ensure" /\ op' = "idle" /\ ret' = "ok" => Ensured']_vars

(* An EnsureDryRun that returns (false, nil) reports a vault state in    *)
(* which Ensure has nothing to do.                                        *)
DryRunSound ==
    [][op = "dryrun" /\ op' = "idle" /\ ret' = "ok" /\ ~changes'
           => Ensured']_vars

(* EnsureDryRun returns, with the errors it met, and never panics.        *)
DryRunNeverPanics == ~panicked
====
