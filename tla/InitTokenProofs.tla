-------------------------- MODULE InitTokenProofs --------------------------
(***************************************************************************)
(* Proofs about InitToken for all bounds: an Ensure that returns nil and  *)
(* a dry run that reports no changes without an error both leave the init *)
(* token, its role and its policy in place.                               *)
(***************************************************************************)
EXTENDS InitToken, TLAPS

(* TypeOK in two parts: the Boolean variables, and the others.            *)
Flags ==
    /\ stored \in BOOLEAN
    /\ cached \in BOOLEAN
    /\ changes \in BOOLEAN
    /\ panicked \in BOOLEAN

Data ==
    /\ tstate \in {"dead", "short", "valid"}
    /\ role \in Entries
    /\ policy \in Entries
    /\ op \in {"idle", "ensure", "dryrun"}
    /\ pc \in {"idle", "e_write", "e_renew", "d_role"}
    /\ ret \in {"none", "ok", "err"}
    /\ nops \in 0..MaxOps
    /\ nenv \in 0..MaxEnv

(* What each step of an operation knows of the steps before it: the      *)
(* cached id is stored, and the checks made and entries written so far.   *)
Rel ==
    /\ cached => stored
    /\ op = "idle" <=> pc = "idle"
    /\ op = "ensure" <=> pc \in {"e_write", "e_renew"}
    /\ pc = "e_write" => cached /\ tstate \in {"short", "valid"}
    /\ pc = "e_renew" => cached /\ role = "match" /\ policy = "match"
    /\ pc = "d_role" => cached /\ tstate = "valid"

IInv == Flags /\ Data /\ Rel

LEMMA IInvTypeOK == IInv => TypeOK
BY DEF IInv, Flags, Data, TypeOK

LEMMA InitIInv == Init => IInv
<1> SUFFICES ASSUME Init PROVE IInv
  OBVIOUS
<1>1. Flags
  BY Zenon DEF Init, Flags
<1>2. Data
  <2>1. tstate \in {"dead", "short", "valid"}
    BY Zenon DEF Init
  <2>2. QED
    BY <2>1, BoundsAssumption DEF Init, Data, Entries
<1>3. Rel
  BY Zenon DEF Init, Rel
<1>4. QED
  BY <1>1, <1>2, <1>3 DEF IInv

LEMMA NextIInv == IInv /\ [Next]_vars => IInv'
<1> SUFFICES ASSUME IInv, [Next]_vars PROVE IInv'
  OBVIOUS
<1>a. Data
  BY DEF IInv
<1>b. Flags
  BY DEF IInv
<1>c. Rel
  BY DEF IInv
<1>1. CASE ensureCreated
  <2>1. Flags'
    BY <1>1, <1>b, Zenon DEF Flags, ensureCreated, Begin, Continue, Finish, InitTokenOk, InitTokenFails
  <2>2. Data'
    <3>1. nops' = nops + 1 /\ nops < MaxOps /\ nenv' = nenv
      BY <1>1, Zenon DEF ensureCreated, Begin
    <3>2. /\ tstate' \in {"dead", "short", "valid"}
          /\ role' = role /\ policy' = policy
          /\ op' \in {"idle", "ensure"} /\ pc' \in {"idle", "e_write"}
          /\ ret' \in {"none", "ok", "err"}
      BY <1>1, <1>a, Zenon DEF Data, ensureCreated, Begin, Continue, Finish, InitTokenOk,
                        InitTokenFails
    <3>3. nops' \in 0..MaxOps /\ nenv' \in 0..MaxEnv
      BY <3>1, <1>a, BoundsAssumption DEF Data
    <3>4. QED
      BY <3>2, <3>3, <1>a, Zenon DEF Data, Entries
  <2>3. Rel'
    BY <1>1, <1>a, <1>b, <1>c DEF Rel, ensureCreated, Begin, Continue, Finish, InitTokenOk, InitTokenFails
  <2>4. QED
    BY <2>1, <2>2, <2>3 DEF IInv
<1>2. CASE EnsureWrite
  <2>1. Flags'
    BY <1>2, <1>b, Zenon DEF Flags, EnsureWrite, Finish, writeTokenRole, writeInitTokenPolicy
  <2>2. Data'
    BY <1>2, <1>a DEF Data, Entries, EnsureWrite, Finish, writeTokenRole, writeInitTokenPolicy
  <2>3. Rel'
    BY <1>2, <1>a, <1>b, <1>c DEF Rel, EnsureWrite, Finish, writeTokenRole, writeInitTokenPolicy
  <2>4. QED
    BY <2>1, <2>2, <2>3 DEF IInv
<1>3. CASE EnsureRenew
  <2>1. Flags'
    BY <1>3, <1>b, Zenon DEF Flags, EnsureRenew, Finish
  <2>2. Data'
    BY <1>3, <1>a DEF Data, Entries, EnsureRenew, Finish
  <2>3. Rel'
    BY <1>3, <1>a, <1>b, <1>c DEF Rel, EnsureRenew, Finish
  <2>4. QED
    BY <2>1, <2>2, <2>3 DEF IInv
<1>4. CASE ensureDryRunExpDate
  <2>1. Flags'
    BY <1>4, <1>b, Zenon DEF Flags, ensureDryRunExpDate, Begin, Continue, Finish, FinishDry, InitTokenOk, InitTokenFails
  <2>2. Data'
    <3>1. nops' = nops + 1 /\ nops < MaxOps /\ nenv' = nenv
      BY <1>4, Zenon DEF ensureDryRunExpDate, Begin
    <3>2. /\ tstate' = tstate /\ role' = role /\ policy' = policy
          /\ op' \in {"idle", "dryrun"} /\ pc' \in {"idle", "d_role"}
          /\ ret' \in {"none", "ok", "err"}
      BY <1>4, <1>a, Zenon DEF Data, ensureDryRunExpDate, Begin, Continue, Finish,
                        FinishDry, InitTokenOk, InitTokenFails
    <3>3. nops' \in 0..MaxOps /\ nenv' \in 0..MaxEnv
      BY <3>1, <1>a, BoundsAssumption DEF Data
    <3>4. QED
      BY <3>2, <3>3, <1>a, Zenon DEF Data, Entries
  <2>3. Rel'
    BY <1>4, <1>a, <1>b, <1>c DEF Rel, ensureDryRunExpDate, Begin, Continue, Finish, FinishDry, InitTokenOk, InitTokenFails
  <2>4. QED
    BY <2>1, <2>2, <2>3 DEF IInv
<1>5. CASE EnsureDryRunRest
  <2>1. Flags'
    BY <1>5, <1>b, Zenon DEF Flags, EnsureDryRunRest, Finish, FinishDry
  <2>2. Data'
    BY <1>5, <1>a DEF Data, Entries, EnsureDryRunRest, Finish, FinishDry
  <2>3. Rel'
    BY <1>5, <1>a, <1>b, <1>c DEF Rel, EnsureDryRunRest, Finish, FinishDry
  <2>4. QED
    BY <2>1, <2>2, <2>3 DEF IInv
<1>6. CASE Delete
  <2>1. Flags'
    BY <1>6, <1>b, Zenon DEF Flags, Delete, Begin, deleteTokenRole, deleteInitTokenPolicy
  <2>2. Data'
    <3>1. nops' = nops + 1 /\ nops < MaxOps /\ nenv' = nenv
      BY <1>6, Zenon DEF Delete, Begin
    <3>2. /\ role' \in Entries /\ policy' \in Entries
          /\ ret' \in {"ok", "err"}
          /\ UNCHANGED <<tstate, op, pc>>
      BY <1>6, <1>a, Zenon DEF Data, Delete, Entries, deleteTokenRole, deleteInitTokenPolicy
    <3>3. nops' \in 0..MaxOps /\ nenv' \in 0..MaxEnv
      BY <3>1, <1>a, BoundsAssumption DEF Data
    <3>4. QED
      BY <3>2, <3>3, <1>a, Zenon DEF Data, Entries
  <2>3. Rel'
    BY <1>6, <1>a, <1>b, <1>c DEF Rel, Delete, Begin, deleteTokenRole, deleteInitTokenPolicy
  <2>4. QED
    BY <2>1, <2>2, <2>3 DEF IInv
<1>7. CASE Environment
  <2>1. Flags'
    BY <1>7, <1>b, Zenon DEF Flags, Environment
  <2>2. Data'
    <3>1. nenv' = nenv + 1 /\ nenv < MaxEnv /\ nops' = nops
      BY <1>7, Zenon DEF Environment
    <3>2. /\ tstate' \in {"dead", "short", "valid"}
          /\ role' \in Entries /\ policy' \in Entries
          /\ UNCHANGED <<op, pc, ret>>
      BY <1>7, <1>a, Zenon DEF Data, Environment, Entries
    <3>3. nops' \in 0..MaxOps /\ nenv' \in 0..MaxEnv
      BY <3>1, <1>a, BoundsAssumption DEF Data
    <3>4. QED
      BY <3>2, <3>3, <1>a, Zenon DEF Data, Entries
  <2>3. Rel'
    BY <1>7, <1>a, <1>b, <1>c DEF Rel, Environment
  <2>4. QED
    BY <2>1, <2>2, <2>3 DEF IInv
<1>8. CASE UNCHANGED vars
  BY <1>8, <1>a, <1>b, <1>c DEF vars, IInv, Flags, Data, Rel
<1>9. QED
  BY <1>1, <1>2, <1>3, <1>4, <1>5, <1>6, <1>7, <1>8 DEF Next

LEMMA SpecIInv == Spec => []IInv
BY InitIInv, NextIInv, PTL DEF Spec

(* Every variable of the init-token model stays in its domain.            *)
THEOREM TypeCorrect == Spec => []TypeOK
BY SpecIInv, IInvTypeOK, PTL

(* The operations that start from an idle helper cannot end one that is  *)
(* running.                                                               *)
LEMMA IdleStart ==
    ASSUME IInv, op # "idle",
           ensureCreated \/ ensureDryRunExpDate \/ Delete \/ Environment
    PROVE  FALSE
BY Zenon DEF ensureCreated, ensureDryRunExpDate, Delete, Environment, Begin

(* An Ensure that returns nil leaves the token renewed, the role and the *)
(* policy written, for all bounds.                                        *)
THEOREM EnsureEstablishesHolds == Spec => EnsureEstablishes
<1>1. IInv /\ [Next]_vars
        => [op = "ensure" /\ op' = "idle" /\ ret' = "ok" => Ensured']_vars
  <2> SUFFICES ASSUME IInv, Next,
                      op = "ensure", op' = "idle", ret' = "ok"
               PROVE  Ensured'
    BY DEF vars
  <2>1. CASE EnsureRenew
    BY <2>1, Zenon DEF EnsureRenew, Finish, Ensured, IInv, Rel
  <2>2. CASE EnsureWrite
    BY <2>2, Zenon DEF EnsureWrite, Finish, writeTokenRole, writeInitTokenPolicy
  <2>3. CASE EnsureDryRunRest
    BY <2>3, Zenon DEF EnsureDryRunRest, IInv, Rel
  <2>4. CASE ensureCreated \/ ensureDryRunExpDate \/ Delete \/ Environment
    BY <2>4, IdleStart
  <2>5. QED
    BY <2>1, <2>2, <2>3, <2>4 DEF Next
<1>2. QED
  BY <1>1, SpecIInv, PTL DEF Spec, EnsureEstablishes

(* A dry run that returns (false, nil) saw a vault state in which Ensure  *)
(* has nothing to do, for all bounds.                                     *)
THEOREM DryRunSoundHolds == Spec => DryRunSound
<1>1. IInv /\ [Next]_vars
        => [op = "dryrun" /\ op' = "idle" /\ ret' = "ok" /\ ~changes'
              => Ensured']_vars
  <2> SUFFICES ASSUME IInv, Next,
                      op = "dryrun", op' = "idle", ret' = "ok", ~changes'
               PROVE  Ensured'
    BY DEF vars
  <2>1. CASE EnsureDryRunRest
    BY <2>1, Zenon DEF EnsureDryRunRest, FinishDry, Finish, Ensured, IInv,
                      Rel
  <2>2. CASE EnsureWrite \/ EnsureRenew
    BY <2>2, Zenon DEF EnsureWrite, EnsureRenew, IInv, Rel
  <2>3. CASE ensureCreated \/ ensureDryRunExpDate \/ Delete \/ Environment
    BY <2>3, IdleStart
  <2>4. QED
    BY <2>1, <2>2, <2>3 DEF Next
<1>2. QED
  BY <1>1, SpecIInv, PTL DEF Spec, DryRunSound
====
