---------------------------- MODULE KMSProofs ----------------------------
(***************************************************************************)
(* Proofs about the key provisioning of KMS, for any set of invocations   *)
(* and of key ids: no invocation that succeeded leaves a key behind, and  *)
(* all invocations that succeeded use one key.                            *)
(***************************************************************************)
EXTENDS KMS, TLAPS

(* The strengthening: a key an invocation created exists; an invocation  *)
(* about to bind the alias holds a key; one that has not returned has no  *)
(* result; one still before CreateKey holds none; and one that succeeded  *)
(* after creating a key bound the alias to it; only a returning          *)
(* CreateAlias records a.encryptionProviderKMS; and the key of every      *)
(* invocation that succeeded is the one the alias targets.                *)
IInv ==
    /\ TypeOK
    /\ \A r \in Runs : newKey[r] # NoKey => newKey[r] \in keys
    /\ \A r \in Runs : pc[r] = "alias" => newKey[r] # NoKey
    /\ \A r \in Runs : pc[r] # "done" => res[r] = "none"
    /\ \A r \in Runs : pc[r] \in {"describe", "create"} => newKey[r] = NoKey
    /\ \A r \in Runs : res[r] = "ok" /\ newKey[r] # NoKey => alias = newKey[r]
    /\ \A r \in Runs : pc[r] # "done" => encKMS[r] = NoKey
    /\ \A r \in Runs : res[r] = "ok" => alias # NoKey /\ ProviderKey(r) = alias

LEMMA InitIInv == Init => IInv
BY KeysAssumption DEF Init, IInv, TypeOK, KeyOrNone, ProviderKey

LEMMA NextIInv == IInv /\ [Next]_vars => IInv'
<1> SUFFICES ASSUME IInv, [Next]_vars PROVE IInv'
  OBVIOUS
<1>1. CASE \E r \in Runs : ensureEncryptionProviderKMS(r)
  BY <1>1 DEF IInv, TypeOK, KeyOrNone, ProviderKey, ensureEncryptionProviderKMS, Return
<1>2. CASE \E r \in Runs : initCreateKey(r)
  BY <1>2, KeysAssumption DEF IInv, TypeOK, KeyOrNone, ProviderKey, initCreateKey, Return
<1>3. CASE \E r \in Runs : initCreateAlias(r)
  BY <1>3 DEF IInv, TypeOK, KeyOrNone, ProviderKey, initCreateAlias, Return
<1>4. CASE UNCHANGED vars
  BY <1>4 DEF IInv, TypeOK, KeyOrNone, ProviderKey, vars
<1>5. QED
  BY <1>1, <1>2, <1>3, <1>4 DEF Next

(* No invocation that reported success left an unaliased key behind, for *)
(* every number of concurrent tarmak invocations.                         *)
THEOREM NoOrphanOnSuccessHolds == Spec => [](TypeOK /\ NoOrphanOnSuccess)
<1>1. IInv => TypeOK /\ NoOrphanOnSuccess
  BY KeysAssumption DEF IInv, TypeOK, NoOrphanOnSuccess
<1>2. QED
  BY <1>1, InitIInv, NextIInv, PTL DEF Spec

(* Every two invocations that returned nil, for any number of concurrent *)
(* tarmak invocations, recorded the same key.                             *)
THEOREM ProviderKeyAgreedHolds == Spec => []ProviderKeyAgreed
<1>1. IInv => ProviderKeyAgreed
  BY DEF IInv, ProviderKeyAgreed, ProviderKey
<1>2. QED
  BY <1>1, InitIInv, NextIInv, PTL DEF Spec
====
