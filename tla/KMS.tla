-------------------------------- MODULE KMS --------------------------------
(***************************************************************************)
(* ensureEncryptionProviderKMS and initEncrytionProviderKMS of            *)
(* pkg/tarmak/provider/amazon/encryption_provider_kms.go.  Every tarmak   *)
(* invocation runs them with a fresh Amazon struct; invocations may run   *)
(* at the same time against one account, so the Runs interleave.  Each   *)
(* AWS call is one atomic step; a.KMS() and each call may fail.           *)
(***************************************************************************)
EXTENDS Naturals, FiniteSets

CONSTANTS
    Runs,   \* tarmak invocations
    Keys,   \* key ids CreateKey can return
    NoKey   \* a nil key / an unbound alias

(* Every invocation can get a key id of its own from CreateKey.            *)
ASSUME KeysAssumption ==
    /\ NoKey \notin Keys
    /\ IsFiniteSet(Runs) /\ Cardinality(Runs) <= Cardinality(Keys)

VARIABLES
    keys,       \* the account's KMS keys
    alias,      \* the key EncryptionProviderKMSName() targets, or NoKey
    pc,         \* pc[r]: where invocation r is
    newKey,     \* newKey[r]: k.KeyMetadata of CreateKey in r, or NoKey
    encKMS,     \* encKMS[r]: a.encryptionProviderKMS of r
    remoteKMS,  \* remoteKMS[r]: a.remoteStateKMS of r
    res         \* res[r]: what r's call returned

vars == <<keys, alias, pc, newKey, encKMS, remoteKMS, res>>

KeyOrNone == Keys \cup {NoKey}

(* Type invariant of the key provisioning.                                 *)
TypeOK ==
    /\ keys \subseteq Keys
    /\ alias \in KeyOrNone
    /\ pc \in [Runs -> {"describe", "create", "alias", "done"}]
    /\ newKey \in [Runs -> KeyOrNone]
    /\ encKMS \in [Runs -> KeyOrNone]
    /\ remoteKMS \in [Runs -> KeyOrNone]
    /\ res \in [Runs -> {"none", "ok", "err"}]

Init ==
    /\ keys = {}
    /\ alias = NoKey
    /\ pc = [r \in Runs |-> "describe"]
    /\ newKey = [r \in Runs |-> NoKey]
    /\ encKMS = [r \in Runs |-> NoKey]
    /\ remoteKMS = [r \in Runs |-> NoKey]
    /\ res = [r \in Runs |-> "none"]

Return(r, v) ==
    /\ pc' = [pc EXCEPT ![r] = "done"]
    /\ res' = [res EXCEPT ![r] = v]

(* a.KMS(), then DescribeKey on the alias name: a bound alias gives its  *)
(* key, whose ARN goes to a.remoteStateKMS; an awserr whose code holds    *)
(* NotFound leads to initEncrytionProviderKMS; any other error returns.   *)
ensureEncryptionProviderKMS(r) ==
    /\ pc[r] = "describe"
    /\ \/ /\ alias # NoKey
          /\ remoteKMS' = [remoteKMS EXCEPT ![r] = alias]
          /\ Return(r, "ok")
       \/ /\ alias = NoKey
          /\ pc' = [pc EXCEPT ![r] = "create"]
          /\ UNCHANGED <<remoteKMS, res>>
       \/ Return(r, "err") /\ UNCHANGED remoteKMS
    /\ UNCHANGED <<keys, alias, newKey, encKMS>>

(* a.KMS() and CreateKey: a new key exists from here on.                  *)
initCreateKey(r) ==
    /\ pc[r] = "create"
    /\ \/ \E k \in Keys \ keys :
             /\ keys' = keys \cup {k}
             /\ newKey' = [newKey EXCEPT ![r] = k]
             /\ pc' = [pc EXCEPT ![r] = "alias"]
             /\ UNCHANGED res
       \/ Return(r, "err") /\ UNCHANGED <<keys, newKey>>
    /\ UNCHANGED <<alias, encKMS, remoteKMS>>

\* Mutant: the AlreadyExists error of CreateAlias is dropped.
initCreateAliasIgnoresExists(r) ==
    /\ pc[r] = "alias"
    /\ \/ /\ alias = NoKey /\ alias' = newKey[r]
          /\ encKMS' = [encKMS EXCEPT ![r] = newKey[r]]
          /\ Return(r, "ok")
       \/ /\ alias # NoKey /\ UNCHANGED alias
          /\ encKMS' = [encKMS EXCEPT ![r] = newKey[r]]
          /\ Return(r, "ok")
       \/ Return(r, "err") /\ UNCHANGED <<alias, encKMS>>
    /\ UNCHANGED <<keys, newKey, remoteKMS>>

(* CreateAlias binds the alias to the new key and the ARN goes to         *)
(* a.encryptionProviderKMS; it fails when the alias exists already (a    *)
(* concurrent invocation bound it) or for any other reason, and the new   *)
(* key is then left behind.                                               *)
initCreateAlias(r) ==
    /\ pc[r] = "alias"
    /\ \/ /\ alias = NoKey /\ alias' = newKey[r]
          /\ encKMS' = [encKMS EXCEPT ![r] = newKey[r]]
          /\ Return(r, "ok")
       \/ Return(r, "err") /\ UNCHANGED <<alias, encKMS>>
    /\ UNCHANGED <<keys, newKey, remoteKMS>>

Next == \E r \in Runs :
            \/ ensureEncryptionProviderKMS(r)
            \/ initCreateKey(r)
            \/ initCreateAlias(r)

Spec == Init /\ [][Next]_vars
-----------------------------------------------------------------------------
(* No invocation that reported success left a key behind: every key the  *)
(* alias does not target was created by an invocation that failed or has  *)
(* not returned (a CreateAlias that lost the race with another run).      *)
NoOrphanOnSuccess ==
    \A k \in keys \ {alias} :
        \A r \in Runs : newKey[r] = k => res[r] # "ok"

(* An invocation that succeeded recorded the key of the alias as the      *)
(* encryption-provider key.                                               *)
ProviderKeyRecorded ==
    \A r \in Runs : res[r] = "ok" => encKMS[r] = alias

(* The key an invocation recorded: a.encryptionProviderKMS when it       *)
(* created the key, a.remoteStateKMS when DescribeKey found it.           *)
ProviderKey(r) == IF encKMS[r] # NoKey THEN encKMS[r] ELSE remoteKMS[r]

(* Concurrent invocations that both returned nil use one and the same    *)
(* key, whichever of them created it and whichever found it through       *)
(* DescribeKey: the race of two CreateKey/CreateAlias sequences on one    *)
(* alias leaves a single winner.                                          *)
ProviderKeyAgreed ==
    \A r, s \in Runs :
        res[r] = "ok" /\ res[s] = "ok" => ProviderKey(r) = ProviderKey(s)
====
