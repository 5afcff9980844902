------------------------------ MODULE Bastion ------------------------------
(***************************************************************************)
(* The control RPC method BastionInstanceStatus of                         *)
(* pkg/terraform/providers/tarmak/rpc/bastion_instance_status.go, called   *)
(* by the tarmak terraform provider while terraformWrapper's listener is   *)
(* up.  net/rpc serves every request in a goroutine of its own, so the     *)
(* calls in Calls run concurrently.  The handler answers "unknown" in the *)
(* destroy state, else retries VerifyBastionAvailable up to Retries times *)
(* with a 1s sleep after each failure.                                     *)
(***************************************************************************)
EXTENDS Naturals

CONSTANTS
    Calls,    \* the requests served
    Retries   \* rpc.Retries

(* rpc.Retries is a positive constant of the rpc package.                  *)
ASSUME RetriesAssumption == Retries \in Nat \ {0}

VARIABLES
    destroying, \* r.cluster.GetState() == StateDestroy
    pc,         \* pc[c]: where the goroutine serving call c is
    i,          \* i[c]: the loop counter of call c
    err,        \* err[c]: the last VerifyBastionAvailable failed
    status,     \* status[c]: result.Status, or "error" for a returned error
    checks,     \* ghost: checks[c] is the number of VerifyBastionAvailable calls
    lastOk      \* ghost: lastOk[c] is TRUE when the last of them succeeded

vars == <<destroying, pc, i, err, status, checks, lastOk>>

PCs == {"idle", "recv", "loop", "reply", "done"}
Statuses == {"none", "unknown", "ready", "error"}

(* Type invariant of the handler.                                          *)
TypeOK ==
    /\ destroying \in BOOLEAN
    /\ pc \in [Calls -> PCs]
    /\ i \in [Calls -> 1..(Retries + 1)]
    /\ err \in [Calls -> BOOLEAN]
    /\ status \in [Calls -> Statuses]
    /\ checks \in [Calls -> 0..Retries]
    /\ lastOk \in [Calls -> BOOLEAN]

Init ==
    /\ destroying \in BOOLEAN
    /\ pc = [c \in Calls |-> "idle"]
    /\ i = [c \in Calls |-> 1]
    /\ err = [c \in Calls |-> FALSE]
    /\ status = [c \in Calls |-> "none"]
    /\ checks = [c \in Calls |-> 0]
    /\ lastOk = [c \in Calls |-> FALSE]

\* The provider sends request c over the unix socket.
Request(c) ==
    /\ pc[c] = "idle" /\ pc' = [pc EXCEPT ![c] = "recv"]
    /\ UNCHANGED <<destroying, i, err, status, checks, lastOk>>

(* The destroy state is answered at once; otherwise the loop starts with   *)
(* i := 1 and err = nil.                                                   *)
Receive(c) ==
    /\ pc[c] = "recv"
    /\ \/ destroying /\ status' = [status EXCEPT ![c] = "unknown"]
          /\ pc' = [pc EXCEPT ![c] = "done"]
       \/ ~destroying /\ pc' = [pc EXCEPT ![c] = "loop"] /\ UNCHANGED status
    /\ UNCHANGED <<destroying, i, err, checks, lastOk>>

\* Mutant: the loop test written i <= Retries + 1.
LoopOneExtra(c) ==
    /\ pc[c] = "loop"
    /\ \/ /\ i[c] <= Retries + 1
          /\ checks' = [checks EXCEPT ![c] = checks[c] + 1]
          /\ \/ /\ err' = [err EXCEPT ![c] = FALSE]
                /\ lastOk' = [lastOk EXCEPT ![c] = TRUE]
                /\ pc' = [pc EXCEPT ![c] = "reply"] /\ UNCHANGED i
             \/ /\ err' = [err EXCEPT ![c] = TRUE]
                /\ lastOk' = [lastOk EXCEPT ![c] = FALSE]
                /\ i' = [i EXCEPT ![c] = i[c] + 1] /\ UNCHANGED pc
       \/ /\ i[c] > Retries + 1 /\ pc' = [pc EXCEPT ![c] = "reply"]
          /\ UNCHANGED <<i, err, checks, lastOk>>
    /\ UNCHANGED <<destroying, status>>

\* Mutant: the loop test written i < Retries.
LoopOffByOne(c) ==
    /\ pc[c] = "loop"
    /\ \/ /\ i[c] < Retries
          /\ checks' = [checks EXCEPT ![c] = checks[c] + 1]
          /\ \/ /\ err' = [err EXCEPT ![c] = FALSE]
                /\ lastOk' = [lastOk EXCEPT ![c] = TRUE]
                /\ pc' = [pc EXCEPT ![c] = "reply"] /\ UNCHANGED i
             \/ /\ err' = [err EXCEPT ![c] = TRUE]
                /\ lastOk' = [lastOk EXCEPT ![c] = FALSE]
                /\ i' = [i EXCEPT ![c] = i[c] + 1] /\ UNCHANGED pc
       \/ /\ i[c] >= Retries /\ pc' = [pc EXCEPT ![c] = "reply"]
          /\ UNCHANGED <<i, err, checks, lastOk>>
    /\ UNCHANGED <<destroying, status>>

(* One pass of `for i := 1; i <= Retries; i++`: VerifyBastionAvailable    *)
(* succeeds (break) or fails (log, sleep 1s, i++); past the bound the     *)
(* loop ends.                                                              *)
Loop(c) ==
    /\ pc[c] = "loop"
    /\ \/ /\ i[c] <= Retries
          /\ checks' = [checks EXCEPT ![c] = checks[c] + 1]
          /\ \/ /\ err' = [err EXCEPT ![c] = FALSE]
                /\ lastOk' = [lastOk EXCEPT ![c] = TRUE]
                /\ pc' = [pc EXCEPT ![c] = "reply"] /\ UNCHANGED i
             \/ /\ err' = [err EXCEPT ![c] = TRUE]
                /\ lastOk' = [lastOk EXCEPT ![c] = FALSE]
                /\ i' = [i EXCEPT ![c] = i[c] + 1] /\ UNCHANGED pc
       \/ /\ i[c] > Retries /\ pc' = [pc EXCEPT ![c] = "reply"]
          /\ UNCHANGED <<i, err, checks, lastOk>>
    /\ UNCHANGED <<destroying, status>>

\* After the loop: return the wrapped error, or answer "ready".
Reply(c) ==
    /\ pc[c] = "reply"
    /\ status' = [status EXCEPT ![c] = IF err[c] THEN "error" ELSE "ready"]
    /\ pc' = [pc EXCEPT ![c] = "done"]
    /\ UNCHANGED <<destroying, i, err, checks, lastOk>>

Next == \E c \in Calls : Request(c) \/ Receive(c) \/ Loop(c) \/ Reply(c)

Spec == Init /\ [][Next]_vars
-----------------------------------------------------------------------------
(* Spec 8: in the destroy state the answer is "unknown" with no check made; *)
(* otherwise "ready" only right after a successful check, and an error     *)
(* only once Retries checks all failed; never more than Retries checks.    *)
ReplyContract ==
    \A c \in Calls :
        /\ status[c] = "unknown" => destroying /\ checks[c] = 0
        /\ status[c] = "ready" => ~destroying /\ lastOk[c]
        /\ status[c] = "error" => ~lastOk[c] /\ checks[c] = Retries
====
