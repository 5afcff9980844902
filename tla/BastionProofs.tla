---------------------------- MODULE BastionProofs ----------------------------
(***************************************************************************)
(* BastionInstanceStatus keeps its reply contract for every number of     *)
(* concurrent calls and every positive Retries.                           *)
(***************************************************************************)
EXTENDS Bastion, TLAPS

(* What each goroutine knows at each point of the handler: before the     *)
(* loop nothing was checked; in the loop i - 1 checks were made and all   *)
(* failed; at the reply err is the negation of the last check, and an    *)
(* error means the bound was reached.  No status is set before the end.   *)
CallInv(c) ==
    /\ pc[c] \in {"idle", "recv"} => checks[c] = 0 /\ i[c] = 1
    /\ pc[c] = "loop" =>
         /\ ~destroying /\ checks[c] = i[c] - 1
         /\ i[c] > 1 => err[c] /\ ~lastOk[c]
    /\ pc[c] = "reply" =>
         /\ ~destroying /\ checks[c] >= 1 /\ err[c] = ~lastOk[c]
         /\ err[c] => checks[c] = Retries
    /\ pc[c] # "done" => status[c] = "none"

IInv == TypeOK /\ ReplyContract /\ \A c \in Calls : CallInv(c)

LEMMA InitIInv == Init => IInv
  BY RetriesAssumption DEF Init, IInv, TypeOK, ReplyContract, CallInv, PCs,
     Statuses

LEMMA NextIInv == IInv /\ [Next]_vars => IInv'
  <1> SUFFICES ASSUME IInv, [Next]_vars PROVE IInv'
    OBVIOUS
  <1> USE RetriesAssumption DEF IInv, TypeOK, ReplyContract, CallInv, PCs,
          Statuses
  <1>1. ASSUME NEW c \in Calls, Request(c) PROVE IInv'
    BY <1>1 DEF Request
  <1>2. ASSUME NEW c \in Calls, Receive(c) PROVE IInv'
    BY <1>2 DEF Receive
  <1>3. ASSUME NEW c \in Calls, Loop(c) PROVE IInv'
    <2>0. pc[c] = "loop" /\ CallInv(c)
      BY <1>3 DEF Loop
    <2>1. CASE /\ i[c] <= Retries
               /\ checks' = [checks EXCEPT ![c] = checks[c] + 1]
               /\ err' = [err EXCEPT ![c] = FALSE]
               /\ lastOk' = [lastOk EXCEPT ![c] = TRUE]
               /\ pc' = [pc EXCEPT ![c] = "reply"]
               /\ UNCHANGED <<destroying, i, status>>
      <3>1. TypeOK'
        BY <2>0, <2>1
      <3>2. ReplyContract'
        BY <2>0, <2>1
      <3>3. ASSUME NEW d \in Calls PROVE CallInv(d)'
        <4>1. CASE d = c
          <5>1. pc'[c] = "reply" /\ status'[c] = "none" /\ ~destroying'
            BY <2>0, <2>1
          <5>2. checks'[c] >= 1
            BY <2>0, <2>1
          <5>3. ~err'[c] /\ (err'[c] = ~lastOk'[c])
            BY <2>1, Zenon
          <5>4. CallInv(c)'
            BY <5>1, <5>2, <5>3
          <5>5. QED
            BY <4>1, <5>4
        <4>2. CASE d # c
          BY <2>0, <2>1, <4>2
        <4>3. QED
          BY <4>1, <4>2
      <3>4. QED
        BY <3>1, <3>2, <3>3
    <2>2. CASE /\ i[c] <= Retries
               /\ checks' = [checks EXCEPT ![c] = checks[c] + 1]
               /\ err' = [err EXCEPT ![c] = TRUE]
               /\ lastOk' = [lastOk EXCEPT ![c] = FALSE]
               /\ i' = [i EXCEPT ![c] = i[c] + 1]
               /\ UNCHANGED <<destroying, pc, status>>
      <3>1. TypeOK'
        BY <2>0, <2>2
      <3>2. ReplyContract'
        BY <2>0, <2>2
      <3>3. ASSUME NEW d \in Calls PROVE CallInv(d)'
        <4>1. CASE d = c
          <5>1. pc'[c] = "loop" /\ status'[c] = "none" /\ ~destroying'
            BY <2>0, <2>2
          <5>2. checks'[c] = i'[c] - 1 /\ i'[c] > 1
            BY <2>0, <2>2
          <5>3. err'[c] /\ ~lastOk'[c]
            BY <2>2, Zenon
          <5>4. QED
            BY <4>1, <5>1, <5>2, <5>3
        <4>2. CASE d # c
          BY <2>0, <2>2, <4>2
        <4>3. QED
          BY <4>1, <4>2
      <3>4. QED
        BY <3>1, <3>2, <3>3
    <2>3. CASE /\ i[c] > Retries
               /\ pc' = [pc EXCEPT ![c] = "reply"]
               /\ UNCHANGED <<destroying, i, err, status, checks, lastOk>>
      <3>1. TypeOK'
        BY <2>0, <2>3
      <3>2. ReplyContract'
        BY <2>0, <2>3
      <3>3. ASSUME NEW d \in Calls PROVE CallInv(d)'
        BY <2>0, <2>3
      <3>4. QED
        BY <3>1, <3>2, <3>3
    <2>4. QED
      BY <1>3, <2>1, <2>2, <2>3, Zenon DEF Loop
  <1>4. ASSUME NEW c \in Calls, Reply(c) PROVE IInv'
    BY <1>4 DEF Reply
  <1>5. CASE UNCHANGED vars
    BY <1>5 DEF vars
  <1>6. QED
    BY <1>1, <1>2, <1>3, <1>4, <1>5 DEF Next

(* The reply contract of BastionInstanceStatus holds in every reachable   *)
(* state, for any set of concurrent calls and any positive rpc.Retries.   *)
THEOREM ReplyContractHolds == Spec => [](TypeOK /\ ReplyContract)
  <1>1. Init => IInv
    BY InitIInv
  <1>2. IInv /\ [Next]_vars => IInv'
    BY NextIInv
  <1>3. IInv => TypeOK /\ ReplyContract
    BY DEF IInv
  <1>4. QED
    BY <1>1, <1>2, <1>3, PTL DEF Spec

(* For any set of calls and any positive rpc.Retries, the loop counter of *)
(* every goroutine stays within 1..Retries + 1 and it never calls         *)
(* VerifyBastionAvailable more than Retries times.                        *)
THEOREM TypeCorrect == Spec => []TypeOK
  <1>1. IInv => TypeOK
    BY DEF IInv
  <1>2. QED
    BY <1>1, InitIInv, NextIInv, PTL DEF Spec
=============================================================================
