---------------------------- MODULE TunnelProofs ----------------------------
(***************************************************************************)
(* Proofs about Tunnel for every MaxDialErrors, MaxDials and MaxStops:     *)
(* the tunnel stays well typed, and the idle reaper handleTimeout tears    *)
(* the tunnel down only after the channel of every connection it saw      *)
(* registered has fired.                                                  *)
(***************************************************************************)
EXTENDS Tunnel, TLAPS

(* TypeOK in two parts: the Boolean variables, and the others.            *)
Flags ==
    /\ daemonize \in BOOLEAN
    /\ panicked \in BOOLEAN
    /\ stopCalled \in BOOLEAN

Data ==
    /\ tstate \in {"new", "started", "failed"}
    /\ stopCh \in {"nil", "open", "closed"}
    /\ doneCh \in {"open", "closed"}
    /\ listener \in {"none", "open", "closed"}
    /\ daemon \in {"none", "alive", "killed"}
    /\ hpc \in HPCs
    /\ errCount \in 0..MaxDialErrors
    /\ cur \in 0..MaxDials
    /\ dialed \in 0..MaxDials
    /\ rConn \in [Dials -> ConnStates]
    /\ lConn \in [Dials -> ConnStates]
    /\ eofR \subseteq Dials /\ eofL \subseteq Dials
    /\ remoteConns \in (SUBSET Dials) \X (SUBSET Dials)
    /\ openConns \in Seq(Dials)
    /\ fired \subseteq Dials
    /\ copyA \in [Dials -> {"none", "copy", "sleep", "done"}]
    /\ copyB \in [Dials -> {"none", "copy", "done"}]
    /\ rpc \in RPCs
    /\ ri \in 0..MaxDials
    /\ stops \in 0..MaxStops
    /\ consec \in 0..MaxDialErrors
    /\ seenLen \in 0..MaxDials

(* What the accept loop knows of its counters: it dials only below the    *)
(* give-up bound, it sets up the pair of its last dial, and each pair is  *)
(* registered at most once, so t.openConns is never longer than the dials *)
(* made.                                                                   *)
HandleRel ==
    /\ tstate = "new" => hpc = "none"
    /\ hpc = "none" => errCount = 0
    /\ hpc \in {"dial", "accept", "append"} => errCount < MaxDialErrors
    /\ consec <= errCount
    /\ hpc \in {"accept", "append"} => cur \in 1..dialed
    /\ Len(openConns) + (IF hpc \in {"accept", "append"} THEN 1 ELSE 0)
         <= dialed

(* What the reaper knows: every channel before index ri of t.openConns     *)
(* has fired, it waits only on a registered one, and it left the loop     *)
(* having seen no more than ri channels.                                  *)
ReaperRel ==
    /\ ri <= Len(openConns)
    /\ rpc = "wait" => ri < Len(openConns)
    /\ \A j \in 1..ri : openConns[j] \in fired
    /\ rpc \in {"cleanup", "close_done", "exited"} => seenLen <= ri

IInv == Flags /\ Data /\ HandleRel /\ ReaperRel

LEMMA InitIInv == Init => IInv
<1> SUFFICES ASSUME Init PROVE IInv
  OBVIOUS
<1>1. Flags
  BY Zenon DEF Init, Flags
<1>2. Data
  BY DialErrorsAssumption, DialsAssumption, StopsAssumption
     DEF Init, Data, HPCs, RPCs, Dials, ConnStates
<1>3. HandleRel /\ ReaperRel
  BY DialErrorsAssumption DEF Init, HandleRel, ReaperRel
<1>4. QED
  BY <1>1, <1>2, <1>3 DEF IInv

LEMMA NextIInv == IInv /\ [Next]_vars => IInv'
<1> SUFFICES ASSUME IInv, [Next]_vars PROVE IInv'
  OBVIOUS
<1> USE DialErrorsAssumption, DialsAssumption, StopsAssumption
<1> USE DEF handleVars, connVars, goVars, tunVars, ghostVars
<1>a. Data
  BY DEF IInv
<1>b. Flags
  BY DEF IInv
<1>c. HandleRel
  BY DEF IInv
<1>d. ReaperRel
  BY DEF IInv
<1>1. CASE ~panicked /\ Start
  <2>1. Flags'
    BY <1>1, <1>b, Zenon DEF Flags, Start
  <2>2. Data'
    BY <1>1, <1>a, <1>c, <1>d DEF Data, HandleRel, ReaperRel, HPCs, RPCs, Dials, ConnStates, Start
  <2>3. HandleRel'
    BY <1>1, <1>a, <1>c DEF Data, HandleRel, Start
  <2>4. ReaperRel'
    BY <1>1, <1>a, <1>d DEF Data, ReaperRel, Start
  <2>5. QED
    BY <2>1, <2>2, <2>3, <2>4 DEF IInv
<1>2. CASE ~panicked /\ Stop
  <2>1. Flags'
    BY <1>2, <1>b, Zenon DEF Flags, Stop, Teardown
  <2>2. Data'
    BY <1>2, <1>a, <1>c, <1>d DEF Data, HandleRel, ReaperRel, HPCs, RPCs, Dials, ConnStates, Stop, Teardown
  <2>3. HandleRel'
    BY <1>2, <1>a, <1>c DEF Data, HandleRel, Stop, Teardown
  <2>4. ReaperRel'
    BY <1>2, <1>a, <1>d DEF Data, ReaperRel, Stop, Teardown
  <2>5. QED
    BY <2>1, <2>2, <2>3, <2>4 DEF IInv
<1>3. CASE ~panicked /\ DialFail
  <2>1. Flags'
    BY <1>3, <1>b, Zenon DEF Flags, DialFail
  <2>2. Data'
    BY <1>3, <1>a, <1>c, <1>d DEF Data, HandleRel, ReaperRel, HPCs, RPCs, Dials, ConnStates, DialFail
  <2>3. HandleRel'
    BY <1>3, <1>a, <1>c DEF Data, HandleRel, DialFail
  <2>4. ReaperRel'
    BY <1>3, <1>a, <1>d DEF Data, ReaperRel, DialFail
  <2>5. QED
    BY <2>1, <2>2, <2>3, <2>4 DEF IInv
<1>4. CASE ~panicked /\ DialOk
  <2>1. Flags'
    BY <1>4, <1>b, Zenon DEF Flags, DialOk
  <2>2. Data'
    BY <1>4, <1>a, <1>c, <1>d DEF Data, HandleRel, ReaperRel, HPCs, RPCs, Dials, ConnStates, DialOk
  <2>3. HandleRel'
    BY <1>4, <1>a, <1>c DEF Data, HandleRel, DialOk
  <2>4. ReaperRel'
    BY <1>4, <1>a, <1>d DEF Data, ReaperRel, DialOk
  <2>5. QED
    BY <2>1, <2>2, <2>3, <2>4 DEF IInv
<1>5. CASE ~panicked /\ AcceptFail
  <2>1. Flags'
    BY <1>5, <1>b, Zenon DEF Flags, AcceptFail
  <2>2. Data'
    BY <1>5, <1>a, <1>c, <1>d DEF Data, HandleRel, ReaperRel, HPCs, RPCs, Dials, ConnStates, AcceptFail
  <2>3. HandleRel'
    <3>1. hpc = "accept" /\ hpc' \in {"stopped", "dial"} /\ tstate' = tstate
          /\ UNCHANGED <<errCount, consec, cur, dialed, openConns>>
      BY <1>5 DEF AcceptFail
    <3>2. (IF hpc' \in {"accept", "append"} THEN 1 ELSE 0) = 0
      BY <3>1
    <3>3. tstate' # "new"
      BY <3>1, <1>c DEF HandleRel
    <3>4. QED
      BY <3>1, <3>2, <3>3, <1>a, <1>c DEF Data, HandleRel
  <2>4. ReaperRel'
    BY <1>5, <1>a, <1>d DEF Data, ReaperRel, AcceptFail
  <2>5. QED
    BY <2>1, <2>2, <2>3, <2>4 DEF IInv
<1>6. CASE ~panicked /\ AcceptOk
  <2>1. Flags'
    BY <1>6, <1>b, Zenon DEF Flags, AcceptOk
  <2>2. Data'
    BY <1>6, <1>a, <1>c, <1>d DEF Data, HandleRel, ReaperRel, HPCs, RPCs, Dials, ConnStates, AcceptOk
  <2>3. HandleRel'
    BY <1>6, <1>a, <1>c DEF Data, HandleRel, AcceptOk
  <2>4. ReaperRel'
    BY <1>6, <1>a, <1>d DEF Data, ReaperRel, AcceptOk
  <2>5. QED
    BY <2>1, <2>2, <2>3, <2>4 DEF IInv
<1>7. CASE ~panicked /\ Register
  <2>1. Flags'
    BY <1>7, <1>b, Zenon DEF Flags, Register
  <2>2. Data'
    BY <1>7, <1>a, <1>c, <1>d DEF Data, HandleRel, ReaperRel, HPCs, RPCs, Dials, ConnStates, Register
  <2>3. HandleRel'
    <3>1. hpc = "append" /\ hpc' = "dial" /\ tstate' = tstate
          /\ UNCHANGED <<errCount, consec, cur, dialed>>
          /\ openConns' = Append(openConns, cur)
      BY <1>7 DEF Register
    <3>2. cur \in Dials /\ Len(openConns) + 1 <= dialed
      BY <3>1, <1>a, <1>c DEF Data, HandleRel, Dials
    <3>3. Len(openConns') = Len(openConns) + 1
      BY <3>1, <3>2, <1>a DEF Data
    <3>4. tstate' # "new"
      BY <3>1, <1>c DEF HandleRel
    <3>5. QED
      BY <3>1, <3>3, <3>2, <3>4, <1>a, <1>c DEF Data, HandleRel
  <2>4. ReaperRel'
    BY <1>7, <1>a, <1>d DEF Data, ReaperRel, Register
  <2>5. QED
    BY <2>1, <2>2, <2>3, <2>4 DEF IInv
<1>8. CASE ~panicked /\ ReaperWake
  <2>1. Flags'
    BY <1>8, <1>b, Zenon DEF Flags, ReaperWake
  <2>2. Data'
    BY <1>8, <1>a, <1>c, <1>d DEF Data, HandleRel, ReaperRel, HPCs, RPCs, Dials, ConnStates, ReaperWake
  <2>3. HandleRel'
    BY <1>8, <1>a, <1>c DEF Data, HandleRel, ReaperWake
  <2>4. ReaperRel'
    BY <1>8, <1>a, <1>d DEF Data, ReaperRel, ReaperWake
  <2>5. QED
    BY <2>1, <2>2, <2>3, <2>4 DEF IInv
<1>9. CASE ~panicked /\ ReaperCheck
  <2>1. Flags'
    BY <1>9, <1>b, Zenon DEF Flags, ReaperCheck
  <2>2. Data'
    BY <1>9, <1>a, <1>c, <1>d DEF Data, HandleRel, ReaperRel, HPCs, RPCs, Dials, ConnStates, ReaperCheck
  <2>3. HandleRel'
    BY <1>9, <1>a, <1>c DEF Data, HandleRel, ReaperCheck
  <2>4. ReaperRel'
    BY <1>9, <1>a, <1>d DEF Data, ReaperRel, ReaperCheck
  <2>5. QED
    BY <2>1, <2>2, <2>3, <2>4 DEF IInv
<1>10. CASE ~panicked /\ ReaperWait
  <2>1. Flags'
    BY <1>10, <1>b, Zenon DEF Flags, ReaperWait
  <2>2. Data'
    BY <1>10, <1>a, <1>c, <1>d DEF Data, HandleRel, ReaperRel, HPCs, RPCs, Dials, ConnStates, ReaperWait
  <2>3. HandleRel'
    BY <1>10, <1>a, <1>c DEF Data, HandleRel, ReaperWait
  <2>4. ReaperRel'
    BY <1>10, <1>a, <1>d DEF Data, ReaperRel, ReaperWait
  <2>5. QED
    BY <2>1, <2>2, <2>3, <2>4 DEF IInv
<1>11. CASE ~panicked /\ ReaperCleanup
  <2>1. Flags'
    BY <1>11, <1>b, Zenon DEF Flags, ReaperCleanup, Teardown
  <2>2. Data'
    BY <1>11, <1>a, <1>c, <1>d DEF Data, HandleRel, ReaperRel, HPCs, RPCs, Dials, ConnStates, ReaperCleanup, Teardown
  <2>3. HandleRel'
    BY <1>11, <1>a, <1>c DEF Data, HandleRel, ReaperCleanup, Teardown
  <2>4. ReaperRel'
    BY <1>11, <1>a, <1>d DEF Data, ReaperRel, ReaperCleanup, Teardown
  <2>5. QED
    BY <2>1, <2>2, <2>3, <2>4 DEF IInv
<1>12. CASE ~panicked /\ ReaperCloseDone
  <2>1. Flags'
    BY <1>12, <1>b, Zenon DEF Flags, ReaperCloseDone
  <2>2. Data'
    BY <1>12, <1>a, <1>c, <1>d DEF Data, HandleRel, ReaperRel, HPCs, RPCs, Dials, ConnStates, ReaperCloseDone
  <2>3. HandleRel'
    BY <1>12, <1>a, <1>c DEF Data, HandleRel, ReaperCloseDone
  <2>4. ReaperRel'
    BY <1>12, <1>a, <1>d DEF Data, ReaperRel, ReaperCloseDone
  <2>5. QED
    BY <2>1, <2>2, <2>3, <2>4 DEF IInv
<1>13. ASSUME NEW d \in Dials, ~panicked, CopyAReturn(d) PROVE IInv'
  <2>1. Flags'
    BY <1>13, <1>b, Zenon DEF Flags, CopyAReturn
  <2>2. Data'
    BY <1>13, <1>a, <1>c, <1>d DEF Data, HandleRel, ReaperRel, HPCs, RPCs, Dials, ConnStates, CopyAReturn
  <2>3. HandleRel'
    BY <1>13, <1>a, <1>c DEF Data, HandleRel, CopyAReturn
  <2>4. ReaperRel'
    BY <1>13, <1>a, <1>d DEF Data, ReaperRel, CopyAReturn
  <2>5. QED
    BY <2>1, <2>2, <2>3, <2>4 DEF IInv
<1>14. ASSUME NEW d \in Dials, ~panicked, CopyAFire(d) PROVE IInv'
  <2>1. Flags'
    BY <1>14, <1>b, Zenon DEF Flags, CopyAFire
  <2>2. Data'
    BY <1>14, <1>a, <1>c, <1>d DEF Data, HandleRel, ReaperRel, HPCs, RPCs, Dials, ConnStates, CopyAFire
  <2>3. HandleRel'
    BY <1>14, <1>a, <1>c DEF Data, HandleRel, CopyAFire
  <2>4. ReaperRel'
    BY <1>14, <1>a, <1>d DEF Data, ReaperRel, CopyAFire
  <2>5. QED
    BY <2>1, <2>2, <2>3, <2>4 DEF IInv
<1>15. ASSUME NEW d \in Dials, ~panicked, CopyBReturn(d) PROVE IInv'
  <2>1. Flags'
    BY <1>15, <1>b, Zenon DEF Flags, CopyBReturn
  <2>2. Data'
    BY <1>15, <1>a, <1>c, <1>d DEF Data, HandleRel, ReaperRel, HPCs, RPCs, Dials, ConnStates, CopyBReturn
  <2>3. HandleRel'
    BY <1>15, <1>a, <1>c DEF Data, HandleRel, CopyBReturn
  <2>4. ReaperRel'
    BY <1>15, <1>a, <1>d DEF Data, ReaperRel, CopyBReturn
  <2>5. QED
    BY <2>1, <2>2, <2>3, <2>4 DEF IInv
<1>16. ASSUME NEW d \in Dials, ~panicked, RemoteHangUp(d) PROVE IInv'
  <2>1. Flags'
    BY <1>16, <1>b, Zenon DEF Flags, RemoteHangUp
  <2>2. Data'
    BY <1>16, <1>a, <1>c, <1>d DEF Data, HandleRel, ReaperRel, HPCs, RPCs, Dials, ConnStates, RemoteHangUp
  <2>3. HandleRel'
    BY <1>16, <1>a, <1>c DEF Data, HandleRel, RemoteHangUp
  <2>4. ReaperRel'
    BY <1>16, <1>a, <1>d DEF Data, ReaperRel, RemoteHangUp
  <2>5. QED
    BY <2>1, <2>2, <2>3, <2>4 DEF IInv
<1>17. ASSUME NEW d \in Dials, ~panicked, ClientHangUp(d) PROVE IInv'
  <2>1. Flags'
    BY <1>17, <1>b, Zenon DEF Flags, ClientHangUp
  <2>2. Data'
    BY <1>17, <1>a, <1>c, <1>d DEF Data, HandleRel, ReaperRel, HPCs, RPCs, Dials, ConnStates, ClientHangUp
  <2>3. HandleRel'
    BY <1>17, <1>a, <1>c DEF Data, HandleRel, ClientHangUp
  <2>4. ReaperRel'
    BY <1>17, <1>a, <1>d DEF Data, ReaperRel, ClientHangUp
  <2>5. QED
    BY <2>1, <2>2, <2>3, <2>4 DEF IInv
<1>18. CASE UNCHANGED vars
  BY <1>18, <1>a, <1>b, <1>c, <1>d DEF vars, IInv, Flags, Data, HandleRel, ReaperRel
<1>19. QED
  BY <1>1, <1>2, <1>3, <1>4, <1>5, <1>6, <1>7, <1>8, <1>9, <1>10, <1>11, <1>12, <1>13, <1>14, <1>15, <1>16, <1>17, <1>18
     DEF Next, Handle, Copiers, Peers, Reaper

LEMMA SpecIInv == Spec => []IInv
BY InitIInv, NextIInv, PTL DEF Spec

(* Every variable of the tunnel stays in its domain: in particular the    *)
(* dial error count never passes the give-up bound, and handleTimeout's  *)
(* index i never runs past t.openConns.                                   *)
THEOREM TypeCorrect == Spec => []TypeOK
<1>1. IInv => TypeOK
  BY DEF IInv, Flags, Data, TypeOK
<1>2. QED
  BY <1>1, SpecIInv, PTL

(* For every bound, handleTimeout runs cleanup only after the channel of  *)
(* every connection registered in t.openConns at its last check under     *)
(* connsLock has fired, connections handle registered while the reaper   *)
(* waited included.                                                        *)
THEOREM ReaperWaitsForAllIdleHolds == Spec => []ReaperWaitsForAllIdle
<1>1. IInv => ReaperWaitsForAllIdle
  <2> SUFFICES ASSUME IInv, rpc \in {"cleanup", "close_done", "exited"},
                      NEW j \in 1..seenLen
               PROVE  openConns[j] \in fired
    BY DEF ReaperWaitsForAllIdle
  <2>1. seenLen <= ri /\ \A i \in 1..ri : openConns[i] \in fired
    BY DEF IInv, ReaperRel
  <2>2. j \in 1..ri
    BY <2>1 DEF IInv, Data
  <2>3. QED
    BY <2>1, <2>2
<1>2. QED
  BY <1>1, SpecIInv, PTL
=============================================================================
