------------------------------- MODULE Tunnel -------------------------------
(***************************************************************************)
(* One Tunnel of pkg/tarmak/ssh/tunnel.go: Start, the accept loop handle   *)
(* (dial through the bastion, accept a local connection, pair them), the  *)
(* two io.Copy goroutines of each pair, the idle reaper handleTimeout,    *)
(* and Stop/cleanup.  Every goroutine is a process of its own; a section  *)
(* run under connsLock is one atomic step.  The data the tunnel forwards  *)
(* is abstracted away: a connection is open or closed, and its peer may   *)
(* have hung up.  Time is abstract: the 3s backoff, the 10 minute sleeps  *)
(* and the 3s daemon warm-up are steps that may happen at any moment.     *)
(***************************************************************************)
EXTENDS Naturals, Sequences

CONSTANTS
    MaxDialErrors,  \* the dial failures after which handle gives up (10)
    MaxDials,       \* bound on the successful dials of a run
    MaxStops        \* bound on the calls of Stop

ASSUME DialErrorsAssumption == MaxDialErrors \in Nat \ {0}
ASSUME DialsAssumption == MaxDials \in Nat
ASSUME StopsAssumption == MaxStops \in Nat

\* Pair d is the remote connection of the d-th successful dial and the
\* local connection accepted after it.
Dials == 1..MaxDials
ConnStates == {"none", "open", "closed"}

VARIABLES
    tstate,     \* "new" (constructed), "started" or "failed" (Start returned)
    daemonize,  \* t.daemonize
    stopCh,     \* t.stopCh: "nil" until Start makes it, then "open"/"closed"
    doneCh,     \* t.doneCh: "open" or "closed"
    listener,   \* t.listener: "none", "open" or "closed"
    daemon,     \* t.daemon: "none", "alive" or "killed"
    hpc,        \* where the handle goroutine is
    errCount,   \* handle's errCount
    cur,        \* handle's remoteConn: the pair being set up
    dialed,     \* successful dials so far
    rConn,      \* rConn[d]: state of the remote connection of pair d
    lConn,      \* lConn[d]: state of the local connection of pair d
    eofR,       \* pairs whose remote end hung up
    eofL,       \* pairs whose local client hung up
    remoteConns,\* t.remoteConns, as the sets of pairs whose remote and
                \* local connections were appended: <<R, L>>
    openConns,  \* t.openConns: the pairs whose channel ch was registered
    fired,      \* pairs whose ch was closed
    copyA,      \* copyA[d]: the local-to-remote copier of pair d
    copyB,      \* copyB[d]: the remote-to-local copier of pair d
    rpc,        \* where the handleTimeout goroutine is
    ri,         \* handleTimeout's i
    stops,      \* calls of Stop so far
    panicked,   \* the process died of a panic
    consec,     \* ghost: dial failures since the last successful dial
    seenLen,    \* ghost: len(t.openConns) at the reaper's last check
    stopCalled  \* ghost: Stop was called

handleVars == <<hpc, errCount, cur, dialed>>
connVars == <<rConn, lConn, eofR, eofL, remoteConns, openConns, fired>>
goVars == <<copyA, copyB, rpc, ri>>
tunVars == <<tstate, daemonize, stopCh, doneCh, listener, daemon, stops>>
ghostVars == <<panicked, consec, seenLen, stopCalled>>
vars == <<handleVars, connVars, goVars, tunVars, ghostVars>>

HPCs == {"none", "dial", "accept", "append", "stopped", "gaveup"}
RPCs == {"none", "sleep", "check", "wait", "cleanup", "close_done", "exited"}

(* Type invariant of the tunnel.                                           *)
TypeOK ==
    /\ tstate \in {"new", "started", "failed"}
    /\ daemonize \in BOOLEAN
    /\ stopCh \in {"nil", "open", "closed"}
    /\ doneCh \in {"open", "closed"}
    /\ listener \in {"none", "open", "closed"}
    /\ daemon \in {"none", "alive", "killed"}
    /\ hpc \in HPCs
    /\ errCount \in 0..MaxDialErrors
    /\ cur \in 0..MaxDials
    /\ dialed \in 0..MaxDials
    /\ rConn \in [Dials -> ConnStates]
    /\ lConn \in [Dials -> ConnStates]
    /\ eofR \subseteq Dials /\ eofL \subseteq Dials
    /\ remoteConns \in (SUBSET Dials) \X (SUBSET Dials)
    /\ openConns \in Seq(Dials)
    /\ fired \subseteq Dials
    /\ copyA \in [Dials -> {"none", "copy", "sleep", "done"}]
    /\ copyB \in [Dials -> {"none", "copy", "done"}]
    /\ rpc \in RPCs
    /\ ri \in 0..MaxDials
    /\ stops \in 0..MaxStops
    /\ panicked \in BOOLEAN
    /\ consec \in 0..MaxDialErrors
    /\ seenLen \in 0..MaxDials
    /\ stopCalled \in BOOLEAN

(* SSH.Tunnel: a new tunnel with its doneCh, in either mode.               *)
Init ==
    /\ tstate = "new" /\ daemonize \in BOOLEAN
    /\ stopCh = "nil" /\ doneCh = "open" /\ listener = "none"
    /\ daemon = "none"
    /\ hpc = "none" /\ errCount = 0 /\ cur = 0 /\ dialed = 0
    /\ rConn = [d \in Dials |-> "none"] /\ lConn = [d \in Dials |-> "none"]
    /\ eofR = {} /\ eofL = {} /\ remoteConns = <<{}, {}>>
    /\ openConns = <<>> /\ fired = {}
    /\ copyA = [d \in Dials |-> "none"] /\ copyB = [d \in Dials |-> "none"]
    /\ rpc = "none" /\ ri = 0 /\ stops = 0
    /\ panicked = FALSE /\ consec = 0 /\ seenLen = 0 /\ stopCalled = FALSE
-----------------------------------------------------------------------------
(* Start: make stopCh and doneCh; bastionClient, startDaemon (daemon mode) *)
(* or net.Listen may fail.  In daemon mode the detached child forwards the *)
(* connections and the parent runs neither handle nor handleTimeout; in    *)
(* interactive mode handle starts and spawns handleTimeout.                *)
Start ==
    /\ tstate = "new"
    /\ stopCh' = "open" /\ doneCh' = "open"
    /\ \/ tstate' = "failed" /\ UNCHANGED <<listener, daemon, hpc, rpc>>
       \/ /\ daemonize /\ daemon' = "alive" /\ tstate' = "started"
          /\ UNCHANGED <<listener, hpc, rpc>>
       \/ /\ ~daemonize /\ listener' = "open" /\ tstate' = "started"
          /\ hpc' = "dial" /\ rpc' = "sleep"
          /\ UNCHANGED daemon
    /\ UNCHANGED <<errCount, cur, dialed, connVars, copyA, copyB, ri>>
    /\ UNCHANGED <<daemonize, stops, ghostVars>>

\* Mutant: cleanup without closing the listener.
TeardownKeepsListener ==
    /\ stopCh' = "closed"
    /\ rConn' = [d \in Dials |-> IF d \in remoteConns[1] THEN "closed"
                                                        ELSE rConn[d]]
    /\ lConn' = [d \in Dials |-> IF d \in remoteConns[2] THEN "closed"
                                                        ELSE lConn[d]]
    /\ UNCHANGED listener

(* cleanup, under connsLock: close stopCh unless closed, close every      *)
(* connection in t.remoteConns and the listener.                          *)
Teardown ==
    /\ stopCh' = "closed"
    /\ rConn' = [d \in Dials |-> IF d \in remoteConns[1] THEN "closed"
                                                        ELSE rConn[d]]
    /\ lConn' = [d \in Dials |-> IF d \in remoteConns[2] THEN "closed"
                                                        ELSE lConn[d]]
    /\ listener' = IF listener = "open" THEN "closed" ELSE listener

(* Stop: cleanup, then kill the daemon if there is one.  Before Start,     *)
(* t.stopCh is nil: the select takes its default branch and close(nil)    *)
(* panics.                                                                *)
Stop ==
    /\ stops < MaxStops
    /\ stops' = stops + 1 /\ stopCalled' = TRUE
    /\ \/ /\ stopCh = "nil" /\ panicked' = TRUE
          /\ UNCHANGED <<stopCh, rConn, lConn, listener, daemon>>
       \/ /\ stopCh # "nil" /\ Teardown
          /\ daemon' = IF daemon = "alive" THEN "killed" ELSE daemon
          /\ UNCHANGED panicked
    /\ UNCHANGED <<handleVars, eofR, eofL, remoteConns, openConns, fired>>
    /\ UNCHANGED <<goVars, tstate, daemonize, doneCh, consec, seenLen>>
-----------------------------------------------------------------------------
\* Mutant: the give-up test errCount == 10 written as errCount > 10.
DialFailPastLimit ==
    /\ hpc = "dial"
    /\ \/ stopCh = "closed" /\ hpc' = "stopped" /\ UNCHANGED <<errCount, consec>>
       \/ /\ stopCh # "closed"
          /\ errCount' = errCount + 1 /\ consec' = consec + 1
          /\ hpc' = IF errCount + 1 > MaxDialErrors THEN "gaveup" ELSE "dial"
    /\ UNCHANGED <<cur, dialed, connVars, goVars, tunVars>>
    /\ UNCHANGED <<panicked, seenLen, stopCalled>>

(* handle: Dial through the bastion fails.  Return if stopCh is closed;   *)
(* else count the error, give up at the limit, or sleep 3s and retry.     *)
(* errCount is never reset by a successful dial.                          *)
DialFail ==
    /\ hpc = "dial"
    /\ \/ stopCh = "closed" /\ hpc' = "stopped" /\ UNCHANGED <<errCount, consec>>
       \/ /\ stopCh # "closed"
          /\ errCount' = errCount + 1 /\ consec' = consec + 1
          /\ hpc' = IF errCount + 1 = MaxDialErrors THEN "gaveup" ELSE "dial"
    /\ UNCHANGED <<cur, dialed, connVars, goVars, tunVars>>
    /\ UNCHANGED <<panicked, seenLen, stopCalled>>

(* handle: Dial succeeds (stopCh is not consulted) and the connection is  *)
(* appended to t.remoteConns without connsLock.                           *)
DialOk ==
    /\ hpc = "dial" /\ dialed < MaxDials
    /\ LET d == dialed + 1 IN
         /\ dialed' = d /\ cur' = d
         /\ rConn' = [rConn EXCEPT ![d] = "open"]
         /\ remoteConns' = <<remoteConns[1] \cup {d}, remoteConns[2]>>
    /\ consec' = 0 /\ hpc' = "accept"
    /\ UNCHANGED <<errCount, lConn, eofR, eofL, openConns, fired, goVars>>
    /\ UNCHANGED <<tunVars, panicked, seenLen, stopCalled>>

(* handle: Accept fails (the listener was closed, or a transient error):  *)
(* return if stopCh is closed, else dial again.  The remote connection   *)
(* just dialed is left open in t.remoteConns.                             *)
AcceptFail ==
    /\ hpc = "accept"
    /\ hpc' = IF stopCh = "closed" THEN "stopped" ELSE "dial"
    /\ UNCHANGED <<errCount, cur, dialed, connVars, goVars, tunVars>>
    /\ UNCHANGED ghostVars

\* handle: a local client connects to the open listener.
AcceptOk ==
    /\ hpc = "accept" /\ listener = "open"
    /\ lConn' = [lConn EXCEPT ![cur] = "open"]
    /\ hpc' = "append"
    /\ UNCHANGED <<errCount, cur, dialed, rConn, eofR, eofL, remoteConns>>
    /\ UNCHANGED <<openConns, fired, goVars, tunVars, ghostVars>>

(* handle after Accept: append conn to t.remoteConns (no lock), register  *)
(* a new ch in t.openConns under connsLock, and start both copiers.       *)
Register ==
    /\ hpc = "append"
    /\ remoteConns' = <<remoteConns[1], remoteConns[2] \cup {cur}>>
    /\ openConns' = Append(openConns, cur)
    /\ copyA' = [copyA EXCEPT ![cur] = "copy"]
    /\ copyB' = [copyB EXCEPT ![cur] = "copy"]
    /\ hpc' = "dial"
    /\ UNCHANGED <<errCount, cur, dialed, rConn, lConn, eofR, eofL, fired>>
    /\ UNCHANGED <<rpc, ri, tunVars, ghostVars>>
-----------------------------------------------------------------------------
(* The first copier: io.Copy(remoteConn, conn) returns once reading conn  *)
(* ends (the client hung up or conn was closed) or a write to remoteConn  *)
(* fails (it was closed and data came); then conn.Close().                *)
CopyAReturn(d) ==
    /\ copyA[d] = "copy"
    /\ d \in eofL \/ lConn[d] = "closed" \/ rConn[d] = "closed"
    /\ lConn' = [lConn EXCEPT ![d] = "closed"]
    /\ copyA' = [copyA EXCEPT ![d] = "sleep"]
    /\ UNCHANGED <<handleVars, rConn, eofR, eofL, remoteConns, openConns>>
    /\ UNCHANGED <<fired, copyB, rpc, ri, tunVars, ghostVars>>

\* The first copier, after sleeping the timeout: close(ch).
CopyAFire(d) ==
    /\ copyA[d] = "sleep"
    /\ fired' = fired \cup {d}
    /\ copyA' = [copyA EXCEPT ![d] = "done"]
    /\ UNCHANGED <<handleVars, rConn, lConn, eofR, eofL, remoteConns>>
    /\ UNCHANGED <<openConns, copyB, rpc, ri, tunVars, ghostVars>>

(* The second copier: io.Copy(conn, remoteConn) returns once reading      *)
(* remoteConn ends or a write to conn fails; then remoteConn.Close().     *)
CopyBReturn(d) ==
    /\ copyB[d] = "copy"
    /\ d \in eofR \/ rConn[d] = "closed" \/ lConn[d] = "closed"
    /\ rConn' = [rConn EXCEPT ![d] = "closed"]
    /\ copyB' = [copyB EXCEPT ![d] = "done"]
    /\ UNCHANGED <<handleVars, lConn, eofR, eofL, remoteConns, openConns>>
    /\ UNCHANGED <<fired, copyA, rpc, ri, tunVars, ghostVars>>

\* The remote end of pair d, or its local client, hangs up.
RemoteHangUp(d) ==
    /\ rConn[d] = "open" /\ d \notin eofR
    /\ eofR' = eofR \cup {d}
    /\ UNCHANGED <<handleVars, rConn, lConn, eofL, remoteConns, openConns>>
    /\ UNCHANGED <<fired, goVars, tunVars, ghostVars>>

ClientHangUp(d) ==
    /\ lConn[d] = "open" /\ d \notin eofL
    /\ eofL' = eofL \cup {d}
    /\ UNCHANGED <<handleVars, rConn, lConn, eofR, remoteConns, openConns>>
    /\ UNCHANGED <<fired, goVars, tunVars, ghostVars>>
-----------------------------------------------------------------------------
\* handleTimeout: the initial 10 minute sleep ends.
ReaperWake ==
    /\ rpc = "sleep" /\ rpc' = "check"
    /\ UNCHANGED <<handleVars, connVars, copyA, copyB, ri, tunVars, ghostVars>>

\* Mutant: the loop ranges over t.openConns as it was when handleTimeout
\* started, which is empty.
ReaperCheckStartSnapshot ==
    /\ rpc = "check"
    /\ seenLen' = Len(openConns)
    /\ rpc' = IF ri < 0 THEN "wait" ELSE "cleanup"
    /\ UNCHANGED <<handleVars, connVars, copyA, copyB, ri, tunVars>>
    /\ UNCHANGED <<panicked, consec, stopCalled>>

(* handleTimeout, holding connsLock: the loop test i < len(t.openConns)    *)
(* reads the length anew; if it passes, unlock and wait on openConns[i],  *)
(* else unlock and leave the loop.                                         *)
ReaperCheck ==
    /\ rpc = "check"
    /\ seenLen' = Len(openConns)
    /\ rpc' = IF ri < Len(openConns) THEN "wait" ELSE "cleanup"
    /\ UNCHANGED <<handleVars, connVars, copyA, copyB, ri, tunVars>>
    /\ UNCHANGED <<panicked, consec, stopCalled>>

\* handleTimeout: <-t.openConns[i] returns; lock and i++.
ReaperWait ==
    /\ rpc = "wait" /\ openConns[ri + 1] \in fired
    /\ ri' = ri + 1 /\ rpc' = "check"
    /\ UNCHANGED <<handleVars, connVars, copyA, copyB, tunVars, ghostVars>>

\* handleTimeout: t.cleanup().
ReaperCleanup ==
    /\ rpc = "cleanup" /\ Teardown /\ rpc' = "close_done"
    /\ UNCHANGED <<handleVars, eofR, eofL, remoteConns, openConns, fired>>
    /\ UNCHANGED <<copyA, copyB, ri, tstate, daemonize, doneCh, daemon>>
    /\ UNCHANGED <<stops, ghostVars>>

\* handleTimeout: close doneCh unless it is closed.
ReaperCloseDone ==
    /\ rpc = "close_done" /\ doneCh' = "closed" /\ rpc' = "exited"
    /\ UNCHANGED <<handleVars, connVars, copyA, copyB, ri, tstate, daemonize>>
    /\ UNCHANGED <<stopCh, listener, daemon, stops, ghostVars>>
-----------------------------------------------------------------------------
Handle == DialFail \/ DialOk \/ AcceptFail \/ AcceptOk \/ Register

Copiers == \E d \in Dials : CopyAReturn(d) \/ CopyAFire(d) \/ CopyBReturn(d)

Peers == \E d \in Dials : RemoteHangUp(d) \/ ClientHangUp(d)

Reaper ==
    \/ ReaperWake \/ ReaperCheck \/ ReaperWait \/ ReaperCleanup
    \/ ReaperCloseDone

\* A panic ends the process: nothing happens after it.
Next == ~panicked /\ (Start \/ Stop \/ Handle \/ Copiers \/ Peers \/ Reaper)

(* The Go scheduler runs every runnable goroutine: handle's Dial returns,  *)
(* its Accept returns once the listener is closed, a copier returns once  *)
(* the connection it reads from ended, and the sleeps end.  A blocked     *)
(* Accept on an open listener, a hang-up of a peer and the caller's Start *)
(* and Stop get no fairness.                                              *)
Fairness ==
    /\ WF_vars(DialFail \/ DialOk)
    /\ WF_vars(AcceptFail /\ listener # "open")
    /\ WF_vars(Register)
    /\ WF_vars(Reaper)
    /\ \A d \in Dials :
         /\ WF_vars(CopyAReturn(d) /\ (d \in eofL \/ lConn[d] = "closed"))
         /\ WF_vars(CopyAFire(d))
         /\ WF_vars(CopyBReturn(d) /\ (d \in eofR \/ rConn[d] = "closed"))

Spec == Init /\ [][Next]_vars
FairSpec == Spec /\ Fairness
-----------------------------------------------------------------------------
(* The reaper tears the tunnel down only after the completion channel of  *)
(* every connection registered in t.openConns when it last held connsLock *)
(* was closed, including connections registered while it was waiting      *)
(* (handleTimeout's C-style loop against handle's appends).               *)
ReaperWaitsForAllIdle ==
    rpc \in {"cleanup", "close_done", "exited"} =>
        \A j \in 1..seenLen : openConns[j] \in fired

(* Spec 8: the reaper tears the tunnel down once every connection's       *)
(* channel has fired.  handleTimeout unlocks connsLock after its last     *)
(* check and only then runs cleanup: the teardown must not cut a          *)
(* connection registered whose channel has not fired.                     *)
ReaperTearsDownOnlyIdle ==
    [][rpc = "cleanup" /\ rpc' = "close_done"
         => \A j \in 1..Len(openConns) : openConns[j] \in fired]_vars

(* Once cleanup has closed stopCh, the accept loop handle returns: the     *)
(* closed listener makes Accept fail and the stopCh checks end the loop.  *)
HandleExitsAfterStop ==
    (stopCh = "closed" /\ hpc \in {"dial", "accept", "append"})
        ~> hpc \in {"stopped", "gaveup"}

(* Spec 4.2/8: the accept loop gives up after 10 consecutive dial failures. *)
DialRetryConsecutive == hpc = "gaveup" => consec = MaxDialErrors

(* Spec 4.2: after Stop, the reaper fires the done signal once every      *)
(* connection has completed; connections are closed by the teardown, so   *)
(* the done signal of an interactive tunnel eventually fires.              *)
DoneAfterStop == (stopCalled /\ rpc # "none") ~> doneCh = "closed"
====
