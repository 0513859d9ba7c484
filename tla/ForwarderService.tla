-------------------------- MODULE ForwarderService --------------------------
(***************************************************************************)
(* server/fwdsvc.go with the life of its forwarders (server/fwd.go) and    *)
(* its only caller, the part of LM_Restore.exec that moves the service to  *)
(* a restored pod (server/lm.go): goroutines of one server process.        *)
(*                                                                         *)
(*   - the listener goroutine: suspend handshake, accept loop;             *)
(*   - one goroutine per accepted connection, which dials the server and   *)
(*     runs an upstream and a downstream goroutine;                        *)
(*   - one closer goroutine per forwarder that CloseAllForwarders found;   *)
(*   - the migrations: concurrent calls of exec(true) on this service;     *)
(*   - ForwarderService.Close, called once by APICore.Remove.              *)
(*                                                                         *)
(* A connection stands for the forwarder created for it.  The bytes are    *)
(* left out: a stream runs, is stuck in a write that its peer never        *)
(* drains, or is done.                                                     *)
(***************************************************************************)
EXTENDS Integers

CONSTANTS
    Conns,       \* client connections that may arrive at the external port
    Migrations,  \* calls of exec(true) that share this service
    Addrs,       \* TCP addresses of servers
    SrcAddr,     \* serverAddr the service is started with
    DstPodAddr,  \* DstPodAddr[m]: address of the pod that m restores
    DataRates,   \* dataRate values the service may be started with
    EnvFaults    \* environment faults allowed: "stall", "accept"

ASSUME ConstantsAssumption ==
    /\ SrcAddr \in Addrs
    /\ DstPodAddr \in [Migrations -> Addrs]
    /\ DataRates \subseteq Int
    /\ EnvFaults \subseteq {"stall", "accept"}

VARIABLES
    lst,          \* control point of the listener goroutine
    lnOpen,       \* the TCP listener is open
    chanClose,    \* chanClose has been closed
    isSuspended,  \* guarded by condSuspend.L
    chanSuspend,  \* number of tokens in the channel (capacity 1)
    serverAddr,
    dataRate,
    fwdrs,        \* the list of forwarders, by connection
    conn,         \* life of each connection and of its forwarder
    addr,         \* serverAddr argument of the forwarder's Accept
    rate,         \* dataRate of the forwarder
    emergency,    \* chanEmergencyClose of the forwarder
    isUpClosed,
    isDownClosed,
    up, down,     \* control points of the two stream goroutines
    peerEnd,      \* peers ("client", "server") that closed their end
    closer,       \* goroutines started by CloseAllForwarders
    exec,         \* control point of each migration
    panicked      \* a goroutine panicked: the process is gone

lnVars   == <<lst, lnOpen, chanClose>>
suspVars == <<isSuspended, chanSuspend>>
destVars == <<serverAddr, dataRate>>
argVars  == <<addr, rate>>
strmVars == <<emergency, isUpClosed, isDownClosed, up, down, peerEnd>>
vars == <<lnVars, suspVars, destVars, fwdrs, conn, argVars, strmVars,
          closer, exec, panicked>>

-----------------------------------------------------------------------------
(***************************************************************************)
(* States of a connection.  "queued": in the kernel's backlog.  "accepted":*)
(* returned by AcceptTCP, not pushed yet.  "spawned": goroutine started,   *)
(* Forwarder.Accept not entered, so clientConn is still nil.  "setup":     *)
(* clientConn set.  "dial": chanEmergencyClose made if it has to be.       *)
(* "stream": both stream goroutines started.  "closed": chanClosed closed. *)
(* "removed": out of the list.  "reset": the listener was closed first.    *)
(***************************************************************************)
Running == {"setup", "dial", "stream"}
Live == {"spawned"} \cup Running
ConnStates == {"idle", "queued", "reset", "accepted", "closed", "removed"} \cup Live

(* Listener: "check" before L.Lock, "send" holding L and sending the token,*)
(* "parked" in condSuspend.Wait, "woken" by a Broadcast, "accept" in       *)
(* AcceptTCP, "push" with a new connection, "exited".                      *)
ListenerStates == {"check", "send", "parked", "woken", "accept", "push", "exited"}

(* exec(true): the phases between Suspend's lock and the deferred Resume.  *)
Acked == {"closeAll", "waitClosers", "dump", "restore", "switch", "rate", "resume"}
Suspending == {"waitAck"} \cup Acked
Holding == {"prepare", "unlisten"} \cup Suspending  \* port 19997 is listened on
ExecStates == {"idle", "done"} \cup Holding

TypeOK ==
    /\ lst \in ListenerStates
    /\ lnOpen \in BOOLEAN
    /\ chanClose \in BOOLEAN
    /\ isSuspended \in BOOLEAN
    /\ chanSuspend \in {0, 1}
    /\ serverAddr \in Addrs
    /\ dataRate \in DataRates \cup {0}
    /\ fwdrs \subseteq Conns
    /\ conn \in [Conns -> ConnStates]
    /\ addr \in [Conns -> Addrs]
    /\ rate \in [Conns -> DataRates \cup {0}]
    /\ emergency \in [Conns -> {"nil", "open", "closed"}]
    /\ isUpClosed \in [Conns -> BOOLEAN]
    /\ isDownClosed \in [Conns -> BOOLEAN]
    /\ up \in [Conns -> {"run", "stuck", "done"}]
    /\ down \in [Conns -> {"run", "stuck", "done"}]
    /\ peerEnd \in [Conns -> SUBSET {"client", "server"}]
    /\ closer \in [Conns -> {"none", "pending", "waiting", "done"}]
    /\ exec \in [Migrations -> ExecStates]
    /\ panicked \in BOOLEAN

(* StartForwarderServiceDR once ListenTCP has succeeded. *)
Init ==
    /\ lst = "check"
    /\ lnOpen = TRUE
    /\ chanClose = FALSE
    /\ isSuspended = FALSE
    /\ chanSuspend = 0
    /\ serverAddr = SrcAddr
    /\ dataRate \in DataRates
    /\ fwdrs = {}
    /\ conn = [c \in Conns |-> "idle"]
    /\ addr = [c \in Conns |-> SrcAddr]
    /\ rate = [c \in Conns |-> dataRate]
    /\ emergency = [c \in Conns |-> "nil"]
    /\ isUpClosed = [c \in Conns |-> FALSE]
    /\ isDownClosed = [c \in Conns |-> FALSE]
    /\ up = [c \in Conns |-> "run"]
    /\ down = [c \in Conns |-> "run"]
    /\ peerEnd = [c \in Conns |-> {}]
    /\ closer = [c \in Conns |-> "none"]
    /\ exec = [m \in Migrations |-> "idle"]
    /\ panicked = FALSE

-----------------------------------------------------------------------------
(* Environment: the kernel's backlog and the two peers of a connection.    *)

ClientConnect(c) ==
    /\ conn[c] = "idle"
    /\ lnOpen
    /\ conn' = [conn EXCEPT ![c] = "queued"]
    /\ UNCHANGED <<lnVars, suspVars, destVars, fwdrs, argVars, strmVars,
                   closer, exec, panicked>>

PeerCloses(c, p) ==
    /\ conn[c] = "stream"
    /\ p \notin peerEnd[c]
    /\ peerEnd' = [peerEnd EXCEPT ![c] = @ \cup {p}]
    /\ UNCHANGED <<lnVars, suspVars, destVars, fwdrs, conn, argVars, emergency,
                   isUpClosed, isDownClosed, up, down, closer, exec, panicked>>

(* The server never drains what upstream writes: the Write never returns.  *)
UpstreamStalls(c) ==
    /\ "stall" \in EnvFaults
    /\ conn[c] = "stream" /\ up[c] = "run"
    /\ up' = [up EXCEPT ![c] = "stuck"]
    /\ UNCHANGED <<lnVars, suspVars, destVars, fwdrs, conn, argVars, emergency,
                   isUpClosed, isDownClosed, down, peerEnd, closer, exec, panicked>>

DownstreamStalls(c) ==
    /\ "stall" \in EnvFaults
    /\ conn[c] = "stream" /\ down[c] = "run"
    /\ down' = [down EXCEPT ![c] = "stuck"]
    /\ UNCHANGED <<lnVars, suspVars, destVars, fwdrs, conn, argVars, emergency,
                   isUpClosed, isDownClosed, up, peerEnd, closer, exec, panicked>>

-----------------------------------------------------------------------------
(* The listener goroutine.  condSuspend.L is held across steps only while  *)
(* the listener is at "send"; every other critical section is one step.    *)

LFree == lst # "send"

ListenerCheck ==
    /\ lst = "check"
    /\ lst' = IF isSuspended THEN "send" ELSE "accept"
    /\ UNCHANGED <<lnOpen, chanClose, suspVars, destVars, fwdrs, conn, argVars,
                   strmVars, closer, exec, panicked>>

(* Mutant: the listener acknowledges and goes on instead of waiting. *)
ListenerSendNoWait ==
    /\ lst = "send"
    /\ chanSuspend = 0
    /\ chanSuspend' = 1
    /\ lst' = "check"
    /\ UNCHANGED <<lnOpen, chanClose, isSuspended, destVars, fwdrs, conn, argVars,
                   strmVars, closer, exec, panicked>>

ListenerSend ==
    /\ lst = "send"
    /\ chanSuspend = 0
    /\ chanSuspend' = 1
    /\ lst' = IF isSuspended THEN "parked" ELSE "accept"
    /\ UNCHANGED <<lnOpen, chanClose, isSuspended, destVars, fwdrs, conn, argVars,
                   strmVars, closer, exec, panicked>>

ListenerWake ==
    /\ lst = "woken"
    /\ lst' = IF isSuspended THEN "parked" ELSE "accept"
    /\ UNCHANGED <<lnOpen, chanClose, suspVars, destVars, fwdrs, conn, argVars,
                   strmVars, closer, exec, panicked>>

(* Mutant: no deadline on AcceptTCP. *)
AcceptNoDeadline == FALSE

(* AcceptTCP: the 10 ms deadline passes, a connection is returned, the     *)
(* listener has been closed, or some other error ends the goroutine.       *)
AcceptTimeout ==
    /\ lst = "accept"
    /\ lnOpen
    /\ lst' = "check"
    /\ UNCHANGED <<lnOpen, chanClose, suspVars, destVars, fwdrs, conn, argVars,
                   strmVars, closer, exec, panicked>>

AcceptConn(c) ==
    /\ lst = "accept"
    /\ lnOpen
    /\ conn[c] = "queued"
    /\ lst' = "push"
    /\ conn' = [conn EXCEPT ![c] = "accepted"]
    /\ UNCHANGED <<lnOpen, chanClose, suspVars, destVars, fwdrs, argVars,
                   strmVars, closer, exec, panicked>>

AcceptFails ==
    /\ lst = "accept"
    /\ ~lnOpen \/ "accept" \in EnvFaults
    /\ lst' = "exited"
    /\ UNCHANGED <<lnOpen, chanClose, suspVars, destVars, fwdrs, conn, argVars,
                   strmVars, closer, exec, panicked>>

(* Mutant: the forwarder is started and never put on the list. *)
PushForwarderUnlisted(c) ==
    /\ lst = "push"
    /\ conn[c] = "accepted"
    /\ rate' = [rate EXCEPT ![c] = dataRate]
    /\ conn' = [conn EXCEPT ![c] = "spawned"]
    /\ lst' = "check"
    /\ UNCHANGED <<lnOpen, chanClose, suspVars, destVars, fwdrs, addr, strmVars,
                   closer, exec, panicked>>

PushForwarder(c) ==
    /\ lst = "push"
    /\ conn[c] = "accepted"
    /\ rate' = [rate EXCEPT ![c] = dataRate]
    /\ fwdrs' = fwdrs \cup {c}
    /\ conn' = [conn EXCEPT ![c] = "spawned"]
    /\ lst' = "check"
    /\ UNCHANGED <<lnOpen, chanClose, suspVars, destVars, addr, strmVars,
                   closer, exec, panicked>>

-----------------------------------------------------------------------------
(* Forwarder: NewForwarder .. Accept, upstream, downstream, closeUpstream. *)

(* The goroutine evaluates p.serverAddr only when it first runs. *)
ForwarderStart(c) ==
    /\ conn[c] = "spawned"
    /\ addr' = [addr EXCEPT ![c] = serverAddr]
    /\ conn' = [conn EXCEPT ![c] = "setup"]
    /\ UNCHANGED <<lnVars, suspVars, destVars, fwdrs, rate, strmVars,
                   closer, exec, panicked>>

ForwarderSetup(c) ==
    /\ conn[c] = "setup"
    /\ emergency' = [emergency EXCEPT ![c] = IF rate[c] > 0 THEN "open" ELSE "nil"]
    /\ conn' = [conn EXCEPT ![c] = "dial"]
    /\ UNCHANGED <<lnVars, suspVars, destVars, fwdrs, argVars, isUpClosed,
                   isDownClosed, up, down, peerEnd, closer, exec, panicked>>

DialOk(c) ==
    /\ conn[c] = "dial"
    /\ conn' = [conn EXCEPT ![c] = "stream"]
    /\ UNCHANGED <<lnVars, suspVars, destVars, fwdrs, argVars, strmVars,
                   closer, exec, panicked>>

(* dialTCP fails: clientConn is closed and chanClosed with it. *)
DialFails(c) ==
    /\ conn[c] = "dial"
    /\ conn' = [conn EXCEPT ![c] = "closed"]
    /\ UNCHANGED <<lnVars, suspVars, destVars, fwdrs, argVars, strmVars,
                   closer, exec, panicked>>

(* Mutant: closeUpstream without its early return. *)
CloseUpstreamTwice(c) ==
    /\ isUpClosed' = [isUpClosed EXCEPT ![c] = TRUE]
    /\ emergency' = [emergency EXCEPT ![c] = IF @ = "open" THEN "closed" ELSE @]
    /\ panicked' = (conn[c] = "spawned" \/ emergency[c] = "closed")

(* closeUpstream, entered by the downstream goroutine or by a closer.  It  *)
(* panics if chanEmergencyClose is closed already, and if clientConn is    *)
(* still nil: CloseRead on it dereferences the pointer.                    *)
CloseUpstream(c) ==
    LET first == ~isUpClosed[c]
    IN  /\ isUpClosed' = [isUpClosed EXCEPT ![c] = TRUE]
        /\ emergency' = [emergency EXCEPT ![c] =
                            IF first /\ @ = "open" THEN "closed" ELSE @]
        /\ panicked' = (first /\ (conn[c] = "spawned" \/ emergency[c] = "closed"))

(* upstream returns, on what ends its Read for certain ... *)
UpstreamEnds(c) ==
    /\ conn[c] = "stream" /\ up[c] = "run"
    /\ \/ emergency[c] = "closed"
       \/ isUpClosed[c]
       \/ "client" \in peerEnd[c]
    /\ up' = [up EXCEPT ![c] = "done"]
    /\ isDownClosed' = [isDownClosed EXCEPT ![c] = TRUE]
    /\ UNCHANGED <<lnVars, suspVars, destVars, fwdrs, conn, argVars, emergency,
                   isUpClosed, down, peerEnd, closer, exec, panicked>>

(* ... or because a Write to a server that is gone fails. *)
UpstreamWriteFails(c) ==
    /\ conn[c] = "stream" /\ up[c] = "run"
    /\ "server" \in peerEnd[c]
    /\ up' = [up EXCEPT ![c] = "done"]
    /\ isDownClosed' = [isDownClosed EXCEPT ![c] = TRUE]
    /\ UNCHANGED <<lnVars, suspVars, destVars, fwdrs, conn, argVars, emergency,
                   isUpClosed, down, peerEnd, closer, exec, panicked>>

DownstreamEnds(c) ==
    /\ conn[c] = "stream" /\ down[c] = "run"
    /\ isDownClosed[c] \/ "server" \in peerEnd[c]
    /\ down' = [down EXCEPT ![c] = "done"]
    /\ CloseUpstream(c)
    /\ UNCHANGED <<lnVars, suspVars, destVars, fwdrs, conn, argVars,
                   isDownClosed, up, peerEnd, closer, exec>>

DownstreamWriteFails(c) ==
    /\ conn[c] = "stream" /\ down[c] = "run"
    /\ "client" \in peerEnd[c]
    /\ down' = [down EXCEPT ![c] = "done"]
    /\ CloseUpstream(c)
    /\ UNCHANGED <<lnVars, suspVars, destVars, fwdrs, conn, argVars,
                   isDownClosed, up, peerEnd, closer, exec>>

(* wg.Wait returns: both connections are closed, then chanClosed. *)
ForwarderDone(c) ==
    /\ conn[c] = "stream"
    /\ up[c] = "done" /\ down[c] = "done"
    /\ conn' = [conn EXCEPT ![c] = "closed"]
    /\ UNCHANGED <<lnVars, suspVars, destVars, fwdrs, argVars, strmVars,
                   closer, exec, panicked>>

ForwarderRemove(c) ==
    /\ conn[c] = "closed"
    /\ fwdrs' = fwdrs \ {c}
    /\ conn' = [conn EXCEPT ![c] = "removed"]
    /\ UNCHANGED <<lnVars, suspVars, destVars, argVars, strmVars,
                   closer, exec, panicked>>

-----------------------------------------------------------------------------
(* ForwarderService.Close closes chanClose; a goroutine then closes ln.    *)

Close ==
    /\ ~chanClose
    /\ chanClose' = TRUE
    /\ UNCHANGED <<lst, lnOpen, suspVars, destVars, fwdrs, conn, argVars,
                   strmVars, closer, exec, panicked>>

ListenerClose ==
    /\ chanClose /\ lnOpen
    /\ lnOpen' = FALSE
    /\ conn' = [c \in Conns |-> IF conn[c] = "queued" THEN "reset" ELSE conn[c]]
    /\ UNCHANGED <<lst, chanClose, suspVars, destVars, fwdrs, argVars,
                   strmVars, closer, exec, panicked>>

-----------------------------------------------------------------------------
(* LM_Restore.exec(true) and the operations it calls.                      *)

Goto(m, from, to) ==
    /\ exec[m] = from
    /\ exec' = [exec EXCEPT ![m] = to]

(* Mutant: nobody is woken. *)
BroadcastLost == lst' = lst

Broadcast == lst' = IF lst = "parked" THEN "woken" ELSE lst

(* net.Listen on LM_HostResumeSigPort fails while another exec holds it. *)
ExecListen(m) ==
    /\ \A n \in Migrations : exec[n] \notin Holding
    /\ Goto(m, "idle", "prepare")
    /\ UNCHANGED <<lnVars, suspVars, destVars, fwdrs, conn, argVars, strmVars,
                   closer, panicked>>

ExecListenFails(m) ==
    /\ \E n \in Migrations : exec[n] \in Holding
    /\ Goto(m, "idle", "done")
    /\ UNCHANGED <<lnVars, suspVars, destVars, fwdrs, conn, argVars, strmVars,
                   closer, panicked>>

(* Any step before Suspend fails: exec returns and closes its listener. *)
ExecPrepareFails(m) ==
    /\ Goto(m, "prepare", "done")
    /\ UNCHANGED <<lnVars, suspVars, destVars, fwdrs, conn, argVars, strmVars,
                   closer, panicked>>

(* Mutant: Suspend returns without the listener's token. *)
SuspendNoWait(m) ==
    /\ LFree
    /\ Goto(m, "prepare", "closeAll")
    /\ isSuspended' = TRUE
    /\ Broadcast
    /\ UNCHANGED <<lnOpen, chanClose, chanSuspend, destVars, fwdrs, conn, argVars,
                   strmVars, closer, panicked>>

Suspend(m) ==
    /\ LFree
    /\ Goto(m, "prepare", "waitAck")
    /\ isSuspended' = TRUE
    /\ Broadcast
    /\ UNCHANGED <<lnOpen, chanClose, chanSuspend, destVars, fwdrs, conn, argVars,
                   strmVars, closer, panicked>>

(* Mutant: the token is counted off before it has been sent. *)
SuspendAckEarly(m) ==
    /\ Goto(m, "waitAck", "closeAll")
    /\ chanSuspend' = chanSuspend - 1
    /\ UNCHANGED <<lnVars, isSuspended, destVars, fwdrs, conn, argVars, strmVars,
                   closer, panicked>>

SuspendAck(m) ==
    /\ chanSuspend = 1
    /\ Goto(m, "waitAck", "closeAll")
    /\ chanSuspend' = 0
    /\ UNCHANGED <<lnVars, isSuspended, destVars, fwdrs, conn, argVars, strmVars,
                   closer, panicked>>

(* panic("Must be suspended before ..."), in three operations. *)
MustBeSuspended == panicked' = ~isSuspended

CloseAllForwarders(m) ==
    /\ Goto(m, "closeAll", "waitClosers")
    /\ MustBeSuspended
    /\ closer' = [c \in Conns |-> IF c \in fwdrs THEN "pending" ELSE "none"]
    /\ UNCHANGED <<lnVars, suspVars, destVars, fwdrs, conn, argVars, strmVars>>

(* Mutant: Forwarder.Close only waits for chanClosed. *)
CloserOnlyWaits(c) ==
    /\ closer[c] = "pending"
    /\ closer' = [closer EXCEPT ![c] = "waiting"]
    /\ UNCHANGED <<lnVars, suspVars, destVars, fwdrs, conn, argVars, strmVars,
                   exec, panicked>>

(* Forwarder.Close in its own goroutine, for the list read under muxFwdrs. *)
CloserRuns(c) ==
    /\ closer[c] = "pending"
    /\ closer' = [closer EXCEPT ![c] = "waiting"]
    /\ CloseUpstream(c)
    /\ UNCHANGED <<lnVars, suspVars, destVars, fwdrs, conn, argVars,
                   isDownClosed, up, down, peerEnd, exec>>

CloserReturns(c) ==
    /\ closer[c] = "waiting"
    /\ conn[c] \in {"closed", "removed"}
    /\ closer' = [closer EXCEPT ![c] = "done"]
    /\ UNCHANGED <<lnVars, suspVars, destVars, fwdrs, conn, argVars, strmVars,
                   exec, panicked>>

(* Mutant: CloseAllForwarders without wg.Wait. *)
CloseAllReturnsEarly(m) ==
    /\ Goto(m, "waitClosers", "dump")
    /\ UNCHANGED <<lnVars, suspVars, destVars, fwdrs, conn, argVars, strmVars,
                   closer, panicked>>

CloseAllReturns(m) ==
    /\ \A c \in Conns : closer[c] \in {"none", "done"}
    /\ Goto(m, "waitClosers", "dump")
    /\ UNCHANGED <<lnVars, suspVars, destVars, fwdrs, conn, argVars, strmVars,
                   closer, panicked>>

FinalDumpOk(m) ==
    /\ Goto(m, "dump", "restore")
    /\ UNCHANGED <<lnVars, suspVars, destVars, fwdrs, conn, argVars, strmVars,
                   closer, panicked>>

(* Mutant: Resume is called at the end of exec, not deferred. *)
FinalDumpFailsSuspended(m) ==
    /\ Goto(m, "dump", "unlisten")
    /\ UNCHANGED <<lnVars, suspVars, destVars, fwdrs, conn, argVars, strmVars,
                   closer, panicked>>

(* The dump fails: the deferred Resume runs with the old address. *)
FinalDumpFails(m) ==
    /\ Goto(m, "dump", "resume")
    /\ UNCHANGED <<lnVars, suspVars, destVars, fwdrs, conn, argVars, strmVars,
                   closer, panicked>>

(* The resume signal or the 5 s timeout: exec goes on either way. *)
WaitForResume(m) ==
    /\ Goto(m, "restore", "switch")
    /\ UNCHANGED <<lnVars, suspVars, destVars, fwdrs, conn, argVars, strmVars,
                   closer, panicked>>

ChangeServerAddr(m) ==
    /\ Goto(m, "switch", "rate")
    /\ MustBeSuspended
    /\ serverAddr' = IF isSuspended THEN DstPodAddr[m] ELSE serverAddr
    /\ UNCHANGED <<lnVars, suspVars, dataRate, fwdrs, conn, argVars, strmVars, closer>>

ChangeDataRate(m) ==
    /\ Goto(m, "rate", "resume")
    /\ MustBeSuspended
    /\ dataRate' = IF isSuspended THEN 0 ELSE dataRate
    /\ UNCHANGED <<lnVars, suspVars, serverAddr, fwdrs, conn, argVars, strmVars, closer>>

Resume(m) ==
    /\ LFree
    /\ Goto(m, "resume", "unlisten")
    /\ isSuspended' = FALSE
    /\ Broadcast
    /\ UNCHANGED <<lnOpen, chanClose, chanSuspend, destVars, fwdrs, conn, argVars,
                   strmVars, closer, panicked>>

(* The remaining deferred calls; the last one closes lnResume. *)
ExecReturn(m) ==
    /\ Goto(m, "unlisten", "done")
    /\ UNCHANGED <<lnVars, suspVars, destVars, fwdrs, conn, argVars, strmVars,
                   closer, panicked>>

-----------------------------------------------------------------------------
(* The goroutines. *)

Listener ==
    \/ ListenerCheck \/ ListenerSend \/ ListenerWake
    \/ AcceptTimeout \/ AcceptFails
    \/ \E c \in Conns : AcceptConn(c) \/ PushForwarder(c)

Environment(c) ==
    \/ ClientConnect(c)
    \/ PeerCloses(c, "client") \/ PeerCloses(c, "server")
    \/ UpstreamStalls(c) \/ DownstreamStalls(c)

Forwarder(c) ==
    \/ ForwarderStart(c) \/ ForwarderSetup(c) \/ DialOk(c) \/ DialFails(c)
    \/ UpstreamEnds(c) \/ UpstreamWriteFails(c)
    \/ DownstreamEnds(c) \/ DownstreamWriteFails(c)
    \/ ForwarderDone(c) \/ ForwarderRemove(c)

Closer(c) == CloserRuns(c) \/ CloserReturns(c)

Exec(m) ==
    \/ ExecListen(m) \/ ExecListenFails(m) \/ ExecPrepareFails(m)
    \/ Suspend(m) \/ SuspendAck(m)
    \/ CloseAllForwarders(m) \/ CloseAllReturns(m)
    \/ FinalDumpOk(m) \/ FinalDumpFails(m) \/ WaitForResume(m)
    \/ ChangeServerAddr(m) \/ ChangeDataRate(m)
    \/ Resume(m) \/ ExecReturn(m)

Next ==
    /\ ~panicked
    /\ \/ Listener
       \/ Close \/ ListenerClose
       \/ \E c \in Conns : Environment(c) \/ Forwarder(c) \/ Closer(c)
       \/ \E m \in Migrations : Exec(m)

Spec == Init /\ [][Next]_vars

(***************************************************************************)
(* Fairness.  A goroutine that can run does run.  AcceptTCP looks for a    *)
(* connection before its deadline, and the backlog is a queue, so a queued *)
(* connection that can be accepted again and again is accepted (SF).  The  *)
(* calls to the pods, the source host and the kernel's dial end one way or *)
(* the other.  Clients, servers, Remove and the start of a migration owe   *)
(* nothing, and no accept has to fail while the listener is open.  A       *)
(* client that never pauses is excluded: see Outlasts in Forwarder.        *)
(***************************************************************************)
ListenerStep ==
    ~panicked /\ Listener /\ (lnOpen /\ lst = "accept" => lst' # "exited")
ForwarderStep(c) == ~panicked /\ (ForwarderStart(c) \/ ForwarderSetup(c)
                                    \/ DialOk(c) \/ DialFails(c)
                                    \/ ForwarderDone(c) \/ ForwarderRemove(c))
ExecStep(m) == ~panicked /\ exec[m] # "idle" /\ Exec(m)

Fairness ==
    /\ WF_vars(ListenerStep)
    /\ WF_vars(~panicked /\ ListenerClose)
    /\ \A c \in Conns :
          /\ SF_vars(~panicked /\ AcceptConn(c))
          /\ WF_vars(ForwarderStep(c))
          /\ WF_vars(~panicked /\ UpstreamEnds(c))
          /\ WF_vars(~panicked /\ DownstreamEnds(c))
          /\ WF_vars(~panicked /\ Closer(c))
    /\ \A m \in Migrations : WF_vars(ExecStep(m))

FairSpec == Spec /\ Fairness

-----------------------------------------------------------------------------
(* Properties.                                                             *)

(* From the moment CloseAllForwarders has returned until the deferred      *)
(* Resume, no forwarder runs or can start: nothing reaches the application *)
(* while CRIU dumps it, although forwarders are created, started and       *)
(* closed by goroutines that share no lock with the migration.             *)
Quiet == {"dump", "restore", "switch", "rate", "resume"}
QuietDuringDump ==
    (\E m \in Migrations : exec[m] \in Quiet) => \A c \in Conns : conn[c] \notin Live

(* A running forwarder talks to the server the service forwards to now and *)
(* at the rate it has now, although serverAddr is read by the forwarder's  *)
(* goroutine whenever it first runs and dataRate by the listener: no       *)
(* session survives a ChangeServerAddr or a ChangeDataRate.                *)
RouteCurrent ==
    \A c \in Conns :
        /\ conn[c] \in Running => addr[c] = serverAddr
        /\ conn[c] \in Live => rate[c] = dataRate

(* The one panic the code can reach is Forwarder.Close on a forwarder      *)
(* whose goroutine has not entered Accept (clientConn is nil).  The three  *)
(* "Must be suspended" panics and a second close of chanEmergencyClose     *)
(* cannot be reached, whatever migrations run.                             *)
OnlyNilPanic ==
    panicked => \E c \in Conns : closer[c] = "waiting" /\ conn[c] = "spawned"

(* The listener, which holds condSuspend.L when it sends on chanSuspend,   *)
(* always finds room in the channel: it can never block there and keep     *)
(* Resume from taking the lock.                                            *)
AckNeverBlocks == lst = "send" => chanSuspend = 0

(* Suspend returns: a migration that waits for the token gets it unless    *)
(* the listener was still parked from an earlier suspension (it sends no   *)
(* second token) or has ended.                                             *)
SuspendAcked ==
    \A m \in Migrations :
        (exec[m] = "waitAck" /\ lst \notin {"parked", "woken"})
            ~> (exec[m] # "waitAck" \/ lst = "exited" \/ panicked)

(* CloseAllForwarders returns unless a stream is stuck in a Write.         *)
CloseAllEnds ==
    \A m \in Migrations :
        exec[m] = "waitClosers" ~> \/ exec[m] # "waitClosers" \/ panicked
                                   \/ \E c \in Conns : "stuck" \in {up[c], down[c]}

(* A migration that waits for ever: for a token that the listener, parked  *)
(* or ended, will not send, or for a stream that is stuck in a Write.      *)
MigrationHangs ==
    \E m \in Migrations :
        \/ exec[m] = "waitAck" /\ chanSuspend = 0 /\ lst \in {"parked", "woken", "exited"}
        \/ exec[m] = "waitClosers" /\ \E c \in Conns : "stuck" \in {up[c], down[c]}

(* A client that connects while a migration has suspended the service is   *)
(* accepted in the end, whether the migration succeeds or fails, unless    *)
(* the service is closed by Remove, the listener has ended or the          *)
(* migration hangs.                                                        *)
BacklogServed ==
    \A c \in Conns :
        conn[c] = "queued" ~> (conn[c] # "queued" \/ panicked \/ lst = "exited" \/ MigrationHangs)

(* After Close the listener goroutine ends, also when the service was      *)
(* suspended at that moment, unless a migration hangs and leaves it so.    *)
ListenerStops == chanClose ~> (lst = "exited" \/ panicked \/ MigrationHangs)

-----------------------------------------------------------------------------
(* The sessions a client sees: forwarders between Accept and its return.   *)
Sessions == {<<c, addr[c]>> : c \in {d \in Conns : conn[d] \in Running}}

Route == INSTANCE SwitchedRoute WITH backend <- serverAddr, sessions <- Sessions

(* The service implements SwitchedRoute: ChangeServerAddr happens only     *)
(* when every forwarder of the old server has returned, and a forwarder    *)
(* that starts dials the server of that moment.                            *)
SwitchesRoute == Route!Spec

-----------------------------------------------------------------------------
(* Why the properties hold: an inductive invariant, part by part.          *)

(* The listener on LM_HostResumeSigPort makes the migrations exclusive. *)
PortMutex ==
    \A m, n \in Migrations : exec[m] \in Holding /\ exec[n] \in Holding => m = n

SuspendedBy == isSuspended <=> \E m \in Migrations : exec[m] \in Suspending

(* The token in chanSuspend is for the migration that waits. *)
TokenForWaiter ==
    chanSuspend = 1 => lst = "parked" /\ \E m \in Migrations : exec[m] = "waitAck"

ListenerParked ==
    /\ lst = "send" => isSuspended
    /\ \A m \in Migrations : exec[m] \in Acked => lst = "parked"

LiveListed == \A c \in Conns : conn[c] \in Live => c \in fwdrs

(* Closers cover every live forwarder while CloseAllForwarders waits. *)
ClosersCover ==
    \A m \in Migrations : exec[m] = "waitClosers" =>
        \A c \in Conns : conn[c] \in Live => closer[c] \in {"pending", "waiting"}

EmergencyOnce == \A c \in Conns : emergency[c] = "closed" => isUpClosed[c]

(* All of it holds together: the handshake, the port and the closers leave *)
(* no forwarder behind, whatever the interleaving.                         *)
IndInv ==
    /\ PortMutex
    /\ SuspendedBy
    /\ TokenForWaiter
    /\ ListenerParked
    /\ LiveListed
    /\ ClosersCover
    /\ EmergencyOnce
    /\ QuietDuringDump
    /\ RouteCurrent
    /\ OnlyNilPanic
=============================================================================
