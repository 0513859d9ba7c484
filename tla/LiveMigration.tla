---------------------------- MODULE LiveMigration ----------------------------
(***************************************************************************)
(* server/lm.go: live migration of applications to one host from others.   *)
(*                                                                         *)
(*   - LM_Restore.exec on the destination host, one goroutine per          *)
(*     migration, with the goroutine that accepts the resume signal;       *)
(*   - LM_DumpService on a source host: Start, and the goroutine that      *)
(*     serves the requests of one connection;                              *)
(*   - the SSH tunnel (ssh.go) and the kube port-forward (kube-portfwd.go) *)
(*     that carry rsync, both closed asynchronously;                       *)
(*   - in the pods: the shell command of a request (criu and rsync), which *)
(*     does not need the stream or the server that started it to go on,    *)
(*     and criu restore with the post-resume script (external).            *)
(*                                                                         *)
(* Suspending the forwarding service is one step here, or never ends;      *)
(* ForwarderService opens it up.  A TCP port is held exactly in some       *)
(* control states, so the ports are state functions.                       *)
(***************************************************************************)
EXTENDS Integers

CONSTANTS
    Migrations,     \* calls of exec on the destination host
    Sources,        \* source hosts
    Apps,           \* applications in pods of the source hosts
    App,            \* App[m]: the application that m migrates
    Source,         \* Source[a]: the host of application a
    Iteration,      \* Iteration[m]: the request's number of pre-dumps
    FwdMigrations,  \* migrations with a forwarding service (ExecFwdLM)
    MaxIteration,   \* bound on Iteration
    Faults          \* faults allowed, a subset of FaultKinds

(* "pod": an exec in a pod fails or loses its stream.  "net": a dial fails *)
(* or a connection breaks.  "criu", "rsync", "restore": the command fails. *)
(* "slow": the restore outlasts the timeout.  "accept": a listener fails.  *)
(* "hang": a call without a deadline never returns.  "crash": a server     *)
(* process dies, once per host, and is started again.                      *)
FaultKinds == {"pod", "net", "criu", "rsync", "restore", "slow", "accept", "hang", "crash"}

ASSUME LMAssumption ==
    /\ "none" \notin Migrations
    /\ App \in [Migrations -> Apps]
    /\ Source \in [Apps -> Sources]
    /\ "dst" \notin Sources
    /\ MaxIteration \in Nat \ {0}
    /\ Iteration \in [Migrations -> {i \in Int : i <= MaxIteration}]
    /\ FwdMigrations \subseteq Migrations
    /\ Faults \subseteq FaultKinds

VARIABLES
    exec,      \* control point of each exec
    itr,       \* pre-dumps that exec has seen answered
    resumed,   \* resumeChan: "open", or closed after a "signal" or an "error"
    timedOut,  \* exec went on without the resume signal
    route,     \* server the forwarding service of m uses: "src" or "dst"
    portFwd,   \* kube port-forward of m: "none", "open", "stopping"
    svc,       \* control point of m's dump service
    itercnt,   \* its loop counter
    tunnel,    \* its SSH tunnel: "none", "open", "closing"
    conn,      \* message connection: "none", "open", "closed" by exec, "broken"
    req, resp, \* byte in flight on it, in each direction
    cmd,       \* step of the command in the source pod that m's service started last
    dir,       \* image directory of that command
    app,       \* process in the source pod: "running" or "dumped"
    srcImg,    \* srcImg[a][d]: migration that wrote image directory d, or none
    dstImg,    \* the same for the pod of each migration
    restored,  \* process in that pod
    crashed    \* hosts ("dst" or a source) whose server process has died

execVars == <<exec, itr, resumed, timedOut, route, portFwd>>
svcVars  == <<svc, itercnt, tunnel>>
msgVars  == <<conn, req, resp>>
podVars  == <<cmd, dir, app, srcImg, dstImg, restored>>
vars == <<execVars, svcVars, msgVars, podVars, crashed>>

-----------------------------------------------------------------------------
(* LM_HostResumeSigPort is listened on from "prepare" to the return.       *)
Waiting == {"preWait", "dumpWait"}
Holding == {"prepare", "dumpStart", "dial", "openPortFwd", "preDump", "suspend",
            "dump", "restore", "switch", "hung"} \cup Waiting
Ended == {"returned", "crashed"}
ExecStates == {"idle"} \cup Holding \cup Ended

(* LM_HostMsgPort is listened on while the service is serving. *)
Serving == {"accept", "read", "run"}
SvcStates == {"none", "ended"} \cup Serving

(* The command: criu, then rsync, which may hang, then its exit status. *)
CmdStates == {"none", "criu", "rsync", "hung", "ok", "error"}

NoMigration == "none"
Final == 0                       \* the directory "final"
Dirs == 0..MaxIteration
Images == [Dirs -> Migrations \cup {NoMigration}]
NoImages == [d \in Dirs |-> NoMigration]

Runs == {"resumed", "running"}   \* a restored process runs
RestoredStates == {"none", "restoring", "failed"} \cup Runs

TypeOK ==
    /\ exec \in [Migrations -> ExecStates]
    /\ itr \in [Migrations -> 0..MaxIteration]
    /\ resumed \in [Migrations -> {"open", "signal", "error"}]
    /\ timedOut \in [Migrations -> BOOLEAN]
    /\ route \in [Migrations -> {"src", "dst"}]
    /\ portFwd \in [Migrations -> {"none", "open", "stopping"}]
    /\ svc \in [Migrations -> SvcStates]
    /\ itercnt \in [Migrations -> 1..(MaxIteration + 2)]
    /\ tunnel \in [Migrations -> {"none", "open", "closing"}]
    /\ conn \in [Migrations -> {"none", "open", "closed", "broken"}]
    /\ req \in [Migrations -> {"none", "preDump", "dump"}]
    /\ resp \in [Migrations -> {"none", "ok", "error"}]
    /\ cmd \in [Migrations -> CmdStates]
    /\ dir \in [Migrations -> Dirs]
    /\ app \in [Apps -> {"running", "dumped"}]
    /\ srcImg \in [Apps -> Images]
    /\ dstImg \in [Migrations -> Images]
    /\ restored \in [Migrations -> RestoredStates]
    /\ crashed \subseteq Sources \cup {"dst"}

Init ==
    /\ exec = [m \in Migrations |-> "idle"]
    /\ itr = [m \in Migrations |-> 0]
    /\ resumed = [m \in Migrations |-> "open"]
    /\ timedOut = [m \in Migrations |-> FALSE]
    /\ route = [m \in Migrations |-> "src"]
    /\ portFwd = [m \in Migrations |-> "none"]
    /\ svc = [m \in Migrations |-> "none"]
    /\ itercnt = [m \in Migrations |-> 1]
    /\ tunnel = [m \in Migrations |-> "none"]
    /\ conn = [m \in Migrations |-> "none"]
    /\ req = [m \in Migrations |-> "none"]
    /\ resp = [m \in Migrations |-> "none"]
    /\ cmd = [m \in Migrations |-> "none"]
    /\ dir = [m \in Migrations |-> Final]
    /\ app = [a \in Apps |-> "running"]
    /\ srcImg = [a \in Apps |-> NoImages]
    /\ dstImg = [m \in Migrations |-> NoImages]
    /\ restored = [m \in Migrations |-> "none"]
    /\ crashed = {}

-----------------------------------------------------------------------------
(* LM_Restore.exec. *)

(* The number of pre-dumps: zero asks for the default, one. *)
PreDumps(m) ==
    CASE Iteration[m] > 0 -> Iteration[m]
      [] Iteration[m] = 0 -> 1
      [] OTHER -> 0

Goto(m, from, to) ==
    /\ exec[m] = from
    /\ exec' = [exec EXCEPT ![m] = to]

(* The deferred calls: Resume, stop the port-forward, close the connection *)
(* and the listener.                                                       *)
Return(m, from) ==
    /\ Goto(m, from, "returned")
    /\ portFwd' = [portFwd EXCEPT ![m] = IF @ = "open" THEN "stopping" ELSE @]
    /\ conn' = [conn EXCEPT ![m] = IF @ = "open" THEN "closed" ELSE @]

ExecListen(m) ==
    /\ \A n \in Migrations : exec[n] \notin Holding
    /\ Goto(m, "idle", "prepare")
    /\ UNCHANGED <<itr, resumed, timedOut, route, portFwd, svcVars, msgVars, podVars, crashed>>

ExecListenFails(m) ==
    /\ \E n \in Migrations : exec[n] \in Holding
    /\ Goto(m, "idle", "returned")
    /\ UNCHANGED <<itr, resumed, timedOut, route, portFwd, svcVars, msgVars, podVars, crashed>>

(* WritePodFile and the rsync daemon. *)
Prepare(m) ==
    /\ Goto(m, "prepare", "dumpStart")
    /\ UNCHANGED <<itr, resumed, timedOut, route, portFwd, svcVars, msgVars, podVars, crashed>>

(* Every file and command of a pod goes through ExecutePod. *)
ExecutePodFails == "pod" \in Faults

PrepareFails(m) ==
    /\ ExecutePodFails
    /\ Return(m, "prepare")
    /\ UNCHANGED <<itr, resumed, timedOut, route, svcVars, req, resp, podVars, crashed>>

(* sendDumpStartRequest: the answer to a service that started, or not. *)
DumpStarted(m) ==
    /\ svc[m] # "none"
    /\ Goto(m, "dumpStart", "dial")
    /\ UNCHANGED <<itr, resumed, timedOut, route, portFwd, svcVars, msgVars, podVars, crashed>>

SourceOf(m) == Source[App[m]]

(* LM_HostMsgPort or the tunnel's LM_HostDataPort is taken on m's source. *)
PortsBusy(m) ==
    \E n \in Migrations :
        /\ SourceOf(n) = SourceOf(m)
        /\ svc[n] \in Serving \/ tunnel[n] # "none"

(* A Start that fails after it has opened the tunnel (getMainPid) closes   *)
(* it again.  The answer of one that succeeded may be lost.                *)
DumpStartFails(m) ==
    /\ \/ svc[m] = "none" /\ PortsBusy(m) /\ UNCHANGED tunnel
       \/ /\ svc[m] = "none" /\ ~PortsBusy(m) /\ ExecutePodFails
          /\ \E t \in {"none", "closing"} : tunnel' = [tunnel EXCEPT ![m] = t]
       \/ "net" \in Faults /\ UNCHANGED tunnel
    /\ Return(m, "dumpStart")
    /\ UNCHANGED <<itr, resumed, timedOut, route, svc, itercnt, req, resp, podVars, crashed>>

Dial(m) ==
    /\ svc[m] = "accept"
    /\ Goto(m, "dial", "openPortFwd")
    /\ conn' = [conn EXCEPT ![m] = "open"]
    /\ UNCHANGED <<itr, resumed, timedOut, route, portFwd, svcVars, req, resp, podVars, crashed>>

DialFails(m) ==
    /\ svc[m] # "accept" \/ "net" \in Faults
    /\ Return(m, "dial")
    /\ UNCHANGED <<itr, resumed, timedOut, route, svcVars, req, resp, podVars, crashed>>

(* Mutant: one pre-dump too many. *)
AfterPreDumpsTooMany(m, i) ==
    IF i <= PreDumps(m) THEN "preDump"
    ELSE IF m \in FwdMigrations THEN "suspend" ELSE "dump"

(* Where exec goes when i pre-dumps are done. *)
AfterPreDumps(m, i) ==
    IF i < PreDumps(m) THEN "preDump"
    ELSE IF m \in FwdMigrations THEN "suspend" ELSE "dump"

OpenPortFwd(m) ==
    /\ \A n \in Migrations : portFwd[n] = "none"
    /\ Goto(m, "openPortFwd", AfterPreDumps(m, 0))
    /\ portFwd' = [portFwd EXCEPT ![m] = "open"]
    /\ UNCHANGED <<itr, resumed, timedOut, route, svcVars, msgVars, podVars, crashed>>

OpenPortFwdFails(m) ==
    /\ "net" \in Faults \/ \E n \in Migrations : portFwd[n] # "none"
    /\ Return(m, "openPortFwd")
    /\ UNCHANGED <<itr, resumed, timedOut, route, svcVars, req, resp, podVars, crashed>>

(* sendDumpServiceRequest, for a pre-dump and for the final dump. *)
Send(m, r, from, to) ==
    /\ Goto(m, from, to)
    /\ req' = [req EXCEPT ![m] = r]
    /\ UNCHANGED <<itr, resumed, timedOut, route, portFwd, svcVars, conn, resp, podVars, crashed>>

(* Mutant: the message bytes are swapped. *)
SendPreDumpSwapped(m) == Send(m, "dump", "preDump", "preWait")

SendPreDump(m) == Send(m, "preDump", "preDump", "preWait")
SendDump(m) == Send(m, "dump", "dump", "dumpWait")

RecvPreDumpOk(m) ==
    /\ resp[m] = "ok"
    /\ Goto(m, "preWait", AfterPreDumps(m, itr[m] + 1))
    /\ itr' = [itr EXCEPT ![m] = @ + 1]
    /\ resp' = [resp EXCEPT ![m] = "none"]
    /\ UNCHANGED <<resumed, timedOut, route, portFwd, svcVars, conn, req, podVars, crashed>>

(* Mutant: the answer is not compared with LM_MsgRespOk. *)
RecvDumpAny(m) ==
    /\ resp[m] # "none"
    /\ Goto(m, "dumpWait", "restore")
    /\ resp' = [resp EXCEPT ![m] = "none"]
    /\ restored' = [restored EXCEPT ![m] = "restoring"]
    /\ UNCHANGED <<itr, resumed, timedOut, route, portFwd, svcVars, conn, req, cmd, dir, app,
                   srcImg, dstImg, crashed>>

(* The goroutine that runs criu restore starts with the wait. *)
RecvDumpOk(m) ==
    /\ resp[m] = "ok"
    /\ Goto(m, "dumpWait", "restore")
    /\ resp' = [resp EXCEPT ![m] = "none"]
    /\ restored' = [restored EXCEPT ![m] = "restoring"]
    /\ UNCHANGED <<itr, resumed, timedOut, route, portFwd, svcVars, conn, req, cmd, dir, app,
                   srcImg, dstImg, crashed>>

(* Mutant: the end of the connection is not taken for an error. *)
RecvErrorByteOnly(m) ==
    /\ resp[m] = "error"
    /\ \E w \in Waiting : Return(m, w)
    /\ resp' = [resp EXCEPT ![m] = "none"]
    /\ UNCHANGED <<itr, resumed, timedOut, route, svcVars, req, podVars, crashed>>

(* An error byte, or the end of a connection the service is gone from. *)
RecvError(m) ==
    /\ resp[m] = "error" \/ (resp[m] = "none" /\ svc[m] = "ended")
    /\ \E w \in Waiting : Return(m, w)
    /\ resp' = [resp EXCEPT ![m] = "none"]
    /\ UNCHANGED <<itr, resumed, timedOut, route, svcVars, req, podVars, crashed>>

(* The connection breaks while the service lives: exec reads an error (or  *)
(* could not write), and the request, if still under way, may arrive.      *)
ConnBreaks(m) ==
    /\ "net" \in Faults
    /\ exec[m] \in Waiting
    /\ Goto(m, exec[m], "returned")
    /\ portFwd' = [portFwd EXCEPT ![m] = "stopping"]
    /\ conn' = [conn EXCEPT ![m] = "broken"]
    /\ \E r \in {req[m], "none"} : req' = [req EXCEPT ![m] = r]
    /\ resp' = [resp EXCEPT ![m] = "none"]
    /\ UNCHANGED <<itr, resumed, timedOut, route, svcVars, podVars, crashed>>

(* Suspend and CloseAllForwarders. *)
SuspendForwarding(m) ==
    /\ Goto(m, "suspend", "dump")
    /\ UNCHANGED <<itr, resumed, timedOut, route, portFwd, svcVars, msgVars, podVars, crashed>>

(* A call without a deadline never returns: ExecutePod, the read of the    *)
(* DumpStart answer, the port-forward that gets ready, Suspend with a      *)
(* listener that cannot answer, CloseAllForwarders with a stalled peer.    *)
ExecHangs(m) ==
    /\ "hang" \in Faults
    /\ exec[m] \in {"prepare", "dumpStart", "openPortFwd", "suspend"}
    /\ Goto(m, exec[m], "hung")
    /\ UNCHANGED <<itr, resumed, timedOut, route, portFwd, svcVars, msgVars, podVars, crashed>>

(* The goroutine behind the listener closes resumeChan whatever Accept     *)
(* returns, so exec takes its error for the signal.                        *)
ResumeAcceptFails(m) ==
    /\ "accept" \in Faults
    /\ exec[m] \in Holding /\ resumed[m] = "open"
    /\ resumed' = [resumed EXCEPT ![m] = "error"]
    /\ UNCHANGED <<exec, itr, timedOut, route, portFwd, svcVars, msgVars, podVars, crashed>>

WaitForResume(m) ==
    /\ resumed[m] # "open"
    /\ Goto(m, "restore", "switch")
    /\ UNCHANGED <<itr, resumed, timedOut, route, portFwd, svcVars, msgVars, podVars, crashed>>

(* The 5 s timer: a warning, and exec goes on as after a signal. *)
WaitTimeout(m) ==
    /\ restored[m] = "failed" \/ "slow" \in Faults
    /\ Goto(m, "restore", "switch")
    /\ timedOut' = [timedOut EXCEPT ![m] = TRUE]
    /\ UNCHANGED <<itr, resumed, route, portFwd, svcVars, msgVars, podVars, crashed>>

(* Mutant: exec returns without ChangeServerAddr. *)
ReturnUnswitched(m) ==
    /\ Return(m, "switch")
    /\ UNCHANGED <<itr, resumed, timedOut, route, svcVars, req, resp, podVars, crashed>>

(* ChangeServerAddr for a forwarded application, then the return. *)
SwitchAndReturn(m) ==
    /\ route' = [route EXCEPT ![m] = IF m \in FwdMigrations THEN "dst" ELSE @]
    /\ Return(m, "switch")
    /\ UNCHANGED <<itr, resumed, timedOut, svcVars, req, resp, podVars, crashed>>

PortFwdStops(m) ==
    /\ portFwd[m] = "stopping"
    /\ portFwd' = [portFwd EXCEPT ![m] = "none"]
    /\ UNCHANGED <<exec, itr, resumed, timedOut, route, svcVars, msgVars, podVars, crashed>>

-----------------------------------------------------------------------------
(* LM_DumpService.  Start answers a DumpStart request: it listens, opens   *)
(* the tunnel, reads the pid and starts the serving goroutine.             *)
Start(m) ==
    /\ exec[m] = "dumpStart"
    /\ svc[m] = "none"
    /\ ~PortsBusy(m)
    /\ svc' = [svc EXCEPT ![m] = "accept"]
    /\ tunnel' = [tunnel EXCEPT ![m] = "open"]
    /\ UNCHANGED <<execVars, itercnt, msgVars, podVars, crashed>>

SvcGoto(m, from, to) ==
    /\ svc[m] = from
    /\ svc' = [svc EXCEPT ![m] = to]

SvcAccept(m) ==
    /\ conn[m] # "none"
    /\ SvcGoto(m, "accept", "read")
    /\ UNCHANGED <<execVars, itercnt, tunnel, msgVars, podVars, crashed>>

SvcAcceptFails(m) ==
    /\ "accept" \in Faults
    /\ SvcGoto(m, "accept", "ended")
    /\ tunnel' = [tunnel EXCEPT ![m] = "closing"]
    /\ UNCHANGED <<execVars, itercnt, msgVars, podVars, crashed>>

(* ExecutePod: the command goes into the next directory, or into "final".  *)
SvcRead(m) ==
    /\ req[m] # "none"
    /\ SvcGoto(m, "read", "run")
    /\ cmd' = [cmd EXCEPT ![m] = "criu"]
    /\ dir' = [dir EXCEPT ![m] = IF req[m] = "preDump" THEN itercnt[m] ELSE Final]
    /\ req' = [req EXCEPT ![m] = "none"]
    /\ UNCHANGED <<execVars, itercnt, tunnel, conn, resp, app, srcImg, dstImg, restored, crashed>>

(* Mutant: the tunnel is left open. *)
SvcReadEOFTunnelOpen(m) ==
    /\ conn[m] \in {"closed", "broken"} /\ req[m] = "none"
    /\ SvcGoto(m, "read", "ended")
    /\ UNCHANGED <<execVars, itercnt, tunnel, msgVars, podVars, crashed>>

(* EOF or an error: the goroutine closes the tunnel's channel and the      *)
(* listener.                                                               *)
SvcReadEOF(m) ==
    /\ conn[m] \in {"closed", "broken"} /\ req[m] = "none"
    /\ SvcGoto(m, "read", "ended")
    /\ tunnel' = [tunnel EXCEPT ![m] = "closing"]
    /\ UNCHANGED <<execVars, itercnt, msgVars, podVars, crashed>>

(* The answer.  A write that fails ends the service as the next read does. *)
Answer(m, r) ==
    /\ SvcGoto(m, "run", "read")
    /\ itercnt' = [itercnt EXCEPT ![m] = @ + 1]
    /\ resp' = [resp EXCEPT ![m] = IF conn[m] = "open" THEN r ELSE @]
    /\ UNCHANGED <<execVars, tunnel, conn, req, dir, app, srcImg, dstImg, restored, crashed>>

(* The command's exit status is the result of ExecutePod. *)
Respond(m) ==
    /\ cmd[m] \in {"ok", "error"}
    /\ Answer(m, cmd[m])
    /\ cmd' = [cmd EXCEPT ![m] = "none"]

(* ExecutePod fails although the command has begun: it goes on by itself,  *)
(* or was never started.                                                   *)
StreamBreaks(m) ==
    /\ ExecutePodFails
    /\ Answer(m, "error")
    /\ \/ UNCHANGED cmd
       \/ cmd[m] = "criu" /\ cmd' = [cmd EXCEPT ![m] = "none"]

-----------------------------------------------------------------------------
(* The command in the source pod.  It runs whether or not its service      *)
(* still waits for it.                                                     *)
CmdGoto(m, from, to) ==
    /\ cmd[m] = from
    /\ cmd' = [cmd EXCEPT ![m] = to]

(* mkdir && criu pre-dump: a directory per iteration, on top of the last. *)
CriuPreDump(m) ==
    /\ dir[m] # Final /\ app[App[m]] = "running"
    /\ CmdGoto(m, "criu", "rsync")
    /\ srcImg' = [srcImg EXCEPT ![App[m]][dir[m]] = m]
    /\ UNCHANGED <<execVars, svcVars, msgVars, dir, app, dstImg, restored, crashed>>

(* Mutant: criu dump with --leave-running. *)
CriuDumpLeaveRunning(m) ==
    /\ dir[m] = Final /\ app[App[m]] = "running"
    /\ CmdGoto(m, "criu", "rsync")
    /\ srcImg' = [srcImg EXCEPT ![App[m]][Final] = m]
    /\ UNCHANGED <<execVars, svcVars, msgVars, dir, app, dstImg, restored, crashed>>

(* mkdir && criu dump, which leaves no process behind. *)
CriuDump(m) ==
    /\ dir[m] = Final /\ app[App[m]] = "running"
    /\ CmdGoto(m, "criu", "rsync")
    /\ srcImg' = [srcImg EXCEPT ![App[m]][Final] = m]
    /\ app' = [app EXCEPT ![App[m]] = "dumped"]
    /\ UNCHANGED <<execVars, svcVars, msgVars, dir, dstImg, restored, crashed>>

CriuFails(m) ==
    /\ app[App[m]] = "dumped" \/ "criu" \in Faults
    /\ CmdGoto(m, "criu", "error")
    /\ UNCHANGED <<execVars, svcVars, msgVars, dir, app, srcImg, dstImg, restored, crashed>>

(* Some tunnel of the source host accepts, whoever opened it. *)
Tunnelled(m) ==
    \E n \in Migrations : SourceOf(n) = SourceOf(m) /\ tunnel[n] # "none"

(* && rsync: to whatever pod the destination's port-forward leads to. *)
Rsync(m) ==
    /\ Tunnelled(m)
    /\ CmdGoto(m, "rsync", "ok")
    /\ \E n \in Migrations :
          /\ portFwd[n] # "none"
          /\ dstImg' = [dstImg EXCEPT ![n] =
                          [d \in Dirs |-> IF srcImg[App[m]][d] = NoMigration
                                          THEN @[d] ELSE srcImg[App[m]][d]]]
    /\ UNCHANGED <<execVars, svcVars, msgVars, dir, app, srcImg, restored, crashed>>

NoRoute(m) == ~Tunnelled(m) \/ \A n \in Migrations : portFwd[n] = "none"

(* Mutant: the result of rsync is not the result of the command. *)
RsyncFailsUnnoticed(m) ==
    /\ "rsync" \in Faults \/ NoRoute(m)
    /\ CmdGoto(m, "rsync", "ok")
    /\ UNCHANGED <<execVars, svcVars, msgVars, dir, app, srcImg, dstImg, restored, crashed>>

RsyncFails(m) ==
    /\ "rsync" \in Faults \/ NoRoute(m)
    /\ CmdGoto(m, "rsync", "error")
    /\ UNCHANGED <<execVars, svcVars, msgVars, dir, app, srcImg, dstImg, restored, crashed>>

(* The far end of rsync's route goes away: the SSH connection breaks, or   *)
(* the server that has the port-forward dies.  The tunnel ends its copies  *)
(* but closes the local connection with the tunnel only (SSHTunnel), and   *)
(* the tunnel is closed by the goroutine that waits for rsync.             *)
RsyncHangs(m) ==
    /\ "net" \in Faults \/ "dst" \in crashed
    /\ Tunnelled(m)
    /\ CmdGoto(m, "rsync", "hung")
    /\ UNCHANGED <<execVars, svcVars, msgVars, dir, app, srcImg, dstImg, restored, crashed>>

(* What rsync has left of a connection ends with the tunnel. *)
TunnelCloses(m) ==
    /\ tunnel[m] = "closing"
    /\ tunnel' = [tunnel EXCEPT ![m] = "none"]
    /\ cmd' = [cmd EXCEPT ![m] = IF @ = "hung" THEN "error" ELSE @]
    /\ UNCHANGED <<execVars, svc, itercnt, msgVars, dir, app, srcImg, dstImg, restored, crashed>>

-----------------------------------------------------------------------------
(* criu restore in the destination pod, and its post-resume script.        *)

CriuRestore(m) ==
    /\ restored[m] = "restoring"
    /\ restored' = [restored EXCEPT ![m] = "resumed"]
    /\ UNCHANGED <<execVars, svcVars, msgVars, cmd, dir, app, srcImg, dstImg, crashed>>

CriuRestoreFails(m) ==
    /\ "restore" \in Faults
    /\ restored[m] = "restoring"
    /\ restored' = [restored EXCEPT ![m] = "failed"]
    /\ UNCHANGED <<execVars, svcVars, msgVars, cmd, dir, app, srcImg, dstImg, crashed>>

(* nc connects to the host's port: whichever exec listens there takes the  *)
(* connection for its resume signal.                                       *)
Signal ==
    resumed' = [n \in Migrations |->
                  IF exec[n] \in Holding /\ resumed[n] = "open" THEN "signal" ELSE resumed[n]]

(* Mutant: the script does not look at CRTOOLS_SCRIPT_ACTION. *)
AnyScriptAction(m) ==
    /\ restored[m] \in {"restoring", "resumed"}
    /\ restored' = [restored EXCEPT ![m] = IF @ = "resumed" THEN "running" ELSE @]
    /\ Signal
    /\ UNCHANGED <<exec, itr, timedOut, route, portFwd, svcVars, msgVars, cmd, dir, app, srcImg,
                   dstImg, crashed>>

(* The post-resume script. *)
PostResume(m) ==
    /\ restored[m] = "resumed"
    /\ restored' = [restored EXCEPT ![m] = "running"]
    /\ Signal
    /\ UNCHANGED <<exec, itr, timedOut, route, portFwd, svcVars, msgVars, cmd, dir, app, srcImg,
                   dstImg, crashed>>

-----------------------------------------------------------------------------
(* A server process dies; its sockets are closed and it is started again.  *)
(* The commands that it started in pods go on.                             *)

DestCrash ==
    /\ "crash" \in Faults /\ "dst" \notin crashed
    /\ crashed' = crashed \cup {"dst"}
    /\ exec' = [m \in Migrations |-> IF exec[m] \in Holding THEN "crashed" ELSE exec[m]]
    /\ portFwd' = [m \in Migrations |-> "none"]
    /\ conn' = [m \in Migrations |-> IF conn[m] = "open" THEN "closed" ELSE conn[m]]
    /\ UNCHANGED <<itr, resumed, timedOut, route, svcVars, req, resp, podVars>>

SourceCrash(h) ==
    /\ "crash" \in Faults /\ h \notin crashed
    /\ crashed' = crashed \cup {h}
    /\ svc' = [m \in Migrations |-> IF SourceOf(m) = h /\ svc[m] \in Serving
                                    THEN "ended" ELSE svc[m]]
    /\ tunnel' = [m \in Migrations |-> IF SourceOf(m) = h THEN "none" ELSE tunnel[m]]
    /\ cmd' = [m \in Migrations |-> IF SourceOf(m) = h /\ cmd[m] = "hung"
                                    THEN "error" ELSE cmd[m]]
    /\ UNCHANGED <<execVars, itercnt, msgVars, dir, app, srcImg, dstImg, restored>>

-----------------------------------------------------------------------------
Exec(m) ==
    \/ ExecListen(m) \/ ExecListenFails(m)
    \/ Prepare(m) \/ PrepareFails(m)
    \/ DumpStarted(m) \/ DumpStartFails(m)
    \/ Dial(m) \/ DialFails(m)
    \/ OpenPortFwd(m) \/ OpenPortFwdFails(m)
    \/ SendPreDump(m) \/ RecvPreDumpOk(m)
    \/ SuspendForwarding(m)
    \/ SendDump(m) \/ RecvDumpOk(m) \/ RecvError(m)
    \/ WaitForResume(m) \/ WaitTimeout(m) \/ SwitchAndReturn(m)

DumpService(m) ==
    Start(m) \/ SvcAccept(m) \/ SvcRead(m) \/ SvcReadEOF(m) \/ Respond(m)

Command(m) ==
    \/ CriuPreDump(m) \/ CriuDump(m) \/ CriuFails(m)
    \/ Rsync(m) \/ RsyncFails(m) \/ RsyncHangs(m)

Background(m) == PortFwdStops(m) \/ TunnelCloses(m)

Pod(m) == CriuRestore(m) \/ CriuRestoreFails(m) \/ PostResume(m)

Break(m) ==
    \/ ConnBreaks(m) \/ ExecHangs(m) \/ ResumeAcceptFails(m) \/ SvcAcceptFails(m)
    \/ StreamBreaks(m)

Crash == DestCrash \/ \E h \in Sources : SourceCrash(h)

Next ==
    \/ \E m \in Migrations :
          Exec(m) \/ DumpService(m) \/ Command(m) \/ Background(m) \/ Pod(m) \/ Break(m)
    \/ Crash

Spec == Init /\ [][Next]_vars

(***************************************************************************)
(* Fairness: every goroutine and every command in a pod goes on, but for   *)
(* an rsync that lost its route and a call that hangs.  An rsync whose     *)
(* route was refused ends when the abandoned local connection is collected *)
(* and closed.  No migration has to be requested and nothing has to break. *)
(***************************************************************************)
Fairness ==
    \A m \in Migrations :
        /\ WF_vars(exec[m] # "idle" /\ Exec(m))
        /\ WF_vars(DumpService(m))
        /\ WF_vars(Command(m))
        /\ WF_vars(PortFwdStops(m))
        /\ WF_vars(TunnelCloses(m))
        /\ WF_vars(Pod(m))

FairSpec == Spec /\ Fairness

-----------------------------------------------------------------------------
(* Properties.                                                             *)

(* An application never runs twice: a restored process runs only when CRIU *)
(* has removed the original, and in one destination pod, whatever crashes, *)
(* fails or is requested a second time.                                    *)
AtMostOneInstance ==
    \A m \in Migrations : restored[m] \in Runs =>
        /\ app[App[m]] = "dumped"
        /\ \A n \in Migrations \ {m} : App[n] = App[m] => restored[n] \notin Runs

(* The command of m is on its own: its service or its exec has stopped     *)
(* waiting for it because a stream or connection broke or a server died.   *)
Abandoned(m) == conn[m] = "broken" \/ (cmd[m] # "none" /\ svc[m] # "run")

(* criu restore finds the final image and every pre-dump it builds on in   *)
(* its pod, all written by its own migration, although rsync goes to       *)
(* whatever pod is behind the port.  The exceptions: a destination server  *)
(* that died or a command of some migration that was abandoned, for that   *)
(* command may still write into, or be sent to, the pods of a migration    *)
(* started after it.                                                       *)
RestoreChain ==
    "dst" \notin crashed /\ (\A n \in Migrations : ~Abandoned(n)) =>
        \A m \in Migrations : restored[m] # "none" =>
            \A d \in 0..PreDumps(m) : dstImg[m][d] = m

(* exec went on without the signal of its own process. *)
Unsignalled(m) == timedOut[m] \/ resumed[m] = "error"

(* Clients are switched to the destination only when the restored process  *)
(* runs.  The exceptions: this exec or another one (whose late signal this *)
(* one may take for its own) ran into the timeout or its listener failed,  *)
(* or a destination server died.                                           *)
SwitchedToRunning ==
    \A m \in Migrations : exec[m] = "switch" \/ route[m] = "dst" =>
        \/ restored[m] \in Runs
        \/ \E n \in Migrations : Unsignalled(n)
        \/ "dst" \in crashed

FinalIs(m) == srcImg[App[m]][Final] = m

(* No exception here: although a timeout and a failed listener count as    *)
(* success, exec goes on to the switch, and clients are sent away, only    *)
(* from an original that is gone, to the pod of the one migration that has *)
(* its final image and has started to restore it.                          *)
LeavesOnlyDumped ==
    \A m \in Migrations : exec[m] \in {"restore", "switch"} \/ route[m] = "dst" =>
        restored[m] # "none" /\ FinalIs(m) /\ app[App[m]] = "dumped"

(* The original is removed only by a migration that has all its pre-dumps  *)
(* answered and has asked for the final dump, after the clients' streams   *)
(* were closed: never by a pre-dump.  Its exec waits for the answer; the   *)
(* exceptions are an exec that died and one that returned, and resumed its *)
(* clients, because a stream or connection broke: the command goes on.     *)
KilledOnlyInFinalDump ==
    [][\A a \in Apps : app[a] = "running" /\ app'[a] = "dumped" =>
          \E m \in Migrations :
              /\ App[m] = a /\ itr[m] = PreDumps(m)
              /\ \/ exec[m] = "dumpWait"
                 \/ exec[m] \in Ended /\ (Abandoned(m) \/ "dst" \in crashed)]_vars

(* exec returns, so the port of the resume signal is free again, whatever  *)
(* command fails, connection breaks or server dies.  The exceptions are    *)
(* the calls that have no deadline: an rsync that lost its route, and exec *)
(* hanging in ExecutePod, the DumpStart answer, the port-forward, Suspend  *)
(* or CloseAllForwarders.                                                  *)
MigrationEnds ==
    \A m \in Migrations :
        exec[m] \in Holding ~> (exec[m] \in Ended \cup {"hung"} \/ cmd[m] = "hung")

(* When exec has returned or died, the source host gets its ports back if  *)
(* exec had connected to the dump service and no rsync lost its route.     *)
SourceReleased ==
    \A m \in Migrations :
        (exec[m] \in Ended /\ conn[m] # "none")
            ~> (svc[m] \notin Serving /\ tunnel[m] = "none") \/ cmd[m] = "hung"

(* An application that was dumped runs again in the end, and the clients   *)
(* of a forwarding service are sent to it, also when the restore is slow.  *)
(* The exceptions: a server died, criu restore failed, or exec was told of *)
(* an error or lost its connection, and returned, or waits for a lost      *)
(* rsync: nothing runs.                                                    *)
DumpedRestored ==
    \A a \in Apps : app[a] = "dumped" ~>
        \/ \E m \in Migrations :
              /\ App[m] = a
              /\ \/ restored[m] = "running" /\ (m \in FwdMigrations => route[m] = "dst")
                 \/ restored[m] = "failed"
                 \/ FinalIs(m) /\ exec[m] = "returned" /\ restored[m] = "none"
                 \/ cmd[m] = "hung"
        \/ crashed # {}

-----------------------------------------------------------------------------
(* Why: an inductive invariant about the two ends of the message protocol. *)

(* The process of a is gone once somebody's final image exists, and only   *)
(* one migration ever writes it.                                           *)
FinalMeansDumped ==
    \A m \in Migrations : srcImg[App[m]][Final] # NoMigration => app[App[m]] = "dumped"

(* One message is under way at most, and none unless exec waits or is gone. *)
OneMessage ==
    \A m \in Migrations :
        /\ req[m] # "none" => resp[m] = "none" /\ svc[m] # "run"
        /\ resp[m] # "none" => svc[m] # "run"
        /\ exec[m] \notin Waiting \cup Ended =>
              req[m] = "none" /\ resp[m] = "none" /\ svc[m] # "run"

(* m's service has a final dump to do or has started it. *)
FinalAsked(m) ==
    \/ req[m] = "dump" /\ svc[m] # "ended"
    \/ cmd[m] \in {"criu", "rsync", "hung"} /\ dir[m] = Final

(* A final dump is served only to an exec that waits for it, or is gone    *)
(* and does not wait any more; exec sees no answer to an older request.    *)
DumpForWaiter ==
    \A m \in Migrations :
        /\ FinalAsked(m) =>
              \/ exec[m] = "dumpWait"
              \/ exec[m] \in Ended /\ (Abandoned(m) \/ "dst" \in crashed)
        /\ exec[m] = "dumpWait" => req[m] # "preDump" /\ (svc[m] = "run" => dir[m] = Final)

(* "ok" to a final dump means that the final image is m's. *)
OkMeansFinal ==
    \A m \in Migrations :
        /\ cmd[m] \in {"rsync", "ok"} /\ dir[m] = Final => FinalIs(m)
        /\ exec[m] = "dumpWait" /\ resp[m] = "ok" => FinalIs(m)
        /\ restored[m] # "none" => FinalIs(m)

(* A service that waits has a command, and a command that nobody waits for *)
(* leaves exec with an error: no other request or answer is under way.     *)
CommandKnown ==
    \A m \in Migrations :
        /\ svc[m] = "run" => cmd[m] # "none"
        /\ cmd[m] # "none" =>
              /\ svc[m] \in {"read", "run", "ended"}
              /\ req[m] = "none" /\ resp[m] # "ok"
              /\ exec[m] \in Waiting \cup Ended

(* What the two sides of a migration know of each other. *)
IndInv == FinalMeansDumped /\ OneMessage /\ DumpForWaiter /\ OkMeansFinal /\ CommandKnown
=============================================================================
