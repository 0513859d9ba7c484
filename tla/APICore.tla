------------------------------- MODULE APICore -------------------------------
(***************************************************************************)
(* server/api-core.go, api-server.go, kube.go: the requests about one      *)
(* application name on a set of cluster hosts.                             *)
(*                                                                         *)
(*   - every request is served by a goroutine of its own                   *)
(*     (handleConnection), and the handlers of one host take res.mux of    *)
(*     the name's DeployResource;                                          *)
(*   - DeployFwdLM hands the migration to a goroutine that holds no lock;  *)
(*   - DeployLM keeps res.mux for the whole migration, which asks the      *)
(*     API server of the source host for _dumpStart: a handler that takes  *)
(*     res.mux there;                                                      *)
(*   - Kubernetes (external): a pod and a service per host, one call       *)
(*     after another, a pod's deletion takes time.                         *)
(*                                                                         *)
(* A request keeps its name on every host (the client always sends         *)
(* srcName = name), so one DeployResource per host is the whole of resmap. *)
(* LiveMigration models a migration after the answer to _dumpStart and     *)
(* ForwarderService a forwarding service; here each is a step.             *)
(***************************************************************************)
EXTENDS Naturals

CONSTANTS
    Hosts,    \* hosts that run an API server
    Reqs,     \* requests, and the goroutines that serve them
    Ops,      \* request types in use, a subset of AllOps
    Faults,   \* faults allowed, a subset of FaultKinds
    None      \* nil

AllOps == {"new", "fwd", "lm", "fwdlm", "remove"}

(* "api": a call of the Kubernetes API fails.  "slow": a pod outlasts      *)
(* WaitPodTimeout.  "port": the client port is taken or an address does    *)
(* not resolve.  "net": a dial fails.  "hang": a call of a migration that  *)
(* has no deadline never returns.  "crash": a server process dies and is   *)
(* started again.                                                          *)
FaultKinds == {"api", "slow", "port", "net", "hang", "crash"}

ASSUME APIAssumption ==
    /\ None \notin Reqs
    /\ None \notin Hosts
    /\ None \notin Reqs \X {"handler", "dump"}
    /\ Ops \subseteq AllOps
    /\ Faults \subseteq FaultKinds

VARIABLES
    op,       \* type of the request, None before it arrives
    host,     \* host that serves it
    src,      \* its srcAddr
    pc,       \* control point of its goroutine
    newPod,   \* result of its createNewPod
    svcRes,   \* result of its calls about the service: "none", "ip",
              \*   "exists" (another request created it meanwhile), "error"
    fsv,      \* Fwdsvc of its LM_Restore
    lsn,      \* forwarding service it started: "none", "failed", "open",
              \*   "closing" (Close was called), "closed"
    route,    \* server address of that service: "none", "pod", "source",
              \*   "nowhere" (no host in the address)
    dump,     \* its _dumpStart request on host src: "none", "lock", "start",
              \*   "hung", "ok", "error"
    mux,      \* res.mux: None, or the request and the part of it that holds it
    fwdsvc,   \* res.fwdsvc: the request that started the service, or None
    pod,      \* "none", "pending", "running" (any later phase), "terminating"
    podBy,    \* request that created the pod
    service,  \* the service object exists
    over,     \* history: a Remove ran while this migration was under way
    removed   \* history: a Remove ended well and nothing was deployed since

reqVars  == <<op, host, src>>
locVars  == <<pc, newPod, svcRes, fsv>>
fwdVars  == <<lsn, route, fwdsvc>>
kubeVars == <<pod, podBy, service>>
histVars == <<over, removed>>
vars == <<reqVars, locVars, fwdVars, dump, mux, kubeVars, histVars>>

Init ==
    /\ op = [r \in Reqs |-> None]
    /\ host = [r \in Reqs |-> None]
    /\ src = [r \in Reqs |-> None]
    /\ pc = [r \in Reqs |-> "idle"]
    /\ newPod = [r \in Reqs |-> FALSE]
    /\ svcRes = [r \in Reqs |-> "none"]
    /\ fsv = [r \in Reqs |-> None]
    /\ lsn = [r \in Reqs |-> "none"]
    /\ route = [r \in Reqs |-> "none"]
    /\ dump = [r \in Reqs |-> "none"]
    /\ mux = [h \in Hosts |-> None]
    /\ fwdsvc = [h \in Hosts |-> None]
    /\ pod = [h \in Hosts |-> "none"]
    /\ podBy = [h \in Hosts |-> None]
    /\ service = [h \in Hosts |-> FALSE]
    /\ over = [r \in Reqs |-> FALSE]
    /\ removed = [h \in Hosts |-> FALSE]

-----------------------------------------------------------------------------
(* Control. *)

Goto(r, p) == pc' = [pc EXCEPT ![r] = p]

Handler(r) == <<r, "handler">>
DumpPart(r) == <<r, "dump">>

Unlock(h) == mux' = [mux EXCEPT ![h] = None]

Continue(r, p) == Goto(r, p) /\ UNCHANGED <<newPod, svcRes, fsv, mux>>

(* Mutant: the goroutine of DeployFwdLM unlocks as handlers do. *)
ReturnAlwaysUnlocks(r) ==
    /\ Goto(r, "done")
    /\ newPod' = [newPod EXCEPT ![r] = FALSE]
    /\ svcRes' = [svcRes EXCEPT ![r] = "none"]
    /\ fsv' = [fsv EXCEPT ![r] = None]
    /\ Unlock(host[r])

(* The goroutine ends, and its local variables are gone.  A handler's      *)
(* deferred Unlock runs; the goroutine of DeployFwdLM has no lock to       *)
(* release.                                                                *)
Return(r) ==
    /\ Goto(r, "done")
    /\ newPod' = [newPod EXCEPT ![r] = FALSE]
    /\ svcRes' = [svcRes EXCEPT ![r] = "none"]
    /\ fsv' = [fsv EXCEPT ![r] = None]
    /\ IF op[r] = "fwdlm" THEN UNCHANGED mux ELSE Unlock(host[r])

(* Control points of a migration, from the creation of its pod on. *)
Migrating == {"client", "pod", "getsvc", "mksvc", "ready", "exec", "asked", "migrate",
              "hung"}
InFlight(r, h) == op[r] = "fwdlm" /\ host[r] = h /\ pc[r] \in Migrating

-----------------------------------------------------------------------------
(* handleConnection: a request arrives ... *)

NeedsSource == {"fwd", "lm", "fwdlm"}

Arrive(r, o, h, s) ==
    /\ pc[r] = "idle"
    /\ o \notin NeedsSource => s = h
    /\ op' = [op EXCEPT ![r] = o]
    /\ host' = [host EXCEPT ![r] = h]
    /\ src' = [src EXCEPT ![r] = s]
    /\ Goto(r, "lock")
    /\ UNCHANGED <<newPod, svcRes, fsv, fwdVars, dump, mux, kubeVars, histVars>>

(* ... or is not understood: a read error or timeout, bad JSON, an unknown *)
(* method or deploy type.                                                  *)
Reject(r) ==
    /\ pc[r] = "idle"
    /\ Continue(r, "done")
    /\ UNCHANGED <<reqVars, fwdVars, dump, kubeVars, histVars>>

(* res.mux.Lock() of a handler. *)
Lock(r) ==
    LET h == host[r] IN
    /\ pc[r] = "lock"
    /\ mux[h] = None
    /\ mux' = [mux EXCEPT ![h] = Handler(r)]
    /\ Goto(r, IF op[r] \in {"fwd", "fwdlm"} THEN "fwd" ELSE "client")
    /\ IF op[r] = "remove"
       THEN /\ over' = [q \in Reqs |-> over[q] \/ InFlight(q, h)]
            /\ UNCHANGED removed
       ELSE /\ removed' = [removed EXCEPT ![h] = FALSE]
            /\ UNCHANGED over
    /\ UNCHANGED <<reqVars, newPod, svcRes, fsv, fwdVars, dump, kubeVars>>

NewClient(r) ==
    /\ pc[r] = "client"
    /\ Continue(r, IF op[r] = "remove" THEN "close" ELSE "pod")
    /\ UNCHANGED <<reqVars, fwdVars, dump, kubeVars, histVars>>

(* Mutant: an early return that skips the Unlock. *)
NewClientFailsLocked(r) ==
    /\ "api" \in Faults
    /\ pc[r] = "client"
    /\ Continue(r, "done")
    /\ UNCHANGED <<reqVars, fwdVars, dump, kubeVars, histVars>>

NewClientFails(r) ==
    /\ "api" \in Faults
    /\ pc[r] = "client"
    /\ Return(r)
    /\ UNCHANGED <<reqVars, fwdVars, dump, kubeVars, histVars>>

-----------------------------------------------------------------------------
(* createNewPod: only the request whose Create succeeds has a new pod.  A  *)
(* pod that is being deleted still exists.                                 *)

CreatePod(r) ==
    LET h == host[r] IN
    /\ pc[r] = "pod"
    /\ pod[h] = "none"
    /\ pod' = [pod EXCEPT ![h] = "pending"]
    /\ podBy' = [podBy EXCEPT ![h] = r]
    /\ newPod' = [newPod EXCEPT ![r] = TRUE]
    /\ Goto(r, "getsvc")
    /\ UNCHANGED <<reqVars, svcRes, fsv, fwdVars, dump, mux, service, histVars>>

(* Mutant: an existing pod counts as a new one. *)
CreatePodReused(r) ==
    /\ pc[r] = "pod"
    /\ pod[host[r]] # "none" \/ "api" \in Faults
    /\ newPod' = [newPod EXCEPT ![r] = pod[host[r]] # "none"]
    /\ Goto(r, "getsvc")
    /\ UNCHANGED <<reqVars, svcRes, fsv, fwdVars, dump, mux, kubeVars, histVars>>

CreatePodFails(r) ==
    /\ pc[r] = "pod"
    /\ pod[host[r]] # "none" \/ "api" \in Faults
    /\ Continue(r, "getsvc")
    /\ UNCHANGED <<reqVars, fwdVars, dump, kubeVars, histVars>>

(* createOrGetClusterIP: Get, then Create if there is none. *)

(* A deploy starts the forwarding service next; the goroutine of           *)
(* DeployFwdLM returns unless it created the pod.                          *)
AfterService(r, res) ==
    IF op[r] = "fwdlm" /\ ~newPod[r]
    THEN Return(r)
    ELSE /\ Goto(r, IF op[r] = "fwdlm" THEN "ready" ELSE "fwd")
         /\ svcRes' = [svcRes EXCEPT ![r] = res]
         /\ UNCHANGED <<newPod, fsv, mux>>

GetService(r) ==
    /\ pc[r] = "getsvc"
    /\ service[host[r]]
    /\ AfterService(r, "ip")
    /\ UNCHANGED <<reqVars, fwdVars, dump, kubeVars, histVars>>

GetServiceNotFound(r) ==
    /\ pc[r] = "getsvc"
    /\ ~service[host[r]]
    /\ Continue(r, "mksvc")
    /\ UNCHANGED <<reqVars, fwdVars, dump, kubeVars, histVars>>

CreateService(r) ==
    /\ pc[r] = "mksvc"
    /\ ~service[host[r]]
    /\ service' = [service EXCEPT ![host[r]] = TRUE]
    /\ AfterService(r, "ip")
    /\ UNCHANGED <<reqVars, fwdVars, dump, pod, podBy, histVars>>

(* Since GetService another request has created it: Create fails and the   *)
(* cluster IP stays "".                                                    *)
CreateServiceExists(r) ==
    /\ pc[r] = "mksvc"
    /\ service[host[r]]
    /\ AfterService(r, "exists")
    /\ UNCHANGED <<reqVars, fwdVars, dump, kubeVars, histVars>>

ServiceCallFails(r) ==
    /\ "api" \in Faults
    /\ pc[r] \in {"getsvc", "mksvc"}
    /\ AfterService(r, "error")
    /\ UNCHANGED <<reqVars, fwdVars, dump, kubeVars, histVars>>

-----------------------------------------------------------------------------
(* The forwarding service of the name. *)

(* What a handler does once the service is dealt with: DeployFwdLM starts  *)
(* its goroutine and returns, DeployNew and DeployLM wait for a new pod.   *)
AfterForwarding(r) ==
    CASE op[r] = "fwdlm" ->
             Goto(r, "client") /\ Unlock(host[r]) /\ UNCHANGED <<newPod, svcRes, fsv>>
      [] op[r] \in {"new", "lm"} /\ newPod[r] -> Continue(r, "ready")
      [] OTHER -> Return(r)

(* DeployNew and DeployLM need the cluster IP; the others forward to the   *)
(* source host.                                                            *)
HasAddr(r) == op[r] \in {"fwd", "fwdlm"} \/ svcRes[r] = "ip"

RouteOf(r) == IF op[r] \in {"fwd", "fwdlm"} THEN "source" ELSE "pod"

PortBusy(h) == \E q \in Reqs : host[q] = h /\ lsn[q] \in {"open", "closing"}

StartForwarding(r) ==
    LET h == host[r] IN
    /\ pc[r] = "fwd"
    /\ fwdsvc[h] = None
    /\ HasAddr(r)
    /\ ~PortBusy(h)
    /\ lsn' = [lsn EXCEPT ![r] = "open"]
    /\ route' = [route EXCEPT ![r] = RouteOf(r)]
    /\ fwdsvc' = [fwdsvc EXCEPT ![h] = r]
    /\ AfterForwarding(r)
    /\ UNCHANGED <<reqVars, dump, kubeVars, histVars>>

(* The listener of a closed service may still hold the port. *)
StartForwardingFails(r) ==
    /\ pc[r] = "fwd"
    /\ fwdsvc[host[r]] = None
    /\ HasAddr(r)
    /\ PortBusy(host[r]) \/ "port" \in Faults
    /\ lsn' = [lsn EXCEPT ![r] = "failed"]
    /\ AfterForwarding(r)
    /\ UNCHANGED <<reqVars, route, fwdsvc, dump, kubeVars, histVars>>

(* Mutant: the existing service is closed, as if it were to be replaced. *)
DropForwarding(r) ==
    LET h == host[r] IN
    /\ pc[r] = "fwd"
    /\ fwdsvc[h] # None
    /\ lsn' = [lsn EXCEPT ![fwdsvc[h]] = "closing"]
    /\ fwdsvc' = [fwdsvc EXCEPT ![h] = None]
    /\ AfterForwarding(r)
    /\ UNCHANGED <<reqVars, route, dump, kubeVars, histVars>>

SkipForwarding(r) ==
    /\ pc[r] = "fwd"
    /\ fwdsvc[host[r]] # None \/ ~HasAddr(r)
    /\ AfterForwarding(r)
    /\ UNCHANGED <<reqVars, fwdVars, dump, kubeVars, histVars>>

(* StartForwarderServiceDR: the goroutine that waits for chanClose. *)
ListenerCloses(r) ==
    /\ lsn[r] = "closing"
    /\ lsn' = [lsn EXCEPT ![r] = "closed"]
    /\ UNCHANGED <<reqVars, locVars, route, fwdsvc, dump, mux, kubeVars, histVars>>

-----------------------------------------------------------------------------
(* WaitForPodReady, then the migration. *)

WaitForPodReady(r) ==
    LET h == host[r] IN
    /\ pc[r] = "ready"
    /\ pod[h] \in {"running", "terminating"}
    /\ IF op[r] = "new"
       THEN Return(r)
       ELSE /\ Goto(r, "exec")
            /\ fsv' = [fsv EXCEPT ![r] = IF op[r] = "fwdlm" THEN fwdsvc[h] ELSE None]
            /\ UNCHANGED <<newPod, svcRes, mux>>
    /\ UNCHANGED <<reqVars, fwdVars, dump, kubeVars, histVars>>

(* The poll ends with the first error: NotFound, if the pod was removed. *)
WaitForPodReadyFails(r) ==
    /\ pc[r] = "ready"
    /\ pod[host[r]] = "none" \/ Faults \cap {"api", "slow"} # {}
    /\ Return(r)
    /\ UNCHANGED <<reqVars, fwdVars, dump, kubeVars, histVars>>

(* exec listens on the host's resume port: one migration at a time. *)
ResumePortBusy(r) ==
    \E q \in Reqs \ {r} : host[q] = host[r] /\ pc[q] \in {"asked", "migrate", "hung"}

SendDumpStart(r) ==
    /\ pc[r] = "exec"
    /\ ~ResumePortBusy(r)
    /\ Continue(r, "asked")
    /\ dump' = [dump EXCEPT ![r] = "lock"]
    /\ UNCHANGED <<reqVars, fwdVars, kubeVars, histVars>>

ExecFails(r) ==
    /\ pc[r] = "exec"
    /\ ResumePortBusy(r) \/ "net" \in Faults
    /\ Return(r)
    /\ UNCHANGED <<reqVars, fwdVars, dump, kubeVars, histVars>>

(* DumpStart on the source host. *)
DumpLock(r) ==
    /\ dump[r] = "lock"
    /\ mux[src[r]] = None
    /\ mux' = [mux EXCEPT ![src[r]] = DumpPart(r)]
    /\ dump' = [dump EXCEPT ![r] = "start"]
    /\ UNCHANGED <<reqVars, locVars, fwdVars, kubeVars, histVars>>

DumpStart(r) ==
    LET s == src[r] IN
    /\ dump[r] = "start"
    /\ \/ pod[s] \in {"running", "terminating"} /\ dump' = [dump EXCEPT ![r] = "ok"]
       \/ dump' = [dump EXCEPT ![r] = "error"]
    /\ Unlock(s)
    /\ UNCHANGED <<reqVars, locVars, fwdVars, kubeVars, histVars>>

(* getMainPid: ExecutePod has no deadline, and DumpStart holds res.mux. *)
DumpHangs(r) ==
    /\ "hang" \in Faults
    /\ dump[r] = "start"
    /\ dump' = [dump EXCEPT ![r] = "hung"]
    /\ UNCHANGED <<reqVars, locVars, fwdVars, mux, kubeVars, histVars>>

RecvDumpStart(r) ==
    /\ pc[r] = "asked"
    /\ dump[r] = "ok"
    /\ dump' = [dump EXCEPT ![r] = "none"]
    /\ Continue(r, "migrate")
    /\ UNCHANGED <<reqVars, fwdVars, kubeVars, histVars>>

RecvDumpStartError(r) ==
    /\ pc[r] = "asked"
    /\ dump[r] = "error"
    /\ dump' = [dump EXCEPT ![r] = "none"]
    /\ Return(r)
    /\ UNCHANGED <<reqVars, fwdVars, kubeVars, histVars>>

(* The rest of exec: it switches the forwarding service to dstPodTCPAddr,  *)
(* which has no host if the cluster IP is unknown.                         *)
Switch(r) ==
    route' = [route EXCEPT ![fsv[r]] = IF svcRes[r] = "ip" THEN "pod" ELSE "nowhere"]

MigrateOk(r) ==
    /\ pc[r] = "migrate"
    /\ IF op[r] = "fwdlm" THEN fsv[r] # None /\ Switch(r) ELSE UNCHANGED route
    /\ Return(r)
    /\ UNCHANGED <<reqVars, lsn, fwdsvc, dump, kubeVars, histVars>>

MigrateFails(r) ==
    /\ pc[r] = "migrate"
    /\ Return(r)
    /\ UNCHANGED <<reqVars, fwdVars, dump, kubeVars, histVars>>

(* exec never returns (ExecHangs and RsyncHangs of LiveMigration): a       *)
(* DeployLM keeps res.mux, and every migration the host's resume port.     *)
MigrationHangs(r) ==
    /\ "hang" \in Faults
    /\ pc[r] \in {"asked", "migrate"} \/ (pc[r] = "exec" /\ ~ResumePortBusy(r))
    /\ Continue(r, "hung")
    /\ UNCHANGED <<reqVars, fwdVars, dump, kubeVars, histVars>>

-----------------------------------------------------------------------------
(* Remove. *)

(* Mutant: res.fwdsvc is not set to nil. *)
CloseForwardingKeeps(r) ==
    LET h == host[r] IN
    /\ pc[r] = "close"
    /\ IF fwdsvc[h] # None
       THEN lsn' = [lsn EXCEPT ![fwdsvc[h]] = "closing"]
       ELSE UNCHANGED lsn
    /\ Continue(r, "delsvc")
    /\ UNCHANGED <<reqVars, route, fwdsvc, dump, kubeVars, histVars>>

CloseForwarding(r) ==
    LET h == host[r] IN
    /\ pc[r] = "close"
    /\ IF fwdsvc[h] # None
       THEN /\ lsn' = [lsn EXCEPT ![fwdsvc[h]] = "closing"]
            /\ fwdsvc' = [fwdsvc EXCEPT ![h] = None]
       ELSE UNCHANGED <<lsn, fwdsvc>>
    /\ Continue(r, "delsvc")
    /\ UNCHANGED <<reqVars, route, dump, kubeVars, histVars>>

DeleteService(r) ==
    /\ pc[r] = "delsvc"
    /\ \/ service' = [service EXCEPT ![host[r]] = FALSE] /\ UNCHANGED svcRes
       \/ /\ "api" \in Faults
          /\ svcRes' = [svcRes EXCEPT ![r] = "error"]
          /\ UNCHANGED service
    /\ Goto(r, "delpod")
    /\ UNCHANGED <<reqVars, newPod, fsv, fwdVars, dump, mux, pod, podBy, histVars>>

(* Remove ends without having logged an error. *)
RemoveOk(r) ==
    /\ removed' = [removed EXCEPT ![host[r]] = @ \/ svcRes[r] # "error"]
    /\ Return(r)

(* Mutant: the pod counts as gone when Delete returns. *)
DeletePodAtOnce(r) ==
    LET h == host[r] IN
    /\ pc[r] = "delpod"
    /\ pod[h] # "none"
    /\ pod' = [pod EXCEPT ![h] = "none"]
    /\ Continue(r, "gone")
    /\ UNCHANGED <<reqVars, fwdVars, dump, podBy, service, histVars>>

DeletePod(r) ==
    LET h == host[r] IN
    /\ pc[r] = "delpod"
    /\ pod[h] # "none"
    /\ pod' = [pod EXCEPT ![h] = "terminating"]
    /\ Continue(r, "gone")
    /\ UNCHANGED <<reqVars, fwdVars, dump, podBy, service, histVars>>

DeletePodNotFound(r) ==
    /\ pc[r] = "delpod"
    /\ pod[host[r]] = "none"
    /\ RemoveOk(r)
    /\ UNCHANGED <<reqVars, fwdVars, dump, kubeVars, over>>

(* Mutant: Remove does not wait. *)
NoWaitForPodDeleted(r) ==
    /\ pc[r] = "gone"
    /\ RemoveOk(r)
    /\ UNCHANGED <<reqVars, fwdVars, dump, kubeVars, over>>

WaitForPodDeleted(r) ==
    /\ pc[r] = "gone"
    /\ pod[host[r]] = "none"
    /\ RemoveOk(r)
    /\ UNCHANGED <<reqVars, fwdVars, dump, kubeVars, over>>

(* DeletePod fails, or the pod is still there after WaitPodTimeout. *)
DeletePodFails(r) ==
    /\ \/ pc[r] = "delpod" /\ "api" \in Faults
       \/ pc[r] = "gone" /\ Faults \cap {"api", "slow"} # {}
    /\ Return(r)
    /\ UNCHANGED <<reqVars, fwdVars, dump, kubeVars, histVars>>

-----------------------------------------------------------------------------
(* Kubernetes and the server processes. *)

PodStarts(h) ==
    /\ pod[h] = "pending"
    /\ pod' = [pod EXCEPT ![h] = "running"]
    /\ UNCHANGED <<reqVars, locVars, fwdVars, dump, mux, podBy, service, histVars>>

PodGone(h) ==
    /\ pod[h] = "terminating"
    /\ pod' = [pod EXCEPT ![h] = "none"]
    /\ podBy' = [podBy EXCEPT ![h] = None]
    /\ UNCHANGED <<reqVars, locVars, fwdVars, dump, mux, service, histVars>>

(* Every goroutine and listener of the process is gone, and its resmap.    *)
(* The pod and the service stay.  A _dumpStart being served ends with a    *)
(* broken connection.                                                      *)
ProcessDies(h) ==
    /\ pc' = [r \in Reqs |-> IF host[r] = h THEN "done" ELSE pc[r]]
    /\ newPod' = [r \in Reqs |-> host[r] # h /\ newPod[r]]
    /\ svcRes' = [r \in Reqs |-> IF host[r] = h THEN "none" ELSE svcRes[r]]
    /\ fsv' = [r \in Reqs |-> IF host[r] = h THEN None ELSE fsv[r]]
    /\ lsn' = [r \in Reqs |->
                  IF host[r] = h /\ lsn[r] \in {"open", "closing"} THEN "closed" ELSE lsn[r]]
    /\ dump' = [r \in Reqs |->
                   IF src[r] = h /\ dump[r] \in {"lock", "start", "hung"} THEN "error" ELSE dump[r]]
    /\ mux' = [mux EXCEPT ![h] = None]
    /\ fwdsvc' = [fwdsvc EXCEPT ![h] = None]
    /\ UNCHANGED <<reqVars, route, kubeVars, histVars>>

(* main returns 100 ms after a signal and waits for nobody, or the process *)
(* is killed; it is started again.                                         *)
Crash(h) ==
    /\ "crash" \in Faults
    /\ \E r \in Reqs : host[r] = h
    /\ ProcessDies(h)

(* p.Fwdsvc.Suspend() on a nil pointer: an unrecovered panic. *)
NilFwdsvcPanic(r) ==
    /\ pc[r] = "migrate"
    /\ op[r] = "fwdlm"
    /\ fsv[r] = None
    /\ ProcessDies(host[r])

-----------------------------------------------------------------------------
Serve(r) ==
    \/ Lock(r) \/ NewClient(r) \/ NewClientFails(r)
    \/ CreatePod(r) \/ CreatePodFails(r)
    \/ GetService(r) \/ GetServiceNotFound(r)
    \/ CreateService(r) \/ CreateServiceExists(r) \/ ServiceCallFails(r)
    \/ StartForwarding(r) \/ StartForwardingFails(r) \/ SkipForwarding(r)
    \/ WaitForPodReady(r) \/ WaitForPodReadyFails(r)
    \/ SendDumpStart(r) \/ ExecFails(r)
    \/ RecvDumpStart(r) \/ RecvDumpStartError(r)
    \/ CloseForwarding(r) \/ DeleteService(r)
    \/ DeletePod(r) \/ DeletePodNotFound(r) \/ WaitForPodDeleted(r) \/ DeletePodFails(r)

ServeDump(r) == DumpLock(r) \/ DumpStart(r)

Migrate(r) == MigrateOk(r) \/ MigrateFails(r) \/ NilFwdsvcPanic(r)

Hang(r) == MigrationHangs(r) \/ DumpHangs(r)

Kubernetes(h) == PodStarts(h) \/ PodGone(h)

Next ==
    \/ \E r \in Reqs :
          \/ \E o \in Ops, h \in Hosts, s \in Hosts : Arrive(r, o, h, s)
          \/ Reject(r) \/ Serve(r) \/ ServeDump(r) \/ Migrate(r) \/ Hang(r)
          \/ ListenerCloses(r)
    \/ \E h \in Hosts : Kubernetes(h) \/ Crash(h)

Spec == Init /\ [][Next]_vars

(***************************************************************************)
(* Fairness: goroutines go on, a mutex is granted (sync.Mutex hands itself *)
(* to a waiter that starves), calls of the Kubernetes API return and pods  *)
(* come and go.  A migration goes on unless it hangs, and it always may.   *)
(* No request has to arrive and nothing has to fail.                       *)
(***************************************************************************)
Fairness ==
    /\ \A r \in Reqs :
          /\ WF_vars(Serve(r))
          /\ WF_vars(ServeDump(r))
          /\ WF_vars(Migrate(r))
          /\ WF_vars(ListenerCloses(r))
    /\ \A h \in Hosts : WF_vars(Kubernetes(h))

FairSpec == Spec /\ Fairness

-----------------------------------------------------------------------------
(* Properties. *)

Points == {"idle", "lock", "client", "pod", "getsvc", "mksvc", "fwd", "ready", "exec",
           "asked", "migrate", "hung", "close", "delsvc", "delpod", "gone", "done"}

(* Types.  A pod that exists was created by a request. *)
TypeOK ==
    /\ op \in [Reqs -> AllOps \cup {None}]
    /\ host \in [Reqs -> Hosts \cup {None}]
    /\ src \in [Reqs -> Hosts \cup {None}]
    /\ pc \in [Reqs -> Points]
    /\ newPod \in [Reqs -> BOOLEAN]
    /\ svcRes \in [Reqs -> {"none", "ip", "exists", "error"}]
    /\ fsv \in [Reqs -> Reqs \cup {None}]
    /\ lsn \in [Reqs -> {"none", "failed", "open", "closing", "closed"}]
    /\ route \in [Reqs -> {"none", "pod", "source", "nowhere"}]
    /\ dump \in [Reqs -> {"none", "lock", "start", "hung", "ok", "error"}]
    /\ mux \in [Hosts -> (Reqs \X {"handler", "dump"}) \cup {None}]
    /\ fwdsvc \in [Hosts -> Reqs \cup {None}]
    /\ pod \in [Hosts -> {"none", "pending", "running", "terminating"}]
    /\ podBy \in [Hosts -> Reqs \cup {None}]
    /\ service \in [Hosts -> BOOLEAN]
    /\ over \in [Reqs -> BOOLEAN]
    /\ removed \in [Hosts -> BOOLEAN]
    /\ \A h \in Hosts : pod[h] = "none" <=> podBy[h] = None

(* Control points in which a handler holds res.mux. *)
Held(r) ==
    IF op[r] = "fwdlm" THEN pc[r] = "fwd" ELSE pc[r] \notin {"idle", "lock", "done"}

(* res.mux protects what the handlers do: every handler past Lock holds    *)
(* the mutex of its host until it returns, the goroutine of DeployFwdLM    *)
(* never does, and no path unlocks it for another request.                 *)
LockHeld ==
    \A h \in Hosts, r \in Reqs :
        /\ mux[h] = Handler(r) <=> host[r] = h /\ Held(r)
        /\ mux[h] = DumpPart(r) <=> src[r] = h /\ dump[r] \in {"start", "hung"}

(* No forwarding service is lost: the ones that are open are exactly those *)
(* that res.fwdsvc names, so Remove can close them and Close is never      *)
(* called twice, whatever fails and in whatever order requests come.       *)
ServiceListed ==
    /\ \A r \in Reqs : lsn[r] = "open" => fwdsvc[host[r]] = r
    /\ \A h \in Hosts : fwdsvc[h] # None => lsn[fwdsvc[h]] = "open" /\ host[fwdsvc[h]] = h

(* A migration restores into the pod that it created, so no two of them    *)
(* share a pod, unless a Remove went by the goroutine of DeployFwdLM.      *)
MigratesOwnPod ==
    \A r \in Reqs : pc[r] \in {"exec", "asked", "migrate"} /\ ~over[r] =>
        podBy[host[r]] = r

(* DeployFwdLM's goroutine reads res.fwdsvc late and without the lock, but *)
(* the service it migrates is the one that clients use, and not nil (a     *)
(* panic), unless a Remove went by or its own listen had failed.           *)
MigratesItsService ==
    \A r \in Reqs : op[r] = "fwdlm" /\ pc[r] \in {"exec", "asked", "migrate"} =>
        \/ fsv[r] # None /\ fsv[r] = fwdsvc[host[r]]
        \/ lsn[r] = "failed"
        \/ over[r]

(* "Change forwarding dst addr to the restored pod" (lm.go): a migration   *)
(* sends the clients of its forwarding service to the service of the pod.  *)
SwitchesToPod == \A r \in Reqs : route[r] # "nowhere"

Clean(h) == pod[h] = "none" /\ ~service[h] /\ fwdsvc[h] = None

(* What Remove has removed stays removed until the next deployment, except *)
(* for what the goroutine of an earlier DeployFwdLM still creates.         *)
RemovedStaysRemoved ==
    \A h \in Hosts : removed[h] => Clean(h) \/ \E r \in Reqs : over[r] /\ host[r] = h

(* "Remove the sample app on server" (README.md): after a Remove without   *)
(* errors nothing of the application is left on the host.                  *)
RemoveRemoves == \A h \in Hosts : removed[h] => Clean(h)

(* The mutexes of the hosts in S are never released: each is held by a     *)
(* request that hangs, or by a DeployLM whose _dumpStart waits for another *)
(* of them.                                                                *)
NeverReleased(S) ==
    \A h \in S : \E q \in Reqs :
        \/ /\ mux[h] = Handler(q)
           /\ "hung" \in {pc[q], dump[q]} \/ (dump[q] = "lock" /\ src[q] \in S)
        \/ mux[h] = DumpPart(q) /\ dump[q] = "hung"

(* Every request is served in the end, whatever fails, except for those    *)
(* that need a mutex which is never released: that of a host where a       *)
(* DeployLM or a DumpStart hangs, of a host whose DeployLM waits for such  *)
(* a one, or of the hosts in a circle of live migrations of the same name, *)
(* from each host to the next (or a host to itself).                       *)
RequestsEnd ==
    \A r \in Reqs : pc[r] = "lock" ~>
        \/ pc[r] # "lock" /\ ~Held(r)
        \/ \E S \in SUBSET Hosts : host[r] \in S /\ NeverReleased(S)
=============================================================================
