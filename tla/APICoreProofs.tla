--------------------------- MODULE APICoreProofs ---------------------------
(***************************************************************************)
(* Proofs about APICore, for any number of hosts and requests and for      *)
(* every fault.                                                            *)
(***************************************************************************)
EXTENDS APICore, TLAPS

(* Where each type of request can be, and who has a new pod. *)
Place(r) ==
    /\ pc[r] # "idle" /\ pc[r] # "done" => op[r] \in AllOps /\ host[r] \in Hosts /\ src[r] \in Hosts
    /\ pc[r] = "client" => op[r] # "fwd"
    /\ pc[r] = "fwd" => op[r] # "remove"
    /\ pc[r] \in {"pod", "getsvc", "mksvc", "ready"} => op[r] \in {"new", "lm", "fwdlm"}
    /\ pc[r] \in {"exec", "asked", "migrate", "hung"} => op[r] \in {"lm", "fwdlm"}
    /\ pc[r] \in {"close", "delsvc", "delpod", "gone"} => op[r] = "remove"
    /\ newPod[r] => pc[r] \in {"getsvc", "mksvc", "fwd", "ready", "exec", "asked", "migrate",
                               "hung"}
    /\ op[r] = "fwdlm" /\ pc[r] = "fwd" => newPod[r] = FALSE
    /\ pc[r] \in {"ready", "exec", "asked", "migrate", "hung"} => newPod[r]

(* A request that has not arrived has left no trace. *)
Trace(r) ==
    /\ pc[r] = "idle" => lsn[r] = "none" /\ dump[r] = "none" /\ ~over[r]
    /\ dump[r] # "none" => pc[r] \in {"asked", "hung", "done"} /\ src[r] \in Hosts
    /\ lsn[r] # "none" => host[r] \in Hosts
    /\ over[r] => host[r] \in Hosts

(* A new pod is there, and is not being deleted, until a Remove goes by. *)
OwnPod(r) ==
    newPod[r] /\ ~over[r] => podBy[host[r]] = r /\ pod[host[r]] \in {"pending", "running"}

(* So is the forwarding service of the goroutine of DeployFwdLM. *)
OwnService(r) ==
    op[r] = "fwdlm" /\ pc[r] \in Migrating /\ ~over[r] =>
        /\ fwdsvc[host[r]] # None \/ lsn[r] = "failed"
        /\ pc[r] \in {"exec", "asked", "migrate"} => fsv[r] = fwdsvc[host[r]] \/ lsn[r] = "failed"

(* A Remove that has the lock has marked every goroutine under way. *)
Marked == \A q, r \in Reqs : op[q] = "remove" /\ Held(q) /\ InFlight(r, host[q]) => over[r]

OverOn(h) == \E r \in Reqs : over[r] /\ host[r] = h

(* What a Remove has done so far stays done while it has the lock. *)
Removing(q) ==
    /\ pc[q] \in {"delsvc", "delpod", "gone"} => fwdsvc[host[q]] = None
    /\ pc[q] \in {"delpod", "gone"} /\ svcRes[q] # "error" =>
          ~service[host[q]] \/ OverOn(host[q])

(* Nobody deploys on a host where the last thing done was a Remove, except *)
(* for the goroutines that it marked.                                      *)
Quiet(h) ==
    removed[h] =>
        /\ Clean(h) \/ OverOn(h)
        /\ \A r \in Reqs : host[r] = h => (Held(r) => op[r] = "remove") /\ (InFlight(r, h) => over[r])

IndInv ==
    /\ TypeOK
    /\ LockHeld
    /\ ServiceListed
    /\ \A r \in Reqs : Place(r)
    /\ \A r \in Reqs : Trace(r)
    /\ \A r \in Reqs : OwnPod(r)
    /\ \A r \in Reqs : OwnService(r)
    /\ Marked
    /\ \A r \in Reqs : Removing(r)
    /\ \A h \in Hosts : Quiet(h)

-----------------------------------------------------------------------------
(* The local variables of the goroutines and the mutexes, typed. *)
LocalOK ==
    /\ pc \in [Reqs -> Points]
    /\ newPod \in [Reqs -> BOOLEAN]
    /\ svcRes \in [Reqs -> {"none", "ip", "exists", "error"}]
    /\ fsv \in [Reqs -> Reqs \cup {None}]
    /\ mux \in [Hosts -> (Reqs \X {"handler", "dump"}) \cup {None}]

(* A step of a goroutine past its Lock: it leaves the others alone, has a  *)
(* new pod only if it had one, and unlocks what it held, and nothing else, *)
(* exactly when it no longer needs the lock.                               *)
Move(r) ==
    /\ LocalOK'
    /\ UNCHANGED <<op, host, src, over>>
    /\ pc[r] \notin {"idle", "lock", "done"} /\ pc'[r] \notin {"idle", "lock"}
    /\ \A q \in Reqs : q # r => /\ pc'[q] = pc[q] /\ newPod'[q] = newPod[q]
                                /\ svcRes'[q] = svcRes[q] /\ fsv'[q] = fsv[q]
    /\ \/ mux' = mux /\ (Held(r)' <=> Held(r))
       \/ Held(r) /\ ~Held(r)' /\ mux' = [mux EXCEPT ![host[r]] = None]

(* The ways in which such a step can end: the goroutine returns. *)
LEMMA ReturnMoves ==
  ASSUME TypeOK, NEW r \in Reqs, Return(r), UNCHANGED <<op, host, src, over>>,
         pc[r] \notin {"idle", "lock", "done"}, op[r] = "fwdlm" => pc[r] # "fwd"
  PROVE  Move(r) /\ pc'[r] = "done" /\ newPod'[r] = FALSE
<1>1. LocalOK' /\ pc'[r] = "done" /\ newPod'[r] = FALSE
  BY DEF Return, Goto, Unlock, TypeOK, LocalOK, Points
<1>2. ~Held(r)'
  BY <1>1 DEF Held
<1>3. CASE op[r] = "fwdlm"
  <2>1. mux' = mux /\ ~Held(r)
    BY <1>3 DEF Return, Held
  <2> QED
    BY <1>1, <1>2, <2>1 DEF Move, Return, Goto, TypeOK
<1>4. CASE op[r] # "fwdlm"
  <2>1. mux' = [mux EXCEPT ![host[r]] = None] /\ Held(r)
    BY <1>4 DEF Return, Unlock, Held
  <2> QED
    BY <1>1, <1>2, <2>1 DEF Move, Return, Goto, TypeOK
<1> QED
  BY <1>3, <1>4

(* It goes on. *)
LEMMA ContinueMoves ==
  ASSUME TypeOK, NEW r \in Reqs, NEW p \in Points, Continue(r, p), UNCHANGED <<op, host, src, over>>,
         pc[r] \notin {"idle", "lock", "done"}, p \notin {"idle", "lock", "done"},
         op[r] = "fwdlm" => pc[r] # "fwd" /\ p # "fwd"
  PROVE  Move(r) /\ pc'[r] = p /\ newPod' = newPod /\ svcRes' = svcRes /\ fsv' = fsv
<1>1. LocalOK' /\ pc'[r] = p /\ mux' = mux
  BY DEF Continue, Goto, TypeOK, LocalOK
<1>2. Held(r)' <=> Held(r)
  BY <1>1 DEF Held
<1> QED
  BY <1>1, <1>2 DEF Move, Continue, Goto, TypeOK

(* createOrGetClusterIP returns. *)
LEMMA AfterServiceMoves ==
  ASSUME TypeOK, NEW r \in Reqs, NEW res \in {"ip", "exists", "error"}, AfterService(r, res),
         UNCHANGED <<op, host, src, over>>, pc[r] \in {"getsvc", "mksvc"}
  PROVE  /\ Move(r)
         /\ \/ pc'[r] = "done" /\ newPod'[r] = FALSE
            \/ /\ newPod' = newPod
               /\ \/ op[r] = "fwdlm" /\ newPod[r] /\ pc'[r] = "ready"
                  \/ op[r] # "fwdlm" /\ pc'[r] = "fwd"
<1>1. CASE op[r] = "fwdlm" /\ ~newPod[r]
  <2>1. Return(r)
    BY <1>1, Zenon DEF AfterService
  <2> QED
    BY <2>1, ReturnMoves
<1>2. CASE ~(op[r] = "fwdlm" /\ ~newPod[r])
  <2>1. /\ Goto(r, IF op[r] = "fwdlm" THEN "ready" ELSE "fwd")
        /\ svcRes' = [svcRes EXCEPT ![r] = res]
        /\ UNCHANGED <<newPod, fsv, mux>>
    BY <1>2, Zenon DEF AfterService
  <2>2. LocalOK' /\ pc'[r] = (IF op[r] = "fwdlm" THEN "ready" ELSE "fwd")
    BY <2>1 DEF TypeOK, LocalOK, Goto, Points
  <2>3. Held(r)' <=> Held(r)
    BY <2>2 DEF Held
  <2>4. Move(r)
    BY <2>1, <2>2, <2>3 DEF Move, Goto, TypeOK
  <2> QED
    BY <1>2, <2>1, <2>2, <2>4
<1> QED
  BY <1>1, <1>2

(* The forwarding service is dealt with. *)
LEMMA AfterForwardingMoves ==
  ASSUME TypeOK, NEW r \in Reqs, AfterForwarding(r),
         UNCHANGED <<op, host, src, over>>, pc[r] = "fwd"
  PROVE  /\ Move(r)
         /\ \/ pc'[r] = "done" /\ newPod'[r] = FALSE
            \/ /\ newPod' = newPod
               /\ \/ op[r] = "fwdlm" /\ pc'[r] = "client"
                  \/ op[r] \in {"new", "lm"} /\ newPod[r] /\ pc'[r] = "ready"
<1>1. CASE op[r] = "fwdlm"
  <2>1. Goto(r, "client") /\ Unlock(host[r]) /\ UNCHANGED <<newPod, svcRes, fsv>>
    BY <1>1 DEF AfterForwarding
  <2>2. LocalOK' /\ pc'[r] = "client"
    BY <2>1 DEF TypeOK, LocalOK, Goto, Unlock, Points
  <2>3. Held(r) /\ ~Held(r)'
    BY <1>1, <2>2 DEF Held
  <2> QED
    BY <1>1, <2>1, <2>2, <2>3 DEF Move, Goto, Unlock, TypeOK
<1>2. CASE op[r] \in {"new", "lm"} /\ newPod[r]
  <2>1. Continue(r, "ready")
    BY <1>2, Zenon DEF AfterForwarding
  <2> QED
    BY <1>2, <2>1, ContinueMoves DEF Points
<1>3. CASE op[r] # "fwdlm" /\ ~(op[r] \in {"new", "lm"} /\ newPod[r])
  <2>1. Return(r)
    BY <1>3, Zenon DEF AfterForwarding
  <2> QED
    BY <1>3, <2>1, ReturnMoves
<1> QED
  BY <1>1, <1>2, <1>3

(* The steps of a goroutine between its Lock and its return. *)
Step(r) ==
    \/ NewClient(r) \/ NewClientFails(r) \/ CreatePod(r) \/ CreatePodFails(r)
    \/ GetService(r) \/ GetServiceNotFound(r)
    \/ CreateService(r) \/ CreateServiceExists(r) \/ ServiceCallFails(r)
    \/ StartForwarding(r) \/ StartForwardingFails(r) \/ SkipForwarding(r)
    \/ WaitForPodReady(r) \/ WaitForPodReadyFails(r)
    \/ SendDumpStart(r) \/ ExecFails(r) \/ RecvDumpStart(r) \/ RecvDumpStartError(r)
    \/ MigrateOk(r) \/ MigrateFails(r) \/ MigrationHangs(r)
    \/ CloseForwarding(r) \/ DeleteService(r)
    \/ DeletePod(r) \/ DeletePodNotFound(r) \/ WaitForPodDeleted(r) \/ DeletePodFails(r)

(* Every such step is a Move, and takes the request to its next place. *)
LEMMA StepMoves ==
  ASSUME TypeOK, NEW r \in Reqs, Place(r), Step(r)
  PROVE  Move(r) /\ Place(r)'
<1> USE DEF reqVars, histVars
<1>1. CASE \/ NewClientFails(r) \/ WaitForPodReadyFails(r) \/ ExecFails(r)
           \/ RecvDumpStartError(r) \/ MigrateOk(r) \/ MigrateFails(r)
           \/ DeletePodNotFound(r) \/ WaitForPodDeleted(r) \/ DeletePodFails(r)
  <2>1. /\ Return(r) /\ UNCHANGED <<op, host, src, over>> /\ pc[r] \notin {"idle", "lock", "done"}
        /\ pc[r] # "fwd"
    BY <1>1
    DEF NewClientFails, WaitForPodReadyFails, ExecFails, RecvDumpStartError, MigrateOk,
        MigrateFails, DeletePodNotFound, WaitForPodDeleted, DeletePodFails, RemoveOk
  <2> QED
    BY <2>1, ReturnMoves DEF Place
<1>2. CASE NewClient(r)
  <2> DEFINE p == IF op[r] = "remove" THEN "close" ELSE "pod"
  <2>1. Continue(r, p) /\ UNCHANGED <<op, host, src, over>> /\ pc[r] = "client"
    BY <1>2 DEF NewClient
  <2>2. Move(r) /\ pc'[r] = p /\ newPod' = newPod
    BY <2>1, ContinueMoves DEF Points
  <2> QED
    BY <2>1, <2>2 DEF Place, AllOps
<1>3. CASE CreatePodFails(r)
  <2>1. Continue(r, "getsvc") /\ UNCHANGED <<op, host, src, over>> /\ pc[r] = "pod"
    BY <1>3 DEF CreatePodFails
  <2>2. Move(r) /\ pc'[r] = "getsvc" /\ newPod' = newPod
    BY <2>1, ContinueMoves DEF Points
  <2> QED
    BY <2>1, <2>2 DEF Place
<1>4. CASE GetServiceNotFound(r)
  <2>1. Continue(r, "mksvc") /\ UNCHANGED <<op, host, src, over>> /\ pc[r] = "getsvc"
    BY <1>4 DEF GetServiceNotFound
  <2>2. Move(r) /\ pc'[r] = "mksvc" /\ newPod' = newPod
    BY <2>1, ContinueMoves DEF Points
  <2> QED
    BY <2>1, <2>2 DEF Place
<1>5. CASE SendDumpStart(r)
  <2>1. Continue(r, "asked") /\ UNCHANGED <<op, host, src, over>> /\ pc[r] = "exec"
    BY <1>5 DEF SendDumpStart
  <2>2. Move(r) /\ pc'[r] = "asked" /\ newPod' = newPod
    BY <2>1, ContinueMoves DEF Points
  <2> QED
    BY <2>1, <2>2 DEF Place
<1>6. CASE RecvDumpStart(r)
  <2>1. Continue(r, "migrate") /\ UNCHANGED <<op, host, src, over>> /\ pc[r] = "asked"
    BY <1>6 DEF RecvDumpStart
  <2>2. Move(r) /\ pc'[r] = "migrate" /\ newPod' = newPod
    BY <2>1, ContinueMoves DEF Points
  <2> QED
    BY <2>1, <2>2 DEF Place
<1>0. CASE MigrationHangs(r)
  <2>1. /\ Continue(r, "hung") /\ UNCHANGED <<op, host, src, over>>
        /\ pc[r] \in {"exec", "asked", "migrate"}
    BY <1>0 DEF MigrationHangs
  <2>2. Move(r) /\ pc'[r] = "hung" /\ newPod' = newPod
    BY <2>1, ContinueMoves DEF Points
  <2> QED
    BY <2>1, <2>2 DEF Place
<1>7. CASE CloseForwarding(r)
  <2>1. Continue(r, "delsvc") /\ UNCHANGED <<op, host, src, over>> /\ pc[r] = "close"
    BY <1>7 DEF CloseForwarding
  <2>2. Move(r) /\ pc'[r] = "delsvc" /\ newPod' = newPod
    BY <2>1, ContinueMoves DEF Points
  <2> QED
    BY <2>1, <2>2 DEF Place
<1>8. CASE DeletePod(r)
  <2>1. Continue(r, "gone") /\ UNCHANGED <<op, host, src, over>> /\ pc[r] = "delpod"
    BY <1>8 DEF DeletePod
  <2>2. Move(r) /\ pc'[r] = "gone" /\ newPod' = newPod
    BY <2>1, ContinueMoves DEF Points
  <2> QED
    BY <2>1, <2>2 DEF Place
<1>9. CASE GetService(r) \/ CreateService(r) \/ CreateServiceExists(r) \/ ServiceCallFails(r)
  <2>1. /\ \E res \in {"ip", "exists", "error"} : AfterService(r, res)
        /\ UNCHANGED <<op, host, src, over>> /\ pc[r] \in {"getsvc", "mksvc"}
    BY <1>9 DEF GetService, CreateService, CreateServiceExists, ServiceCallFails
  <2> QED
    BY <2>1, AfterServiceMoves DEF Place
<1>10. CASE StartForwarding(r) \/ StartForwardingFails(r) \/ SkipForwarding(r)
  <2>1. AfterForwarding(r) /\ UNCHANGED <<op, host, src, over>> /\ pc[r] = "fwd"
    BY <1>10 DEF StartForwarding, StartForwardingFails, SkipForwarding
  <2>2. /\ Move(r)
        /\ \/ pc'[r] = "done" /\ newPod'[r] = FALSE
           \/ /\ newPod' = newPod
              /\ \/ op[r] = "fwdlm" /\ pc'[r] = "client"
                 \/ op[r] \in {"new", "lm"} /\ newPod[r] /\ pc'[r] = "ready"
    BY <2>1, AfterForwardingMoves
  <2>3. op[r] \in AllOps /\ host[r] \in Hosts /\ src[r] \in Hosts
    BY <2>1 DEF Place
  <2>4. CASE pc'[r] = "done" /\ newPod'[r] = FALSE
    BY <2>2, <2>4 DEF Place
  <2>5. CASE newPod' = newPod /\ op[r] = "fwdlm" /\ pc'[r] = "client"
    <3>1. newPod'[r] = FALSE
      BY <2>1, <2>5 DEF Place
    <3> QED
      BY <2>1, <2>2, <2>3, <2>5, <3>1 DEF Place
  <2>6. CASE newPod' = newPod /\ op[r] \in {"new", "lm"} /\ newPod[r] /\ pc'[r] = "ready"
    <3>1. newPod'[r]
      BY <2>6, Zenon
    <3> QED
      BY <2>1, <2>2, <2>3, <2>6, <3>1 DEF Place
  <2> QED
    BY <2>2, <2>4, <2>5, <2>6
<1>11. CASE CreatePod(r)
  <2>1. LocalOK' /\ pc[r] = "pod" /\ pc'[r] = "getsvc" /\ newPod'[r] = TRUE
    BY <1>11 DEF CreatePod, Goto, TypeOK, LocalOK, Points
  <2>2. Held(r)' <=> Held(r)
    BY <1>11, <2>1 DEF CreatePod, Held
  <2>3. Move(r)
    BY <1>11, <2>1, <2>2 DEF CreatePod, Goto, Move, TypeOK
  <2> QED
    BY <1>11, <2>1, <2>3 DEF CreatePod, Place
<1>12. CASE WaitForPodReady(r)
  <2>1. CASE op[r] = "new"
    <3>1. Return(r) /\ UNCHANGED <<op, host, src, over>> /\ pc[r] = "ready"
      BY <1>12, <2>1 DEF WaitForPodReady
    <3> QED
      BY <2>1, <3>1, ReturnMoves DEF Place
  <2>2. CASE op[r] # "new"
    <3>1. LocalOK' /\ pc[r] = "ready" /\ pc'[r] = "exec" /\ newPod' = newPod /\ mux' = mux
      BY <1>12, <2>2 DEF WaitForPodReady, Goto, TypeOK, LocalOK, Points, Place
    <3>2. Held(r)' <=> Held(r)
      BY <1>12, <3>1 DEF WaitForPodReady, Held
    <3>3. Move(r)
      BY <1>12, <2>2, <3>1, <3>2 DEF WaitForPodReady, Goto, Move, TypeOK
    <3> QED
      BY <1>12, <2>2, <3>1, <3>3 DEF WaitForPodReady, Place
  <2> QED
    BY <2>1, <2>2
<1>13. CASE DeleteService(r)
  <2>1. LocalOK' /\ pc[r] = "delsvc" /\ pc'[r] = "delpod" /\ newPod' = newPod
    BY <1>13 DEF DeleteService, Goto, TypeOK, LocalOK, Points
  <2>2. Held(r)' <=> Held(r)
    BY <1>13, <2>1 DEF DeleteService, Held
  <2>3. Move(r)
    BY <1>13, <2>1, <2>2 DEF DeleteService, Goto, Move, TypeOK
  <2> QED
    BY <1>13, <2>1, <2>3 DEF DeleteService, Place
<1> QED
  BY <1>0, <1>1, <1>2, <1>3, <1>4, <1>5, <1>6, <1>7, <1>8, <1>9, <1>10, <1>11, <1>12, <1>13 DEF Step

-----------------------------------------------------------------------------
(* Holders of a mutex differ from one another and from nil. *)
LEMMA Holders ==
  ASSUME NEW q \in Reqs, NEW r \in Reqs
  PROVE  /\ Handler(r) # None /\ DumpPart(r) # None /\ Handler(q) # DumpPart(r)
         /\ Handler(q) = Handler(r) => q = r
         /\ DumpPart(q) = DumpPart(r) => q = r
  BY APIAssumption DEF APIAssumption, Handler, DumpPart

(* A request that others do not move keeps its place and what it holds. *)
LEMMA OthersKept ==
  ASSUME NEW r \in Reqs, Move(r), NEW q \in Reqs, q # r
  PROVE  /\ pc'[q] = pc[q] /\ (Held(q)' <=> Held(q)) /\ (Place(q)' <=> Place(q))
         /\ \A h \in Hosts : InFlight(q, h)' <=> InFlight(q, h)
<1>1. /\ pc'[q] = pc[q] /\ newPod'[q] = newPod[q]
      /\ op'[q] = op[q] /\ host'[q] = host[q] /\ src'[q] = src[q]
  BY DEF Move
<1>2. (Held(q)' <=> Held(q)) /\ \A h \in Hosts : InFlight(q, h)' <=> InFlight(q, h)
  BY <1>1 DEF Held, InFlight, Migrating
<1>3. Place(q)' <=> Place(q)
  BY <1>1, Zenon DEF Place
<1> QED
  BY <1>1, <1>2, <1>3

(* The mutex changes hands only with the need for it. *)
LEMMA MoveLock ==
  ASSUME TypeOK, LockHeld, NEW r \in Reqs, Place(r), Move(r),
         \A q \in Reqs : dump'[q] \in {"start", "hung"} <=> dump[q] \in {"start", "hung"}
  PROVE  LockHeld'
<1>1. host[r] \in Hosts /\ UNCHANGED <<op, host, src>>
  BY DEF Place, Move
<1>2. CASE mux' = mux /\ (Held(r)' <=> Held(r))
  <2>1. \A q \in Reqs : Held(q)' <=> Held(q)
    BY <1>2, OthersKept
  <2> QED
    BY <1>1, <1>2, <2>1 DEF LockHeld, Handler, DumpPart
<1>3. CASE Held(r) /\ ~Held(r)' /\ mux' = [mux EXCEPT ![host[r]] = None]
  <2>1. mux[host[r]] = Handler(r)
    BY <1>1, <1>3 DEF LockHeld
  <2>2. \A q \in Reqs : q # r => (Held(q)' <=> Held(q))
    BY OthersKept
  <2> SUFFICES ASSUME NEW h \in Hosts, NEW q \in Reqs
               PROVE  /\ mux'[h] = Handler(q) <=> host[q] = h /\ Held(q)'
                      /\ mux'[h] = DumpPart(q) <=> src[q] = h /\ dump'[q] \in {"start", "hung"}
    BY <1>1 DEF LockHeld, Handler, DumpPart
  <2>3. /\ mux[h] = Handler(q) <=> host[q] = h /\ Held(q)
        /\ mux[h] = DumpPart(q) <=> src[q] = h /\ dump[q] \in {"start", "hung"}
    BY DEF LockHeld
  <2>4. CASE h = host[r]
    <3>1. mux'[h] = None
      BY <1>1, <1>3, <2>4 DEF TypeOK
    <3> QED
      BY <1>3, <2>1, <2>2, <2>3, <2>4, <3>1, Holders
  <2>5. CASE h # host[r]
    <3>1. mux'[h] = mux[h]
      BY <1>3, <2>5 DEF TypeOK
    <3> QED
      BY <1>3, <2>2, <2>3, <2>5, <3>1
  <2> QED
    BY <2>4, <2>5
<1> QED
  BY <1>2, <1>3 DEF Move

(* Only one request holds the mutex of a host. *)
LEMMA OneHolder ==
  ASSUME LockHeld, NEW q \in Reqs, NEW r \in Reqs, Held(q), Held(r), host[q] = host[r],
         host[r] \in Hosts
  PROVE  q = r
  BY Holders DEF LockHeld

(* A goroutine of DeployFwdLM starts only while no Remove has the lock. *)
LEMMA MoveMarked ==
  ASSUME TypeOK, LockHeld, Marked, NEW r \in Reqs, Place(r), Move(r)
  PROVE  Marked'
<1> SUFFICES ASSUME NEW q \in Reqs, NEW s \in Reqs,
                    (op[q] = "remove" /\ Held(q) /\ InFlight(s, host[q]))'
             PROVE  over'[s]
  BY Zenon DEF Marked
<1>1. UNCHANGED <<op, host, src, over>> /\ (Held(r)' => Held(r))
  BY DEF Move
<1>2. Held(q)
  BY <1>1, OthersKept
<1>3. CASE InFlight(s, host[q])
  <2>1. over[s]
    BY <1>1, <1>2, <1>3 DEF Marked
  <2> QED
    BY <1>1, <2>1
<1>4. CASE ~InFlight(s, host[q])
  <2>1. s = r /\ op[r] = "fwdlm" /\ host[r] = host[q] /\ host[r] \in Hosts /\ pc[r] \notin Migrating
    <3>1. op[s] = "fwdlm" /\ host[s] = host[q] /\ pc'[s] \in Migrating /\ pc[s] \notin Migrating
      BY <1>1, <1>4 DEF InFlight
    <3> QED
      BY <3>1, OthersKept DEF Move, Place
  <2>2. pc[r] = "fwd"
    BY <2>1 DEF Move, Place, Migrating, TypeOK, Points
  <2>3. Held(r)
    BY <2>1, <2>2 DEF Held
  <2> QED
    BY <1>1, <1>2, <2>1, <2>3, OneHolder
<1> QED
  BY <1>3, <1>4

-----------------------------------------------------------------------------
(* Which steps change what the requests share. *)
LEMMA StepShared ==
  ASSUME NEW r \in Reqs, Step(r)
  PROVE  /\ \/ StartForwarding(r) \/ StartForwardingFails(r) \/ CloseForwarding(r)
            \/ UNCHANGED <<lsn, fwdsvc>>
         /\ CreatePod(r) \/ DeletePod(r) \/ UNCHANGED <<pod, podBy>>
         /\ CreateService(r) \/ DeleteService(r) \/ UNCHANGED service
         /\ DeletePodNotFound(r) \/ WaitForPodDeleted(r) \/ UNCHANGED removed
         /\ SendDumpStart(r) \/ RecvDumpStart(r) \/ RecvDumpStartError(r) \/ UNCHANGED dump
         /\ MigrateOk(r) \/ StartForwarding(r) \/ UNCHANGED route
<1> USE DEF Step, NewClient, NewClientFails, CreatePod, CreatePodFails, GetService,
            GetServiceNotFound, CreateService, CreateServiceExists, ServiceCallFails,
            StartForwarding, StartForwardingFails, SkipForwarding, WaitForPodReady,
            WaitForPodReadyFails, SendDumpStart, ExecFails, RecvDumpStart,
            RecvDumpStartError, MigrateOk, MigrateFails, MigrationHangs, CloseForwarding,
            DeleteService, DeletePod, DeletePodNotFound, WaitForPodDeleted,
            DeletePodFails,
            fwdVars, kubeVars, histVars
<1>1. StartForwarding(r) \/ StartForwardingFails(r) \/ CloseForwarding(r) \/ UNCHANGED <<lsn, fwdsvc>>
  OBVIOUS
<1>2. CreatePod(r) \/ DeletePod(r) \/ UNCHANGED <<pod, podBy>>
  OBVIOUS
<1>3. CreateService(r) \/ DeleteService(r) \/ UNCHANGED service
  OBVIOUS
<1>4. DeletePodNotFound(r) \/ WaitForPodDeleted(r) \/ UNCHANGED removed
  OBVIOUS
<1>5. SendDumpStart(r) \/ RecvDumpStart(r) \/ RecvDumpStartError(r) \/ UNCHANGED dump
  OBVIOUS
<1>6. MigrateOk(r) \/ StartForwarding(r) \/ UNCHANGED route
  OBVIOUS
<1> HIDE DEF Step, NewClient, NewClientFails, CreatePod, CreatePodFails, GetService,
            GetServiceNotFound, CreateService, CreateServiceExists, ServiceCallFails,
            StartForwarding, StartForwardingFails, SkipForwarding, WaitForPodReady,
            WaitForPodReadyFails, SendDumpStart, ExecFails, RecvDumpStart,
            RecvDumpStartError, MigrateOk, MigrateFails, MigrationHangs, CloseForwarding,
            DeleteService, DeletePod, DeletePodNotFound, WaitForPodDeleted,
            DeletePodFails
<1> QED
  BY <1>1, <1>2, <1>3, <1>4, <1>5, <1>6

(* Which steps lead to, and leave, the places that the invariants name. *)
LEMMA StepControl ==
  ASSUME TypeOK, NEW r \in Reqs, Step(r)
  PROVE  /\ CreatePod(r) \/ newPod' = newPod \/ newPod' = [newPod EXCEPT ![r] = FALSE]
         /\ pc'[r] = "delsvc" => CloseForwarding(r)
         /\ pc'[r] = "delpod" => DeleteService(r)
         /\ pc'[r] = "gone" => DeletePod(r)
         /\ pc'[r] = "exec" => WaitForPodReady(r)
         /\ pc'[r] \in {"asked", "migrate"} => fsv' = fsv /\ pc[r] \in {"exec", "asked"}
         /\ pc[r] = "asked" => RecvDumpStart(r) \/ RecvDumpStartError(r) \/ MigrationHangs(r)
         /\ pc[r] = "fwd" => StartForwarding(r) \/ StartForwardingFails(r) \/ SkipForwarding(r)
         /\ pc[r] # "hung"
<1> USE DEF TypeOK, Step, NewClient, NewClientFails, CreatePod, CreatePodFails, GetService,
            GetServiceNotFound, CreateService, CreateServiceExists, ServiceCallFails,
            StartForwarding, StartForwardingFails, SkipForwarding, WaitForPodReady,
            WaitForPodReadyFails, SendDumpStart, ExecFails, RecvDumpStart,
            RecvDumpStartError, MigrateOk, MigrateFails, MigrationHangs, CloseForwarding,
            DeleteService, DeletePod, DeletePodNotFound, WaitForPodDeleted,
            DeletePodFails,
            Continue, Return, RemoveOk, AfterService, AfterForwarding, Goto
<1>1. CreatePod(r) \/ newPod' = newPod \/ newPod' = [newPod EXCEPT ![r] = FALSE]
  OBVIOUS
<1>2. /\ pc'[r] = "delsvc" => CloseForwarding(r)
      /\ pc'[r] = "delpod" => DeleteService(r)
  OBVIOUS
<1>3. /\ pc'[r] = "gone" => DeletePod(r)
      /\ pc'[r] = "exec" => WaitForPodReady(r)
  OBVIOUS
<1>4. pc'[r] \in {"asked", "migrate"} => fsv' = fsv /\ pc[r] \in {"exec", "asked"}
  OBVIOUS
<1>5. pc[r] = "asked" => RecvDumpStart(r) \/ RecvDumpStartError(r) \/ MigrationHangs(r)
  OBVIOUS
<1>6. pc[r] = "fwd" => StartForwarding(r) \/ StartForwardingFails(r) \/ SkipForwarding(r)
  OBVIOUS
<1>7. pc[r] # "hung"
  OBVIOUS
<1> HIDE DEF TypeOK, Step, NewClient, NewClientFails, CreatePod, CreatePodFails, GetService,
            GetServiceNotFound, CreateService, CreateServiceExists, ServiceCallFails,
            StartForwarding, StartForwardingFails, SkipForwarding, WaitForPodReady,
            WaitForPodReadyFails, SendDumpStart, ExecFails, RecvDumpStart,
            RecvDumpStartError, MigrateOk, MigrateFails, MigrationHangs, CloseForwarding,
            DeleteService, DeletePod, DeletePodNotFound, WaitForPodDeleted,
            DeletePodFails
<1> QED
  BY <1>1, <1>2, <1>3, <1>4, <1>5, <1>6, <1>7

-----------------------------------------------------------------------------
(* Each part of the invariant is kept by the steps past the lock. *)

(* Types. *)
LEMMA StepType ==
  ASSUME TypeOK, NEW r \in Reqs, Place(r), Step(r)
  PROVE  TypeOK'
<1>1. LocalOK' /\ UNCHANGED <<op, host, src, over>> /\ host[r] \in Hosts
  BY StepMoves DEF Move, Place
<1>2. /\ lsn' \in [Reqs -> {"none", "failed", "open", "closing", "closed"}]
      /\ fwdsvc' \in [Hosts -> Reqs \cup {None}]
  <2>1. CASE StartForwarding(r) \/ StartForwardingFails(r)
    BY <1>1, <2>1 DEF TypeOK, StartForwarding, StartForwardingFails
  <2>2. CASE CloseForwarding(r)
    BY <1>1, <2>2 DEF TypeOK, CloseForwarding
  <2>3. CASE UNCHANGED <<lsn, fwdsvc>>
    BY <2>3 DEF TypeOK
  <2> QED
    BY <2>1, <2>2, <2>3, StepShared
<1>3. /\ pod' \in [Hosts -> {"none", "pending", "running", "terminating"}]
      /\ podBy' \in [Hosts -> Reqs \cup {None}]
      /\ \A h \in Hosts : pod'[h] = "none" <=> podBy'[h] = None
  <2>1. CASE CreatePod(r)
    BY <1>1, <2>1, APIAssumption DEF APIAssumption, TypeOK, CreatePod
  <2>2. CASE DeletePod(r)
    BY <1>1, <2>2 DEF TypeOK, DeletePod
  <2>3. CASE UNCHANGED <<pod, podBy>>
    BY <2>3 DEF TypeOK
  <2> QED
    BY <2>1, <2>2, <2>3, StepShared
<1>4. service' \in [Hosts -> BOOLEAN]
  <2>1. CASE CreateService(r) \/ DeleteService(r)
    BY <2>1 DEF TypeOK, CreateService, DeleteService, kubeVars
  <2>2. CASE UNCHANGED service
    BY <2>2 DEF TypeOK
  <2> QED
    BY <2>1, <2>2, StepShared
<1>5. removed' \in [Hosts -> BOOLEAN]
  <2>1. CASE DeletePodNotFound(r) \/ WaitForPodDeleted(r)
    BY <2>1 DEF TypeOK, DeletePodNotFound, WaitForPodDeleted, RemoveOk
  <2>2. CASE UNCHANGED removed
    BY <2>2 DEF TypeOK
  <2> QED
    BY <2>1, <2>2, StepShared
<1>6. dump' \in [Reqs -> {"none", "lock", "start", "hung", "ok", "error"}]
  BY StepShared DEF TypeOK, SendDumpStart, RecvDumpStart, RecvDumpStartError
<1>7. route' \in [Reqs -> {"none", "pod", "source", "nowhere"}]
  BY StepShared DEF TypeOK, MigrateOk, Switch, StartForwarding, RouteOf
<1> QED
  BY <1>1, <1>2, <1>3, <1>4, <1>5, <1>6, <1>7 DEF TypeOK, LocalOK

(* The mutexes. *)
LEMMA StepLock ==
  ASSUME TypeOK, LockHeld, NEW r \in Reqs, Place(r), Trace(r), Step(r)
  PROVE  LockHeld'
<1>1. \A q \in Reqs : dump'[q] \in {"start", "hung"} <=> dump[q] \in {"start", "hung"}
  BY StepShared DEF TypeOK, Trace, SendDumpStart, RecvDumpStart, RecvDumpStartError
<1> QED
  BY <1>1, StepMoves, MoveLock

(* The list of forwarding services. *)
LEMMA StepListed ==
  ASSUME TypeOK, ServiceListed, NEW r \in Reqs, Place(r), Step(r), \A q \in Reqs : Trace(q)
  PROVE  ServiceListed'
<1>1. host[r] \in Hosts /\ host' = host
  BY StepMoves DEF Move, Place
<1>2. CASE StartForwarding(r)
  BY <1>1, <1>2, APIAssumption DEF APIAssumption, StartForwarding, ServiceListed, TypeOK
<1>3. CASE StartForwardingFails(r)
  BY <1>1, <1>3 DEF StartForwardingFails, ServiceListed, TypeOK
<1>4. CASE CloseForwarding(r)
  <2>1. CASE fwdsvc[host[r]] = None
    BY <1>1, <1>4, <2>1 DEF CloseForwarding, ServiceListed
  <2>2. CASE fwdsvc[host[r]] # None
    <3>1. fwdsvc[host[r]] \in Reqs
      BY <1>1, <2>2 DEF TypeOK
    <3>2. /\ lsn' = [lsn EXCEPT ![fwdsvc[host[r]]] = "closing"]
          /\ fwdsvc' = [fwdsvc EXCEPT ![host[r]] = None]
      BY <1>4, <2>2 DEF CloseForwarding
    <3>3. \A q \in Reqs : lsn[q] = "open" => host[q] \in Hosts
      BY DEF Trace
    <3> QED
      BY <1>1, <2>2, <3>1, <3>2, <3>3 DEF ServiceListed, TypeOK
  <2> QED
    BY <2>1, <2>2
<1>5. CASE UNCHANGED <<lsn, fwdsvc>>
  BY <1>1, <1>5 DEF ServiceListed
<1> QED
  BY <1>2, <1>3, <1>4, <1>5, StepShared

(* What requests leave behind. *)
LEMMA StepTrace ==
  ASSUME TypeOK, ServiceListed, NEW r \in Reqs, Place(r), Step(r), NEW q \in Reqs, Trace(r), Trace(q)
  PROVE  Trace(q)'
<1>1. /\ host[r] \in Hosts /\ src[r] \in Hosts /\ UNCHANGED <<host, src, over>>
      /\ pc[r] \notin {"idle", "done"} /\ pc'[r] # "idle"
      /\ q # r => pc'[q] = pc[q]
  BY StepMoves DEF Move, Place
<1>2. lsn'[q] # "none" => host[q] \in Hosts /\ pc'[q] # "idle"
  <2>1. lsn'[q] = lsn[q] \/ q = r \/ lsn[q] # "none"
    BY <1>1, StepShared
    DEF StartForwarding, StartForwardingFails, CloseForwarding, ServiceListed, TypeOK
  <2> QED
    BY <1>1, <2>1 DEF Trace
<1>3. dump'[q] # "none" => pc'[q] \in {"asked", "hung", "done"} /\ src[q] \in Hosts
  <2>1. CASE SendDumpStart(r)
    BY <1>1, <2>1 DEF SendDumpStart, Continue, Goto, Trace, TypeOK
  <2>2. CASE RecvDumpStart(r) \/ RecvDumpStartError(r)
    BY <1>1, <2>2 DEF RecvDumpStart, RecvDumpStartError, Trace, TypeOK
  <2>3. CASE MigrationHangs(r)
    <3>1. dump' = dump /\ pc'[r] = "hung"
      BY <2>3 DEF MigrationHangs, Continue, Goto, TypeOK
    <3> QED
      BY <1>1, <3>1 DEF Trace
  <2>4. CASE UNCHANGED dump /\ ~RecvDumpStart(r) /\ ~RecvDumpStartError(r) /\ ~MigrationHangs(r)
    <3>1. pc[r] \notin {"asked", "hung"}
      BY <2>4, StepControl
    <3> QED
      BY <1>1, <2>4, <3>1 DEF Trace
  <2> QED
    BY <2>1, <2>2, <2>3, <2>4, StepShared
<1>4. over'[q] => over[q] /\ pc'[q] # "idle"
  BY <1>1, Zenon DEF Trace
<1>5. over'[q] => host'[q] \in Hosts
  BY <1>1, Zenon DEF Trace
<1>6. pc'[q] = "idle" => dump'[q] = "none"
  BY <1>3
<1> QED
  BY <1>1, <1>2, <1>3, <1>4, <1>5, <1>6, Zenon DEF Trace

(* While a Remove has the lock of a host, whoever else is at work there is *)
(* a goroutine that it has marked.                                         *)
LEMMA AloneButMarked ==
  ASSUME IndInv, NEW r \in Reqs, op[r] = "remove", Held(r), host[r] \in Hosts,
         NEW q \in Reqs, q # r, host[q] = host[r], Held(q) \/ InFlight(q, host[r])
  PROVE  over[q]
<1>1. CASE Held(q)
  BY <1>1, OneHolder DEF IndInv
<1>2. CASE InFlight(q, host[r])
  BY <1>2, Zenon DEF IndInv, Marked
<1> QED
  BY <1>1, <1>2

(* Past its lock, a request has the lock or is the goroutine of a DeployFwdLM. *)
LEMMA AtWork ==
  ASSUME TypeOK, NEW r \in Reqs, Place(r), pc[r] \notin {"idle", "lock", "done"}
  PROVE  /\ host[r] \in Hosts /\ op[r] \in AllOps
         /\ Held(r) \/ InFlight(r, host[r])
         /\ op[r] # "fwdlm" => Held(r)
<1>1. host[r] \in Hosts /\ op[r] \in AllOps
  BY DEF Place
<1>2. op[r] # "fwdlm" => Held(r)
  BY DEF Held
<1>3. op[r] = "fwdlm" => pc[r] = "fwd" \/ pc[r] \in Migrating
  BY DEF TypeOK, Points, Place, Migrating
<1> QED
  BY <1>1, <1>2, <1>3 DEF Held, InFlight

(* Only a Remove deletes a pod, and it finds no pod in use but of marked goroutines. *)
LEMMA StepOwnPod ==
  ASSUME IndInv, NEW r \in Reqs, Step(r), NEW q \in Reqs
  PROVE  OwnPod(q)'
<1>1. TypeOK /\ Place(r) /\ Place(q) /\ OwnPod(q) /\ Move(r)
  BY StepMoves DEF IndInv
<1>2. UNCHANGED <<op, host, src, over>> /\ host[r] \in Hosts
  BY <1>1, AtWork DEF Move
<1> SUFFICES ASSUME newPod'[q], ~over[q]
             PROVE  podBy'[host[q]] = q /\ pod'[host[q]] \in {"pending", "running"}
  BY <1>2, Zenon DEF OwnPod
<1>3. CASE CreatePod(r) /\ q = r
  BY <1>1, <1>2, <1>3 DEF CreatePod, TypeOK
<1>4. CASE ~(CreatePod(r) /\ q = r)
  <2>1. newPod[q]
    <3>1. CASE q = r
      BY <1>1, <1>4, <3>1, StepControl DEF TypeOK
    <3>2. CASE q # r
      BY <1>1, <3>2, Zenon DEF Move
    <3> QED
      BY <3>1, <3>2
  <2>2. podBy[host[q]] = q /\ pod[host[q]] \in {"pending", "running"}
    BY <1>1, <2>1, Zenon DEF OwnPod
  <2>3. pc[q] \in {"getsvc", "mksvc", "fwd", "ready", "exec", "asked", "migrate", "hung"}
    BY <1>1, <2>1 DEF Place
  <2>4. host[q] \in Hosts /\ (Held(q) \/ InFlight(q, host[q]))
    BY <1>1, <2>3, AtWork
  <2>5. CASE CreatePod(r)
    <3>1. host[q] # host[r]
      BY <2>2, <2>5 DEF CreatePod
    <3> QED
      BY <1>1, <2>2, <2>4, <2>5, <3>1 DEF CreatePod, TypeOK
  <2>6. CASE DeletePod(r)
    <3>1. pc[r] = "delpod" /\ op[r] = "remove"
      BY <1>1, <2>6 DEF DeletePod, Place
    <3>2. Held(r) /\ q # r
      BY <2>3, <3>1 DEF Held
    <3>3. host[q] # host[r]
      BY <1>2, <2>4, <3>1, <3>2, AloneButMarked
    <3> QED
      BY <1>1, <2>2, <2>4, <2>6, <3>3 DEF DeletePod, TypeOK
  <2>7. CASE UNCHANGED <<pod, podBy>>
    BY <2>2, <2>7
  <2> QED
    BY <2>5, <2>6, <2>7, StepShared
<1> QED
  BY <1>3, <1>4

(* Nor is the forwarding service of a goroutine under way closed. *)
LEMMA StepOwnService ==
  ASSUME IndInv, NEW r \in Reqs, Step(r), NEW q \in Reqs
  PROVE  OwnService(q)'
<1>1. TypeOK /\ Place(r) /\ Place(q) /\ OwnService(q) /\ Move(r) /\ ServiceListed
  BY StepMoves DEF IndInv
<1>2. UNCHANGED <<op, host, src, over>> /\ host[r] \in Hosts
  BY <1>1, AtWork DEF Move
<1> SUFFICES ASSUME op[q] = "fwdlm", pc'[q] \in Migrating, ~over[q]
             PROVE  /\ fwdsvc'[host[q]] # None \/ lsn'[q] = "failed"
                    /\ pc'[q] \in {"exec", "asked", "migrate"} =>
                          fsv'[q] = fwdsvc'[host[q]] \/ lsn'[q] = "failed"
  BY <1>2, Zenon DEF OwnService
<1>3. CASE q = r /\ pc[r] = "fwd"
  <2>1. op[r] = "fwdlm" /\ pc'[r] \notin {"exec", "asked", "migrate"}
    BY <1>1, <1>3, StepControl DEF WaitForPodReady
  <2>2. StartForwarding(r) \/ StartForwardingFails(r) \/ SkipForwarding(r)
    BY <1>1, <1>3, StepControl
  <2>3. fwdsvc'[host[r]] # None \/ lsn'[r] = "failed"
    BY <1>1, <1>2, <2>1, <2>2, APIAssumption
    DEF APIAssumption, StartForwarding, StartForwardingFails, SkipForwarding, HasAddr, TypeOK, fwdVars
  <2> QED
    BY <1>3, <2>1, <2>3
<1>4. CASE ~(q = r /\ pc[r] = "fwd")
  <2>1. pc[q] \in Migrating /\ host[q] \in Hosts
    <3>1. CASE q = r
      BY <1>1, <1>4, <3>1, AtWork DEF Move, Held, InFlight
    <3>2. CASE q # r
      BY <1>1, <3>2, AtWork DEF Move, Migrating
    <3> QED
      BY <3>1, <3>2
  <2>2. fwdsvc[host[q]] # None \/ lsn[q] = "failed"
    BY <1>1, <2>1, Zenon DEF OwnService
  <2>3. pc'[q] \in {"exec", "asked", "migrate"} => fsv'[q] = fwdsvc[host[q]] \/ lsn[q] = "failed"
    <3>1. CASE q # r
      BY <1>1, <2>1, <3>1 DEF Move, OwnService
    <3>2. CASE q = r /\ pc'[r] = "exec"
      <4>1. WaitForPodReady(r) /\ op[r] = "fwdlm"
        BY <1>1, <3>2, StepControl
      <4> QED
        BY <1>1, <3>2, <4>1 DEF WaitForPodReady, TypeOK
    <3>3. CASE q = r /\ pc'[r] \in {"asked", "migrate"}
      BY <1>1, <2>1, <3>3, StepControl DEF OwnService
    <3> QED
      BY <3>1, <3>2, <3>3
  <2>4. CASE StartForwarding(r) \/ StartForwardingFails(r)
    <3>1. pc[r] = "fwd" /\ q # r /\ fwdsvc[host[r]] = None
      BY <1>4, <2>4 DEF StartForwarding, StartForwardingFails
    <3>2. lsn'[q] = lsn[q] /\ (host[q] # host[r] => fwdsvc'[host[q]] = fwdsvc[host[q]])
      BY <1>1, <2>1, <2>4, <3>1 DEF StartForwarding, StartForwardingFails, TypeOK
    <3> QED
      BY <2>2, <2>3, <3>1, <3>2
  <2>5. CASE CloseForwarding(r)
    <3>1. pc[r] = "close" /\ op[r] = "remove" /\ Held(r) /\ q # r
      BY <1>1, <2>5 DEF CloseForwarding, Place, Held
    <3>2. host[q] # host[r]
      BY <1>2, <2>1, <3>1, AloneButMarked DEF InFlight
    <3>3. lsn'[q] = lsn[q] \/ lsn[q] = "open"
      BY <1>1, <1>2, <2>5 DEF CloseForwarding, ServiceListed, TypeOK
    <3>4. fwdsvc'[host[q]] = fwdsvc[host[q]]
      BY <1>1, <2>1, <2>5, <3>2 DEF CloseForwarding, TypeOK
    <3> QED
      BY <2>2, <2>3, <3>3, <3>4
  <2>6. CASE UNCHANGED <<lsn, fwdsvc>>
    BY <2>2, <2>3, <2>6
  <2> QED
    BY <2>4, <2>5, <2>6, StepShared
<1> QED
  BY <1>3, <1>4

(* A service that appears on a host where a Remove has the lock, or where  *)
(* the last thing done was a Remove, is the work of a marked goroutine.    *)
LEMMA StepRemoving ==
  ASSUME IndInv, NEW r \in Reqs, Step(r), NEW q \in Reqs
  PROVE  Removing(q)'
<1>1. TypeOK /\ Place(r) /\ Place(q) /\ Removing(q) /\ Move(r)
  BY StepMoves DEF IndInv
<1>2. UNCHANGED <<op, host, src, over>> /\ host[r] \in Hosts
  BY <1>1, AtWork DEF Move
<1>3. \A h \in Hosts : OverOn(h) => OverOn(h)'
  BY <1>2 DEF OverOn
<1> SUFFICES ASSUME pc'[q] \in {"delsvc", "delpod", "gone"}
             PROVE  /\ fwdsvc'[host[q]] = None
                    /\ pc'[q] \in {"delpod", "gone"} /\ svcRes'[q] # "error" =>
                          ~service'[host[q]] \/ OverOn(host[q])'
  BY <1>2, Zenon DEF Removing
<1>4. CASE q = r
  <2>1. CASE CloseForwarding(r)
    <3>1. pc'[r] = "delsvc"
      BY <1>1, <2>1 DEF CloseForwarding, Continue, Goto, TypeOK
    <3>2. fwdsvc'[host[r]] = None
      BY <1>1, <1>2, <2>1 DEF CloseForwarding, TypeOK
    <3> QED
      BY <1>4, <3>1, <3>2
  <2>2. CASE DeleteService(r)
    <3>1. pc[r] = "delsvc" /\ fwdsvc' = fwdsvc
      BY <2>2 DEF DeleteService, fwdVars
    <3>2. fwdsvc[host[r]] = None
      BY <1>1, <1>4, <3>1 DEF Removing
    <3>3. svcRes'[r] # "error" => service'[host[r]] = FALSE
      BY <1>1, <1>2, <2>2 DEF DeleteService, TypeOK
    <3> QED
      BY <1>4, <3>1, <3>2, <3>3
  <2>3. CASE DeletePod(r)
    <3>1. pc[r] = "delpod" /\ fwdsvc' = fwdsvc /\ service' = service /\ svcRes' = svcRes
      BY <2>3 DEF DeletePod, fwdVars, Continue
    <3>2. /\ fwdsvc[host[r]] = None
          /\ svcRes[r] # "error" => ~service[host[r]] \/ OverOn(host[r])
      BY <1>1, <1>4, <3>1, Zenon DEF Removing
    <3> QED
      BY <1>2, <1>3, <1>4, <3>1, <3>2
  <2> QED
    BY <1>1, <1>4, <2>1, <2>2, <2>3, StepControl
<1>5. CASE q # r
  <2>1. pc[q] = pc'[q] /\ svcRes'[q] = svcRes[q]
    BY <1>1, <1>5 DEF Move
  <2>2. op[q] = "remove" /\ Held(q) /\ host[q] \in Hosts
    BY <1>1, <2>1 DEF Place, Held
  <2>3. host[r] = host[q] => over[r] /\ ~Held(r)
    BY <1>1, <1>5, <2>2, AtWork, AloneButMarked, OneHolder DEF Move, IndInv
  <2>4. fwdsvc'[host[q]] = None
    <3>1. fwdsvc[host[q]] = None
      BY <1>1, <2>1 DEF Removing
    <3>2. CASE StartForwarding(r)
      <4>1. Held(r)
        BY <3>2 DEF StartForwarding, Held
      <4> QED
        BY <1>1, <2>2, <2>3, <3>1, <3>2, <4>1 DEF StartForwarding, TypeOK
    <3>3. CASE StartForwardingFails(r) \/ CloseForwarding(r)
      BY <1>1, <2>2, <3>1, <3>3 DEF StartForwardingFails, CloseForwarding, TypeOK
    <3> QED
      BY <3>1, <3>2, <3>3, StepShared
  <2>5. ASSUME pc'[q] \in {"delpod", "gone"}, svcRes'[q] # "error"
        PROVE  ~service'[host[q]] \/ OverOn(host[q])'
    <3>1. ~service[host[q]] \/ OverOn(host[q])
      BY <1>1, <2>1, <2>5, Zenon DEF Removing
    <3>2. CASE host[r] = host[q]
      <4>1. OverOn(host[q])
        BY <2>3, <3>2 DEF OverOn
      <4> QED
        BY <1>2, <4>1 DEF OverOn
    <3>3. CASE host[r] # host[q]
      <4>1. service'[host[q]] = service[host[q]]
        BY <1>1, <2>2, <3>3, StepShared DEF CreateService, DeleteService, TypeOK
      <4> QED
        BY <1>2, <3>1, <4>1 DEF OverOn
    <3> QED
      BY <3>2, <3>3
  <2> QED
    BY <2>4, <2>5
<1> QED
  BY <1>4, <1>5

(* After a Remove only marked goroutines bring something back. *)
LEMMA StepQuiet ==
  ASSUME IndInv, NEW r \in Reqs, Step(r), NEW h \in Hosts
  PROVE  Quiet(h)'
<1>1. TypeOK /\ Place(r) /\ Removing(r) /\ Quiet(h) /\ Move(r) /\ TypeOK'
  BY StepMoves, StepType DEF IndInv
<1>2. UNCHANGED <<op, host, src, over>> /\ host[r] \in Hosts /\ (OverOn(h)' <=> OverOn(h))
  BY <1>1, AtWork DEF Move, OverOn
<1> SUFFICES ASSUME removed'[h]
             PROVE  /\ Clean(h)' \/ OverOn(h)
                    /\ \A q \in Reqs : host[q] = h =>
                         (Held(q)' => op[q] = "remove") /\ (InFlight(q, h)' => over[q])
  BY <1>2, Zenon DEF Quiet
<1>3. CASE (DeletePodNotFound(r) \/ WaitForPodDeleted(r)) /\ host[r] = h /\ svcRes[r] # "error"
  <2>1. pc[r] \in {"delpod", "gone"} /\ pod[h] = "none" /\ UNCHANGED <<pod, service, fwdsvc>>
    BY <1>3 DEF DeletePodNotFound, WaitForPodDeleted, kubeVars, fwdVars
  <2>2. op[r] = "remove" /\ Held(r)
    BY <1>1, <2>1 DEF Place, Held
  <2>3. Clean(h)' \/ OverOn(h)
    BY <1>1, <1>3, <2>1 DEF Removing, Clean
  <2>4. ASSUME NEW q \in Reqs, q # r, host[q] = h
        PROVE  (Held(q)' => op[q] = "remove") /\ (InFlight(q, h)' => over[q])
    <3>1. ~Held(q)
      BY <1>2, <1>3, <2>2, <2>4, OneHolder DEF IndInv
    <3>2. InFlight(q, h) => over[q]
      BY <1>2, <1>3, <2>2, <2>4, AloneButMarked
    <3> QED
      BY <1>1, <2>4, <3>1, <3>2, OthersKept
  <2>5. ~InFlight(r, h)'
    BY <1>2, <2>2 DEF InFlight
  <2> QED
    BY <2>2, <2>3, <2>4, <2>5
<1>4. CASE ~((DeletePodNotFound(r) \/ WaitForPodDeleted(r)) /\ host[r] = h /\ svcRes[r] # "error")
  <2>1. removed[h]
    <3>1. CASE DeletePodNotFound(r) \/ WaitForPodDeleted(r)
      <4>1. removed' = [removed EXCEPT ![host[r]] = @ \/ svcRes[r] # "error"]
        BY <3>1 DEF DeletePodNotFound, WaitForPodDeleted, RemoveOk
      <4>2. CASE host[r] # h
        BY <1>1, <1>2, <4>1, <4>2 DEF TypeOK
      <4>3. CASE host[r] = h
        <5>1. svcRes[r] = "error"
          BY <1>4, <3>1, <4>3
        <5>2. removed'[h] = (removed[h] \/ svcRes[r] # "error")
          BY <1>1, <4>1, <4>3 DEF TypeOK
        <5> QED
          BY <5>1, <5>2
      <4> QED
        BY <4>2, <4>3
    <3>2. CASE UNCHANGED removed
      BY <3>2
    <3> QED
      BY <3>1, <3>2, StepShared
  <2>2. /\ Clean(h) \/ OverOn(h)
        /\ \A q \in Reqs : host[q] = h => (Held(q) => op[q] = "remove") /\ (InFlight(q, h) => over[q])
    BY <1>1, <2>1, Zenon DEF Quiet
  <2>3. CASE host[r] # h
    <3>1. \A q \in Reqs : host[q] = h => (Held(q)' <=> Held(q)) /\ (InFlight(q, h)' <=> InFlight(q, h))
      BY <1>1, <2>3, OthersKept
    <3>2. pod'[h] = pod[h] /\ fwdsvc'[h] = fwdsvc[h]
      BY <1>1, <2>3, StepShared
      DEF TypeOK, StartForwarding, StartForwardingFails, CloseForwarding, CreatePod, DeletePod
    <3>3. service'[h] = service[h]
      BY <1>1, <2>3, StepShared DEF TypeOK, CreateService, DeleteService
    <3> QED
      BY <2>2, <3>1, <3>2, <3>3 DEF Clean
  <2>4. CASE host[r] = h
    <3>1. op[r] = "remove" \/ (over[r] /\ ~Held(r))
      BY <1>1, <2>2, <2>4, AtWork DEF Move
    <3>2. Clean(h)' \/ OverOn(h)
      <4>1. CASE op[r] = "remove" /\ Clean(h)
        <5>1. ~CreatePod(r) /\ ~CreateService(r) /\ ~StartForwarding(r)
          BY <1>1, <4>1 DEF CreatePod, CreateService, StartForwarding, Place
        <5>2. pod'[h] = "none" /\ fwdsvc'[h] = None
          BY <1>1, <2>4, <4>1, <5>1, StepShared
          DEF TypeOK, StartForwardingFails, CloseForwarding, DeletePod, Clean
        <5>3. service'[h] = FALSE
          BY <1>1, <2>4, <4>1, <5>1, StepShared DEF TypeOK, DeleteService, Clean
        <5> QED
          BY <5>2, <5>3 DEF Clean
      <4>2. CASE over[r]
        BY <2>4, <4>2 DEF OverOn
      <4> QED
        BY <2>2, <3>1, <4>1, <4>2
    <3>3. ASSUME NEW q \in Reqs, host[q] = h
          PROVE  (Held(q)' => op[q] = "remove") /\ (InFlight(q, h)' => over[q])
      <4>1. CASE q # r
        BY <1>1, <2>2, <3>3, <4>1, OthersKept
      <4>2. CASE q = r
        <5>1. (Held(r)' => Held(r)) /\ (InFlight(r, h)' => op[r] = "fwdlm")
          BY <1>1, <1>2 DEF Move, InFlight
        <5> QED
          BY <3>1, <4>2, <5>1
      <4> QED
        BY <4>1, <4>2
    <3> QED
      BY <3>2, <3>3
  <2> QED
    BY <2>3, <2>4
<1> QED
  BY <1>3, <1>4

(* A step past the lock keeps the inductive invariant. *)
LEMMA StepInd ==
  ASSUME IndInv, NEW r \in Reqs, Step(r)
  PROVE  IndInv'
<1>1. Move(r) /\ Place(r)'
  BY StepMoves DEF IndInv
<1>2. \A q \in Reqs : Place(q)'
  BY <1>1, OthersKept DEF IndInv
<1>3. TypeOK' /\ LockHeld' /\ ServiceListed' /\ Marked'
  BY <1>1, StepType, StepLock, StepListed, MoveMarked DEF IndInv
<1>4. \A q \in Reqs : Trace(q)'
  BY StepTrace DEF IndInv
<1>5. \A q \in Reqs : OwnPod(q)' /\ OwnService(q)' /\ Removing(q)'
  BY StepOwnPod, StepOwnService, StepRemoving
<1>6. \A h \in Hosts : Quiet(h)'
  BY StepQuiet
<1> QED
  BY <1>2, <1>3, <1>4, <1>5, <1>6 DEF IndInv

-----------------------------------------------------------------------------
(* The other steps. *)

(* A request arrives: it has left no trace before. *)
LEMMA ArriveInd ==
  ASSUME IndInv, NEW r \in Reqs, NEW o \in Ops, NEW d \in Hosts, NEW s \in Hosts, Arrive(r, o, d, s)
  PROVE  IndInv'
<1> USE APIAssumption DEF APIAssumption
<1>1. TypeOK'
  BY APIAssumption
  DEF IndInv, Arrive, Goto, reqVars, locVars, fwdVars, kubeVars, histVars, APIAssumption, TypeOK,
      Points
<1>2. LockHeld'
  <2>1. ~Held(r) /\ ~Held(r)' /\ dump[r] = "none"
    BY DEF IndInv, TypeOK, Trace, Arrive, Goto, Held
  <2>2. \A q \in Reqs : q # r => /\ (Held(q)' <=> Held(q))
                                 /\ host'[q] = host[q] /\ src'[q] = src[q]
    BY DEF IndInv, TypeOK, Arrive, Goto, Held
  <2>3. UNCHANGED <<dump, mux>> /\ LockHeld
    BY DEF IndInv, Arrive
  <2> QED
    BY <2>1, <2>2, <2>3 DEF LockHeld, Handler, DumpPart
<1>3. ServiceListed'
  BY APIAssumption
  DEF IndInv, Arrive, Goto, reqVars, locVars, fwdVars, kubeVars, histVars, APIAssumption,
      ServiceListed, TypeOK, Trace
<1>4. (\A q \in Reqs : Place(q))'
  BY DEF IndInv, Arrive, Goto, reqVars, locVars, fwdVars, kubeVars, histVars, Place, TypeOK
<1>5. (\A q \in Reqs : Trace(q))'
  BY DEF IndInv, Arrive, Goto, reqVars, locVars, fwdVars, kubeVars, histVars, Trace, TypeOK
<1>6. (\A q \in Reqs : OwnPod(q))'
  BY DEF IndInv, Arrive, Goto, reqVars, locVars, fwdVars, kubeVars, histVars, OwnPod, Place, TypeOK
<1>7. (\A q \in Reqs : OwnService(q))'
    BY DEF IndInv, Arrive, Goto, reqVars, locVars, fwdVars, kubeVars, histVars, OwnService, Place,
         TypeOK, Migrating
<1>8. Marked'
    BY DEF IndInv, Arrive, Goto, reqVars, locVars, fwdVars, kubeVars, histVars, Marked, TypeOK,
         Held, InFlight, Migrating
<1>9. (\A q \in Reqs : Removing(q))'
  <2>1. \A k \in Hosts : OverOn(k) => OverOn(k)'
    BY DEF IndInv, TypeOK, Trace, Arrive, OverOn, histVars
  <2>2. /\ pc'[r] = "lock" /\ UNCHANGED <<fwdsvc, service, svcRes>>
        /\ \A q \in Reqs : q # r => pc'[q] = pc[q] /\ host'[q] = host[q]
    BY DEF IndInv, TypeOK, Arrive, Goto, fwdVars, kubeVars
  <2>3. \A q \in Reqs : pc[q] \in {"delsvc", "delpod", "gone"} => host[q] \in Hosts
    BY DEF IndInv, Place
  <2>4. ASSUME NEW q \in Reqs, q # r PROVE Removing(q)'
    <3>1. Removing(q)
      BY DEF IndInv
    <3>2. OverOn(host[q]) /\ host[q] \in Hosts => OverOn(host[q])'
      BY <2>2, <2>4 DEF IndInv, TypeOK, Trace, Arrive, OverOn, histVars
    <3> QED
      BY <2>2, <2>3, <2>4, <3>1, <3>2, Zenon DEF Removing
  <2>5. Removing(r)'
    BY <2>2 DEF Removing
  <2> QED
    BY <2>4, <2>5
<1>10. (\A k \in Hosts : Quiet(k))'
  <2> SUFFICES ASSUME NEW k \in Hosts PROVE Quiet(k)'
    OBVIOUS
  <2>1. OverOn(k) => OverOn(k)'
    BY DEF IndInv, TypeOK, Trace, Arrive, OverOn, histVars
  <2>2. UNCHANGED <<removed, over>> /\ (Clean(k)' <=> Clean(k)) /\ Quiet(k)
    BY DEF IndInv, Arrive, Clean, fwdVars, kubeVars, histVars
  <2>3. ~Held(r)' /\ ~InFlight(r, k)'
    BY DEF IndInv, TypeOK, Arrive, Goto, Held, InFlight, Migrating
  <2>4. \A q \in Reqs : q # r => /\ (Held(q)' <=> Held(q)) /\ (InFlight(q, k)' <=> InFlight(q, k))
                                 /\ op'[q] = op[q] /\ host'[q] = host[q]
    BY DEF IndInv, TypeOK, Arrive, Goto, Held, InFlight, Migrating
  <2> QED
    BY <2>1, <2>2, <2>3, <2>4 DEF Quiet
<1> QED
  BY <1>1, <1>2, <1>3, <1>4, <1>5, <1>6, <1>7, <1>8, <1>9, <1>10 DEF IndInv

(* A request is not understood. *)
LEMMA RejectInd ==
  ASSUME IndInv, NEW r \in Reqs, Reject(r)
  PROVE  IndInv'
<1> USE DEF IndInv, Reject, Continue, Goto, reqVars, fwdVars, kubeVars, histVars
<1>1. TypeOK'
  BY APIAssumption DEF APIAssumption, TypeOK, Points
<1>2. LockHeld'
  BY Holders DEF LockHeld, TypeOK, Held
<1>3. ServiceListed'
  BY APIAssumption DEF APIAssumption, ServiceListed, TypeOK, Trace
<1>4. (\A q \in Reqs : Place(q))'
  BY DEF Place, TypeOK
<1>5. (\A q \in Reqs : Trace(q))'
  BY DEF Trace, TypeOK
<1>6. (\A q \in Reqs : OwnPod(q))'
  BY DEF OwnPod, Place, TypeOK
<1>7. (\A q \in Reqs : OwnService(q))'
  BY DEF OwnService, Place, TypeOK, Migrating
<1>8. Marked'
  BY DEF Marked, TypeOK, Held, InFlight, Migrating
<1>9. (\A q \in Reqs : Removing(q))'
  BY DEF Removing, OverOn, Place, TypeOK
<1>10. (\A k \in Hosts : Quiet(k))'
  BY DEF Quiet, Clean, OverOn, TypeOK, Held, InFlight, Migrating
<1> QED
  BY <1>1, <1>2, <1>3, <1>4, <1>5, <1>6, <1>7, <1>8, <1>9, <1>10 DEF IndInv

(* A handler gets the mutex; a Remove marks the goroutines under way. *)
LEMMA LockInd ==
  ASSUME IndInv, NEW r \in Reqs, Lock(r)
  PROVE  IndInv'
<1>1. TypeOK'
  <2>1. mux' \in [Hosts -> (Reqs \X {"handler", "dump"}) \cup {None}]
    BY DEF IndInv, TypeOK, Lock, Handler
  <2>2. over' \in [Reqs -> BOOLEAN] /\ removed' \in [Hosts -> BOOLEAN]
    <3>1. CASE op[r] = "remove"
      <4>1. over' = [q \in Reqs |-> over[q] \/ InFlight(q, host[r])] /\ removed' = removed
        BY <3>1, Zenon DEF Lock
      <4> QED
        BY <4>1, Zenon DEF IndInv, TypeOK
    <3>2. CASE op[r] # "remove"
      <4>1. over' = over /\ removed' = [removed EXCEPT ![host[r]] = FALSE]
        BY <3>2, Zenon DEF Lock
      <4> QED
        BY <4>1 DEF IndInv, TypeOK
    <3> QED
      BY <3>1, <3>2
  <2>3. pc' \in [Reqs -> Points]
    BY DEF IndInv, TypeOK, Lock, Goto, Points
  <2> QED
    BY <2>1, <2>2, <2>3 DEF IndInv, TypeOK, Lock, reqVars, fwdVars, kubeVars
<1>2. LockHeld'
  BY Holders DEF IndInv, Lock, Goto, reqVars, fwdVars, kubeVars, histVars, LockHeld, TypeOK, Held
<1>3. ServiceListed'
  BY APIAssumption
  DEF IndInv, Lock, Goto, reqVars, fwdVars, kubeVars, histVars, APIAssumption, ServiceListed,
      TypeOK, Trace
<1>4. (\A q \in Reqs : Place(q))'
  BY DEF IndInv, Lock, Goto, reqVars, fwdVars, kubeVars, histVars, Place, TypeOK
<1>5. (\A q \in Reqs : Trace(q))'
  <2> SUFFICES ASSUME NEW q \in Reqs PROVE Trace(q)'
    OBVIOUS
  <2>1. over'[q] => over[q] \/ InFlight(q, host[r])
    <3>1. CASE op[r] = "remove"
      BY <3>1 DEF Lock
    <3>2. CASE op[r] # "remove"
      BY <3>2 DEF Lock
    <3> QED
      BY <3>1, <3>2
  <2>2. over'[q] => pc[q] # "idle" /\ host[q] \in Hosts
    BY <2>1 DEF IndInv, Trace, Place, InFlight, Migrating
  <2>3. (pc'[q] = pc[q] \/ (q = r /\ pc[q] = "lock" /\ pc'[q] # "idle"))
    BY DEF IndInv, TypeOK, Lock, Goto
  <2>4. UNCHANGED <<host, src, lsn, dump>>
    BY DEF Lock, reqVars, fwdVars
  <2>5. Trace(q)
    BY DEF IndInv
  <2>6. /\ pc'[q] = "idle" => ~over'[q]
        /\ over'[q] => host'[q] \in Hosts
    BY <2>2, <2>3, <2>4
  <2>7. /\ pc'[q] = "idle" => lsn'[q] = "none" /\ dump'[q] = "none"
        /\ dump'[q] # "none" => pc'[q] \in {"asked", "hung", "done"} /\ src'[q] \in Hosts
        /\ lsn'[q] # "none" => host'[q] \in Hosts
    BY <2>3, <2>4, <2>5 DEF Trace
  <2> QED
    BY <2>6, <2>7, Zenon DEF Trace
<1>6. (\A q \in Reqs : OwnPod(q))'
  BY DEF IndInv, Lock, Goto, reqVars, fwdVars, kubeVars, histVars, OwnPod, Place, TypeOK
<1>7. (\A q \in Reqs : OwnService(q))'
    BY DEF IndInv, Lock, Goto, reqVars, fwdVars, kubeVars, histVars, OwnService, Place, TypeOK,
         Migrating
<1>8. Marked'
  <2>1. LockHeld /\ Marked /\ host[r] \in Hosts /\ mux[host[r]] = None /\ UNCHANGED <<op, host>>
    BY DEF IndInv, Lock, Place, reqVars
  <2>2. \A q \in Reqs : host[q] = host[r] => ~Held(q)
    BY <2>1, Holders DEF LockHeld
  <2>3. \A q \in Reqs : q # r => pc'[q] = pc[q]
    BY DEF IndInv, TypeOK, Lock, Goto
  <2>4. \A q \in Reqs : InFlight(q, host[r])' => InFlight(q, host[r])
    <3>1. op[r] = "fwdlm" => pc'[r] = "fwd"
      BY DEF IndInv, TypeOK, Lock, Goto
    <3> QED
      BY <2>1, <2>3, <3>1 DEF InFlight, Migrating
  <2>5. \A q \in Reqs : over[q] => over'[q]
    <3>1. CASE op[r] = "remove"
      BY <3>1 DEF Lock
    <3>2. CASE op[r] # "remove"
      BY <3>2 DEF Lock
    <3> QED
      BY <3>1, <3>2
  <2> SUFFICES ASSUME NEW q \in Reqs, NEW s \in Reqs,
                      (op[q] = "remove" /\ Held(q) /\ InFlight(s, host[q]))'
               PROVE  over'[s]
    BY Zenon DEF Marked
  <2>6. CASE q = r
    <3>1. op[r] = "remove" /\ InFlight(s, host[r])
      BY <2>1, <2>4, <2>6 DEF InFlight
    <3> QED
      BY <3>1 DEF Lock
  <2>7. CASE q # r
    <3>1. op[q] = "remove" /\ Held(q)
      BY <2>1, <2>3, <2>7 DEF Held
    <3>2. InFlight(s, host[q])
      <4>1. op[r] = "fwdlm" => pc'[r] = "fwd"
        BY DEF IndInv, TypeOK, Lock, Goto
      <4> QED
        BY <2>1, <2>3, <4>1 DEF InFlight, Migrating
    <3>3. over[s]
      BY <2>1, <3>1, <3>2, Zenon DEF Marked
    <3> QED
      BY <2>5, <3>3
  <2> QED
    BY <2>6, <2>7
<1>9. (\A q \in Reqs : Removing(q))'
  BY DEF IndInv, Lock, Goto, reqVars, fwdVars, kubeVars, histVars, Removing, OverOn, Place, TypeOK
<1>10. (\A k \in Hosts : Quiet(k))'
    BY DEF IndInv, Lock, Goto, reqVars, fwdVars, kubeVars, histVars, Quiet, Clean, OverOn, TypeOK,
         Held, InFlight, Migrating
<1> QED
  BY <1>1, <1>2, <1>3, <1>4, <1>5, <1>6, <1>7, <1>8, <1>9, <1>10 DEF IndInv

(* DumpStart on the source host, with the mutex there. *)
LEMMA DumpInd ==
  ASSUME IndInv, NEW r \in Reqs, DumpLock(r) \/ DumpStart(r) \/ DumpHangs(r)
  PROVE  IndInv'
<1>1. TypeOK'
  <2>1. mux' \in [Hosts -> (Reqs \X {"handler", "dump"}) \cup {None}]
    <3>1. CASE DumpLock(r)
      BY <3>1 DEF IndInv, TypeOK, DumpLock, DumpPart
    <3>2. CASE DumpStart(r)
      BY <3>2 DEF IndInv, TypeOK, DumpStart, Unlock
    <3>3. CASE DumpHangs(r)
      BY <3>3 DEF IndInv, TypeOK, DumpHangs
    <3> QED
      BY <3>1, <3>2, <3>3
  <2>2. dump' \in [Reqs -> {"none", "lock", "start", "hung", "ok", "error"}]
    BY DEF IndInv, TypeOK, DumpLock, DumpStart, DumpHangs
  <2> QED
    BY <2>1, <2>2
    DEF IndInv, TypeOK, DumpLock, DumpStart, DumpHangs, reqVars, locVars, fwdVars, kubeVars, histVars
<1>2. LockHeld'
  BY Holders
  DEF IndInv, DumpLock, DumpStart, DumpHangs, Unlock, reqVars, locVars, fwdVars, kubeVars, histVars,
      LockHeld, TypeOK, Held
<1>3. ServiceListed'
  BY APIAssumption
  DEF IndInv, DumpLock, DumpStart, DumpHangs, Unlock, reqVars, locVars, fwdVars, kubeVars, histVars,
      APIAssumption, ServiceListed, TypeOK, Trace
<1>4. (\A q \in Reqs : Place(q))'
        BY DEF IndInv, DumpLock, DumpStart, DumpHangs, Unlock, reqVars, locVars, fwdVars,
           kubeVars, histVars,
         Place, TypeOK
<1>5. (\A q \in Reqs : Trace(q))'
        BY DEF IndInv, DumpLock, DumpStart, DumpHangs, Unlock, reqVars, locVars, fwdVars,
           kubeVars, histVars,
         Trace, TypeOK
<1>6. (\A q \in Reqs : OwnPod(q))'
        BY DEF IndInv, DumpLock, DumpStart, DumpHangs, Unlock, reqVars, locVars, fwdVars,
           kubeVars, histVars,
         OwnPod, Place, TypeOK
<1>7. (\A q \in Reqs : OwnService(q))'
        BY DEF IndInv, DumpLock, DumpStart, DumpHangs, Unlock, reqVars, locVars, fwdVars,
           kubeVars, histVars,
         OwnService, Place, TypeOK, Migrating
<1>8. Marked'
        BY DEF IndInv, DumpLock, DumpStart, DumpHangs, Unlock, reqVars, locVars, fwdVars,
           kubeVars, histVars,
         Marked, TypeOK, Held, InFlight, Migrating
<1>9. (\A q \in Reqs : Removing(q))'
        BY DEF IndInv, DumpLock, DumpStart, DumpHangs, Unlock, reqVars, locVars, fwdVars,
           kubeVars, histVars,
         Removing, OverOn, Place, TypeOK
<1>10. (\A k \in Hosts : Quiet(k))'
        BY DEF IndInv, DumpLock, DumpStart, DumpHangs, Unlock, reqVars, locVars, fwdVars,
           kubeVars, histVars,
         Quiet, Clean, OverOn, TypeOK, Held, InFlight, Migrating
<1> QED
  BY <1>1, <1>2, <1>3, <1>4, <1>5, <1>6, <1>7, <1>8, <1>9, <1>10 DEF IndInv

(* A closed listener gives up its port. *)
LEMMA ListenerInd ==
  ASSUME IndInv, NEW r \in Reqs, ListenerCloses(r)
  PROVE  IndInv'
<1> USE DEF IndInv, ListenerCloses, reqVars, locVars, fwdVars, kubeVars, histVars
<1>1. TypeOK'
  BY APIAssumption DEF APIAssumption, TypeOK, Points
<1>2. LockHeld'
  BY Holders DEF LockHeld, TypeOK, Held
<1>3. ServiceListed'
  BY APIAssumption DEF APIAssumption, ServiceListed, TypeOK, Trace
<1>4. (\A q \in Reqs : Place(q))'
  BY DEF Place, TypeOK
<1>5. (\A q \in Reqs : Trace(q))'
  BY DEF Trace, TypeOK
<1>6. (\A q \in Reqs : OwnPod(q))'
  BY DEF OwnPod, Place, TypeOK
<1>7. (\A q \in Reqs : OwnService(q))'
  BY DEF OwnService, Place, TypeOK, Migrating
<1>8. Marked'
  BY DEF Marked, TypeOK, Held, InFlight, Migrating
<1>9. (\A q \in Reqs : Removing(q))'
  BY DEF Removing, OverOn, Place, TypeOK
<1>10. (\A k \in Hosts : Quiet(k))'
  BY DEF Quiet, Clean, OverOn, TypeOK, Held, InFlight, Migrating
<1> QED
  BY <1>1, <1>2, <1>3, <1>4, <1>5, <1>6, <1>7, <1>8, <1>9, <1>10 DEF IndInv

(* Only a pod that is being deleted goes away. *)
LEMMA KubernetesInd ==
  ASSUME IndInv, NEW h \in Hosts, Kubernetes(h)
  PROVE  IndInv'
<1> USE DEF IndInv, Kubernetes, PodStarts, PodGone, reqVars, locVars, fwdVars, kubeVars, histVars
<1>1. TypeOK'
  BY APIAssumption DEF APIAssumption, TypeOK, Points
<1>2. LockHeld'
  BY Holders DEF LockHeld, TypeOK, Held
<1>3. ServiceListed'
  BY APIAssumption DEF APIAssumption, ServiceListed, TypeOK, Trace
<1>4. (\A q \in Reqs : Place(q))'
  BY DEF Place, TypeOK
<1>5. (\A q \in Reqs : Trace(q))'
  BY DEF Trace, TypeOK
<1>6. (\A q \in Reqs : OwnPod(q))'
  BY DEF OwnPod, Place, TypeOK
<1>7. (\A q \in Reqs : OwnService(q))'
  BY DEF OwnService, Place, TypeOK, Migrating
<1>8. Marked'
  BY DEF Marked, TypeOK, Held, InFlight, Migrating
<1>9. (\A q \in Reqs : Removing(q))'
  BY DEF Removing, OverOn, Place, TypeOK
<1>10. (\A k \in Hosts : Quiet(k))'
  BY DEF Quiet, Clean, OverOn, TypeOK, Held, InFlight, Migrating
<1> QED
  BY <1>1, <1>2, <1>3, <1>4, <1>5, <1>6, <1>7, <1>8, <1>9, <1>10 DEF IndInv

(* A process dies: its goroutines and mutex go together. *)
LEMMA DiesInd ==
  ASSUME IndInv, NEW h \in Hosts, ProcessDies(h)
  PROVE  IndInv'
<1> USE DEF IndInv, ProcessDies, reqVars, kubeVars, histVars
<1>1. TypeOK'
  BY APIAssumption DEF APIAssumption, TypeOK, Points
<1>2. LockHeld'
  BY Holders DEF LockHeld, TypeOK, Held
<1>3. ServiceListed'
  BY APIAssumption DEF APIAssumption, ServiceListed, TypeOK, Trace
<1>4. (\A q \in Reqs : Place(q))'
  BY DEF Place, TypeOK
<1>5. (\A q \in Reqs : Trace(q))'
  BY DEF Trace, TypeOK
<1>6. (\A q \in Reqs : OwnPod(q))'
  BY DEF OwnPod, Place, TypeOK
<1>7. (\A q \in Reqs : OwnService(q))'
  BY DEF OwnService, Place, TypeOK, Migrating
<1>8. Marked'
  BY DEF Marked, TypeOK, Held, InFlight, Migrating
<1>9. (\A q \in Reqs : Removing(q))'
  BY DEF Removing, OverOn, Place, TypeOK
<1>10. (\A k \in Hosts : Quiet(k))'
  BY DEF Quiet, Clean, OverOn, TypeOK, Held, InFlight, Migrating
<1> QED
  BY <1>1, <1>2, <1>3, <1>4, <1>5, <1>6, <1>7, <1>8, <1>9, <1>10 DEF IndInv

(* Nothing has arrived. *)
LEMMA InitInd == Init => IndInv
<1> SUFFICES ASSUME Init PROVE IndInv
  OBVIOUS
<1> USE APIAssumption DEF APIAssumption, Init
<1>1. TypeOK
  BY DEF TypeOK, Points
<1>2. LockHeld
  BY Holders DEF LockHeld, TypeOK, Held
<1>3. ServiceListed
  BY DEF ServiceListed, TypeOK, Trace
<1>4. (\A q \in Reqs : Place(q))
  BY DEF Place, TypeOK
<1>5. (\A q \in Reqs : Trace(q))
  BY DEF Trace, TypeOK
<1>6. (\A q \in Reqs : OwnPod(q))
  BY DEF OwnPod, Place, TypeOK
<1>7. (\A q \in Reqs : OwnService(q))
  BY DEF OwnService, Place, TypeOK, Migrating
<1>8. Marked
  BY DEF Marked, TypeOK, Held, InFlight, Migrating
<1>9. (\A q \in Reqs : Removing(q))
  BY DEF Removing, OverOn, Place, TypeOK
<1>10. (\A k \in Hosts : Quiet(k))
  BY DEF Quiet, Clean, OverOn, TypeOK, Held, InFlight, Migrating
<1> QED
  BY <1>1, <1>2, <1>3, <1>4, <1>5, <1>6, <1>7, <1>8, <1>9, <1>10 DEF IndInv

(* Every step keeps the inductive invariant. *)
LEMMA NextInd == IndInv /\ [Next]_vars => IndInv'
<1> SUFFICES ASSUME IndInv, [Next]_vars PROVE IndInv'
  OBVIOUS
<1>1. CASE UNCHANGED vars
  <2> USE <1>1 DEF vars, reqVars, locVars, fwdVars, kubeVars, histVars, IndInv
  <2>1. (TypeOK /\ LockHeld /\ ServiceListed /\ Marked)'
    BY DEF TypeOK, LockHeld, Handler, DumpPart, ServiceListed, Marked, Held, InFlight
  <2>2. \A q \in Reqs : (Place(q) /\ Trace(q) /\ OwnPod(q) /\ OwnService(q) /\ Removing(q))'
    BY DEF Place, Trace, OwnPod, OwnService, Removing, OverOn
  <2>3. \A h \in Hosts : Quiet(h)'
    BY DEF Quiet, Clean, OverOn, Held, InFlight
  <2> QED
    BY <2>1, <2>2, <2>3
<1>2. ASSUME NEW r \in Reqs, Serve(r) \/ Migrate(r) \/ MigrationHangs(r)
      PROVE  IndInv'
  <2>1. CASE Lock(r)
    BY <2>1, LockInd
  <2>2. CASE NilFwdsvcPanic(r)
    <3>1. host[r] \in Hosts /\ ProcessDies(host[r])
      BY <2>2 DEF NilFwdsvcPanic, IndInv, Place
    <3> QED
      BY <3>1, DiesInd
  <2>3. CASE Step(r)
    BY <2>3, StepInd
  <2> QED
    BY <1>2, <2>1, <2>2, <2>3 DEF Serve, Migrate, Step
<1>3. ASSUME NEW r \in Reqs,
             \/ \E o \in Ops, h \in Hosts, s \in Hosts : Arrive(r, o, h, s)
             \/ Reject(r) \/ ServeDump(r) \/ DumpHangs(r) \/ ListenerCloses(r)
      PROVE  IndInv'
  BY <1>3, ArriveInd, RejectInd, DumpInd, ListenerInd DEF ServeDump
<1>4. ASSUME NEW h \in Hosts, Kubernetes(h) \/ Crash(h)
      PROVE  IndInv'
  BY <1>4, KubernetesInd, DiesInd DEF Crash
<1> QED
  BY <1>1, <1>2, <1>3, <1>4 DEF Next, Hang

(* The parts together are an inductive invariant of the API servers. *)
THEOREM Inductive == Spec => []IndInv
  BY InitInd, NextInd, PTL DEF Spec

(* Every variable keeps its type, and a pod that exists was created by a   *)
(* request.                                                                *)
THEOREM TypeCorrect == Spec => []TypeOK
  BY Inductive, PTL DEF IndInv

(* res.mux is held by exactly the handlers that need it: every return      *)
(* path, error path and crash of the process releases what it must.        *)
THEOREM MutexHeld == Spec => []LockHeld
  BY Inductive, PTL DEF IndInv

(* res.fwdsvc names exactly the forwarding services that are open. *)
THEOREM ServicesListed == Spec => []ServiceListed
  BY Inductive, PTL DEF IndInv

(* A migration restores into its own pod, for any number of concurrent     *)
(* deployments and removals, unless a Remove went by.                      *)
THEOREM OwnPodMigrated == Spec => []MigratesOwnPod
<1>1. IndInv => MigratesOwnPod
  BY DEF IndInv, Place, OwnPod, MigratesOwnPod
<1> QED
  BY <1>1, Inductive, PTL

(* The goroutine of DeployFwdLM migrates the forwarding service that the   *)
(* clients use, although it reads res.fwdsvc without the lock.             *)
THEOREM OwnServiceMigrated == Spec => []MigratesItsService
<1>1. IndInv => MigratesItsService
  BY DEF IndInv, OwnService, MigratesItsService, Migrating
<1> QED
  BY <1>1, Inductive, PTL

(* What was removed stays removed until the next deployment, except for    *)
(* the work of a goroutine that was under way.                             *)
THEOREM RemovedForGood == Spec => []RemovedStaysRemoved
<1>1. IndInv => RemovedStaysRemoved
  BY DEF IndInv, Quiet, OverOn, RemovedStaysRemoved
<1> QED
  BY <1>1, Inductive, PTL
=============================================================================
