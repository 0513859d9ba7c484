# Verification of container-cloudlet

container-cloudlet runs applications in Kubernetes pods on cloudlet hosts, forwards the clients of
a host to a pod or to another host, and moves a running application from one host to another with
CRIU while its clients stay connected to the same address. This directory holds TLA+ models of the
server (`server/*.go`), of the client's requests and of the throughput test with the sample
application, the TLC configurations that check them, and TLAPS proofs.

    tlc -config <Module>_<run>.cfg MC<Module>     # a run; <Module> itself if it has no MC module
    tlapm <Module>Proofs.tla                      # the proofs

## 1. The system

| part | state | operations | talks to |
|---|---|---|---|
| API server (`api-server.go`, `io.go`, `types.go`) | listener on :9999 | one goroutine per connection reads one JSON line, dispatches it, answers `_dumpStart` only | API core |
| API core (`api-core.go`) | `resmap`: a `DeployResource` (mutex, forwarding service) per name | `DeployNew`, `DeployFwd`, `DeployLM`, `DeployFwdLM`, `DumpStart`, `Remove` | Kubernetes, forwarding service, live migration; the API server of the source host |
| Kubernetes access (`kube.go`) | none; pods and services are in the cluster | create, get, delete, poll until ready or gone (30 s) | cluster |
| Forwarding service (`fwdsvc.go`) | listener, list of forwarders, `serverAddr`, `dataRate`, `isSuspended` with its condition variable, `chanSuspend`, `chanClose` | start, `Suspend`, `Resume`, `CloseAllForwarders`, `ChangeServerAddr`, `ChangeDataRate`, `Close` | forwarders; called by a migration and by `Remove` |
| Forwarder (`fwd.go`) | two connections, flags of the two directions, emergency channel | `Accept`, `Close`, the two stream goroutines | client, application |
| Restore side of a migration (`lm.go`, `LM_Restore`) | resume-signal listener (:19997), connection to the dump service, port-forward | `exec`: pre-dumps, suspend, final dump, restore, wait, switch | dump service, forwarding service, destination pod |
| Dump service (`lm.go`, `LM_DumpService`) | listener (:19999), tunnel, iteration count | `Start`; serve pre-dump and dump requests | CRIU and rsync in the source pod |
| SSH tunnel, port-forward, exec (`ssh.go`, `kube-portfwd.go`, `kube-exec.go`) | listening ports, close channels | open, asynchronous close, run a command in a pod | pods |
| Client requests, session client (`client/`) | - | command line to `Request`; a terminal session | API server, forwarded port |
| Throughput test (`PerformanceTest.java`) | connection, open bytes, sample counter | write a block, read its echo, reconnect, print samples | forwarded port |
| Sample application (`app/echo.c`) | a handler process per connection | answer with what was read, or with one byte if it begins with 'U' | the migrated workload |
| Start-up, configuration, logging (`main.go`, `hostconf.go`, `ifaceaddr.go`, `logger.go`) | constants | - | - |
| Images (`app*/`) | - | `lmsupport.sh`; a Java echo server that no image starts (its `CMD` is commented out) | |
| Unused code (`bufque.go`, `protocol.go`, `old/`, `test/`) | - | - | - |

What is hard in it:

* goroutines share state under different locks or none: the goroutine that `DeployFwdLM` starts
  holds no lock at all, a forwarder reads `serverAddr` when it first runs, and
  `CloseAllForwarders` meets forwarders in every stage of their life;
* a handshake over a condition variable and a channel of capacity one (`Suspend`/listener);
* fixed TCP ports (:19997, :19998, :19999, the client port) act as locks, and are released
  asynchronously;
* a protocol between two hosts in which the step that removes the original (`criu dump`) comes
  before the step that makes the copy, with commands, hosts and the network failing in between, a
  command that goes on when whoever started it has stopped waiting, a timeout and an error that
  are treated as success, and no deadlines elsewhere;
* a mutex that is held across a request to another host that takes the same kind of mutex;
* byte streams that end in many ways (half-close, close with data unread, reset, linger 0), copied
  by goroutines whose ends close one another (forwarder) or nothing at all (tunnel).

Correct means: the application never runs twice and is never dumped under its clients (migration);
no session continues on the old server after a switch and nobody waits forever (forwarding); a
forwarder and a tunnel drop no byte without a reason and release what they hold; a migration works
on its own pod and its own service, what was removed stays removed, and every request ends (API
core); the client survives any break, counts every byte once and never waits for nothing
(throughput test). `PROJECT.json` lists the hazards one by one, at their lines, with the
properties that cover them.

## 2. Modules

| module | models | composed with |
|---|---|---|
| `ForwarderService` | `fwdsvc.go`, the life of forwarders (`fwd.go`), and the part of `exec` that uses them | refines `SwitchedRoute` |
| `SwitchedRoute` | abstract: sessions and a backend that changes only when no session is left | |
| `Forwarder` | one forwarder (`fwd.go`) with its bytes and its peers | its steps are steps of `ForwarderService` (`LifeCycle`) |
| `LiveMigration` | `lm.go` on both hosts, with `kube-portfwd.go` and the port of `ssh.go` as it uses them | suspending the service is one step here, or never ends |
| `SSHTunnel` | `ssh.go`, the command `tunnel` of `main.go` and the dump service as callers | a tunnel of `LiveMigration`, opened up |
| `APICore` | `api-core.go`, `api-server.go`, `kube.go` | a migration after `_dumpStart`, and a forwarding service, are one step each here, and a migration may hang |
| `CloudletClient` | options of `App.java`, requests of `CloudletClient.java`, fields the server reads | |
| `PerformanceTest` | `PerformanceTest.java` with `echo.c` | migrations are breaks of its connection |
| `MC...` | instances for TLC | |
| `ForwarderServiceProofs`, `ForwarderProofs`, `LiveMigrationProofs`, `SSHTunnelProofs`, `APICoreProofs`, `PerformanceTestProofs` | theorems and their proofs | each extends the module it is about |

The server modules overlap on purpose: each opens up what the next takes as a step.
`ForwarderService` has every lock and channel step of `Suspend`; `LiveMigration` treats it as one
step and has every message and command; `APICore` treats a migration as one step after the answer
to `_dumpStart`, which it needs because that answer depends on a mutex. What one module shows may
never end is a fault "hang" in the next: `Suspend` and `CloseAllForwarders` in `LiveMigration`, a
whole migration in `APICore`.

### ForwarderService

One control point per goroutine: `lst` for the listener, `conn[c]` for the forwarder of connection
`c`, `up`/`down` for its streams, `closer[c]` for the goroutine that `CloseAllForwarders` starts
for it, `exec[m]` for a migration. A step is what happens between two points at which another
goroutine can interfere: `ListenerSend` and `ListenerCheck` are apart because the token is sent
with `condSuspend.L` held; `PushForwarder` and `ForwarderStart` are apart because `serverAddr` is
read by the new goroutine. `panicked` is set by the three "must be suspended" assertions, by a
second `close` of a channel, and by `Close` on a forwarder whose `clientConn` is still nil. Bytes
are left out (`Forwarder` has them); a stream runs, is stuck in a `Write` nobody drains, or is
done.

Two migrations on one service are real, and so are parameterised: `DeployFwdLM` may be requested
again after a failed migration left no pod or an administrator deleted it, and its goroutine reads
`res.fwdsvc` late (`api-core.go:286`).

### Forwarder

The life of one forwarder from the assignment of `clientConn` on, with the same control points as
in `ForwarderService` and a `pc` per stream. A stream is named after the peer it reads from. Bytes
are counted: `toSend` with the peer, `inq` sent and unread, `buf` in the stream's buffer, `out` in
the kernel on the way to the other peer, `got` received. A peer may close its output ("fin") or
everything ("gone"), at any time, with bytes unread or not. What TCP does is external and taken in
the weak form the code can rely on: after `CloseRead` a `Read` returns data while there is some
and may return the end before all that was sent has come; a close with unread data, or with
`SetLinger(0)`, may drop any part of what was not sent yet. `chatty` is a client that never stops
sending. The data rate matters as zero or positive: the sleep itself is only time.

### SSHTunnel

One call of `OpenTunnel` by either caller: the SSH connection, the listener with its accept loop,
and per connection the dial through SSH, the goroutine that waits for the close channel, and two
`io.Copy`. `copying[c]` are the directions still copied. `listening` is read without
synchronisation, so `LoopCheck` may see its old value. A connection whose dial fails is
"abandoned" until the garbage collector closes it ("collected"). The programs at both ends send
`Bytes` and may close their output. The dump service starts its rsyncs one after the other and
closes the channel when it returns, which it does not while it waits for rsync.

### LiveMigration

`exec[m]` follows `LM_Restore.exec`, `svc[m]` the dump service started for it, and `cmd[m]` the
shell command (criu, then rsync) that this service started last in the source pod. The command is
apart from the service because it does not need it: when the stream of `ExecutePod` breaks
(`StreamBreaks`), the message connection breaks under `exec` (`ConnBreaks`) or the source server
dies, the command goes on, and may remove the application after `exec` has returned and resumed
its clients. Such a command is `Abandoned`.

A TCP port is held exactly in some control states, so ports are state functions (`Holding`,
`Serving`), not variables. Bytes on the connection are one slot per direction, `req` and `resp`:
`exec` sends only after the last answer. `srcImg[a][d]` and `dstImg[m][d]` say which migration
wrote the image directory `d`; rsync copies to whatever pod the destination's port leads to, which
is how a stale tunnel can cross two migrations. `resumed[m]` is the channel of the resume signal:
it is closed by a signal, whoever sent it, and also by an error of the listener
(`ResumeAcceptFails`, `lm.go:84`), and `exec` cannot tell the two apart.

Two things never end by themselves. `RsyncHangs` is what `SSHTunnel` calls a stranded connection:
rsync lost its route, and the dump service and `exec` wait for it. `ExecHangs` is a call of `exec`
without a deadline: `ExecutePod`, the answer to `_dumpStart`, the port-forward, and `Suspend` and
`CloseAllForwarders` in the cases `ForwarderService` shows. Each fault is a member of `Faults`; a
crash happens at most once per host (`crashed`).

### APICore

One application name, several hosts. A request is a goroutine with a control point `pc[r]`; each
call of the Kubernetes API is a step, because the goroutine of `DeployFwdLM` interleaves with
handlers. `mux[h]` names the holder: a handler, or the `_dumpStart` part of a migration that
another host runs. `lsn[r]` is the forwarding service that `r` started; "closing" is the time
between `Close` and the release of the port. A migration may hang from `exec` on
(`MigrationHangs`) and so may `_dumpStart`, which reads a file of the pod (`DumpHangs`); a
`DeployLM` and a `_dumpStart` keep the mutex then, and every migration the resume port. `pod[h]`
"running" stands for every phase but Pending (`kube.go:129`), and a pod that is being deleted may
still count as ready. Two history variables state properties: `over[r]` (a `Remove` ran while the
migration `r` was under way) and `removed[h]` (a `Remove` ended without an error and nothing was
deployed since).

### CloudletClient

A command with its options becomes a request (`createAppSampleRequest`), called with the arguments
in the order of its two callers; `Orders` is what the server's handlers make of the fields. The
property compares it with what the options asked for.

### PerformanceTest

The client is one thread, so `pc` follows `throughputTest`; `srv[s]` follows the handler process
of connection `s` in `echo.c`, the program that the image runs (`app/Dockerfile`). All bytes of a
block are equal, so a stream is a number: `rem` to be written, `up` and `down` in the path, `held`
in the server's output, `readSz` back. `UpCap` and `DownCap` stand for everything between the two
programs: socket buffers, forwarders, network. The client chooses the mode: the server looks at
the first byte of each read, which is 'U' in the blocks of upstream mode and 'X' otherwise and in
the test byte (`SumMode`); `DIRECTION` it only prints. A connection breaks at any step: orderly
(`fin`), then reads end with -1 once the path is empty and writes are lost or throw, or with a
reset. A handler whose `read` or `write` returns -1 exits; at the end of the stream both return 0,
and it runs in its loop ("spin") until the connection is reset, which nothing guarantees.
`ForkFails` is what happens when there are too many of them. The clock advances at any time and
with every block and every exception (which sleeps), so `Duration` bounds the number of blocks and
connections. Times and rates in the samples are left out.

## 3. Runs

All runs but `client_deploy` set `CHECK_DEADLOCK FALSE` because the modelled activity is finite
(requests and migrations end, a process may have died); that nobody waits forever is what the
liveness properties say.

| run | instance | checks |
|---|---|---|
| `fwdsvc_safety` | 2 connections, 2 migrations, stalled peers, failing accepts, `Remove` | `QuietDuringDump`: nothing reaches the application from the end of `CloseAllForwarders` to `Resume`; `RouteCurrent`: no session survives a switch; `OnlyNilPanic`: one panic only; `AckNeverBlocks`; `SwitchesRoute`: refinement of `SwitchedRoute`; `TypeOK` |
| `fwdsvc_live` | 1 connection, 2 migrations, all faults | `SuspendAcked`, `CloseAllEnds`: both calls return, except in the cases they name; `BacklogServed`, `ListenerStops` |
| `forwarder` | 2 bytes each way, room for 2, with and without a data rate, with and without `Close` | `AnswerKept`, `UploadKept`: no byte is dropped, except in the cases they name; `ForwarderEnds`; `LifeCycle`: refinement; `TypeOK` |
| `lm_safety` | 2 migrations of one application, crashes, broken streams and connections, hanging calls, slow and failing restores | `AtMostOneInstance`; `LeavesOnlyDumped`: clients leave only an original that is gone; `KilledOnlyInFinalDump`, `MigrationEnds`, `SourceReleased`, `DumpedRestored`, each except in the cases it names; `TypeOK` |
| `lm_chain` | 2 migrations from two hosts, all faults but crashes | `RestoreChain`: a restore finds the images of its own migration, unless a command was abandoned; `SwitchedToRunning`: clients are switched to a process that runs, unless an `exec` went on without a signal |
| `tunnel` | both callers, 2 programs of 2 bytes each way, all faults | `TunnelReleased`: everything goes away when the channel is closed; `ProgramServed`: a program gets its answer or an end; `TypeOK` |
| `api_faults` | 2 requests of any type, 2 hosts, all faults and crashes | `LockHeld`, `ServiceListed`, `RequestsEnd`, `TypeOK` |
| `api_safety` | 3 requests of any type, 2 hosts, slow pods and failing listens | `MigratesOwnPod`, `MigratesItsService`, `RemovedStaysRemoved` |
| `api_remove` | 2 requests | `RemoveRemoves` is violated (finding) |
| `api_switch` | 3 requests | `SwitchesToPod` is violated (finding) |
| `client_deploy` | all types, 3 values per option | `OptionsHonoured` is violated (finding) |
| `perf_echo` | blocks of 4 bytes, path of 2 + 1, clock of 3, both modes | `EchoAligned`, `NoStall`, `AnswerComes`, `EveryByteReported`, `TestEnds`, `TypeOK` |

Bounds. Two migrations are the least that meet in a port, in the service or in a pod; a third
would fail to listen like the second. Two connections let one be closed while another is in the
backlog or starting. The liveness properties of `LiveMigration` are checked without the faults
"criu", "rsync" and "accept", for the size of the graph: criu and rsync fail there as well, when
the application is gone or the route is, and a failed accept only makes `exec` go on. `lm_chain`
has them. Two pre-dumps make a chain with a middle; -1 and 0 are the values with no pre-dump and
the default of one. Three requests are the least for "a deployment, a `Remove`, another
deployment"; two hosts for migrations in both directions. `DataRates` needs zero (no limit) and
one other value. In `perf_echo` a block is as large as `CapacityAssumption` allows, with room for
partial reads and writes on both sides; one byte more and client and server block each other.
Three clock steps allow three connections and samples that span blocks. In `forwarder` two bytes
are the least of which one can be in a buffer and one in the kernel, and a full connection blocks
a `Write` of two. In `tunnel` the users of the command take turns as the rsyncs do: connections
share nothing but the accept loop and the close channel, and the second one meets both in every
state. Symmetry is used over connections, requests and hosts in runs without liveness, where
nothing tells them apart.

What the exceptions in the properties mean. They are behaviours of the code that the runs show and
that a reader should know:

* `SuspendAcked`: a second `Suspend` that comes before the listener woke from the first suspension
  gets no token, and neither does one whose listener has ended; the migration then waits forever
  and keeps port 19997.
* `OnlyNilPanic`: `CloseAllForwarders` panics when it meets a forwarder whose goroutine has not
  run yet.
* `CloseAllEnds`: a peer that never reads blocks the migration.
* `ForwarderEnds`: so does a client that never stops sending, unless a data rate is set; and with
  a data rate when `Close` runs between the two assignments in `Accept`.
* `AnswerKept`: a client that closes its output gives up the rest of the answer; with a data rate
  the tail of an answer is lost even if the server closes in order; what is left unread from one
  peer costs the other's data.
* `ProgramServed`: when the far end goes away or an accept fails, the program's connection stays
  open without a reader. For a dump service this is for good: `MigrationEnds`, `SourceReleased`
  and `DumpedRestored` except a migration whose rsync hangs so.
* `MigrationEnds`: `exec` also keeps port 19997 for good when one of its calls without a deadline
  hangs: `ExecutePod`, the answer to `_dumpStart`, the port-forward, `Suspend`,
  `CloseAllForwarders`. Everything else that fails, breaks or dies makes it return.
* `KilledOnlyInFinalDump`: the command of a final dump whose stream, connection or server is gone
  goes on, and removes the application after `exec` gave up and resumed its clients on it.
* `SwitchedToRunning`: the 5 s timeout and an error of the resume listener count as success, and a
  late signal may be taken by the next migration. `LeavesOnlyDumped` has no exception.
* `RestoreChain`: after a crash of the destination server an old dump can be sent through the
  tunnel it left into the pod of a later migration, and an abandoned command can write into the
  directories of a later migration or send its images to it.
* `DumpedRestored`: after a failed restore, a crash, or an error between dump and restore, nothing
  runs.
* `SourceReleased`: if `exec` never connects to the dump service, its port and tunnel stay.
* `MigratesItsService`, `MigratesOwnPod`, `RemovedStaysRemoved`: a `Remove` that passes the
  goroutine of `DeployFwdLM`; a failed listen (for example because the port of the service that
  was just removed is still bound) makes the migration dereference a nil service.
* `RequestsEnd`: hosts that migrate the same name to each other with `DeployLM` (or one to itself)
  hold each other's mutex forever; a `DeployLM` or a `_dumpStart` that hangs holds that of its
  host, and a `DeployLM` whose `_dumpStart` waits for it that of the next (`NeverReleased`).
* `NoStall` and `TestEnds` are about echoed blocks that fit the path: a larger one (`-c`) blocks
  client and server. In upstream mode the client reads once per block, so answers that it has not
  read yet take room in the path as well, and no bound on the path is stated for it.
* No property says that the handlers of `echo.c` end: they need not.

### Findings

* `api_remove`. The README says of `remove`: "Remove the sample app on server". The goroutine of
  an earlier `DeployFwdLM` can create pod and service after a `Remove` that ended without an
  error.
* `api_switch`. `lm.go:195` announces "Change forwarding dst addr to the restored pod". When two
  requests race for the creation of the service, the loser has no cluster IP; `DeployNew` checks
  this, `DeployFwdLM` does not, and the clients are sent to an address without a host.
* `client_deploy`. `App.java:99` says "-r requires data-rate". With the command `deploy`, `-r`
  becomes the number of pre-dumps and `-i` the data rate; the throughput test passes them in the
  right order.

### Fairness

Weak fairness for each goroutine that can take a step: the Go scheduler runs it. Strong fairness
only for accepting a given queued connection: `AcceptTCP` looks at the backlog before its
deadline, and the backlog is a queue. Commands in pods, dials and calls of the Kubernetes API end
with a result or an error unless the fault "hang" is allowed, which every liveness run of
`LiveMigration` and `APICore` does: a call that may hang always may, and the properties name what
follows. Nothing that breaks has to break. Not assumed: that clients connect, close or read, that
requests or migrations come, that a pod becomes ready before the timeout, that a migration ends
whose forwarding service was closed by `Remove`. Two assumptions deserve a word. rsync into a
tunnel whose far end refuses the connection ends because the abandoned local connection
(`ssh.go:77`) is closed when it is collected: Go collects every two minutes if not before. Nothing
ends an rsync whose route is stranded: the code has no deadline, and a timeout of the kubelet for
idle port-forwards is outside it. In `ForwarderService` a stream whose reading side was closed
ends, which `Forwarder` shows but for the client that never stops sending. In `Forwarder` and
`SSHTunnel` peers read what comes; nobody has to send, to close or to interrupt the command. And a
peer that vanishes without a packet is not modelled: a server process that dies closes its
connections. In `PerformanceTest` the client and each handler process run when they can; that a
connection breaks or is reset or that the clock advances by itself is not assumed.

## 4. Proofs

TLC shows the properties on the instances above; TLAPS shows the following for any sets of
connections, migrations, sources, applications, requests and hosts, any addresses, rates, sizes
and iteration counts, and any subset of the faults. Every invariant and action property of the
passing runs, and both refinements, are theorems. Each inductive invariant was checked with TLC
before it was proved.

`ForwarderServiceProofs`, from `ConstantsAssumption` only:

* `TypeCorrect`, and `Inductive`: `IndInv` is an invariant. The properties are not inductive by
  themselves. `QuietDuringDump` needs to know that the listener is parked while a migration is
  past its acknowledgement (`ListenerParked`), for which the token in the channel must belong to
  the migration that waits (`TokenForWaiter`), for which only one migration can be between listen
  and return (`PortMutex`) and `isSuspended` must be its (`SuspendedBy`). That no forwarder is
  left needs every live one in the list (`LiveListed`) and a closer for each while
  `CloseAllForwarders` waits (`ClosersCover`). `EmergencyOnce` excludes the double close.
* `DumpIsQuiet`, `RouteIsCurrent`, `PanicsOnlyOnNil`, `AckIsNonBlocking` follow.
* `ImplementsRoute`: the specification implements `SwitchedRoute` with `backend <- serverAddr` and
  `sessions` the running forwarders with their addresses.

`ForwarderProofs`, from `BytesAssumption`:

* `Inductive`. `AnswerKept` and `UploadKept` speak of a stream that is done; what makes them true
  is a balance of the bytes of each direction (`AnswerWay`, `UploadWay`): what the peer has left,
  what is in the kernel, in the buffer and received is all there, until the final close drops some
  of it because bytes of the other peer were left unread. For that, the stream that ends first
  must be the one whose peer ended, and have read everything; `ClosedBy` says who closed a reading
  side, `ResetGone` that only a peer that has gone resets, `Holds` that a stream holds bytes
  exactly while it writes, and `Bounded` that no byte is made up, which is what `TypeOK` needs.
* `TypeCorrect`, `AnswersKept`, `UploadsKept` follow.
* `Refines`: `LifeCycle`, one lemma per kind of step (accept, close, peer, stream). A step that
  moves bytes maps to a stutter; a stream that ends maps to the end of one whose reading side was
  closed or whose peer is not open, which is where `IndInv` is needed. The mapping gives
  `ForwarderService` no panic, so the proof also shows that the forwarder's own steps cannot
  panic.

`LiveMigrationProofs`, from `LMAssumption`, in five layers:

* `IndInv`, for the messages: one is under way at most and only while `exec` waits or is gone
  (`OneMessage`); a final dump is served only to an `exec` that waits for it, is dead or was cut
  off from it (`DumpForWaiter`); a service that waits has a command, and a command that nobody
  waits for leaves no other message (`CommandKnown`); the final image exists only when the
  original is gone, only one migration ever writes it, and only that one restores
  (`FinalMeansDumped`, `OkMeansFinal`). From it `NoSplitBrain` (`AtMostOneInstance`, with every
  fault and crash).
* `Counters`, `Directories`, `Holds` and `OneHolder`, for the control: the loop counter of the
  dump service is one ahead of that of `exec`, or two while an answer is unread, so pre-dump `d`
  goes into directory `d`; what an `exec` that returned has left behind; the listener on port
  19997 makes the migrations to a host exclude each other. With it `TypeCorrect` and the action
  property `KillsOnlyForFinalDump`.
* `Signals`: as long as every `exec` has waited for a signal and the destination lives, the `exec`
  whose process sends the resume signal still listens and is the only one, so a signal is never
  taken by another one. From it `SwitchesToRunning`.
* `Chain`: as long as the destination lives and no command was abandoned (`Calm`), a dump service
  at work belongs to the `exec` that holds the port, and so does the only open port-forward; each
  answer adds one directory to the chain in both pods, and nobody else writes there, not even an
  earlier migration of the same application that left directories of the same name. From it
  `RestoresOwnChain`.
* What holds without the exceptions of the last two: `NothingLost`, the safety half of
  `DumpedRestored` (an application that was dumped has a migration that owns its final image, and
  which waits for the answer, has it or is gone), and `LeavesNoRunningOriginal`
  (`LeavesOnlyDumped`: clients are never switched away from an original that runs, also when a
  timeout or an accept error counts as a signal).

`SSHTunnelProofs`, from `TunnelAssumption`: `TypeCorrect` (no end receives what the other has not
sent), and two facts no run states by themselves:

* `OkMeansDelivered`: a program that ends well had its whole request delivered and its whole
  answer returned (`InOrder`);
* `RefusedBeforeAnyByte`: an rsync of the dump service is cut off only when its dial through SSH
  failed, and then nothing of it has passed. This is the safety half of `ProgramServed`. It needs
  `ClosedIdle` (the dump service never closes the channel under an rsync that waits: the reason
  also why nothing frees a stranded one), `Opened`, `ClosedByChan` and `BytesRouted`.

`APICoreProofs`, from `APIAssumption`, which says among other things that nil is neither a request
nor a holder of a mutex. The runs check the properties about migrations and `Remove` with slow
pods and failing listens only, for their size; the proofs are for every fault, crashes included.

* `Inductive`. `Place` says where each type of request can be and who has a new pod, `Trace` that
  a request that has not arrived left nothing; with `LockHeld` and `ServiceListed` that is the
  frame. `OwnPod` and `OwnService` are `MigratesOwnPod` and `MigratesItsService` from the moment
  the pod or service exists, which is while the goroutine of `DeployFwdLM` runs without a lock.
  They hold because every `Remove` that has the lock has marked the goroutines under way
  (`Marked`). `Removing` says what a `Remove` has done so far, and `Quiet` that after it nobody
  deploys but goroutines it marked.
* A step of a goroutine past its `Lock` is first shown to be a `Move`: it leaves the other
  requests alone, and unlocks what it held, and nothing else, exactly when it leaves the guarded
  section (`StepMoves`). The conjuncts are then proved from `Move` and from what the step does to
  the cluster.
* `TypeCorrect`, `MutexHeld`, `ServicesListed`, `OwnPodMigrated`, `OwnServiceMigrated`,
  `RemovedForGood` follow.

`PerformanceTestProofs`, from `SizesAssumption` and, for `NeverStalls` only, `CapacityAssumption`:

* `Inductive`: `Balance` says where each byte of the round is, `Round` how far it is,
  `HandlerHolds` that the server holds bytes exactly while it writes; `Unanswered` is their
  counterpart for upstream mode, where sums do not balance; `SessionOpen` and `Counted` say what
  the exception handler finds, and `SessionClock` that there are never more than `Duration`
  connections.
* `TypeCorrect`, `NeverStalls`, `StaysAligned`, `AnswerAlwaysComes`, `AllBytesReported` follow.
  `NeverStalls` is the sum of `Balance` when both are blocked: `UpCap + DownCap`, one byte held
  and one to be written.

Only model-checked: the liveness properties (`SuspendAcked`, `CloseAllEnds`, `BacklogServed`,
`ListenerStops`, `ForwarderEnds`, `MigrationEnds`, `SourceReleased`, `DumpedRestored`,
`TunnelReleased`, `ProgramServed`, `RequestsEnd`, `TestEnds`), because the prover has no rules for
fairness and `ENABLED`. The properties of the three runs that end in a counterexample are false
and have no theorem.

## 5. Not modelled

The shutdown of the API server's listener (the process exits 100 ms later, which is `Crash`);
several names on one host (they share nothing but the client port, whose use by others is the
fault "port"); what runs inside a pod that `DeployNew` finds under its name: it takes a restore
pod of a failed migration for the application, and no document says otherwise; the client's
terminal session, its plain sending of a line, and the options that pass through unchanged; the
code nothing calls (`bufque.go`, `protocol.go`, `old/`, `GetPodEnv`, `SetPodEnv`), for which there
is no use from which to say what is correct; the Java echo server, which no image starts. In
`PerformanceTest`, blocks of no bytes (`-c 0`). Start-up, configuration and logging keep no state
that matters later. CRIU, rsync, the kubelet and the kernel's sockets are external, modelled by
what the code relies on.

## 6. Plan

The modules and runs are complete, and so are the proofs of what the runs check, but for liveness.
What can still be proved are the safety halves of liveness properties, as `RefusedBeforeAnyByte`
is one of `ProgramServed` and `NothingLost` of `DumpedRestored`: that a migration which returns
leaves no tunnel open but in the case `SourceReleased` names, and that a `Suspend` waits in vain
only in the two cases of `SuspendAcked`.
