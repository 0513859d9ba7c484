--------------------------- MODULE PerformanceTest ---------------------------
(***************************************************************************)
(* The throughput test of the client (PerformanceTest.throughputTest)      *)
(* against the sample application (app/echo.c, which the image runs): a    *)
(* client that writes a block and then reads its echo, opens a new         *)
(* connection whenever the old one breaks - which is what a migration does *)
(* to it - and prints samples of the bytes that came back; a server with a *)
(* process per connection.                                                 *)
(*                                                                         *)
(* The bytes of a block are all equal, 'X' to have them echoed or 'U' to   *)
(* have each read answered with one byte, and the test byte that opens a   *)
(* connection is an 'X'.  A stream is the number of bytes in it.  up and   *)
(* down are what the two directions of the current connection hold: socket *)
(* buffers, forwarders and network.                                        *)
(***************************************************************************)
EXTENDS Integers

CONSTANTS Block,       \* bytes the client writes before it reads
          UpCap,       \* bytes the path to the server can hold
          DownCap,     \* bytes the path to the client can hold
          SrvBuf,      \* BUF_SIZE of the server
          Resolution,  \* blocks left out between two samples (--res)
          Duration     \* duration of the test, in steps of its clock

ASSUME SizesAssumption ==
    /\ Block \in Nat \ {0} /\ UpCap \in Nat \ {0} /\ DownCap \in Nat \ {0}
    /\ SrvBuf \in Nat \ {0} /\ Resolution \in Nat /\ Duration \in Nat

\* A block fits into the two directions and the byte the server is holding.
ASSUME CapacityAssumption == Block <= UpCap + DownCap + 1

VARIABLES
    pc,          \* control point of the client
    now,         \* the client's clock (getCurrentTimeX)
    upstream,    \* upstreamMode: blocks of 'U'
    sess,        \* number of connections opened so far; the last is current
    first,       \* veryFirstOfSesh
    resStep,
    accum,       \* accumBytes
    exc,         \* exceptWhileSesh
    rem,         \* bytes of the current write that are not yet written
    readSz,
    link,        \* link[s]: what the client's socket of connection s is
    srv,         \* srv[s]: control point of the handler of connection s
    up, held, down,  \* bytes to the server, in its output array, to the client
    unreported   \* history: bytes counted that no sample has shown

sampleVars == <<resStep, accum, exc, unreported>>
pathVars   == <<up, held, down>>
clientVars == <<pc, now, sess, first, rem, readSz, sampleVars>>
vars       == <<clientVars, upstream, link, srv, pathVars>>

Sess == 1..Duration

\* upstream_mode of the server, which the first byte of a read decides: the test
\* byte is echoed and answered before the client writes a block.
SumMode == upstream /\ ~first

\* The current connection carries data.
Live == sess > 0 /\ link[sess] = "up"

Init ==
    /\ pc = "deploy" /\ now = 0
    /\ upstream \in BOOLEAN
    /\ sess = 0 /\ first = TRUE /\ resStep = 0 /\ accum = 0 /\ exc = TRUE
    /\ rem = 0 /\ readSz = 0
    /\ link = [s \in Sess |-> "none"] /\ srv = [s \in Sess |-> "none"]
    /\ up = 0 /\ held = 0 /\ down = 0 /\ unreported = 0

Later == IF now < Duration THEN now + 1 ELSE now

Tick ==
    /\ now < Duration /\ now' = now + 1
    /\ UNCHANGED <<pc, sess, first, rem, readSz, sampleVars, upstream, link, srv, pathVars>>

-----------------------------------------------------------------------------
(* The client *)

\* The deploy request: any answer will do, an exception ends the test.
Deploy ==
    /\ pc = "deploy" /\ pc' \in {"outer", "failed"}
    /\ UNCHANGED <<now, sess, first, rem, readSz, sampleVars, upstream, link, srv, pathVars>>

\* Mutant: a new connection does not set exceptWhileSesh again.
ConnectKeepsFlag ==
    /\ pc = "outer" /\ now < Duration
    /\ sess' = sess + 1 /\ first' = TRUE /\ resStep' = 0 /\ accum' = 0
    /\ link' = [link EXCEPT ![sess + 1] = "up"]
    /\ srv' = [srv EXCEPT ![sess + 1] = "backlog"]
    /\ up' = 0 /\ held' = 0 /\ down' = 0
    /\ pc' = "inner"
    /\ UNCHANGED <<now, rem, readSz, upstream, unreported, exc>>

\* new Socket at the head of the outer loop; the flags of the connection are reset.
Connect ==
    /\ pc = "outer" /\ now < Duration
    /\ sess' = sess + 1 /\ first' = TRUE /\ resStep' = 0 /\ accum' = 0 /\ exc' = TRUE
    /\ link' = [link EXCEPT ![sess + 1] = "up"]
    /\ srv' = [srv EXCEPT ![sess + 1] = "backlog"]
    /\ up' = 0 /\ held' = 0 /\ down' = 0
    /\ pc' = "inner"
    /\ UNCHANGED <<now, rem, readSz, upstream, unreported>>

\* A connect that is refused: only the first failure after a connection is
\* sampled, with no bytes.  The client then sleeps.
ConnectFails ==
    /\ pc = "outer" /\ now < Duration
    /\ first' = TRUE /\ resStep' = 0 /\ accum' = 0 /\ exc' = FALSE
    /\ now' = Later
    /\ UNCHANGED <<pc, sess, rem, readSz, upstream, link, srv, pathVars, unreported>>

\* The handler of IOException: the socket is closed, the bytes of the connection
\* are sampled when it is the first exception since it was opened.
Catch ==
    /\ link' = [link EXCEPT ![sess] = "closed"]
    /\ unreported' = IF exc THEN unreported - accum ELSE unreported
    /\ exc' = FALSE
    /\ now' = Later
    /\ pc' = "outer"
    /\ UNCHANGED <<sess, first, rem, readSz, resStep, accum, upstream, srv, pathVars>>

\* The head of the inner loop: a write begins, of the test byte on a new connection.
StartWrite ==
    /\ pc = "inner" /\ now < Duration
    /\ rem' = IF first THEN 1 ELSE Block
    /\ readSz' = 0
    /\ pc' = "write"
    /\ UNCHANGED <<now, sess, first, sampleVars, upstream, link, srv, pathVars>>

\* The time is up inside the inner loop: leaving the try block closes the socket.
LeaveSession ==
    /\ pc = "inner" /\ now >= Duration
    /\ link' = [link EXCEPT ![sess] = "closed"]
    /\ pc' = "outer"
    /\ UNCHANGED <<now, sess, first, rem, readSz, sampleVars, upstream, srv, pathVars>>

\* out.write blocks until the path has taken everything.
Write(n) ==
    /\ pc = "write" /\ Live
    /\ n <= rem /\ up + n <= UpCap
    /\ up' = up + n /\ rem' = rem - n
    /\ pc' = IF n = rem THEN "read" ELSE "write"
    /\ UNCHANGED <<now, sess, first, readSz, sampleVars, upstream, link, srv, held, down>>

\* The far end has closed: the kernel still takes the bytes until it learns of it.
WriteLost ==
    /\ pc = "write" /\ link[sess] = "fin"
    /\ rem' = 0 /\ pc' = "read"
    /\ UNCHANGED <<now, sess, first, readSz, sampleVars, upstream, link, srv, pathVars>>

WriteThrows == pc = "write" /\ link[sess] \in {"fin", "reset"} /\ Catch

\* The answer to the test byte: its length is not looked at, the first block
\* follows without another look at the clock.
FirstAnswered ==
    /\ first' = FALSE /\ rem' = Block /\ readSz' = 0 /\ pc' = "write"
    /\ UNCHANGED <<now, sess, sampleVars, upstream, link, srv, up, held>>

ReadFirst ==
    /\ pc = "read" /\ first /\ link[sess] \in {"up", "fin"} /\ down > 0
    /\ down' = down - 1
    /\ FirstAnswered

\* Upstream mode reads once and counts the block.
ReadUp(n) ==
    /\ pc = "read" /\ ~first /\ upstream /\ link[sess] \in {"up", "fin"}
    /\ n <= down /\ n <= Block
    /\ down' = down - n
    /\ accum' = accum + Block /\ unreported' = unreported + Block
    /\ pc' = "sample"
    /\ UNCHANGED <<now, sess, first, rem, readSz, resStep, exc, upstream, link, srv, up, held>>

\* Mutant: one read is taken for the whole echo.
ReadEchoOnce(n) ==
    /\ pc = "read" /\ ~first /\ ~upstream /\ link[sess] \in {"up", "fin"}
    /\ n <= down /\ n <= Block - readSz
    /\ down' = down - n
    /\ readSz' = readSz + n
    /\ accum' = accum + n /\ unreported' = unreported + n
    /\ pc' = "sample"
    /\ UNCHANGED <<now, sess, first, rem, resStep, exc, upstream, link, srv, up, held>>

\* Mutant: the loop reads on when the block is complete (readSz <= wroteSz).
ReadEchoPast(n) ==
    /\ pc = "read" /\ ~first /\ ~upstream /\ link[sess] \in {"up", "fin"}
    /\ n <= down /\ n <= Block - readSz
    /\ down' = down - n
    /\ readSz' = readSz + n
    /\ accum' = accum + n /\ unreported' = unreported + n
    /\ pc' = IF readSz + n <= Block THEN "read" ELSE "sample"
    /\ UNCHANGED <<now, sess, first, rem, resStep, exc, upstream, link, srv, up, held>>

\* Otherwise the client reads until the whole block is back.
ReadEcho(n) ==
    /\ pc = "read" /\ ~first /\ ~upstream /\ link[sess] \in {"up", "fin"}
    /\ n <= down /\ n <= Block - readSz
    /\ down' = down - n
    /\ readSz' = readSz + n
    /\ accum' = accum + n /\ unreported' = unreported + n
    /\ pc' = IF readSz + n < Block THEN "read" ELSE "sample"
    /\ UNCHANGED <<now, sess, first, rem, resStep, exc, upstream, link, srv, up, held>>

\* Mutant: the end of the stream does not leave the loop that reads.
ReadEndIgnored ==
    /\ pc = "read" /\ link[sess] = "fin" /\ down = 0
    /\ UNCHANGED vars

\* read returns -1: not noticed for the test byte, counted as a block in upstream
\* mode, the end of the block otherwise.
ReadEnd ==
    /\ pc = "read" /\ link[sess] = "fin" /\ down = 0
    /\ \/ first /\ FirstAnswered /\ UNCHANGED down
       \/ /\ ~first
          /\ accum' = IF upstream THEN accum + Block ELSE accum
          /\ unreported' = IF upstream THEN unreported + Block ELSE unreported
          /\ pc' = "sample"
          /\ UNCHANGED <<now, sess, first, rem, readSz, resStep, exc, upstream, link, srv, pathVars>>

ReadThrows == pc = "read" /\ link[sess] = "reset" /\ Catch

\* Mutant: a sample is due one block later (resolution < resStep).
SampleLate ==
    /\ pc = "sample"
    /\ IF Resolution < resStep
       THEN resStep' = 0 /\ accum' = 0 /\ unreported' = unreported - accum
       ELSE resStep' = resStep + 1 /\ UNCHANGED <<accum, unreported>>
    /\ now' = Later
    /\ pc' = "inner"
    /\ UNCHANGED <<sess, first, rem, readSz, exc, upstream, link, srv, pathVars>>

\* A sample is due when resStep has reached the resolution; one of no bytes is
\* not printed.
Sample ==
    /\ pc = "sample"
    /\ IF Resolution <= resStep
       THEN resStep' = 0 /\ accum' = 0 /\ unreported' = unreported - accum
       ELSE resStep' = resStep + 1 /\ UNCHANGED <<accum, unreported>>
    /\ now' = Later
    /\ pc' = "inner"
    /\ UNCHANGED <<sess, first, rem, readSz, exc, upstream, link, srv, pathVars>>

Finish ==
    /\ pc = "outer" /\ now >= Duration
    /\ pc' = "end"
    /\ UNCHANGED <<now, sess, first, rem, readSz, sampleVars, upstream, link, srv, pathVars>>

-----------------------------------------------------------------------------
(* The server *)

\* accept and fork; a connection may be gone when it is accepted.
Accept(s) ==
    /\ srv[s] = "backlog"
    /\ srv' = [srv EXCEPT ![s] = "read"]
    /\ UNCHANGED <<clientVars, upstream, link, pathVars>>

\* fork fails: the connection is closed, with a reset if the test byte is there.
ForkFails(s) ==
    /\ srv[s] = "backlog"
    /\ srv' = [srv EXCEPT ![s] = "closed"]
    /\ \E end \in {"fin", "reset"} : link' = [link EXCEPT ![s] = IF @ = "up" THEN end ELSE @]
    /\ UNCHANGED <<clientVars, upstream, pathVars>>

\* read returns what has come; the answer is one byte or all of it.
HandlerRead(s, n) ==
    /\ s = sess /\ Live /\ srv[s] = "read"
    /\ n <= up /\ n <= SrvBuf
    /\ up' = up - n
    /\ held' = IF SumMode THEN 1 ELSE n
    /\ srv' = [srv EXCEPT ![s] = "write"]
    /\ UNCHANGED <<clientVars, upstream, link, down>>

\* write blocks until the path has taken everything.
HandlerWrite(s, n) ==
    /\ s = sess /\ Live /\ srv[s] = "write"
    /\ n <= held /\ down + n <= DownCap
    /\ down' = down + n /\ held' = held - n
    /\ srv' = [srv EXCEPT ![s] = IF n = held THEN "read" ELSE "write"]
    /\ UNCHANGED <<clientVars, upstream, link, up>>

\* The connection is over.  A read or write that returns -1 ends the process; a
\* write may still be taken by the kernel.  At the end of the stream read
\* returns 0, as does the write of 0 bytes: the process runs in the loop.
HandlerOver(s) ==
    /\ link[s] # "up"
    /\ \/ srv[s] = "write" /\ srv' = [srv EXCEPT ![s] = "read"]
       \/ srv[s] = "read" /\ srv' = [srv EXCEPT ![s] = "spin"]
       \/ srv[s] \in {"read", "write"} /\ srv' = [srv EXCEPT ![s] = "closed"]
    /\ UNCHANGED <<clientVars, upstream, link, pathVars>>

\* Only a reset ends a process that is past the end of its stream.
HandlerReset(s) ==
    /\ srv[s] = "spin"
    /\ srv' = [srv EXCEPT ![s] = "closed"]
    /\ UNCHANGED <<clientVars, upstream, link, pathVars>>

-----------------------------------------------------------------------------
(* The network, the forwarders, the migration *)

\* The connection breaks: orderly, what is under way to the client still comes,
\* or with a reset.
Break ==
    /\ sess > 0
    /\ \/ link[sess] = "up" /\ link' = [link EXCEPT ![sess] = "fin"]
       \/ link[sess] \in {"up", "fin"} /\ link' = [link EXCEPT ![sess] = "reset"]
    /\ UNCHANGED <<clientVars, upstream, srv, pathVars>>

-----------------------------------------------------------------------------
Client ==
    \/ Deploy \/ Connect \/ ConnectFails \/ StartWrite \/ LeaveSession
    \/ \E n \in 1..Block : Write(n) \/ ReadUp(n) \/ ReadEcho(n)
    \/ WriteLost \/ WriteThrows \/ ReadFirst \/ ReadEnd \/ ReadThrows
    \/ Sample \/ Finish

Handler(s) ==
    \/ Accept(s) \/ ForkFails(s)
    \/ \E n \in 1..SrvBuf : HandlerRead(s, n) \/ HandlerWrite(s, n)
    \/ HandlerOver(s)

Next == Client \/ (\E s \in Sess : Handler(s) \/ HandlerReset(s)) \/ Tick \/ Break

Spec == Init /\ [][Next]_vars

\* Client and server processes run when they can; connections need not break, and
\* one that has ended need not be reset.
FairSpec == Spec /\ WF_vars(Client) /\ \A s \in Sess : WF_vars(Handler(s))

-----------------------------------------------------------------------------
(* Properties *)

\* Types and ranges of the state of client, server and path.
TypeOK ==
    /\ pc \in {"deploy", "outer", "inner", "write", "read", "sample", "end", "failed"}
    /\ now \in 0..Duration /\ upstream \in BOOLEAN
    /\ sess \in 0..Duration /\ first \in BOOLEAN /\ exc \in BOOLEAN
    /\ resStep \in 0..Resolution /\ accum \in Nat /\ unreported \in Nat
    /\ rem \in 0..Block /\ readSz \in 0..Block
    /\ link \in [Sess -> {"none", "up", "fin", "reset", "closed"}]
    /\ srv \in [Sess -> {"none", "backlog", "read", "write", "spin", "closed"}]
    /\ up \in 0..UpCap /\ held \in 0..SrvBuf /\ down \in 0..DownCap

\* When the client begins a block on a connection that works, nothing of the
\* block before is left in the path: no byte is taken for the echo of a later
\* block (the loop of throughputTest that reads until readSz = wroteSz).
EchoAligned ==
    ~upstream /\ Live /\ pc \in {"inner", "sample"} => up + held + down = 0

\* Client and server are never both blocked in a write, although the client
\* writes a whole block before it reads, as long as a block fits the path.  (In
\* upstream mode the answers that it has not read yet take room as well.)
NoStall ==
    ~upstream /\ Live /\ pc = "write" /\ srv[sess] = "write" =>
        up < UpCap \/ down < DownCap

\* A client that waits in in.read on a connection that works has an answer
\* coming; in upstream mode too, where the server answers each of its reads and
\* not each block.
AnswerComes ==
    Live /\ pc = "read" => up + held + down > 0

\* The samples show every byte that was counted exactly once, over any
\* number of exceptions, reconnections and refused connects: only the bytes
\* since the last sample are open, and none when a connection was lost before
\* the time was up.
EveryByteReported ==
    /\ pc \in {"inner", "write", "read", "sample"} => unreported = accum
    /\ pc = "outer" /\ now < Duration => unreported = 0

\* A test that has its blocks echoed ends, whenever and however often the
\* connection breaks or the server cannot fork, and with any number of handler
\* processes that never end.
TestEnds == ~upstream => <>(pc \in {"end", "failed"})
=============================================================================
