------------------------------ MODULE SSHTunnel ------------------------------
(***************************************************************************)
(* server/ssh.go: OpenTunnel, the accept loop, and the goroutines of every *)
(* connection, with the two callers of OpenTunnel: LM_DumpService (whose   *)
(* programs are the rsyncs that it starts and waits for) and the command   *)
(* "tunnel".  Bytes are counted; buffers have no limit.  sshd, kernel and  *)
(* the programs at the two ends of a route are external.                   *)
(***************************************************************************)
EXTENDS Naturals

CONSTANTS
    Programs, \* number of local programs, each with one connection to the port
    Bytes,    \* bytes of a request, and of the answer to it
    Faults    \* faults allowed, a subset of FaultKinds

(* "dial", "listen", "accept": the call fails.  "refuse": the dial through *)
(* SSH fails.  "break": the SSH connection breaks.  "remote": the program  *)
(* at the far end, or the port-forward to it, goes away.                   *)
FaultKinds == {"dial", "listen", "accept", "refuse", "break", "remote"}

ASSUME TunnelAssumption ==
    Programs \in Nat /\ Bytes \in Nat \ {0} /\ Faults \subseteq FaultKinds

Conns == 1..Programs
Sides == {"local", "remote"}
Other(s) == IF s = "local" THEN "remote" ELSE "local"

VARIABLES
    caller,    \* "lm" or "cmd"
    call,      \* OpenTunnel: "dial", "listen", "open" (nil returned), "failed"
    closeChan, \* closed
    ssh, ln,   \* sshClientConn, listener: "none", "open", "closed" ("broken")
    loop,      \* accept loop: "none", "check", "accept", "ended"
    route,     \* of a connection: see Routes
    copying,   \* copying[c]: sides that an io.Copy of the route reads from
    prog,      \* local program: "idle", "wait" (for its answer), "ok", "error"
    ended,     \* ended[c]: sides whose program has closed its output
    sent, got  \* by connection and side: bytes sent, and received

tunVars  == <<caller, call, closeChan, ssh, ln, loop>>
connVars == <<route, copying, prog, ended, sent, got>>
vars == <<tunVars, connVars>>

(* "abandoned": localConn is open and nobody has it any more; "collected": *)
(* the garbage collector has closed it.                                    *)
Routes == {"none", "backlog", "dial", "copy", "closed", "abandoned", "collected"}

TypeOK ==
    /\ caller \in {"lm", "cmd"}
    /\ call \in {"dial", "listen", "open", "failed"}
    /\ closeChan \in BOOLEAN
    /\ ssh \in {"none", "open", "broken", "closed"}
    /\ ln \in {"none", "open", "closed"}
    /\ loop \in {"none", "check", "accept", "ended"}
    /\ route \in [Conns -> Routes]
    /\ copying \in [Conns -> SUBSET Sides]
    /\ prog \in [Conns -> {"idle", "wait", "ok", "error"}]
    /\ ended \in [Conns -> SUBSET Sides]
    /\ sent \in [Conns -> [Sides -> 0..Bytes]]
    /\ got \in [Conns -> [Sides -> 0..Bytes]]
    /\ \A c \in Conns, s \in Sides : got[c][s] <= sent[c][Other(s)]

Zero == [c \in Conns |-> [s \in Sides |-> 0]]

Init ==
    /\ caller \in {"lm", "cmd"}
    /\ call = "dial"
    /\ closeChan = FALSE
    /\ ssh = "none" /\ ln = "none" /\ loop = "none"
    /\ route = [c \in Conns |-> "none"]
    /\ copying = [c \in Conns |-> {}]
    /\ prog = [c \in Conns |-> "idle"]
    /\ ended = [c \in Conns |-> {}]
    /\ sent = Zero /\ got = Zero

-----------------------------------------------------------------------------
(* OpenTunnel and its callers. *)

Dial ==
    /\ call = "dial"
    /\ \/ call' = "listen" /\ ssh' = "open"
       \/ "dial" \in Faults /\ call' = "failed" /\ UNCHANGED ssh
    /\ UNCHANGED <<caller, closeChan, ln, loop, connVars>>

Listen ==
    /\ call = "listen"
    /\ \/ call' = "open" /\ ln' = "open" /\ loop' = "check"
       \/ "listen" \in Faults /\ call' = "failed" /\ UNCHANGED <<ln, loop>>
    /\ UNCHANGED <<caller, closeChan, ssh, connVars>>

CloseChan(who, when) ==
    /\ ~closeChan /\ caller = who /\ when
    /\ closeChan' = TRUE
    /\ UNCHANGED <<caller, call, ssh, ln, loop, connVars>>

(* Mutant: Start closes the channel in its serving goroutine only. *)
LMClosesServing == CloseChan("lm", call = "open" /\ \A c \in Conns : prog[c] # "wait")

(* Start closes the channel when it fails, its goroutine when it returns,  *)
(* which it does not while it waits for rsync.                             *)
LMCloses ==
    CloseChan("lm", \/ call = "failed"
                    \/ call = "open" /\ \A c \in Conns : prog[c] # "wait")

(* The command waits for a signal, whatever OpenTunnel returned. *)
CmdCloses == CloseChan("cmd", call \in {"open", "failed"})

CloseClient ==
    /\ closeChan /\ ssh \in {"open", "broken"}
    /\ ssh' = "closed"
    /\ UNCHANGED <<caller, call, closeChan, ln, loop, connVars>>

(* listening is set to false and the listener closed, which resets what    *)
(* waits in its backlog.                                                   *)
CloseListener ==
    /\ closeChan /\ ln = "open"
    /\ ln' = "closed"
    /\ route' = [c \in Conns |-> IF route[c] = "backlog" THEN "closed" ELSE route[c]]
    /\ UNCHANGED <<caller, call, closeChan, ssh, loop, copying, prog, ended, sent, got>>

(* The loop reads listening without synchronisation: it may see the old    *)
(* value long after it was changed.                                        *)
LoopCheck ==
    /\ loop = "check"
    /\ \/ loop' = "accept"
       \/ ln = "closed" /\ loop' = "ended"
    /\ UNCHANGED <<caller, call, closeChan, ssh, ln, connVars>>

LoopAccept(c) ==
    /\ loop = "accept" /\ ln = "open"
    /\ route[c] = "backlog"
    /\ route' = [route EXCEPT ![c] = "dial"]
    /\ loop' = "check"
    /\ UNCHANGED <<caller, call, closeChan, ssh, ln, copying, prog, ended, sent, got>>

LoopAcceptFails ==
    /\ loop = "accept"
    /\ ln = "closed" \/ "accept" \in Faults
    /\ loop' = "ended"
    /\ UNCHANGED <<caller, call, closeChan, ssh, ln, connVars>>

-----------------------------------------------------------------------------
(* The goroutines of a connection. *)

RouteDial(c) ==
    /\ route[c] = "dial" /\ ssh = "open"
    /\ route' = [route EXCEPT ![c] = "copy"]
    /\ copying' = [copying EXCEPT ![c] = Sides]
    /\ UNCHANGED <<tunVars, prog, ended, sent, got>>

(* The goroutine returns and does not close localConn. *)
RouteDialFails(c) ==
    /\ route[c] = "dial"
    /\ ssh # "open" \/ "refuse" \in Faults
    /\ route' = [route EXCEPT ![c] = "abandoned"]
    /\ UNCHANGED <<tunVars, copying, prog, ended, sent, got>>

CloseRoute(c) ==
    /\ closeChan /\ route[c] = "copy"
    /\ route' = [route EXCEPT ![c] = "closed"]
    /\ UNCHANGED <<tunVars, copying, prog, ended, sent, got>>

(* What side s has sent and nobody has read; an end that can be written. *)
Unread(c, s) == sent[c][s] - got[c][Other(s)]
Writable(c, s) ==
    /\ route[c] = "copy"
    /\ IF s = "local" THEN prog[c] = "wait" ELSE ssh = "open" /\ "remote" \notin ended[c]

(* Mutant: a buffer is written again. *)
CopyAgain(c, s) ==
    /\ s \in copying[c] /\ Writable(c, Other(s))
    /\ s = "remote" => ssh = "open"
    /\ got[c][Other(s)] < Bytes
    /\ got' = [got EXCEPT ![c][Other(s)] = @ + 1]
    /\ UNCHANGED <<tunVars, route, copying, prog, ended, sent>>

(* io.Copy from side s: what it reads is written to the other side. *)
Copy(c, s) ==
    /\ s \in copying[c] /\ Writable(c, Other(s))
    /\ s = "remote" => ssh = "open"
    /\ Unread(c, s) > 0
    /\ got' = [got EXCEPT ![c][Other(s)] = @ + 1]
    /\ UNCHANGED <<tunVars, route, copying, prog, ended, sent>>

(* It returns at the end of its input, or when it has something to write   *)
(* and cannot.                                                             *)
CopyReturns(c, s) ==
    /\ s \in copying[c]
    /\ \/ route[c] = "closed"
       \/ s = "remote" /\ ssh # "open"
       \/ s \in ended[c] /\ Unread(c, s) = 0
       \/ Unread(c, s) > 0 /\ ~Writable(c, Other(s))

(* Mutant: as in a forwarder, the end of one direction ends the other. *)
CopyEndsRoute(c, s) ==
    /\ CopyReturns(c, s)
    /\ copying' = [copying EXCEPT ![c] = @ \ {s}]
    /\ route' = [route EXCEPT ![c] = "closed"]
    /\ UNCHANGED <<tunVars, prog, ended, sent, got>>

(* Nothing is closed then. *)
CopyEnds(c, s) ==
    /\ CopyReturns(c, s)
    /\ copying' = [copying EXCEPT ![c] = @ \ {s}]
    /\ UNCHANGED <<tunVars, route, prog, ended, sent, got>>

-----------------------------------------------------------------------------
(* The programs, the garbage collector and the network. *)

(* A program connects and sends its request.  rsyncs are started one after *)
(* the other by the goroutine that closes the channel when it returns.     *)
(* Bound: the users of the command take turns, too.                        *)
Connect(c) ==
    /\ prog[c] = "idle" /\ ln = "open"
    /\ caller = "lm" => ~closeChan
    /\ \A d \in 1..(c - 1) : prog[d] \in {"ok", "error"}
    /\ prog' = [prog EXCEPT ![c] = "wait"]
    /\ route' = [route EXCEPT ![c] = "backlog"]
    /\ sent' = [sent EXCEPT ![c]["local"] = Bytes]
    /\ UNCHANGED <<tunVars, copying, ended, got>>

(* The far end has the whole request. *)
Answers(c) ==
    /\ "remote" \notin ended[c]
    /\ got[c]["remote"] = Bytes /\ sent[c]["remote"] = 0
    /\ sent' = [sent EXCEPT ![c]["remote"] = Bytes]
    /\ UNCHANGED <<tunVars, route, copying, prog, ended, got>>

(* A program closes its output after its last byte, if not before. *)
EndsOutput(c, s) ==
    /\ s \notin ended[c]
    /\ sent[c][s] = Bytes \/ (s = "remote" /\ "remote" \in Faults /\ route[c] = "copy")
    /\ ended' = [ended EXCEPT ![c] = @ \cup {s}]
    /\ UNCHANGED <<tunVars, route, copying, prog, sent, got>>

Answered(c) ==
    /\ prog[c] = "wait" /\ got[c]["local"] = Bytes
    /\ prog' = [prog EXCEPT ![c] = "ok"]
    /\ ended' = [ended EXCEPT ![c] = @ \cup {"local"}]
    /\ UNCHANGED <<tunVars, route, copying, sent, got>>

CutOff(c) ==
    /\ prog[c] = "wait" /\ got[c]["local"] < Bytes
    /\ route[c] \in {"closed", "collected"}
    /\ prog' = [prog EXCEPT ![c] = "error"]
    /\ ended' = [ended EXCEPT ![c] = @ \cup {"local"}]
    /\ UNCHANGED <<tunVars, route, copying, sent, got>>

Collect(c) ==
    /\ route[c] = "abandoned"
    /\ route' = [route EXCEPT ![c] = "collected"]
    /\ UNCHANGED <<tunVars, copying, prog, ended, sent, got>>

Break ==
    /\ "break" \in Faults /\ ssh = "open"
    /\ ssh' = "broken"
    /\ UNCHANGED <<caller, call, closeChan, ln, loop, connVars>>

-----------------------------------------------------------------------------
OpenTunnel == Dial \/ Listen
Loop == LoopCheck \/ LoopAcceptFails \/ \E c \in Conns : LoopAccept(c)
Route(c) == RouteDial(c) \/ RouteDialFails(c)
Program(c) == Answers(c) \/ Answered(c) \/ CutOff(c)

Next ==
    \/ OpenTunnel \/ LMCloses \/ CmdCloses \/ CloseClient \/ CloseListener \/ Loop \/ Break
    \/ \E c \in Conns :
          \/ Route(c) \/ CloseRoute(c)
          \/ Connect(c) \/ Program(c) \/ Collect(c)
          \/ \E s \in Sides : Copy(c, s) \/ CopyEnds(c, s) \/ EndsOutput(c, s)

Spec == Init /\ [][Next]_vars

(***************************************************************************)
(* Fairness: every goroutine goes on, and the programs send and read.  Go  *)
(* collects garbage every two minutes if not before, and closes connections*)
(* that are garbage.  The user of the command owes no signal; that         *)
(* LM_DumpService closes the channel is SourceReleased of LiveMigration.   *)
(***************************************************************************)
Fairness ==
    /\ WF_vars(OpenTunnel) /\ WF_vars(LMCloses)
    /\ WF_vars(CloseClient) /\ WF_vars(CloseListener) /\ WF_vars(Loop)
    /\ \A c \in Conns :
          /\ WF_vars(Route(c)) /\ WF_vars(CloseRoute(c))
          /\ WF_vars(Program(c)) /\ WF_vars(Collect(c))
          /\ \A s \in Sides : WF_vars(Copy(c, s)) /\ WF_vars(CopyEnds(c, s))

FairSpec == Spec /\ Fairness

-----------------------------------------------------------------------------
(* Properties. *)

(* When the channel is closed, or the OpenTunnel of a dump service failed, *)
(* the port, the SSH connection, the accept loop and every route with its  *)
(* goroutines go away, in whatever order the closing goroutines run and    *)
(* whatever is accepted or dialled meanwhile.                              *)
TunnelReleased ==
    (closeChan \/ (caller = "lm" /\ call = "failed")) ~>
        /\ ssh \in {"none", "closed"} /\ ln # "open" /\ loop \in {"none", "ended"}
        /\ \A c \in Conns : route[c] \in {"none", "closed", "collected"} /\ copying[c] = {}

(* The connection of a program is open and nobody will use or close it:    *)
(* the far end went away, or an accept failed and ended the loop.  With    *)
(* LM_DumpService this is for ever: the goroutine that would close the     *)
(* channel waits for the program.                                          *)
Stranded(c) ==
    \/ route[c] = "copy" /\ "remote" \notin copying[c]
    \/ route[c] = "backlog" /\ loop = "ended"

(* A program that connected gets its whole answer, also when it closes its *)
(* output before.  It is cut off only when the dial through SSH failed or  *)
(* the user interrupted the command; the only way to wait for nothing is a *)
(* stranded connection.                                                    *)
ProgramServed ==
    \A c \in Conns : prog[c] = "wait" ~>
        \/ prog[c] = "ok"
        \/ prog[c] = "error" /\ (route[c] = "collected" \/ (caller = "cmd" /\ closeChan))
        \/ Stranded(c)
=============================================================================
