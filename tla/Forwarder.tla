------------------------------ MODULE Forwarder ------------------------------
(***************************************************************************)
(* server/fwd.go: the bytes of one forwarder, from Accept to the close of  *)
(* its two connections.  ForwarderService has the same forwarder without   *)
(* its bytes, and LifeCycle shows that this module only does what is       *)
(* allowed there.                                                          *)
(*                                                                         *)
(* A stream is named after the peer it reads from: "client" is upstream,   *)
(* "server" is downstream.  Bytes are counted.  inq[s] is what peer s sent *)
(* and its stream has not read: on the wire or in the receive queue.  The  *)
(* kernel's TCP and the two peers are external.                            *)
(***************************************************************************)
EXTENDS Integers

CONSTANTS
    Bytes,   \* what each peer sends at most
    Cap,     \* bytes a connection holds in one direction
    Rates    \* values of dataRate

Sides == {"client", "server"}
Other(s) == IF s = "client" THEN "server" ELSE "client"

ASSUME BytesAssumption ==
    /\ Bytes \in Nat
    /\ Cap \in Nat \ {0}
    /\ Rates \subseteq Nat

VARIABLES
    rate,      \* dataRate
    conn,      \* "setup", "dial", "stream", "closed": as in ForwarderService
    emergency, \* chanEmergencyClose: "nil", "open", "closed"
    rdClosed,  \* isUpClosed ("client") and isDownClosed ("server")
    pc,        \* of a stream: "check" (upstream only), "read", "write", "done"
    buf,       \* bytes that a stream has read and not written
    closer,    \* Forwarder.Close: "none" (no call), "pending", "waiting", "done"
    peer,      \* "open", "fin" (its output is closed), "gone" (all closed)
    rst,       \* peers whose connection was reset
    chatty,    \* the client never stops sending
    toSend, inq, out, got \* by peer: to be sent, sent, on the way to it, received

ctlVars  == <<rate, conn, emergency, rdClosed, pc, closer>>
peerVars == <<peer, rst, chatty>>
byteVars == <<toSend, inq, buf, out, got>>
vars == <<ctlVars, peerVars, byteVars>>

TypeOK ==
    /\ rate \in Rates
    /\ conn \in {"setup", "dial", "stream", "closed"}
    /\ emergency \in {"nil", "open", "closed"}
    /\ rdClosed \in [Sides -> BOOLEAN]
    /\ pc \in [Sides -> {"check", "read", "write", "done"}]
    /\ closer \in {"none", "pending", "waiting", "done"}
    /\ peer \in [Sides -> {"open", "fin", "gone"}]
    /\ rst \subseteq Sides
    /\ chatty \in BOOLEAN
    /\ toSend \in [Sides -> 0..Bytes] /\ got \in [Sides -> 0..Bytes]
    /\ inq \in [Sides -> 0..Cap] /\ out \in [Sides -> 0..Cap] /\ buf \in [Sides -> 0..Cap]
    /\ \A s \in Sides : buf[s] > 0 => pc[s] = "write"

Zero == [s \in Sides |-> 0]

(* Accept with its clientConn set; whether a migration will call Close. *)
Init ==
    /\ rate \in Rates
    /\ conn = "setup"
    /\ emergency = "nil"
    /\ rdClosed = [s \in Sides |-> FALSE]
    /\ pc = [s \in Sides |-> IF s = "client" THEN "check" ELSE "read"]
    /\ closer \in {"none", "pending"}
    /\ peer = [s \in Sides |-> "open"]
    /\ rst = {}
    /\ chatty \in BOOLEAN
    /\ toSend = [s \in Sides |-> Bytes]
    /\ inq = Zero /\ buf = Zero /\ out = Zero /\ got = Zero

-----------------------------------------------------------------------------
(* The peers. *)

(* Bytes for a connection that the forwarder has closed are answered with  *)
(* a reset, which may destroy what the peer has not read yet.              *)
Reset(s) == \E n \in 0..out[s] : out' = [out EXCEPT ![s] = n]

PeerSends(s) ==
    /\ conn = "stream" \/ (conn = "closed" /\ pc[s] = "done")
    /\ peer[s] = "open" /\ inq[s] < Cap
    /\ IF s = "client" /\ chatty THEN UNCHANGED toSend
       ELSE toSend[s] > 0 /\ toSend' = [toSend EXCEPT ![s] = @ - 1]
    /\ inq' = [inq EXCEPT ![s] = @ + 1]
    /\ IF conn = "closed" THEN Reset(s) ELSE UNCHANGED out
    /\ UNCHANGED <<ctlVars, peerVars, buf, got>>

(* What a chatty client sends is not counted. *)
PeerReceives(s) ==
    /\ peer[s] # "gone" /\ out[s] > 0
    /\ out' = [out EXCEPT ![s] = @ - 1]
    /\ got' = IF s = "server" /\ chatty THEN got ELSE [got EXCEPT ![s] = @ + 1]
    /\ UNCHANGED <<ctlVars, peerVars, toSend, inq, buf>>

(* A peer that closes with bytes unread resets its connection. *)
PeerEnds(s, e) ==
    /\ conn = "stream"
    /\ \/ peer[s] = "open"
       \/ peer[s] = "fin" /\ e = "gone"
    /\ peer' = [peer EXCEPT ![s] = e]
    /\ rst' = IF e = "gone" /\ out[s] > 0 THEN rst \cup {s} ELSE rst
    /\ out' = IF e = "gone" THEN [out EXCEPT ![s] = 0] ELSE out
    /\ UNCHANGED <<ctlVars, chatty, toSend, inq, buf, got>>

-----------------------------------------------------------------------------
(* Accept, closeUpstream, closeDownstream and Close. *)

Setup ==
    /\ conn = "setup"
    /\ conn' = "dial"
    /\ emergency' = IF rate > 0 THEN "open" ELSE "nil"
    /\ UNCHANGED <<rate, rdClosed, pc, closer, peerVars, byteVars>>

DialTCP ==
    /\ conn = "dial"
    /\ conn' \in {"stream", "closed"}
    /\ UNCHANGED <<rate, emergency, rdClosed, pc, closer, peerVars, byteVars>>

(* Mutant: a stream that ends leaves the other one alone. *)
CloseReadSkipped(s) == UNCHANGED <<rdClosed, emergency>>

(* closeUpstream and closeDownstream, on the connection of peer s. *)
CloseRead(s) ==
    /\ rdClosed' = [rdClosed EXCEPT ![s] = TRUE]
    /\ emergency' = IF s = "client" /\ ~rdClosed[s] /\ emergency = "open"
                    THEN "closed" ELSE emergency

(* A stream returns: it closes the reading side of the other one. *)
Finish(s) ==
    /\ pc' = [pc EXCEPT ![s] = "done"]
    /\ buf' = [buf EXCEPT ![s] = 0]
    /\ CloseRead(Other(s))
    /\ UNCHANGED <<rate, conn, closer, peerVars, toSend>>

Close ==
    /\ closer = "pending"
    /\ closer' = "waiting"
    /\ CloseRead("client")
    /\ UNCHANGED <<rate, conn, pc, peerVars, byteVars>>

CloseReturns ==
    /\ closer = "waiting" /\ conn = "closed"
    /\ closer' = "done"
    /\ UNCHANGED <<rate, conn, emergency, rdClosed, pc, peerVars, byteVars>>

(* wg.Wait returns and both connections are closed.  The kernel sends what *)
(* is left and a FIN, or a reset if bytes are unread or SetLinger(0).      *)
Lingers(s) == inq[s] = 0 /\ ~(s = "client" /\ rate > 0)

AcceptReturns ==
    /\ conn = "stream"
    /\ \A s \in Sides : pc[s] = "done"
    /\ conn' = "closed"
    /\ \E n \in [Sides -> 0..Cap] :
          /\ \A s \in Sides : IF Lingers(s) THEN n[s] = out[s] ELSE n[s] <= out[s]
          /\ out' = n
    /\ UNCHANGED <<rate, emergency, rdClosed, pc, closer, peerVars, toSend, inq, buf, got>>

-----------------------------------------------------------------------------
(* upstream and downstream. *)

(* The select on chanEmergencyClose before every Read of upstream. *)
Check ==
    /\ conn = "stream" /\ pc["client"] = "check"
    /\ IF emergency = "closed"
       THEN Finish("client") /\ UNCHANGED <<inq, out, got>>
       ELSE /\ pc' = [pc EXCEPT !["client"] = "read"]
            /\ UNCHANGED <<rate, conn, emergency, rdClosed, closer, peerVars, byteVars>>

ReadData(s) ==
    /\ conn = "stream" /\ pc[s] = "read"
    /\ \E n \in 1..inq[s] :
          /\ buf' = [buf EXCEPT ![s] = n]
          /\ inq' = [inq EXCEPT ![s] = @ - n]
    /\ pc' = [pc EXCEPT ![s] = "write"]
    /\ UNCHANGED <<rate, conn, emergency, rdClosed, closer, peerVars, toSend, out, got>>

(* A FIN comes after the bytes.  After CloseRead the end is what Read      *)
(* returns whenever the receive queue is empty, even if more is on the     *)
(* wire; after a reset, an error.                                          *)
ReadEnds(s) ==
    /\ conn = "stream" /\ pc[s] = "read"
    /\ \/ peer[s] # "open" /\ inq[s] = 0
       \/ rdClosed[s]
       \/ s \in rst
    /\ Finish(s)
    /\ UNCHANGED <<inq, out, got>>

Again(s) == IF s = "client" THEN "check" ELSE "read"

(* Mutant: what the kernel takes at once counts as the whole buffer. *)
WriteShort(s) ==
    LET t == Other(s) IN
    /\ conn = "stream" /\ pc[s] = "write" /\ t \notin rst
    /\ peer[t] # "gone" /\ out[t] < Cap
    /\ buf' = [buf EXCEPT ![s] = @ - 1]
    /\ out' = [out EXCEPT ![t] = @ + 1]
    /\ pc' = [pc EXCEPT ![s] = Again(s)]
    /\ UNCHANGED <<rate, conn, emergency, rdClosed, closer, peerVars, toSend, inq, got>>

(* Write returns when the whole buffer is in the kernel. *)
Write(s) ==
    LET t == Other(s) IN
    /\ conn = "stream" /\ pc[s] = "write" /\ t \notin rst
    /\ peer[t] # "gone" /\ out[t] < Cap
    /\ buf' = [buf EXCEPT ![s] = @ - 1]
    /\ out' = [out EXCEPT ![t] = @ + 1]
    /\ pc' = [pc EXCEPT ![s] = IF buf[s] = 1 THEN Again(s) ELSE "write"]
    /\ UNCHANGED <<rate, conn, emergency, rdClosed, closer, peerVars, toSend, inq, got>>

(* The kernel takes bytes for a peer that has closed; the answer is a reset. *)
WriteToGone(s) ==
    LET t == Other(s) IN
    /\ conn = "stream" /\ pc[s] = "write" /\ t \notin rst
    /\ peer[t] = "gone"
    /\ rst' = rst \cup {t}
    /\ buf' = [buf EXCEPT ![s] = 0]
    /\ pc' = [pc EXCEPT ![s] = Again(s)]
    /\ UNCHANGED <<rate, conn, emergency, rdClosed, closer, peer, chatty, toSend, inq, out, got>>

WriteFails(s) ==
    /\ conn = "stream" /\ pc[s] = "write" /\ Other(s) \in rst
    /\ Finish(s)
    /\ UNCHANGED <<inq, out, got>>

-----------------------------------------------------------------------------
Stream(s) == ReadData(s) \/ ReadEnds(s) \/ Write(s) \/ WriteToGone(s) \/ WriteFails(s)
Accept == Setup \/ DialTCP \/ AcceptReturns

Next ==
    \/ Accept \/ Check \/ Close \/ CloseReturns
    \/ \E s \in Sides :
          \/ Stream(s) \/ PeerSends(s) \/ PeerReceives(s)
          \/ \E e \in {"fin", "gone"} : PeerEnds(s, e)

Spec == Init /\ [][Next]_vars

(***************************************************************************)
(* Fairness: the goroutines run and the peers read what comes (a peer that *)
(* does not is the fault "stall" of ForwarderService).  Nobody has to send *)
(* or to close.                                                            *)
(***************************************************************************)
Fairness ==
    /\ WF_vars(Accept) /\ WF_vars(Check) /\ WF_vars(Close) /\ WF_vars(CloseReturns)
    /\ \A s \in Sides : WF_vars(Stream(s)) /\ WF_vars(PeerReceives(s))

FairSpec == Spec /\ Fairness

-----------------------------------------------------------------------------
(* Properties. *)

(* Every byte that peer s sent has arrived or is on its way: not dropped,  *)
(* and not left in a connection that nobody reads.                         *)
Kept(s) ==
    LET read == Bytes - toSend[s] - inq[s]
    IN  /\ read = buf[s] + out[Other(s)] + got[Other(s)]
        /\ pc[s] = "done" => inq[s] = 0

(* No byte of the server's answer is dropped, also when the server closes  *)
(* right after its last byte and whatever the client sends meanwhile.  The *)
(* exceptions: the client closed its output first (upstream's return ends  *)
(* downstream, the answer under way with it) or reset the connection,      *)
(* Close was called, the rate is limited (SetLinger(0) drops the tail), or *)
(* the server or the forwarder closed on bytes of the client.              *)
AnswerKept ==
    \/ Kept("server")
    \/ peer["client"] # "open" \/ closer # "none" \/ rate > 0
    \/ "server" \in rst \/ inq["client"] > 0

(* No byte of an upload is dropped, also when the client closes its output *)
(* right after it.  The exceptions: the server ended first, Close was      *)
(* called, the client reset the connection, or the forwarder closed on     *)
(* bytes of the server that it had not read.                               *)
UploadKept ==
    \/ chatty \/ Kept("client")
    \/ peer["server"] # "open" \/ closer # "none"
    \/ "client" \in rst \/ inq["server"] > 0

(* CloseRead does not stop a client that goes on sending: only the         *)
(* emergency channel does, which exists with a data rate, and which a      *)
(* Close between the two assignments of Accept does not find.              *)
Outlasts ==
    /\ chatty /\ peer["client"] = "open" /\ peer["server"] # "gone"
    /\ rate = 0 \/ (rdClosed["client"] /\ emergency = "open")

(* The end of one peer, or Close, ends the forwarder and with it the call  *)
(* of Close, whatever is under way in the two directions.                  *)
ForwarderEnds ==
    (closer = "waiting" \/ \E s \in Sides : peer[s] # "open")
        ~> ((conn = "closed" /\ closer # "waiting") \/ Outlasts)

(* ForwarderService describes this forwarder: its steps end and close a    *)
(* stream only when the steps there do, and nothing panics.                *)
One(v) == [c \in {"c"} |-> v]
Life(s) == One(IF pc[s] = "done" THEN "done" ELSE "run")
FS == INSTANCE ForwarderService WITH
        Conns <- {"c"}, Migrations <- {}, Addrs <- {"a"}, SrcAddr <- "a",
        DstPodAddr <- <<>>, DataRates <- Rates, EnvFaults <- {},
        lst <- "parked", lnOpen <- TRUE, chanClose <- FALSE, isSuspended <- TRUE,
        chanSuspend <- 0, serverAddr <- "a", dataRate <- rate, fwdrs <- {"c"},
        conn <- One(conn), addr <- One("a"), rate <- One(rate),
        emergency <- One(emergency), isUpClosed <- One(rdClosed["client"]),
        isDownClosed <- One(rdClosed["server"]), up <- Life("client"),
        down <- Life("server"), peerEnd <- One({s \in Sides : peer[s] # "open"}),
        closer <- One(closer), exec <- <<>>, panicked <- FALSE

LifeCycle == [][FS!Next]_(FS!vars)
=============================================================================
