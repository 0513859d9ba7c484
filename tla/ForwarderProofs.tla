-------------------------- MODULE ForwarderProofs --------------------------
(***************************************************************************)
(* Proofs about Forwarder, for any number of bytes, any capacity of the    *)
(* connections and any data rates.                                         *)
(***************************************************************************)
EXTENDS Forwarder, TLAPS

(* A stream holds bytes exactly while it writes; only upstream has a check.*)
Holds ==
    /\ \A s \in Sides : pc[s] = "write" <=> buf[s] > 0
    /\ pc["server"] # "check"

(* No byte is made up: what peer s has left to send, what is under way and *)
(* what has arrived is at most what it started with.                       *)
Bounded ==
    /\ toSend["server"] + inq["server"] + buf["server"] + out["client"] + got["client"] <= Bytes
    /\ ~chatty =>
          toSend["client"] + inq["client"] + buf["client"] + out["server"] + got["server"] <= Bytes
    /\ chatty => got["server"] = 0

(* A connection is reset only after its peer has closed. *)
ResetGone == \A s \in rst : peer[s] = "gone"

(* Who has closed the reading side of a stream, and when the emergency     *)
(* channel is closed.                                                      *)
ClosedBy ==
    /\ rdClosed["server"] => pc["client"] = "done"
    /\ rdClosed["client"] => pc["server"] = "done" \/ closer # "none"
    /\ emergency # "nil" => rate > 0
    /\ emergency = "closed" => rdClosed["client"]

(* Nothing but the server ends the session, and then a stream that is done *)
(* has read everything.  Bytes are dropped by the final close only.        *)
AnswerWay ==
    peer["client"] = "open" /\ closer = "none" /\ rate = 0 /\ "server" \notin rst =>
        /\ pc["server"] = "done" => peer["server"] # "open" /\ inq["server"] = 0
        /\ pc["client"] = "done" => pc["server"] = "done"
        /\ \/ toSend["server"] + inq["server"] + buf["server"] + out["client"] + got["client"] = Bytes
           \/ conn = "closed" /\ inq["client"] > 0

UploadWay ==
    peer["server"] = "open" /\ closer = "none" /\ ~chatty /\ "client" \notin rst =>
        /\ pc["client"] = "done" => peer["client"] # "open" /\ inq["client"] = 0
        /\ pc["server"] = "done" => pc["client"] = "done"
        /\ \/ toSend["client"] + inq["client"] + buf["client"] + out["server"] + got["server"] = Bytes
           \/ conn = "closed" /\ inq["server"] > 0

IndInv ==
    TypeOK /\ Holds /\ Bounded /\ ResetGone /\ ClosedBy /\ AnswerWay /\ UploadWay

-----------------------------------------------------------------------------
(* A session that has just been accepted. *)
LEMMA IndInit == Init => IndInv
  BY BytesAssumption
  DEF BytesAssumption, Init, Zero, IndInv, TypeOK, Holds, Bounded, ResetGone, ClosedBy, AnswerWay,
       UploadWay, Sides, Other, ctlVars, peerVars, byteVars

(* What closeUpstream and closeDownstream leave behind. *)
LEMMA CloseReadEffect ==
  ASSUME rdClosed \in [Sides -> BOOLEAN], emergency \in {"nil", "open", "closed"},
         NEW s \in Sides, CloseRead(s)
  PROVE  /\ rdClosed' \in [Sides -> BOOLEAN]
         /\ emergency' \in {"nil", "open", "closed"}
         /\ rdClosed'[s]
         /\ \A t \in Sides : t # s => (rdClosed'[t] <=> rdClosed[t])
         /\ emergency' = "closed" => emergency = "closed" \/ (s = "client" /\ emergency = "open")
<1>1. /\ rdClosed' \in [Sides -> BOOLEAN] /\ rdClosed'[s]
      /\ \A t \in Sides : t # s => (rdClosed'[t] <=> rdClosed[t])
  BY Zenon DEF CloseRead
<1>2. /\ emergency' \in {"nil", "open", "closed"}
      /\ emergency' = "closed" => emergency = "closed" \/ (s = "client" /\ emergency = "open")
  BY Zenon DEF CloseRead
<1> QED
  BY <1>1, <1>2

(* A stream is closed by the end of the other one, or upstream by Close. *)
LEMMA ClosedByKept ==
  ASSUME TypeOK, ClosedBy, NEW s \in Sides, CloseRead(s), rate' = rate,
         \A t \in Sides : pc[t] = "done" => pc'[t] = "done",
         closer # "none" => closer' # "none",
         pc'[Other(s)] = "done" \/ (s = "client" /\ closer' # "none")
  PROVE  ClosedBy'
<1>1. /\ rdClosed'[s]
      /\ \A t \in Sides : t # s => (rdClosed'[t] <=> rdClosed[t])
      /\ emergency' = "closed" => emergency = "closed" \/ (s = "client" /\ emergency = "open")
      /\ emergency' # "nil" => emergency # "nil"
  BY Zenon, CloseReadEffect DEF TypeOK, CloseRead
<1>2. "client" \in Sides /\ "server" \in Sides /\ (s = "client" \/ s = "server")
  BY DEF Sides
<1>3. Other("client") = "server" /\ Other("server") = "client"
  BY DEF Other
<1>4. emergency' # "nil" => (rate > 0)'
  BY <1>1 DEF ClosedBy
<1>5. CASE s = "client"
  <2>1. rdClosed'["client"] /\ (rdClosed'["server"] <=> rdClosed["server"])
    BY <1>1, <1>2, <1>5
  <2>2. pc'["server"] = "done" \/ closer' # "none"
    BY <1>3, <1>5
  <2> QED
    BY <1>2, <1>4, <2>1, <2>2, Zenon DEF ClosedBy
<1>6. CASE s = "server"
  <2>1. rdClosed'["server"] /\ (rdClosed'["client"] <=> rdClosed["client"])
    BY <1>1, <1>2, <1>6
  <2>2. pc'["client"] = "done"
    BY <1>3, <1>6
  <2>3. emergency' = "closed" => emergency = "closed"
    BY <1>1, <1>6
  <2> QED
    BY <1>2, <1>4, <2>1, <2>2, <2>3, Zenon DEF ClosedBy
<1> QED
  BY <1>2, <1>5, <1>6

(* The peers. *)
LEMMA IndPeer ==
  ASSUME IndInv, NEW s \in Sides,
         PeerSends(s) \/ PeerReceives(s) \/ \E e \in {"fin", "gone"} : PeerEnds(s, e)
  PROVE  IndInv'
<1> USE BytesAssumption
    DEF BytesAssumption, IndInv, TypeOK, Holds, Bounded, ResetGone, ClosedBy, AnswerWay,
       UploadWay, Sides, Other, ctlVars, peerVars, byteVars
<1>1. CASE PeerSends(s)
  BY <1>1 DEF PeerSends, Reset
<1>2. CASE PeerReceives(s)
  BY <1>2 DEF PeerReceives
<1>3. CASE \E e \in {"fin", "gone"} : PeerEnds(s, e)
  BY <1>3 DEF PeerEnds
<1> QED
  BY <1>1, <1>2, <1>3

(* Accept and Close. *)
LEMMA IndAccept ==
  ASSUME IndInv, Accept \/ Close \/ CloseReturns
  PROVE  IndInv'
<1> USE BytesAssumption
    DEF BytesAssumption, IndInv, TypeOK, Holds, Bounded, ResetGone, ClosedBy, AnswerWay,
       UploadWay, Sides, Other, ctlVars, peerVars, byteVars
<1>1. CASE Setup
  BY <1>1 DEF Setup
<1>2. CASE DialTCP
  BY <1>2 DEF DialTCP
<1>3. CASE AcceptReturns
  BY <1>3 DEF AcceptReturns, Lingers
<1>4. CASE Close
  <2>1. CloseRead("client")
    BY <1>4 DEF Close
  <2>2. /\ rdClosed' \in [Sides -> BOOLEAN]
        /\ emergency' \in {"nil", "open", "closed"}
    BY <2>1, CloseReadEffect
  <2>3. ClosedBy'
    BY <1>4, <2>1, ClosedByKept DEF Close
  <2> QED
    BY <1>4, <2>2, <2>3 DEF Close
<1>5. CASE CloseReturns
  BY <1>5 DEF CloseReturns
<1> QED
  BY <1>1, <1>2, <1>3, <1>4, <1>5 DEF Accept

(* A stream ends: at the end of its peer's bytes, because its reading side *)
(* was closed, or after a reset.                                           *)
LEMMA IndFinish ==
  ASSUME IndInv, NEW s \in Sides, Finish(s), UNCHANGED <<inq, out, got>>,
         \/ /\ pc[s] # "write"
            /\ (peer[s] # "open" /\ inq[s] = 0) \/ rdClosed[s] \/ s \in rst
         \/ Other(s) \in rst
  PROVE  IndInv'
<1>1. CloseRead(Other(s)) /\ Other(s) \in Sides /\ Other(Other(s)) = s
  BY DEF Finish, Other, Sides
<1>2. /\ rdClosed' \in [Sides -> BOOLEAN]
      /\ emergency' \in {"nil", "open", "closed"}
  BY <1>1, CloseReadEffect DEF IndInv, TypeOK
<1>3. TypeOK'
  <2>1. pc' = [pc EXCEPT ![s] = "done"] /\ buf' = [buf EXCEPT ![s] = 0]
    BY DEF Finish
  <2>2. buf' \in [Sides -> 0..Cap] /\ \A t \in Sides : buf'[t] > 0 => pc'[t] = "write"
    BY <2>1, BytesAssumption DEF BytesAssumption, IndInv, TypeOK, Sides
  <2>3. pc' \in [Sides -> {"check", "read", "write", "done"}]
    BY <2>1 DEF IndInv, TypeOK
  <2>4. UNCHANGED <<rate, conn, closer, peer, rst, chatty, toSend, inq, out, got>>
    BY DEF Finish, peerVars
  <2> QED
    BY <1>2, <2>2, <2>3, <2>4 DEF IndInv, TypeOK
<1>4. Holds'
  BY DEF Finish, IndInv, TypeOK, Holds, Sides
<1>5. Bounded'
  BY BytesAssumption DEF BytesAssumption, Finish, IndInv, TypeOK, Bounded, peerVars, Sides
<1>6. ResetGone'
  BY DEF Finish, IndInv, ResetGone, peerVars
<1>7. ClosedBy'
  <2>1. \A t \in Sides : pc[t] = "done" => pc'[t] = "done"
    BY DEF Finish, IndInv, TypeOK
  <2>2. pc'[s] = "done" /\ rate' = rate /\ closer' = closer
    BY DEF Finish, IndInv, TypeOK
  <2> QED
    BY <1>1, <2>1, <2>2, ClosedByKept DEF IndInv
<1>8. rdClosed[s] => pc[Other(s)] = "done" \/ (s = "client" /\ closer # "none")
  BY Zenon DEF IndInv, ClosedBy, Other, Sides
<1>9. AnswerWay'
  BY <1>8, BytesAssumption
  DEF BytesAssumption, Finish, IndInv, TypeOK, Holds, ResetGone, AnswerWay, peerVars, Sides, Other
<1>10. UploadWay'
  BY <1>8, BytesAssumption
  DEF BytesAssumption, Finish, IndInv, TypeOK, Holds, ResetGone, UploadWay, peerVars, Sides, Other
<1> QED
  BY <1>3, <1>4, <1>5, <1>6, <1>7, <1>9, <1>10 DEF IndInv

(* The streams. *)
LEMMA IndStream ==
  ASSUME IndInv, NEW s \in Sides, Stream(s) \/ Check
  PROVE  IndInv'
<1> USE BytesAssumption DEF BytesAssumption
<1>1. CASE Check
  <2>1. CASE emergency = "closed"
    <3>1. rdClosed["client"]
      BY <2>1, Zenon DEF IndInv, ClosedBy
    <3>2. /\ "client" \in Sides /\ Finish("client")
          /\ UNCHANGED <<inq, out, got>> /\ pc["client"] # "write"
      BY <1>1, <2>1 DEF Check, Sides
    <3> QED
      BY <3>1, <3>2, IndFinish
  <2>2. CASE emergency # "closed"
    BY <1>1, <2>2 DEF Check, IndInv, TypeOK, Holds, Bounded, ResetGone, ClosedBy, AnswerWay,
       UploadWay, Sides, peerVars, byteVars
  <2> QED
    BY <2>1, <2>2
<1>2. CASE ReadData(s)
  BY <1>2 DEF ReadData, IndInv, TypeOK, Holds, Bounded, ResetGone, ClosedBy, AnswerWay,
       UploadWay, Sides, peerVars
<1>3. CASE ReadEnds(s)
  <2>1. Finish(s) /\ UNCHANGED <<inq, out, got>> /\ pc[s] # "write"
    BY <1>3 DEF ReadEnds
  <2>2. (peer[s] # "open" /\ inq[s] = 0) \/ rdClosed[s] \/ s \in rst
    BY <1>3, Zenon DEF ReadEnds
  <2> QED
    BY <2>1, <2>2, IndFinish
<1>4. CASE Write(s)
  BY <1>4 DEF Write, Again, IndInv, TypeOK, Holds, Bounded, ResetGone, ClosedBy, AnswerWay,
       UploadWay, Sides, Other, peerVars
<1>5. CASE WriteToGone(s)
  BY <1>5 DEF WriteToGone, Again, IndInv, TypeOK, Holds, Bounded, ResetGone, ClosedBy, AnswerWay,
       UploadWay, Sides, Other
<1>6. CASE WriteFails(s)
  BY <1>6, IndFinish DEF WriteFails
<1> QED
  BY <1>1, <1>2, <1>3, <1>4, <1>5, <1>6 DEF Stream

(* Every step keeps the inductive invariant. *)
LEMMA IndStep == IndInv /\ [Next]_vars => IndInv'
<1> SUFFICES ASSUME IndInv, [Next]_vars PROVE IndInv'
  OBVIOUS
<1>1. CASE UNCHANGED vars
  BY <1>1 DEF vars, ctlVars, peerVars, byteVars, IndInv, TypeOK, Holds, Bounded, ResetGone,
       ClosedBy, AnswerWay, UploadWay
<1>2. CASE Next
  BY <1>2, IndAccept, IndStream, IndPeer DEF Next, Sides
<1> QED
  BY <1>1, <1>2

(* The conjunction of all parts is an inductive invariant of the forwarder. *)
THEOREM Inductive == Spec => []IndInv
  BY IndInit, IndStep, PTL DEF Spec

(* The variables of the forwarder keep their types: counters stay within   *)
(* the bytes sent and the capacity of a connection, and only a stream in   *)
(* Write holds bytes.                                                      *)
THEOREM TypeCorrect == Spec => []TypeOK
  BY Inductive, PTL DEF IndInv

(* No byte of the server's answer is dropped, for any size of the answer   *)
(* and of the buffers, apart from the exceptions AnswerKept names.         *)
THEOREM AnswersKept == Spec => []AnswerKept
<1>1. IndInv => AnswerKept
  BY BytesAssumption DEF BytesAssumption, IndInv, TypeOK, AnswerWay, AnswerKept, Kept, Sides, Other
<1> QED
  BY <1>1, Inductive, PTL

(* No byte of an upload is dropped, with the exceptions of UploadKept. *)
THEOREM UploadsKept == Spec => []UploadKept
<1>1. IndInv => UploadKept
  BY BytesAssumption DEF BytesAssumption, IndInv, TypeOK, UploadWay, UploadKept, Kept, Sides, Other
<1> QED
  BY <1>1, Inductive, PTL

-----------------------------------------------------------------------------
(* ForwarderService sees one connection, "c". *)

(* The functions on that one connection. *)
LEMMA OneExcept ==
  ASSUME NEW v, NEW w
  PROVE  [One(v) EXCEPT !["c"] = w] = One(w) /\ One(v)["c"] = v
  BY DEF One

(* The steps of Accept are those of the forwarder of ForwarderService. *)
LEMMA LifeAccept ==
  ASSUME IndInv, Accept \/ CloseReturns
  PROVE  FS!Forwarder("c") \/ FS!Closer("c")
<1>1. CASE Setup
  <2>1. FS!ForwarderSetup("c")
    BY <1>1, OneExcept
    DEF Setup, FS!ForwarderSetup, FS!lnVars, FS!suspVars, FS!destVars, FS!argVars,
       Life, peerVars, byteVars
  <2> QED
    BY <2>1 DEF FS!Forwarder
<1>2. CASE DialTCP
  <2>1. FS!DialOk("c") \/ FS!DialFails("c")
    BY <1>2, OneExcept
    DEF DialTCP, FS!DialOk, FS!DialFails, FS!lnVars, FS!suspVars, FS!destVars, FS!argVars,
       FS!strmVars, Life, peerVars, byteVars
  <2> QED
    BY <2>1 DEF FS!Forwarder
<1>3. CASE AcceptReturns
  <2>1. FS!ForwarderDone("c")
    BY <1>3, OneExcept
    DEF AcceptReturns, FS!ForwarderDone, FS!lnVars, FS!suspVars, FS!destVars, FS!argVars,
       FS!strmVars, Life, Sides, peerVars, byteVars
  <2> QED
    BY <2>1 DEF FS!Forwarder
<1>4. CASE CloseReturns
  <2>1. FS!CloserReturns("c")
    BY <1>4, OneExcept
    DEF CloseReturns, FS!CloserReturns, FS!lnVars, FS!suspVars, FS!destVars, FS!argVars,
       FS!strmVars, Life, peerVars, byteVars
  <2> QED
    BY <2>1 DEF FS!Closer
<1> QED
  BY <1>1, <1>2, <1>3, <1>4 DEF Accept

(* closeUpstream on the one connection. *)
LEMMA LifeCloseUpstream ==
  ASSUME IndInv, rdClosed'["client"] = TRUE,
         emergency' = IF ~rdClosed["client"] /\ emergency = "open" THEN "closed" ELSE emergency
  PROVE  FS!CloseUpstream("c")
<1>1. /\ One(rdClosed["client"])["c"] = rdClosed["client"]
      /\ One(emergency)["c"] = emergency /\ One(conn)["c"] = conn
  BY OneExcept
<1>2. One(rdClosed["client"])' = [One(rdClosed["client"]) EXCEPT !["c"] = TRUE]
  BY OneExcept, Zenon DEF One
<1>3. One(emergency)' = [One(emergency) EXCEPT !["c"] =
                           IF ~One(rdClosed["client"])["c"] /\ One(emergency)["c"] = "open"
                           THEN "closed" ELSE One(emergency)["c"]]
  <2>1. One(emergency)' = [One(emergency) EXCEPT !["c"] = emergency']
    BY DEF One
  <2> QED
    BY <1>1, <2>1, Zenon
<1>4. ~(~rdClosed["client"] /\ (conn = "spawned" \/ emergency = "closed"))
  BY Zenon DEF IndInv, TypeOK, ClosedBy
<1>5. FALSE' = (/\ ~One(rdClosed["client"])["c"]
                /\ (One(conn)["c"] = "spawned" \/ One(emergency)["c"] = "closed"))
  BY <1>1, <1>4, Zenon
<1> QED
  BY <1>2, <1>3, <1>5, Zenon DEF FS!CloseUpstream

(* Forwarder.Close is the closer of ForwarderService, and does not panic:  *)
(* the emergency channel is never closed twice.                            *)
LEMMA LifeClose ==
  ASSUME IndInv, Close
  PROVE  FS!CloserRuns("c")
<1>1. /\ closer = "pending" /\ closer' = "waiting"
      /\ UNCHANGED <<rate, conn, pc, peer>>
      /\ rdClosed' = [rdClosed EXCEPT !["client"] = TRUE]
      /\ emergency' = IF ~rdClosed["client"] /\ emergency = "open" THEN "closed" ELSE emergency
  BY DEF Close, CloseRead, peerVars
<1>2. rdClosed'["client"] = TRUE /\ rdClosed'["server"] = rdClosed["server"]
  BY <1>1 DEF IndInv, TypeOK, Sides
<1>3. FS!CloseUpstream("c")
  BY <1>1, <1>2, LifeCloseUpstream
<1> QED
  BY <1>1, <1>2, <1>3, OneExcept
  DEF FS!CloserRuns, FS!lnVars, FS!suspVars, FS!destVars, FS!argVars, Life

(* The end of a peer is seen once: it closes its output, then the rest. *)
LEMMA LifePeer ==
  ASSUME IndInv, NEW s \in Sides, NEW e \in {"fin", "gone"}, PeerEnds(s, e)
  PROVE  FS!Environment("c") \/ UNCHANGED FS!vars
<1> DEFINE ended == {t \in Sides : peer[t] # "open"}
<1>1. conn = "stream" /\ UNCHANGED <<rate, conn, emergency, rdClosed, pc, closer>>
  BY DEF PeerEnds, ctlVars
<1>2. CASE peer[s] = "open"
  <2>1. s \notin ended /\ ended' = ended \cup {s}
    BY <1>2 DEF PeerEnds, IndInv, TypeOK
  <2>2. FS!PeerCloses("c", s)
    BY <1>1, <2>1, OneExcept
    DEF FS!PeerCloses, FS!lnVars, FS!suspVars, FS!destVars, FS!argVars, Life
  <2> QED
    BY <2>2 DEF FS!Environment, Sides
<1>3. CASE peer[s] # "open"
  <2>1. ended' = ended
    BY <1>3 DEF PeerEnds, IndInv, TypeOK
  <2> QED
    BY <1>1, <2>1 DEF FS!vars, FS!lnVars, FS!suspVars, FS!destVars, FS!argVars, FS!strmVars, Life
<1> QED
  BY <1>2, <1>3

(* A stream of ForwarderService ends with the stream of this one. *)
LEMMA LifeFinish ==
  ASSUME IndInv, NEW s \in Sides, conn = "stream", pc[s] # "done", Finish(s),
         peer[s] # "open" \/ rdClosed[s] \/ peer[Other(s)] # "open"
  PROVE  FS!Forwarder("c")
<1>1. UNCHANGED <<rate, conn, closer, peer>> /\ pc' = [pc EXCEPT ![s] = "done"]
  BY DEF Finish, peerVars
<1>2. CASE s = "client"
  <2>1. rdClosed' = [rdClosed EXCEPT !["server"] = TRUE] /\ emergency' = emergency
    BY <1>2 DEF Finish, CloseRead, Other
  <2>2. rdClosed'["server"] = TRUE /\ rdClosed'["client"] = rdClosed["client"]
    BY <2>1 DEF IndInv, TypeOK, Sides
  <2>3. pc'["client"] = "done" /\ pc'["server"] = pc["server"] /\ pc["client"] # "done"
    BY <1>1, <1>2 DEF IndInv, TypeOK, Sides
  <2>4. rdClosed["client"] \/ peer["client"] # "open" \/ peer["server"] # "open"
    BY <1>2, Zenon DEF Other
  <2>5. /\ Life("client")["c"] = "run"
        /\ Life("client")' = [Life("client") EXCEPT !["c"] = "done"] /\ Life("server")' = Life("server")
    BY <2>3, OneExcept DEF Life
  <2>6. One(rdClosed["server"])' = [One(rdClosed["server"]) EXCEPT !["c"] = TRUE]
    BY <2>2, Zenon DEF One
  <2>7. One(rdClosed["client"])' = One(rdClosed["client"]) /\ One(emergency)' = One(emergency)
    BY <2>1, <2>2 DEF One
  <2>8. /\ One(conn)["c"] = "stream"
        /\ UNCHANGED <<FS!lnVars, FS!suspVars, FS!destVars, {"c"}, One(conn), FS!argVars,
                       One({t \in Sides : peer[t] # "open"}), One(closer), <<>>, FALSE>>
    BY <1>1, OneExcept DEF FS!lnVars, FS!suspVars, FS!destVars, FS!argVars
  <2>9. CASE rdClosed["client"]
    <3>1. One(rdClosed["client"])["c"]
      BY <2>9, Zenon, OneExcept
    <3>2. FS!UpstreamEnds("c")
      BY <2>5, <2>6, <2>7, <2>8, <3>1 DEF FS!UpstreamEnds
    <3> QED
      BY <3>2 DEF FS!Forwarder
  <2>10. CASE peer["client"] # "open"
    <3>1. FS!UpstreamEnds("c")
      BY <2>5, <2>6, <2>7, <2>8, <2>10, OneExcept DEF FS!UpstreamEnds, Sides
    <3> QED
      BY <3>1 DEF FS!Forwarder
  <2>11. CASE peer["server"] # "open"
    <3>1. FS!UpstreamWriteFails("c")
      BY <2>5, <2>6, <2>7, <2>8, <2>11, OneExcept DEF FS!UpstreamWriteFails, Sides
    <3> QED
      BY <3>1 DEF FS!Forwarder
  <2> QED
    BY <2>4, <2>9, <2>10, <2>11
<1>3. CASE s = "server"
  <2>1. /\ rdClosed' = [rdClosed EXCEPT !["client"] = TRUE]
        /\ emergency' = IF ~rdClosed["client"] /\ emergency = "open" THEN "closed" ELSE emergency
    BY <1>3 DEF Finish, CloseRead, Other
  <2>2. rdClosed'["client"] = TRUE /\ rdClosed'["server"] = rdClosed["server"]
    BY <2>1 DEF IndInv, TypeOK, Sides
  <2>3. pc'["server"] = "done" /\ pc'["client"] = pc["client"] /\ pc["server"] # "done"
    BY <1>1, <1>3 DEF IndInv, TypeOK, Sides
  <2>5. FS!CloseUpstream("c")
    BY <2>1, <2>2, LifeCloseUpstream
  <2>6. FS!DownstreamEnds("c") \/ FS!DownstreamWriteFails("c")
    BY <1>1, <1>3, <2>2, <2>3, <2>5, OneExcept
    DEF FS!DownstreamEnds, FS!DownstreamWriteFails, FS!lnVars, FS!suspVars, FS!destVars, FS!argVars,
        Life, Sides, Other
  <2> QED
    BY <2>6 DEF FS!Forwarder
<1> QED
  BY <1>2, <1>3 DEF Sides

(* The other steps move bytes, which ForwarderService does not see. *)
LEMMA LifeStream ==
  ASSUME IndInv, NEW s \in Sides, Stream(s) \/ Check \/ PeerSends(s) \/ PeerReceives(s)
  PROVE  FS!Forwarder("c") \/ UNCHANGED FS!vars
<1>1. CASE /\ UNCHANGED <<rate, conn, emergency, rdClosed, closer, peer>>
           /\ \A t \in Sides : pc'[t] = "done" <=> pc[t] = "done"
  BY <1>1 DEF FS!vars, FS!lnVars, FS!suspVars, FS!destVars, FS!argVars, FS!strmVars, Life, Sides
<1>2. CASE PeerSends(s) \/ PeerReceives(s)
  BY <1>1, <1>2 DEF PeerSends, PeerReceives, ctlVars, peerVars
<1>3. CASE ReadData(s) \/ Write(s) \/ WriteToGone(s)
  BY <1>1, <1>3 DEF ReadData, Write, WriteToGone, Again, peerVars, IndInv, TypeOK
<1>4. CASE ReadEnds(s)
  <2>1. conn = "stream" /\ pc[s] # "done" /\ Finish(s)
    BY <1>4 DEF ReadEnds
  <2>2. peer[s] # "open" \/ rdClosed[s] \/ s \in rst
    BY <1>4, Zenon DEF ReadEnds
  <2>3. s \in rst => peer[s] # "open"
    BY DEF IndInv, ResetGone
  <2> QED
    BY <2>1, <2>2, <2>3, LifeFinish
<1>5. CASE WriteFails(s)
  <2>1. conn = "stream" /\ pc[s] # "done" /\ Finish(s) /\ Other(s) \in rst
    BY <1>5 DEF WriteFails
  <2>2. peer[Other(s)] # "open"
    BY <2>1 DEF IndInv, ResetGone
  <2> QED
    BY <2>1, <2>2, LifeFinish
<1>6. CASE Check
  <2>1. CASE emergency = "closed"
    <3>1. rdClosed["client"]
      BY <2>1, Zenon DEF IndInv, ClosedBy
    <3>2. "client" \in Sides /\ Finish("client") /\ pc["client"] # "done" /\ conn = "stream"
      BY <1>6, <2>1 DEF Check, Sides
    <3> QED
      BY <3>1, <3>2, LifeFinish
  <2>2. CASE emergency # "closed"
    BY <1>1, <1>6, <2>2 DEF Check, peerVars, IndInv, TypeOK
  <2> QED
    BY <2>1, <2>2
<1> QED
  BY <1>2, <1>3, <1>4, <1>5, <1>6 DEF Stream

(* A forwarder with its bytes implements the forwarder of ForwarderService:*)
(* every step of it is a step there, without a panic, or is not seen.      *)
THEOREM Refines == Spec => LifeCycle
<1>1. IndInv /\ [Next]_vars => [FS!Next]_(FS!vars)
  <2> SUFFICES ASSUME IndInv, [Next]_vars PROVE [FS!Next]_(FS!vars)
    OBVIOUS
  <2>1. CASE UNCHANGED vars
    BY <2>1 DEF vars, ctlVars, peerVars, FS!vars, FS!lnVars, FS!suspVars, FS!destVars, FS!argVars,
       FS!strmVars, Life
  <2>2. CASE Next
    <3>1. \/ FS!Forwarder("c") \/ FS!Closer("c") \/ FS!Environment("c")
          \/ UNCHANGED FS!vars
      BY <2>2, LifeAccept, LifeClose, LifePeer, LifeStream DEF Next, FS!Closer, Sides
    <3> QED
      BY <3>1 DEF FS!Next
  <2> QED
    BY <2>1, <2>2
<1> QED
  BY <1>1, Inductive, PTL DEF Spec, LifeCycle
=============================================================================
