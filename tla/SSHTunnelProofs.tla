--------------------------- MODULE SSHTunnelProofs ---------------------------
(***************************************************************************)
(* Proofs about SSHTunnel, for any number of programs and bytes and any    *)
(* faults, with either caller.                                             *)
(***************************************************************************)
EXTENDS SSHTunnel, TLAPS

(* The exchange over a connection is in order: no answer before the whole  *)
(* request has arrived, and no success before the whole answer has.        *)
InOrder ==
    \A c \in Conns :
        /\ sent[c]["remote"] # 0 => got[c]["remote"] = Bytes
        /\ prog[c] = "ok" => got[c]["local"] = Bytes

(* LM_DumpService closes the channel when no rsync waits, and starts none  *)
(* afterwards.                                                             *)
ClosedIdle ==
    caller = "lm" /\ closeChan => \A c \in Conns : prog[c] # "wait"

(* No program has connected to a port that was never listened on. *)
Opened ==
    call # "open" => ln = "none" /\ \A c \in Conns : prog[c] = "idle"

(* Only the channel closes a route. *)
ClosedByChan == \A c \in Conns : route[c] = "closed" => closeChan

(* Bytes pass only on a route that is copied or was: on the connection of  *)
(* a dial that failed there never were any.                                *)
BytesRouted ==
    \A c \in Conns :
        /\ prog[c] = "idle" => route[c] = "none"
        /\ route[c] \notin {"copy", "closed"} => \A s \in Sides : got[c][s] = 0

(* A program is cut off by the garbage collector, which found the          *)
(* connection of a dial that failed, or by the signal to the command.      *)
CutOffReason ==
    \A c \in Conns : prog[c] = "error" =>
        route[c] = "collected" \/ (caller = "cmd" /\ closeChan)

(* What the tunnel, the programs and their bytes know of each other. *)
IndInv ==
    TypeOK /\ InOrder /\ ClosedIdle /\ Opened /\ ClosedByChan /\ BytesRouted /\ CutOffReason

(* Nothing has happened at the start. *)
LEMMA IndInit == Init => IndInv
<1> SUFFICES ASSUME Init PROVE IndInv
  OBVIOUS
<1>1. Bytes \in Nat
  BY TunnelAssumption DEF TunnelAssumption
<1>2. \A c \in Conns, s \in Sides : sent[c][s] = 0 /\ got[c][s] = 0
  BY DEF Init, Zero
<1>3. Zero \in [Conns -> [Sides -> 0..Bytes]]
  BY <1>1 DEF Zero
<1>4. TypeOK
  <2>1. \A c \in Conns, s \in Sides : got[c][s] <= sent[c][Other(s)]
    BY <1>2 DEF Other, Sides
  <2>2. sent \in [Conns -> [Sides -> 0..Bytes]] /\ got \in [Conns -> [Sides -> 0..Bytes]]
    BY <1>3 DEF Init
  <2> QED
    BY <2>1, <2>2 DEF Init, TypeOK, Routes
<1> QED
  BY <1>2, <1>4
  DEF Init, IndInv, InOrder, ClosedIdle, Opened, ClosedByChan, BytesRouted, CutOffReason, Sides

(* OpenTunnel, its callers, the closing goroutines and the accept loop     *)
(* leave the programs and their bytes alone.                               *)
LEMMA IndTunnel ==
  ASSUME IndInv, OpenTunnel \/ LMCloses \/ CmdCloses \/ CloseClient \/ CloseListener \/ Loop \/ Break
  PROVE  IndInv'
<1> USE DEF IndInv, TypeOK, InOrder, ClosedIdle, Opened, ClosedByChan, BytesRouted, CutOffReason,
            Routes, tunVars, connVars
<1>1. CASE OpenTunnel \/ CloseClient \/ Break
  BY <1>1 DEF OpenTunnel, Dial, Listen, CloseClient, Break
<1>2. CASE LMCloses \/ CmdCloses
  <2>1. closeChan' = TRUE /\ UNCHANGED <<caller, call, ssh, ln, loop, connVars>>
    BY <1>2 DEF LMCloses, CmdCloses, CloseChan
  <2>2. TypeOK' /\ InOrder' /\ Opened' /\ ClosedByChan' /\ BytesRouted' /\ CutOffReason'
    BY <2>1
  <2>3. CASE CmdCloses
    BY <2>1, <2>2, <2>3 DEF CmdCloses, CloseChan
  <2>4. CASE LMCloses
    <3>1. \A c \in Conns : prog[c] # "wait"
      BY <2>4 DEF LMCloses, CloseChan
    <3> QED
      BY <2>1, <2>2, <3>1
  <2> QED
    BY <1>2, <2>3, <2>4
<1>3. CASE CloseListener
  BY <1>3 DEF CloseListener
<1>4. CASE LoopCheck \/ LoopAcceptFails
  BY <1>4 DEF LoopCheck, LoopAcceptFails
<1>5. ASSUME NEW c \in Conns, LoopAccept(c) PROVE IndInv'
  BY <1>5 DEF LoopAccept
<1> QED
  BY <1>1, <1>2, <1>3, <1>4, <1>5 DEF Loop

(* A route is dialled, fails, is closed or is collected. *)
LEMMA IndRoute ==
  ASSUME IndInv, NEW c \in Conns, Route(c) \/ CloseRoute(c) \/ Collect(c)
  PROVE  IndInv'
<1> USE DEF IndInv, TypeOK, InOrder, ClosedIdle, Opened, ClosedByChan, BytesRouted, CutOffReason,
            Routes, tunVars
<1>1. CASE RouteDial(c)
  <2>1. copying' \in [Conns -> SUBSET Sides]
    BY <1>1 DEF RouteDial
  <2> QED
    BY <1>1, <2>1 DEF RouteDial
<1>2. CASE RouteDialFails(c)
  BY <1>2 DEF RouteDialFails
<1>3. CASE CloseRoute(c)
  BY <1>3 DEF CloseRoute
<1>4. CASE Collect(c)
  BY <1>4 DEF Collect
<1> QED
  BY <1>1, <1>2, <1>3, <1>4 DEF Route

(* io.Copy moves a byte that was sent and not yet received. *)
LEMMA IndCopy ==
  ASSUME IndInv, NEW c \in Conns, NEW s \in Sides, Copy(c, s)
  PROVE  IndInv'
<1> DEFINE o == Other(s)
<1>1. o \in Sides /\ Other(o) = s
  BY DEF Other, Sides
<1>2. Bytes \in Nat
  BY TunnelAssumption DEF TunnelAssumption
<1>3. /\ route[c] = "copy" /\ (o = "local" => prog[c] = "wait")
      /\ got[c][o] < sent[c][s]
      /\ got' = [got EXCEPT ![c][o] = @ + 1]
      /\ UNCHANGED <<tunVars, route, copying, prog, ended, sent>>
  <2>1. got[c][o] \in 0..Bytes /\ sent[c][s] \in 0..Bytes
    BY <1>1 DEF IndInv, TypeOK
  <2> QED
    BY <1>2, <2>1 DEF Copy, Unread, Writable
<1> HIDE DEF o
<1>4. /\ got[c] \in [Sides -> 0..Bytes] /\ sent[c] \in [Sides -> 0..Bytes]
      /\ \A t \in Sides : got[c][t] <= sent[c][Other(t)]
  BY DEF IndInv, TypeOK
<1>5. /\ got'[c] = [got[c] EXCEPT ![o] = @ + 1]
      /\ \A d \in Conns \ {c} : got'[d] = got[d]
  BY <1>1, <1>3 DEF IndInv, TypeOK
<1>6. /\ got'[c][o] = got[c][o] + 1 /\ got'[c][o] <= sent[c][s]
      /\ \A t \in Sides \ {o} : got'[c][t] = got[c][t]
  BY <1>1, <1>2, <1>3, <1>4, <1>5
<1>7. got'[c] \in [Sides -> 0..Bytes]
  BY <1>1, <1>2, <1>4, <1>5, <1>6
<1>8. got' \in [Conns -> [Sides -> 0..Bytes]]
  BY <1>3, <1>5, <1>7 DEF IndInv, TypeOK
<1>9. \A d \in Conns, t \in Sides : got'[d][t] <= sent[d][Other(t)]
  BY <1>1, <1>4, <1>5, <1>6 DEF IndInv, TypeOK
<1>10. TypeOK'
  BY <1>3, <1>8, <1>9 DEF IndInv, TypeOK, tunVars
<1>11. InOrder'
  <2>1. o = "remote" => sent[c]["remote"] = 0
    BY <1>2, <1>3, <1>4, <1>6 DEF IndInv, InOrder, Sides, Other
  <2>2. o = "local" => prog[c] # "ok"
    BY <1>3
  <2>3. "local" \in Sides /\ "remote" \in Sides
    BY DEF Sides
  <2> QED
    BY <1>3, <1>5, <1>6, <2>1, <2>2, <2>3 DEF IndInv, InOrder
<1>12. ClosedIdle' /\ Opened' /\ ClosedByChan' /\ CutOffReason'
  BY <1>3 DEF IndInv, ClosedIdle, Opened, ClosedByChan, CutOffReason, tunVars
<1>13. BytesRouted'
  BY <1>3, <1>5 DEF IndInv, BytesRouted
<1> QED
  BY <1>10, <1>11, <1>12, <1>13 DEF IndInv

(* A program connects with its request, or its far end answers it. *)
LEMMA IndSends ==
  ASSUME IndInv, NEW c \in Conns, Connect(c) \/ Answers(c)
  PROVE  IndInv'
<1>1. Bytes \in Nat
  BY TunnelAssumption DEF TunnelAssumption
<1>2. PICK s \in Sides : sent' = [sent EXCEPT ![c][s] = Bytes]
  BY DEF Connect, Answers, Sides
<1>3. /\ sent'[c] = [sent[c] EXCEPT ![s] = Bytes]
      /\ \A d \in Conns \ {c} : sent'[d] = sent[d]
  BY <1>2 DEF IndInv, TypeOK
<1>4. sent'[c] \in [Sides -> 0..Bytes] /\ \A t \in Sides : sent[c][t] <= sent'[c][t]
  BY <1>1, <1>3 DEF IndInv, TypeOK
<1>5. sent' \in [Conns -> [Sides -> 0..Bytes]]
  BY <1>2, <1>3, <1>4 DEF IndInv, TypeOK
<1>6. \A d \in Conns, t \in Sides : got[d][t] <= sent'[d][Other(t)]
  <2> TAKE d \in Conns, t \in Sides
  <2>1. /\ got[d][t] \in Nat /\ sent[d][Other(t)] \in Nat /\ sent'[d][Other(t)] \in Nat
        /\ Other(t) \in Sides /\ got[d][t] <= sent[d][Other(t)]
    BY <1>1, <1>5 DEF IndInv, TypeOK, Other, Sides
  <2>2. sent[d][Other(t)] <= sent'[d][Other(t)]
    BY <1>3, <1>4, <2>1
  <2> QED
    BY <2>1, <2>2
<1>7. CASE Connect(c)
  <2>1. TypeOK'
    BY <1>5, <1>6, <1>7 DEF Connect, IndInv, TypeOK, Routes, tunVars
  <2>2. \A d \in Conns : sent'[d]["remote"] = sent[d]["remote"]
    <3>1. sent'[c]["remote"] = sent[c]["remote"]
      BY <1>7 DEF Connect, IndInv, TypeOK, Sides
    <3> QED
      BY <1>3, <3>1
  <2>3. InOrder'
    BY <1>7, <2>2 DEF Connect, IndInv, TypeOK, InOrder
  <2>4. ClosedIdle' /\ Opened' /\ ClosedByChan' /\ CutOffReason'
    BY <1>7 DEF Connect, IndInv, TypeOK, ClosedIdle, Opened, ClosedByChan, CutOffReason, tunVars
  <2>5. BytesRouted'
    BY <1>7 DEF Connect, IndInv, TypeOK, BytesRouted
  <2> QED
    BY <2>1, <2>3, <2>4, <2>5 DEF IndInv
<1>8. CASE Answers(c)
  <2>1. TypeOK'
    BY <1>5, <1>6, <1>8 DEF Answers, IndInv, TypeOK, tunVars
  <2>2. InOrder'
    BY <1>3, <1>8 DEF Answers, IndInv, InOrder
  <2> QED
    BY <1>8, <2>1, <2>2
    DEF Answers, IndInv, ClosedIdle, Opened, ClosedByChan, CutOffReason, BytesRouted, tunVars
<1> QED
  BY <1>7, <1>8

(* A program or a copy ends. *)
LEMMA IndEnds ==
  ASSUME IndInv, NEW c \in Conns,
         Answered(c) \/ CutOff(c) \/ \E s \in Sides : CopyEnds(c, s) \/ EndsOutput(c, s)
  PROVE  IndInv'
<1> USE DEF IndInv, TypeOK, InOrder, ClosedIdle, Opened, ClosedByChan, BytesRouted, CutOffReason,
            tunVars
<1>1. CASE Answered(c)
  BY <1>1 DEF Answered, Sides
<1>2. CASE CutOff(c)
  BY <1>2 DEF CutOff, Sides
<1>3. ASSUME NEW s \in Sides, CopyEnds(c, s) PROVE IndInv'
  BY <1>3 DEF CopyEnds
<1>4. ASSUME NEW s \in Sides, EndsOutput(c, s) PROVE IndInv'
  BY <1>4 DEF EndsOutput
<1> QED
  BY <1>1, <1>2, <1>3, <1>4

(* Every step keeps the invariant. *)
LEMMA IndStep == IndInv /\ [Next]_vars => IndInv'
<1> SUFFICES ASSUME IndInv, [Next]_vars PROVE IndInv'
  OBVIOUS
<1>1. CASE UNCHANGED vars
  BY <1>1
  DEF vars, tunVars, connVars, IndInv, TypeOK, InOrder, ClosedIdle, Opened, ClosedByChan, BytesRouted,
      CutOffReason
<1> QED
  BY <1>1, IndTunnel, IndRoute, IndCopy, IndSends, IndEnds DEF Next, Program

(* The tunnel's inductive invariant holds in every reachable state. *)
THEOREM Inductive == Spec => []IndInv
  BY IndInit, IndStep, PTL DEF Spec

(* Type correctness; with it, no end receives a byte the other has not     *)
(* sent.                                                                   *)
THEOREM TypeCorrect == Spec => []TypeOK
  BY Inductive, PTL DEF IndInv

(* A program that ends well had its whole request delivered and has its    *)
(* whole answer: an rsync that reports success has copied everything.      *)
THEOREM OkMeansDelivered ==
  Spec => [](\A c \in Conns : prog[c] = "ok" => \A s \in Sides : got[c][s] = Bytes)
<1>1. IndInv => \A c \in Conns : prog[c] = "ok" => \A s \in Sides : got[c][s] = Bytes
  <2> SUFFICES ASSUME IndInv, NEW c \in Conns, prog[c] = "ok", NEW s \in Sides
               PROVE  got[c][s] = Bytes
    OBVIOUS
  <2>1. got[c]["local"] = Bytes
    BY DEF IndInv, InOrder
  <2>2. got[c]["local"] <= sent[c]["remote"]
    BY DEF IndInv, TypeOK, Sides, Other
  <2>3. sent[c]["remote"] \in 0..Bytes /\ Bytes \in Nat \ {0}
    BY TunnelAssumption DEF TunnelAssumption, IndInv, TypeOK, Sides
  <2>4. got[c]["remote"] = Bytes
    BY <2>1, <2>2, <2>3 DEF IndInv, InOrder
  <2> QED
    BY <2>1, <2>4 DEF Sides
<1> QED
  BY Inductive, <1>1, PTL

(* An rsync of LM_DumpService fails only because the dial through SSH was   *)
(* refused, and then not one byte of it has reached the destination.       *)
THEOREM RefusedBeforeAnyByte ==
  Spec => [](\A c \in Conns : caller = "lm" /\ prog[c] = "error" =>
                route[c] = "collected" /\ \A s \in Sides : got[c][s] = 0)
<1>1. IndInv => \A c \in Conns : caller = "lm" /\ prog[c] = "error" =>
                   route[c] = "collected" /\ \A s \in Sides : got[c][s] = 0
  BY DEF IndInv, CutOffReason, BytesRouted
<1> QED
  BY Inductive, <1>1, PTL
=============================================================================
