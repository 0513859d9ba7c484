----------------------- MODULE PerformanceTestProofs -----------------------
(***************************************************************************)
(* Proofs about PerformanceTest, for any sizes of block, path and buffers, *)
(* any resolution and any duration.                                        *)
(***************************************************************************)
EXTENDS PerformanceTest, TLAPS

InSession == pc \in {"inner", "write", "read", "sample"}

\* What the current write-and-read round is about: the test byte or a block.
Goal == IF first THEN 1 ELSE Block

(* A connection is opened only before the end, and every one that ends by  *)
(* an exception takes time: there are never more than Duration.            *)
SessionClock ==
    /\ sess <= now + 1
    /\ pc \in {"deploy", "outer"} => sess <= now

(* Between connections the last socket is closed; within one the next      *)
(* exception is the first.                                                 *)
SessionOpen ==
    /\ InSession => sess > 0 /\ exc = TRUE
    /\ Live => InSession

Counted ==
    /\ InSession => unreported = accum
    /\ pc = "deploy" \/ (pc = "outer" /\ now < Duration) => unreported = 0

(* Progress of a round.                                                    *)
Round ==
    /\ pc = "write" => rem > 0 /\ rem <= Goal /\ readSz = 0
    /\ pc = "read" => (Live => rem = 0) /\ readSz < Goal

HandlerHolds == Live => (srv[sess] = "write" <=> held > 0)

(* Every byte of the round is to be written, in the path, in the server or *)
(* back; nothing else is in the path.                                      *)
Balance ==
    ~upstream /\ Live =>
        /\ pc \in {"write", "read"} => rem + up + held + down + readSz = Goal
        /\ pc \in {"inner", "sample"} => up + held + down = 0

(* In upstream mode: what was written of this round is not answered yet.   *)
Unanswered ==
    upstream /\ Live =>
        /\ pc = "write" /\ rem < Goal => up + held + down > 0
        /\ pc = "read" => up + held + down > 0

IndInv ==
    /\ TypeOK /\ SessionClock /\ SessionOpen /\ Counted
    /\ Round /\ HandlerHolds /\ Balance /\ Unanswered

-----------------------------------------------------------------------------
(* The first state. *)
LEMMA IndInit == Init => IndInv
  BY SizesAssumption DEF SizesAssumption, Init, IndInv, TypeOK, SessionClock, SessionOpen,
     Counted, Round, HandlerHolds, Balance, Unanswered, InSession, Live, Sess

(* The steps of the client. *)
LEMMA IndClient ==
  ASSUME IndInv, Client
  PROVE  IndInv'
<1> USE SizesAssumption DEF SizesAssumption, IndInv, TypeOK, SessionClock, SessionOpen,
       Counted, Round, HandlerHolds, Balance, Unanswered, InSession, Goal, Live, SumMode, Sess,
       Later, clientVars, sampleVars, pathVars
<1>1. CASE Deploy
  BY <1>1 DEF Deploy
<1>2. CASE Connect
  BY <1>2 DEF Connect
<1>3. CASE ConnectFails
  <2>1. exc' \in BOOLEAN
    BY <1>3, Zenon DEF ConnectFails
  <2> QED
    BY <1>3, <2>1 DEF ConnectFails
<1>4. CASE StartWrite
  BY <1>4 DEF StartWrite
<1>5. CASE LeaveSession
  BY <1>5 DEF LeaveSession
<1>6. CASE \E n \in 1..Block : Write(n)
  BY <1>6 DEF Write
<1>7. CASE \E n \in 1..Block : ReadUp(n)
  BY <1>7 DEF ReadUp
<1>8. CASE \E n \in 1..Block : ReadEcho(n)
  BY <1>8 DEF ReadEcho
<1>9. CASE WriteLost
  BY <1>9 DEF WriteLost
<1>10. CASE WriteThrows \/ ReadThrows
  <2>1. exc' \in BOOLEAN
    BY <1>10, Zenon DEF WriteThrows, ReadThrows, Catch
  <2>2. exc = TRUE /\ InSession
    BY <1>10 DEF WriteThrows, ReadThrows
  <2>3. unreported' = unreported - accum
    BY <1>10, <2>2, Zenon DEF WriteThrows, ReadThrows, Catch
  <2>4. unreported' = 0
    BY <2>2, <2>3
  <2>5. /\ link' = [link EXCEPT ![sess] = "closed"]
        /\ now' = Later
        /\ pc' = "outer"
        /\ UNCHANGED <<sess, first, rem, readSz, resStep, accum, upstream, srv, pathVars>>
    BY <1>10, Zenon DEF WriteThrows, ReadThrows, Catch
  <2> QED
    BY <2>1, <2>2, <2>4, <2>5
<1>11. CASE ReadFirst
  <2>1. first' \in BOOLEAN
    BY <1>11, Zenon DEF ReadFirst, FirstAnswered
  <2> QED
    BY <1>11, <2>1 DEF ReadFirst, FirstAnswered
<1>12. CASE ReadEnd
  <2>1. CASE first
    <3>1. first' \in BOOLEAN
      BY <1>12, <2>1, Zenon DEF ReadEnd, FirstAnswered
    <3> QED
      BY <1>12, <2>1, <3>1 DEF ReadEnd, FirstAnswered
  <2>2. CASE ~first
    <3>1. /\ pc = "read" /\ link[sess] = "fin" /\ pc' = "sample"
          /\ UNCHANGED <<now, sess, first, rem, readSz, resStep, exc, upstream, link, srv, pathVars>>
      BY <1>12, <2>2, Zenon DEF ReadEnd
    <3>2. \/ accum' = accum + Block /\ unreported' = unreported + Block
          \/ accum' = accum /\ unreported' = unreported
      BY <1>12, <2>2, Zenon DEF ReadEnd
    <3> QED
      BY <3>1, <3>2
  <2> QED
    BY <2>1, <2>2
<1>13. CASE Sample
  BY <1>13 DEF Sample
<1>14. CASE Finish
  BY <1>14 DEF Finish
<1> QED
  BY <1>1, <1>2, <1>3, <1>4, <1>5, <1>6, <1>7, <1>8, <1>9, <1>10, <1>11, <1>12, <1>13, <1>14 DEF Client

(* The steps of a handler process. *)
LEMMA IndHandler ==
  ASSUME IndInv, NEW s \in Sess, Handler(s) \/ HandlerReset(s)
  PROVE  IndInv'
<1> USE SizesAssumption DEF SizesAssumption, IndInv, TypeOK, SessionClock, SessionOpen,
       Counted, Round, HandlerHolds, Balance, Unanswered, InSession, Goal, Live, SumMode, Sess,
       Later, clientVars, sampleVars, pathVars
<1>1. CASE Accept(s)
  BY <1>1 DEF Accept
<1>2. CASE \E n \in 1..SrvBuf : HandlerRead(s, n)
  BY <1>2 DEF HandlerRead
<1>3. CASE \E n \in 1..SrvBuf : HandlerWrite(s, n)
  BY <1>3 DEF HandlerWrite
<1>4. CASE HandlerOver(s) \/ HandlerReset(s)
  <2>1. PICK c \in {"read", "spin", "closed"} : srv' = [srv EXCEPT ![s] = c]
    BY <1>4 DEF HandlerOver, HandlerReset
  <2>2. link[s] # "up" \/ (srv[s] = "spin" /\ c = "closed")
    BY <1>4, <2>1 DEF HandlerOver, HandlerReset
  <2>3. UNCHANGED <<clientVars, upstream, link, pathVars>>
    BY <1>4 DEF HandlerOver, HandlerReset
  <2>4. Live => (srv'[sess] = "write" <=> srv[sess] = "write")
    BY <2>1, <2>2
  <2> QED
    BY <2>1, <2>3, <2>4
<1>5. CASE ForkFails(s)
  <2>1. PICK end \in {"fin", "reset"} :
          link' = [link EXCEPT ![s] = IF @ = "up" THEN end ELSE @]
    BY <1>5 DEF ForkFails
  <2>2. CASE link[s] = "up"
    <3>1. link' = [link EXCEPT ![s] = end]
      BY <2>1, <2>2
    <3> QED
      BY <1>5, <2>1, <2>2, <3>1 DEF ForkFails
  <2>3. CASE link[s] # "up"
    <3>1. link' = link
      BY <2>1, <2>3
    <3> QED
      BY <1>5, <2>3, <3>1 DEF ForkFails
  <2> QED
    BY <2>2, <2>3
<1> QED
  BY <1>1, <1>2, <1>3, <1>4, <1>5 DEF Handler

(* The clock and breaks. *)
LEMMA IndRest ==
  ASSUME IndInv, Tick \/ Break \/ UNCHANGED vars
  PROVE  IndInv'
<1> USE SizesAssumption DEF SizesAssumption, IndInv, TypeOK, SessionClock, SessionOpen,
       Counted, Round, HandlerHolds, Balance, Unanswered, InSession, Goal, Live, SumMode, Sess,
       Later, clientVars, sampleVars, pathVars
<1>1. CASE Tick
  BY <1>1 DEF Tick
<1>2. CASE Break
  BY <1>2 DEF Break
<1>3. CASE UNCHANGED vars
  BY <1>3 DEF vars
<1> QED
  BY <1>1, <1>2, <1>3 DEF Tick

(* Every step keeps the inductive invariant. *)
LEMMA IndStep == IndInv /\ [Next]_vars => IndInv'
<1> SUFFICES ASSUME IndInv, [Next]_vars PROVE IndInv'
  OBVIOUS
<1>1. CASE Client
  BY <1>1, IndClient
<1>2. CASE \E s \in Sess : Handler(s) \/ HandlerReset(s)
  BY <1>2, IndHandler
<1>3. CASE Tick \/ Break \/ UNCHANGED vars
  BY <1>3, IndRest
<1> QED
  BY <1>1, <1>2, <1>3 DEF Next

\* The inductive invariant: where every byte of the current round of
\* throughputTest is, and what the exception handler may rely on.
THEOREM Inductive == Spec => []IndInv
<1>1. Init => IndInv
  BY IndInit
<1>2. IndInv /\ [Next]_vars => IndInv'
  BY IndStep
<1> QED
  BY <1>1, <1>2, PTL DEF Spec

\* Type correctness; in particular there are at most Duration connections.
THEOREM TypeCorrect == Spec => []TypeOK
<1>1. IndInv => TypeOK
  BY DEF IndInv
<1> QED
  BY <1>1, Inductive, PTL

\* Client and server are never both blocked in a write when a block is at most one byte
\* larger than the two directions of the path together.
THEOREM NeverStalls == Spec => []NoStall
<1>1. IndInv => NoStall
  BY SizesAssumption, CapacityAssumption
     DEF SizesAssumption, CapacityAssumption, IndInv, TypeOK, Round, HandlerHolds, Balance,
         NoStall, Goal, Live
<1> QED
  BY <1>1, Inductive, PTL

\* The echo of one block is never counted for another one.
THEOREM StaysAligned == Spec => []EchoAligned
<1>1. IndInv => EchoAligned
  BY DEF IndInv, Balance, EchoAligned
<1> QED
  BY <1>1, Inductive, PTL

\* A client that reads has an answer coming, in both modes.
THEOREM AnswerAlwaysComes == Spec => []AnswerComes
<1>1. IndInv => AnswerComes
  <2> SUFFICES ASSUME IndInv, Live, pc = "read"
               PROVE  up + held + down > 0
    BY DEF AnswerComes
  <2>1. CASE upstream
    BY <2>1 DEF IndInv, Unanswered
  <2>2. CASE ~upstream
    BY <2>2, SizesAssumption DEF SizesAssumption, IndInv, TypeOK, Round, Balance, Goal
  <2> QED
    BY <2>1, <2>2
<1> QED
  BY <1>1, Inductive, PTL

\* Every byte that was counted is shown by exactly one sample, over any
\* exceptions and reconnections.
THEOREM AllBytesReported == Spec => []EveryByteReported
<1>1. IndInv => EveryByteReported
  BY DEF IndInv, Counted, InSession, EveryByteReported
<1> QED
  BY <1>1, Inductive, PTL
=============================================================================
