----------------------- MODULE ForwarderServiceProofs -----------------------
(***************************************************************************)
(* Proofs about ForwarderService, for any sets of connections, migrations, *)
(* addresses and data rates and with every environment fault.              *)
(***************************************************************************)
EXTENDS ForwarderService, TLAPS

-----------------------------------------------------------------------------
(* Type correctness. *)

LEMMA TypeInit == Init => TypeOK
<1> SUFFICES ASSUME Init PROVE TypeOK
  OBVIOUS
<1>1. /\ lst \in ListenerStates /\ conn \in [Conns -> ConnStates]
      /\ exec \in [Migrations -> ExecStates]
  BY DEF Init, ListenerStates, ConnStates, ExecStates
<1>2. /\ serverAddr \in Addrs /\ addr \in [Conns -> Addrs]
      /\ dataRate \in DataRates \cup {0} /\ rate \in [Conns -> DataRates \cup {0}]
  BY ConstantsAssumption DEF ConstantsAssumption, Init
<1> QED
  BY <1>1, <1>2 DEF Init, TypeOK

LEMMA TypeListener == TypeOK /\ Listener => TypeOK'
<1> SUFFICES ASSUME TypeOK, Listener PROVE TypeOK'
  OBVIOUS
<1> USE DEF TypeOK, ListenerStates, lnVars, suspVars, destVars, argVars, strmVars
<1>1. CASE ListenerCheck \/ ListenerWake \/ AcceptTimeout \/ AcceptFails
  BY <1>1 DEF ListenerCheck, ListenerWake, AcceptTimeout, AcceptFails
<1>2. CASE ListenerSend
  BY <1>2 DEF ListenerSend
<1>3. CASE \E c \in Conns : AcceptConn(c)
  BY <1>3 DEF AcceptConn, ConnStates
<1>4. CASE \E c \in Conns : PushForwarder(c)
  BY <1>4 DEF PushForwarder, ConnStates, Live
<1> QED
  BY <1>1, <1>2, <1>3, <1>4 DEF Listener

LEMMA TypeConn ==
  ASSUME TypeOK, NEW c \in Conns, Environment(c) \/ Forwarder(c) \/ Closer(c)
  PROVE  TypeOK'
<1> USE DEF TypeOK, ConnStates, Live, Running, lnVars, suspVars, destVars, argVars, strmVars
<1>1. CASE ClientConnect(c)
  BY <1>1 DEF ClientConnect
<1>2. CASE PeerCloses(c, "client")
  BY <1>2 DEF PeerCloses
<1>3. CASE PeerCloses(c, "server")
  BY <1>3 DEF PeerCloses
<1>4. CASE UpstreamStalls(c) \/ DownstreamStalls(c)
  BY <1>4 DEF UpstreamStalls, DownstreamStalls
<1>5. CASE ForwarderStart(c)
  BY <1>5 DEF ForwarderStart
<1>6. CASE ForwarderSetup(c)
  BY <1>6 DEF ForwarderSetup
<1>7. CASE DialOk(c) \/ DialFails(c) \/ ForwarderDone(c)
  BY <1>7 DEF DialOk, DialFails, ForwarderDone
<1>8. CASE UpstreamEnds(c) \/ UpstreamWriteFails(c)
  BY <1>8 DEF UpstreamEnds, UpstreamWriteFails
<1>9. CASE DownstreamEnds(c)
  BY <1>9 DEF DownstreamEnds, CloseUpstream
<1>10. CASE DownstreamWriteFails(c)
  BY <1>10 DEF DownstreamWriteFails, CloseUpstream
<1>11. CASE ForwarderRemove(c)
  BY <1>11 DEF ForwarderRemove
<1>12. CASE CloserRuns(c)
  BY <1>12 DEF CloserRuns, CloseUpstream
<1>13. CASE CloserReturns(c)
  BY <1>13 DEF CloserReturns
<1> QED
  BY <1>1, <1>2, <1>3, <1>4, <1>5, <1>6, <1>7, <1>8, <1>9, <1>10, <1>11, <1>12, <1>13
  DEF Environment, Forwarder, Closer

LEMMA TypeExec ==
  ASSUME TypeOK, NEW m \in Migrations, Exec(m)
  PROVE  TypeOK'
<1> USE DEF TypeOK, ExecStates, Holding, Suspending, Acked, Goto,
            lnVars, suspVars, destVars, argVars, strmVars
<1>1. CASE ExecListen(m) \/ ExecListenFails(m) \/ ExecPrepareFails(m) \/ ExecReturn(m)
  BY <1>1 DEF ExecListen, ExecListenFails, ExecPrepareFails, ExecReturn
<1>2. CASE Suspend(m) \/ Resume(m)
  BY <1>2 DEF Suspend, Resume, Broadcast, ListenerStates
<1>3. CASE SuspendAck(m)
  BY <1>3 DEF SuspendAck
<1>4. CASE CloseAllForwarders(m)
  BY <1>4 DEF CloseAllForwarders, MustBeSuspended
<1>5. CASE CloseAllReturns(m) \/ FinalDumpOk(m) \/ FinalDumpFails(m) \/ WaitForResume(m)
  BY <1>5 DEF CloseAllReturns, FinalDumpOk, FinalDumpFails, WaitForResume
<1>6. CASE ChangeServerAddr(m)
  BY <1>6, ConstantsAssumption DEF ConstantsAssumption, ChangeServerAddr, MustBeSuspended
<1>7. CASE ChangeDataRate(m)
  BY <1>7 DEF ChangeDataRate, MustBeSuspended
<1> QED
  BY <1>1, <1>2, <1>3, <1>4, <1>5, <1>6, <1>7 DEF Exec

LEMMA TypeStep == TypeOK /\ [Next]_vars => TypeOK'
<1> SUFFICES ASSUME TypeOK, [Next]_vars PROVE TypeOK'
  OBVIOUS
<1>1. CASE Listener
  BY <1>1, TypeListener
<1>2. CASE Close \/ ListenerClose
  BY <1>2 DEF Close, ListenerClose, TypeOK, ConnStates, lnVars, suspVars, destVars,
              argVars, strmVars
<1>3. CASE \E c \in Conns : Environment(c) \/ Forwarder(c) \/ Closer(c)
  BY <1>3, TypeConn
<1>4. CASE \E m \in Migrations : Exec(m)
  BY <1>4, TypeExec
<1>5. CASE UNCHANGED vars
  BY <1>5 DEF vars, TypeOK, lnVars, suspVars, destVars, argVars, strmVars
<1> QED
  BY <1>1, <1>2, <1>3, <1>4, <1>5 DEF Next

(* Every variable of the service, its forwarders and its migrations keeps  *)
(* its type in every reachable state.                                      *)
THEOREM TypeCorrect == Spec => []TypeOK
  BY TypeInit, TypeStep, PTL DEF Spec

-----------------------------------------------------------------------------
(* The inductive invariant. *)

LEMMA IndInit == Init => IndInv
<1> SUFFICES ASSUME Init PROVE IndInv
  OBVIOUS
<1>1. \A m \in Migrations : exec[m] = "idle"
  BY DEF Init
<1>2. \A c \in Conns : conn[c] = "idle" /\ emergency[c] = "nil"
  BY DEF Init
<1>3. PortMutex /\ SuspendedBy /\ TokenForWaiter /\ ListenerParked /\ ClosersCover
  BY <1>1 DEF Init, PortMutex, SuspendedBy, TokenForWaiter, ListenerParked, ClosersCover,
              Holding, Suspending, Acked
<1>4. LiveListed /\ EmergencyOnce /\ QuietDuringDump /\ RouteCurrent /\ OnlyNilPanic
  BY <1>2 DEF Init, LiveListed, EmergencyOnce, QuietDuringDump, RouteCurrent, OnlyNilPanic,
              Live, Running
<1> QED
  BY <1>3, <1>4 DEF IndInv

(* The listener's steps: it is parked while a migration is past Suspend.   *)
LEMMA IndListener ==
  ASSUME TypeOK, IndInv, Listener
  PROVE  IndInv'
<1> USE DEF TypeOK, lnVars, suspVars, destVars, argVars, strmVars
<1>1. CASE ListenerCheck \/ ListenerWake \/ AcceptTimeout \/ AcceptFails
  BY <1>1 DEF ListenerCheck, ListenerWake, AcceptTimeout, AcceptFails, IndInv, PortMutex,
     SuspendedBy, TokenForWaiter, ListenerParked, LiveListed, ClosersCover, EmergencyOnce,
     QuietDuringDump, RouteCurrent, OnlyNilPanic
<1>2. CASE ListenerSend
  BY <1>2 DEF ListenerSend, IndInv, PortMutex,
     SuspendedBy, TokenForWaiter, ListenerParked, LiveListed, ClosersCover, EmergencyOnce,
     QuietDuringDump, RouteCurrent, OnlyNilPanic, Acked, Suspending
<1>3. CASE \E c \in Conns : AcceptConn(c)
  BY <1>3 DEF AcceptConn, Live, Running, IndInv, PortMutex,
     SuspendedBy, TokenForWaiter, ListenerParked, LiveListed, ClosersCover, EmergencyOnce,
     QuietDuringDump, RouteCurrent, OnlyNilPanic
<1>4. CASE \E c \in Conns : PushForwarder(c)
  BY <1>4 DEF PushForwarder, Live, Running, Acked, Quiet, IndInv, PortMutex,
     SuspendedBy, TokenForWaiter, ListenerParked, LiveListed, ClosersCover, EmergencyOnce,
     QuietDuringDump, RouteCurrent, OnlyNilPanic
<1> QED
  BY <1>1, <1>2, <1>3, <1>4 DEF Listener

(* A connection's steps leave the handshake alone: only what the invariant *)
(* says of connections is at stake.                                        *)
LEMMA IndConn ==
  ASSUME TypeOK, IndInv, ~panicked, NEW c \in Conns,
         Environment(c) \/ Forwarder(c) \/ Closer(c)
  PROVE  IndInv'
<1> USE DEF TypeOK, Live, Running, lnVars, suspVars, destVars, argVars, strmVars
<1> DEFINE Conv == /\ LiveListed /\ ClosersCover /\ EmergencyOnce
                   /\ QuietDuringDump /\ RouteCurrent /\ OnlyNilPanic
<1>0. /\ UNCHANGED <<lst, suspVars, exec>>
      /\ Conv
  BY DEF Environment, Forwarder, Closer, ClientConnect, PeerCloses, UpstreamStalls,
     DownstreamStalls, ForwarderStart, ForwarderSetup, DialOk, DialFails, ForwarderDone,
     UpstreamEnds, UpstreamWriteFails, DownstreamEnds, DownstreamWriteFails,
     ForwarderRemove, CloserRuns, CloserReturns, IndInv
<1>1. PortMutex' /\ SuspendedBy' /\ TokenForWaiter' /\ ListenerParked'
  BY <1>0 DEF IndInv, PortMutex, SuspendedBy, TokenForWaiter, ListenerParked
<1>2. Conv'
  <2> USE <1>0 DEF LiveListed, ClosersCover, EmergencyOnce, QuietDuringDump,
                   RouteCurrent, OnlyNilPanic
  <2>1. CASE ClientConnect(c)
    BY <2>1 DEF ClientConnect
  <2>2. CASE PeerCloses(c, "client") \/ PeerCloses(c, "server")
    BY <2>2 DEF PeerCloses
  <2>3. CASE UpstreamStalls(c) \/ DownstreamStalls(c)
    BY <2>3 DEF UpstreamStalls, DownstreamStalls
  <2>4. CASE ForwarderStart(c)
    BY <2>4 DEF ForwarderStart
  <2>5. CASE ForwarderSetup(c)
    BY <2>5 DEF ForwarderSetup
  <2>6. CASE DialOk(c) \/ DialFails(c) \/ ForwarderDone(c)
    BY <2>6 DEF DialOk, DialFails, ForwarderDone
  <2>7. CASE UpstreamEnds(c) \/ UpstreamWriteFails(c)
    BY <2>7 DEF UpstreamEnds, UpstreamWriteFails
  <2>8. CASE DownstreamEnds(c)
    BY <2>8 DEF DownstreamEnds, CloseUpstream
  <2>9. CASE DownstreamWriteFails(c)
    BY <2>9 DEF DownstreamWriteFails, CloseUpstream
  <2>10. CASE ForwarderRemove(c)
    BY <2>10 DEF ForwarderRemove
  <2>11. CASE CloserRuns(c)
    BY <2>11 DEF CloserRuns, CloseUpstream
  <2>12. CASE CloserReturns(c)
    BY <2>12 DEF CloserReturns
  <2> QED
    BY <2>1, <2>2, <2>3, <2>4, <2>5, <2>6, <2>7, <2>8, <2>9, <2>10, <2>11, <2>12
    DEF Environment, Forwarder, Closer
<1> QED
  BY <1>1, <1>2 DEF IndInv

(* A migration's steps.  PortMutex makes m the only one past net.Listen.   *)
LEMMA IndExec ==
  ASSUME TypeOK, IndInv, ~panicked, NEW m \in Migrations, Exec(m)
  PROVE  IndInv'
<1> USE DEF TypeOK, Goto, Holding, Suspending, Acked, Quiet,
            lnVars, suspVars, destVars, argVars, strmVars
<1> DEFINE Handshake == PortMutex /\ SuspendedBy /\ TokenForWaiter /\ ListenerParked
           Conv == /\ LiveListed /\ ClosersCover /\ EmergencyOnce
                   /\ QuietDuringDump /\ RouteCurrent /\ OnlyNilPanic
<1>1. CASE ExecListen(m) \/ ExecListenFails(m) \/ ExecPrepareFails(m) \/ ExecReturn(m)
  <2>1. Handshake'
    BY <1>1 DEF ExecListen, ExecListenFails, ExecPrepareFails, ExecReturn,
       IndInv, PortMutex, SuspendedBy, TokenForWaiter, ListenerParked
  <2>2. Conv'
    BY <1>1 DEF ExecListen, ExecListenFails, ExecPrepareFails, ExecReturn, IndInv,
       LiveListed, ClosersCover, EmergencyOnce, QuietDuringDump, RouteCurrent, OnlyNilPanic
  <2> QED
    BY <2>1, <2>2 DEF IndInv
<1>2. CASE Suspend(m) \/ Resume(m) \/ SuspendAck(m)
  <2>1. Handshake'
    BY <1>2 DEF Suspend, Resume, SuspendAck, LFree, Broadcast,
       IndInv, PortMutex, SuspendedBy, TokenForWaiter, ListenerParked
  <2>2. Conv'
    BY <1>2 DEF Suspend, Resume, SuspendAck, IndInv,
       LiveListed, ClosersCover, EmergencyOnce, QuietDuringDump, RouteCurrent, OnlyNilPanic
  <2> QED
    BY <2>1, <2>2 DEF IndInv
<1>3. CASE CloseAllForwarders(m)
  <2>1. isSuspended
    BY <1>3 DEF CloseAllForwarders, IndInv, SuspendedBy
  <2>2. Handshake'
    BY <1>3, <2>1 DEF CloseAllForwarders, MustBeSuspended,
       IndInv, PortMutex, SuspendedBy, TokenForWaiter, ListenerParked
  <2>3. Conv'
    BY <1>3, <2>1 DEF CloseAllForwarders, MustBeSuspended, IndInv, PortMutex,
       LiveListed, ClosersCover, EmergencyOnce, QuietDuringDump, RouteCurrent, OnlyNilPanic
  <2> QED
    BY <2>2, <2>3 DEF IndInv
<1>4. CASE CloseAllReturns(m)
  <2>1. \A c \in Conns : conn[c] \notin Live
    BY <1>4 DEF CloseAllReturns, IndInv, ClosersCover
  <2>2. Handshake'
    BY <1>4 DEF CloseAllReturns, IndInv, PortMutex, SuspendedBy, TokenForWaiter, ListenerParked
  <2>3. Conv'
    BY <1>4, <2>1 DEF CloseAllReturns, IndInv,
       LiveListed, ClosersCover, EmergencyOnce, QuietDuringDump, RouteCurrent, OnlyNilPanic
  <2> QED
    BY <2>2, <2>3 DEF IndInv
<1>5. CASE FinalDumpOk(m) \/ FinalDumpFails(m) \/ WaitForResume(m)
  <2>1. Handshake'
    BY <1>5 DEF FinalDumpOk, FinalDumpFails, WaitForResume,
       IndInv, PortMutex, SuspendedBy, TokenForWaiter, ListenerParked
  <2>2. Conv'
    BY <1>5 DEF FinalDumpOk, FinalDumpFails, WaitForResume, IndInv,
       LiveListed, ClosersCover, EmergencyOnce, QuietDuringDump, RouteCurrent, OnlyNilPanic
  <2> QED
    BY <2>1, <2>2 DEF IndInv
<1>6. CASE ChangeServerAddr(m)
  <2>1. isSuspended
    BY <1>6 DEF ChangeServerAddr, IndInv, SuspendedBy
  <2>2. \A c \in Conns : conn[c] \notin Live
    BY <1>6 DEF ChangeServerAddr, IndInv, QuietDuringDump
  <2>3. PortMutex' /\ SuspendedBy'
    BY <1>6, <2>1 DEF ChangeServerAddr, MustBeSuspended, IndInv, PortMutex, SuspendedBy
  <2>4. TokenForWaiter' /\ ListenerParked'
    BY <1>6, <2>1 DEF ChangeServerAddr, MustBeSuspended, IndInv, TokenForWaiter, ListenerParked
  <2>5. Conv'
    BY <1>6, <2>1, <2>2 DEF ChangeServerAddr, MustBeSuspended, IndInv, Live,
       LiveListed, ClosersCover, EmergencyOnce, QuietDuringDump, RouteCurrent, OnlyNilPanic
  <2> QED
    BY <2>3, <2>4, <2>5 DEF IndInv
<1>7. CASE ChangeDataRate(m)
  <2>1. isSuspended
    BY <1>7 DEF ChangeDataRate, IndInv, SuspendedBy
  <2>2. \A c \in Conns : conn[c] \notin Live
    BY <1>7 DEF ChangeDataRate, IndInv, QuietDuringDump
  <2>3. PortMutex' /\ SuspendedBy'
    BY <1>7, <2>1 DEF ChangeDataRate, MustBeSuspended, IndInv, PortMutex, SuspendedBy
  <2>4. TokenForWaiter' /\ ListenerParked'
    BY <1>7, <2>1 DEF ChangeDataRate, MustBeSuspended, IndInv, TokenForWaiter, ListenerParked
  <2>5. Conv'
    BY <1>7, <2>1, <2>2 DEF ChangeDataRate, MustBeSuspended, IndInv, Live,
       LiveListed, ClosersCover, EmergencyOnce, QuietDuringDump, RouteCurrent, OnlyNilPanic
  <2> QED
    BY <2>3, <2>4, <2>5 DEF IndInv
<1> QED
  BY <1>1, <1>2, <1>3, <1>4, <1>5, <1>6, <1>7 DEF Exec

LEMMA IndStep == TypeOK /\ IndInv /\ [Next]_vars => IndInv'
<1> SUFFICES ASSUME TypeOK, IndInv, [Next]_vars PROVE IndInv'
  OBVIOUS
<1>1. CASE Next /\ Listener
  BY <1>1, IndListener
<1>2. CASE Next /\ (Close \/ ListenerClose)
  BY <1>2 DEF Close, ListenerClose, TypeOK, Live, Running, lnVars, suspVars, destVars,
     argVars, strmVars, IndInv, PortMutex, SuspendedBy, TokenForWaiter, ListenerParked,
     LiveListed, ClosersCover, EmergencyOnce, QuietDuringDump, RouteCurrent, OnlyNilPanic
<1>3. CASE Next /\ \E c \in Conns : Environment(c) \/ Forwarder(c) \/ Closer(c)
  BY <1>3, IndConn DEF Next
<1>4. CASE Next /\ \E m \in Migrations : Exec(m)
  BY <1>4, IndExec DEF Next
<1>5. CASE UNCHANGED vars
  BY <1>5 DEF vars, lnVars, suspVars, destVars,
     argVars, strmVars, IndInv, PortMutex, SuspendedBy, TokenForWaiter, ListenerParked,
     LiveListed, ClosersCover, EmergencyOnce, QuietDuringDump, RouteCurrent, OnlyNilPanic
<1> QED
  BY <1>1, <1>2, <1>3, <1>4, <1>5 DEF Next

LEMMA Inductive == Spec => [](TypeOK /\ IndInv)
<1>1. TypeOK /\ IndInv /\ [Next]_vars => (TypeOK /\ IndInv)'
  BY TypeStep, IndStep
<1> QED
  BY TypeInit, IndInit, <1>1, PTL DEF Spec

(* No forwarder runs or can start between the return of CloseAllForwarders *)
(* and the deferred Resume of a migration.                                 *)
THEOREM DumpIsQuiet == Spec => []QuietDuringDump
<1>1. IndInv => QuietDuringDump
  BY DEF IndInv
<1> QED
  BY Inductive, <1>1, PTL

(* Every running forwarder uses the current server address and data rate.  *)
THEOREM RouteIsCurrent == Spec => []RouteCurrent
<1>1. IndInv => RouteCurrent
  BY DEF IndInv
<1> QED
  BY Inductive, <1>1, PTL

(* The assertions of fwdsvc.go and the second close of a channel are       *)
(* unreachable: the one panic left is Close on an unstarted forwarder.     *)
THEOREM PanicsOnlyOnNil == Spec => []OnlyNilPanic
<1>1. IndInv => OnlyNilPanic
  BY DEF IndInv
<1> QED
  BY Inductive, <1>1, PTL

(* The listener never blocks on chanSuspend while it holds condSuspend.L.  *)
THEOREM AckIsNonBlocking == Spec => []AckNeverBlocks
<1>1. TypeOK /\ IndInv => AckNeverBlocks
  BY DEF TypeOK, IndInv, TokenForWaiter, AckNeverBlocks
<1> QED
  BY Inductive, <1>1, PTL

-----------------------------------------------------------------------------
(* Refinement. *)

LEMMA SessionsSame ==
  ASSUME UNCHANGED addr, \A d \in Conns : conn'[d] \in Running <=> conn[d] \in Running
  PROVE  Sessions' = Sessions
  BY DEF Sessions

LEMMA RouteStep ==
  ASSUME TypeOK, TypeOK', IndInv, Next
  PROVE  [Route!Next]_(Route!vars)
<1> USE DEF TypeOK, lnVars, suspVars, destVars, argVars, strmVars
<1> DEFINE Frame == serverAddr' = serverAddr /\ Sessions' = Sessions
<1>0. Frame => [Route!Next]_(Route!vars)
  BY DEF Route!vars
<1>1. CASE Listener
  <2>1. Frame
    BY <1>1, SessionsSame DEF Listener, ListenerCheck, ListenerSend, ListenerWake,
       AcceptTimeout, AcceptFails, AcceptConn, PushForwarder, Running
  <2> QED
    BY <1>0, <2>1
<1>2. CASE Close \/ ListenerClose
  <2>1. Frame
    BY <1>2, SessionsSame DEF Close, ListenerClose, Running
  <2> QED
    BY <1>0, <2>1
<1>3. ASSUME NEW c \in Conns, Environment(c) \/ Forwarder(c) \/ Closer(c)
      PROVE  [Route!Next]_(Route!vars)
  <2>1. CASE ForwarderStart(c)
    <3>1. Sessions' = Sessions \cup {<<c, serverAddr>>}
      BY <2>1 DEF ForwarderStart, Sessions, Running
    <3>2. \A a \in Addrs : <<c, a>> \notin Sessions
      BY <2>1 DEF ForwarderStart, Sessions, Running
    <3>3. Route!Open(c)
      BY <2>1, <3>1, <3>2 DEF ForwarderStart, Route!Open
    <3> QED
      BY <3>3 DEF Route!Next
  <2>2. CASE DialFails(c) \/ ForwarderDone(c)
    <3>1. <<c, addr[c]>> \in Sessions /\ <<c, addr[c]>> \in Conns \X Addrs
      BY <2>2 DEF DialFails, ForwarderDone, Sessions, Running
    <3>2. Sessions' = Sessions \ {<<c, addr[c]>>}
      BY <2>2 DEF DialFails, ForwarderDone, Sessions, Running
    <3>3. Route!End(<<c, addr[c]>>)
      BY <2>2, <3>1, <3>2 DEF DialFails, ForwarderDone, Route!End
    <3> QED
      BY <3>1, <3>3 DEF Route!Next
  <2>3. CASE ClientConnect(c) \/ DialOk(c) \/ ForwarderSetup(c) \/ ForwarderRemove(c)
    <3>1. Frame
      BY <2>3, SessionsSame
      DEF ClientConnect, DialOk, ForwarderSetup, ForwarderRemove, Running
    <3> QED
      BY <1>0, <3>1
  <2>4. CASE UNCHANGED <<serverAddr, addr, conn>>
    BY <2>4, <1>0, SessionsSame
  <2> QED
    BY <1>3, <2>1, <2>2, <2>3, <2>4
    DEF Environment, Forwarder, Closer, PeerCloses, UpstreamStalls, DownstreamStalls,
        UpstreamEnds, UpstreamWriteFails, DownstreamEnds, DownstreamWriteFails,
        CloserRuns, CloserReturns
<1>4. ASSUME NEW m \in Migrations, Exec(m)
      PROVE  [Route!Next]_(Route!vars)
  <2>1. CASE ChangeServerAddr(m)
    <3>1. Sessions = {} /\ Sessions' = {}
      BY <2>1 DEF ChangeServerAddr, Goto, IndInv, QuietDuringDump, Quiet, Live, Sessions
    <3>2. Route!Switch(serverAddr')
      BY <3>1 DEF Route!Switch
    <3> QED
      BY <3>2 DEF Route!Next
  <2>2. CASE UNCHANGED <<serverAddr, addr, conn>>
    BY <2>2, <1>0, SessionsSame
  <2> QED
    BY <1>4, <2>1, <2>2
    DEF Exec, ExecListen, ExecListenFails, ExecPrepareFails, Suspend, SuspendAck,
        CloseAllForwarders, CloseAllReturns, FinalDumpOk, FinalDumpFails, WaitForResume,
        ChangeDataRate, Resume, ExecReturn
<1> QED
  BY <1>1, <1>2, <1>3, <1>4 DEF Next

(* The forwarding service implements the switched route: a migration moves *)
(* the backend only while no client session is open.                       *)
THEOREM ImplementsRoute == Spec => SwitchesRoute
<1>1. Init => Route!Init
  BY DEF Init, Route!Init, Sessions, Running
<1>2. TypeOK /\ TypeOK' /\ IndInv /\ [Next]_vars => [Route!Next]_(Route!vars)
  <2>1. UNCHANGED vars => UNCHANGED Route!vars
    BY DEF vars, destVars, argVars, Route!vars, Sessions
  <2> QED
    BY <2>1, RouteStep
<1> QED
  BY Inductive, <1>1, <1>2, PTL DEF Spec, SwitchesRoute, Route!Spec
=============================================================================
