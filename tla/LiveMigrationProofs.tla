------------------------ MODULE LiveMigrationProofs ------------------------
(***************************************************************************)
(* Proofs about LiveMigration, for any migrations, applications, sources,  *)
(* iteration counts and faults.                                            *)
(***************************************************************************)
EXTENDS LiveMigration, TLAPS

(* TypeOK without the bounds of the loop counters and the directories:     *)
(* those are the subject of Counters and Directories below.                *)
TypeInv ==
    /\ exec \in [Migrations -> ExecStates]
    /\ itr \in [Migrations -> Nat]
    /\ resumed \in [Migrations -> {"open", "signal", "error"}]
    /\ timedOut \in [Migrations -> BOOLEAN]
    /\ route \in [Migrations -> {"src", "dst"}]
    /\ portFwd \in [Migrations -> {"none", "open", "stopping"}]
    /\ svc \in [Migrations -> SvcStates]
    /\ itercnt \in [Migrations -> Nat \ {0}]
    /\ tunnel \in [Migrations -> {"none", "open", "closing"}]
    /\ conn \in [Migrations -> {"none", "open", "closed", "broken"}]
    /\ req \in [Migrations -> {"none", "preDump", "dump"}]
    /\ resp \in [Migrations -> {"none", "ok", "error"}]
    /\ cmd \in [Migrations -> CmdStates]
    /\ dir \in [Migrations -> Nat]
    /\ app \in [Apps -> {"running", "dumped"}]
    /\ srcImg \in [Apps -> Images]
    /\ dstImg \in [Migrations -> Images]
    /\ restored \in [Migrations -> RestoredStates]
    /\ crashed \subseteq Sources \cup {"dst"}

(* exec, the dump services and the pods start with values of their types.  *)
LEMMA TypeInit == Init => TypeInv
  BY LMAssumption DEF LMAssumption, Init, TypeInv, ExecStates, SvcStates, CmdStates,
     RestoredStates, Images, NoImages, Final

(* Every step of exec keeps the types. *)
LEMMA TypeExec ==
  ASSUME TypeInv, NEW m \in Migrations, Exec(m)
  PROVE  TypeInv'
<1> USE DEF TypeInv, ExecStates, Holding, Waiting, Ended, Goto, Return,
            execVars, svcVars, msgVars, podVars
<1>1. CASE ExecListen(m) \/ ExecListenFails(m) \/ Prepare(m) \/ PrepareFails(m)
  BY <1>1 DEF ExecListen, ExecListenFails, Prepare, PrepareFails
<1>2. CASE DumpStarted(m) \/ DumpStartFails(m) \/ Dial(m) \/ DialFails(m)
  BY <1>2 DEF DumpStarted, DumpStartFails, Dial, DialFails
<1>3. CASE OpenPortFwd(m) \/ OpenPortFwdFails(m)
  BY <1>3 DEF OpenPortFwd, OpenPortFwdFails, AfterPreDumps
<1>4. CASE SendPreDump(m) \/ SendDump(m)
  BY <1>4 DEF SendPreDump, SendDump, Send
<1>5. CASE RecvPreDumpOk(m)
  BY <1>5 DEF RecvPreDumpOk, AfterPreDumps
<1>9. CASE RecvError(m)
  BY <1>9 DEF RecvError
<1>6. CASE RecvDumpOk(m)
  BY <1>6 DEF RecvDumpOk, RestoredStates
<1>7. CASE SuspendForwarding(m) \/ WaitForResume(m) \/ SwitchAndReturn(m)
  BY <1>7 DEF SuspendForwarding, WaitForResume, SwitchAndReturn
<1>8. CASE WaitTimeout(m)
  <2>1. timedOut' = [timedOut EXCEPT ![m] = TRUE]
    BY <1>8 DEF WaitTimeout
  <2>2. timedOut' \in [Migrations -> BOOLEAN]
    BY <2>1, Zenon
  <2> QED
    BY <1>8, <2>2 DEF WaitTimeout
<1> QED
  BY <1>1, <1>2, <1>3, <1>4, <1>5, <1>6, <1>7, <1>8, <1>9 DEF Exec

(* So does every step of a dump service and of what breaks. *)
LEMMA TypeService ==
  ASSUME TypeInv, NEW m \in Migrations, DumpService(m) \/ Break(m)
  PROVE  TypeInv'
<1> USE DEF TypeInv, ExecStates, Holding, Waiting, Ended, SvcStates, Serving, CmdStates, Goto,
            SvcGoto, execVars, svcVars, msgVars, podVars
<1>1. CASE Start(m) \/ SvcAccept(m) \/ SvcReadEOF(m) \/ SvcAcceptFails(m)
  BY <1>1 DEF Start, SvcAccept, SvcReadEOF, SvcAcceptFails
<1>2. CASE SvcRead(m)
  BY <1>2 DEF SvcRead, Final
<1>3. ASSUME NEW r \in {"ok", "error"}, Answer(m, r), cmd' \in [Migrations -> CmdStates]
      PROVE  TypeInv'
  <2>1. resp' \in [Migrations -> {"none", "ok", "error"}]
    BY <1>3 DEF Answer
  <2> QED
    BY <1>3, <2>1 DEF Answer
<1>6. CASE Respond(m) \/ StreamBreaks(m)
  <2>1. cmd' \in [Migrations -> CmdStates]
    BY <1>6 DEF Respond, StreamBreaks
  <2> QED
    BY <1>3, <1>6, <2>1 DEF Respond, StreamBreaks
<1>4. CASE ConnBreaks(m)
  BY <1>4 DEF ConnBreaks
<1>5. CASE ExecHangs(m) \/ ResumeAcceptFails(m)
  BY <1>5 DEF ExecHangs, ResumeAcceptFails
<1> QED
  BY <1>1, <1>2, <1>4, <1>5, <1>6 DEF DumpService, Break

(* So does every step of a command, of the closing of tunnel and           *)
(* port-forward, and of criu restore.                                      *)
LEMMA TypeRest ==
  ASSUME TypeInv, NEW m \in Migrations, Command(m) \/ Background(m) \/ Pod(m)
  PROVE  TypeInv'
<1> USE LMAssumption
    DEF LMAssumption, TypeInv, CmdStates, CmdGoto, execVars, svcVars, msgVars, podVars
<1>1. CASE CriuPreDump(m)
  BY <1>1 DEF CriuPreDump, Images
<1>2. CASE CriuDump(m)
  BY <1>2 DEF CriuDump, Images
<1>3. CASE CriuFails(m) \/ RsyncFails(m) \/ RsyncHangs(m)
  BY <1>3 DEF CriuFails, RsyncFails, RsyncHangs
<1>4. CASE Rsync(m)
  <2>1. PICK n \in Migrations :
          dstImg' = [dstImg EXCEPT ![n] = [d \in Dirs |->
                       IF srcImg[App[m]][d] = NoMigration THEN @[d] ELSE srcImg[App[m]][d]]]
    BY <1>4 DEF Rsync
  <2>2. srcImg[App[m]] \in Images /\ dstImg[n] \in Images
    BY <2>1
  <2>3. [d \in Dirs |-> IF srcImg[App[m]][d] = NoMigration THEN dstImg[n][d]
                        ELSE srcImg[App[m]][d]] \in Images
    BY <2>2 DEF Images
  <2>4. dstImg' \in [Migrations -> Images]
    BY <2>1, <2>3
  <2> QED
    BY <1>4, <2>4 DEF Rsync
<1>5. CASE Background(m)
  BY <1>5 DEF Background, PortFwdStops, TunnelCloses
<1>6. CASE Pod(m)
  BY <1>6 DEF Pod, CriuRestore, CriuRestoreFails, PostResume, Signal, RestoredStates, Runs
<1> QED
  BY <1>1, <1>2, <1>3, <1>4, <1>5, <1>6 DEF Command

(* And so does every step. *)
LEMMA TypeStep == TypeInv /\ [Next]_vars => TypeInv'
<1> SUFFICES ASSUME TypeInv, [Next]_vars PROVE TypeInv'
  OBVIOUS
<1>1. CASE DestCrash \/ \E h \in Sources : SourceCrash(h)
  BY <1>1 DEF DestCrash, SourceCrash, TypeInv, ExecStates, Ended, SvcStates, CmdStates,
     execVars, svcVars, msgVars, podVars
<1>2. CASE UNCHANGED vars
  BY <1>2 DEF vars, TypeInv, execVars, svcVars, msgVars, podVars
<1> QED
  BY <1>1, <1>2, TypeExec, TypeService, TypeRest DEF Next, Crash

-----------------------------------------------------------------------------
(* The inductive invariant. *)

DestUp == "dst" \notin crashed

(* "final" is one of the image directories. *)
LEMMA FinalIsDir == Final \in Dirs
  BY LMAssumption DEF LMAssumption, Final, Dirs

(* What criu dump writes into "final" is read back from it. *)
LEMMA WritesFinal ==
  ASSUME NEW m \in Migrations, App[m] \in Apps, srcImg \in [Apps -> Images],
         srcImg' = [srcImg EXCEPT ![App[m]][Final] = m]
  PROVE  srcImg'[App[m]][Final] = m
<1>1. srcImg[App[m]] \in [Dirs -> Migrations \cup {NoMigration}]
  BY DEF Images
<1>2. srcImg'[App[m]] = [srcImg[App[m]] EXCEPT ![Final] = m]
  OBVIOUS
<1> QED
  BY <1>1, <1>2, FinalIsDir

(* Only the two criu commands write images on the source, and only the     *)
(* final one removes a process.                                            *)
LEMMA OnlyCriuWrites ==
  ASSUME [Next]_vars, \A m \in Migrations : ~CriuPreDump(m) /\ ~CriuDump(m)
  PROVE  UNCHANGED <<app, srcImg>>
<1> USE DEF execVars, svcVars, msgVars, podVars
<1>1. ASSUME NEW m \in Migrations, Exec(m) PROVE UNCHANGED <<app, srcImg>>
  BY <1>1
  DEF Exec, ExecListen, ExecListenFails, Prepare, PrepareFails, DumpStarted,
      DumpStartFails, Dial, DialFails, OpenPortFwd, OpenPortFwdFails, SendPreDump, SendDump,
      Send, RecvPreDumpOk, RecvError, RecvDumpOk, SuspendForwarding, WaitForResume,
      WaitTimeout, SwitchAndReturn
<1>2. ASSUME NEW m \in Migrations, DumpService(m) \/ Break(m) PROVE UNCHANGED <<app, srcImg>>
  BY <1>2
  DEF DumpService, Break, Start, SvcAccept, SvcRead, SvcReadEOF, Respond, Answer, ConnBreaks,
      ExecHangs, ResumeAcceptFails, SvcAcceptFails, StreamBreaks
<1>3. ASSUME NEW m \in Migrations, Command(m) \/ Background(m) \/ Pod(m)
      PROVE  UNCHANGED <<app, srcImg>>
  BY <1>3
  DEF Command, Background, Pod, CriuFails, Rsync, RsyncFails, RsyncHangs, PortFwdStops,
      TunnelCloses, CriuRestore, CriuRestoreFails, PostResume
<1>4. CASE Crash \/ UNCHANGED vars
  BY <1>4 DEF Crash, DestCrash, SourceCrash, vars
<1> QED
  BY <1>1, <1>2, <1>3, <1>4 DEF Next

(* No image and no message exists at the start. *)
LEMMA IndInit == Init => IndInv
<1> SUFFICES ASSUME Init PROVE IndInv
  OBVIOUS
<1>1. \A m \in Migrations : srcImg[App[m]][Final] = NoMigration
  BY LMAssumption, FinalIsDir DEF LMAssumption, Init, NoImages
<1> QED
  BY <1>1
  DEF Init, IndInv, FinalMeansDumped, OneMessage, DumpForWaiter, FinalAsked, OkMeansFinal,
      FinalIs, CommandKnown

(* What IndInv says of the messages, without the images. *)
Messages == OneMessage /\ DumpForWaiter /\ CommandKnown

(* The steps of exec keep to one message at a time. *)
LEMMA MessagesExec ==
  ASSUME TypeInv, Messages, NEW m \in Migrations, Exec(m)
  PROVE  Messages'
<1> USE DEF TypeInv, Goto, Return, Waiting, Ended, Holding, ExecStates, execVars, svcVars,
            msgVars, podVars, Messages, OneMessage, DumpForWaiter, FinalAsked, Abandoned,
            CommandKnown
<1>1. CASE ExecListen(m) \/ ExecListenFails(m) \/ Prepare(m) \/ PrepareFails(m)
  BY <1>1 DEF ExecListen, ExecListenFails, Prepare, PrepareFails
<1>2. CASE DumpStarted(m)
  BY <1>2 DEF DumpStarted
<1>10. CASE DumpStartFails(m)
  <2>1. /\ exec[m] = "dumpStart" /\ exec' = [exec EXCEPT ![m] = "returned"]
        /\ conn' = [conn EXCEPT ![m] = IF @ = "open" THEN "closed" ELSE @]
        /\ UNCHANGED <<svc, req, resp, cmd, dir, crashed>>
    BY <1>10 DEF DumpStartFails
  <2>2. req[m] = "none" /\ resp[m] = "none" /\ svc[m] # "run" /\ cmd[m] = "none"
    BY <2>1
  <2> QED
    BY <2>1, <2>2
<1>3. CASE Dial(m) \/ DialFails(m)
  BY <1>3 DEF Dial, DialFails
<1>4. CASE OpenPortFwd(m) \/ OpenPortFwdFails(m)
  BY <1>4 DEF OpenPortFwd, OpenPortFwdFails, AfterPreDumps
<1>5. CASE SendPreDump(m) \/ SendDump(m)
  BY <1>5 DEF SendPreDump, SendDump, Send
<1>6. CASE RecvPreDumpOk(m)
  BY <1>6 DEF RecvPreDumpOk, AfterPreDumps
<1>7. CASE RecvError(m)
  BY <1>7 DEF RecvError
<1>8. CASE RecvDumpOk(m)
  BY <1>8 DEF RecvDumpOk
<1>9. CASE SuspendForwarding(m) \/ WaitForResume(m) \/ WaitTimeout(m) \/ SwitchAndReturn(m)
  BY <1>9 DEF SuspendForwarding, WaitForResume, WaitTimeout, SwitchAndReturn
<1> QED
  BY <1>1, <1>2, <1>3, <1>4, <1>5, <1>6, <1>7, <1>8, <1>9, <1>10 DEF Exec

(* So do the steps of a dump service and of what breaks: a command is left *)
(* alone only with an error on its way to exec, or with exec gone.         *)
LEMMA MessagesService ==
  ASSUME TypeInv, Messages, NEW m \in Migrations, DumpService(m) \/ Break(m)
  PROVE  Messages'
<1> USE DEF TypeInv, SvcGoto, Goto, Serving, SvcStates, CmdStates, Waiting, Ended, Holding,
            ExecStates, execVars, svcVars, msgVars, podVars, Messages, OneMessage,
            DumpForWaiter, FinalAsked, Abandoned, CommandKnown
<1>1. CASE Start(m) \/ SvcAccept(m) \/ SvcAcceptFails(m)
  BY <1>1 DEF Start, SvcAccept, SvcAcceptFails
<1>2. CASE SvcRead(m)
  <2> DEFINE to == IF req[m] = "preDump" THEN itercnt[m] ELSE Final
  <2>1. /\ svc[m] = "read" /\ svc' = [svc EXCEPT ![m] = "run"]
        /\ req[m] # "none" /\ req' = [req EXCEPT ![m] = "none"]
        /\ cmd' = [cmd EXCEPT ![m] = "criu"] /\ dir' = [dir EXCEPT ![m] = to]
        /\ UNCHANGED <<exec, conn, resp, crashed>>
    BY <1>2 DEF SvcRead
  <2>2. cmd[m] = "none" /\ resp[m] = "none" /\ exec[m] \in Waiting \cup Ended
    BY <2>1
  <2>3. req[m] = "preDump" \/ (req[m] = "dump" /\ to = Final)
    BY <2>1
  <2>4. to = Final => req[m] = "dump"
    BY <2>1 DEF Final
  <2> HIDE DEF to
  <2>5. \A n \in Migrations \ {m} :
           /\ svc'[n] = svc[n] /\ req'[n] = req[n] /\ cmd'[n] = cmd[n] /\ dir'[n] = dir[n]
    BY <2>1
  <2>6. svc'[m] = "run" /\ req'[m] = "none" /\ cmd'[m] = "criu" /\ dir'[m] = to
    BY <2>1
  <2>7. OneMessage'
    BY <2>1, <2>2, <2>5, <2>6
  <2>8. CommandKnown'
    BY <2>1, <2>2, <2>5, <2>6
  <2>9. DumpForWaiter'
    BY <2>1, <2>2, <2>3, <2>4, <2>5, <2>6
  <2> QED
    BY <2>7, <2>8, <2>9
<1>3. CASE SvcReadEOF(m)
  BY <1>3 DEF SvcReadEOF
<1>4. CASE Respond(m)
  BY <1>4 DEF Respond, Answer
<1>5. CASE StreamBreaks(m)
  BY <1>5 DEF StreamBreaks, Answer
<1>6. CASE ConnBreaks(m)
  BY <1>6 DEF ConnBreaks
<1>7. CASE ExecHangs(m) \/ ResumeAcceptFails(m)
  BY <1>7 DEF ExecHangs, ResumeAcceptFails
<1> QED
  BY <1>1, <1>2, <1>3, <1>4, <1>5, <1>6, <1>7 DEF DumpService, Break

(* The other steps send no message. *)
LEMMA MessagesRest ==
  ASSUME TypeInv, Messages,
         \/ \E m \in Migrations : Command(m) \/ Background(m) \/ Pod(m)
         \/ Crash \/ UNCHANGED vars
  PROVE  Messages'
<1> USE DEF TypeInv, CmdGoto, CmdStates, execVars, svcVars, msgVars, podVars, Messages,
            OneMessage, DumpForWaiter, FinalAsked, Abandoned, CommandKnown
<1>1. ASSUME NEW m \in Migrations, Command(m) PROVE Messages'
  BY <1>1 DEF Command, CriuPreDump, CriuDump, CriuFails, Rsync, RsyncFails, RsyncHangs
<1>2. ASSUME NEW m \in Migrations, Background(m) PROVE Messages'
  BY <1>2 DEF Background, PortFwdStops, TunnelCloses
<1>3. ASSUME NEW m \in Migrations, Pod(m) PROVE Messages'
  BY <1>3 DEF Pod, CriuRestore, CriuRestoreFails, PostResume
<1>4. CASE DestCrash
  BY <1>4 DEF DestCrash, Waiting, Ended, Holding, ExecStates
<1>5. CASE \E h \in Sources : SourceCrash(h)
  BY <1>5 DEF SourceCrash, Serving, SvcStates
<1>6. CASE UNCHANGED vars
  BY <1>6 DEF vars
<1> QED
  BY <1>1, <1>2, <1>3, <1>4, <1>5, <1>6 DEF Crash

(* What IndInv says of the images. *)
Finals == FinalMeansDumped /\ OkMeansFinal

(* A step that writes no image and reports no new "ok". *)
LEMMA FinalsKept ==
  ASSUME Finals, UNCHANGED <<app, srcImg>>,
         \A n \in Migrations :
            /\ cmd'[n] \in {"rsync", "ok"} /\ dir'[n] = Final
                 => cmd[n] \in {"rsync", "ok"} /\ dir[n] = Final
            /\ exec'[n] = "dumpWait" /\ resp'[n] = "ok" => FinalIs(n)
            /\ restored'[n] # "none" => FinalIs(n)
  PROVE  Finals'
  BY DEF Finals, FinalMeansDumped, OkMeansFinal, FinalIs

(* exec only reads the images: what it needs to know is in the messages.   *)
LEMMA FinalsExec ==
  ASSUME TypeInv, Messages, Finals, NEW m \in Migrations, Exec(m)
  PROVE  Finals'
<1> USE DEF TypeInv, Goto, Return, Waiting, execVars, svcVars, msgVars, podVars
<1>1. UNCHANGED <<app, srcImg, cmd, dir>>
  BY DEF Exec, ExecListen, ExecListenFails, Prepare, PrepareFails, DumpStarted,
     DumpStartFails, Dial, DialFails, OpenPortFwd, OpenPortFwdFails, SendPreDump, SendDump,
     Send, RecvPreDumpOk, RecvError, RecvDumpOk, SuspendForwarding, WaitForResume,
     WaitTimeout, SwitchAndReturn
<1>2. \A n \in Migrations : restored'[n] # "none" => FinalIs(n)
  BY DEF Exec, ExecListen, ExecListenFails, Prepare, PrepareFails, DumpStarted,
     DumpStartFails, Dial, DialFails, OpenPortFwd, OpenPortFwdFails, SendPreDump, SendDump,
     Send, RecvPreDumpOk, RecvError, RecvDumpOk, SuspendForwarding, WaitForResume,
     WaitTimeout, SwitchAndReturn, Finals, OkMeansFinal
<1>3. \A n \in Migrations : exec'[n] = "dumpWait" /\ resp'[n] = "ok" => FinalIs(n)
  <2> SUFFICES ASSUME NEW n \in Migrations, exec'[n] = "dumpWait", resp'[n] = "ok"
               PROVE  exec[n] = "dumpWait" /\ resp[n] = "ok"
    BY DEF Finals, OkMeansFinal
  <2>1. resp[n] = "ok"
    BY DEF Exec, ExecListen, ExecListenFails, Prepare, PrepareFails, DumpStarted,
       DumpStartFails, Dial, DialFails, OpenPortFwd, OpenPortFwdFails, SendPreDump, SendDump,
       Send, RecvPreDumpOk, RecvError, RecvDumpOk, SuspendForwarding, WaitForResume,
       WaitTimeout, SwitchAndReturn
  <2>2. exec[n] # "dump"
    BY <2>1 DEF Messages, OneMessage, Ended
  <2> QED
    BY <2>1, <2>2
    DEF Exec, ExecListen, ExecListenFails, Prepare, PrepareFails, DumpStarted,
        DumpStartFails, Dial, DialFails, OpenPortFwd, OpenPortFwdFails, AfterPreDumps,
        SendPreDump, SendDump, Send, RecvPreDumpOk, RecvError, RecvDumpOk, SuspendForwarding,
        WaitForResume, WaitTimeout, SwitchAndReturn
<1> QED
  BY <1>1, <1>2, <1>3, FinalsKept

(* The service reports the exit status of the command: "ok" of a final     *)
(* dump comes after the image.                                             *)
LEMMA FinalsService ==
  ASSUME TypeInv, Messages, Finals, NEW m \in Migrations, DumpService(m) \/ Break(m)
  PROVE  Finals'
<1> USE DEF TypeInv, Goto, SvcGoto, Answer, execVars, svcVars, msgVars, podVars
<1>1. /\ UNCHANGED <<app, srcImg, restored>>
      /\ \A n \in Migrations : cmd'[n] \in {"rsync", "ok"} => cmd[n] = cmd'[n] /\ dir'[n] = dir[n]
      /\ \A n \in Migrations : exec'[n] = "dumpWait" => exec[n] = "dumpWait"
  BY DEF DumpService, Break, Start, SvcAccept, SvcRead, SvcReadEOF, Respond, ConnBreaks,
     ExecHangs, ResumeAcceptFails, SvcAcceptFails, StreamBreaks
<1>2. \A n \in Migrations : resp'[n] = "ok" =>
         resp[n] = "ok" \/ (svc[n] = "run" /\ cmd[n] = "ok")
  BY DEF DumpService, Break, Start, SvcAccept, SvcRead, SvcReadEOF, Respond, ConnBreaks,
     ExecHangs, ResumeAcceptFails, SvcAcceptFails, StreamBreaks
<1>3. \A n \in Migrations : exec'[n] = "dumpWait" /\ resp'[n] = "ok" => FinalIs(n)
  BY <1>1, <1>2 DEF Messages, DumpForWaiter, Finals, OkMeansFinal
<1> QED
  BY <1>1, <1>3, FinalsKept DEF Finals, OkMeansFinal

(* CRIU writes the final image once: the process it needs is gone after.   *)
LEMMA FinalsCommand ==
  ASSUME TypeInv, Finals, NEW m \in Migrations, Command(m)
  PROVE  Finals'
<1> USE DEF TypeInv, CmdGoto, execVars, svcVars, msgVars, podVars
<1>0. App[m] \in Apps /\ \A n \in Migrations : n # NoMigration /\ App[n] \in Apps
  BY LMAssumption DEF LMAssumption, NoMigration
<1>1. CASE CriuPreDump(m)
  <2>1. dir[m] # Final /\ srcImg' = [srcImg EXCEPT ![App[m]][dir[m]] = m]
    BY <1>1 DEF CriuPreDump
  <2>2. \A n \in Migrations : srcImg'[App[n]][Final] = srcImg[App[n]][Final]
    BY <1>0, <2>1, FinalIsDir DEF Images
  <2>3. /\ UNCHANGED <<app, exec, resp, restored, dir>>
        /\ cmd' = [cmd EXCEPT ![m] = "rsync"]
    BY <1>1 DEF CriuPreDump
  <2> QED
    BY <2>1, <2>2, <2>3 DEF Finals, FinalMeansDumped, OkMeansFinal, FinalIs
<1>2. CASE CriuDump(m)
  <2>1. \A n \in Migrations : FinalIs(n) => App[n] # App[m]
    BY <1>0, <1>2 DEF CriuDump, Finals, FinalMeansDumped, FinalIs
  <2>2. \A n \in Migrations : App[n] # App[m] =>
            srcImg'[App[n]] = srcImg[App[n]] /\ app'[App[n]] = app[App[n]]
    BY <1>0, <1>2 DEF CriuDump
  <2>3. srcImg'[App[m]][Final] = m
    BY <1>0, <1>2, WritesFinal DEF CriuDump
  <2>4. app'[App[m]] = "dumped"
    BY <1>0, <1>2 DEF CriuDump
  <2>5. FinalMeansDumped'
    BY <2>2, <2>4 DEF Finals, FinalMeansDumped
  <2>6. FinalIs(m)' /\ \A n \in Migrations : FinalIs(n) => FinalIs(n)'
    BY <2>1, <2>2, <2>3 DEF FinalIs
  <2>7. /\ UNCHANGED <<exec, resp, restored, dir>>
        /\ cmd' = [cmd EXCEPT ![m] = "rsync"]
    BY <1>2 DEF CriuDump
  <2>8. OkMeansFinal'
    BY <2>6, <2>7 DEF Finals, OkMeansFinal
  <2> QED
    BY <2>5, <2>8 DEF Finals
<1>3. CASE CriuFails(m) \/ RsyncFails(m) \/ RsyncHangs(m) \/ Rsync(m)
  <2>1. UNCHANGED <<app, srcImg, exec, resp, restored, dir>>
    BY <1>3 DEF CriuFails, RsyncFails, RsyncHangs, Rsync
  <2>2. \A n \in Migrations : cmd'[n] \in {"rsync", "ok"} => cmd[n] \in {"rsync", "ok"}
    BY <1>3 DEF CriuFails, RsyncFails, RsyncHangs, Rsync
  <2> QED
    BY <2>1, <2>2, FinalsKept DEF Finals, OkMeansFinal
<1> QED
  BY <1>1, <1>2, <1>3 DEF Command

(* The other steps write nothing. *)
LEMMA FinalsRest ==
  ASSUME TypeInv, Finals,
         \/ \E m \in Migrations : Background(m) \/ Pod(m)
         \/ Crash \/ UNCHANGED vars
  PROVE  Finals'
<1> USE DEF TypeInv, execVars, svcVars, msgVars, podVars
<1>1. ASSUME NEW m \in Migrations, Background(m) PROVE Finals'
  BY <1>1, FinalsKept DEF Background, PortFwdStops, TunnelCloses, Finals, OkMeansFinal
<1>2. ASSUME NEW m \in Migrations, Pod(m) PROVE Finals'
  BY <1>2, FinalsKept DEF Pod, CriuRestore, CriuRestoreFails, PostResume, Finals, OkMeansFinal
<1>3. CASE DestCrash
  BY <1>3, FinalsKept DEF DestCrash, Finals, OkMeansFinal
<1>4. CASE \E h \in Sources : SourceCrash(h)
  BY <1>4, FinalsKept DEF SourceCrash, Finals, OkMeansFinal
<1>5. CASE UNCHANGED vars
  BY <1>5, FinalsKept DEF vars, Finals, OkMeansFinal
<1> QED
  BY <1>1, <1>2, <1>3, <1>4, <1>5 DEF Crash

(* Every step keeps IndInv. *)
LEMMA IndStep == TypeInv /\ IndInv /\ [Next]_vars => IndInv'
<1> SUFFICES ASSUME TypeInv, IndInv, [Next]_vars PROVE IndInv'
  OBVIOUS
<1>1. Messages /\ Finals
  BY DEF IndInv, Messages, Finals
<1>2. Messages'
  BY <1>1, MessagesExec, MessagesService, MessagesRest DEF Next
<1>3. Finals'
  BY <1>1, FinalsExec, FinalsService, FinalsCommand, FinalsRest DEF Next
<1> QED
  BY <1>2, <1>3 DEF IndInv, Messages, Finals

(* IndInv holds in every reachable state. *)
LEMMA Inductive == Spec => [](TypeInv /\ IndInv)
<1>1. TypeInv /\ IndInv /\ [Next]_vars => (TypeInv /\ IndInv)'
  BY TypeStep, IndStep
<1> QED
  BY TypeInit, IndInit, <1>1, PTL DEF Spec

(* No application ever runs in two pods, whatever fails or crashes. *)
THEOREM NoSplitBrain == Spec => []AtMostOneInstance
<1>1. IndInv => AtMostOneInstance
  BY LMAssumption DEF LMAssumption, IndInv, FinalMeansDumped, OkMeansFinal, FinalIs,
     NoMigration, AtMostOneInstance, Runs
<1> QED
  BY Inductive, <1>1, PTL

-----------------------------------------------------------------------------
(* The loop counters: exec counts the answers it has seen, the dump        *)
(* service the answers it has sent, from one.                              *)

(* exec before its first request, and after the answer to its last. *)
Before == {"idle", "prepare", "dumpStart", "dial", "openPortFwd"}
After == {"restore", "switch"}

(* A request is on its way or served. *)
Asked(m) == req[m] # "none" \/ svc[m] = "run"

(* The service is one ahead of exec, and two from its answer to the moment *)
(* exec reads it: so pre-dump d of exec is the directory d of the service. *)
Counters ==
    \A m \in Migrations :
        /\ itr[m] <= PreDumps(m)
        /\ itercnt[m] = itr[m] + 1 \/ itercnt[m] = itr[m] + 2
        /\ Asked(m) => itercnt[m] = itr[m] + 1
        /\ resp[m] # "none" => itercnt[m] = itr[m] + 2
        /\ exec[m] \notin After \cup Ended /\ resp[m] = "none" => itercnt[m] = itr[m] + 1
        /\ exec[m] \in Before => itr[m] = 0
        /\ exec[m] \in {"preDump", "preWait"} => itr[m] < PreDumps(m)
        /\ exec[m] \in {"suspend", "dump", "dumpWait"} \cup After => itr[m] = PreDumps(m)

(* The directory of a command belongs to the request it answers, also when *)
(* exec is gone: "final" after the last pre-dump, before it the next one.  *)
Directories ==
    \A m \in Migrations :
        /\ dir[m] \in Dirs
        /\ req[m] = "preDump" => itr[m] < PreDumps(m)
        /\ FinalAsked(m) => itr[m] = PreDumps(m)
        /\ svc[m] = "run" /\ dir[m] # Final => dir[m] = itr[m] + 1
        /\ exec[m] = "preWait" /\ cmd[m] # "none" => dir[m] # Final

(* What exec holds, and what it has left when it is gone: an exec that     *)
(* returned leaves no request behind, unless its connection broke.         *)
Holds ==
    \A m \in Migrations :
        /\ exec[m] \in {"openPortFwd"} \cup (Holding \ (Before \cup {"hung"})) => conn[m] = "open"
        /\ exec[m] \in Holding \ (Before \cup {"hung"}) => portFwd[m] = "open"
        /\ portFwd[m] = "open" => exec[m] \in Holding
        /\ exec[m] = "returned" =>
              conn[m] = "broken" \/ (svc[m] # "run" /\ (req[m] = "none" \/ svc[m] = "ended"))
        /\ exec[m] = "crashed" => ~DestUp
        /\ conn[m] = "broken" => exec[m] = "returned"
        /\ exec[m] \notin After \cup Ended => restored[m] = "none"

(* The listener of LM_HostResumeSigPort makes the migrations to a host     *)
(* exclude each other, that of LM_HostDataPort their port-forwards.        *)
OneHolder ==
    \A m, n \in Migrations :
        /\ exec[m] \in Holding /\ exec[n] \in Holding => m = n
        /\ portFwd[m] # "none" /\ portFwd[n] # "none" => m = n

(* Zero pre-dumps asked for are one, and a negative number is none. *)
LEMMA PreDumpsBound ==
  ASSUME NEW m \in Migrations
  PROVE  PreDumps(m) \in 0..MaxIteration
<1>1. Iteration[m] \in Int /\ Iteration[m] <= MaxIteration /\ MaxIteration \in Nat \ {0}
  BY LMAssumption DEF LMAssumption
<1>2. CASE Iteration[m] > 0
  BY <1>1, <1>2 DEF PreDumps
<1>3. CASE Iteration[m] = 0
  BY <1>1, <1>3 DEF PreDumps
<1>4. CASE Iteration[m] < 0
  BY <1>1, <1>4 DEF PreDumps
<1> QED
  BY <1>1, <1>2, <1>3, <1>4

(* exec goes on with a pre-dump exactly when one is left. *)
LEMMA AfterPreDumpsIs ==
  ASSUME NEW m \in Migrations, NEW i \in Nat, i <= PreDumps(m)
  PROVE  \/ AfterPreDumps(m, i) = "preDump" /\ i < PreDumps(m)
         \/ AfterPreDumps(m, i) \in {"suspend", "dump"} /\ i = PreDumps(m)
  BY PreDumpsBound, LMAssumption DEF AfterPreDumps, LMAssumption

(* exec counts an answer when it reads it. *)
LEMMA CountersExec ==
  ASSUME TypeInv, IndInv, Holds, Counters, NEW m \in Migrations, Exec(m)
  PROVE  Counters'
<1> USE PreDumpsBound DEF TypeInv, Goto, Return, Waiting, Ended, Holding, ExecStates, Before,
        After, Asked, Counters, IndInv, OneMessage, execVars, svcVars, msgVars, podVars
<1>1. CASE ExecListen(m) \/ ExecListenFails(m) \/ Prepare(m) \/ PrepareFails(m)
  BY <1>1 DEF ExecListen, ExecListenFails, Prepare, PrepareFails
<1>2. CASE DumpStarted(m) \/ Dial(m) \/ DialFails(m)
  BY <1>2 DEF DumpStarted, Dial, DialFails
<1>8. CASE DumpStartFails(m)
  BY <1>8 DEF DumpStartFails
<1>3. CASE OpenPortFwd(m) \/ OpenPortFwdFails(m)
  BY <1>3, AfterPreDumpsIs DEF OpenPortFwd, OpenPortFwdFails
<1>4. CASE SendPreDump(m) \/ SendDump(m)
  BY <1>4 DEF SendPreDump, SendDump, Send
<1>5. CASE RecvPreDumpOk(m)
  <2> DEFINE to == AfterPreDumps(m, itr[m] + 1)
  <2>1. /\ resp[m] = "ok" /\ exec[m] = "preWait"
        /\ exec' = [exec EXCEPT ![m] = to]
        /\ itr' = [itr EXCEPT ![m] = itr[m] + 1]
        /\ resp' = [resp EXCEPT ![m] = "none"]
        /\ UNCHANGED <<svc, itercnt, req>>
    BY <1>5 DEF RecvPreDumpOk
  <2>2. /\ itr[m] < PreDumps(m) /\ itercnt[m] = itr[m] + 2 /\ req[m] = "none"
        /\ svc[m] # "run" /\ itr[m] \in Nat /\ PreDumps(m) \in Int
    BY <2>1, LMAssumption DEF LMAssumption
  <2>3. \/ to = "preDump" /\ itr[m] + 1 < PreDumps(m)
        \/ to \in {"suspend", "dump"} /\ itr[m] + 1 = PreDumps(m)
    BY <2>2, AfterPreDumpsIs
  <2> HIDE DEF to
  <2>4. exec'[m] = to /\ itr'[m] = itr[m] + 1 /\ resp'[m] = "none"
    BY <2>1
  <2>5. \A n \in Migrations \ {m} : exec'[n] = exec[n] /\ itr'[n] = itr[n] /\ resp'[n] = resp[n]
    BY <2>1
  <2> QED
    BY <2>1, <2>2, <2>3, <2>4, <2>5
<1>6. CASE RecvDumpOk(m) \/ RecvError(m)
  BY <1>6 DEF RecvDumpOk, RecvError
<1>7. CASE SuspendForwarding(m) \/ WaitForResume(m) \/ WaitTimeout(m) \/ SwitchAndReturn(m)
  BY <1>7 DEF SuspendForwarding, WaitForResume, WaitTimeout, SwitchAndReturn
<1> QED
  BY <1>1, <1>2, <1>3, <1>4, <1>5, <1>6, <1>7, <1>8 DEF Exec

(* The service counts an answer when it sends it, to an exec that waits or *)
(* is gone.                                                                *)
LEMMA CountersService ==
  ASSUME TypeInv, IndInv, Holds, Counters, NEW m \in Migrations, DumpService(m) \/ Break(m)
  PROVE  Counters'
<1> USE PreDumpsBound DEF TypeInv, SvcGoto, Goto, Waiting, Ended, Before,
        After, Asked, Counters, IndInv, OneMessage, execVars, svcVars, msgVars, podVars
<1>1. CASE Start(m) \/ SvcAccept(m) \/ SvcAcceptFails(m)
  BY <1>1 DEF Start, SvcAccept, SvcAcceptFails
<1>2. CASE SvcRead(m)
  BY <1>2 DEF SvcRead
<1>3. CASE SvcReadEOF(m)
  BY <1>3 DEF SvcReadEOF
<1>4. ASSUME NEW r \in {"ok", "error"}, Answer(m, r) PROVE Counters'
  <2>1. /\ svc[m] = "run" /\ svc' = [svc EXCEPT ![m] = "read"]
        /\ itercnt' = [itercnt EXCEPT ![m] = itercnt[m] + 1]
        /\ UNCHANGED <<exec, itr, conn, req>>
    BY <1>4 DEF Answer
  <2>2. /\ req[m] = "none" /\ resp[m] = "none" /\ itercnt[m] = itr[m] + 1
        /\ exec[m] \in Waiting \cup Ended
    BY <2>1
  <2>3. exec[m] \in Waiting => conn[m] = "open"
    BY DEF Holds, Holding
  <2>4. conn[m] = "open" => resp'[m] = r
    BY <1>4 DEF Answer
  <2>5. \A n \in Migrations \ {m} :
           itercnt'[n] = itercnt[n] /\ resp'[n] = resp[n] /\ svc'[n] = svc[n]
    BY <1>4 DEF Answer
  <2>6. svc'[m] = "read" /\ itercnt'[m] = itr[m] + 2
    BY <2>1, <2>2
  <2> QED
    BY <2>1, <2>2, <2>3, <2>4, <2>5, <2>6
<1>5. CASE ConnBreaks(m)
  BY <1>5 DEF ConnBreaks
<1>6. CASE ExecHangs(m) \/ ResumeAcceptFails(m)
  BY <1>6 DEF ExecHangs, ResumeAcceptFails
<1> QED
  BY <1>1, <1>2, <1>3, <1>4, <1>5, <1>6 DEF DumpService, Break, Respond, StreamBreaks

(* A request is sent with the count that its directory belongs to.         *)
LEMMA DirectoriesExec ==
  ASSUME TypeInv, IndInv, Counters, Directories, NEW m \in Migrations, Exec(m)
  PROVE  Directories'
<1> USE PreDumpsBound DEF TypeInv, Goto, Return, Waiting, Ended, Directories, FinalAsked,
        IndInv, OneMessage, CommandKnown, execVars, svcVars, msgVars, podVars
<1>1. CASE SendPreDump(m)
  BY <1>1 DEF SendPreDump, Send, Counters
<1>2. CASE SendDump(m)
  BY <1>2 DEF SendDump, Send, Counters, After
<1>3. CASE RecvPreDumpOk(m)
  <2>1. /\ resp[m] = "ok" /\ exec[m] = "preWait" /\ exec'[m] # "preWait"
        /\ itr' = [itr EXCEPT ![m] = @ + 1]
        /\ \A n \in Migrations \ {m} : exec'[n] = exec[n]
        /\ UNCHANGED <<svc, req, cmd, dir>>
    BY <1>3 DEF RecvPreDumpOk, AfterPreDumps
  <2>2. req[m] = "none" /\ cmd[m] = "none" /\ svc[m] # "run"
    BY <2>1
  <2> QED
    BY <2>1, <2>2
<1>4. ASSUME ~SendPreDump(m), ~SendDump(m), ~RecvPreDumpOk(m)
      PROVE  UNCHANGED <<itr, svc, req, cmd, dir>> /\
             \A n \in Migrations : exec'[n] = "preWait" => exec[n] = "preWait"
  BY <1>4
  DEF Exec, ExecListen, ExecListenFails, Prepare, PrepareFails, DumpStarted,
      DumpStartFails, Dial, DialFails, OpenPortFwd, OpenPortFwdFails, AfterPreDumps,
      RecvDumpOk, RecvError, SuspendForwarding, WaitForResume, WaitTimeout, SwitchAndReturn
<1> QED
  BY <1>1, <1>2, <1>3, <1>4

(* The service turns a request into its directory, and the command keeps   *)
(* it when the service or exec is gone.                                    *)
LEMMA DirectoriesService ==
  ASSUME TypeInv, IndInv, Counters, Directories, NEW m \in Migrations,
         DumpService(m) \/ Break(m)
  PROVE  Directories'
<1> USE DEF TypeInv, Goto, SvcGoto, Waiting, Ended, Directories, FinalAsked,
        IndInv, OneMessage, CommandKnown, execVars, svcVars, msgVars, podVars
<1>1. CASE SvcRead(m)
  <2> DEFINE to == IF req[m] = "preDump" THEN itercnt[m] ELSE Final
  <2>1. /\ svc[m] = "read" /\ svc' = [svc EXCEPT ![m] = "run"]
        /\ req[m] # "none" /\ req' = [req EXCEPT ![m] = "none"]
        /\ cmd' = [cmd EXCEPT ![m] = "criu"] /\ dir' = [dir EXCEPT ![m] = to]
        /\ UNCHANGED <<exec, itr, itercnt>>
    BY <1>1 DEF SvcRead
  <2>2. itr[m] \in Nat /\ PreDumps(m) \in 0..MaxIteration /\ MaxIteration \in Nat
    BY PreDumpsBound, LMAssumption DEF LMAssumption
  <2>3. CASE req[m] = "preDump"
    <3>1. itercnt[m] = itr[m] + 1 /\ itr[m] < PreDumps(m)
      BY <2>3 DEF Counters, Asked
    <3>2. to = itr[m] + 1 /\ to \in Dirs /\ to # Final
      BY <2>2, <2>3, <3>1 DEF Dirs, Final
    <3> HIDE DEF to
    <3> QED
      BY <2>1, <2>2, <3>1, <3>2
  <2>4. CASE req[m] = "dump"
    <3>1. to = Final /\ itr[m] = PreDumps(m) /\ exec[m] # "preWait"
      BY <2>1, <2>4 DEF DumpForWaiter
    <3> HIDE DEF to
    <3> QED
      BY <2>1, <2>2, <3>1, FinalIsDir
  <2> QED
    BY <2>1, <2>3, <2>4
<1>2. CASE Start(m) \/ SvcAccept(m) \/ SvcAcceptFails(m) \/ SvcReadEOF(m)
  BY <1>2 DEF Start, SvcAccept, SvcAcceptFails, SvcReadEOF
<1>3. CASE Respond(m)
  BY <1>3 DEF Respond, Answer
<1>4. CASE StreamBreaks(m)
  BY <1>4 DEF StreamBreaks, Answer
<1>5. CASE ConnBreaks(m) \/ ExecHangs(m) \/ ResumeAcceptFails(m)
  BY <1>5 DEF ConnBreaks, ExecHangs, ResumeAcceptFails
<1> QED
  BY <1>1, <1>2, <1>3, <1>4, <1>5 DEF DumpService, Break

(* Return closes what exec holds, and only an exec with no request open    *)
(* returns of itself.                                                      *)
LEMMA HoldsExec ==
  ASSUME TypeInv, IndInv, Holds, NEW m \in Migrations, Exec(m)
  PROVE  Holds'
<1> USE DEF TypeInv, Goto, Return, Waiting, Ended, Holding, ExecStates, Before,
        After, Holds, DestUp, IndInv, OneMessage, execVars, svcVars, msgVars, podVars
<1>1. CASE ExecListen(m) \/ ExecListenFails(m) \/ Prepare(m)
  BY <1>1 DEF ExecListen, ExecListenFails, Prepare
<1>2. CASE PrepareFails(m) \/ DialFails(m) \/ OpenPortFwdFails(m)
  BY <1>2 DEF PrepareFails, DialFails, OpenPortFwdFails
<1>11. CASE DumpStartFails(m)
  <2>1. /\ exec[m] = "dumpStart" /\ exec' = [exec EXCEPT ![m] = "returned"]
        /\ portFwd' = [portFwd EXCEPT ![m] = IF @ = "open" THEN "stopping" ELSE @]
        /\ conn' = [conn EXCEPT ![m] = IF @ = "open" THEN "closed" ELSE @]
        /\ UNCHANGED <<svc, req, restored, crashed>>
    BY <1>11 DEF DumpStartFails
  <2>2. req[m] = "none" /\ svc[m] # "run"
    BY <2>1
  <2> QED
    BY <2>1, <2>2
<1>3. CASE DumpStarted(m) \/ Dial(m)
  BY <1>3 DEF DumpStarted, Dial
<1>4. CASE OpenPortFwd(m)
  <2>1. AfterPreDumps(m, 0) \in {"preDump", "suspend", "dump"}
    BY DEF AfterPreDumps
  <2> DEFINE to == AfterPreDumps(m, 0)
  <2>2. /\ exec[m] = "openPortFwd" /\ exec' = [exec EXCEPT ![m] = to]
        /\ portFwd' = [portFwd EXCEPT ![m] = "open"]
        /\ UNCHANGED <<svc, conn, req, restored, crashed>>
    BY <1>4 DEF OpenPortFwd
  <2> HIDE DEF to
  <2>3. conn[m] = "open"
    BY <2>2
  <2>4. exec'[m] \in {"preDump", "suspend", "dump"} /\ conn'[m] = "open" /\ restored'[m] = "none"
    BY <2>1, <2>2, <2>3 DEF to
  <2>5. \A n \in Migrations \ {m} : exec'[n] = exec[n] /\ portFwd'[n] = portFwd[n]
    BY <2>2
  <2> QED
    BY <2>2, <2>4, <2>5
<1>5. CASE SendPreDump(m) \/ SendDump(m)
  BY <1>5 DEF SendPreDump, SendDump, Send
<1>6. CASE RecvPreDumpOk(m)
  <2> DEFINE to == AfterPreDumps(m, itr[m] + 1)
  <2>1. /\ exec[m] = "preWait" /\ exec' = [exec EXCEPT ![m] = to]
        /\ to \in {"preDump", "suspend", "dump"}
        /\ UNCHANGED <<portFwd, svc, conn, req, restored, crashed>>
    BY <1>6 DEF RecvPreDumpOk, AfterPreDumps
  <2> HIDE DEF to
  <2> QED
    BY <2>1
<1>7. CASE RecvDumpOk(m)
  BY <1>7 DEF RecvDumpOk
<1>8. CASE RecvError(m)
  BY <1>8 DEF RecvError
<1>9. CASE SuspendForwarding(m) \/ WaitForResume(m) \/ WaitTimeout(m)
  BY <1>9 DEF SuspendForwarding, WaitForResume, WaitTimeout
<1>10. CASE SwitchAndReturn(m)
  BY <1>10 DEF SwitchAndReturn
<1> QED
  BY <1>1, <1>2, <1>3, <1>4, <1>5, <1>6, <1>7, <1>8, <1>9, <1>10, <1>11 DEF Exec

(* The service of an exec that returned has nothing left to read, unless   *)
(* the connection broke.                                                   *)
LEMMA HoldsService ==
  ASSUME TypeInv, IndInv, Holds, NEW m \in Migrations, DumpService(m) \/ Break(m)
  PROVE  Holds'
<1> USE DEF TypeInv, SvcGoto, Goto, Ended, Before, After, Holding, Waiting, Holds, DestUp,
            IndInv, OneMessage, execVars, svcVars, msgVars, podVars
<1>1. CASE Start(m) \/ SvcAccept(m) \/ SvcAcceptFails(m)
  BY <1>1 DEF Start, SvcAccept, SvcAcceptFails
<1>2. CASE SvcRead(m)
  BY <1>2 DEF SvcRead
<1>3. CASE SvcReadEOF(m)
  BY <1>3 DEF SvcReadEOF
<1>4. CASE Respond(m) \/ StreamBreaks(m)
  BY <1>4 DEF Respond, StreamBreaks, Answer
<1>5. CASE ConnBreaks(m)
  BY <1>5 DEF ConnBreaks
<1>6. CASE ExecHangs(m) \/ ResumeAcceptFails(m)
  BY <1>6 DEF ExecHangs, ResumeAcceptFails
<1> QED
  BY <1>1, <1>2, <1>3, <1>4, <1>5, <1>6 DEF DumpService, Break

(* Only ExecListen starts to hold, and the listener refuses a second one;  *)
(* only OpenPortFwd takes the port of the port-forward.                    *)
LEMMA HolderStep ==
  ASSUME TypeInv, Holds, OneHolder, [Next]_vars
  PROVE  OneHolder'
<1> USE DEF TypeInv, Goto, Return, Holding, Waiting, execVars, svcVars, msgVars, podVars
<1>1. ASSUME NEW m \in Migrations, ExecListen(m) PROVE OneHolder'
  BY <1>1 DEF ExecListen, OneHolder
<1>2. ASSUME NEW m \in Migrations, OpenPortFwd(m) PROVE OneHolder'
  <2>1. \A n \in Migrations : exec'[n] \in Holding => exec[n] \in Holding
    BY <1>2 DEF OpenPortFwd, AfterPreDumps
  <2>2. \A n \in Migrations : portFwd'[n] # "none" => n = m
    BY <1>2 DEF OpenPortFwd
  <2> QED
    BY <2>1, <2>2 DEF OneHolder
<1>3. CASE \A m \in Migrations :
              /\ exec'[m] \in Holding => exec[m] \in Holding
              /\ portFwd'[m] # "none" => portFwd[m] # "none"
  BY <1>3 DEF OneHolder
<1>4. ASSUME NEW m \in Migrations, Exec(m), ~ExecListen(m), ~OpenPortFwd(m)
      PROVE  \A n \in Migrations :
                /\ exec'[n] \in Holding => exec[n] \in Holding
                /\ portFwd'[n] # "none" => portFwd[n] # "none"
  BY <1>4
  DEF Exec, ExecListenFails, Prepare, PrepareFails, DumpStarted, DumpStartFails, Dial,
      DialFails, OpenPortFwdFails, SendPreDump, SendDump, Send, RecvPreDumpOk, AfterPreDumps,
      RecvError, RecvDumpOk, SuspendForwarding, WaitForResume, WaitTimeout, SwitchAndReturn
<1>5. ASSUME NEW m \in Migrations, DumpService(m) \/ Break(m) \/ Command(m)
      PROVE  \A n \in Migrations :
                /\ exec'[n] \in Holding => exec[n] \in Holding
                /\ portFwd'[n] # "none" => portFwd[n] # "none"
  BY <1>5
  DEF Holds, Before, DumpService, Break, Command, Start, SvcAccept, SvcRead,
      SvcReadEOF, Respond, Answer,
      ConnBreaks, ExecHangs, ResumeAcceptFails, SvcAcceptFails, StreamBreaks, CriuPreDump,
      CriuDump, CriuFails, Rsync, RsyncFails, RsyncHangs
<1>6. ASSUME NEW m \in Migrations, Background(m) \/ Pod(m)
      PROVE  \A n \in Migrations :
                exec'[n] = exec[n] /\ (portFwd'[n] # "none" => portFwd[n] # "none")
  BY <1>6
  DEF Background, Pod, PortFwdStops, TunnelCloses, CriuRestore, CriuRestoreFails, PostResume
<1>7. CASE DestCrash
  BY <1>3, <1>7 DEF DestCrash
<1>8. CASE (\E h \in Sources : SourceCrash(h)) \/ UNCHANGED vars
  BY <1>3, <1>8 DEF SourceCrash, vars
<1> QED
  BY <1>1, <1>2, <1>3, <1>4, <1>5, <1>6, <1>7, <1>8 DEF Next, Crash

(* A crash breaks connections and ends goroutines, and counts nothing. *)
LEMMA CrashKeeps ==
  ASSUME TypeInv, IndInv, Holds, Counters, Directories, Crash
  PROVE  Holds' /\ Counters' /\ Directories'
<1> USE LMAssumption DEF LMAssumption, TypeInv, Waiting, Ended, Holding, ExecStates, Before,
        After, Asked, Counters, Directories, FinalAsked, Holds, DestUp, IndInv, OneMessage,
        Serving, SvcStates, CmdStates, execVars, svcVars, msgVars, podVars
<1>1. CASE DestCrash
  <2>1. Holds'
    BY <1>1 DEF DestCrash
  <2>2. Counters'
    BY <1>1 DEF DestCrash
  <2>3. Directories'
    BY <1>1 DEF DestCrash
  <2> QED
    BY <2>1, <2>2, <2>3
<1>2. ASSUME NEW h \in Sources, SourceCrash(h) PROVE Holds' /\ Counters' /\ Directories'
  <2>1. Holds'
    BY <1>2 DEF SourceCrash
  <2>2. Counters'
    BY <1>2 DEF SourceCrash
  <2>3. Directories'
    BY <1>2 DEF SourceCrash
  <2> QED
    BY <2>1, <2>2, <2>3
<1> QED
  BY <1>1, <1>2 DEF Crash

(* A command, the closing of tunnel and port-forward, and criu restore     *)
(* touch neither the counters nor what exec holds.                         *)
LEMMA RestKeeps ==
  ASSUME TypeInv, Holds, Counters, Directories, NEW m \in Migrations,
         Command(m) \/ Background(m) \/ Pod(m)
  PROVE  Holds' /\ Counters' /\ Directories'
<1> USE DEF execVars, svcVars, msgVars, podVars, TypeInv
<1>1. /\ UNCHANGED <<exec, itr, svc, itercnt, conn, req, resp, dir, crashed>>
      /\ \A n \in Migrations :
            /\ cmd'[n] # "none" <=> cmd[n] # "none"
            /\ cmd'[n] \in {"criu", "rsync", "hung"} => cmd[n] \in {"criu", "rsync", "hung"}
  BY DEF Command, Background, Pod, CmdGoto, CriuPreDump, CriuDump, CriuFails, Rsync, RsyncFails,
     RsyncHangs, PortFwdStops, TunnelCloses, CriuRestore, CriuRestoreFails, PostResume
<1>2. \A n \in Migrations :
         /\ restored'[n] = "none" <=> restored[n] = "none"
         /\ portFwd'[n] = "open" <=> portFwd[n] = "open"
  BY DEF Command, Background, Pod, CmdGoto, CriuPreDump, CriuDump, CriuFails, Rsync, RsyncFails,
     RsyncHangs, PortFwdStops, TunnelCloses, CriuRestore, CriuRestoreFails, PostResume
<1>3. Holds'
  BY <1>1, <1>2 DEF Holds, DestUp
<1>4. Counters'
  BY <1>1 DEF Counters, Asked
<1>5. Directories'
  BY <1>1 DEF Directories, FinalAsked
<1> QED
  BY <1>3, <1>4, <1>5

(* What the two sides hold and count, together. *)
Sides == Holds /\ OneHolder /\ Counters /\ Directories

(* At the start nothing is held and nothing is counted. *)
LEMMA SidesInit == Init => Sides
  BY PreDumpsBound, FinalIsDir, LMAssumption
  DEF Sides, LMAssumption, Init, Holds, OneHolder, Counters, Directories, FinalAsked, Asked,
      Before, After, Ended, Holding, Waiting

(* Every step keeps the counters in line. *)
LEMMA SidesStep ==
  ASSUME TypeInv, IndInv, Sides, [Next]_vars
  PROVE  Sides'
<1> USE DEF Sides
<1>1. ASSUME NEW m \in Migrations, Exec(m) PROVE Holds' /\ Counters' /\ Directories'
  BY <1>1, CountersExec, HoldsExec, DirectoriesExec
<1>2. ASSUME NEW m \in Migrations, DumpService(m) \/ Break(m)
      PROVE  Holds' /\ Counters' /\ Directories'
  BY <1>2, CountersService, HoldsService, DirectoriesService
<1>3. ASSUME NEW m \in Migrations, Command(m) \/ Background(m) \/ Pod(m)
      PROVE  Holds' /\ Counters' /\ Directories'
  BY <1>3, RestKeeps
<1>4. CASE UNCHANGED vars
  BY <1>4 DEF vars, execVars, svcVars, msgVars, podVars, Holds, DestUp, Counters, Asked,
     Directories, FinalAsked, OneHolder
<1> QED
  BY <1>1, <1>2, <1>3, <1>4, CrashKeeps, HolderStep DEF Next

(* The counters are in line in every reachable state. *)
LEMMA SidesInductive == Spec => [](TypeInv /\ IndInv /\ Sides)
<1>1. TypeInv /\ IndInv /\ Sides /\ [Next]_vars => (TypeInv /\ IndInv /\ Sides)'
  BY TypeStep, IndStep, SidesStep
<1> QED
  BY TypeInit, IndInit, SidesInit, <1>1, PTL DEF Spec

(* Type correctness: exec never counts more pre-dumps than were asked for, *)
(* the dump service's counter ends at most two beyond the last of them,    *)
(* and no command gets a directory beyond it.                              *)
THEOREM TypeCorrect == Spec => []TypeOK
<1>1. TypeInv /\ Counters /\ Directories => TypeOK
  <2> SUFFICES ASSUME TypeInv, Counters, Directories PROVE TypeOK
    OBVIOUS
  <2>1. MaxIteration \in Nat
    BY LMAssumption DEF LMAssumption
  <2>2. \A m \in Migrations : itr[m] \in 0..MaxIteration /\ itercnt[m] \in 1..(MaxIteration + 2)
    <3> TAKE m \in Migrations
    <3>1. PreDumps(m) \in Int /\ PreDumps(m) <= MaxIteration
      BY <2>1, PreDumpsBound
    <3>2. itr[m] \in Nat /\ itercnt[m] \in Nat \ {0}
      BY DEF TypeInv
    <3>3. itr[m] <= PreDumps(m) /\ itercnt[m] <= itr[m] + 2
      BY <3>2 DEF Counters
    <3> QED
      BY <2>1, <3>1, <3>2, <3>3
  <2>3. /\ itr \in [Migrations -> 0..MaxIteration]
        /\ itercnt \in [Migrations -> 1..(MaxIteration + 2)]
        /\ dir \in [Migrations -> Dirs]
    BY <2>2 DEF TypeInv, Directories
  <2> QED
    BY <2>3 DEF TypeInv, TypeOK
<1> QED
  BY SidesInductive, <1>1, PTL DEF Sides

(* CRIU removes the original only when all pre-dumps are answered and the  *)
(* final dump was asked for, and exec waits for its answer, unless it died *)
(* or lost the stream or connection of a command that goes on without it.  *)
THEOREM KillsOnlyForFinalDump == Spec => KilledOnlyInFinalDump
<1> DEFINE Kill ==
      \A a \in Apps : app[a] = "running" /\ app'[a] = "dumped" =>
          \E m \in Migrations :
              /\ App[m] = a /\ itr[m] = PreDumps(m)
              /\ \/ exec[m] = "dumpWait"
                 \/ exec[m] \in Ended /\ (Abandoned(m) \/ "dst" \in crashed)
<1>1. TypeInv /\ IndInv /\ Sides /\ [Next]_vars => Kill
  <2> SUFFICES ASSUME TypeInv, IndInv, Sides, [Next]_vars,
                      NEW a \in Apps, app[a] = "running", app'[a] = "dumped"
               PROVE  \E m \in Migrations :
                         /\ App[m] = a /\ itr[m] = PreDumps(m)
                         /\ \/ exec[m] = "dumpWait"
                            \/ exec[m] \in Ended /\ (Abandoned(m) \/ "dst" \in crashed)
    OBVIOUS
  <2>1. PICK m \in Migrations : CriuDump(m) \/ CriuPreDump(m)
    BY OnlyCriuWrites
  <2>2. CriuDump(m) /\ App[m] = a
    BY <2>1 DEF CriuDump, CriuPreDump, TypeInv
  <2>3. FinalAsked(m)
    BY <2>2 DEF CriuDump, CmdGoto, FinalAsked
  <2> QED
    BY <2>2, <2>3 DEF IndInv, DumpForWaiter, Sides, Directories
<1>2. TypeInv /\ IndInv /\ Sides /\ [Next]_vars => [Kill]_vars
  BY <1>1
<1> QED
  BY SidesInductive, <1>2, PTL DEF Spec, KilledOnlyInFinalDump

-----------------------------------------------------------------------------
(* The resume signal carries no name: whoever listens takes it.            *)

Clean == DestUp /\ \A n \in Migrations : ~Unsignalled(n)

(* As long as no exec went on without a signal and the destination lives,  *)
(* the exec whose process sends the signal still listens, and is the only  *)
(* one that does.                                                          *)
Signals ==
    Clean =>
        \A m \in Migrations :
            /\ restored[m] \notin {"none", "running"} => exec[m] = "restore"
            /\ resumed[m] # "open" => restored[m] = "running"
            /\ exec[m] = "switch" \/ route[m] = "dst" => restored[m] = "running"

(* exec goes to "switch" with a signal, which is its own, a timeout or the *)
(* error of its listener.                                                  *)
LEMMA SignalsExec ==
  ASSUME TypeInv, Holds, Signals, NEW m \in Migrations, Exec(m)
  PROVE  Signals'
<1> USE DEF TypeInv, Signals, Clean, Unsignalled, DestUp, Goto, Return, execVars, svcVars,
            msgVars, podVars
<1>1. CASE ExecListen(m) \/ ExecListenFails(m) \/ Prepare(m)
  BY <1>1 DEF ExecListen, ExecListenFails, Prepare
<1>2. CASE PrepareFails(m) \/ DumpStartFails(m) \/ DialFails(m) \/ OpenPortFwdFails(m)
  BY <1>2 DEF PrepareFails, DumpStartFails, DialFails, OpenPortFwdFails
<1>3. CASE DumpStarted(m) \/ Dial(m)
  BY <1>3 DEF DumpStarted, Dial
<1>4. CASE OpenPortFwd(m) \/ RecvPreDumpOk(m)
  BY <1>4 DEF OpenPortFwd, RecvPreDumpOk, AfterPreDumps
<1>5. CASE SendPreDump(m) \/ SendDump(m)
  BY <1>5 DEF SendPreDump, SendDump, Send
<1>6. CASE RecvDumpOk(m)
  BY <1>6 DEF RecvDumpOk, Holds, After, Ended
<1>7. CASE RecvError(m)
  BY <1>7 DEF RecvError, Waiting
<1>8. CASE SuspendForwarding(m) \/ WaitForResume(m)
  BY <1>8 DEF SuspendForwarding, WaitForResume
<1>9. CASE WaitTimeout(m)
  BY <1>9 DEF WaitTimeout
<1>10. CASE SwitchAndReturn(m)
  BY <1>10 DEF SwitchAndReturn
<1> QED
  BY <1>1, <1>2, <1>3, <1>4, <1>5, <1>6, <1>7, <1>8, <1>9, <1>10 DEF Exec

(* The signal of m finds only m listening. *)
LEMMA SignalsStep ==
  ASSUME TypeInv, Holds, OneHolder, Signals, [Next]_vars
  PROVE  Signals'
<1> USE DEF TypeInv, Signals, Clean, Unsignalled, DestUp, execVars, svcVars, msgVars, podVars
<1>1. ASSUME NEW m \in Migrations, CriuRestore(m) PROVE Signals'
  BY <1>1 DEF CriuRestore
<1>2. ASSUME NEW m \in Migrations, CriuRestoreFails(m) PROVE Signals'
  BY <1>2 DEF CriuRestoreFails
<1>3. ASSUME NEW m \in Migrations, PostResume(m) PROVE Signals'
  <2> SUFFICES ASSUME Clean' PROVE Signals'
    OBVIOUS
  <2>0. resumed' \in [Migrations -> {"open", "signal", "error"}] /\ Clean
    BY <1>3 DEF PostResume, Signal
  <2>1. exec[m] = "restore"
    BY <1>3, <2>0 DEF PostResume
  <2>2. \A n \in Migrations : exec[n] \in Holding => n = m
    BY <2>1 DEF OneHolder, Holding
  <2>3. \A n \in Migrations : resumed'[n] # "open" => resumed[n] # "open" \/ n = m
    BY <1>3, <2>2 DEF PostResume, Signal
  <2>4. restored'[m] = "running" /\ \A n \in Migrations \ {m} : restored'[n] = restored[n]
    BY <1>3 DEF PostResume
  <2>5. UNCHANGED <<exec, route>>
    BY <1>3 DEF PostResume
  <2> QED
    BY <2>0, <2>1, <2>3, <2>4, <2>5
<1>4. ASSUME NEW m \in Migrations, DumpService(m) \/ Background(m) \/ Command(m)
      PROVE  UNCHANGED <<exec, restored, resumed, route, timedOut, crashed>>
  BY <1>4
  DEF DumpService, Background, Command, Start, SvcAccept, SvcRead, SvcReadEOF, CriuPreDump,
      CriuDump, CriuFails, Rsync, RsyncFails, RsyncHangs, Respond, Answer, PortFwdStops,
      TunnelCloses
<1>5. CASE UNCHANGED <<exec, restored, resumed, route, timedOut, crashed>>
  BY <1>5
<1>6. CASE DestCrash
  BY <1>6 DEF DestCrash
<1>7. CASE \E h \in Sources : SourceCrash(h)
  BY <1>7 DEF SourceCrash
<1>8. CASE UNCHANGED vars
  BY <1>5, <1>8 DEF vars
<1>9. ASSUME NEW m \in Migrations, ConnBreaks(m) PROVE Signals'
  BY <1>9 DEF ConnBreaks, Goto, Waiting
<1>10. ASSUME NEW m \in Migrations, ExecHangs(m) PROVE Signals'
  BY <1>10 DEF ExecHangs, Goto
<1>11. ASSUME NEW m \in Migrations, ResumeAcceptFails(m) PROVE Signals'
  BY <1>11 DEF ResumeAcceptFails
<1>12. ASSUME NEW m \in Migrations, SvcAcceptFails(m) \/ StreamBreaks(m) PROVE Signals'
  BY <1>5, <1>12 DEF SvcAcceptFails, StreamBreaks, Answer
<1> QED
  BY <1>1, <1>2, <1>3, <1>4, <1>5, <1>6, <1>7, <1>8, <1>9, <1>10, <1>11, <1>12, SignalsExec
  DEF Next, Pod, Break, Crash

-----------------------------------------------------------------------------
(* The images: rsync goes to whatever pod is behind the port.              *)

(* The destination lives and no command goes on without its exec. *)
Calm == DestUp /\ \A n \in Migrations : ~Abandoned(n)

(* The answer to a request of exec at w is "ok", sent or about to be. *)
Ok(m, w) == exec[m] = w /\ (cmd[m] = "ok" \/ resp[m] = "ok")

(* The pre-dumps that exec has counted are in both pods. *)
Sent(m) == \A d \in 1..itr[m] : srcImg[App[m]][d] = m /\ dstImg[m][d] = m

(* Nothing is missing of what criu restore reads. *)
Whole(m) == \A d \in 0..PreDumps(m) : dstImg[m][d] = m

(* The command of m has written its pre-dump and sends it. *)
Sending(m) == cmd[m] = "rsync" /\ dir[m] # Final

(* While all is calm, the image chain of the exec that listens grows by    *)
(* one directory with each answer, and nobody writes into it.              *)
Chain ==
    Calm =>
        \A m \in Migrations :
            /\ exec[m] \in Holding => Sent(m)
            /\ Sending(m) \/ Ok(m, "preWait") => srcImg[App[m]][itr[m] + 1] = m
            /\ Ok(m, "preWait") => dstImg[m][itr[m] + 1] = m
            /\ Ok(m, "dumpWait") => dstImg[m][Final] = m
            /\ restored[m] # "none" => Whole(m)

(* A broken connection stays broken and an abandoned command abandoned:    *)
(* its service gets no other request.                                      *)
LEMMA CalmBefore ==
  ASSUME TypeInv, IndInv, Holds, [Next]_vars, Calm'
  PROVE  Calm
<1> USE DEF TypeInv, execVars, svcVars, msgVars, podVars
<1> DEFINE Lasts == \A n \in Migrations :
              /\ conn[n] = "broken" => conn'[n] = "broken"
              /\ cmd[n] # "none" /\ svc[n] # "run" => cmd'[n] # "none" /\ svc'[n] # "run"
<1>1. ASSUME NEW m \in Migrations, Exec(m) PROVE Lasts
  <2>1. \A n \in Migrations : conn[n] = "broken" => conn'[n] = "broken"
    BY <1>1
    DEF Holds, Goto, Return, Exec, ExecListen, ExecListenFails, Prepare, PrepareFails,
        DumpStarted, DumpStartFails, Dial, DialFails, OpenPortFwd, OpenPortFwdFails,
        SendPreDump, SendDump, Send, RecvPreDumpOk, RecvError, RecvDumpOk, SuspendForwarding,
        WaitForResume, WaitTimeout, SwitchAndReturn
  <2>2. UNCHANGED <<cmd, svc>>
    BY <1>1
    DEF Exec, ExecListen, ExecListenFails, Prepare, PrepareFails,
        DumpStarted, DumpStartFails, Dial, DialFails, OpenPortFwd, OpenPortFwdFails,
        SendPreDump, SendDump, Send, RecvPreDumpOk, RecvError, RecvDumpOk, SuspendForwarding,
        WaitForResume, WaitTimeout, SwitchAndReturn
  <2> QED
    BY <2>1, <2>2
<1>2. ASSUME NEW m \in Migrations, DumpService(m) \/ Break(m) PROVE Lasts
  <2>1. svc[m] = "none" => cmd[m] = "none"
    BY DEF IndInv, CommandKnown
  <2>2. req[m] # "none" => cmd[m] = "none"
    BY DEF IndInv, CommandKnown
  <2> QED
    BY <1>2, <2>1, <2>2
    DEF SvcGoto, Goto, DumpService, Break, Start, SvcAccept, SvcRead, SvcReadEOF, Respond,
        Answer, ConnBreaks, ExecHangs, ResumeAcceptFails, SvcAcceptFails, StreamBreaks
<1>3. ASSUME NEW m \in Migrations, Command(m) \/ Background(m) \/ Pod(m) PROVE Lasts
  BY <1>3
  DEF CmdGoto, Command, Background, Pod, CriuPreDump, CriuDump, CriuFails, Rsync, RsyncFails,
      RsyncHangs, PortFwdStops, TunnelCloses, CriuRestore, CriuRestoreFails, PostResume
<1>4. CASE DestCrash
  BY <1>4 DEF DestCrash, Calm, DestUp
<1>5. ASSUME NEW h \in Sources, SourceCrash(h) PROVE Lasts
  BY <1>5 DEF SourceCrash
<1>6. ASSUME UNCHANGED vars PROVE Lasts
  BY <1>6 DEF vars
<1>7. DestUp' => DestUp
  <2>1. crashed \subseteq crashed'
    <3>1. ASSUME NEW m \in Migrations, Exec(m) PROVE crashed' = crashed
      BY <3>1
      DEF Exec, ExecListen, ExecListenFails, Prepare, PrepareFails,
          DumpStarted, DumpStartFails, Dial, DialFails, OpenPortFwd, OpenPortFwdFails,
          SendPreDump, SendDump, Send, RecvPreDumpOk, RecvError, RecvDumpOk, SuspendForwarding,
          WaitForResume, WaitTimeout, SwitchAndReturn
    <3>2. ASSUME NEW m \in Migrations, DumpService(m) \/ Break(m) PROVE crashed' = crashed
      BY <3>2
      DEF DumpService, Break, Start, SvcAccept, SvcRead, SvcReadEOF, Respond,
          Answer, ConnBreaks, ExecHangs, ResumeAcceptFails, SvcAcceptFails, StreamBreaks
    <3>3. ASSUME NEW m \in Migrations, Command(m) \/ Background(m) \/ Pod(m)
          PROVE  crashed' = crashed
      BY <3>3
      DEF Command, Background, Pod, CriuPreDump, CriuDump, CriuFails, Rsync, RsyncFails,
          RsyncHangs, PortFwdStops, TunnelCloses, CriuRestore, CriuRestoreFails, PostResume
    <3>4. CASE Crash \/ UNCHANGED vars
      BY <3>4 DEF Crash, DestCrash, SourceCrash, vars
    <3> QED
      BY <3>1, <3>2, <3>3, <3>4 DEF Next
  <2> QED
    BY <2>1 DEF DestUp
<1>8. Lasts => Calm
  BY <1>7 DEF Calm, Abandoned
<1> QED
  BY <1>1, <1>2, <1>3, <1>4, <1>5, <1>6, <1>8 DEF Next, Crash

(* While all is calm, a command has the exec that asked for it waiting, so *)
(* it is that of the migration which holds the port.                       *)
LEMMA ServedHolds ==
  ASSUME TypeInv, IndInv, Sides, Calm, NEW m \in Migrations, cmd[m] # "none"
  PROVE  /\ svc[m] = "run" /\ resp[m] = "none" /\ exec[m] \in Waiting
         /\ dir[m] # Final => exec[m] = "preWait" /\ dir[m] = itr[m] + 1 /\ itr[m] < PreDumps(m)
         /\ dir[m] = Final => exec[m] = "dumpWait"
         /\ portFwd[m] = "open"
         /\ \A n \in Migrations \ {m} : exec[n] \notin Holding /\ cmd[n] = "none"
<1> USE DEF Sides
<1>1. \A n \in Migrations : cmd[n] # "none" => svc[n] = "run" /\ exec[n] \in Waiting
  <2> SUFFICES ASSUME NEW n \in Migrations, cmd[n] # "none"
               PROVE  svc[n] = "run" /\ exec[n] \in Waiting
    OBVIOUS
  <2>1. svc[n] = "run" /\ conn[n] # "broken" /\ DestUp
    BY DEF Calm, Abandoned
  <2>2. exec[n] \in Waiting \cup Ended
    BY DEF IndInv, CommandKnown
  <2>3. exec[n] # "returned" /\ exec[n] # "crashed"
    BY <2>1 DEF Holds
  <2> QED
    BY <2>1, <2>2, <2>3 DEF Ended
<1>2. svc[m] = "run" /\ exec[m] \in Waiting /\ resp[m] = "none"
  BY <1>1 DEF IndInv, OneMessage
<1>3. exec[m] \in Holding \ (Before \cup {"hung"})
  BY <1>2 DEF Holding, Before, Waiting
<1>4. \A n \in Migrations \ {m} : exec[n] \notin Holding
  BY <1>3 DEF OneHolder
<1>5. \A n \in Migrations \ {m} : cmd[n] = "none"
  BY <1>1, <1>4 DEF Holding
<1>6. portFwd[m] = "open"
  BY <1>3 DEF Holds
<1>7. dir[m] # Final => exec[m] = "preWait" /\ dir[m] = itr[m] + 1 /\ itr[m] < PreDumps(m)
  BY <1>2 DEF IndInv, DumpForWaiter, Directories, Counters, Waiting
<1>8. dir[m] = Final => exec[m] = "dumpWait"
  BY <1>2 DEF Directories, Waiting
<1> QED
  BY <1>2, <1>4, <1>5, <1>6, <1>7, <1>8

(* A step that writes no image and gives no answer. *)
LEMMA ChainKept ==
  ASSUME Chain, Calm' => Calm, UNCHANGED <<itr, srcImg, dstImg>>,
         \A n \in Migrations :
            /\ exec'[n] \in Holding => exec[n] \in Holding \/ itr[n] = 0
            /\ Sending(n)' => Sending(n)
            /\ Ok(n, "preWait")' => Ok(n, "preWait")
            /\ Ok(n, "dumpWait")' => Ok(n, "dumpWait")
            /\ restored'[n] # "none" => restored[n] # "none"
  PROVE  Chain'
<1> SUFFICES ASSUME Calm, NEW n \in Migrations
             PROVE  /\ exec'[n] \in Holding => Sent(n)'
                    /\ Sending(n)' \/ Ok(n, "preWait")' => srcImg[App[n]][itr[n] + 1] = n
                    /\ Ok(n, "preWait")' => dstImg[n][itr[n] + 1] = n
                    /\ Ok(n, "dumpWait")' => dstImg[n][Final] = n
                    /\ restored'[n] # "none" => Whole(n)'
  BY DEF Chain
<1>1. (Sent(n) => Sent(n)') /\ (Whole(n) => Whole(n)')
  BY DEF Sent, Whole
<1>2. itr[n] = 0 => Sent(n)'
  BY DEF Sent
<1> QED
  BY <1>1, <1>2 DEF Chain

(* The steps of exec that read no "ok" write nothing. *)
LEMMA ChainExec ==
  ASSUME TypeInv, IndInv, Sides, Chain, Calm' => Calm, NEW m \in Migrations, Exec(m),
         ~RecvPreDumpOk(m), ~RecvDumpOk(m)
  PROVE  Chain'
<1> USE DEF Sides, TypeInv, Goto, Return, Waiting, Ended, Holding, ExecStates, Ok,
            execVars, svcVars, msgVars, podVars
<1>1. /\ UNCHANGED <<itr, cmd, dir, srcImg, dstImg, restored>>
      /\ \A n \in Migrations : resp'[n] = "ok" => resp[n] = "ok"
      /\ \A n \in Migrations \ {m} : exec'[n] = exec[n]
      /\ exec'[m] \in Waiting => exec[m] \in {"preDump", "dump"}
      /\ exec'[m] \in Holding => exec[m] \in Holding \/ exec[m] = "idle"
  BY DEF Exec, ExecListen, ExecListenFails, Prepare, PrepareFails, DumpStarted,
     DumpStartFails, Dial, DialFails, OpenPortFwd, OpenPortFwdFails, AfterPreDumps,
     SendPreDump, SendDump, Send, RecvError, SuspendForwarding, WaitForResume, WaitTimeout,
     SwitchAndReturn
<1>2. exec[m] = "idle" => itr[m] = 0
  BY DEF Counters, Before
<1>3. exec[m] \in {"preDump", "dump"} => resp[m] = "none" /\ cmd[m] = "none"
  BY DEF IndInv, OneMessage, CommandKnown
<1>4. \A w \in Waiting, n \in Migrations : Ok(n, w)' => Ok(n, w)
  BY <1>1, <1>3
<1>5. \A n \in Migrations : Sending(n)' <=> Sending(n)
  BY <1>1 DEF Sending
<1> QED
  BY <1>1, <1>2, <1>4, <1>5, ChainKept

(* A pre-dump answered: its directory joins the chain. *)
LEMMA ChainPreDump ==
  ASSUME TypeInv, IndInv, Chain, Calm' => Calm, NEW m \in Migrations, RecvPreDumpOk(m)
  PROVE  Chain'
<1> USE DEF TypeInv
<1>1. /\ resp[m] = "ok" /\ exec[m] = "preWait"
      /\ exec' = [exec EXCEPT ![m] = AfterPreDumps(m, itr[m] + 1)]
      /\ itr' = [itr EXCEPT ![m] = @ + 1]
      /\ resp' = [resp EXCEPT ![m] = "none"]
      /\ UNCHANGED <<cmd, dir, srcImg, dstImg, restored>>
  BY DEF RecvPreDumpOk, Goto, podVars
<1> SUFFICES ASSUME Calm PROVE Chain'
  BY DEF Chain
<1>2. AfterPreDumps(m, itr[m] + 1) \in {"preDump", "suspend", "dump"}
  BY DEF AfterPreDumps
<1>3. exec'[m] \in {"preDump", "suspend", "dump"} /\ itr'[m] = itr[m] + 1
  BY <1>1, <1>2
<1>4. \A n \in Migrations \ {m} : exec'[n] = exec[n] /\ itr'[n] = itr[n] /\ resp'[n] = resp[n]
  BY <1>1
<1>5. cmd[m] = "none"
  BY <1>1 DEF IndInv, CommandKnown
<1>6. Sent(m)'
  <2>1. Sent(m) /\ srcImg[App[m]][itr[m] + 1] = m /\ dstImg[m][itr[m] + 1] = m
    BY <1>1 DEF Chain, Ok, Holding, Waiting
  <2>2. \A d \in 1..(itr[m] + 1) : d \in 1..itr[m] \/ d = itr[m] + 1
    OBVIOUS
  <2> QED
    BY <1>1, <1>3, <2>1, <2>2 DEF Sent
<1>7. \A n \in Migrations : Whole(n)' <=> Whole(n)
  BY <1>1 DEF Whole
<1>8. \A n \in Migrations \ {m} : Sent(n)' <=> Sent(n)
  BY <1>1, <1>4 DEF Sent
<1> QED
  BY <1>1, <1>3, <1>4, <1>5, <1>6, <1>7, <1>8 DEF Chain, Ok, Sending

(* The final dump answered: the chain is whole. *)
LEMMA ChainDump ==
  ASSUME TypeInv, IndInv, Counters, Chain, Calm' => Calm, NEW m \in Migrations, RecvDumpOk(m)
  PROVE  Chain'
<1> USE DEF TypeInv
<1>1. /\ resp[m] = "ok" /\ exec[m] = "dumpWait"
      /\ exec' = [exec EXCEPT ![m] = "restore"]
      /\ resp' = [resp EXCEPT ![m] = "none"]
      /\ restored' = [restored EXCEPT ![m] = "restoring"]
      /\ UNCHANGED <<itr, cmd, dir, srcImg, dstImg>>
  BY DEF RecvDumpOk, Goto
<1> SUFFICES ASSUME Calm PROVE Chain'
  BY DEF Chain
<1>2. \A n \in Migrations \ {m} :
         exec'[n] = exec[n] /\ restored'[n] = restored[n] /\ resp'[n] = resp[n]
  BY <1>1
<1>3. cmd[m] = "none" /\ exec'[m] = "restore"
  BY <1>1 DEF IndInv, CommandKnown
<1>4. Sent(m) /\ dstImg[m][Final] = m /\ itr[m] = PreDumps(m)
  BY <1>1 DEF Chain, Ok, Holding, Waiting, Counters
<1>5. Whole(m)
  <2>1. \A d \in 0..PreDumps(m) : d \in 1..PreDumps(m) \/ d = Final
    BY PreDumpsBound DEF Final
  <2> QED
    BY <1>4, <2>1 DEF Whole, Sent
<1>6. \A n \in Migrations : (Whole(n)' <=> Whole(n)) /\ (Sent(n)' <=> Sent(n))
  BY <1>1 DEF Whole, Sent
<1> QED
  BY <1>1, <1>2, <1>3, <1>4, <1>5, <1>6 DEF Chain, Ok, Sending

(* The command of m writes an image directory that exec has not counted.   *)
LEMMA ChainCriu ==
  ASSUME TypeInv, IndInv, Sides, Chain, Calm' => Calm, NEW m \in Migrations,
         CriuPreDump(m) \/ CriuDump(m)
  PROVE  Chain'
<1> USE DEF TypeInv
<1>1. /\ cmd[m] = "criu"
      /\ cmd' = [cmd EXCEPT ![m] = "rsync"]
      /\ srcImg' = [srcImg EXCEPT ![App[m]][dir[m]] = m]
      /\ UNCHANGED <<exec, itr, resp, dir, dstImg, restored>>
  BY DEF CriuPreDump, CriuDump, CmdGoto, execVars, msgVars
<1> SUFFICES ASSUME Calm PROVE Chain'
  BY DEF Chain
<1>2. /\ resp[m] = "none" /\ exec[m] \in Waiting
      /\ dir[m] # Final => dir[m] = itr[m] + 1
      /\ \A n \in Migrations \ {m} : exec[n] \notin Holding /\ cmd[n] = "none"
  BY <1>1, ServedHolds
<1>3. srcImg[App[m]] \in Images /\ srcImg'[App[m]] = [srcImg[App[m]] EXCEPT ![dir[m]] = m]
  BY <1>1, LMAssumption DEF LMAssumption
<1>4. /\ \A d \in Dirs \ {dir[m]} : srcImg'[App[m]][d] = srcImg[App[m]][d]
      /\ srcImg'[App[m]][dir[m]] = m
  BY <1>3 DEF Images, Sides, Directories
<1>5. itr[m] \in Nat /\ itr[m] <= PreDumps(m) /\ PreDumps(m) \in 0..MaxIteration /\ MaxIteration \in Nat
  BY PreDumpsBound, LMAssumption DEF LMAssumption, Sides, Counters
<1>6. 1..itr[m] \subseteq Dirs \ {dir[m]}
  BY <1>2, <1>5 DEF Dirs, Final
<1>7. Sent(m)'
  <2>1. Sent(m)
    BY <1>1, <1>2 DEF Chain, Holding
  <2> QED
    BY <1>1, <1>4, <1>6, <2>1 DEF Sent
<1>8. \A n \in Migrations : Whole(n)' <=> Whole(n)
  BY <1>1 DEF Whole
<1>9. cmd'[m] = "rsync" /\ \A n \in Migrations \ {m} : cmd'[n] = "none"
  BY <1>1, <1>2
<1>10. \A n \in Migrations \ {m} : exec'[n] \notin Waiting
  BY <1>1, <1>2 DEF Holding
<1>11. dir[m] # Final => srcImg'[App[m]][itr[m] + 1] = m
  BY <1>2, <1>4
<1> QED
  BY <1>1, <1>2, <1>7, <1>8, <1>9, <1>10, <1>11 DEF Chain, Ok, Sending, Waiting

(* rsync reaches the pod of the migration it belongs to: the only          *)
(* port-forward is that of the exec which waits for it.                    *)
LEMMA ChainRsync ==
  ASSUME TypeInv, IndInv, Sides, Chain, Calm' => Calm, NEW m \in Migrations, Rsync(m)
  PROVE  Chain'
<1> USE DEF TypeInv
<1>1. /\ cmd[m] = "rsync"
      /\ cmd' = [cmd EXCEPT ![m] = "ok"]
      /\ UNCHANGED <<exec, itr, resp, dir, srcImg, restored>>
  BY DEF Rsync, CmdGoto, execVars, msgVars
<1> SUFFICES ASSUME Calm PROVE Chain'
  BY DEF Chain
<1>2. /\ exec[m] \in Waiting /\ resp[m] = "none" /\ portFwd[m] = "open"
      /\ dir[m] # Final => exec[m] = "preWait" /\ dir[m] = itr[m] + 1 /\ itr[m] < PreDumps(m)
      /\ dir[m] = Final => exec[m] = "dumpWait"
      /\ \A n \in Migrations \ {m} : exec[n] \notin Holding /\ cmd[n] = "none"
  BY <1>1, ServedHolds
<1>3. dstImg' = [dstImg EXCEPT ![m] = [d \in Dirs |->
                    IF srcImg[App[m]][d] = NoMigration THEN @[d] ELSE srcImg[App[m]][d]]]
  <2>1. PICK n \in Migrations :
          /\ portFwd[n] # "none"
          /\ dstImg' = [dstImg EXCEPT ![n] = [d \in Dirs |->
                       IF srcImg[App[m]][d] = NoMigration THEN @[d] ELSE srcImg[App[m]][d]]]
    BY DEF Rsync
  <2>2. n = m
    BY <1>2, <2>1 DEF Sides, OneHolder
  <2> QED
    BY <2>1, <2>2
<1>4. \A d \in Dirs : srcImg[App[m]][d] = m => dstImg'[m][d] = m
  BY <1>3, LMAssumption DEF LMAssumption, NoMigration
<1>5. \A n \in Migrations \ {m} : dstImg'[n] = dstImg[n] /\ cmd'[n] = "none"
  BY <1>1, <1>2, <1>3
<1>6. itr[m] \in Nat /\ itr[m] <= PreDumps(m) /\ PreDumps(m) \in 0..MaxIteration /\ MaxIteration \in Nat
  BY PreDumpsBound, LMAssumption DEF LMAssumption, Sides, Counters
<1>7. Sent(m)'
  <2>1. Sent(m)
    BY <1>2 DEF Chain, Holding
  <2>2. 1..itr[m] \subseteq Dirs
    BY <1>6 DEF Dirs
  <2> QED
    BY <1>1, <1>4, <2>1, <2>2 DEF Sent
<1>8. dir[m] # Final => srcImg[App[m]][itr[m] + 1] = m /\ dstImg'[m][itr[m] + 1] = m
  <2> SUFFICES ASSUME dir[m] # Final
               PROVE  srcImg[App[m]][itr[m] + 1] = m /\ dstImg'[m][itr[m] + 1] = m
    OBVIOUS
  <2>1. itr[m] + 1 \in Dirs
    BY <1>2, <1>6 DEF Dirs
  <2>2. srcImg[App[m]][itr[m] + 1] = m
    BY <1>1 DEF Chain, Sending
  <2> QED
    BY <1>4, <2>1, <2>2
<1>9. dir[m] = Final => dstImg'[m][Final] = m
  BY <1>1, <1>4, FinalIsDir DEF IndInv, OkMeansFinal, FinalIs
<1>10. restored[m] = "none"
  BY <1>2 DEF Sides, Holds, Waiting, After, Ended
<1>11. \A n \in Migrations \ {m} : exec'[n] \notin Holding /\ exec'[n] \notin Waiting
  BY <1>1, <1>2 DEF Holding
<1>12. \A n \in Migrations \ {m} : Whole(n)' <=> Whole(n)
  BY <1>5 DEF Whole
<1>13. cmd'[m] = "ok"
  BY <1>1
<1> QED
  BY <1>1, <1>2, <1>5, <1>7, <1>8, <1>9, <1>10, <1>11, <1>12, <1>13
  DEF Chain, Ok, Sending, Waiting

(* The other steps write no image, and "ok" is sent only as the exit       *)
(* status of the command.                                                  *)
LEMMA ChainRest ==
  ASSUME TypeInv, IndInv, Chain, Calm' => Calm, NEW m \in Migrations,
         DumpService(m) \/ Break(m) \/ Command(m) \/ Background(m) \/ Pod(m),
         ~CriuPreDump(m), ~CriuDump(m), ~Rsync(m)
  PROVE  Chain'
<1> USE DEF TypeInv, SvcGoto, CmdGoto, Goto, execVars, svcVars, msgVars, podVars
<1>1. CASE DumpService(m) \/ Break(m)
  <2>1. /\ UNCHANGED <<itr, srcImg, dstImg, restored>>
        /\ \A n \in Migrations :
              /\ exec'[n] \in Holding => exec[n] \in Holding
              /\ \A w \in Waiting : exec'[n] = w => exec[n] = w
    BY <1>1
    DEF DumpService, Break, Start, SvcAccept, SvcRead, SvcReadEOF, Respond, Answer, ConnBreaks,
        ExecHangs, ResumeAcceptFails, SvcAcceptFails, StreamBreaks, Waiting, Holding
  <2>2. \A n \in Migrations :
              /\ cmd'[n] \in {"rsync", "ok"} => cmd'[n] = cmd[n] /\ dir'[n] = dir[n]
              /\ resp'[n] = "ok" => resp[n] = "ok" \/ cmd[n] = "ok"
    BY <1>1
    DEF DumpService, Break, Start, SvcAccept, SvcRead, SvcReadEOF, Respond, Answer, ConnBreaks,
        ExecHangs, ResumeAcceptFails, SvcAcceptFails, StreamBreaks
  <2> QED
    BY <2>1, <2>2, ChainKept DEF Ok, Sending, Waiting
<1>2. CASE Command(m) \/ Background(m) \/ Pod(m)
  <2>1. /\ UNCHANGED <<exec, itr, resp, dir, srcImg, dstImg>>
        /\ \A n \in Migrations :
              /\ cmd'[n] \in {"rsync", "ok"} => cmd'[n] = cmd[n]
              /\ restored'[n] # "none" => restored[n] # "none"
    BY <1>2
    DEF Command, Background, Pod, CriuFails, RsyncFails, RsyncHangs, PortFwdStops,
        TunnelCloses, CriuRestore, CriuRestoreFails, PostResume
  <2> QED
    BY <2>1, ChainKept DEF Ok, Sending
<1> QED
  BY <1>1, <1>2

(* Every step keeps the chain. *)
LEMMA ChainStep ==
  ASSUME TypeInv, IndInv, Sides, Chain, [Next]_vars
  PROVE  Chain'
<1>0. Calm' => Calm
  BY CalmBefore DEF Sides
<1>1. ASSUME NEW m \in Migrations, Exec(m) PROVE Chain'
  BY <1>0, <1>1, ChainExec, ChainPreDump, ChainDump DEF Sides
<1>2. ASSUME NEW m \in Migrations,
             DumpService(m) \/ Break(m) \/ Command(m) \/ Background(m) \/ Pod(m)
      PROVE  Chain'
  BY <1>0, <1>2, ChainCriu, ChainRsync, ChainRest
<1>3. CASE DestCrash
  BY <1>3 DEF DestCrash, DestUp, Calm, Chain
<1>4. ASSUME NEW h \in Sources, SourceCrash(h) PROVE Chain'
  <2>1. UNCHANGED <<exec, itr, resp, dir, srcImg, dstImg, restored>>
    BY <1>4 DEF SourceCrash, execVars, msgVars
  <2>2. \A n \in Migrations : cmd'[n] \in {"rsync", "ok"} => cmd'[n] = cmd[n]
    BY <1>4 DEF SourceCrash
  <2> QED
    BY <1>0, <2>1, <2>2, ChainKept DEF Ok, Sending
<1>5. CASE UNCHANGED vars
  BY <1>0, <1>5, ChainKept DEF vars, Ok, Sending, execVars, svcVars, msgVars, podVars
<1> QED
  BY <1>1, <1>2, <1>3, <1>4, <1>5 DEF Next, Crash

(* There is no chain at the start. *)
LEMMA ChainInit == Init => Signals /\ Chain
  BY LMAssumption
  DEF LMAssumption, Init, Signals, Chain, Ok, Sending, Sent, Holding, Waiting

(* The whole inductive invariant holds in every reachable state. *)
LEMMA ChainInductive == Spec => [](TypeInv /\ IndInv /\ Sides /\ Signals /\ Chain)
<1>1. TypeInv /\ IndInv /\ Sides /\ Signals /\ Chain /\ [Next]_vars => (Signals /\ Chain)'
  BY SignalsStep, ChainStep DEF Sides
<1> QED
  BY ChainInit, SidesInductive, <1>1, PTL DEF Spec

(* criu restore always finds the whole chain of images of its own          *)
(* migration in its pod, unless the destination server died or a command   *)
(* was left to itself.                                                     *)
THEOREM RestoresOwnChain == Spec => []RestoreChain
<1>1. Chain => RestoreChain
  BY DEF Chain, RestoreChain, Whole, Calm, DestUp
<1> QED
  BY ChainInductive, <1>1, PTL

(* ChangeServerAddr is called only when the restored process runs, unless  *)
(* some exec went on without a signal (it timed out, or its listener       *)
(* failed) or the destination server died.                                 *)
THEOREM SwitchesToRunning == Spec => []SwitchedToRunning
<1>1. Signals => SwitchedToRunning
  BY DEF Signals, SwitchedToRunning, Clean, DestUp, Runs
<1> QED
  BY ChainInductive, <1>1, PTL

-----------------------------------------------------------------------------
(* What holds without any exception, after timeouts and crashes too.       *)

(* An application that was dumped has a migration to answer for it: the    *)
(* one that wrote the final image, whose exec waits for the answer, has it *)
(* or is gone.                                                             *)
Accounted ==
    \A a \in Apps : app[a] = "dumped" =>
        \E m \in Migrations :
            App[m] = a /\ FinalIs(m) /\ exec[m] \in {"dumpWait"} \cup After \cup Ended

(* No exec goes back behind the answer to its final dump. *)
LEMMA ForwardOnly ==
  ASSUME TypeInv, [Next]_vars, NEW n \in Migrations,
         exec[n] \in {"dumpWait"} \cup After \cup Ended
  PROVE  exec'[n] \in {"dumpWait"} \cup After \cup Ended
<1> USE DEF TypeInv, After, Ended, Waiting, Goto, Return, execVars
<1>1. ASSUME NEW m \in Migrations, Exec(m)
      PROVE  exec'[n] \in {"dumpWait"} \cup After \cup Ended
  BY <1>1
  DEF Exec, ExecListen, ExecListenFails, Prepare, PrepareFails, DumpStarted, DumpStartFails,
      Dial, DialFails, OpenPortFwd, OpenPortFwdFails, SendPreDump, SendDump, Send,
      RecvPreDumpOk, RecvDumpOk, RecvError, SuspendForwarding, WaitForResume, WaitTimeout,
      SwitchAndReturn
<1>2. ASSUME NEW m \in Migrations, DumpService(m) \/ Break(m)
      PROVE  exec'[n] \in {"dumpWait"} \cup After \cup Ended
  BY <1>2
  DEF DumpService, Break, Start, SvcAccept, SvcRead, SvcReadEOF, Respond, Answer, ConnBreaks,
      ExecHangs, ResumeAcceptFails, SvcAcceptFails, StreamBreaks
<1>3. ASSUME NEW m \in Migrations, Command(m) \/ Background(m) \/ Pod(m) PROVE UNCHANGED exec
  BY <1>3
  DEF Command, Background, Pod, CriuPreDump, CriuDump, CriuFails, Rsync, RsyncFails,
      RsyncHangs, PortFwdStops, TunnelCloses, CriuRestore, CriuRestoreFails, PostResume
<1>4. CASE DestCrash
  <2>1. exec'[n] \in {exec[n], "crashed"}
    BY <1>4 DEF DestCrash
  <2> QED
    BY <2>1
<1>5. CASE (\E h \in Sources : SourceCrash(h)) \/ UNCHANGED vars
  BY <1>5 DEF SourceCrash, vars
<1> QED
  BY <1>1, <1>2, <1>3, <1>4, <1>5 DEF Next, Crash

(* Whoever wrote the final image of an application stays its owner. *)
LEMMA OwnerStays ==
  ASSUME TypeInv, IndInv, [Next]_vars, NEW n \in Migrations, FinalIs(n)
  PROVE  FinalIs(n)' /\ app'[App[n]] = "dumped"
<1> USE DEF TypeInv, FinalIs
<1>1. app[App[n]] = "dumped" /\ App[n] \in Apps
  BY LMAssumption DEF LMAssumption, IndInv, FinalMeansDumped, NoMigration
<1>2. CASE UNCHANGED <<app, srcImg>>
  BY <1>1, <1>2
<1>3. ASSUME NEW m \in Migrations, CriuPreDump(m) PROVE FinalIs(n)' /\ UNCHANGED app
  BY <1>1, <1>3, LMAssumption DEF CriuPreDump, LMAssumption, Final, Images
<1>4. ASSUME NEW m \in Migrations, CriuDump(m) PROVE FinalIs(n)' /\ app'[App[n]] = "dumped"
  BY <1>1, <1>4, LMAssumption DEF CriuDump, LMAssumption
<1> QED
  BY <1>1, <1>2, <1>3, <1>4, OnlyCriuWrites

(* Every step keeps an owner for what was dumped. *)
LEMMA AccountedStep ==
  ASSUME TypeInv, IndInv, Accounted, [Next]_vars
  PROVE  Accounted'
<1> SUFFICES ASSUME NEW a \in Apps, app'[a] = "dumped"
             PROVE  \E m \in Migrations : App[m] = a /\ FinalIs(m)' /\
                       exec'[m] \in {"dumpWait"} \cup After \cup Ended
  BY DEF Accounted
<1>1. CASE app[a] = "running"
  <2>1. PICK m \in Migrations : CriuDump(m) \/ CriuPreDump(m)
    BY <1>1, OnlyCriuWrites
  <2>2. CriuDump(m) /\ App[m] = a
    BY <1>1, <2>1 DEF CriuDump, CriuPreDump, TypeInv
  <2>3. FinalIs(m)'
    BY <2>2, WritesFinal DEF CriuDump, FinalIs, TypeInv
  <2>4. FinalAsked(m)
    BY <2>2 DEF CriuDump, CmdGoto, FinalAsked
  <2>5. exec[m] \in {"dumpWait"} \cup Ended
    BY <2>4 DEF IndInv, DumpForWaiter
  <2> QED
    BY <2>2, <2>3, <2>5, ForwardOnly
<1>2. CASE app[a] = "dumped"
  <2>1. PICK m \in Migrations :
          App[m] = a /\ FinalIs(m) /\ exec[m] \in {"dumpWait"} \cup After \cup Ended
    BY <1>2 DEF Accounted
  <2> QED
    BY <2>1, OwnerStays, ForwardOnly
<1> QED
  BY <1>1, <1>2 DEF TypeInv

(* An exec gets behind the answer to its final dump by starting the restore. *)
LEMMA RestoreStarted ==
  ASSUME TypeInv, LeavesOnlyDumped, [Next]_vars, NEW n \in Migrations,
         exec'[n] \in After \/ route'[n] = "dst"
  PROVE  restored'[n] # "none"
<1> USE DEF TypeInv, LeavesOnlyDumped, After, Goto, execVars, svcVars, msgVars, podVars
<1>1. ASSUME NEW m \in Migrations, RecvDumpOk(m) PROVE restored'[n] # "none"
  BY <1>1 DEF RecvDumpOk
<1>2. ASSUME NEW m \in Migrations, Exec(m), ~RecvDumpOk(m)
      PROVE  /\ restored'[n] = restored[n]
             /\ exec[n] \in After \/ route[n] = "dst"
  BY <1>2
  DEF Return, Exec, ExecListen, ExecListenFails, Prepare, PrepareFails,
      DumpStarted, DumpStartFails, Dial, DialFails, OpenPortFwd, OpenPortFwdFails,
      AfterPreDumps, SendPreDump, SendDump, Send, RecvPreDumpOk, RecvError,
      SuspendForwarding, WaitForResume, WaitTimeout, SwitchAndReturn
<1>3. ASSUME NEW m \in Migrations, DumpService(m) \/ Break(m)
      PROVE  /\ restored'[n] = restored[n]
             /\ exec[n] \in After \/ route[n] = "dst"
  BY <1>3
  DEF DumpService, Break, Start, SvcAccept, SvcRead, SvcReadEOF, Respond, Answer, ConnBreaks,
      ExecHangs, ResumeAcceptFails, SvcAcceptFails, StreamBreaks
<1>4. ASSUME NEW m \in Migrations, Command(m) \/ Background(m) \/ Pod(m)
      PROVE  /\ restored[n] # "none" => restored'[n] # "none"
             /\ UNCHANGED <<exec, route>>
  BY <1>4
  DEF Command, Background, Pod, CriuPreDump, CriuDump, CriuFails, Rsync, RsyncFails,
      RsyncHangs, PortFwdStops, TunnelCloses, CriuRestore, CriuRestoreFails, PostResume
<1>5. CASE DestCrash
  BY <1>5 DEF DestCrash
<1>6. CASE (\E h \in Sources : SourceCrash(h)) \/ UNCHANGED vars
  BY <1>6 DEF SourceCrash, vars
<1> QED
  BY <1>1, <1>2, <1>3, <1>4, <1>5, <1>6 DEF Next, Crash

(* Every step keeps LeavesOnlyDumped: the owner of the image restores it. *)
LEMMA LeavesStep ==
  ASSUME TypeInv, IndInv, LeavesOnlyDumped, [Next]_vars
  PROVE  LeavesOnlyDumped'
<1>1. IndInv'
  BY IndStep
<1>2. \A m \in Migrations : restored'[m] # "none" => FinalIs(m)' /\ app'[App[m]] = "dumped"
  BY <1>1, LMAssumption DEF LMAssumption, IndInv, OkMeansFinal, FinalMeansDumped, FinalIs,
     NoMigration
<1> QED
  BY <1>2, RestoreStarted DEF LeavesOnlyDumped, After

(* Whatever fails and crashes, what was dumped has its owner. *)
THEOREM NothingLost == Spec => []Accounted
<1>1. Init => Accounted
  BY DEF Init, Accounted
<1>2. TypeInv /\ IndInv /\ Accounted /\ [Next]_vars => Accounted'
  BY AccountedStep
<1> QED
  BY Inductive, <1>1, <1>2, PTL DEF Spec

(* Whatever fails and crashes, and although a timeout and a failed         *)
(* listener count as success, no forwarding service leaves an original     *)
(* that still runs.                                                        *)
THEOREM LeavesNoRunningOriginal == Spec => []LeavesOnlyDumped
<1>1. Init => LeavesOnlyDumped
  BY DEF Init, LeavesOnlyDumped
<1>2. TypeInv /\ IndInv /\ LeavesOnlyDumped /\ [Next]_vars => LeavesOnlyDumped'
  BY LeavesStep
<1> QED
  BY Inductive, <1>1, <1>2, PTL DEF Spec
=============================================================================
