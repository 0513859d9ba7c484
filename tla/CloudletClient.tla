---------------------------- MODULE CloudletClient ----------------------------
(***************************************************************************)
(* The client's commands "deploy" and "experiment throughput" (App.java,   *)
(* CloudletClient.java, PerformanceTest.java): from the options -l, -i, -r *)
(* and -e of the command line to the request, and from the request to what *)
(* the server reads of it.  Addresses, ports and names are left out.       *)
(***************************************************************************)
EXTENDS Integers

CONSTANTS
    Values,  \* numbers that an option may have, with 0 for one that is not given
    Envs     \* environments that a user may give with -e

Types == {"new", "fwd", "lm", "fwdlm"}
Options == [bwLimit : Values, iteration : Values, dataRate : Values, env : Envs]
NoEnv == "no env"
None == [type |-> "none"]

VARIABLES
    asked,   \* type and options of the last command
    request, \* request that is on its way, or None
    done     \* what the server has been asked to do by it, or None

vars == <<asked, request, done>>

Init == asked = None /\ request = None /\ done = None

-----------------------------------------------------------------------------
(* Fields of another type are null, and the server reads zero for them. *)
createAppSampleRequest(type, env, bwLimit, iteration, dataRate) ==
    [type |-> type,
     env |-> IF type = "new" THEN env ELSE NoEnv,
     bwLimit |-> IF type \in {"lm", "fwdlm"} THEN bwLimit ELSE 0,
     iteration |-> IF type \in {"lm", "fwdlm"} THEN iteration ELSE 0,
     dataRate |-> IF type = "fwdlm" THEN dataRate ELSE 0]

Command(type, o) ==
    /\ request = None
    /\ asked' = [type |-> type, options |-> o]
    /\ done' = None

(* CloudletClient.deploy. *)
deploy(type, o) ==
    /\ Command(type, o)
    /\ request' = createAppSampleRequest(type, o.env, o.bwLimit, o.dataRate, o.iteration)

throughputTest(type, o) ==
    /\ Command(type, o)
    /\ request' = createAppSampleRequest(type, o.env, o.bwLimit, o.iteration, o.dataRate)

-----------------------------------------------------------------------------
(* The server: the number of pre-dumps, the limit of rsync's bandwidth     *)
(* (none without a positive one), the environment of a new application and *)
(* the data rate of the forwarding service.                                *)
PreDumps(i) == IF i > 0 THEN i ELSE IF i = 0 THEN 1 ELSE 0
RsyncBandwidth(b) == IF b <= 0 THEN 0 ELSE b * 122
Rate(r) == IF r > 0 THEN r ELSE 0

Orders(type, env, bwLimit, iteration, dataRate) ==
    CASE type = "new" -> [type |-> type, env |-> env]
      [] type = "fwd" -> [type |-> type]
      [] type = "lm" -> [type |-> type, preDumps |-> PreDumps(iteration),
                         bandwidth |-> RsyncBandwidth(bwLimit)]
      [] type = "fwdlm" -> [type |-> type, preDumps |-> PreDumps(iteration),
                            bandwidth |-> RsyncBandwidth(bwLimit), rate |-> Rate(dataRate)]

Serve ==
    /\ request # None
    /\ done' = Orders(request.type, request.env, request.bwLimit, request.iteration,
                      request.dataRate)
    /\ request' = None
    /\ UNCHANGED asked

Next ==
    \/ \E t \in Types, o \in Options : deploy(t, o) \/ throughputTest(t, o)
    \/ Serve

Spec == Init /\ [][Next]_vars

-----------------------------------------------------------------------------
(* The server does what the options asked for: -i is the number of         *)
(* pre-dumps and -r the data rate, in both commands.                       *)
OptionsHonoured ==
    done # None =>
        LET o == asked.options
        IN  done = Orders(asked.type, o.env, o.bwLimit, o.iteration, o.dataRate)
=============================================================================
