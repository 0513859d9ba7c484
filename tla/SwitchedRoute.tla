---------------------------- MODULE SwitchedRoute ----------------------------
(***************************************************************************)
(* What ForwarderService promises the client and the migration: every      *)
(* session goes to the backend of the moment it was opened, and the        *)
(* backend changes only while no session is open, so no client is ever     *)
(* served by the old and the new instance of a migrated application at the *)
(* same time.                                                              *)
(***************************************************************************)
CONSTANTS Conns, Addrs, SrcAddr

VARIABLES
    backend,   \* address new sessions are forwarded to
    sessions   \* open sessions: pairs <<connection, address>>

vars == <<backend, sessions>>

TypeOK == backend \in Addrs /\ sessions \subseteq Conns \X Addrs

Init == backend = SrcAddr /\ sessions = {}

Open(c) ==
    /\ \A a \in Addrs : <<c, a>> \notin sessions
    /\ sessions' = sessions \cup {<<c, backend>>}
    /\ UNCHANGED backend

End(s) ==
    /\ s \in sessions
    /\ sessions' = sessions \ {s}
    /\ UNCHANGED backend

Switch(a) ==
    /\ sessions = {}
    /\ backend' = a
    /\ UNCHANGED sessions

Next ==
    \/ \E c \in Conns : Open(c)
    \/ \E s \in Conns \X Addrs : End(s)
    \/ \E a \in Addrs : Switch(a)

Spec == Init /\ [][Next]_vars
=============================================================================
