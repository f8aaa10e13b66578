---------------------------- MODULE SignalLedger ----------------------------
(***************************************************************************)
(* What a node promises for every time-bound signal that it is sent, in    *)
(* whatever order its handlers, loops and cache work.  A signal is dropped *)
(* at once or held; what is held is let go only when it was sent out or    *)
(* knowingly lost, and what was let go never comes back.  Several paths    *)
(* export, each from copies of its own.  A path takes a copy of what is    *)
(* held and never of what it has sent before; a signal may well be sent by *)
(* several paths, and is held on after the first of them until it is let   *)
(* go.                                                                     *)
(***************************************************************************)
CONSTANTS Signals, Paths

VARIABLES
    custody,    \* who has the signal: see Custodies
    copies,     \* per path, the copies it has taken and not yet sent
    sent,       \* per path, the signals it has sent out
    lost        \* signals given up: a copy, or the signal itself

vars == <<custody, copies, sent, lost>>

Custodies == {"new", "dropped", "held", "released"}

Moves == { <<"new", "dropped">>, <<"new", "held">>, <<"held", "released">> }

Holding == {k \in Signals : custody[k] = "held"}
Sent    == UNION {sent[p] : p \in Paths}
Copied  == UNION {copies[p] : p \in Paths}

Init ==
    /\ custody = [k \in Signals |-> "new"]
    /\ copies = [p \in Paths |-> {}]
    /\ sent = [p \in Paths |-> {}]
    /\ lost = {}

\* A signal moves on, and is let go for a reason.
Move(k) ==
    /\ custody'[k] = custody[k] \/ <<custody[k], custody'[k]>> \in Moves
    /\ custody[k] = "held" /\ custody'[k] = "released"
         => k \in Sent' \cup lost'

\* A path copies what is held and it has not sent, and sends what it copied.
Send(p) ==
    /\ copies'[p] \subseteq copies[p] \cup (Holding \ sent[p])
    /\ sent[p] \subseteq sent'[p]
    /\ sent'[p] \subseteq sent[p] \cup copies[p]

\* A step may concern several signals: an exporter call takes a batch.
Next ==
    /\ custody' \in [Signals -> Custodies]
    /\ copies' \in [Paths -> SUBSET Signals]
    /\ sent' \in [Paths -> SUBSET Signals]
    /\ \A k \in Signals : Move(k)
    /\ \A p \in Paths : Send(p)
    /\ lost \subseteq lost'
    /\ lost' \subseteq lost \cup Holding \cup Copied

Spec == Init /\ [][Next]_vars
=============================================================================
