--------------------------- MODULE RequestMonitor ---------------------------
(***************************************************************************)
(* What the request boundary of the graph server promises a client: the    *)
(* messages of a channel are decided one by one, in the order in which     *)
(* they came, each exactly once and only after the channel has been        *)
(* admitted; what is allowed to its owner is performed and the rest is     *)
(* dropped.  Channels do not affect each other.                            *)
(***************************************************************************)
EXTENDS Sequences

CONSTANTS
    Channels,
    Messages,
    Allowed,   \* of each channel: the messages that are performed for it
    Nothing    \* no message has been performed yet

VARIABLES connected, admitted, queue, performed

monVars == <<connected, admitted, queue, performed>>

MonitorInit ==
    /\ connected = Channels
    /\ admitted = {}
    /\ queue = [c \in Channels |-> <<>>]
    /\ performed = [c \in Channels |-> Nothing]

Submit(c) ==
    /\ c \in connected
    /\ \E m \in Messages : queue' = [queue EXCEPT ![c] = Append(@, m)]
    /\ UNCHANGED <<connected, admitted, performed>>

Admission(c) ==
    /\ c \in connected \ admitted
    /\ admitted' = admitted \cup {c}
    /\ UNCHANGED <<connected, queue, performed>>

Decide(c) ==
    /\ c \in connected \cap admitted
    /\ queue[c] # <<>>
    /\ queue' = [queue EXCEPT ![c] = Tail(@)]
    /\ performed' = [performed EXCEPT ![c] =
                        IF Head(queue[c]) \in Allowed[c] THEN Head(queue[c]) ELSE @]
    /\ UNCHANGED <<connected, admitted>>

Leave(c) ==
    /\ c \in connected
    /\ connected' = connected \ {c}
    /\ queue' = [queue EXCEPT ![c] = <<>>]
    /\ UNCHANGED <<admitted, performed>>

MonitorNext ==
    \E c \in Channels : Submit(c) \/ Admission(c) \/ Decide(c) \/ Leave(c)

MonitorSpec == MonitorInit /\ [][MonitorNext]_monVars

=============================================================================
