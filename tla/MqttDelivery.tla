---------------------------- MODULE MqttDelivery ----------------------------
(***************************************************************************)
(* What an application may rely on when it publishes, without packets,     *)
(* acknowledgements, retries or connections: a message is told to be sent  *)
(* at most once; one of QoS 1 or, in a session that is kept, of QoS 2 only *)
(* after it has arrived, and one of QoS 0 or, in such a session, of QoS 2  *)
(* arrives at most once.                                                   *)
(***************************************************************************)
EXTENDS Naturals

CONSTANTS OutMsgs, Setups

VARIABLES setup, published, arrived, told

vars == <<setup, published, arrived, told>>

Qos(m) == setup.qos[m]
None == [m \in OutMsgs |-> 0]

Init == setup \in Setups /\ published = {} /\ arrived = None /\ told = None

Kept(m) == Qos(m) = 2 /\ ~setup.clean

\* One write may carry several QoS 0 messages, which it tells of.
Told(M) ==
    /\ \A m \in M :
          told[m] = 0 /\ (Qos(m) = 1 \/ Kept(m) => arrived[m] > 0)
    /\ told' = [m \in OutMsgs |-> IF m \in M THEN 1 ELSE told[m]]

Publish(m) ==
    /\ m \notin published /\ published' = published \cup {m}
    /\ \E M \in SUBSET {p \in published' : Qos(p) = 0} : Told(M)
    /\ UNCHANGED <<setup, arrived>>

Arrive(m) ==
    /\ m \in published
    /\ Qos(m) = 0 \/ Kept(m) => arrived[m] = 0
    /\ arrived' = [arrived EXCEPT ![m] = @ + 1]
    /\ UNCHANGED <<setup, published, told>>

Tell ==
    /\ \E M \in SUBSET published : Told(M)
    /\ UNCHANGED <<setup, published, arrived>>

Next == Tell \/ \E m \in OutMsgs : Publish(m) \/ Arrive(m)

Spec == Init /\ [][Next]_vars

=============================================================================
