---------------------------- MODULE MCMqttClient ----------------------------
EXTENDS MqttClient, TLC

CONSTANTS o1, o2, i1

Sent == {o1, o2}
Got == {i1}
ManySetups ==
    {[clean |-> FALSE, qos |-> o1 :> 1 @@ o2 :> 2 @@ i1 :> 2],
     [clean |-> TRUE, qos |-> o1 :> 0 @@ o2 :> 2 @@ i1 :> 1],
     [clean |-> TRUE, qos |-> o1 :> 1 @@ o2 :> 1 @@ i1 :> 0]}

=============================================================================
