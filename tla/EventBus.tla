------------------------------ MODULE EventBus ------------------------------
(***************************************************************************)
(* What the event manager promises the processes it serves, without        *)
(* connections, tables or threads: nobody receives what was not sent, and  *)
(* a receiver gets the events of one source in the order they were sent    *)
(* and none of them twice.  It may miss some.                              *)
(***************************************************************************)
EXTENDS Naturals, Sequences

CONSTANTS Apps, Sources

VARIABLES
    posted,     \* number of events each source has sent
    got         \* the events each receiver has got from each source

vars == <<posted, got>>

Nothing == [s \in Sources |-> <<>>]

Init == posted = [s \in Sources |-> 0] /\ got = [a \in Apps |-> Nothing]

Post(s) == posted' = [posted EXCEPT ![s] = @ + 1] /\ UNCHANGED got

Newer(q, n) == \A i \in DOMAIN q : q[i] < n

Get(a, s) ==
    /\ \E n \in 1 .. posted[s] :
          Newer(got[a][s], n) /\ got' = [got EXCEPT ![a][s] = Append(@, n)]
    /\ UNCHANGED posted

\* A process that starts again remembers nothing.
Restart(a) == got' = [got EXCEPT ![a] = Nothing] /\ UNCHANGED posted

Next ==
    \/ \E s \in Sources : Post(s)
    \/ \E a \in Apps : Restart(a) \/ \E s \in Sources : Get(a, s)

Spec == Init /\ [][Next]_vars

=============================================================================
