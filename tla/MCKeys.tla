------------------------------- MODULE MCKeys -------------------------------
(* Keys for TLC: the button that configures the network and another one.   *)
EXTENDS Keys

TwoButtons == {22, 13}

=============================================================================
