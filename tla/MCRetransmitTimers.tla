------------------------- MODULE MCRetransmitTimers -------------------------
(***************************************************************************)
(* Instantiates RetransmitTimers for TLC: an IKE_AUTH request of three     *)
(* fragments, as in the spec's scenario B, between two SFR peers.          *)
(***************************************************************************)
EXTENDS RetransmitTimers

\* strongSwan's default %s.half_open_timeout, seconds
HalfOpenDefault == 30

\* retransmit_base 4 s, retransmit_timeout 1.8 (9/5)
BackoffFactor == <<9, 5>>

=============================================================================
