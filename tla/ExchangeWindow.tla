--------------------------- MODULE ExchangeWindow ---------------------------
(***************************************************************************)
(* What the IKEv2 task managers of the two peers of an IKE_SA promise each *)
(* other (RFC 7296 section 2.3, spec section 4.1): each peer runs its own  *)
(* exchanges one at a time in a window of one; the other peer serves each *)
(* request exactly once and in order; an exchange completes only after it *)
(* was served; either peer may give its SA up at any time, and a peer      *)
(* whose SA is gone neither serves nor completes anything.                 *)
(***************************************************************************)
EXTENDS Naturals

CONSTANTS
    Peers,      \* the two peers of the IKE_SA
    Count       \* Count[p]: how many exchanges p's tasks initiate

VARIABLES
    started,    \* started[p]: exchanges p has begun
    open,       \* open[p]: p has an exchange in the air
    done,       \* done[p]: exchanges of p that completed
    served,     \* served[p]: requests of p the other peer has processed
    up          \* up[p]: p's IKE_SA is not destroyed

avars == <<started, open, done, served, up>>

Server(p) == CHOOSE q \in Peers : q # p

Init ==
    /\ started = [p \in Peers |-> 0]
    /\ open = [p \in Peers |-> FALSE]
    /\ done = [p \in Peers |-> 0]
    /\ served = [p \in Peers |-> 0]
    /\ up = [p \in Peers |-> TRUE]

\* p has another exchange to run
HasWork(p) == started[p] < Count[p]

\* p sends the request of its next exchange
Begin(p) ==
    /\ up[p] /\ ~open[p] /\ HasWork(p)
    /\ open' = [open EXCEPT ![p] = TRUE]
    /\ started' = [started EXCEPT ![p] = @ + 1]
    /\ UNCHANGED <<done, served, up>>

\* the other peer processes p's outstanding request, once
Serve(p) ==
    /\ up[Server(p)] /\ open[p] /\ served[p] = done[p]
    /\ served' = [served EXCEPT ![p] = @ + 1]
    /\ UNCHANGED <<started, open, done, up>>

\* p takes the response of its served request; it may begin its next
\* exchange in the same step
Complete(p) ==
    /\ up[p] /\ open[p] /\ served[p] = done[p] + 1
    /\ done' = [done EXCEPT ![p] = @ + 1]
    /\ \/ open' = [open EXCEPT ![p] = FALSE] /\ UNCHANGED started
       \/ /\ HasWork(p)
          /\ started' = [started EXCEPT ![p] = @ + 1]
          /\ UNCHANGED open
    /\ UNCHANGED <<served, up>>

\* p's IKE_SA is destroyed
Fail(p) ==
    /\ up[p]
    /\ up' = [up EXCEPT ![p] = FALSE]
    /\ UNCHANGED <<started, open, done, served>>

Next == \E p \in Peers : Begin(p) \/ Serve(p) \/ Complete(p) \/ Fail(p)

Spec == Init /\ [][Next]_avars

(***************************************************************************)
(* Every exchange a peer begins ends: it completes, or the peer's SA is   *)
(* destroyed (after retransmit() gave up, or on an error).                 *)
(***************************************************************************)
ExchangeEnds ==
    \A p \in Peers : \A k \in 0..Count[p] :
        (open[p] /\ done[p] = k) ~> (done[p] > k \/ ~up[p])

=============================================================================
