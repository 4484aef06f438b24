--------------------------- MODULE RetransmitTimers ---------------------------
(***************************************************************************)
(* The timers of a fragmented IKE_AUTH exchange, in milliseconds.         *)
(*                                                                         *)
(* When the responder processes the first IKE_SA_INIT of a virgin IKE_SA  *)
(* it finds the config and arms a delete job half_open_timeout seconds    *)
(* away (process_message); if the SA is still not established when the    *)
(* job runs, the SA is destroyed.  The initiator then sends IKE_AUTH as    *)
(* fragments and arms its retransmit job in retransmit(): on the           *)
(* selective path with schedule_job(timeout = 1800), on the whole-message  *)
(* path with schedule_job_ms(retransmission_timeout(...)).  Both           *)
(* schedulers calls are modelled by what they do: schedule_job takes       *)
(* seconds, schedule_job_ms milliseconds.                                  *)
(*                                                                         *)
(* The model starts after IKE_SA_INIT: both peers advertised SFR support   *)
(* (or not, PeerSfr), the responder's SA is CONNECTING with its delete job *)
(* armed at time 0, and the initiator is about to send IKE_AUTH.  The job  *)
(* retransmit() armed for IKE_SA_INIT, schedule_job_ms(retransmission_     *)
(* timeout(0)) on the whole-message path (SFR support is not yet known),   *)
(* is still scheduled: process_response() only drops its reference.        *)
(* Packets                                                                 *)
(* cross the network in a time negligible against every timer, so a timer *)
(* expires only once nothing is in flight, and time jumps to the earliest  *)
(* armed deadline.  The model follows the exchange until one of the two   *)
(* SAs is established or destroyed; what a stale job does after that is   *)
(* the subject of TaskManager.                                             *)
(***************************************************************************)
EXTENDS Integers, FiniteSets

CONSTANTS
    NFrags,             \* fragments of the IKE_AUTH request
    PeerSfr,            \* both peers enabled and advertised SFR
    Tries,              \* retransmit.tries
    HalfOpenTimeout,    \* %s.half_open_timeout, seconds
    RetxBaseMs,         \* whole-message backoff: first delay, ms
    RetxFactor,         \* whole-message backoff: growth, as a fraction
    MaxLoss,            \* bound on lost packets
    NoJob               \* no delete job armed

Frags == 1..NFrags

VARIABLES
    now,        \* the scheduler's clock, ms since the responder's IKE_SA_INIT
    jobs,       \* the initiator's scheduled retransmit jobs
    deleteAt,   \* the deadline of the responder's half-open delete job, or NoJob
    iretx,      \* initiating.retransmitted
    acked,      \* the fragments the initiator's tracker has as acknowledged
    isa,        \* the initiator's IKE_SA state
    held,       \* the fragments in the responder's defrag message
    rsa,        \* the responder's IKE_SA state
    net,        \* packets in flight
    lost        \* packets lost so far

vars == <<now, jobs, deleteAt, iretx, acked, isa, held, rsa, net, lost>>

Frag(f) == [kind |-> "frag", fno |-> f]
Ack(s) == [kind |-> "ack", got |-> s]
Resp == [kind |-> "resp"]

-----------------------------------------------------------------------------
(* The scheduler *)

\* schedule_job(job, s) at time t: s seconds later
ScheduleJob(t, s) == t + s * 1000

\* schedule_job_ms(job, ms) at time t
ScheduleJobMs(t, ms) == t + ms

\* retransmission_timeout(retransmitted): base * factor^n, without jitter
Backoff(n) == (RetxBaseMs * RetxFactor[1]^n) \div RetxFactor[2]^n

-----------------------------------------------------------------------------
(* The initiator: retransmit(message_id)                                   *)

\* the message IDs of IKE_SA_INIT and of IKE_AUTH (initiating.mid)
InitMid == 0
AuthMid == 1

\* a retransmit_job_t for message ID mid, due at time at
Job(mid, at) == [mid |-> mid, at |-> at]

\* the main block for IKE_AUTH at time t: <<packets, new jobs, status>>.
\* Give up after Tries; the selective path sends every fragment the first
\* time and the unacknowledged ones after, and arms schedule_job(1800); the
\* whole-message path sends every fragment and arms schedule_job_ms
RetransmitMain(t) ==
    IF iretx > Tries THEN <<{}, {}, "DESTROY_ME">>
    ELSE IF PeerSfr
    THEN IF acked = Frags THEN <<{}, {}, "SUCCESS">>
         ELSE <<{Frag(f) : f \in IF iretx > 0 THEN Frags \ acked ELSE Frags},
                {Job(AuthMid, ScheduleJob(t, 1800))}, "SUCCESS">>
    ELSE <<{Frag(f) : f \in Frags},
           {Job(AuthMid, ScheduleJobMs(t, Backoff(iretx)))}, "SUCCESS">>

\* retransmit(mid) at time t: the early exit of a complete tracker, the main
\* block for IKE_AUTH, and for the stale IKE_SA_INIT job the recursion into
\* retransmit(initiating.mid) while the tracker misses fragments
Retransmit(mid, t) ==
    IF PeerSfr /\ mid = AuthMid /\ acked = Frags THEN <<{}, {}, "SUCCESS">>
    ELSE IF mid = AuthMid THEN RetransmitMain(t)
    ELSE IF PeerSfr /\ acked # Frags THEN RetransmitMain(t)
    ELSE <<{}, {}, "SUCCESS">>

\* initiate() generates the IKE_AUTH fragments and calls retransmit()
SendAuth ==
    /\ isa = "CONNECTING" /\ iretx = 0
    /\ LET r == Retransmit(AuthMid, now)
       IN /\ net' = net \cup r[1]
          /\ jobs' = jobs \cup r[2]
    /\ iretx' = 1
    /\ UNCHANGED <<now, deleteAt, acked, isa, held, rsa, lost>>

\* the deadlines of every scheduled job
Deadlines == {j.at : j \in jobs} \cup (IF deleteAt = NoJob THEN {} ELSE {deleteAt})

\* d is the earliest deadline, and the timer expires once the initiator has
\* sent IKE_AUTH (it does so on the IKE_SA_INIT response) and nothing is in
\* flight
Due(d) == iretx > 0 /\ net = {} /\ \A e \in Deadlines : d <= e

\* the retransmit job j runs; DESTROY_ME destroys the initiator's SA
RetransmitJob(j) ==
    /\ isa = "CONNECTING" /\ Due(j.at)
    /\ now' = j.at
    /\ LET r == Retransmit(j.mid, j.at)
       IN /\ net' = r[1]
          /\ jobs' = (jobs \ {j}) \cup r[2]
          /\ iretx' = IF r[2] # {} THEN iretx + 1 ELSE iretx
          /\ isa' = IF r[3] = "DESTROY_ME" THEN "DEAD" ELSE isa
    /\ UNCHANGED <<deleteAt, acked, held, rsa, lost>>

\* process_fragment_ack(): the tracker takes the bitmap's fragments
ReceiveAck(m) ==
    /\ isa = "CONNECTING"
    /\ acked' = acked \cup m.got
    /\ UNCHANGED <<isa, rsa, held>>

\* process_response(): the exchange completes
ReceiveResp ==
    /\ isa = "CONNECTING"
    /\ isa' = "ESTABLISHED"
    /\ UNCHANGED <<acked, rsa, held>>

-----------------------------------------------------------------------------
(* The responder *)

\* handle_fragment(): the fragment joins the defrag message, an ACK of the
\* fragments held so far goes back, and the last one completes IKE_AUTH,
\* which establishes the SA and sends the response
ReceiveFrag(m) ==
    /\ rsa = "CONNECTING"
    /\ held' = held \cup {m.fno}
    /\ rsa' = IF held' = Frags THEN "ESTABLISHED" ELSE rsa
    /\ LET ack == IF PeerSfr THEN {Ack(held')} ELSE {}
           resp == IF held' = Frags THEN {Resp} ELSE {}
       IN net' = (net \ {m}) \cup ack \cup resp
    /\ UNCHANGED <<acked, isa>>

\* delete_ike_sa_job(delete_if_established = FALSE): a half-open SA is
\* destroyed, an established one kept
DeleteJob ==
    /\ deleteAt # NoJob /\ Due(deleteAt)
    /\ now' = deleteAt
    /\ deleteAt' = NoJob
    /\ rsa' = IF rsa = "ESTABLISHED" THEN rsa ELSE "DEAD"
    /\ UNCHANGED <<jobs, iretx, acked, isa, held, net, lost>>

-----------------------------------------------------------------------------
(* The network *)

\* a packet to a peer whose SA is gone, or no longer CONNECTING, is dropped
Deliver(m) ==
    /\ m \in net
    /\ \/ /\ m.kind = "frag" /\ ReceiveFrag(m)
       \/ /\ m.kind = "ack" /\ ReceiveAck(m) /\ net' = net \ {m}
       \/ /\ m.kind = "resp" /\ ReceiveResp /\ net' = net \ {m}
       \/ /\ (IF m.kind = "frag" THEN rsa ELSE isa) # "CONNECTING"
          /\ net' = net \ {m}
          /\ UNCHANGED <<acked, isa, held, rsa>>
    /\ UNCHANGED <<now, jobs, deleteAt, iretx, lost>>

Lose(m) ==
    /\ m \in net /\ lost < MaxLoss
    /\ net' = net \ {m}
    /\ lost' = lost + 1
    /\ UNCHANGED <<now, jobs, deleteAt, iretx, acked, isa, held, rsa>>

Init ==
    /\ now = 0
    /\ jobs = {Job(InitMid, ScheduleJobMs(0, Backoff(0)))}
    /\ deleteAt = ScheduleJob(0, HalfOpenTimeout)
    /\ iretx = 0
    /\ acked = {}
    /\ isa = "CONNECTING"
    /\ held = {}
    /\ rsa = "CONNECTING"
    /\ net = {}
    /\ lost = 0

Next ==
    \/ SendAuth
    \/ \E j \in jobs : RetransmitJob(j)
    \/ DeleteJob
    \/ \E m \in net : Deliver(m) \/ Lose(m)

Spec == Init /\ [][Next]_vars

-----------------------------------------------------------------------------
(* Properties *)

\* The spec's selective retry (section 4.2, selective_retry_delay 1800 ms;
\* scenario B: the missing fragment is resent after 1.8 s): a lost IKE_AUTH
\* fragment is resent within seconds, so while the initiator has a
\* retransmission left for every lost packet the exchange completes before
\* the responder's half-open delete job runs.  The delete job never
\* destroys an SA that lost no more packets than retransmit.tries.
LossesRecovered == rsa = "DEAD" => lost > Tries

=============================================================================
