---------------------------- MODULE TaskManager ----------------------------
(***************************************************************************)
(* The IKEv2 task manager of task_manager_v2.c with its selective fragment *)
(* retransmission (SFR) extension, for the two peers of one IKE_SA: the    *)
(* IKE initiator Ini and the IKE responder Res. Each peer runs one task     *)
(* manager, tm[p]; both exchange requests, responses and FRAGMENT_ACKs     *)
(* over an unreliable network (net) that loses up to MaxLoss and           *)
(* duplicates up to MaxDup messages.                                       *)
(*                                                                         *)
(* A handler of the code is an operator from a task manager (and a         *)
(* message) to a result [st, out, status]: the new task manager, the set   *)
(* of messages it sends and the status_t it returns. Sequential calls of   *)
(* the code (process_response() ending in initiate() ending in             *)
(* retransmit()) are chained with LET, so one action is one whole call     *)
(* of the code: a job run, a received packet or an initiate().             *)
(*                                                                         *)
(* Abstractions: a message is a record whose fields are what the handlers  *)
(* test; its SHA-1 hash is the record itself (two packets hash alike iff   *)
(* they are the same packet); every ACK is freshly encrypted and so        *)
(* carries a distinct seq. The tasks are reduced to the exchange types     *)
(* they produce and to the IKE_SA state changes they cause.                *)
(***************************************************************************)
EXTENDS Integers, FiniteSets, Sequences, Bags, BagsExt, FragmentAck

CONSTANTS
    Ini, Res,       \* the IKE initiator and the IKE responder
    Work,           \* Work[p]: the exchanges p's tasks initiate, in order
    Frags,          \* Frags[t]: fragments of a request of exchange type t
    SfrEnabled,     \* SfrEnabled[p]: p's selective_retransmission_enabled
    Tries,          \* retransmit.tries
    MaxLoss,        \* bound on lost messages
    MaxDup,         \* bound on duplicated deliveries
    None,           \* EXCHANGE_TYPE_UNDEFINED / an all-zero hash
    NoTracker       \* outgoing_tracker == NULL

Peers == {Ini, Res}
Types == {"IKE_SA_INIT", "IKE_AUTH", "CREATE_CHILD_SA", "INFORMATIONAL"}
States == {"CREATED", "CONNECTING", "ESTABLISHED", "DEAD"}

ASSUME /\ \A p \in Peers : Work[p] \in Seq(Types) /\ SfrEnabled[p] \in BOOLEAN
       /\ \A t \in Types : Frags[t] \in Nat \ {0}
       /\ {Tries, MaxLoss, MaxDup} \subseteq Nat

VARIABLES
    tm,     \* tm[p]: the private_task_manager_t of peer p
    net,    \* packets in flight
    lost,   \* packets lost so far
    dups    \* packets delivered twice so far

vars == <<tm, net, lost, dups>>

Other(p) == IF p = Ini THEN Res ELSE Ini

\* the order of ike_sa_state_t, for the "state > IKE_CONNECTING" test
Rank(st) == CASE st = "CREATED" -> 0 [] st = "CONNECTING" -> 1
              [] st = "ESTABLISHED" -> 2 [] st = "DEAD" -> 3

(***************************************************************************)
(* Packets. A request of type t with Frags[t] > 1 is sent as fragments    *)
(* 1..Frags[t] (generate_message); an ACK is an INFORMATIONAL request      *)
(* with MID 0 carrying the FRAGMENT_ACK notify.                            *)
(***************************************************************************)
Packet(kind, src, mid, type, fno, nfrag, sfr, ack, seq) ==
    [kind |-> kind, src |-> src, mid |-> mid, type |-> type, fno |-> fno,
     nfrag |-> nfrag, sfr |-> sfr, ack |-> ack, seq |-> seq]

Fragment(p, mid, t, f) == Packet("req", p, mid, t, f, Frags[t], FALSE, None, 0)

Response(p, mid, t, sfr) == Packet("resp", p, mid, t, 1, 1, sfr, None, 0)

\* the message reassembled from all fragments of fragment msg
Reassembled(msg) == [msg EXCEPT !.fno = 1, !.nfrag = 1]

\* initiating.packets: what generate_message() stored for the exchange
InitiatingPackets(p, s) ==
    IF s.itype = None THEN {}
    ELSE {Fragment(p, s.imid, s.itype, f) : f \in 1..Frags[s.itype]}

\* generate_message(): a new tracker only for a fragmented message with SFR
\* enabled; otherwise the old tracker stays in place
NewTracker(p, s, mid, t) ==
    IF Frags[t] > 1 /\ SfrEnabled[p]
    THEN [mid |-> mid, type |-> t, total |-> Frags[t], acked |-> {}]
    ELSE s.tracker

Tracking(s, mid) == s.tracker # NoTracker /\ s.tracker.mid = mid

AllAcked(s) == s.tracker # NoTracker /\ Cardinality(s.tracker.acked) >= s.tracker.total

Result(s, out, status) == [st |-> s, out |-> out, status |-> status]

\* the IKE_SA is destroyed: its jobs find no SA and do nothing
Dead(s, why) == [s EXCEPT !.sa = "DEAD", !.jobs = EmptyBag, !.down = why]

(***************************************************************************)
(* retransmit_missing_fragments_simple(): the unacknowledged fragments of  *)
(* the tracker.                                                            *)
(***************************************************************************)
MissingFragments(p, tr) ==
    {Fragment(p, tr.mid, tr.type, f) : f \in (1..tr.total) \ tr.acked}

(***************************************************************************)
(* The main block of retransmit(message_id), entered for the current      *)
(* exchange or a tracked message ID: give up after Tries retransmits, else *)
(* the selective path (peer supports SFR and the tracker is for mid) or    *)
(* the whole-message path, each scheduling the next job.                   *)
(***************************************************************************)
\* "initiating.retransmitted > retransmit.tries": give up
\* mutant: one retransmit too many before giving up
GiveUpLate(s) == s.iretx > Tries + 1

GiveUp(s) == s.iretx > Tries

\* mutant: the whole-message path sends but schedules no further job
RetransmitMainNoReschedule(p, s, mid, selective) ==
    IF GiveUp(s) THEN Result(s, {}, "DESTROY_ME")
    ELSE IF SfrEnabled[p] /\ s.psup /\ Tracking(s, mid)
    THEN IF Cardinality(s.tracker.acked) = s.tracker.total
         THEN Result(s, {}, "SUCCESS")
         ELSE LET sent == IF s.iretx > 0 THEN MissingFragments(p, s.tracker)
                          ELSE InitiatingPackets(p, s)
                  s1 == [s EXCEPT !.iretx = @ + 1]
              IN IF AllAcked(s1) THEN Result(s1, sent, "SUCCESS")
                 ELSE Result([s1 EXCEPT !.jobs = BagAdd(@, s.tracker.mid)],
                             sent, "SUCCESS")
    ELSE Result([s EXCEPT !.iretx = @ + 1], InitiatingPackets(p, s), "SUCCESS")

RetransmitMain(p, s, mid, selective) ==
    IF GiveUp(s) THEN Result(s, {}, "DESTROY_ME")
    ELSE IF SfrEnabled[p] /\ s.psup /\ Tracking(s, mid)
    THEN IF Cardinality(s.tracker.acked) = s.tracker.total
         THEN Result(s, {}, "SUCCESS")
         ELSE LET sent == IF s.iretx > 0 THEN MissingFragments(p, s.tracker)
                          ELSE InitiatingPackets(p, s)
                  s1 == [s EXCEPT !.iretx = @ + 1]
              IN IF AllAcked(s1) THEN Result(s1, sent, "SUCCESS")
                 ELSE Result([s1 EXCEPT !.jobs = BagAdd(@, s.tracker.mid)],
                             sent, "SUCCESS")
    ELSE Result([s EXCEPT !.iretx = @ + 1,
                          !.jobs = BagAdd(@, IF selective THEN mid ELSE s.imid)],
                InitiatingPackets(p, s), "SUCCESS")

(***************************************************************************)
(* retransmit(message_id): the retransmit job for message_id fires.        *)
(***************************************************************************)
Retransmit(p, s, mid) ==
    LET selective == SfrEnabled[p] /\ Tracking(s, mid)
    IN IF selective /\ AllAcked(s) THEN Result(s, {}, "SUCCESS")
       ELSE IF (mid = s.imid /\ InitiatingPackets(p, s) # {}) \/ selective
       THEN RetransmitMain(p, s, mid, selective)
       ELSE IF mid < s.imid
       THEN IF SfrEnabled[p] /\ Tracking(s, s.imid) /\ ~AllAcked(s)
            THEN RetransmitMain(p, s, s.imid, TRUE)
            ELSE Result(s, {}, "SUCCESS")
       ELSE Result(s, {}, "INVALID_STATE")

\* the task manager may start the next exchange of its tasks in this state
CanStart(p, s) ==
    /\ s.work <= Len(Work[p])
    /\ LET t == Work[p][s.work]
       IN \/ t = "IKE_SA_INIT" /\ s.sa = "CREATED"
          \/ t = "IKE_AUTH" /\ s.sa = "CONNECTING"
          \/ t \in {"CREATE_CHILD_SA", "INFORMATIONAL"} /\ s.sa = "ESTABLISHED"

(***************************************************************************)
(* initiate(): nothing while an exchange is in the air or no task is      *)
(* ready; otherwise build and generate the next request (a new tracker if *)
(* it is fragmented), then retransmit(initiating.mid) sends it and        *)
(* schedules its first job. The IKE_SA enters CONNECTING with its first   *)
(* exchange (ike_sa_t.initiate).                                          *)
(***************************************************************************)
Initiate(p, s) ==
    IF s.itype # None \/ ~CanStart(p, s) THEN Result(s, {}, "SUCCESS")
    ELSE LET t == Work[p][s.work]
             mid == IF t = "IKE_SA_INIT" THEN 0 ELSE s.imid
             s1 == [s EXCEPT !.itype = t, !.iretx = 0, !.work = @ + 1, !.imid = mid,
                             !.sa = IF t = "IKE_SA_INIT" THEN "CONNECTING" ELSE @,
                             !.tracker = NewTracker(p, s, mid, t)]
         IN Retransmit(p, s1, s1.imid)

(***************************************************************************)
(* process_fragment_ack(): mark what the ACK acknowledges of the tracker.  *)
(***************************************************************************)
ProcessFragmentAck(s, ack) ==
    IF s.tracker = NoTracker THEN s
    ELSE [s EXCEPT !.tracker.acked = @ \cup AckedBy(ack, s.tracker.mid, s.tracker.total)]

\* the passive tasks' effect on the IKE_SA state (ike_init, ike_establish)
PassiveState(st, t) ==
    CASE t = "IKE_SA_INIT" -> "CONNECTING"
      [] t = "IKE_AUTH"    -> "ESTABLISHED"
      [] OTHER             -> st

(***************************************************************************)
(* process_request() + build_response(): a CREATE_CHILD_SA on a half-open *)
(* SA fails; an INFORMATIONAL carrying FRAGMENT_ACK is fed to             *)
(* process_fragment_ack() and, no task being created for it, answered by  *)
(* ike_dpd; the response (with the SFR notify for IKE_SA_INIT) replaces   *)
(* responding.packets and is sent.                                        *)
(***************************************************************************)
ProcessRequest(p, s, msg) ==
    LET s1 == [s EXCEPT !.psup = @ \/ msg.sfr]
        s2 == IF msg.kind = "ack" THEN ProcessFragmentAck(s1, msg.ack) ELSE s1
        resp == Response(p, s.rmid, msg.type,
                         SfrEnabled[p] /\ msg.type = "IKE_SA_INIT")
    IN IF msg.type = "CREATE_CHILD_SA" /\ s.sa \in {"CREATED", "CONNECTING"}
       THEN Result(s1, {}, "FAILED")
       ELSE Result([s2 EXCEPT !.sa = PassiveState(@, msg.type), !.rcache = {resp}],
                   {resp}, "SUCCESS")

\* the request branch of process_message() after process_request()
ProcessAndAdvance(p, s, msg) ==
    LET r == ProcessRequest(p, s, msg)
    IN IF r.status = "SUCCESS"
       THEN Result([r.st EXCEPT !.rmid = @ + 1, !.rprev = r.st.rhash], r.out, "SUCCESS")
       ELSE Result(r.st, r.out, "DESTROY_ME")

\* send_immediate_fragment_ack() for fragment msg, after add_fragment()
FragmentAckPacket(p, s, msg, held, merged) ==
    Packet("ack", p, 0, "INFORMATIONAL", 1, 1, FALSE,
           IF merged THEN AckFor(msg.mid, {}, 0, msg.fno)
           ELSE AckFor(msg.mid, held, msg.nfrag, msg.fno),
           s.ackseq)

(***************************************************************************)
(* handle_fragment() on responding.defrag, and what follows it for a      *)
(* request: an unfragmented message is hashed and processed; a fragment   *)
(* is added to the reassembler, hashed if it is fragment 1 and ACKed if   *)
(* SFR is enabled; the merged message is reinjected unless                *)
(* "responding.mid >= message_id && state > IKE_CONNECTING" calls it      *)
(* already processed. The reassembler drops duplicate fragments.          *)
(* got records every fragment absorbed (a ghost of this model).           *)
(***************************************************************************)
\* handle_fragment()'s already_processed test for a merged message
AlreadyProcessed(s, msg) == s.rmid >= msg.mid /\ Rank(s.sa) > Rank("CONNECTING")

HandleFragment(p, s, msg) ==
    IF msg.nfrag = 1 THEN ProcessAndAdvance(p, [s EXCEPT !.rhash = msg], msg)
    ELSE LET held == s.rdefrag \cup {msg.fno}
             merged == held = 1..msg.nfrag
             acks == IF SfrEnabled[p]
                     THEN {FragmentAckPacket(p, s, msg, held, merged)} ELSE {}
             s1 == [s EXCEPT !.rdefrag = IF merged THEN {} ELSE held,
                             !.rhash = IF msg.fno = 1 THEN msg ELSE @,
                             !.ackseq = IF SfrEnabled[p] THEN @ + 1 ELSE @,
                             !.got = @ \cup {msg}]
         IN IF ~merged \/ AlreadyProcessed(s, msg)
            THEN Result(s1, acks, "NEED_MORE")
            ELSE LET r == ProcessAndAdvance(p, s1, Reassembled(msg))
                 IN Result(r.st, acks \cup r.out,
                           IF r.status = "SUCCESS" THEN "NEED_MORE" ELSE r.status)

(***************************************************************************)
(* is_retransmit(): its MID-0 ACK test looks at the unparsed message,     *)
(* which has no notify yet, and so never holds.                           *)
(***************************************************************************)
\* mutant: the previous MID is taken for a new request
IsRetransmitPrevAsNew(s, msg) ==
    IF msg.mid = s.rmid \/ msg.mid = s.rmid - 1 THEN "NEED_MORE" ELSE "INVALID_ARG"

IsRetransmit(s, msg) ==
    IF msg.mid = s.rmid THEN "NEED_MORE"
    ELSE IF msg.mid = s.rmid - 1 /\ s.rcache # {} /\ msg = s.rprev THEN "ALREADY_DONE"
    ELSE "INVALID_ARG"

\* reject_request(): initial exchanges outside their state, and requests to
\* the initiator of a half-open SA except INFORMATIONAL FRAGMENT_ACKs
RejectRequest(p, s, msg) ==
    \/ msg.type = "IKE_SA_INIT" /\ s.sa # "CREATED"
    \/ msg.type = "IKE_AUTH" /\ s.sa # "CONNECTING"
    \/ /\ s.sa \in {"CREATED", "CONNECTING"}
       /\ p = Ini
       /\ ~(msg.type = "INFORMATIONAL" /\ msg.kind = "ack")

(***************************************************************************)
(* process_message() for a request: replay the cached response for a      *)
(* retransmission; for any other unexpected MID only process a            *)
(* FRAGMENT_ACK; otherwise reject or go on to handle_fragment().          *)
(***************************************************************************)
ReceiveRequest(p, s, msg) ==
    CASE IsRetransmit(s, msg) = "ALREADY_DONE" -> Result(s, s.rcache, "SUCCESS")
      [] IsRetransmit(s, msg) = "INVALID_ARG" ->
            Result(IF msg.kind = "ack" THEN ProcessFragmentAck(s, msg.ack) ELSE s,
                   {}, "SUCCESS")
      [] OTHER -> IF RejectRequest(p, s, msg) THEN Result(s, {}, "FAILED")
                  ELSE HandleFragment(p, s, msg)

(***************************************************************************)
(* process_response(): latch the peer's SFR support; a response of        *)
(* another exchange type destroys the SA, except an INFORMATIONAL one     *)
(* while no exchange is in the air; otherwise the exchange completes      *)
(* (IKE_AUTH establishes the SA), initiating.mid advances, the tracker is *)
(* kept and initiate() starts the next exchange.                          *)
(***************************************************************************)
ProcessResponse(p, s, msg) ==
    LET s1 == [s EXCEPT !.psup = @ \/ msg.sfr]
    IN IF msg.type # s.itype /\ ~(msg.type = "INFORMATIONAL" /\ s.itype = None)
       THEN Result(s1, {}, "DESTROY_ME")
       ELSE Initiate(p, [s1 EXCEPT !.imid = @ + 1, !.itype = None,
                          !.sa = IF s.itype = "IKE_AUTH" THEN "ESTABLISHED" ELSE @])

\* process_message() for a response: only one with initiating.mid is
\* processed; handle_fragment() hashes it into responding.hash first
ReceiveResponse(p, s, msg) ==
    IF msg.mid # s.imid THEN Result(s, {}, "SUCCESS")
    ELSE LET r == ProcessResponse(p, [s EXCEPT !.rhash = msg], msg)
         IN IF r.status = "SUCCESS" THEN r ELSE Result(r.st, r.out, "DESTROY_ME")

ProcessMessage(p, s, msg) ==
    IF msg.kind = "resp" THEN ReceiveResponse(p, s, msg) ELSE ReceiveRequest(p, s, msg)

-----------------------------------------------------------------------------
InitPeer ==
    [sa |-> "CREATED", work |-> 1, imid |-> 0, itype |-> None, iretx |-> 0,
     tracker |-> NoTracker, psup |-> FALSE, rmid |-> 0, rhash |-> None,
     rprev |-> None, rcache |-> {}, rdefrag |-> {}, jobs |-> EmptyBag,
     ackseq |-> 0, got |-> {}, down |-> "no"]

Init ==
    /\ tm = [p \in Peers |-> InitPeer]
    /\ net = {}
    /\ lost = 0
    /\ dups = 0

\* the peer's state after a handler returned r (DESTROY_ME destroys the SA)
After(r, why) == IF r.status = "DESTROY_ME" THEN Dead(r.st, why) ELSE r.st

\* ike_sa_t.initiate(): a task is queued and the task manager initiates it
Start(p) ==
    /\ tm[p].sa # "DEAD"
    /\ tm[p].itype = None
    /\ CanStart(p, tm[p])
    /\ LET r == Initiate(p, tm[p])
       IN /\ tm' = [tm EXCEPT ![p] = After(r, "message")]
          /\ net' = net \cup r.out
    /\ UNCHANGED <<lost, dups>>

(***************************************************************************)
(* retransmit_job_t fires for mid. Its timeout exceeds the round trip, so *)
(* it fires once nothing is in flight. Any status but SUCCESS makes       *)
(* ike_sa_t.retransmit() destroy the SA.                                  *)
(***************************************************************************)
RetransmitJob(p, mid) ==
    /\ BagIn(mid, tm[p].jobs)
    /\ net = {}
    /\ LET r == Retransmit(p, [tm[p] EXCEPT !.jobs = BagRemove(@, mid)], mid)
       IN /\ tm' = [tm EXCEPT ![p] = IF r.status = "SUCCESS" THEN r.st
                                     ELSE Dead(r.st, "retransmit")]
          /\ net' = r.out
    /\ UNCHANGED <<lost, dups>>

\* the receiver's process_message(); a destroyed SA receives nothing
Receive(msg, rest) ==
    LET p == Other(msg.src)
        r == ProcessMessage(p, tm[p], msg)
    IN IF tm[p].sa = "DEAD" THEN UNCHANGED tm /\ net' = rest
       ELSE /\ tm' = [tm EXCEPT ![p] = After(r, "message")]
            /\ net' = rest \cup r.out

Deliver(msg) == Receive(msg, net \ {msg}) /\ UNCHANGED <<lost, dups>>

Duplicate(msg) ==
    /\ dups < MaxDup
    /\ Receive(msg, net)
    /\ dups' = dups + 1
    /\ UNCHANGED lost

Lose(msg) ==
    /\ lost < MaxLoss
    /\ net' = net \ {msg}
    /\ lost' = lost + 1
    /\ UNCHANGED <<tm, dups>>

Next ==
    \/ \E p \in Peers : Start(p)
    \/ \E p \in Peers : \E mid \in DOMAIN tm[p].jobs : RetransmitJob(p, mid)
    \/ \E msg \in net : Deliver(msg) \/ Duplicate(msg) \/ Lose(msg)

(***************************************************************************)
(* Fairness: the scheduler runs every due job, the receiver thread        *)
(* processes every packet that arrives, and queued tasks are initiated.   *)
(* Loss and duplication are not fair.                                     *)
(***************************************************************************)
Fairness ==
    /\ WF_vars(\E p \in Peers : Start(p))
    /\ WF_vars(\E p \in Peers : \E mid \in DOMAIN tm[p].jobs : RetransmitJob(p, mid))
    /\ WF_vars(\E msg \in net : Deliver(msg))

Spec == Init /\ [][Next]_vars

FairSpec == Spec /\ Fairness

-----------------------------------------------------------------------------
TypeOK ==
    /\ lost \in 0..MaxLoss
    /\ dups \in 0..MaxDup
    /\ \A m \in net : m.kind \in {"req", "resp", "ack"} /\ m.src \in Peers
                      /\ m.type \in Types /\ m.fno \in 1..m.nfrag
    /\ \A p \in Peers :
        /\ tm[p].sa \in States
        /\ tm[p].itype \in Types \cup {None}
        /\ tm[p].iretx \in 0..Tries + 1
        /\ tm[p].imid \in Nat /\ tm[p].rmid \in Nat
        /\ tm[p].work \in 1..Len(Work[p]) + 1
        /\ tm[p].tracker = NoTracker
           \/ tm[p].tracker.acked \subseteq 1..tm[p].tracker.total
        /\ \A mid \in DOMAIN tm[p].jobs : mid \in Nat
        /\ tm[p].down \in {"no", "message", "retransmit"}

(***************************************************************************)
(* Every fragment the sender's tracker marks acknowledged was really      *)
(* absorbed by the peer's reassembler: the ACKs built by                  *)
(* send_immediate_fragment_ack() from the reassembler, relayed over MID 0 *)
(* and applied by process_fragment_ack() never claim a fragment the peer  *)
(* lacks, so selective retransmission never skips a missing one.          *)
(***************************************************************************)
AckSound ==
    \A p \in Peers :
        tm[p].tracker # NoTracker =>
            \A f \in tm[p].tracker.acked :
                Fragment(p, tm[p].tracker.mid, tm[p].tracker.type, f) \in tm[Other(p)].got

(***************************************************************************)
(* The sliding window of one between the initiator's initiating.mid and   *)
(* the responder's responding.mid: the responder has processed exactly    *)
(* the initiator's completed requests, plus the outstanding one at most.  *)
(* Broken if process_message() processes a retransmitted request again or *)
(* process_response() completes an exchange with a foreign response.     *)
(***************************************************************************)
RequestWindow ==
    \/ tm[Res].rmid = tm[Ini].imid
    \/ tm[Res].rmid = tm[Ini].imid + 1 /\ tm[Ini].itype # None

(***************************************************************************)
(* initiating.mid counts the exchanges the peer's own tasks initiated and *)
(* completed (spec section 8, invariant 3; section 4.7: the MID-0 ACK is  *)
(* not part of any exchange's sliding window).                            *)
(***************************************************************************)
MidCountsExchanges ==
    \A p \in Peers :
        tm[p].imid = tm[p].work - 1 - (IF tm[p].itype # None THEN 1 ELSE 0)

(***************************************************************************)
(* A retransmit job tears an SA down (ike_sa_t.retransmit() on a failed   *)
(* retransmit()) only after more packets were lost than the retransmit    *)
(* tries can make up for: with timeouts longer than the round trip, every *)
(* unanswered transmission of the outstanding request costs a loss.       *)
(***************************************************************************)
GiveUpNeedsLosses ==
    \A p \in Peers : tm[p].down = "retransmit" => lost > Tries

(***************************************************************************)
(* The refinement mapping onto ExchangeWindow: an exchange of p is begun  *)
(* when initiate() takes its task (work), open while initiating.type is   *)
(* set, done when initiating.mid advances, and served when the other      *)
(* peer's responding.mid advances past it.                                *)
(***************************************************************************)
Window == INSTANCE ExchangeWindow WITH
    Peers   <- Peers,
    Count   <- [p \in Peers |-> Len(Work[p])],
    started <- [p \in Peers |-> tm[p].work - 1],
    open    <- [p \in Peers |-> tm[p].itype # None],
    done    <- [p \in Peers |-> tm[p].imid],
    served  <- [p \in Peers |-> tm[Other(p)].rmid],
    up      <- [p \in Peers |-> tm[p].sa # "DEAD"]

\* Both task managers together implement the window of one: every step is
\* a step of ExchangeWindow (process_message() serves each request once,
\* process_response() completes only a served exchange, initiate() waits).
WindowSpec == Window!Spec

\* Every exchange initiate() starts ends: process_response() completes it
\* or retransmit() gives the SA up.
WindowEnds == Window!ExchangeEnds

(***************************************************************************)
(* Every exchange a peer initiates eventually completes: its response is  *)
(* processed by process_response() and initiating.type is reset.          *)
(***************************************************************************)
ExchangeCompletes ==
    \A p \in Peers : tm[p].itype # None ~> tm[p].itype = None

=============================================================================
