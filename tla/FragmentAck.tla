---------------------------- MODULE FragmentAck ----------------------------
(***************************************************************************)
(* The FRAGMENT_ACK codec of the selective fragment retransmission (SFR)   *)
(* extension in task_manager_v2.c:                                         *)
(*  - AckFor: the record send_immediate_fragment_ack() builds from what    *)
(*    the reassembler reports (fragment_ack_data_t, network byte order);   *)
(*  - AckedBy: the fragments update_fragment_ack_status() marks from it,   *)
(*    behind the message-ID check of process_fragment_ack().               *)
(* Pure operators; MCFragmentAck checks them over bounded inputs and       *)
(* TaskManager uses them for every ACK it sends and receives.              *)
(***************************************************************************)
EXTENDS Integers, FiniteSets, FiniteSetsExt

LOCAL INSTANCE Bitwise

\* uint16_t ack_bitmap[8]; only the fragments 1..64 ever get a bit
BitmapWords == 0..7
BitmapCapacity == 64
U16 == 2^16

\* htons()/ntohs() on a little-endian host: swap the two bytes
HtoNs(x) == (x % 256) * 256 + x \div 256
NtoHs(x) == HtoNs(x)

\* word index and bit of fragment f (1-based): (f-1)/16 and 1 << (f-1)%16
Word(f) == (f - 1) \div 16
Bit(f) == 2^((f - 1) % 16)

\* mutant: the bitmap word written in host byte order (htons() missing)
WireWordHostOrder(frags, w) ==
    FoldSet(LAMBDA f, acc : acc | Bit(f), 0,
            {f \in frags : 0 < f /\ f <= BitmapCapacity /\ Word(f) = w})

\* ack.ack_bitmap[w] |= htons(1 << pos) for every listed fragment of word w
WireWord(frags, w) ==
    FoldSet(LAMBDA f, acc : acc | HtoNs(Bit(f)), 0,
            {f \in frags : 0 < f /\ f <= BitmapCapacity /\ Word(f) = w})

(***************************************************************************)
(* send_immediate_fragment_ack(defrag, message_id, fragment_number).       *)
(* held/defragTotal: what get_received_fragments()/get_total_fragments()   *)
(* report. Both are empty once the reassembler has merged the message,     *)
(* and the code then takes fragment_number as the total and lists          *)
(* 1..fragment_number; with a known total but an empty list it lists       *)
(* 1..total.                                                               *)
(***************************************************************************)
\* mutant: the ACK lists every fragment of the message, held or not
AckForAllFragments(mid, held, defragTotal, fno) ==
    LET total == IF defragTotal = 0 THEN fno ELSE defragTotal
    IN [message_id      |-> HtoNs(mid % U16),
        total_fragments |-> HtoNs(total % U16),
        received_count  |-> HtoNs(total % U16),
        ack_bitmap      |-> [w \in BitmapWords |-> WireWord(1..total, w)]]

AckFor(mid, held, defragTotal, fno) ==
    LET total == IF held = {} /\ defragTotal = 0 THEN fno ELSE defragTotal
        listed == IF held = {} THEN 1..total ELSE held
    IN [message_id      |-> HtoNs(mid % U16),
        total_fragments |-> HtoNs(total % U16),
        received_count  |-> HtoNs(Cardinality(listed) % U16),
        ack_bitmap      |-> [w \in BitmapWords |-> WireWord(listed, w)]]

(***************************************************************************)
(* process_fragment_ack() + update_fragment_ack_status(): the fragments of *)
(* a tracker (message_id trackerMid, fragments 1..total) that the ACK      *)
(* acknowledges. An ACK for another message ID acknowledges nothing.       *)
(***************************************************************************)
AckedBy(ack, trackerMid, total) ==
    IF NtoHs(ack.message_id) # trackerMid
    THEN {}
    ELSE {f \in 1..total :
            /\ f <= BitmapCapacity
            /\ (NtoHs(ack.ack_bitmap[Word(f)]) & Bit(f)) # 0}

=============================================================================
