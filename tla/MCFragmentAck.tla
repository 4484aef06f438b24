--------------------------- MODULE MCFragmentAck ---------------------------
(***************************************************************************)
(* Checks the FRAGMENT_ACK codec against its reference: the reassembler of *)
(* the receiving peer absorbs the fragments of one message in any order;   *)
(* after every fragment handle_fragment() sends AckFor(...) and the        *)
(* sending peer's tracker marks AckedBy(...). The reference is the set of  *)
(* fragments the reassembler really holds.                                 *)
(***************************************************************************)
EXTENDS FragmentAck

CONSTANTS
    Mids,       \* message IDs of the acknowledged message
    Totals      \* fragment counts of the acknowledged message

ASSUME Mids \subseteq Nat /\ Totals \subseteq (Nat \ {0, 1})

VARIABLES
    mid,        \* message ID of the fragmented message
    total,      \* its number of fragments
    held,       \* fragments the reassembler has absorbed
    fno,        \* number of the fragment absorbed last
    merged      \* the reassembler has merged the message

vars == <<mid, total, held, fno, merged>>

\* fragment numbers worth trying: both ends of every 16-bit word and 65, 66
Candidates(n) == {1, 2, 3, 16, 17, 64, 65, 66} \cap 1..n

\* the ACK sent after the last fragment was absorbed
Sent == IF merged THEN AckFor(mid, {}, 0, fno) ELSE AckFor(mid, held, total, fno)

Init ==
    /\ mid \in Mids
    /\ total \in Totals
    /\ held = {}
    /\ fno = 0
    /\ merged = FALSE

\* the reassembler absorbs one more fragment (message_t.add_fragment)
Absorb(f) ==
    /\ f \notin held
    /\ held' = held \cup {f}
    /\ fno' = f
    /\ merged' = (held' = 1..total)
    /\ UNCHANGED <<mid, total>>

Next == \E f \in Candidates(total) : Absorb(f)

Spec == Init /\ [][Next]_vars

\* Every ACK sent while the message is still incomplete acknowledges exactly
\* the fragments the receiver holds (send_immediate_fragment_ack encoding,
\* update_fragment_ack_status decoding): no held fragment is left out and no
\* missing one is claimed.
HeldFragmentsAcked ==
    fno # 0 /\ ~merged => AckedBy(Sent, mid, total) = held

=============================================================================
