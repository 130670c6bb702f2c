----------------------------- MODULE MessageChannel -----------------------------
(***************************************************************************)
(* What the line from the main CPU promises to the command handlers: a     *)
(* channel that may damage and lose messages, but does not reorder them,   *)
(* and hands over a message that was not damaged unchanged and once at     *)
(* most.  A message is damaged only on its way.  Once the ring was written *)
(* over or the second CPU interfered (broken), only the order is left.     *)
(***************************************************************************)
EXTENDS Integers, Sequences

VARIABLES
  sent,       \* how many messages were sent; each gets its number
  damaged,    \* those that were damaged or lost on the way
  delivered,  \* those that were handled, and whether they were as sent
  broken      \* the channel keeps only the order

vars == <<sent, damaged, delivered, broken>>

Init == sent = 0 /\ damaged = {} /\ delivered = <<>> /\ broken = FALSE

Delivered == {delivered[k].message : k \in DOMAIN delivered}

Send ==
  /\ sent' = sent + 1
  /\ UNCHANGED <<damaged, delivered, broken>>

Damage(D) ==
  /\ \A n \in D : broken \/ n \in damaged \/ n \notin Delivered
  /\ damaged' = damaged \cup D
  /\ UNCHANGED <<sent, delivered, broken>>

Deliver(n, intact) ==
  /\ \A m \in Delivered : m <= n
  /\ broken \/ n \in damaged \/ (intact /\ n \notin Delivered)
  /\ delivered' = Append(delivered, [message |-> n, intact |-> intact])
  /\ UNCHANGED <<sent, damaged, broken>>

Break ==
  /\ broken' = TRUE
  /\ UNCHANGED <<sent, damaged, delivered>>

Next ==
  \/ Send
  \/ \E D \in SUBSET (1..sent) : Damage(D)
  \/ \E n \in 1..sent, intact \in BOOLEAN : Deliver(n, intact)
  \/ Break

Spec == Init /\ [][Next]_vars

(* What whoever reads from the channel can rely on: messages come in the   *)
(* order in which they were sent; one that was not damaged comes as it was *)
(* sent, and only once.                                                    *)
Promise ==
  \A i, j \in DOMAIN delivered :
    /\ i < j => delivered[i].message <= delivered[j].message
    /\ ~broken /\ delivered[i].message \notin damaged =>
         delivered[i].intact /\ (i # j => delivered[j].message # delivered[i].message)

=============================================================================
