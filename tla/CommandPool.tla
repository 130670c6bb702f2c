----------------------------- MODULE CommandPool -----------------------------
(***************************************************************************)
(* What the SPI command queue of the application promises to those who     *)
(* hand it commands: a pool of at most Capacity of them.  A command is     *)
(* refused only when the pool is full; one that was taken is executed once *)
(* at most, with the parameters it came with, and leaves the pool only     *)
(* after it was executed or when the processor restarts.  Nothing is       *)
(* promised about the order.                                               *)
(***************************************************************************)
EXTENDS Integers, FiniteSets

CONSTANTS
  Capacity,   \* SPI_MSG_QUEUE_LENGTH
  Messages    \* the commands with their parameters

VARIABLES
  sent,       \* how many commands were handed over; each gets its number
  waiting,    \* the commands in the pool
  executed,   \* the commands that were executed
  refused     \* the numbers of the commands that were turned away

vars == <<sent, waiting, executed, refused>>

Init ==
  /\ sent = 0
  /\ waiting = {}
  /\ executed = {}
  /\ refused = {}

Take(m) ==
  /\ Cardinality(waiting) < Capacity
  /\ sent' = sent + 1
  /\ waiting' = waiting \cup {[id |-> sent + 1, msg |-> m]}
  /\ UNCHANGED <<executed, refused>>

Refuse ==
  /\ Cardinality(waiting) = Capacity
  /\ sent' = sent + 1
  /\ refused' = refused \cup {sent + 1}
  /\ UNCHANGED <<waiting, executed>>

Execute(e) ==
  /\ e \in waiting \ executed
  /\ executed' = executed \cup {e}
  /\ UNCHANGED <<sent, waiting, refused>>

Leave(e) ==
  /\ e \in waiting \cap executed
  /\ waiting' = waiting \ {e}
  /\ UNCHANGED <<sent, executed, refused>>

Restart ==
  /\ waiting' = {}
  /\ UNCHANGED <<sent, executed, refused>>

Next ==
  \/ \E m \in Messages : Take(m)
  \/ Refuse
  \/ \E e \in waiting : Execute(e) \/ Leave(e)
  \/ Restart

Spec == Init /\ [][Next]_vars

=============================================================================
