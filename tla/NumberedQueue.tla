---------------------------- MODULE NumberedQueue ----------------------------
(***************************************************************************)
(* The SPI command queue with its history: every command gets a number     *)
(* when it is handed over, and the queue is shown to implement             *)
(* CommandPool.                                                            *)
(***************************************************************************)
EXTENDS SpiQueue

CONSTANTS
  Messages,   \* the commands with their parameters
  MaxSent     \* bound on the commands handed to the queue

VARIABLES
  sent,       \* how many commands were handed over
  executed,   \* the commands that were executed
  refused     \* the numbers of those that found the queue full

history == <<sent, executed, refused>>
vars == <<queueVars, history>>

ASSUME EntriesAssumption ==
  MaxSent \in Nat /\ Entries = [id : 1..MaxSent, msg : Messages]

Init ==
  /\ QueueInit
  /\ sent = 0
  /\ executed = {}
  /\ refused = {}

QueueMsg(m) ==
  /\ Accept([id |-> sent + 1, msg |-> m])
  /\ sent' = sent + 1
  /\ UNCHANGED <<executed, refused>>

QueueFull ==
  /\ Drop
  /\ sent' = sent + 1
  /\ refused' = refused \cup {sent + 1}
  /\ UNCHANGED executed

Serve == (Select \/ Release) /\ UNCHANGED history

RunCommand ==
  /\ Execute
  /\ executed' = executed \cup {Current}
  /\ UNCHANGED <<sent, refused>>

Restart == Setup /\ UNCHANGED history

Next ==
  \/ sent < MaxSent /\ \E m \in Messages : QueueMsg(m)
  \/ sent < MaxSent /\ QueueFull
  \/ Serve
  \/ RunCommand
  \/ Restart

Spec == Init /\ [][Next]_vars

-----------------------------------------------------------------------------

Waiting == {slots[i] : i \in Occupied}

(* Type correctness with the history.                                      *)
TypeOK ==
  /\ QueueTypeOK
  /\ sent \in 0..MaxSent
  /\ executed \subseteq Entries
  /\ refused \subseteq 1..sent

(* The slots implement the pool: no command that was taken is lost, run    *)
(* twice or run with another one's parameters, however the interrupt that  *)
(* fills the slots and the main loop that empties them interleave, and a   *)
(* command is turned away only when all slots are taken.                   *)
Pool == INSTANCE CommandPool WITH Capacity <- Length, waiting <- Waiting
PoolSpec == Pool!Spec

(* "try to maintain order of commands": commands run in the order in which *)
(* they were taken.  The code does not keep this (README, findings).       *)
OrderKept ==
  [][\A new \in executed' \ executed, old \in executed : old.id < new.id]_executed

=============================================================================
