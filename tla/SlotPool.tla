------------------------------ MODULE SlotPool ------------------------------
(***************************************************************************)
(* What a buffered channel of slots promises: a client takes a slot if one *)
(* of Limit is left, keeps it, and gives it back once; nothing else fills  *)
(* or empties the channel.  The slots of job output reads (JobOutput),     *)
(* where the holder of a slot changes on the way, and those that creations *)
(* of directory accounts take (LdapProvision) implement it.                *)
(***************************************************************************)
EXTENDS Integers

CONSTANTS PoolClients, Limit

VARIABLES holders,  \* the clients that have a slot
          used      \* len of the channel

Init == holders = {} /\ used = 0

Acquire(c) == /\ c \notin holders
              /\ used < Limit
              /\ holders' = holders \cup {c}
              /\ used' = used + 1

Release(c) == /\ c \in holders
              /\ holders' = holders \ {c}
              /\ used' = used - 1

Next == \E c \in PoolClients : Acquire(c) \/ Release(c)

Spec == Init /\ [][Next]_<<holders, used>>
=============================================================================
