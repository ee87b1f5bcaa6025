------------------------------- MODULE MCLoop -------------------------------
(* Instances of Loop: two clients for one slot, children and signals, and   *)
(* the raw socket of an attempt that a client, the card and an interface     *)
(* that goes down and up again work on.                                     *)
EXTENDS Loop

MCBudgets == {[clients |-> 2, events |-> 0, frames |-> 0, terms |-> 0],
              [clients |-> 1, events |-> 1, frames |-> 2, terms |-> 0],
              [clients |-> 1, events |-> 0, frames |-> 1, terms |-> 1],
              [clients |-> 0, events |-> 3, frames |-> 2, terms |-> 1]}
=============================================================================
