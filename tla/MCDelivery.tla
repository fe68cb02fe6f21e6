----------------------------- MODULE MCDelivery -----------------------------
(* Delivery with the overflow policies a connection can be registered with. *)
EXTENDS Delivery

MCDropNewest == [c \in Conns |-> "DropNewest"]
MCDropOldest == [c \in Conns |-> "DropOldest"]
(* Responsive clients are disconnected on overflow, for the others events are dropped. *)
MCMixed == [c \in Conns |-> IF c \in Responsive THEN "Disconnect" ELSE "DropNewest"]
=============================================================================
