---------------------------- MODULE Fulfilment ----------------------------
(***************************************************************************)
(* What the shop promises, with no tables, events, queues or retries: an   *)
(* order is placed once, is decided once against the free stock (all of    *)
(* its lines or none), and a reserved order is shipped once.               *)
(***************************************************************************)
EXTENDS Integers

CONSTANTS
  Skus,          \* the stock keeping units
  Orders,        \* the orders
  Carts,         \* what an order may ask for
  Demand(_, _),  \* Demand(c, s): how much of s the cart c asks for
  MaxInt         \* the largest stock

VARIABLES
  stage,  \* stage[o]: how far order o has come
  cart,   \* cart[o]: what order o asks for, <<>> before it is placed
  free    \* free[s]: units of s that are on hand and not promised

vars == <<stage, cart, free>>

Init ==
  /\ stage = [o \in Orders |-> "absent"]
  /\ cart = [o \in Orders |-> <<>>]
  /\ free = [s \in Skus |-> 0]

Place(o) ==
  /\ stage[o] = "absent"
  /\ stage' = [stage EXCEPT ![o] = "created"]
  /\ \E c \in Carts : cart' = [cart EXCEPT ![o] = c]
  /\ UNCHANGED free

\* Stock is delivered or written off; what is promised is never taken away.
Supply(s) ==
  /\ \E n \in 0..MaxInt : free' = [free EXCEPT ![s] = n]
  /\ UNCHANGED <<stage, cart>>

Fits(o) == \A s \in Skus : Demand(cart[o], s) <= free[s]

Reserve(o) ==
  /\ stage[o] = "created"
  /\ Fits(o)
  /\ stage' = [stage EXCEPT ![o] = "inventory_reserved"]
  /\ free' = [s \in Skus |-> free[s] - Demand(cart[o], s)]
  /\ UNCHANGED cart

Reject(o) ==
  /\ stage[o] = "created"
  /\ ~Fits(o)
  /\ stage' = [stage EXCEPT ![o] = "inventory_rejected"]
  /\ UNCHANGED <<cart, free>>

Ship(o) ==
  /\ stage[o] = "inventory_reserved"
  /\ stage' = [stage EXCEPT ![o] = "shipment_created"]
  /\ UNCHANGED <<cart, free>>

Next ==
  \/ \E o \in Orders : Place(o) \/ Reserve(o) \/ Reject(o) \/ Ship(o)
  \/ \E s \in Skus : Supply(s)

Spec == Init /\ [][Next]_vars
=============================================================================
