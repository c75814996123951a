------------------------------- MODULE Cart -------------------------------
(***************************************************************************)
(* What an order asks for.  A cart is the list of lines of POST /orders:   *)
(* schemas.py demands at least one line and a positive quantity, and       *)
(* OrderItem.__post_init__ repeats the check.  Nothing in the code demands *)
(* that the SKUs of two lines differ.                                      *)
(***************************************************************************)
EXTENDS Integers, Sequences, FiniteSetsExt

CONSTANTS
  Skus,    \* the stock keeping units
  Carts,   \* the line lists the clients may send
  MaxInt   \* the largest value of a PostgreSQL INTEGER column

Line == [sku : Skus, quantity : 1..MaxInt]

SkusOf(cart) == { cart[i].sku : i \in DOMAIN cart }

\* What all the lines of the cart together ask of SKU s: the sum that
\* repeated calls of InventoryItem.reserve add to "reserved".
Demand(cart, s) ==
  MapThenSumSet(LAMBDA i : cart[i].quantity,
                { i \in DOMAIN cart : cart[i].sku = s })

\* Two lines of the cart name the same SKU.
RepeatsSku(cart) ==
  \E i, j \in DOMAIN cart : i # j /\ cart[i].sku = cart[j].sku

ASSUME CartAssumption ==
  /\ MaxInt \in Nat
  /\ \A cart \in Carts : cart \in Seq(Line) /\ cart # <<>>
=============================================================================
