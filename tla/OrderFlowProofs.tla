------------------------- MODULE OrderFlowProofs -------------------------
(***************************************************************************)
(* Proofs about OrderFlow for any orders, SKUs, carts, keys and bounds.    *)
(***************************************************************************)
EXTENDS OrderFlow, FiniteSetTheorems, WellFoundedInduction, TLAPS

(***************************************************************************)
(* Sums.  MapThenSumSet is a recursive function on the subsets of a set,   *)
(* which takes the elements away one at a time in an order CHOOSE picks.   *)
(* It exists, is unique, and its value does not depend on that order: by   *)
(* induction over the subsets (SubsetInduction).                           *)
(***************************************************************************)
\* A set of natural numbers that is not empty has a least element.
LEMMA LeastElement ==
  ASSUME NEW S \in SUBSET Nat, S # {}
  PROVE  \E m \in S : \A n \in S : m <= n
  <1> DEFINE R == OpToRel(<, Nat)
  <1>1. PICK m \in S : \A n \in S : ~(<<n, m>> \in R)
    BY NatLessThanWellFounded, WFMin
  <1>2. \A n \in Nat : n < m => <<n, m>> \in R
    BY DEF OpToRel
  <1> HIDE DEF R
  <1>3. \A n \in S : n \in Nat /\ m \in Nat /\ ~(n < m)
    BY <1>1, <1>2
  <1>4. \A n \in S : m <= n
    BY <1>3
  <1> QED
    BY <1>4

\* A set that holds every subset of S of which it holds all proper subsets,
\* holds all subsets of S.
LEMMA SubsetInduction ==
  ASSUME NEW S, IsFiniteSet(S), NEW G,
         \A T \in SUBSET S : (\A U \in SUBSET T : U # T => U \in G) => T \in G
  PROVE  \A T \in SUBSET S : T \in G
  <1> DEFINE Bad == { T \in SUBSET S : T \notin G }
             Sizes == { Cardinality(T) : T \in Bad }
  <1>1. \A T \in SUBSET S : IsFiniteSet(T) /\ Cardinality(T) \in Nat
    BY FS_Subset, FS_CardinalityType
  <1>2. Sizes \in SUBSET Nat
    BY <1>1
  <1>3. ASSUME Bad # {} PROVE FALSE
    <2>1. Sizes # {}
      BY <1>3
    <2>2. PICK n \in Sizes : \A k \in Sizes : n <= k
      <3> HIDE DEF Sizes
      <3> QED
        BY <1>2, <2>1, LeastElement
    <2>3. PICK T \in Bad : Cardinality(T) = n
      BY <2>2
    <2>4. ASSUME NEW U \in SUBSET T, U # T
          PROVE  U \in G
      <3>1. IsFiniteSet(T) /\ U \in SUBSET S
        BY <1>1
      <3>2. Cardinality(U) <= Cardinality(T) /\ Cardinality(U) # Cardinality(T)
        BY <2>4, <3>1, FS_Subset
      <3>3. Cardinality(U) \in Nat /\ Cardinality(T) \in Nat
        BY <1>1, <3>1
      <3>4. ~(n <= Cardinality(U))
        BY <2>3, <3>2, <3>3
      <3> QED
        BY <2>2, <3>1, <3>4
    <2> QED
      BY <2>3, <2>4
  <1> QED
    BY <1>3

\* The element that is taken away from t, and the recursive function.
Some(t) == CHOOSE x \in t : TRUE

IsIter(g, f, S) ==
  g = [t \in SUBSET S |-> IF t = {} THEN 0 ELSE f[Some(t)] + g[t \ {Some(t)}]]

LEMMA SomeIn == \A t : t # {} => Some(t) \in t
  BY DEF Some

\* Two such functions agree where both are defined.
LEMMA IterUnique ==
  ASSUME NEW S, IsFiniteSet(S), NEW R, S \subseteq R, NEW f, NEW h, NEW g, NEW k,
         \A x \in S : f[x] = h[x],
         IsIter(g, f, S), IsIter(k, h, R)
  PROVE  \A T \in SUBSET S : g[T] = k[T]
  <1> DEFINE G == { T \in SUBSET S : g[T] = k[T] }
  <1>1. ASSUME NEW T \in SUBSET S, \A U \in SUBSET T : U # T => U \in G
        PROVE  T \in G
    <2> DEFINE U == T \ {Some(T)}
    <2>1. CASE T = {}
      BY <2>1 DEF IsIter
    <2>2. CASE T # {}
      <3>1. Some(T) \in T /\ U \in SUBSET T /\ U # T
        BY <2>2, SomeIn
      <3>2. g[U] = k[U] /\ f[Some(T)] = h[Some(T)]
        BY <1>1, <3>1
      <3>3. g[T] = f[Some(T)] + g[U]
        BY <2>2 DEF IsIter
      <3>4. k[T] = h[Some(T)] + k[U]
        BY <2>2 DEF IsIter
      <3> QED
        BY <3>2, <3>3, <3>4
    <2> QED
      BY <2>1, <2>2
  <1> HIDE DEF G
  <1>2. \A T \in SUBSET S : T \in G
    BY <1>1, SubsetInduction
  <1> QED
    BY <1>2 DEF G

LEMMA Unfold ==
  ASSUME NEW S, NEW f, NEW g, IsIter(g, f, S), NEW T \in SUBSET S
  PROVE  g[T] = IF T = {} THEN 0 ELSE f[Some(T)] + g[T \ {Some(T)}]
  BY DEF IsIter

\* The sum of f over t.
Value(f, t) == (CHOOSE g : IsIter(g, f, t))[t]

\* The function on S gives the sum over each subset of S.
LEMMA ValueOf ==
  ASSUME NEW S, IsFiniteSet(S), NEW f, NEW g, IsIter(g, f, S), NEW T \in SUBSET S
  PROVE  Value(f, T) = g[T]
  <1>1. IsFiniteSet(T)
    BY FS_Subset
  <1> DEFINE h == [t \in SUBSET T |-> g[t]]
  <1>2. IsIter(h, f, T)
    <2>1. ASSUME NEW t \in SUBSET T
          PROVE  h[t] = IF t = {} THEN 0 ELSE f[Some(t)] + h[t \ {Some(t)}]
      <3>1. t \in SUBSET S /\ t \ {Some(t)} \in SUBSET T
        OBVIOUS
      <3>2. h[t] = g[t] /\ h[t \ {Some(t)}] = g[t \ {Some(t)}]
        BY <3>1
      <3> QED
        BY <3>1, <3>2, Unfold
    <2>2. h = [t \in SUBSET T |-> h[t]]
      OBVIOUS
    <2> HIDE DEF h
    <2>3. h = [t \in SUBSET T |-> IF t = {} THEN 0 ELSE f[Some(t)] + h[t \ {Some(t)}]]
      BY <2>1, <2>2
    <2> QED
      BY <2>3 DEF IsIter
  <1> DEFINE c == CHOOSE k : IsIter(k, f, T)
  <1>3. IsIter(c, f, T)
    BY <1>2
  <1> HIDE DEF c
  <1>4. c[T] = g[T]
    BY <1>1, <1>3, IterUnique
  <1> QED
    BY <1>4 DEF Value, c

\* It exists: its value on t needs the sums over smaller sets alone.
LEMMA IterExists ==
  ASSUME NEW S, IsFiniteSet(S), NEW f
  PROVE  \E g : IsIter(g, f, S)
  <1> DEFINE G == { T \in SUBSET S : \E g : IsIter(g, f, T) }
  <1>1. ASSUME NEW T \in SUBSET S, \A U \in SUBSET T : U # T => U \in G
        PROVE  T \in G
    <2> DEFINE g == [t \in SUBSET T |->
                       IF t = {} THEN 0 ELSE f[Some(t)] + Value(f, t \ {Some(t)})]
    <2>1. ASSUME NEW U \in SUBSET T, U # T
          PROVE  g[U] = Value(f, U)
      <3>1. PICK k : IsIter(k, f, U)
        BY <1>1, <2>1
      <3>2. IsFiniteSet(U)
        BY FS_Subset
      <3>3. Value(f, U) = k[U]
        BY <3>1, <3>2, ValueOf
      <3>4. Value(f, U \ {Some(U)}) = k[U \ {Some(U)}]
        BY <3>1, <3>2, ValueOf
      <3>5. k[U] = IF U = {} THEN 0 ELSE f[Some(U)] + k[U \ {Some(U)}]
        BY <3>1, Unfold
      <3> QED
        BY <3>3, <3>4, <3>5
    <2>2. ASSUME NEW t \in SUBSET T
          PROVE  g[t] = IF t = {} THEN 0 ELSE f[Some(t)] + g[t \ {Some(t)}]
      <3>1. CASE t # {}
        <4>1. t \ {Some(t)} \in SUBSET T /\ t \ {Some(t)} # T
          BY <3>1, SomeIn
        <4>2. g[t \ {Some(t)}] = Value(f, t \ {Some(t)})
          BY <2>1, <4>1
        <4> QED
          BY <3>1, <4>2
      <3> QED
        BY <3>1
    <2>3. g = [t \in SUBSET T |-> g[t]]
      OBVIOUS
    <2> HIDE DEF g
    <2>4. IsIter(g, f, T)
      BY <2>2, <2>3 DEF IsIter
    <2> QED
      BY <2>4
  <1> HIDE DEF G
  <1>2. \A T \in SUBSET S : T \in G
    BY <1>1, SubsetInduction
  <1> QED
    BY <1>2 DEF G

\* Whichever element is taken away first, the sum is the same.
LEMMA IterAdds ==
  ASSUME NEW S, IsFiniteSet(S), NEW f \in [S -> Nat], NEW g, IsIter(g, f, S)
  PROVE  \A T \in SUBSET S : g[T] \in Nat /\ \A x \in T : g[T] = f[x] + g[T \ {x}]
  <1> DEFINE G == { T \in SUBSET S : g[T] \in Nat /\ \A x \in T : g[T] = f[x] + g[T \ {x}] }
  <1>1. ASSUME NEW T \in SUBSET S, \A U \in SUBSET T : U # T => U \in G
        PROVE  T \in G
    <2> DEFINE c == Some(T)
    <2>1. CASE T = {}
      BY <2>1, Unfold
    <2>2. CASE T # {}
      <3>1. c \in T /\ g[T] = f[c] + g[T \ {c}]
        BY <2>2, SomeIn, Unfold
      <3>2. f[c] \in Nat /\ g[T \ {c}] \in Nat
        BY <1>1, <3>1
      <3>3. ASSUME NEW x \in T, x # c
            PROVE  g[T] = f[x] + g[T \ {x}]
        <4> DEFINE rest == (T \ {c}) \ {x}
        <4>1. rest = (T \ {x}) \ {c}
          OBVIOUS
        <4>2. g[T \ {c}] = f[x] + g[rest]
          BY <1>1, <3>1, <3>3
        <4>3. g[T \ {x}] = f[c] + g[rest]
          BY <1>1, <3>1, <3>3, <4>1
        <4>4. f[x] \in Nat /\ g[rest] \in Nat
          BY <1>1, <3>1
        <4> HIDE DEF rest, c
        <4> QED
          BY <3>1, <3>2, <4>2, <4>3, <4>4
      <3>4. g[T] \in Nat
        BY <3>1, <3>2
      <3>5. \A x \in T : g[T] = f[x] + g[T \ {x}]
        BY <3>1, <3>3
      <3> QED
        BY <3>4, <3>5
    <2> QED
      BY <2>1, <2>2
  <1> HIDE DEF G
  <1>2. \A T \in SUBSET S : T \in G
    BY <1>1, SubsetInduction
  <1> QED
    BY <1>2 DEF G

-----------------------------------------------------------------------------
\* The two sums of the model: the quantities of a cart's lines for a SKU, and
\* the demands of a set of orders, of which lines[o] are those of order o.
LinesFor(cart, s) == { i \in DOMAIN cart : cart[i].sku = s }

DemandOf(lines, S, s) == MapThenSumSet(LAMBDA o : Demand(lines[o], s), S)

LEMMA DemandIs ==
  ASSUME NEW cart, NEW s, IsFiniteSet(LinesFor(cart, s)), NEW f,
         \A i \in LinesFor(cart, s) : f[i] = cart[i].quantity,
         NEW g, IsIter(g, f, LinesFor(cart, s))
  PROVE  Demand(cart, s) = g[LinesFor(cart, s)]
  <1> DEFINE S == { i \in DOMAIN cart : cart[i].sku = s }
             Eqn(h) == h = [t \in SUBSET S |->
                 IF t = {} THEN 0 ELSE cart[Some(t)].quantity + h[t \ {Some(t)}]]
             c == CHOOSE h : Eqn(h)
  <1>1. S = LinesFor(cart, s)
    BY DEF LinesFor
  <1>2. Demand(cart, s) = c[S]
    BY DEF Demand, MapThenSumSet, MapThenFoldSet, Some
  <1> HIDE DEF S
  <1>3. \A h : Eqn(h) <=> IsIter(h, f, S)
    <2>1. \A t \in SUBSET S : t # {} => f[Some(t)] = cart[Some(t)].quantity
      BY <1>1, SomeIn
    <2> QED
      BY <2>1 DEF IsIter
  <1>4. Eqn(c)
    BY <1>1, <1>3
  <1> HIDE DEF c
  <1>5. IsIter(c, f, S)
    BY <1>3, <1>4
  <1>6. c[S] = g[S]
    BY <1>1, <1>5, IterUnique
  <1> QED
    BY <1>1, <1>2, <1>6

LEMMA DemandOfIs ==
  ASSUME NEW lines, NEW s, NEW S, IsFiniteSet(S), NEW f,
         \A o \in S : f[o] = Demand(lines[o], s), NEW g, IsIter(g, f, S)
  PROVE  DemandOf(lines, S, s) = g[S]
  <1> DEFINE Eqn(h) == h = [t \in SUBSET S |->
                 IF t = {} THEN 0 ELSE Demand(lines[Some(t)], s) + h[t \ {Some(t)}]]
             c == CHOOSE h : Eqn(h)
  <1>1. DemandOf(lines, S, s) = c[S]
    BY DEF DemandOf, MapThenSumSet, MapThenFoldSet, Some
  <1>2. \A h : Eqn(h) <=> IsIter(h, f, S)
    <2>1. \A t \in SUBSET S : t # {} => f[Some(t)] = Demand(lines[Some(t)], s)
      BY SomeIn
    <2> QED
      BY <2>1 DEF IsIter
  <1>3. Eqn(c)
    BY <1>2
  <1> HIDE DEF c
  <1>4. IsIter(c, f, S)
    BY <1>2, <1>3
  <1>5. c[S] = g[S]
    BY <1>4, IterUnique
  <1> QED
    BY <1>1, <1>5

\* What a cart asks of a SKU: a natural number, at least the quantity of each
\* of its lines, and nothing of a SKU it does not name.
LEMMA CartDemand ==
  ASSUME NEW cart \in Carts, NEW s
  PROVE  /\ Demand(cart, s) \in Nat
         /\ \A i \in DOMAIN cart : cart[i].sku = s => cart[i].quantity <= Demand(cart, s)
         /\ s \notin SkusOf(cart) => Demand(cart, s) = 0
  <1> DEFINE S == LinesFor(cart, s)
             f == [i \in S |-> cart[i].quantity]
  <1>1. /\ cart \in Seq(Line)
        /\ Len(cart) \in Nat
        /\ DOMAIN cart = 1..Len(cart)
    BY CartAssumption
  <1>2. IsFiniteSet(S)
    <2>1. IsFiniteSet(1..Len(cart))
      BY <1>1, FS_Interval
    <2>2. S \in SUBSET (1..Len(cart))
      BY <1>1 DEF LinesFor
    <2> QED
      BY <2>1, <2>2, FS_Subset
  <1>3. f \in [S -> Nat]
    <2>1. \A i \in DOMAIN cart : cart[i] \in Line
      BY <1>1
    <2>2. \A i \in S : cart[i].quantity \in Nat
      BY <2>1, CartAssumption DEF Line, LinesFor
    <2> QED
      BY <2>2
  <1>4. \A i \in S : f[i] = cart[i].quantity
    OBVIOUS
  <1> HIDE DEF f
  <1>5. PICK g : IsIter(g, f, S)
    BY <1>2, IterExists
  <1>6. Demand(cart, s) = g[S]
    BY <1>2, <1>4, <1>5, DemandIs
  <1>7. \A T \in SUBSET S : g[T] \in Nat /\ \A i \in T : g[T] = f[i] + g[T \ {i}]
    BY <1>2, <1>3, <1>5, IterAdds
  <1>8. ASSUME NEW i \in DOMAIN cart, cart[i].sku = s
        PROVE  cart[i].quantity <= Demand(cart, s)
    <2>1. i \in S
      BY <1>8 DEF LinesFor
    <2>2. g[S] = f[i] + g[S \ {i}] /\ g[S \ {i}] \in Nat /\ f[i] \in Nat
      BY <1>3, <1>7, <2>1
    <2> QED
      BY <1>4, <1>6, <2>1, <2>2
  <1>9. ASSUME s \notin SkusOf(cart)
        PROVE  Demand(cart, s) = 0
    <2>1. S = {}
      BY <1>9 DEF SkusOf, LinesFor
    <2> QED
      BY <1>5, <1>6, <2>1, Unfold
  <1> QED
    BY <1>6, <1>7, <1>8, <1>9

\* The demands of a set of orders and of one more.
LEMMA DemandAdds ==
  ASSUME NEW lines, NEW s, NEW S, IsFiniteSet(S), NEW o, o \notin S,
         \A p \in S \cup {o} : Demand(lines[p], s) \in Nat
  PROVE  DemandOf(lines, S \cup {o}, s) = DemandOf(lines, S, s) + Demand(lines[o], s)
  <1> DEFINE R == S \cup {o}
             f == [p \in R |-> Demand(lines[p], s)]
  <1>1. f \in [R -> Nat] /\ \A p \in R : f[p] = Demand(lines[p], s)
    OBVIOUS
  <1>2. IsFiniteSet(R)
    BY FS_AddElement
  <1>3. S \in SUBSET R /\ o \in R /\ R \ {o} = S
    OBVIOUS
  <1> HIDE DEF f, R
  <1>4. PICK g : IsIter(g, f, R)
    BY <1>2, IterExists
  <1>5. PICK h : IsIter(h, f, S)
    BY IterExists
  <1>6. DemandOf(lines, R, s) = g[R]
    BY <1>1, <1>2, <1>4, DemandOfIs
  <1>7. DemandOf(lines, S, s) = h[S]
    BY <1>1, <1>3, <1>5, DemandOfIs
  <1>8. h[S] = g[S]
    BY <1>3, <1>4, <1>5, IterUnique
  <1>9. g[R] = f[o] + g[S] /\ g[S] \in Nat /\ f[o] \in Nat
    BY <1>1, <1>2, <1>3, <1>4, IterAdds
  <1>10. g[R] = g[S] + f[o]
    BY <1>9
  <1> QED
    BY <1>1, <1>3, <1>6, <1>7, <1>8, <1>10 DEF R

\* The lines of other orders make no difference.
LEMMA DemandSame ==
  ASSUME NEW lines, NEW other, NEW s, NEW S, IsFiniteSet(S),
         \A o \in S : lines[o] = other[o]
  PROVE  DemandOf(lines, S, s) = DemandOf(other, S, s)
  <1> DEFINE f == [p \in S |-> Demand(lines[p], s)]
  <1>1. \A p \in S : f[p] = Demand(lines[p], s) /\ f[p] = Demand(other[p], s)
    OBVIOUS
  <1> HIDE DEF f
  <1>2. PICK g : IsIter(g, f, S)
    BY IterExists
  <1> QED
    BY <1>1, <1>2, DemandOfIs

LEMMA DemandOfNone == ASSUME NEW lines, NEW s PROVE DemandOf(lines, {}, s) = 0
  <1> DEFINE f == [p \in {} |-> 0]
  <1>1. PICK g : IsIter(g, f, {})
    BY FS_EmptySet, IterExists
  <1>2. DemandOf(lines, {}, s) = g[{}]
    BY <1>1, FS_EmptySet, DemandOfIs
  <1> QED
    BY <1>1, <1>2, Unfold

-----------------------------------------------------------------------------
\* The row of a SKU, existing or new, holds two INTEGERs.
LEMMA ItemType ==
  ASSUME TypeOK, NEW s \in Skus
  PROVE  Item(s) \in InventoryItem
  BY CartAssumption DEF TypeOK, Item, InventoryItem

\* Emit appends one well-formed event and keeps the others where they are.
LEMMA EmitAppends ==
  ASSUME event_log \in Seq(DomainEvent),
         NEW event_type, NEW key,
         [event_type |-> event_type, key |-> key] \in DomainEvent,
         Emit(event_type, key)
  PROVE  /\ event_log' \in Seq(DomainEvent)
         /\ Len(event_log') = Len(event_log) + 1
         /\ DOMAIN event_log' = DOMAIN event_log \cup {Len(event_log) + 1}
         /\ Len(event_log) + 1 \notin DOMAIN event_log
         /\ \A e \in DOMAIN event_log : event_log'[e] = event_log[e]
         /\ event_log'[Len(event_log) + 1] = [event_type |-> event_type, key |-> key]
  <1> DEFINE new == [event_type |-> event_type, key |-> key]
  <1>1. event_log' = Append(event_log, new)
    BY DEF Emit
  <1> HIDE DEF new
  <1>2. new \in DomainEvent
    BY DEF new
  <1>3. /\ event_log' \in Seq(DomainEvent)
        /\ Len(event_log') = Len(event_log) + 1
        /\ DOMAIN event_log' = 1..(Len(event_log) + 1)
        /\ DOMAIN event_log = 1..Len(event_log)
        /\ Len(event_log) \in Nat
        /\ \A e \in 1..Len(event_log) : event_log'[e] = event_log[e]
        /\ event_log'[Len(event_log) + 1] = new
    BY <1>1, <1>2
  <1> QED
    BY <1>3 DEF new

\* An event of an order's type names an order.
LEMMA EventKey ==
  ASSUME event_log \in Seq(DomainEvent), NEW e \in DOMAIN event_log
  PROVE  /\ event_log[e].event_type \in OrderEventType => event_log[e].key \in Orders
         /\ event_log[e].event_type = "InventoryAdjusted" => event_log[e].key \in Skus
  BY DEF DomainEvent, OrderEventType

\* The lines of an order that exists.
LEMMA CartOf ==
  ASSUME TypeOK, NEW o \in Orders, status[o] # "absent"
  PROVE  /\ items[o] \in Carts
         /\ SkusOf(items[o]) \subseteq Skus
         /\ \A s \in Skus : Demand(items[o], s) \in Nat
         /\ \A i \in DOMAIN items[o] :
              items[o][i].sku \in Skus /\ items[o][i].quantity \in 1..MaxInt
  <1>1. items[o] \in Carts
    BY DEF TypeOK
  <1>2. items[o] \in Seq(Line)
    BY <1>1, CartAssumption
  <1>3. \A i \in DOMAIN items[o] : items[o][i] \in Line
    BY <1>2
  <1> QED
    BY <1>1, <1>3, CartDemand DEF SkusOf, Line

\* A rejection adds rows for the SKUs it names and changes no figure; a
\* reservation raises "reserved" by the demand, which fits in what is on hand.
LEMMA ReserveInventoryType ==
  ASSUME TypeOK, NEW e \in DOMAIN event_log, ReserveInventory(e)
  PROVE  TypeOK'
  <1> DEFINE o == event_log[e].key
  <1>1. o \in Orders
    BY EventKey DEF TypeOK, ReserveInventory, OrderEventType
  <1>2. status[o] # "absent"
    BY DEF ReserveInventory, RejectLines, ReserveLines, MarkInventoryRejected,
           MarkInventoryReserved
  <1>3. \A s \in Skus : Item(s) \in InventoryItem
    BY ItemType
  <1>4. processed' = processed \cup {<<"inventory-worker", e>>}
    BY DEF ReserveInventory, TryInsert
  <1>5. /\ status' \in [Orders -> OrderStatus \cup {"absent"}]
        /\ \A p \in Orders : status'[p] # "absent" => status[p] # "absent"
        /\ items' = items
    BY <1>1, <1>2 DEF TypeOK, ReserveInventory, RejectLines, ReserveLines,
       MarkInventoryRejected, MarkInventoryReserved, OrderStatus
  <1>6. SkusOf(items[o]) \subseteq Skus
    BY <1>1, <1>2, CartOf
  <1>7. /\ event_log' \in Seq(DomainEvent)
        /\ DOMAIN event_log \subseteq DOMAIN event_log'
    <2>1. CASE RejectLines(o)
      <3>1. [event_type |-> "InventoryRejected", key |-> o] \in DomainEvent
        BY <1>1 DEF DomainEvent, OrderEventType
      <3> QED
        BY <2>1, <3>1, EmitAppends DEF RejectLines, TypeOK
    <2>2. CASE ReserveLines(o)
      <3>1. [event_type |-> "InventoryReserved", key |-> o] \in DomainEvent
        BY <1>1 DEF DomainEvent, OrderEventType
      <3> QED
        BY <2>2, <3>1, EmitAppends DEF ReserveLines, TypeOK
    <2> QED
      BY <2>1, <2>2 DEF ReserveInventory
  <1>8. /\ DOMAIN inventory' \subseteq Skus
        /\ inventory' \in [DOMAIN inventory' -> InventoryItem]
    <2>1. CASE RejectLines(o)
      BY <2>1, <1>3, <1>6 DEF RejectLines, TypeOK
    <2>2. CASE ReserveLines(o)
      <3>1. ASSUME NEW s \in SkusOf(items[o])
            PROVE  [Item(s) EXCEPT !.reserved = @ + Demand(items[o], s)] \in InventoryItem
        <4>1. Demand(items[o], s) \in Nat /\ Item(s) \in InventoryItem
          BY <1>1, <1>2, <1>3, <1>6, CartOf
        <4>2. Demand(items[o], s) <= Item(s).on_hand - Item(s).reserved
          BY <2>2 DEF ReserveLines, CanReserve, Available
        <4> QED
          BY <4>1, <4>2, CartAssumption DEF InventoryItem
      <3> QED
        BY <2>2, <3>1, <1>3, <1>6 DEF ReserveLines, TypeOK
    <2> QED
      BY <2>1, <2>2 DEF ReserveInventory
  <1>9. shipments' = shipments /\ idempotency' = idempotency
    BY DEF ReserveInventory
  <1> QED
    BY <1>4, <1>5, <1>7, <1>8, <1>9 DEF TypeOK, Consumers

\* A shipment touches one order that exists, and one row.
LEMMA CreateShipmentType ==
  ASSUME TypeOK, NEW e \in DOMAIN event_log, CreateShipment(e)
  PROVE  TypeOK'
  <1> DEFINE o == event_log[e].key
  <1>1. o \in Orders
    BY EventKey DEF TypeOK, CreateShipment, OrderEventType
  <1>2. processed' = processed \cup {<<"shipping-worker", e>>}
    BY DEF CreateShipment, TryInsert
  <1>3. UNCHANGED <<items, inventory, idempotency>>
    BY DEF CreateShipment
  <1>4. CASE NewShipment(o)
    <2>1. /\ shipments' = shipments \cup {o}
          /\ MarkShipmentCreated(o)
          /\ Emit("ShipmentCreated", o)
      BY <1>4 DEF CreateShipment
    <2>2. [event_type |-> "ShipmentCreated", key |-> o] \in DomainEvent
      BY <1>1 DEF DomainEvent, OrderEventType
    <2>3. /\ event_log' \in Seq(DomainEvent)
          /\ DOMAIN event_log \subseteq DOMAIN event_log'
      BY <2>1, <2>2, EmitAppends DEF TypeOK
    <2>4. /\ status' \in [Orders -> OrderStatus \cup {"absent"}]
          /\ \A p \in Orders : status'[p] # "absent" => status[p] # "absent"
      BY <1>1, <2>1 DEF TypeOK, MarkShipmentCreated, OrderStatus
    <2> QED
      BY <1>1, <1>2, <1>3, <2>1, <2>3, <2>4 DEF TypeOK, Consumers
  <1>5. CASE ~NewShipment(o)
    BY <1>2, <1>3, <1>5 DEF TypeOK, Consumers, CreateShipment
  <1> QED
    BY <1>4, <1>5

LEMMA CreateOrderType ==
  ASSUME TypeOK, NEW k \in Keys, NEW o \in Orders, NEW cart \in Carts,
         CreateOrder(k, o, cart)
  PROVE  TypeOK'
  <1>1. [event_type |-> "OrderCreated", key |-> o] \in DomainEvent
    BY DEF DomainEvent, OrderEventType
  <1>2. /\ event_log' \in Seq(DomainEvent)
        /\ DOMAIN event_log \subseteq DOMAIN event_log'
    BY <1>1, EmitAppends DEF TypeOK, CreateOrder
  <1> QED
    BY <1>2 DEF TypeOK, CreateOrder, OrderStatus

LEMMA AdjustInventoryType ==
  ASSUME TypeOK, NEW s \in Skus, NEW delta \in Deltas, AdjustInventory(s, delta)
  PROVE  TypeOK'
  <1>1. [event_type |-> "InventoryAdjusted", key |-> s] \in DomainEvent
    BY DEF DomainEvent
  <1>2. /\ event_log' \in Seq(DomainEvent)
        /\ DOMAIN event_log \subseteq DOMAIN event_log'
    BY <1>1, EmitAppends DEF TypeOK, AdjustInventory
  <1>3. \A t \in Skus : Item(t) \in InventoryItem
    BY ItemType
  <1>4. [Item(s) EXCEPT !.on_hand = @ + delta] \in InventoryItem
    BY <1>3 DEF InventoryItem, AdjustInventory, CanAdjust
  <1> QED
    BY <1>2, <1>3, <1>4 DEF TypeOK, AdjustInventory

LEMMA TypeStep ==
  ASSUME TypeOK, [Next]_vars
  PROVE  TypeOK'
  <1>1. ASSUME NEW k \in Keys, NEW o \in Orders, NEW cart \in Carts,
               CreateOrder(k, o, cart)
        PROVE  TypeOK'
    BY <1>1, CreateOrderType
  <1>2. ASSUME NEW s \in Skus, NEW delta \in Deltas, AdjustInventory(s, delta)
        PROVE  TypeOK'
    BY <1>2, AdjustInventoryType
  <1>3. ASSUME NEW e \in DOMAIN event_log, ReserveInventory(e)
        PROVE  TypeOK'
    BY <1>3, ReserveInventoryType
  <1>4. ASSUME NEW e \in DOMAIN event_log, CreateShipment(e)
        PROVE  TypeOK'
    BY <1>4, CreateShipmentType
  <1>5. CASE UNCHANGED vars
    BY <1>5 DEF vars, TypeOK
  <1> QED
    BY <1>1, <1>2, <1>3, <1>4, <1>5 DEF Next

\* Every reachable state is well typed: no counter leaves its INTEGER column,
\* every processed_events row names an event that exists, and every recorded
\* key returns an order.
THEOREM TypeCorrect == Spec => []TypeOK
  <1>1. Init => TypeOK
    BY DEF Init, TypeOK, OrderStatus, DomainEvent
  <1> QED
    BY <1>1, TypeStep, PTL DEF Spec

-----------------------------------------------------------------------------
(***************************************************************************)
(* Stock.  TypeOK /\ NeverOversold is inductive: a step changes the row of *)
(* a SKU only through CanAdjust or CanReserve.                             *)
(***************************************************************************)
LEMMA StockStep ==
  ASSUME TypeOK, NeverOversold, [Next]_vars
  PROVE  NeverOversold'
  <1>0. \A s \in Skus : Item(s) \in InventoryItem /\ Item(s).reserved <= Item(s).on_hand
    BY ItemType DEF NeverOversold, Item, InventoryItem
  <1>1. ASSUME NEW s \in Skus, NEW delta \in Deltas, AdjustInventory(s, delta)
        PROVE  NeverOversold'
    <2>1. inventory' = [t \in DOMAIN inventory \cup {s} |->
             IF t = s THEN [Item(t) EXCEPT !.on_hand = @ + delta] ELSE Item(t)]
      BY <1>1 DEF AdjustInventory
    <2>2. Item(s).reserved <= Item(s).on_hand + delta
      BY <1>0, <1>1, OrderFlowAssumption DEF AdjustInventory, CanAdjust, InventoryItem
    <2>3. DOMAIN inventory \subseteq Skus
      BY DEF TypeOK
    <2> QED
      BY <1>0, <2>1, <2>2, <2>3 DEF NeverOversold, InventoryItem
  <1>2. ASSUME NEW e \in DOMAIN event_log, ReserveInventory(e)
        PROVE  NeverOversold'
    <2> DEFINE o == event_log[e].key
    <2>1. o \in Orders /\ status[o] # "absent"
      BY <1>2, EventKey DEF TypeOK, ReserveInventory, OrderEventType, RejectLines,
         ReserveLines, MarkInventoryRejected, MarkInventoryReserved
    <2>2. SkusOf(items[o]) \subseteq Skus /\ DOMAIN inventory \subseteq Skus
      BY <2>1, CartOf DEF TypeOK
    <2>3. CASE RejectLines(o)
      BY <1>0, <2>2, <2>3 DEF NeverOversold, RejectLines
    <2>4. CASE ReserveLines(o)
      <3>1. ASSUME NEW s \in SkusOf(items[o])
            PROVE  Item(s).reserved + Demand(items[o], s) <= Item(s).on_hand
        BY <1>0, <2>1, <2>2, <2>4, CartOf DEF ReserveLines, CanReserve, Available, InventoryItem
      <3> QED
        BY <1>0, <2>2, <2>4, <3>1 DEF NeverOversold, ReserveLines, InventoryItem
    <2> QED
      BY <1>2, <2>3, <2>4 DEF ReserveInventory
  <1>3. CASE UNCHANGED inventory
    BY <1>3 DEF NeverOversold
  <1> QED
    BY <1>1, <1>2, <1>3 DEF Next, vars, CreateOrder, CreateShipment

\* The reserved stock of a SKU never exceeds what is on hand, for any carts,
\* any adjustments and any redelivery.
THEOREM Oversell == Spec => []NeverOversold
  <1>1. Init => NeverOversold
    BY DEF Init, NeverOversold
  <1> QED
    BY <1>1, StockStep, TypeCorrect, PTL DEF Spec

-----------------------------------------------------------------------------
(***************************************************************************)
(* Events, statuses and processed_events rows.  The three invariants below *)
(* support each other: a worker that finds its row missing knows from      *)
(* ProcessedMatchesStatus and LogMatchesTables which status the order has, *)
(* hence that the event it emits is new.                                   *)
(***************************************************************************)
FlowInv == ProcessedMatchesStatus /\ LogMatchesTables /\ NoEventTwice

\* An event in the log is logged for the order it names.
LEMMA EventIsLogged ==
  ASSUME event_log \in Seq(DomainEvent), NEW e \in DOMAIN event_log,
         event_log[e].event_type \in OrderEventType
  PROVE  /\ event_log[e] = [event_type |-> event_log[e].event_type, key |-> event_log[e].key]
         /\ Logged(event_log[e].event_type, event_log[e].key)
  <1>1. event_log[e] = [event_type |-> event_log[e].event_type, key |-> event_log[e].key]
    BY DEF DomainEvent
  <1> QED
    BY <1>1 DEF Logged

\* What Emit adds to the log, and that it repeats no event when what it adds
\* is new or an adjustment.
LEMMA EmitLogs ==
  ASSUME event_log \in Seq(DomainEvent), NEW event_type, NEW key,
         [event_type |-> event_type, key |-> key] \in DomainEvent,
         Emit(event_type, key)
  PROVE  /\ \A t, o : Logged(t, o)' <=> (Logged(t, o) \/ (t = event_type /\ o = key))
         /\ (NoEventTwice /\ (event_type = "InventoryAdjusted" \/ ~Logged(event_type, key)))
              => NoEventTwice'
  <1> DEFINE new == [event_type |-> event_type, key |-> key]
             last == Len(event_log) + 1
  <1>1. /\ DOMAIN event_log' = DOMAIN event_log \cup {last}
        /\ \A e \in DOMAIN event_log : event_log'[e] = event_log[e]
        /\ event_log'[last] = new
    BY EmitAppends
  <1>2. ASSUME NEW t, NEW o
        PROVE  Logged(t, o)' <=> (Logged(t, o) \/ (t = event_type /\ o = key))
    <2> HIDE DEF last
    <2>1. (new = [event_type |-> t, key |-> o]) <=> (t = event_type /\ o = key)
      <3>1. new = [event_type |-> t, key |-> o] =>
              new.event_type = t /\ new.key = o
        OBVIOUS
      <3> QED
        BY <3>1
    <2> HIDE DEF new
    <2> QED
      BY <1>1, <2>1 DEF Logged
  <1>3. ASSUME NoEventTwice, event_type = "InventoryAdjusted" \/ ~Logged(event_type, key)
        PROVE  NoEventTwice'
    <2>1. ASSUME NEW d \in DOMAIN event_log', NEW e \in DOMAIN event_log',
                 event_log'[d] = event_log'[e],
                 event_log'[d].event_type # "InventoryAdjusted"
          PROVE  d = e
      <3>1. CASE d \in DOMAIN event_log /\ e \in DOMAIN event_log
        BY <1>1, <1>3, <2>1, <3>1 DEF NoEventTwice
      <3>2. CASE d = last /\ e = last
        BY <3>2
      <3>3. CASE (d = last) # (e = last)
        <4>1. \E c \in DOMAIN event_log : event_log[c] = new
          BY <1>1, <2>1, <3>3
        <4>2. new.event_type # "InventoryAdjusted"
          BY <1>1, <2>1, <3>3
        <4> QED
          BY <1>3, <4>1, <4>2 DEF Logged
      <3> QED
        BY <1>1, <3>1, <3>2, <3>3
    <2> QED
      BY <2>1 DEF NoEventTwice
  <1> QED
    BY <1>2, <1>3

\* A new order has no event yet, so its OrderCreated is the first.
LEMMA CreateOrderFlow ==
  ASSUME TypeOK, FlowInv, NEW k \in Keys, NEW o \in Orders, NEW cart \in Carts,
         CreateOrder(k, o, cart)
  PROVE  FlowInv'
  <1>1. /\ [event_type |-> "OrderCreated", key |-> o] \in DomainEvent
        /\ event_log \in Seq(DomainEvent)
    BY DEF DomainEvent, OrderEventType, TypeOK
  <1>2. /\ status[o] = "absent"
        /\ status' = [status EXCEPT ![o] = "created"]
        /\ Emit("OrderCreated", o)
        /\ UNCHANGED <<shipments, processed>>
        /\ status \in [Orders -> OrderStatus \cup {"absent"}]
    BY DEF CreateOrder, TypeOK
  <1>3. \A t \in OrderEventType : ~Logged(t, o)
    BY <1>2 DEF FlowInv, LogMatchesTables, StatusAfter, OrderEventType, OrderStatus
  <1>4. NoEventTwice'
    BY <1>1, <1>2, <1>3, EmitLogs DEF FlowInv, OrderEventType
  <1>5. LogMatchesTables'
    <2>1. ASSUME NEW p \in Orders, NEW t \in OrderEventType
          PROVE  Logged(t, p)' <=> status'[p] \in StatusAfter(t)
      <3>1. Logged(t, p)' <=> (Logged(t, p) \/ (t = "OrderCreated" /\ p = o))
        BY <1>1, <1>2, EmitLogs
      <3>2. CASE p = o
        BY <1>2, <1>3, <3>1, <3>2 DEF StatusAfter, OrderEventType, OrderStatus
      <3>3. CASE p # o
        BY <1>2, <3>1, <3>3 DEF FlowInv, LogMatchesTables
      <3> QED
        BY <3>2, <3>3
    <2>2. shipments' = { p \in Orders : status'[p] = "shipment_created" }
      BY <1>2 DEF FlowInv, LogMatchesTables
    <2> QED
      BY <2>1, <2>2 DEF LogMatchesTables, StatusAfter
  <1>6. ProcessedMatchesStatus'
    <2> DEFINE last == Len(event_log) + 1
    <2>1. /\ DOMAIN event_log' = DOMAIN event_log \cup {last}
          /\ last \notin DOMAIN event_log
          /\ \A e \in DOMAIN event_log : event_log'[e] = event_log[e]
          /\ event_log'[last] = [event_type |-> "OrderCreated", key |-> o]
      BY <1>1, <1>2, EmitAppends
    <2> HIDE DEF last
    <2>2. \A e \in DOMAIN event_log :
            event_log[e].event_type \in OrderEventType => event_log[e].key \in Orders \ {o}
      BY <1>1, <1>3, EventIsLogged, EventKey
    <2>3. <<"inventory-worker", last>> \notin processed
      BY <2>1 DEF TypeOK
    <2>4. \A p \in Orders \ {o} : status'[p] = status[p]
      BY <1>2
    <2>5. ASSUME NEW e \in DOMAIN event_log',
                 event_log'[e].event_type = "OrderCreated"
          PROVE  <<"inventory-worker", e>> \in processed
                   <=> status'[event_log'[e].key] # "created"
      <3>1. CASE e \in DOMAIN event_log
        BY <2>1, <2>2, <2>4, <2>5, <3>1
           DEF FlowInv, ProcessedMatchesStatus, OrderEventType
      <3>2. CASE e = last
        BY <1>2, <2>1, <2>3, <3>2
      <3> QED
        BY <2>1, <3>1, <3>2
    <2>6. ASSUME NEW e \in DOMAIN event_log',
                 event_log'[e].event_type = "InventoryReserved"
          PROVE  <<"shipping-worker", e>> \in processed
                   <=> status'[event_log'[e].key] = "shipment_created"
      <3>1. e \in DOMAIN event_log
        BY <2>1, <2>6
      <3> QED
        BY <2>1, <2>2, <2>4, <2>6, <3>1
           DEF FlowInv, ProcessedMatchesStatus, OrderEventType
    <2> QED
      BY <1>2, <2>5, <2>6 DEF ProcessedMatchesStatus
  <1> QED
    BY <1>4, <1>5, <1>6 DEF FlowInv

\* An order whose OrderCreated the inventory worker has not processed is still
\* "created", so that a decision is its first.
LEMMA ReserveInventoryFlow ==
  ASSUME TypeOK, FlowInv, NEW e \in DOMAIN event_log, ReserveInventory(e)
  PROVE  FlowInv'
  <1> DEFINE o == event_log[e].key
             last == Len(event_log) + 1
  <1>1. /\ event_log \in Seq(DomainEvent)
        /\ status \in [Orders -> OrderStatus \cup {"absent"}]
        /\ event_log[e].event_type = "OrderCreated"
        /\ <<"inventory-worker", e>> \notin processed
        /\ processed' = processed \cup {<<"inventory-worker", e>>}
        /\ shipments' = shipments
    BY DEF TypeOK, ReserveInventory, TryInsert
  <1>2. o \in Orders /\ status[o] = "created"
    BY <1>1, EventKey DEF FlowInv, ProcessedMatchesStatus, OrderEventType
  <1>3. PICK type \in {"InventoryRejected", "InventoryReserved"},
             decision \in {"inventory_rejected", "inventory_reserved"} :
          /\ (type = "InventoryRejected") <=> (decision = "inventory_rejected")
          /\ status' = [status EXCEPT ![o] = decision]
          /\ Emit(type, o)
    BY DEF ReserveInventory, RejectLines, ReserveLines, MarkInventoryRejected,
           MarkInventoryReserved
  <1>4. [event_type |-> type, key |-> o] \in DomainEvent
    BY <1>2 DEF DomainEvent, OrderEventType
  <1>5. /\ DOMAIN event_log' = DOMAIN event_log \cup {last}
        /\ last \notin DOMAIN event_log
        /\ \A d \in DOMAIN event_log : event_log'[d] = event_log[d]
        /\ event_log'[last] = [event_type |-> type, key |-> o]
    BY <1>1, <1>3, <1>4, EmitAppends
  <1> HIDE DEF last
  <1>6. \A t \in OrderEventType : Logged(t, o) <=> t = "OrderCreated"
    BY <1>2 DEF FlowInv, LogMatchesTables, StatusAfter, OrderEventType, OrderStatus
  <1>7. NoEventTwice'
    BY <1>1, <1>3, <1>4, <1>6, EmitLogs DEF FlowInv, OrderEventType
  <1>8. LogMatchesTables'
    <2>1. ASSUME NEW p \in Orders, NEW t \in OrderEventType
          PROVE  Logged(t, p)' <=> status'[p] \in StatusAfter(t)
      <3>1. Logged(t, p)' <=> (Logged(t, p) \/ (t = type /\ p = o))
        BY <1>1, <1>3, <1>4, EmitLogs
      <3>2. CASE p = o
        BY <1>1, <1>2, <1>3, <1>6, <3>1, <3>2 DEF StatusAfter, OrderEventType, OrderStatus
      <3>3. CASE p # o
        BY <1>1, <1>3, <3>1, <3>3 DEF FlowInv, LogMatchesTables
      <3> QED
        BY <3>2, <3>3
    <2>2. shipments' = { p \in Orders : status'[p] = "shipment_created" }
      BY <1>1, <1>2, <1>3 DEF FlowInv, LogMatchesTables
    <2> QED
      BY <2>1, <2>2 DEF LogMatchesTables, StatusAfter
  <1>9. ProcessedMatchesStatus'
    <2>1. \A c, d : <<c, d>> \in processed' <=>
                      (<<c, d>> \in processed \/ (c = "inventory-worker" /\ d = e))
      BY <1>1
    <2>2. \A c : <<c, last>> \notin processed'
      BY <1>5, <2>1 DEF TypeOK
    <2>3. ASSUME NEW d \in DOMAIN event_log',
                 event_log'[d].event_type = "OrderCreated"
          PROVE  <<"inventory-worker", d>> \in processed'
                   <=> status'[event_log'[d].key] # "created"
      <3>1. d \in DOMAIN event_log /\ event_log[d].event_type = "OrderCreated"
        BY <1>3, <1>5, <2>3
      <3>2. event_log[d].key \in Orders
        BY <1>1, <3>1, EventKey DEF OrderEventType
      <3>3. CASE event_log[d].key = o
        <4>1. d = e
          BY <1>1, <3>1, <3>3, EventIsLogged DEF FlowInv, NoEventTwice, OrderEventType
        <4> QED
          BY <1>1, <1>2, <1>3, <1>5, <2>1, <4>1
      <3>4. CASE event_log[d].key # o
        <4>1. status'[event_log[d].key] = status[event_log[d].key]
          BY <1>1, <1>3, <3>2, <3>4
        <4> QED
          BY <1>5, <2>1, <3>1, <3>4, <4>1 DEF FlowInv, ProcessedMatchesStatus
      <3> QED
        BY <3>3, <3>4
    <2>4. ASSUME NEW d \in DOMAIN event_log',
                 event_log'[d].event_type = "InventoryReserved"
          PROVE  <<"shipping-worker", d>> \in processed'
                   <=> status'[event_log'[d].key] = "shipment_created"
      <3>1. CASE d = last
        BY <1>1, <1>2, <1>3, <1>5, <2>2, <3>1
      <3>2. CASE d \in DOMAIN event_log
        <4>1. event_log[d].event_type = "InventoryReserved"
          BY <1>5, <2>4, <3>2
        <4>2. event_log[d].key \in Orders \ {o}
          BY <1>1, <1>6, <3>2, <4>1, EventIsLogged, EventKey DEF OrderEventType
        <4>3. status'[event_log[d].key] = status[event_log[d].key]
          BY <1>1, <1>3, <4>2
        <4> QED
          BY <1>5, <2>1, <3>2, <4>1, <4>3 DEF FlowInv, ProcessedMatchesStatus
      <3> QED
        BY <1>5, <3>1, <3>2
    <2> QED
      BY <2>3, <2>4 DEF ProcessedMatchesStatus
  <1> QED
    BY <1>7, <1>8, <1>9 DEF FlowInv

\* An order whose InventoryReserved the shipping worker has not processed is
\* "inventory_reserved" and has no shipment.
LEMMA CreateShipmentFlow ==
  ASSUME TypeOK, FlowInv, NEW e \in DOMAIN event_log, CreateShipment(e)
  PROVE  FlowInv'
  <1> DEFINE o == event_log[e].key
             last == Len(event_log) + 1
  <1>1. /\ event_log \in Seq(DomainEvent)
        /\ status \in [Orders -> OrderStatus \cup {"absent"}]
        /\ event_log[e].event_type = "InventoryReserved"
        /\ <<"shipping-worker", e>> \notin processed
        /\ processed' = processed \cup {<<"shipping-worker", e>>}
    BY DEF TypeOK, CreateShipment, TryInsert
  <1>2. o \in Orders /\ Logged("InventoryReserved", o)
    BY <1>1, EventKey, EventIsLogged DEF OrderEventType
  <1>3. status[o] = "inventory_reserved" /\ o \notin shipments
    BY <1>1, <1>2 DEF FlowInv, ProcessedMatchesStatus, LogMatchesTables, StatusAfter,
       OrderEventType
  <1>4. /\ shipments' = shipments \cup {o}
        /\ status' = [status EXCEPT ![o] = "shipment_created"]
        /\ Emit("ShipmentCreated", o)
    BY <1>3 DEF CreateShipment, NewShipment, MarkShipmentCreated
  <1>5. [event_type |-> "ShipmentCreated", key |-> o] \in DomainEvent
    BY <1>2 DEF DomainEvent, OrderEventType
  <1>6. /\ DOMAIN event_log' = DOMAIN event_log \cup {last}
        /\ last \notin DOMAIN event_log
        /\ \A d \in DOMAIN event_log : event_log'[d] = event_log[d]
        /\ event_log'[last] = [event_type |-> "ShipmentCreated", key |-> o]
    BY <1>1, <1>4, <1>5, EmitAppends
  <1> HIDE DEF last
  <1>7. \A t \in OrderEventType :
          Logged(t, o) <=> t \in {"OrderCreated", "InventoryReserved"}
    BY <1>2, <1>3 DEF FlowInv, LogMatchesTables, StatusAfter, OrderEventType, OrderStatus
  <1>8. NoEventTwice'
    BY <1>1, <1>4, <1>5, <1>7, EmitLogs DEF FlowInv, OrderEventType
  <1>9. LogMatchesTables'
    <2>1. ASSUME NEW p \in Orders, NEW t \in OrderEventType
          PROVE  Logged(t, p)' <=> status'[p] \in StatusAfter(t)
      <3>1. Logged(t, p)' <=> (Logged(t, p) \/ (t = "ShipmentCreated" /\ p = o))
        BY <1>1, <1>4, <1>5, EmitLogs
      <3>2. CASE p = o
        BY <1>1, <1>2, <1>4, <1>7, <3>1, <3>2 DEF StatusAfter, OrderEventType, OrderStatus
      <3>3. CASE p # o
        BY <1>1, <1>4, <3>1, <3>3 DEF FlowInv, LogMatchesTables
      <3> QED
        BY <3>2, <3>3
    <2>2. shipments' = { p \in Orders : status'[p] = "shipment_created" }
      BY <1>1, <1>2, <1>4 DEF FlowInv, LogMatchesTables
    <2> QED
      BY <2>1, <2>2 DEF LogMatchesTables, StatusAfter
  <1>10. ProcessedMatchesStatus'
    <2>1. \A c, d : <<c, d>> \in processed' <=>
                      (<<c, d>> \in processed \/ (c = "shipping-worker" /\ d = e))
      BY <1>1
    <2>2. ASSUME NEW d \in DOMAIN event_log',
                 event_log'[d].event_type = "OrderCreated"
          PROVE  <<"inventory-worker", d>> \in processed'
                   <=> status'[event_log'[d].key] # "created"
      <3>1. d \in DOMAIN event_log /\ event_log[d].event_type = "OrderCreated"
        BY <1>6, <2>2
      <3>2. event_log[d].key \in Orders
        BY <1>1, <3>1, EventKey DEF OrderEventType
      <3>3. (status'[event_log[d].key] # "created") <=> (status[event_log[d].key] # "created")
        BY <1>1, <1>3, <1>4, <3>2
      <3>4. <<"inventory-worker", d>> \in processed' <=> <<"inventory-worker", d>> \in processed
        BY <2>1
      <3>5. <<"inventory-worker", d>> \in processed <=> status[event_log[d].key] # "created"
        BY <3>1 DEF FlowInv, ProcessedMatchesStatus
      <3> QED
        BY <1>6, <3>1, <3>3, <3>4, <3>5
    <2>3. ASSUME NEW d \in DOMAIN event_log',
                 event_log'[d].event_type = "InventoryReserved"
          PROVE  <<"shipping-worker", d>> \in processed'
                   <=> status'[event_log'[d].key] = "shipment_created"
      <3>1. d \in DOMAIN event_log /\ event_log[d].event_type = "InventoryReserved"
        BY <1>6, <2>3
      <3>2. event_log[d].key \in Orders
        BY <1>1, <3>1, EventKey DEF OrderEventType
      <3>3. CASE event_log[d].key = o
        <4>1. d = e
          BY <1>1, <3>1, <3>3, EventIsLogged DEF FlowInv, NoEventTwice, OrderEventType
        <4> QED
          BY <1>1, <1>2, <1>4, <1>6, <2>1, <4>1
      <3>4. CASE event_log[d].key # o
        <4>1. status'[event_log[d].key] = status[event_log[d].key]
          BY <1>1, <1>4, <3>2, <3>4
        <4>2. d # e
          BY <3>4
        <4> QED
          BY <1>6, <2>1, <3>1, <4>1, <4>2 DEF FlowInv, ProcessedMatchesStatus
      <3> QED
        BY <3>3, <3>4
    <2> QED
      BY <2>2, <2>3 DEF ProcessedMatchesStatus
  <1> QED
    BY <1>8, <1>9, <1>10 DEF FlowInv

\* An adjustment is about no order.
LEMMA AdjustInventoryFlow ==
  ASSUME TypeOK, FlowInv, NEW s \in Skus, NEW delta \in Deltas, AdjustInventory(s, delta)
  PROVE  FlowInv'
  <1> DEFINE last == Len(event_log) + 1
  <1>1. /\ event_log \in Seq(DomainEvent)
        /\ [event_type |-> "InventoryAdjusted", key |-> s] \in DomainEvent
        /\ Emit("InventoryAdjusted", s)
        /\ UNCHANGED <<status, shipments, processed>>
    BY DEF TypeOK, DomainEvent, AdjustInventory
  <1>2. /\ DOMAIN event_log' = DOMAIN event_log \cup {last}
        /\ \A d \in DOMAIN event_log : event_log'[d] = event_log[d]
        /\ event_log'[last] = [event_type |-> "InventoryAdjusted", key |-> s]
    BY <1>1, EmitAppends
  <1> HIDE DEF last
  <1>3. NoEventTwice'
    BY <1>1, EmitLogs DEF FlowInv
  <1>4. LogMatchesTables'
    <2>1. \A t \in OrderEventType : \A p : Logged(t, p)' <=> Logged(t, p)
      BY <1>1, EmitLogs DEF OrderEventType
    <2> QED
      BY <1>1, <2>1 DEF FlowInv, LogMatchesTables
  <1>5. ProcessedMatchesStatus'
    <2>1. \A d \in DOMAIN event_log' :
            event_log'[d].event_type \in OrderEventType =>
              d \in DOMAIN event_log /\ event_log'[d] = event_log[d]
      BY <1>2 DEF OrderEventType
    <2> QED
      BY <1>1, <2>1 DEF FlowInv, ProcessedMatchesStatus, OrderEventType
  <1> QED
    BY <1>3, <1>4, <1>5 DEF FlowInv

LEMMA FlowStep ==
  ASSUME TypeOK, FlowInv, [Next]_vars
  PROVE  FlowInv'
  <1>1. ASSUME NEW k \in Keys, NEW o \in Orders, NEW cart \in Carts,
               CreateOrder(k, o, cart)
        PROVE  FlowInv'
    BY <1>1, CreateOrderFlow
  <1>2. ASSUME NEW s \in Skus, NEW delta \in Deltas, AdjustInventory(s, delta)
        PROVE  FlowInv'
    BY <1>2, AdjustInventoryFlow
  <1>3. ASSUME NEW e \in DOMAIN event_log, ReserveInventory(e)
        PROVE  FlowInv'
    BY <1>3, ReserveInventoryFlow
  <1>4. ASSUME NEW e \in DOMAIN event_log, CreateShipment(e)
        PROVE  FlowInv'
    BY <1>4, CreateShipmentFlow
  <1>5. CASE UNCHANGED vars
    BY <1>5 DEF vars, FlowInv, ProcessedMatchesStatus, LogMatchesTables, Logged, NoEventTwice
  <1> QED
    BY <1>1, <1>2, <1>3, <1>4, <1>5 DEF Next

LEMMA FlowCorrect == Spec => []FlowInv
  <1>1. Init => FlowInv
    BY DEF Init, FlowInv, ProcessedMatchesStatus, LogMatchesTables, Logged, NoEventTwice,
           StatusAfter, OrderStatus, OrderEventType
  <1> QED
    BY <1>1, FlowStep, TypeCorrect, PTL DEF Spec

\* A redelivered event finds its work either wholly done or not begun.
THEOREM Redelivery == Spec => []ProcessedMatchesStatus
  BY FlowCorrect, PTL DEF FlowInv

\* The outbox says exactly what the tables say.
THEOREM Outbox == Spec => []LogMatchesTables
  BY FlowCorrect, PTL DEF FlowInv

\* No order is created, decided or shipped twice.
THEOREM AtMostOnce == Spec => []NoEventTwice
  BY FlowCorrect, PTL DEF FlowInv

\* The event log, from which the relay and the replay send, tells what the
\* tables tell and tells it once.
THEOREM LogAgrees == Spec => []LogFaithful
  BY Outbox, AtMostOnce, PTL DEF LogFaithful

-----------------------------------------------------------------------------
(***************************************************************************)
(* The reserved column.  Only a reservation changes the set of orders that *)
(* hold stock or any reserved column, and it adds the same to both.        *)
(***************************************************************************)
Balanced(s) == Item(s).reserved = DemandOf(items, Holding, s)

BalanceInv == IsFiniteSet(Holding) /\ \A s \in Skus : Balanced(s)

LEMMA BalanceIs == BalanceInv => ReservationsBalance
  BY DEF BalanceInv, Balanced, ReservationsBalance, DemandOf

\* Steps that neither reserve nor let go of anything.
LEMMA BalanceKept ==
  ASSUME BalanceInv, Holding' = Holding,
         \A o \in Holding : items'[o] = items[o],
         \A s \in Skus : Item(s)'.reserved = Item(s).reserved
  PROVE  BalanceInv'
  <1>1. IsFiniteSet(Holding)
    BY DEF BalanceInv
  <1>2. ASSUME NEW s \in Skus
        PROVE  Balanced(s)'
    <2>1. DemandOf(items', Holding, s) = DemandOf(items, Holding, s)
      BY <1>1, DemandSame
    <2>2. Item(s).reserved = DemandOf(items, Holding, s)
      BY DEF BalanceInv, Balanced
    <2> QED
      BY <2>1, <2>2 DEF Balanced
  <1> QED
    BY <1>1, <1>2 DEF BalanceInv

LEMMA ReserveInventoryBalance ==
  ASSUME TypeOK, FlowInv, BalanceInv, NEW e \in DOMAIN event_log, ReserveInventory(e)
  PROVE  BalanceInv'
  <1> DEFINE o == event_log[e].key
  <1>1. o \in Orders /\ status[o] = "created" /\ items' = items
    BY EventKey DEF TypeOK, FlowInv, ProcessedMatchesStatus, OrderEventType,
       ReserveInventory, TryInsert
  <1>2. status \in [Orders -> OrderStatus \cup {"absent"}]
    BY DEF TypeOK
  <1>3. CASE RejectLines(o)
    <2>1. status' = [status EXCEPT ![o] = "inventory_rejected"]
      BY <1>3 DEF RejectLines, MarkInventoryRejected
    <2>2. Holding' = Holding
      BY <1>1, <1>2, <2>1 DEF Holding
    <2>3. \A s \in Skus : Item(s)' = Item(s)
      BY <1>3 DEF RejectLines, Item
    <2> QED
      BY <1>1, <2>2, <2>3, BalanceKept
  <1>4. CASE ReserveLines(o)
    <2>1. status' = [status EXCEPT ![o] = "inventory_reserved"]
      BY <1>4 DEF ReserveLines, MarkInventoryReserved
    <2>2. Holding' = Holding \cup {o} /\ o \notin Holding
      BY <1>1, <1>2, <2>1 DEF Holding
    <2>3. IsFiniteSet(Holding) /\ IsFiniteSet(Holding')
      BY <2>2, FS_AddElement DEF BalanceInv
    <2>4. ASSUME NEW s \in Skus
          PROVE  Balanced(s)'
      <3>1. ASSUME NEW p \in Holding \cup {o}
            PROVE  Demand(items[p], s) \in Nat
        <4>1. p \in Orders /\ status[p] # "absent"
          BY <1>1, <3>1 DEF Holding
        <4> QED
          BY <4>1, CartOf
      <3>2. DemandOf(items, Holding \cup {o}, s)
              = DemandOf(items, Holding, s) + Demand(items[o], s)
        BY <2>2, <2>3, <3>1, DemandAdds
      <3>3. Item(s).reserved = DemandOf(items, Holding, s)
        BY DEF BalanceInv, Balanced
      <3>4. Item(s)'.reserved = Item(s).reserved + Demand(items[o], s)
        <4>1. Item(s) \in InventoryItem
          BY ItemType
        <4>2. CASE s \in SkusOf(items[o])
          BY <1>4, <4>1, <4>2 DEF ReserveLines, Item, InventoryItem
        <4>3. CASE s \notin SkusOf(items[o])
          <5>1. items[o] \in Carts
            BY <1>1 DEF TypeOK
          <5>2. Demand(items[o], s) = 0
            BY <4>3, <5>1, CartDemand
          <5>3. Item(s)' = Item(s)
            BY <1>4, <4>3 DEF ReserveLines, Item
          <5>4. Item(s).reserved \in Int
            BY <4>1, CartAssumption DEF InventoryItem
          <5> QED
            BY <5>2, <5>3, <5>4
        <4> QED
          BY <4>2, <4>3
      <3>5. DemandOf(items', Holding', s) = DemandOf(items, Holding \cup {o}, s)
        BY <1>1, <2>2
      <3> QED
        BY <3>2, <3>3, <3>4, <3>5 DEF Balanced
    <2> QED
      BY <2>3, <2>4 DEF BalanceInv
  <1> QED
    BY <1>3, <1>4 DEF ReserveInventory

LEMMA BalanceStep ==
  ASSUME TypeOK, FlowInv, BalanceInv, [Next]_vars
  PROVE  BalanceInv'
  <1>1. ASSUME NEW k \in Keys, NEW o \in Orders, NEW cart \in Carts,
               CreateOrder(k, o, cart)
        PROVE  BalanceInv'
    <2>1. /\ status[o] = "absent"
          /\ status' = [status EXCEPT ![o] = "created"]
          /\ items' = [items EXCEPT ![o] = cart]
          /\ inventory' = inventory
      BY <1>1 DEF CreateOrder
    <2>2. Holding' = Holding /\ o \notin Holding
      BY <2>1 DEF Holding, TypeOK
    <2>3. \A p \in Holding : items'[p] = items[p]
      BY <2>1, <2>2 DEF Holding, TypeOK
    <2> QED
      BY <2>1, <2>2, <2>3, BalanceKept DEF Item
  <1>2. ASSUME NEW s \in Skus, NEW delta \in Deltas, AdjustInventory(s, delta)
        PROVE  BalanceInv'
    <2>1. /\ UNCHANGED <<status, items>>
          /\ inventory' = [t \in DOMAIN inventory \cup {s} |->
               IF t = s THEN [Item(t) EXCEPT !.on_hand = @ + delta] ELSE Item(t)]
      BY <1>2 DEF AdjustInventory
    <2>2. ASSUME NEW t \in Skus
          PROVE  Item(t)'.reserved = Item(t).reserved
      <3>1. Item(t) \in InventoryItem
        BY ItemType
      <3>2. CASE t = s
        BY <2>1, <3>1, <3>2 DEF Item, InventoryItem
      <3>3. CASE t # s
        BY <2>1, <3>3 DEF Item
      <3> QED
        BY <3>2, <3>3
    <2> QED
      BY <2>1, <2>2, BalanceKept DEF Holding
  <1>3. ASSUME NEW e \in DOMAIN event_log, ReserveInventory(e)
        PROVE  BalanceInv'
    BY <1>3, ReserveInventoryBalance
  <1>4. ASSUME NEW e \in DOMAIN event_log, CreateShipment(e)
        PROVE  BalanceInv'
    <2> DEFINE o == event_log[e].key
    <2>1. o \in Orders /\ UNCHANGED <<items, inventory>>
      BY <1>4, EventKey DEF CreateShipment, TypeOK, OrderEventType
    <2>2. \/ status' = status
          \/ /\ status[o] \in {"inventory_reserved", "shipment_created"}
             /\ status' = [status EXCEPT ![o] = "shipment_created"]
      BY <1>4 DEF CreateShipment, MarkShipmentCreated
    <2>3. Holding' = Holding
      BY <2>1, <2>2 DEF Holding, TypeOK
    <2> QED
      BY <2>1, <2>3, BalanceKept DEF Item
  <1>5. CASE UNCHANGED vars
    BY <1>5, BalanceKept DEF vars, Holding, Item
  <1> QED
    BY <1>1, <1>2, <1>3, <1>4, <1>5 DEF Next

\* The reserved column of a SKU is the sum of what the reserved and shipped
\* orders ask of it, through any redelivery (ReserveInventoryUseCase).
THEOREM Balance == Spec => []ReservationsBalance
  <1>1. ASSUME Init
        PROVE  BalanceInv
    <2>1. Holding = {}
      BY <1>1 DEF Init, Holding
    <2>2. \A s \in Skus : Item(s).reserved = 0
      BY <1>1 DEF Init, Item
    <2>3. \A s \in Skus : DemandOf(items, Holding, s) = 0
      BY <2>1, DemandOfNone
    <2> QED
      BY <2>1, <2>2, <2>3, FS_EmptySet DEF BalanceInv, Balanced
  <1>2. TypeOK /\ FlowInv /\ BalanceInv /\ [Next]_vars => BalanceInv'
    BY BalanceStep
  <1> QED
    BY <1>1, <1>2, BalanceIs, TypeCorrect, FlowCorrect, PTL DEF Spec

-----------------------------------------------------------------------------
(***************************************************************************)
(* Handlers.  The test of the lines compares each with what is available,  *)
(* InventoryItem.reserve their sums.  For lines that name distinct SKUs    *)
(* the sums are the lines.                                                 *)
(***************************************************************************)
LEMMA DemandOfSingleLine ==
  ASSUME NEW cart \in Carts, NEW i \in DOMAIN cart, ~RepeatsSku(cart)
  PROVE  Demand(cart, cart[i].sku) = cart[i].quantity
  <1> DEFINE s == cart[i].sku
             S == LinesFor(cart, s)
             f == [j \in S |-> cart[j].quantity]
  <1>1. S = {i}
    BY DEF LinesFor, RepeatsSku
  <1>2. IsFiniteSet(S)
    BY <1>1, FS_Singleton
  <1>3. cart[i].quantity \in Nat
    <2>1. cart[i] \in Line
      BY CartAssumption
    <2> QED
      BY <2>1, CartAssumption DEF Line
  <1>4. \A j \in S : f[j] = cart[j].quantity
    OBVIOUS
  <1> HIDE DEF f
  <1>5. PICK g : IsIter(g, f, S)
    BY <1>2, IterExists
  <1>6. Demand(cart, s) = g[S]
    BY <1>2, <1>4, <1>5, DemandIs
  <1>7. g[S] = f[Some(S)] + g[S \ {Some(S)}] /\ g[{}] = 0
    <2>1. S \in SUBSET S /\ {} \in SUBSET S /\ S # {}
      BY <1>1
    <2> HIDE DEF S
    <2>2. g[S] = IF S = {} THEN 0 ELSE f[Some(S)] + g[S \ {Some(S)}]
      BY <1>5, <2>1, Unfold
    <2>3. g[{}] = 0
      BY <1>5, <2>1, Unfold
    <2> QED
      BY <2>1, <2>2, <2>3
  <1>8. Some(S) = i /\ S \ {i} = {}
    BY <1>1, SomeIn
  <1> QED
    BY <1>1, <1>3, <1>4, <1>6, <1>7, <1>8

LEMMA CanSucceed ==
  ASSUME TypeOK, FlowInv
  PROVE  HandlersCanSucceed
  <1>1. ASSUME NEW e \in DOMAIN event_log, event_log[e].event_type = "OrderCreated",
               <<"inventory-worker", e>> \notin processed
        PROVE  LET o == event_log[e].key IN
                 /\ status[o] = "created"
                 /\ \/ RepeatsSku(items[o])
                    \/ HasShortage(o)
                    \/ \A s \in SkusOf(items[o]) : CanReserve(s, Demand(items[o], s))
    <2> DEFINE o == event_log[e].key
               cart == items[o]
    <2>1. o \in Orders /\ status[o] = "created"
      BY <1>1, EventKey DEF TypeOK, FlowInv, ProcessedMatchesStatus, OrderEventType
    <2>2. ASSUME ~RepeatsSku(cart), ~HasShortage(o), NEW s \in SkusOf(cart)
          PROVE  CanReserve(s, Demand(cart, s))
      <3>1. PICK i \in DOMAIN cart : cart[i].sku = s
        BY <2>2 DEF SkusOf
      <3>2. /\ cart \in Carts
            /\ s \in Skus
            /\ cart[i].quantity \in 1..MaxInt
        BY <2>1, <3>1, CartOf
      <3>3. Demand(cart, s) = cart[i].quantity
        BY <2>2, <3>1, <3>2, DemandOfSingleLine
      <3>4. Available(s) \in Int
        BY <3>2, ItemType DEF Available, InventoryItem
      <3>5. ~(Available(s) < cart[i].quantity)
        BY <2>2, <3>1 DEF HasShortage, Shortage
      <3> QED
        BY <3>2, <3>3, <3>4, <3>5, CartAssumption DEF CanReserve
    <2> QED
      BY <2>1, <2>2
  <1>2. ASSUME NEW e \in DOMAIN event_log, event_log[e].event_type = "InventoryReserved",
               <<"shipping-worker", e>> \notin processed
        PROVE  LET o == event_log[e].key IN status[o] = "inventory_reserved" /\ NewShipment(o)
    <2> DEFINE o == event_log[e].key
    <2>1. o \in Orders /\ Logged("InventoryReserved", o)
      BY <1>2, EventKey, EventIsLogged DEF TypeOK, OrderEventType
    <2> QED
      BY <1>2, <2>1 DEF FlowInv, ProcessedMatchesStatus, LogMatchesTables, StatusAfter,
         OrderEventType, NewShipment
  <1> QED
    BY <1>1, <1>2 DEF HandlersCanSucceed

\* No order, redelivery or adjustment ever makes an event one whose handler
\* raises on every delivery, for orders that name a SKU once: the line test of
\* ReserveInventoryUseCase and InventoryItem.reserve decide alike.
THEOREM Handleable == Spec => []HandlersCanSucceed
  BY CanSucceed, TypeCorrect, FlowCorrect, PTL

-----------------------------------------------------------------------------
(***************************************************************************)
(* Refinement.  free, the abstract stock, is what is available, a SKU      *)
(* without a row having none.                                              *)
(***************************************************************************)
\* What Available means for SKUs with and without a row.
LEMMA AvailableIsFree ==
  ASSUME TypeOK, NeverOversold, NEW s \in Skus
  PROVE  /\ Available(s) \in 0..MaxInt
         /\ s \in DOMAIN inventory =>
              Available(s) = inventory[s].on_hand - inventory[s].reserved
         /\ s \notin DOMAIN inventory => Available(s) = 0
  <1>1. CASE s \in DOMAIN inventory
    BY <1>1, CartAssumption DEF TypeOK, NeverOversold, Available, Item, InventoryItem
  <1>2. CASE s \notin DOMAIN inventory
    BY <1>2, CartAssumption DEF Available, Item
  <1> QED
    BY <1>1, <1>2

\* A committed adjustment is a supply of the SKU, whatever its sign.
LEMMA AdjustInventorySupplies ==
  ASSUME TypeOK, NeverOversold, TypeOK', NeverOversold',
         NEW s \in Skus, NEW delta \in Deltas, AdjustInventory(s, delta)
  PROVE  Promise!Supply(s)
  <1>1. /\ inventory' = [t \in DOMAIN inventory \cup {s} |->
             IF t = s THEN [Item(t) EXCEPT !.on_hand = @ + delta] ELSE Item(t)]
        /\ UNCHANGED <<status, items>>
    BY DEF AdjustInventory
  <1>2. Available(s)' \in 0..MaxInt
    <2>1. s \in DOMAIN inventory'
      BY <1>1
    <2> QED
      BY <2>1, CartAssumption DEF TypeOK, NeverOversold, Available, Item, InventoryItem
  <1>3. \A t \in Skus \ {s} : Available(t)' = Available(t)
    BY <1>1 DEF Available, Item
  <1>4. [t \in Skus |-> Available(t)]' =
          [[t \in Skus |-> Available(t)] EXCEPT ![s] = Available(s)']
    BY <1>3
  <1> QED
    BY <1>1, <1>2, <1>4 DEF Promise!Supply

\* The line test of the code finds a shortage only where the order does not
\* fit, and reserve() lets it through only where it fits.
LEMMA ReserveInventoryDecides ==
  ASSUME TypeOK, NeverOversold, FlowInv, NEW e \in DOMAIN event_log, ReserveInventory(e)
  PROVE  \E o \in Orders : Promise!Reserve(o) \/ Promise!Reject(o)
  <1> DEFINE o == event_log[e].key
             cart == items[o]
  <1>1. o \in Orders /\ status[o] = "created" /\ items' = items
    BY EventKey DEF TypeOK, FlowInv, ProcessedMatchesStatus, OrderEventType,
       ReserveInventory, TryInsert
  <1>2. /\ cart \in Carts
        /\ SkusOf(cart) \subseteq Skus
        /\ \A s \in Skus : Demand(cart, s) \in Nat
        /\ \A i \in DOMAIN cart : cart[i].sku \in Skus /\ cart[i].quantity \in 1..MaxInt
        /\ \A i \in DOMAIN cart : cart[i].quantity <= Demand(cart, cart[i].sku)
        /\ \A s \in Skus \ SkusOf(cart) : Demand(cart, s) = 0
    BY <1>1, CartOf, CartDemand
  <1>3. \A s \in Skus : Available(s) \in 0..MaxInt
    BY AvailableIsFree
  <1>4. CASE RejectLines(o)
    <2>1. PICK i \in DOMAIN cart : Available(cart[i].sku) < cart[i].quantity
      BY <1>4 DEF RejectLines, HasShortage, Shortage
    <2>2. ~ (Demand(cart, cart[i].sku) <= Available(cart[i].sku))
      BY <1>2, <1>3, <2>1, CartAssumption
    <2>3. ~Promise!Fits(o)
      BY <1>2, <2>2 DEF Promise!Fits
    <2>4. \A s \in Skus : Available(s)' = Available(s)
      BY <1>4 DEF RejectLines, Available, Item
    <2>5. [s \in Skus |-> Available(s)]' = [s \in Skus |-> Available(s)]
      BY <2>4
    <2>6. status' = [status EXCEPT ![o] = "inventory_rejected"]
      BY <1>4 DEF RejectLines, MarkInventoryRejected
    <2> QED
      BY <1>1, <2>3, <2>5, <2>6 DEF Promise!Reject
  <1>5. CASE ReserveLines(o)
    <2>1. \A s \in SkusOf(cart) : Demand(cart, s) <= Available(s)
      BY <1>5 DEF ReserveLines, CanReserve
    <2>2. \A s \in Skus : Demand(cart, s) <= Available(s)
      BY <1>2, <1>3, <2>1
    <2>3. Promise!Fits(o)
      BY <2>2 DEF Promise!Fits
    <2>4. ASSUME NEW s \in Skus
          PROVE  Available(s)' = Available(s) - Demand(cart, s)
      <3>1. CASE s \in SkusOf(cart)
        BY <1>2, <1>5, <3>1, ItemType DEF ReserveLines, Available, Item, InventoryItem
      <3>2. CASE s \notin SkusOf(cart)
        <4>1. Available(s)' = Available(s)
          BY <1>5, <3>2 DEF ReserveLines, Available, Item
        <4> QED
          BY <1>2, <1>3, <3>2, <4>1
      <3> QED
        BY <3>1, <3>2
    <2>5. [s \in Skus |-> Available(s)]' = [s \in Skus |-> Available(s) - Demand(cart, s)]
      BY <2>4
    <2>6. status' = [status EXCEPT ![o] = "inventory_reserved"]
      BY <1>5 DEF ReserveLines, MarkInventoryReserved
    <2> QED
      BY <1>1, <2>3, <2>5, <2>6 DEF Promise!Reserve
  <1> QED
    BY <1>1, <1>4, <1>5 DEF ReserveInventory

\* Creating an order places it; shipping is shipping.
LEMMA OrderSteps ==
  ASSUME TypeOK, NeverOversold, FlowInv
  PROVE  /\ \A k \in Keys, o \in Orders, cart \in Carts :
              CreateOrder(k, o, cart) => Promise!Place(o)
         /\ \A e \in DOMAIN event_log :
              CreateShipment(e) => \E o \in Orders : Promise!Ship(o)
  <1>1. ASSUME inventory' = inventory
        PROVE  [s \in Skus |-> Available(s)]' = [s \in Skus |-> Available(s)]
    BY <1>1 DEF Available, Item
  <1>2. ASSUME NEW k \in Keys, NEW o \in Orders, NEW cart \in Carts,
               CreateOrder(k, o, cart)
        PROVE  Promise!Place(o)
    BY <1>1, <1>2 DEF CreateOrder, Promise!Place
  <1>3. ASSUME NEW e \in DOMAIN event_log, CreateShipment(e)
        PROVE  \E o \in Orders : Promise!Ship(o)
    <2> DEFINE o == event_log[e].key
    <2>1. /\ event_log \in Seq(DomainEvent)
          /\ event_log[e].event_type = "InventoryReserved"
          /\ <<"shipping-worker", e>> \notin processed
          /\ UNCHANGED <<items, inventory>>
      BY <1>3 DEF TypeOK, CreateShipment, TryInsert
    <2>2. o \in Orders /\ Logged("InventoryReserved", o)
      BY <2>1, EventKey, EventIsLogged DEF OrderEventType
    <2>3. status[o] = "inventory_reserved" /\ o \notin shipments
      BY <2>1, <2>2 DEF FlowInv, ProcessedMatchesStatus, LogMatchesTables, StatusAfter,
         OrderEventType
    <2>4. status' = [status EXCEPT ![o] = "shipment_created"]
      BY <1>3, <2>3 DEF CreateShipment, NewShipment, MarkShipmentCreated
    <2> QED
      BY <1>1, <2>1, <2>2, <2>3, <2>4 DEF Promise!Ship
  <1> QED
    BY <1>2, <1>3

LEMMA PromiseStep ==
  ASSUME TypeOK, NeverOversold, FlowInv, TypeOK', NeverOversold', [Next]_vars
  PROVE  [Promise!Next]_(Promise!vars)
  <1>1. ASSUME NEW k \in Keys, NEW o \in Orders, NEW cart \in Carts,
               CreateOrder(k, o, cart)
        PROVE  Promise!Next
    BY <1>1, OrderSteps DEF Promise!Next
  <1>2. ASSUME NEW s \in Skus, NEW delta \in Deltas, AdjustInventory(s, delta)
        PROVE  Promise!Next
    BY <1>2, AdjustInventorySupplies DEF Promise!Next
  <1>3. ASSUME NEW e \in DOMAIN event_log, ReserveInventory(e)
        PROVE  Promise!Next
    BY <1>3, ReserveInventoryDecides DEF Promise!Next
  <1>4. ASSUME NEW e \in DOMAIN event_log, CreateShipment(e)
        PROVE  Promise!Next
    BY <1>4, OrderSteps DEF Promise!Next
  <1>5. CASE UNCHANGED vars
    BY <1>5 DEF vars, Promise!vars, Available, Item
  <1> QED
    BY <1>1, <1>2, <1>3, <1>4, <1>5 DEF Next

\* The tables implement the promise: whatever is redelivered, repeated or
\* reordered, an order is decided once against the stock that is free at that
\* moment, all lines or none, and shipped once.
THEOREM Refinement == Spec => ImplementsFulfilment
  <1>1. Init => Promise!Init
    <2>1. ASSUME Init
          PROVE  [s \in Skus |-> Available(s)] = [s \in Skus |-> 0]
      BY <2>1 DEF Init, Available, Item
    <2> QED
      BY <2>1 DEF Init, Promise!Init
  <1> QED
    BY <1>1, PromiseStep, TypeCorrect, Oversell, FlowCorrect, PTL
       DEF Spec, ImplementsFulfilment, Promise!Spec

-----------------------------------------------------------------------------
(***************************************************************************)
(* Queries.  What one statement of GET /orders/{order_id} has read bounds  *)
(* what a later one may find: the promise only ever moves an order on.     *)
(***************************************************************************)
StillFits(o, read) ==
  /\ status[o] # "absent"
  /\ read \in {"shipment_created", "inventory_rejected"} => status[o] = read

LEMMA StillFitsStep ==
  ASSUME TypeOK, [Promise!Next]_(Promise!vars), NEW o \in Orders, NEW read, StillFits(o, read)
  PROVE  StillFits(o, read)'
  <1>1. ASSUME NEW p \in Orders, Promise!Place(p)
        PROVE  status'[o] = status[o]
    BY <1>1 DEF TypeOK, Promise!Place, StillFits
  <1>2. ASSUME NEW p \in Orders, Promise!Reserve(p) \/ Promise!Reject(p) \/ Promise!Ship(p)
        PROVE  \/ status'[o] = status[o]
               \/ status[o] \in {"created", "inventory_reserved"} /\ status'[o] # "absent"
    BY <1>2 DEF TypeOK, Promise!Reserve, Promise!Reject, Promise!Ship
  <1>3. ASSUME NEW s \in Skus, Promise!Supply(s)
        PROVE  status'[o] = status[o]
    BY <1>3 DEF Promise!Supply
  <1>4. CASE UNCHANGED Promise!vars
    BY <1>4 DEF Promise!vars, StillFits
  <1> QED
    BY <1>1, <1>2, <1>3, <1>4 DEF Promise!Next, StillFits

\* The statements of GET /orders/{order_id} may see different commits, and their
\* answer is still one the order can have: no order is shown shipped without its
\* shipment, rejected with one, or without its lines.
THEOREM Queries == Spec => OrderDetailsFit
  <1> DEFINE Fit(o, read) ==
               LET details == OrderDetails(o, read) IN
                 /\ details.items \in Carts
                 /\ details.status = "shipment_created" => details.shipment
                 /\ details.shipment => details.status # "inventory_rejected"
  <1>1. ASSUME NEW o \in Orders, NEW read \in OrderStatus
        PROVE  Spec => [](status[o] = read => []Fit(o, read))
    <2>1. status[o] = read => StillFits(o, read)
      BY DEF StillFits, OrderStatus
    <2>2. ASSUME TypeOK, LogMatchesTables, StillFits(o, read)
          PROVE  Fit(o, read)
      BY <2>2 DEF TypeOK, LogMatchesTables, StillFits, OrderDetails
    <2>3. /\ TypeOK /\ NeverOversold /\ FlowInv /\ TypeOK' /\ NeverOversold'
          /\ [Next]_vars /\ StillFits(o, read)
          => StillFits(o, read)'
      BY PromiseStep, StillFitsStep
    <2> QED
      BY <2>1, <2>2, <2>3, TypeCorrect, Oversell, FlowCorrect, Outbox, PTL DEF Spec
  <1> QED
    BY <1>1 DEF OrderDetailsFit
=============================================================================
