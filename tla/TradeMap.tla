------------------------------ MODULE TradeMap ------------------------------
(***************************************************************************)
(* workers/trade_map.py: from the deals of a history pull to rows of the   *)
(* journal.  Deals are numbered in the order in which they happened.  An   *)
(* order that is filled in parts has several deals, and the ticket of a    *)
(* row is an order, so that rows can collide.  (An order of MT4, which is  *)
(* pulled as an entry and an exit together, is an exit without entry.)     *)
(***************************************************************************)
EXTENDS Naturals, FiniteSets

CONSTANTS
  Deals,       \* the deals of the account
  Kind,        \* Kind[d]: an entry, an exit, a cash operation, or another deal
  Position,    \* Position[d]: the position an entry or exit belongs to
  Order        \* Order[d]: the order it is a fill of; its own ticket without one

ASSUME DealsAssumption == Deals \subseteq Nat \ {0} /\ IsFiniteSet(Deals)
ASSUME KindAssumption == Kind \in [Deals -> {"in", "out", "cash", "other"}]

Entries(S) == {d \in S : Kind[d] = "in"}
Exits(S)   == {d \in S : Kind[d] = "out"}

\* The broker's orders: one opens a position or closes one, whatever its fills.
ASSUME OrderAssumption ==
  \A d, e \in Entries(Deals) \cup Exits(Deals) :
    Order[d] = Order[e] => Kind[d] = Kind[e] /\ Position[d] = Position[e]

\* keep_history_deal: DEAL_ENTRY_INOUT (a reversal) and DEAL_ENTRY_OUT_BY (a close
\* by an opposite position) never leave the adapter.
KeepHistoryDeal(d) == Kind[d] # "other"

\* The bucket of d's position.
Bucket(S, d) == {e \in S : Kind[e] # "cash" /\ Position[e] = Position[d]}

Earliest(S) == CHOOSE d \in S : \A e \in S : d <= e
Latest(S)   == CHOOSE d \in S : \A e \in S : e <= d

\* A position with a single exit goes by the order of its first entry, the exits
\* of a partly closed one, and exits without an entry, by their own.
Ticket(S, d) ==
  IF Exits(Bucket(S, d)) = {d} /\ Entries(Bucket(S, d)) # {}
  THEN Order[Earliest(Entries(Bucket(S, d)))] ELSE Order[d]

Tickets == {Order[d] : d \in Entries(Deals) \cup Exits(Deals)}

\* Two fills of one closing order get one ticket.
Collide(S) == \E d, e \in Exits(S) : d # e /\ Ticket(S, d) = Ticket(S, e)

\* A row stands for the exit it is made of; its figures are left out.
Rows == Exits(Deals)

EveryDeal(S) == S   \* mutant: the kind is not looked at

\* Cash operations with an amount and a ticket; what else is called a cash
\* operation leaves no trace and is no member of Deals.
Cashflows(S) == {d \in S : Kind[d] = "cash"}
=============================================================================
