------------------------------- MODULE MCVenue -------------------------------
(* TLC instance of the in-process venue: its orders, or its cash, which share
   nothing but the object. *)
EXTENDS DeterministicVenue

CONSTANTS StartingCash, Amounts, MaxTransfers

\* Money is a whole number of its units.
ASSUME CashAssumption ==
  /\ StartingCash \in Int /\ Amounts \subseteq Int /\ MaxTransfers \in Nat

VARIABLES half, accountCash, heldFunding, provisioned, transfers, lastId, fault, answered

Cash == INSTANCE VenueCash

cashVars == <<accountCash, heldFunding, provisioned, transfers, lastId, fault, answered>>
venueVars == <<vars, cashVars, half>>

VenueInit == half \in {"orders", "cash"} /\ Init /\ Cash!Init

VenueNext ==
  \/ half = "orders" /\ Next /\ UNCHANGED <<cashVars, half>>
  \/ half = "cash" /\ Cash!Next /\ UNCHANGED <<vars, half>>

VenueSpec == VenueInit /\ [][VenueNext]_venueVars

CashIsWhatSettled == Cash!CashIsWhatSettled
=============================================================================
