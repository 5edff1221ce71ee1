--------------------------- MODULE AuctionLedger ---------------------------
(***************************************************************************)
(* What the auction promises its bidders, without jobs, requests, awaits   *)
(* or instances.  An auction is open, then closing, then closed, and never *)
(* goes back.  A bid that is held may be given up, and an item sold, only  *)
(* once its auction is not open any more.  Auction implements it.          *)
(***************************************************************************)
EXTENDS Integers, FiniteSets

CONSTANTS Items, Bid, Order, Seeded

VARIABLES
    stage,  \* the stage of every item's auction
    held,   \* the bids that are held
    sold    \* the orders

ledgerVars == <<stage, held, sold>>

Stages == {"open", "closing", "closed"}

LedgerInit ==
    /\ stage = [i \in Items |-> IF i \in Seeded THEN "open" ELSE "closed"]
    /\ held = {}
    /\ sold = {}

\* A bid is taken at any stage: nothing compares dates when it arrives.
Hold ==
    /\ held \subseteq held'
    /\ held' \subseteq Bid
    /\ UNCHANGED <<stage, sold>>

GiveUp ==
    /\ held' \subseteq held
    /\ \A b \in held \ held' : stage[b.item] # "open"
    /\ UNCHANGED <<stage, sold>>

Sell ==
    /\ sold \subseteq sold'
    /\ \A o \in sold' \ sold :
          o \in Order /\ \A b \in o.lines : stage[b.item] # "open"
    /\ UNCHANGED <<stage, held>>

Advance ==
    /\ \E i \in Items :
          \/ stage[i] = "open" /\ stage' = [stage EXCEPT ![i] = "closing"]
          \/ stage[i] = "closing" /\ stage' = [stage EXCEPT ![i] = "closed"]
    /\ UNCHANGED <<held, sold>>

LedgerNext == Hold \/ GiveUp \/ Sell \/ Advance

LedgerSpec == LedgerInit /\ [][LedgerNext]_ledgerVars

=============================================================================
