--------------------------- MODULE AuctionHouseMC ---------------------------
(***************************************************************************)
(* Small instance of AuctionHouse: one item, two characters of one account *)
(* and one of another, with gold for a bid and a deposit.                  *)
(***************************************************************************)
EXTENDS AuctionHouse

CONSTANTS c1, c2, c3, a1, a2, i1

MCAccount == c1 :> a1 @@ c2 :> a2 @@ c3 :> a2
MCStartGold == c1 :> 1 @@ c2 :> 3 @@ c3 :> 2
MCHome == i1 :> c1

=============================================================================
