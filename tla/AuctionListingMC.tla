-------------------------- MODULE AuctionListingMC --------------------------
(***************************************************************************)
(* Small instance of AuctionListing: two players that search twice each.   *)
(***************************************************************************)
EXTENDS AuctionListing

CONSTANTS p1, p2

=============================================================================
