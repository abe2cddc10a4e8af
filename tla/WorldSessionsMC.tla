-------------------------- MODULE WorldSessionsMC --------------------------
(***************************************************************************)
(* Small instance of WorldSessions: account a1 with two connections and    *)
(* two characters, so that a session can be replaced while another one is  *)
(* offline, and accounts a2 and a3 that compete for the slots.             *)
(***************************************************************************)
EXTENDS WorldSessions, TLC

CONSTANTS a1, a2, a3, s1, s2, t1, u1, c1, c2

MCSessionAccount == s1 :> a1 @@ s2 :> a1 @@ t1 :> a2 @@ u1 :> a3
MCCharAccount == c1 :> a1 @@ c2 :> a1

=============================================================================
