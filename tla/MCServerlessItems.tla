------------------------- MODULE MCServerlessItems --------------------------
(***************************************************************************)
(* An instance of ServerlessItems for TLC: two users, two items and one    *)
(* write under way at a time, which expiry and other writes overtake.      *)
(***************************************************************************)
EXTENDS ServerlessItems

Users == {"ann", "bob"}
Requests == {"r1"}
=============================================================================
