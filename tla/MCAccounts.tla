----------------------------- MODULE MCAccounts -----------------------------
(* A small instance of Accounts for TLC. *)
EXTENDS Accounts, TLC

CONSTANTS reader_plus, reviewer, viewer, tab, invitation, address, call1, call2, conn1, conn2

OneRole        == {reader_plus}
Bases          == {reviewer, viewer}
OneDialog      == {tab}
OneInvitation  == {invitation}
OneAddress     == {address}
TwoCalls       == {call1, call2}
TwoConnections == {conn1, conn2}
AccountSymmetry == Permutations(Bases) \cup Permutations(TwoConnections) \cup Permutations(TwoCalls)
==============================================================================
