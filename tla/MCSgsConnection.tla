--------------------------- MODULE MCSgsConnection ---------------------------
(***************************************************************************)
(* TLC instances of SgsConnection: two descriptors, one channel; the bounds *)
(* on logins, sends and server messages are in the configurations.          *)
(***************************************************************************)
EXTENDS SgsConnection, TLC

CONSTANT c1

MCFds == {3, 4}
=============================================================================
