------------------------- MODULE MCUpgradeRefusals -------------------------
(* One connection whose requests may be refused upgrades.                  *)
EXTENDS HttpServer
CONSTANT c1
=============================================================================
