--------------------------- MODULE MCReceivers ---------------------------
(***************************************************************************)
(* Two hosts and two bindings; other users write an empty list, or one by  *)
(* hand that names the same host twice.                                    *)
(***************************************************************************)
EXTENDS Receivers

CONSTANTS h1, h2, b1, b2

MCHosts == {h1, h2}
MCBindings == {b1, b2}
R11 == [host |-> h1, bind |-> b1]
R12 == [host |-> h1, bind |-> b2]
R21 == [host |-> h2, bind |-> b1]
MCEditLists == {<<R11, R21, R12>>}
=============================================================================
