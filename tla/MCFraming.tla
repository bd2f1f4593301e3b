------------------------------ MODULE MCFraming ------------------------------
(***************************************************************************)
(* A message that one recv may bring, and a longer one that takes several  *)
(* and does not fit the sockets at once.                                   *)
(***************************************************************************)
EXTENDS Framing

CONSTANTS a, b, newline

MCMessage == {<<a>>, <<b, a>>, <<a, b, b>>}
==============================================================================
