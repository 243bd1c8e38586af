--------------------------- MODULE MCTlsTransfer ---------------------------
(***************************************************************************)
(* Records for TLC: below, at and above the size of the receiving buffer,  *)
(* the stop byte first, inside and last.                                   *)
(***************************************************************************)
EXTENDS TlsTransfer

SmallRecords == {<<0>>, <<1>>, <<0, 1>>, <<1, 0>>, <<0, 1, 0>>}
=============================================================================
