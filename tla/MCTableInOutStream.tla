-------------------------- MODULE MCTableInOutStream --------------------------
(* TableInOutStream on small instances for TLC.                            *)
EXTENDS TableInOutStream, TLC

=============================================================================
