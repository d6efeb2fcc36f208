--------------------------- MODULE MCScanAssembly ---------------------------
(* Small instances of ScanAssembly for TLC. *)
EXTENDS ScanAssembly

UpToTwo == {0, 1, 2}
=============================================================================
