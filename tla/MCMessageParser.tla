--------------------------- MODULE MCMessageParser ---------------------------
(* Small instances of MessageParser for TLC. *)
EXTENDS MessageParser

OneOrThreeParts == {<<3>>, <<1, 1, 1>>}
UpToThreeParts == {<<3>>, <<2, 1>>, <<1, 1, 1>>}
=============================================================================
