---------------------------- MODULE MCProEDriver ----------------------------
(* Small instances of ProEDriver for TLC. *)
EXTENDS ProEDriver

CONSTANTS a1, a2, p1, p2, v1, v2

OneAddress == {a1}
TwoAddresses == {a1, a2}
OnePort == {p1}
OneValue == {v1}
TwoValues == {v1, v2}
NoSetting == <<>>
OneSetting == <<"SMOOTHING">>
AnyFrame == {"FRAME", "OKFRAME"}
PlainFrame == {"FRAME"}
=============================================================================
