---------------------------- MODULE MCProDriver ----------------------------
(* Small instances of ProDriver for TLC. *)
EXTENDS ProDriver

CONSTANTS b1, b2, v1, v2

OneRate == {b1}
TwoRates == {b1, b2}
ProbeBoth == <<b1, b2>>
ProbeOne == <<b1>>
OneValue == {v1}
TwoValues == {v1, v2}
NoSetting == <<>>
OneSetting == <<"INTENSITY">>
AnyConfiguration == [Settings -> Values]
AnyFailure == {Closed, Unset}
CleanFailure == {Closed}
AllOps == Public
NoRebaud == Public \ {"setBaudRate"}
ConnectAndClose == {"connect", "close"}

\* What a later step or a property may read: a call's variables while the call
\* uses them, and of the flags the one that is waited for, since every wait
\* begins by lowering its own.
Live ==
  <<pc, call, started, closing, cfg, run, written, hPort, tty, lineVars,
    thread, rx, frameCount, probe,
    IF probe = "none" THEN FALSE ELSE clean,
    IF call = "connect" THEN probed ELSE 0,
    IF call \in {"setBaudRate", "restart"} THEN rebaud ELSE None,
    IF pc \in {"send", "wait"} THEN snd ELSE Stopping,
    IF pc \in {"wait", "reopening"} THEN tries ELSE 0,
    IF pc \in {"send", "wait", "nextSetting"} /\ call # "set" THEN sent ELSE 0,
    IF pc = "wait" THEN flag[snd.type] ELSE FALSE>>
=============================================================================
