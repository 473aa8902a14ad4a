----------------------------- MODULE MCSession -----------------------------
(* Small instances of Session: one thread, and two threads that race for    *)
(* the shared key.                                                          *)
EXTENDS Session

CONSTANTS t1, t2, default, custom

TwoThreads == {t1, t2}
OneThread == {t1}
BothOptions == {default, custom}
OnlyDefault == {default}
ParseOps == {"parse", "is_utility"}
ParseThenScan == {"parse", "scan"}
=============================================================================
