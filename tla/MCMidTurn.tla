----------------------------- MODULE MCMidTurn -----------------------------
(* Small instances of MidTurn.                                              *)
EXTENDS MidTurn
CONSTANTS m1, m2, m3, f1
Plain == {m1, m2}
All == {m1, m2, m3}
OneAttached == {m3}
NoneAttached == {}
OneFlusher == {f1}
============================================================================
