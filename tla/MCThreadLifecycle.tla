------------------------- MODULE MCThreadLifecycle -------------------------
(* Small instances of ThreadLifecycle: one thread, bound to qwen, with a     *)
(* question or with an approval.                                             *)
EXTENDS ThreadLifecycle

MCThreads == {"t1"}
MCQuestion == {"question"}
MCApproval == {"approval"}
MCOfQuestion == [r \in MCQuestion |-> "t1"]
MCOfApproval == [r \in MCApproval |-> "t1"]
MCNone == {}
=============================================================================
