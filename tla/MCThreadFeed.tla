---------------------------- MODULE MCThreadFeed ----------------------------
(* Instances of ThreadFeed for TLC. *)
EXTENDS ThreadFeed

E(kind, of) == [kind |-> kind, of |-> of]

\* No thread yet, and a thread of two turns: more than one page.
MCInitialLogs ==
  {<<E("other", 0)>>, <<E("created", 0), E("turn", 0), E("turn", 0)>>}

BothServers == {[marker |-> TRUE, paging |-> TRUE],
                [marker |-> FALSE, paging |-> FALSE]}
=============================================================================
