----------------------------- MODULE CommandLog -----------------------------
(***************************************************************************)
(* What the orchestration engine promises its clients: a log to which each *)
(* command id contributes at most once, as one block of events appended to *)
(* the log's end, and answers that agree with what the id came to.  There  *)
(* is no queue, no read model, no fault and no restart here.               *)
(***************************************************************************)
EXTENDS Naturals, Sequences, SequencesExt

CONSTANTS Ids, Commands, Plans, MaxLog, MaxDispatches

VARIABLES
  log,          \* the events, each of a command and an aggregate
  outcome,      \* what a command id came to: undecided, accepted or rejected, and where
  dispatches,   \* the commands clients sent
  answers       \* what each was answered

vars == <<log, outcome, dispatches, answers>>

Undecided == [status |-> "none"]
Unanswered == [kind |-> "none"]

Init ==
  /\ log = <<>> /\ outcome = [id \in Ids |-> Undecided]
  /\ dispatches = <<>> /\ answers = <<>>

Ask(c) ==
  /\ Len(dispatches) < MaxDispatches
  /\ dispatches' = Append(dispatches, c) /\ answers' = Append(answers, Unanswered)
  /\ UNCHANGED <<log, outcome>>

\* A dispatched, undecided command is accepted: its events take effect at once.
Accept(c, p) ==
  /\ c \in Range(dispatches) /\ outcome[c.id] = Undecided
  /\ Len(log) + Len(p) <= MaxLog
  /\ log' = log \o [i \in DOMAIN p |-> [id |-> c.id, agg |-> p[i]]]
  /\ outcome' = [outcome EXCEPT ![c.id] =
                   [status |-> "accepted", agg |-> c.agg, seq |-> Len(log')]]
  /\ UNCHANGED <<dispatches, answers>>

\* It is rejected for good, with some position of the log.
Reject(c, s) ==
  /\ c \in Range(dispatches) /\ outcome[c.id] = Undecided
  /\ outcome' = [outcome EXCEPT ![c.id] = [status |-> "rejected", agg |-> c.agg, seq |-> s]]
  /\ UNCHANGED <<log, dispatches, answers>>

\* What a dispatch of c may be told: an error and a rejection that is not recorded
\* promise nothing, every other answer agrees with the outcome.
Truthful(c, a) ==
  LET o == outcome[c.id]
  IN CASE a.kind = "ok" -> o = [status |-> "accepted", agg |-> c.agg, seq |-> a.seq]
       [] a.kind = "rejectedBefore" -> o.status = "rejected" /\ o.agg = c.agg
       [] a.kind = "conflict" -> o # Undecided /\ o.agg # c.agg
       [] a.kind = "invariant" -> o.status # "accepted"
       [] a.kind = "error" -> TRUE
       [] OTHER -> FALSE

\* A dispatch is answered once.
Tell(n, a) ==
  /\ answers[n] = Unanswered /\ Truthful(dispatches[n], a)
  /\ answers' = [answers EXCEPT ![n] = a]
  /\ UNCHANGED <<log, outcome, dispatches>>

Answers ==
  [kind : {"conflict", "rejectedBefore", "invariant", "error"}]
    \cup [kind : {"ok"}, seq : 1..MaxLog]

Next ==
  \/ \E c \in Commands :
       Ask(c) \/ (\E s \in 0..Len(log) : Reject(c, s)) \/ \E p \in Plans[c] : Accept(c, p)
  \/ \E n \in DOMAIN dispatches, a \in Answers : Tell(n, a)

Spec == Init /\ [][Next]_vars
============================================================================
