---------------------------- MODULE AppendOnlyLog ----------------------------
(***************************************************************************)
(* What the event log promises to those who read it, without lines, locks  *)
(* and processes.  Events are added one at a time and stay.  A reader gets *)
(* all of them or an error; and where the log is damaged every reader gets *)
(* the error from then on.  Anybody may add an event of any type; the QA   *)
(* gate reports a pass only while the last outcome of QA is not a failure. *)
(* EventLog is shown to implement this specification.                      *)
(***************************************************************************)
EXTENDS Naturals, Sequences

CONSTANT Types      \* event types

VARIABLES events,   \* the events, in order
          passes,   \* which of them are the reports of the QA gate
          answers,  \* what a reader may get now: one list of events, or none
          failed,   \* the last outcome of QA is a failure
          damaged   \* the log cannot be read any more

logVars == <<events, passes, answers, failed, damaged>>

(* What a reader gets after a step; damage is for good. *)
Answers ==
    /\ answers' \in {{}, {events'}}
    /\ damaged => damaged'
    /\ damaged' => answers' = {}

Add(type) ==
    /\ events' = Append(events, type)
    /\ failed' = IF type \in {"qa_failed", "qa_passed"} THEN type = "qa_failed" ELSE failed
    /\ UNCHANGED passes
    /\ Answers

(* The QA gate reports that it passed. *)
Pass ==
    /\ ~failed
    /\ events' = Append(events, "gate_passed")
    /\ passes' = passes \cup {Len(events')}
    /\ UNCHANGED failed
    /\ Answers

(* An append is under way, ends or is killed. *)
Disturb == UNCHANGED <<events, passes, failed>> /\ Answers

LogInit ==
    /\ events = <<>>
    /\ passes = {}
    /\ answers = {<<>>}
    /\ failed = FALSE
    /\ damaged = FALSE

LogNext == (\E type \in Types : Add(type)) \/ Pass \/ Disturb

LogSpec == LogInit /\ [][LogNext]_logVars
=============================================================================
