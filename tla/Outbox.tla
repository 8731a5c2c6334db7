------------------------------- MODULE Outbox -------------------------------
(***************************************************************************)
(* What WorkTime promises about one activity sample, with no threads,      *)
(* timers, URLs or locks: a captured sample is under way in a POST (live), *)
(* waits in a first-in first-out queue, or has reached one of two final    *)
(* places, sent or dropped.  SendingService.tla shows that the service and *)
(* its worker thread implement this module.                                *)
(***************************************************************************)
EXTENDS Naturals, Sequences

CONSTANT MaxSamples       \* bound on the number of samples captured

VARIABLES captured,       \* number of samples captured; samples are numbered in order
          live,           \* samples some POST is carrying
          queue,          \* samples waiting to be resent, oldest row first
          sent,           \* samples recorded as delivered
          dropped         \* samples no table records any more

vars == <<captured, live, queue, sent, dropped>>

Init == /\ captured = 0
        /\ live = {}
        /\ queue = <<>>
        /\ sent = {}
        /\ dropped = {}

\* A new sample is captured and posted at once.
Capture == /\ captured < MaxSamples
           /\ captured' = captured + 1
           /\ live' = live \cup {captured + 1}
           /\ UNCHANGED <<queue, sent, dropped>>

\* A sample under way is recorded as delivered.
Deliver(s) == /\ s \in live
              /\ live' = live \ {s}
              /\ sent' = sent \cup {s}
              /\ UNCHANGED <<captured, queue, dropped>>

\* A sample under way goes to the end of the queue.
Enqueue(s) == /\ s \in live
              /\ live' = live \ {s}
              /\ queue' = Append(queue, s)
              /\ UNCHANGED <<captured, sent, dropped>>

\* The outcome of a sample under way cannot be recorded.
Drop(s) == /\ s \in live
           /\ live' = live \ {s}
           /\ dropped' = dropped \cup {s}
           /\ UNCHANGED <<captured, queue, sent>>

\* The oldest queued sample is posted again.
Resend == /\ queue # <<>>
          /\ live' = live \cup {Head(queue)}
          /\ queue' = Tail(queue)
          /\ UNCHANGED <<captured, sent, dropped>>

\* The process ends: everything under way is dropped, the tables remain.
LoseLive == /\ dropped' = dropped \cup live
            /\ live' = {}
            /\ UNCHANGED <<captured, queue, sent>>

Next == \/ Capture
        \/ \E s \in live : Deliver(s) \/ Enqueue(s) \/ Drop(s)
        \/ Resend
        \/ LoseLive

Spec == Init /\ [][Next]_vars
=============================================================================
