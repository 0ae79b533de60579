------------------------------- MODULE Outbox -------------------------------
(***************************************************************************)
(* FileOutbox (src/messaging/outbox.h) and the AsyncOutboxDispatcher that   *)
(* empties it: request threads append events to a framed, checksummed file, *)
(* one dispatcher thread drains them to a publisher, and the process may    *)
(* fail at any point and be started again.                                  *)
(*                                                                          *)
(* The file is the sequence of its records.  An append that fails, or that  *)
(* the process does not survive, leaves nothing, a whole record or a part   *)
(* of one (Torn) behind; a reader stops at the part.  rewriteLocked writes  *)
(* a temporary file and renames it, so it happens or does not.  Every event *)
(* is appended once, and each append makes an event of its own (its id is   *)
(* made from the clock).                                                    *)
(***************************************************************************)
EXTENDS Integers, Sequences, Functions

CONSTANTS Events,      \* events appended in a behaviour
          Torn,        \* a record of which only a part was written
          Batch,       \* batch_size_, 128 in the program
          MaxStops     \* bound: how often the process ends

ASSUME OutboxAssumption == /\ Torn \notin Events
                           /\ Batch \in Nat \ {0}
                           /\ MaxStops \in Nat

VARIABLES
  file,        \* records of the outbox file
  pending,     \* pending_
  batch,       \* events of the running drain still to be published
  failed,      \* events of the running drain the publisher refused
  dispatcher,  \* "wait", "drain" or "last" (the drain after stop_requested_)
  process,     \* "up", "stopping" (stop_requested_), "down" or "refused"
  appended,    \* outcome of the append of each event
  copies,      \* how often each event was handed over to the publisher
  stops        \* how often the process ended

drainVars == <<batch, failed, dispatcher>>
outboxVars == <<file, pending, batch, failed, dispatcher, process, appended,
                copies, stops>>

Running == process \in {"up", "stopping"}

OutboxInit ==
  /\ file = <<>> /\ pending = <<>> /\ batch = <<>> /\ failed = <<>>
  /\ dispatcher = "wait" /\ process = "up" /\ stops = 0
  /\ appended = [e \in Events |-> "no"]
  /\ copies = [e \in Events |-> 0]

-----------------------------------------------------------------------------
\* What an append that does not succeed may leave in the file.
Leftovers(e) == {<<>>, <<Torn>>, <<e>>}

\* append: the record is written and synced before pending_ knows it.
append(e) ==
  /\ process = "up" /\ appended[e] = "no"
  /\ \/ /\ file' = Append(file, e)
        /\ pending' = Append(pending, e)
        /\ appended' = [appended EXCEPT ![e] = "ok"]
     \/ /\ \E rest \in Leftovers(e) : file' = file \o rest
        /\ appended' = [appended EXCEPT ![e] = "error"]
        /\ UNCHANGED pending
  /\ UNCHANGED <<drainVars, process, copies, stops>>

\* Mutant: the batch is copied and stays in pending_ as well.
TakeCopy(kind) ==
  /\ batch' = SubSeq(pending, 1, IF Len(pending) < Batch THEN Len(pending) ELSE Batch)
  /\ dispatcher' = kind
  /\ UNCHANGED <<file, pending, failed, process, appended, copies, stops>>

\* drain, first critical section: the oldest events leave pending_.
take(kind) ==
  LET count == IF Len(pending) < Batch THEN Len(pending) ELSE Batch IN
  /\ batch' = SubSeq(pending, 1, count)
  /\ pending' = SubSeq(pending, count + 1, Len(pending))
  /\ dispatcher' = kind
  /\ UNCHANGED <<file, failed, process, appended, copies, stops>>

\* Mutant: the wait has no timeout, and nothing in the program calls wake().
WakeUpOnStopOnly == process = "stopping" /\ dispatcher = "wait" /\ pending # <<>> /\ take("last")

\* run: the wait times out, or ends because of stop_requested_; one drain follows
\* when there is something to publish.
wakeUp ==
  /\ Running /\ dispatcher = "wait" /\ pending # <<>>
  /\ take(IF process = "stopping" THEN "last" ELSE "drain")

\* run, with nothing to publish: wait again, or return.
idle ==
  /\ Running /\ dispatcher = "wait" /\ pending = <<>>
  /\ process' = IF process = "stopping" THEN "down" ELSE process
  /\ stops' = IF process = "stopping" THEN stops + 1 ELSE stops
  /\ UNCHANGED <<file, pending, drainVars, appended, copies>>

\* drain, unlocked: the publisher takes or refuses the next event.
published ==
  /\ Running /\ batch # <<>>
  /\ copies' = [copies EXCEPT ![Head(batch)] = @ + 1]
  /\ batch' = Tail(batch)
  /\ UNCHANGED <<file, pending, failed, dispatcher, process, appended, stops>>

refused ==
  /\ Running /\ batch # <<>>
  /\ failed' = Append(failed, Head(batch))
  /\ batch' = Tail(batch)
  /\ UNCHANGED <<file, pending, dispatcher, process, appended, copies, stops>>

\* run, after a drain: wait again, or return when the dispatcher is stopping.
Drained ==
  /\ Running /\ dispatcher # "wait" /\ batch = <<>>
  /\ failed' = <<>> /\ dispatcher' = "wait"
  /\ process' = IF dispatcher = "last" THEN "down" ELSE process
  /\ stops' = IF dispatcher = "last" THEN stops + 1 ELSE stops
  /\ UNCHANGED <<batch, appended, copies>>

\* Mutant: the file is rewritten before the refused events are put back.
PutBackLate ==
  /\ Drained
  /\ pending' = failed \o pending
  /\ file' \in {pending, file}

\* rewriteLocked: a temporary file with every given event replaces the file, or
\* the old one stays.
Rewritten(events) == {events, file}

\* drain, second critical section: the refused events go back to the front.
putBack ==
  /\ Drained
  /\ pending' = failed \o pending
  /\ file' \in Rewritten(failed \o pending)

\* AsyncOutboxDispatcher::stop, called on shutdown.
stop ==
  /\ process = "up" /\ stops < MaxStops
  /\ process' = "stopping"
  /\ UNCHANGED <<file, pending, drainVars, appended, copies, stops>>

\* The process dies, perhaps in the middle of an append.
die ==
  /\ Running /\ stops < MaxStops
  /\ process' = "down" /\ stops' = stops + 1
  /\ \/ UNCHANGED <<file, appended>>
     \/ \E e \in Events : /\ process = "up" /\ appended[e] = "no"
                          /\ \E rest \in Leftovers(e) : file' = file \o rest
                          /\ appended' = [appended EXCEPT ![e] = "error"]
  /\ pending' = <<>> /\ batch' = <<>> /\ failed' = <<>> /\ dispatcher' = "wait"
  /\ UNCHANGED copies

\* readRecord stops at a clean end of file, or at a record cut short.
Readable == Torn \notin Range(file)

\* open: every record is read back, or the file is rejected and main exits.
open ==
  /\ process \in {"down", "refused"}
  /\ IF Readable THEN process' = "up" /\ pending' = file
     ELSE process' = "refused" /\ UNCHANGED pending
  /\ UNCHANGED <<file, drainVars, appended, copies, stops>>

OutboxNext ==
  \/ \E e \in Events : append(e)
  \/ wakeUp \/ idle \/ published \/ refused \/ putBack
  \/ stop \/ die \/ open

OutboxSpec == OutboxInit /\ [][OutboxNext]_outboxVars

-----------------------------------------------------------------------------
\* An event whose append was acknowledged stays in the file until it has been
\* handed to the publisher: appends that run during a drain, refused events,
\* failed rewrites and restarts lose none (outbox.h:109, 122-129).
AppendedIsKept ==
  \A e \in Events : (appended[e] = "ok" /\ copies[e] = 0) => e \in Range(file)

\* An event is handed over a second time only because a process ended between
\* its publication and the rewrite of the file (outbox.h:126-129): once more
\* for every such end, and never twice by one process.
RedeliveredByRestartOnly == \A e \in Events : copies[e] <= 1 + stops

\* Every acknowledged event is published in the end, unless a torn record makes
\* open reject the file for good (async_outbox_dispatcher.h:14-16).
EventsArePublished ==
  \A e \in Events : (appended[e] = "ok") ~> (copies[e] > 0 \/ process = "refused")
=============================================================================
