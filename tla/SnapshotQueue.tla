---------------------------- MODULE SnapshotQueue ----------------------------
(***************************************************************************)
(* The hand-over of snapshots from the worker thread to the Tk thread: a   *)
(* queue.Queue(maxsize=2) that worker() fills, evicting the oldest when it *)
(* is full, and that poll() drains to the newest.  The two threads         *)
(* interleave between any two queue operations.                            *)
(*                                                                         *)
(* A snapshot is its tick number.                                          *)
(***************************************************************************)
EXTENDS Integers, Sequences

CONSTANTS
    Capacity,   \* maxsize of the queue
    MaxTick     \* bound on the number of snapshots

ASSUME QueueAssumption == Capacity \in Nat \ {0} /\ MaxTick \in Nat

VARIABLES
    q,       \* self.q, oldest first
    tick,    \* worker: the snapshot it is at
    wpc,     \* worker: what it does next
    ppc,     \* Tk: is poll() armed, draining, in update_data, or cancelled?
    latest,  \* poll(): newest snapshot drained so far, or Nothing
    shown,   \* the last snapshot update_data was given
    stop     \* stop_event

handOverVars == <<q, tick, wpc, ppc, latest, shown, stop>>

Nothing == -1

HandOverInit ==
    /\ q = <<>>
    /\ tick = 0
    /\ wpc = "sample"
    /\ ppc = "armed"
    /\ latest = Nothing
    /\ shown = Nothing
    /\ stop = FALSE

-----------------------------------------------------------------------------
\* worker()

worker(from) == wpc = from /\ UNCHANGED <<ppc, latest, shown, stop>>

\* Mutant: the loop does not test stop_event.
BugSample ==
    /\ worker("sample")
    /\ tick <= MaxTick
    /\ wpc' = "put"
    /\ UNCHANGED <<q, tick>>

\* The head of the while loop, and the sampling that follows it.
Sample ==
    /\ worker("sample")
    /\ wpc' = IF stop THEN "done" ELSE "put"
    /\ stop \/ tick <= MaxTick
    /\ UNCHANGED <<q, tick>>

Put ==
    /\ worker("put")
    /\ IF Len(q) < Capacity
       THEN q' = Append(q, tick) /\ wpc' = "wait"
       ELSE q' = q /\ wpc' = "evict"
    /\ UNCHANGED tick

\* queue.Full: make room; queue.Empty if poll() was faster.
Evict ==
    /\ worker("evict")
    /\ q' = IF q = <<>> THEN q ELSE Tail(q)
    /\ wpc' = "again"
    /\ UNCHANGED tick

\* Mutant: after making room, the snapshot is not put again.
BugPutAgain ==
    /\ worker("again")
    /\ wpc' = "wait"
    /\ UNCHANGED <<q, tick>>

\* The second put gives the snapshot up if there is still no room.
PutAgain ==
    /\ worker("again")
    /\ q' = IF Len(q) < Capacity THEN Append(q, tick) ELSE q
    /\ wpc' = "wait"
    /\ UNCHANGED tick

\* stop_event.wait(POLL_SECONDS)
Wait ==
    /\ worker("wait")
    /\ tick' = tick + 1
    /\ wpc' = "sample"
    /\ UNCHANGED q

Worker == Sample \/ Put \/ Evict \/ PutAgain \/ Wait

-----------------------------------------------------------------------------
\* poll()

tk(from) == ppc = from /\ UNCHANGED <<tick, wpc>>

PollFires ==
    /\ tk("armed")
    /\ ppc' = "drain"
    /\ latest' = Nothing
    /\ UNCHANGED <<q, shown, stop>>

\* Mutant: takes the newest at once, and leaves the older ones for later.
BugDrainOne ==
    /\ tk("drain")
    /\ q # <<>>
    /\ latest' = q[Len(q)]
    /\ q' = SubSeq(q, 1, Len(q) - 1)
    /\ ppc' = "update"
    /\ UNCHANGED <<shown, stop>>

DrainOne ==
    /\ tk("drain")
    /\ q # <<>>
    /\ latest' = Head(q)
    /\ q' = Tail(q)
    /\ UNCHANGED <<ppc, shown, stop>>

DrainEnds ==
    /\ tk("drain")
    /\ q = <<>>
    /\ ppc' = IF latest = Nothing THEN "rearm" ELSE "update"
    /\ UNCHANGED <<q, latest, shown, stop>>

\* update_data(latest), which may raise half way through.
Update ==
    /\ tk("update")
    /\ shown' = latest
    /\ ppc' = "rearm"
    /\ UNCHANGED <<q, latest, stop>>

\* Mutant: only an update arms the next poll.
BugRearm ==
    /\ tk("rearm")
    /\ ppc' = IF stop \/ latest = Nothing THEN "cancelled" ELSE "armed"
    /\ UNCHANGED <<q, latest, shown, stop>>

\* The finally clause.
Rearm ==
    /\ tk("rearm")
    /\ ppc' = IF stop THEN "cancelled" ELSE "armed"
    /\ UNCHANGED <<q, latest, shown, stop>>

Poll == PollFires \/ DrainOne \/ DrainEnds \/ Update \/ Rearm

\* destroy(), itself a Tk callback: sets stop_event, cancels the timer.
Destroy ==
    /\ tk("armed")
    /\ stop' = TRUE
    /\ ppc' = "cancelled"
    /\ UNCHANGED <<q, latest, shown>>

HandOverNext == Worker \/ Poll \/ Destroy

\* Each thread is scheduled for ever; nobody has to close the window.
HandOverSpec == HandOverInit /\ [][HandOverNext]_handOverVars /\ WF_handOverVars(Worker) /\ WF_handOverVars(Poll)

-----------------------------------------------------------------------------
HandOverTypeOK ==
    /\ q \in Seq(0 .. MaxTick)
    /\ Len(q) <= Capacity
    /\ tick \in Nat
    /\ wpc \in {"sample", "put", "evict", "again", "wait", "done"}
    /\ ppc \in {"armed", "drain", "update", "rearm", "cancelled"}
    /\ latest \in 0 .. MaxTick \cup {Nothing}
    /\ shown \in 0 .. MaxTick \cup {Nothing}
    /\ stop \in BOOLEAN

\* The snapshot the worker handed over last.
Newest == IF wpc = "wait" THEN tick ELSE tick - 1

\* However the two threads interleave, the newest snapshot is never the one that
\* is given up: it is in the queue or poll() has it, except while the worker, its
\* eviction done, holds the next one that there is room for.
NewestSurvives ==
    Newest >= 0 => \/ q # <<>> /\ q[Len(q)] = Newest
                   \/ latest = Newest
                   \/ shown >= Newest
                   \/ wpc = "again" /\ Len(q) < Capacity

\* The window never goes back in time: neither the queue nor eviction reorders.
NeverBackwards == [][shown' >= shown]_shown

\* A snapshot is shown, or overtaken by a newer one, unless the window closes:
\* an interrupted update does not stop the polling.
EverySnapshotIsShown ==
    \A n \in 0 .. MaxTick : (Newest = n) ~> (shown >= n \/ stop)

\* destroy() can rely on the worker ending its loop.
WorkerEnds == stop ~> wpc = "done"
=============================================================================
