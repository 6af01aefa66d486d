----------------------------- MODULE WorkerPool -----------------------------
(***************************************************************************)
(* The worker pool of server/workerpool.go with the handler of             *)
(* server/update.go: receive routines of neighbours (dispatchers) hand     *)
(* UPDATEs to workers over two unbuffered channels.  A worker offers its   *)
(* own channel inmsg on the shared channel inchan; Dispatch takes an offer *)
(* and then sends the message on the channel it got.  Pool.Stop starts one *)
(* goroutine per worker that sends on the worker's channel q.              *)
(***************************************************************************)
EXTENDS Naturals, Sequences, Functions

CONSTANTS
    Worker,      \* the workers of the pool
    Dispatcher,  \* the neighbours whose receive routines call Dispatch
    NoWorker,    \* a dispatcher that holds no offer
    MaxUpdates,  \* bound: UPDATEs each neighbour dispatches
    MayStop      \* the handler may be closed (UseDefaultUpdateHandler is called again)

ASSUME PoolAssumption ==
    /\ NoWorker \notin Worker
    /\ MaxUpdates \in Nat /\ MayStop \in BOOLEAN

VARIABLES
    wpc,      \* where each worker is in Worker.Start
    task,     \* the message a worker has taken: neighbour and number of the UPDATE
    dpc,      \* where each dispatcher is in Dispatch
    claim,    \* the worker whose inmsg the dispatcher has received from inchan
    sent,     \* number of UPDATEs each neighbour has dispatched or is dispatching
    stop,     \* the goroutine running Worker.Stop for each worker
    handled   \* for each neighbour its UPDATEs given to Process, in that order
              \* (UpdateMsgCount is the sum of their lengths)

vars == <<wpc, task, dpc, claim, sent, stop, handled>>

Update == [from : Dispatcher, n : 1 .. MaxUpdates]
NoTask == [from |-> NoWorker, n |-> 0]

Init ==
    /\ wpc = [w \in Worker |-> "offer"] /\ task = [w \in Worker |-> NoTask]
    /\ dpc = [d \in Dispatcher |-> "idle"] /\ claim = [d \in Dispatcher |-> NoWorker]
    /\ sent = [d \in Dispatcher |-> 0]
    /\ stop = [w \in Worker |-> "none"]
    /\ handled = [d \in Dispatcher |-> <<>>]

\* Mutant of Dispatch: the neighbour does not wait for the previous UPDATE to be taken.
DispatchAsync(d) ==
    /\ dpc[d] \in {"idle", "taking"} /\ sent[d] < MaxUpdates
    /\ dpc' = [dpc EXCEPT ![d] = "taking"] /\ sent' = [sent EXCEPT ![d] = @ + 1]
    /\ UNCHANGED <<wpc, task, claim, stop, handled>>

\* ProcessUpdate calls Dispatch, which waits for an offer on inchan.
Dispatch(d) ==
    /\ dpc[d] = "idle" /\ sent[d] < MaxUpdates
    /\ dpc' = [dpc EXCEPT ![d] = "taking"] /\ sent' = [sent EXCEPT ![d] = @ + 1]
    /\ UNCHANGED <<wpc, task, claim, stop, handled>>

\* Mutant of TakeOffer: the worker goes on offering (inchan buffered, line 25).
TakeOfferBuffered(w, d) ==
    /\ wpc[w] = "offer" /\ dpc[d] = "taking"
    /\ dpc' = [dpc EXCEPT ![d] = "sending"] /\ claim' = [claim EXCEPT ![d] = w]
    /\ UNCHANGED <<wpc, task, sent, stop, handled>>

\* Rendezvous on inchan: worker w's  inchan <- inmsg  with the dispatcher's receive.
TakeOffer(w, d) ==
    /\ wpc[w] = "offer" /\ dpc[d] = "taking"
    /\ wpc' = [wpc EXCEPT ![w] = "wait"]
    /\ dpc' = [dpc EXCEPT ![d] = "sending"] /\ claim' = [claim EXCEPT ![d] = w]
    /\ UNCHANGED <<task, sent, stop, handled>>

\* Mutant of Deliver: the worker gets the UPDATE before the one being sent.
DeliverPrevious(d) ==
    /\ dpc[d] = "sending" /\ wpc[claim[d]] = "wait"
    /\ wpc' = [wpc EXCEPT ![claim[d]] = "process"]
    /\ task' = [task EXCEPT ![claim[d]] = [from |-> d, n |-> sent[d] - 1]]
    /\ dpc' = [dpc EXCEPT ![d] = "idle"] /\ claim' = [claim EXCEPT ![d] = NoWorker]
    /\ UNCHANGED <<sent, stop, handled>>

\* Mutant of Deliver: Dispatch sends once more.
DeliverAgain(d) ==
    /\ dpc[d] = "sending" /\ wpc[claim[d]] = "wait"
    /\ wpc' = [wpc EXCEPT ![claim[d]] = "process"]
    /\ task' = [task EXCEPT ![claim[d]] = [from |-> d, n |-> sent[d]]]
    /\ UNCHANGED <<dpc, claim, sent, stop, handled>>

\* Rendezvous on inmsg: Dispatch returns and the worker has its message.
Deliver(d) ==
    /\ dpc[d] = "sending" /\ wpc[claim[d]] = "wait"
    /\ wpc' = [wpc EXCEPT ![claim[d]] = "process"]
    /\ task' = [task EXCEPT ![claim[d]] = [from |-> d, n |-> sent[d]]]
    /\ dpc' = [dpc EXCEPT ![d] = "idle"] /\ claim' = [claim EXCEPT ![d] = NoWorker]
    /\ UNCHANGED <<sent, stop, handled>>

\* Mutant of Process: the worker returns after a message (on its error, say).
ProcessAndExit(w) ==
    /\ wpc[w] = "process"
    /\ handled' = [handled EXCEPT ![task[w].from] = Append(@, task[w].n)]
    /\ wpc' = [wpc EXCEPT ![w] = "wait"] /\ task' = [task EXCEPT ![w] = NoTask]
    /\ UNCHANGED <<dpc, claim, sent, stop>>

\* Handler.Process: the message is counted, parsed and, unless ParseUpdate returned nil,
\* given to the event handler.  An error is reported to Handler.Error.  In every case
\* the worker goes back to offering its channel.
Process(w) ==
    /\ wpc[w] = "process"
    /\ handled' = [handled EXCEPT ![task[w].from] = Append(@, task[w].n)]
    /\ wpc' = [wpc EXCEPT ![w] = "offer"] /\ task' = [task EXCEPT ![w] = NoTask]
    /\ UNCHANGED <<dpc, claim, sent, stop>>

\* Close: Pool.Stop starts a goroutine per worker.
StopPool ==
    /\ MayStop /\ \A w \in Worker : stop[w] = "none"
    /\ stop' = [w \in Worker |-> "sending"]
    /\ UNCHANGED <<wpc, task, dpc, claim, sent, handled>>

\* Rendezvous on q.  The break leaves the select, not the loop: the worker offers again.
StopWorker(w) ==
    /\ stop[w] = "sending" /\ wpc[w] = "wait"
    /\ stop' = [stop EXCEPT ![w] = "done"] /\ wpc' = [wpc EXCEPT ![w] = "offer"]
    /\ UNCHANGED <<task, dpc, claim, sent, handled>>

Next ==
    \/ \E d \in Dispatcher : Dispatch(d) \/ Deliver(d) \/ \E w \in Worker : TakeOffer(w, d)
    \/ \E w \in Worker : Process(w) \/ StopWorker(w)
    \/ StopPool

\* Goroutines that can communicate do; Process ends.  Whether a neighbour has a further
\* UPDATE, and whether the pool is stopped, is not up to the pool.
Fairness ==
    /\ \A d \in Dispatcher : WF_vars(Deliver(d)) /\ WF_vars(\E w \in Worker : TakeOffer(w, d))
    /\ \A w \in Worker : WF_vars(Process(w))

Spec     == Init /\ [][Next]_vars
FairSpec == Spec /\ Fairness

-----------------------------------------------------------------------------
\* Workers, dispatchers and their channels have the types of their declarations.
TypeOK ==
    /\ wpc \in [Worker -> {"offer", "wait", "process"}]
    /\ task \in [Worker -> Update \cup {NoTask}]
    /\ dpc \in [Dispatcher -> {"idle", "taking", "sending"}]
    /\ claim \in [Dispatcher -> Worker \cup {NoWorker}]
    /\ sent \in [Dispatcher -> 0 .. MaxUpdates]
    /\ stop \in [Worker -> {"none", "sending", "done"}]
    /\ handled \in [Dispatcher -> Seq(1 .. MaxUpdates)]

\* UPDATE number n of d is in the hands of a worker.
InHand(d, n) == \E w \in Worker : task[w] = [from |-> d, n |-> n]

\* The UPDATEs of d for which Dispatch has returned.
Returned(d) == 1 .. (IF dpc[d] = "idle" THEN sent[d] ELSE sent[d] - 1)

\* No UPDATE is lost, handled twice or given to two workers: each one for which Dispatch
\* has returned is in exactly one worker's hands or was handled exactly once - also while
\* the pool is being stopped and two dispatchers hold the channel of one worker.
ExactlyOnce ==
    /\ \A d \in Dispatcher :
          /\ IsInjective(handled[d])
          /\ Range(handled[d]) = {n \in Returned(d) : ~InHand(d, n)}
    /\ \A v, w \in Worker : v # w /\ task[v] = task[w] => task[v] = NoTask

\* While no worker has consumed a stop signal, a worker that waits for its message is
\* claimed by exactly one dispatcher and a dispatcher that sends has a worker waiting for
\* it: no two Dispatch calls ever compete for one worker.
ClaimsExclusive ==
    (\A w \in Worker : stop[w] # "done") =>
        /\ \A d \in Dispatcher : dpc[d] = "sending" => wpc[claim[d]] = "wait"
        /\ \A w \in Worker : wpc[w] = "wait" => \E d \in Dispatcher : claim[d] = w
        /\ \A d, e \in Dispatcher : claim[d] = claim[e] /\ d # e => claim[d] = NoWorker

\* With a single worker the UPDATEs of a neighbour are handled in the order in which they
\* were received.
InOrder == \A d \in Dispatcher : handled[d] = [i \in 1 .. Len(handled[d]) |-> i]

\* Without Stop every Dispatch returns: a receive routine is never blocked for ever.
DispatchReturns == \A d \in Dispatcher : dpc[d] # "idle" ~> dpc[d] = "idle"

\* Without Stop every UPDATE that a neighbour dispatches is handled.
EveryUpdateHandled ==
    \A d \in Dispatcher : \A n \in 1 .. MaxUpdates :
        sent[d] = n ~> n \in Range(handled[d])

\* Worker.Stop stops its worker ("Stopping worker", lines 69 and 76): a worker that has
\* received its signal takes no further message.
StoppedWorkerStops == [][\A w \in Worker : stop[w] = "done" => wpc'[w] # "process"]_vars
=============================================================================
