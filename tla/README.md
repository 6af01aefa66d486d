# Verification models of fgbgp

fgbgp is a BGP library and collector in Go. This directory holds TLA+ models of its server side and of
its BGP and MRT codecs, the TLC configurations that check them on small instances and TLAPS proofs for instances of any size.
Line numbers are those of the source files; `PROJECT.json` ("map") gives them for every definition.

## The system

| Component | State | Operations | Status |
|---|---|---|---|
| Neighbour goroutines (`server/server.go`) | `CurState`, `OpenReceived`, `Connected`, `tcpconn`, `PeerEnableKeepAlive`, `LocalLastKeepAliveRecv`; channels `update` (5), `OutQueue` (1000), `qLife`, `qSender` | `NeighborLifeRoutine` + `EvolveState`, `SenderRoutine`, `NeighborReceiveRoutine`, `Connect`, `Disconnect`, `SendRoute`, `Refresh` | modelled and proved about |
| Session state | the order IDLE, ACTIVE, OPENSENT, OPENCONFIRM, ESTABLISHED | what the three goroutines promise together | abstract specification |
| Worker pool and update handler (`workerpool.go`, `update.go`) | unbuffered channels `inchan`, `inmsg`, `q` per worker | `CreatePool`, `Dispatch`, worker loop, `Stop`, `ProcessUpdate`, `Process`, `Close` | modelled and proved about |
| Manager and Server (`server.go`) | `Neighbors` under `neighborlock`, `HandlerEvent`, `HandlerUpdate` | `ProcessIncomingRequest`, `AddNeighbor`, `RemoveNeighbor`, `SetEventHandler`, `UseDefaultUpdateHandler` | partly modelled, proved about |
| OPEN negotiation (`server.go`, `bgp_open.go`) | `ASN`, `PeerASN`, `Peer2Bytes`, add-path and route-refresh fields | `CraftOpenMessage`, `UpdateFromOpen`, `CompareAddPath`, OPEN case of `EvolveState` | modelled |
| OPEN and header codec (`bgp_open.go`, `messages.go`) | position in the slice | `ParsePacketHeader`, `ParsePacket`, `ParseOpen`, `Write`, `Len` | modelled and proved about |
| UPDATE codec (`bgp_update.go`, NLRI of `messages.go`) | positions in nested slices | `ParseUpdate`, attributes, AS_PATH segments, NLRI, `Write`, `Len` | modelled and proved about |
| MRT encoder and decoder (`mrt/`) | `byteReader`: position and sticky error | `DecodeSingle` and its decoders, `Write`, `Len`, `ConvertToUpdate` | modelled and proved about |
| Seed extraction, fuzz entry points, `fgbgp.go` | none | test tooling, flags | not modelled: no logic of the system |
| RIB | none | `UpdateRib` is an empty method | not modelled: there is no code |

### How the parts interact

`Neighbor.Start` launches three goroutines that share the `Neighbor` without a lock. The receive
routine reads a header and then a body from `tcpconn`, each time from the `tcpconn` of that moment,
and offers the packet to the life routine on `update` without blocking; UPDATEs go to the update
handler instead, whose `ProcessUpdate` blocks until a worker of the pool takes them. The life
routine calls `EvolveState` for each packet and once a second: it decides on the next session
state, queues our messages on `OutQueue` (blocking), and runs the hold timer. The sender routine
writes `OutQueue` to `tcpconn`. Each of the three calls `Disconnect`; for a neighbour accepted by
`ProcessIncomingRequest` it ends in `Manager.RemoveNeighbor`, for a configured one the life routine
dials again. The application adds neighbours, installs handlers and calls `SendRoute` and
`Refresh`, which queue their messages on `OutQueue` too.

The receive routine decodes with package `messages`, a worker decodes the UPDATEs; package `mrt` reads
a record with a `byteReader` and hands slices of it to the same decoders.

### What is hard, and what correctness means

* **Disconnect runs up to three times at once**, each execution with another idea of the connection
  it ends, and the life routine writes the state after a decision that a `Disconnect` may have made
  obsolete. Correct: the state still only follows its order, nothing is removed while its socket is
  open, nobody is left listed without a routine that removes it, and a lost session is redialled.
* **Clocks survive connections.** The hold timer must neither spare a silent peer nor end a
  connection that is too young.
* **Bounded channels.** `update` drops packets, `OutQueue` blocks, the quit signals get lost. A peer that
  does not read blocks `Write`, and through `OutQueue` the life routine with its hold timer.
* **Rendezvous in two steps** (`Dispatch` takes an offer, then sends): no UPDATE may be lost,
  duplicated or given to two workers, also while the pool is stopped.
* **Copies of the neighbour list** made by concurrent removals, additions and handler installations.
* **Boundaries**: 16-bit and 32-bit AS numbers and add-path lists in the negotiation.
* **Nested lengths from the peer.** A message is lists in lists, each with its own length field and its
  own check, and some checks are one or two bytes off from what is read after them. Correct: no read is
  outside of its slice, every loop gets ahead, nothing in a message is skipped silently.
* **Three ideas of a length**: what `Len` computes, what `Write` writes and what the decoder expects. They
  must agree, at 255 and 256 bytes too, or a header announces another message than the one that follows.

All hazards are listed with their lines under "hazards" in `PROJECT.json`.

## The modules

* **`Neighbor`**: one `Neighbor`. The variables are the fields and channels named in its header;
  `pc` holds where each goroutine is, and a step is the code between two accesses to shared state
  that another goroutine can observe. `Incoming` selects between the two ways neighbours are made
  (`ProcessIncomingRequest`: passive, removed on disconnect, one connection; `NewNeighbor`: dials and
  reconnects). `EvolveState` is the sequence `EvolveOpen`/`EvolveKeepAlive`/`EvolveNotification`,
  `EvolveSwitch` (the `switch` on `CurState`, with its branches `Branch`), the sends and
  `UpdateState` of the branch, `EvolveHold`; `Disconnect(r)` is five steps executed by routine `r`.
  Time is abstracted to what the hold timer can tell apart: `lastRecv` says whether the last stamp is
  younger than the hold time, and if not, whether the connection itself is. A nil `tcpconn` in use
  is the end of the process (`panicked`). The TCP peer, the event handler and the dial are
  nondeterministic: reads return any message or an error, handlers may refuse, dials may fail, and a read
  or a write on an open connection may never return. `SendRoute` stands for every message of the
  application; `Refresh` and `RefreshAll` queue theirs in the same way, under a condition.
* **`NeighborHistory`** adds a history variable (what was queued, written and accepted since
  `tcpconn` was set up) for the handshake properties; it restricts no step.
* **`Session`**: the abstract specification. A state other than IDLE is entered by one decision taken
  in its predecessor, OPENCONFIRM only by one taken with the peer's OPEN at hand; disconnections come
  at any time, also between a decision and its write. `Neighbor` maps the decision in progress to
  `Pending`, a function of the life routine's `pc`.
* **`WorkerPool`**: workers, dispatchers (receive routines) and the stop goroutines; the two
  rendezvous of `Dispatch` are the joint steps `TakeOffer` and `Deliver`.
* **`Manager`**: the list as a bag; each neighbour goes through `ProcessIncomingRequest`
  (`CopyHandler` twice, `Start`, `AddNeighbor`) and after `Start` may disconnect; `RemoveNeighbor` is
  the copy and the store, with `neighborlock` held in between. One application goroutine installs
  event and update handlers.
* **`Negotiation`**: two `Neighbor`s exchange OPENs over several sessions; the active one keeps its
  `Neighbor`, the passive one gets a new one per connection, with any configuration.
* **`Decoder`**: what all decoders share. `b` is the slice being decoded and `i` the position in it;
  `pc` is the loop or call the decoder is in, `end`, `attrsEnd` and `attrEnd` are the ends of the nested
  slices. `Reading(top, limit, Step)` is an index or slice expression of Go: it panics when it reaches past
  the end of its slice. Bytes that only travel stay bytes, numbers that direct the decoding are
  integers.
* **`OpenCodec`**, **`UpdateCodec`**, **`Packet`** (extends both), **`Mrt`** (extends `Packet`): one module
  per source file. In each, the first half are the writers as operators (`Write...` is a sequence of bytes,
  `...Len` what the code computes for it) and the second half the decoders as actions, one per round of a
  loop, per attribute and per checked step, with the checks in the order of the code. `Mrt` adds the
  `byteReader` (`content`, `pos`, and `eof`, its sticky error). An action of `Mrt` is the run of reads
  between two loop rounds: nothing else touches the reader meanwhile.
* **`Codec`**: a program that decodes an input and may write what it got and decode that again (`Rewrite`),
  as the round-trip fuzz test does, or convert a RIB record to UPDATEs and decode those (`Convert`). The
  input comes from the receive routine with what the session has negotiated (`"socket"`), from a user who
  has the message in a slice (`"packet"`), or is an MRT file (`"mrt"`).
* **`MCWorkerPool`**, **`MCNegotiation`**, **`MCCodec`** define symmetry and values for TLC.
* **`Neighbor_proofs`** (also for `NeighborHistory`), **`WorkerPool_proofs`**, **`Manager_proofs`**,
  **`Negotiation_proofs`** hold the theorems of the component they are named after. The codecs have four:
  **`Writing_proofs`** (what the writers return), **`Content_proofs`** (where the decoders are and what they
  return), which extends it and holds the theorems about one decoding, **`RoundTrip_proofs`** (a message that
  is written is decoded again as it was), which extends that one, and **`Records_proofs`** (so is a record).

Operators whose comment begins with "Mutant" are plausible bugs of the definition that follows them;
they are used by no specification and show that the properties notice the bug.

## The runs

| Run | Question | Bounds, and why they are enough |
|---|---|---|
| `incoming` | An incoming neighbour from accept to removal: `TypeOK`, `RemovedIsClosed`, `NoForgottenNeighbor`, `HoldTimerIsPatient`, `ImplementsSession`, `NoPanic` | One connection, which is all such a neighbour ever has. Both channels have capacity 1, so that full channels, drops and blocking happen at once; every kind of message; one message of the application, at any time; the peer may fall silent. |
| `incoming_live` | An incoming neighbour with its history: `OpenOnceAndFirst`, `HandshakeComplete`, `SilentPeerRemoved`, `RecvRoutineStops` | The peer may fall silent, and stop reading, at any time; only OPEN and KEEPALIVE, which keep a session going. `OutQueue` holds one message, so our own OPEN and KEEPALIVEs fill it, as messages of the application would: they take the same place in it and come from outside. For all messages, and for those of the application, `OpenGoesFirst` and `HandshakeBehindState` prove the first two. |
| `active` | `ImplementsSession`, `Redials`, `EvolveReturns` | Dials may fail; one connection identity, used again for each dial once no routine reads or writes the previous, over any number of dials. That a routine may still be on an old connection while a new one is up does not disturb `ImplementsSession` either: `SessionImplemented` proves it for any set of connections. `OutQueue` as in `incoming_live`. |
| `pool` | `TypeOK`, `ExactlyOnce`, `ClaimsExclusive`, while the pool is stopped | Three workers, three neighbours, three UPDATEs each, with symmetry: more dispatchers than one worker can serve, and workers that get a second offer taken before the first message came. |
| `pool_live` | `InOrder`, `DispatchReturns`, `EveryUpdateHandled` | One worker (with two the order is not kept), three neighbours competing for it. |
| `manager` | `TypeOK`, `NobodyLost`, `RemovedIsUnlisted`, `HandlerReachesListed` | Two incoming neighbours and one that the application adds: two removals and an addition overlap. Two handlers of each kind, so that one replaces another. |
| `negotiation` | `TypeOK`, `PeerASNExact`, `AddPathAgreement`, `AddPathWithinOffers` | AS numbers 65535 and 65536, the two sides of the 16-bit boundary. Every pair of lists that name a family at most once, with every direction: in the order of `NewNeighbor` or the other, shorter and longer, with a match at another position and with one beyond the end of the peer's list. Two sessions, so that fields of the first meet the second. |
| `decode` | `TypeOK`, `NoPanic`, `LenExact`, `RewrittenIsAccepted`, `RoundTrip`, `MrtRoundTrip`, `ConvertedAnnounces`, `NothingSkipped`, `LoopsAdvance`, `Decodes` | Messages and records of every kind as the writers write them: each whole, cut after every byte, and with every byte replaced by 0, 2, 255 or its successor (0, 1 or its successor in MRT records), so that every length field is too short, too long and one off, every type and flag changes, and every check is met from both sides; messages at the limits of their fields (attributes of 255 and 256 bytes, paths of 62 to 510 AS numbers, 4095 and 4096 bytes) and some that grow when they are rewritten. Each under three sessions: plain, with path identifiers, with these and 2-byte AS numbers. |
| `early_hold` | violated: `HoldTimerIsPatient` | see below |
| `hung_write` | violated: `HoldTimerFires` | see below |
| `manager_gone` | violated: `GoneForGood` | see below |
| `pool_stop` | violated: `StoppedWorkerStops` | see below |

The runs of `Neighbor` with liveness are as wide as they can be and still end in minutes. Wider ones were
explored and hold too: `SilentPeerRemoved` and `RecvRoutineStops` with a message of the application,
the three of `active` with one (1.3 million states), and `Redials` with two connections for a peer that sends OPENs only
(0.9 million). The last is where `Redials` needs its exception: `Connect` replaces a connection on which the
sender still writes.

Deadlock is checked in `manager` and switched off elsewhere: a removed neighbour, a pool with nothing
to do, a dead process, a finished exchange and a decoder that has returned really stop.

### What the violated runs show

* `early_hold` (`server.go:401`): no connection set-up stamps `LocalLastKeepAliveRecv`, so in the
  call in which a configured neighbour enters OPENSENT the hold timer compares the zero time, or the
  stamp of the last session, with the clock and disconnects a connection that is younger than the
  hold time. The branch is meant for "no keep-alive received" (line 403).
* `hung_write` (`server.go:387`): the life routine sends on `OutQueue` before it looks at the hold timer,
  and `Write` has no deadline. A peer that stops sending and reading while `OutQueue` is full holds both
  routines for ever, and the timer for "no keep-alive received" (line 403) never fires. The run has room
  in `OutQueue` for the OPEN and the KEEPALIVE and uses two messages of the application; in the code about a
  thousand, and a full socket buffer, are needed.
* `manager_gone` (`server.go:563`): `Start` comes before `AddNeighbor`. A neighbour that disconnects
  in between removes nothing and is then listed for good.
* `pool_stop` (`workerpool.go:70`): `break` leaves the `select`, not the loop; the worker that
  "stops" (69, 76) offers its channel again. Two dispatchers then compete for one worker; `ExactlyOnce`
  holds even so, because the message channel is unbuffered.

## Fairness

Safety runs use none. `Neighbor!Fairness` is weak fairness of each goroutine's local steps: the Go
scheduler runs a goroutine that can run, a blocking send on `OutQueue` proceeds when there is room
(the application's messages are bounded, so weak fairness is enough), and a dial ends. Neither a read from the
peer nor a write to it is fair, for neither has a deadline: both may wait for ever on an open connection, and
closing the connection ends them (`RecvLocal`, `SenderLocal`). So liveness has one honest exception, a
`Write` that hangs: `WriteHangs` says exactly when it matters (the sender is in `Write` on an open
connection, `OutQueue` is full and the life routine waits for it). `SilentPeerRemoved` and `EvolveReturns` hold
unless that is so for ever, `Redials` unless it is so on a connection that is no longer `tcpconn`; in
every other behaviour the routines may not get into each other's way. `hung_write` shows that the
exception is real, `RecvRoutineStops` does not need it. The last conjunct says that time goes on:
while nothing can arrive (no connection, or a silent peer) the hold time elapses. `WorkerPool!Fairness`
is weak fairness of the rendezvous and of `Process`. The number of UPDATEs is bounded, so a dispatcher
that waits is in the end the only one and weak fairness is enough; with an endless stream of UPDATEs the
code relies on the FIFO wait queue of Go channels, which the model does not use.
`Manager!Fairness` has strong fairness of a neighbour's steps because they wait for a lock that others
take in turn (Go's mutex hands over to a starving waiter); only `manager_gone` uses it.
`Codec!Spec` has weak fairness of `Decode`: a decoder is sequential code that runs when it is called.

## What is proved

All theorems hold for any values of the constants that satisfy the assumptions in the modules:
any set of connections, workers, dispatchers or neighbours, any positive channel capacities, any set of
messages of the peer, with and without an event handler.

* **`Neighbor_proofs`.** `TypeCorrect` includes that no channel exceeds its capacity.
  `RemovedOnlyClosed`, `NobodyForgotten` and `IncomingNeverPanics` follow from `KindInv`. For an
  incoming neighbour that is `IncomingInv`: its one connection is never nil and never replaced
  (`OneConnection`); a routine that has passed the first step of `Disconnect` finds `Connected` cleared,
  one that has passed `Close` finds the socket closed (`ClosedOnTheWay`); and once `Connected` is
  cleared the neighbour is removed or somebody is still on the way (`SomebodyRemoves`). The properties
  are not inductive alone: that a routine arriving at the removal leaves a closed socket depends on where
  the other two are. For a configured neighbour it is `ConfiguredInv`: no routine reaches the removal.
  `SessionImplemented` is the refinement of `Session`: each step of a goroutine is one step of `Session`
  or a stutter (`LifeSession`, `DisconnectSession`, `OthersSession`); it needs only the types.
  `HoldIsPatient` (`HoldTimerIsPatient`, for an incoming neighbour) follows from `StaleInv`: while the one
  connection has sent nothing that stamps the clock, no OPEN is in `update` or on its way there and the state
  has not left ACTIVE, where line 401 does not look at the clock.
  `OpenGoesFirst` (`OpenOnceAndFirst`) and `HandshakeBehindState` (`HandshakeComplete`) are about
  `NeighborHistory`, for an incoming neighbour. Both follow from `HistInv`, which ties the history to
  `CurState` and to where the life routine is: the OPEN has been queued exactly when the routine has left
  `sendOpen`, although `CurState` may still say ACTIVE then or already IDLE again (`OpenCounted`); what has
  been decided or entered was said by the peer, also after a Disconnect has cleared `OpenReceived`
  (`PeerHeard`); and until a message of the handshake is written, every KEEPALIVE in `OutQueue` has the OPEN
  before it (`OpenAhead`). A step of another routine decides nothing (`Still`) or passes no message
  (`NoTraffic`). That a neighbour never dials (`OneConnection`) and `TypeOK` come from `Neighbor`
  through `HistoryRefines`.
* **`WorkerPool_proofs`.** `NoCompetition` (`ClaimsExclusive`) and `HandledExactlyOnce` (`ExactlyOnce`).
  The second is inductive together with `HandsOver` (what the program counters say about `claim` and
  `task`) and `InHandReturned`: a worker holds only UPDATEs whose `Dispatch` has returned, so a number
  that is delivered is new, and appending it keeps `handled` injective (`AppendNew`). `OneWorkerInOrder`
  (`InOrder`, for a pool of one worker) follows from `Consecutive`: what the worker has in hand is both the
  last UPDATE dispatched and the one after those handled, so nothing can overtake it.
* **`Negotiation_proofs`.** `ASNSurvives` (`PeerASNExact`), for any AS numbers and lists, from `ExchangeInv`: the
  OPEN in flight carries the number its sender keeps (also when ReplicateASN has just changed it), and who has
  evolved it knows its sender. `AgreeWhenAligned` (`AddPathAgreement`) is
  about the sessions in which the two lists name their common families at the same positions, as two lists of
  `NewNeighbor` do, whatever lists other sessions have. Then position i of the peer's list, where
  `CompareAddPath` looks, is the entry it has matched (`CompareAligned`); otherwise it is false. What is left for any lists is
  `StaysWithinOffers` (`AddPathWithinOffers`): the entry read by mistake is only looked at when a match was found
  and together with the local entry, so the result names common families in directions that were offered
  (`CompareWithin`); `WithinInv` adds that the passive side starts each session without add-path.
* **`Manager_proofs`.** `NobodyIsLost`, `RemovedStaysUnlisted` from `ListInv`: the lock is held
  exactly between copy and store (`LockHeld`), the copy is still the current list without its neighbour
  (`CopyCurrent`), and only `AddNeighbor` lists, once (`AddedOnce`). `HandlerReaches` is an action
  property and needs types only.
* **The codecs.** For any set of inputs, each any sequence of bytes under any session, decoded, and written
  or converted and decoded again, as often as `Spec` does it. The invariant `Inv` is `IInv` and `Typed`.

  `Content_proofs` begins with `IInv`, which says for every place of the decoder which slice is inside of which. No
  property is inductive without it, because a check made in one place justifies reads made several calls
  later. `NLRIInside`: a list of prefixes ends inside of `b`, and the withdrawn routes leave two bytes for
  the length after them (line 778 of `bgp_update.go` checks them, line 789 reads them). `AttributesInside`: an
  attribute is inside of the attributes, these are inside of `b`, and the prefixes of an attribute end where
  it does. `AtStart`: each decoder starts at position 0.

  `Writing_proofs` has no theorem of a specification, but lemmas about the writers, for every value of
  the types of messages, attributes and records (`Messages`, `Attributes`, `Ribs` and so on, the types the
  decoders return): what is written is bytes, and as many as `Len` says. The writers are folds over lists; what a
  fold computes is proved by induction over the length of its list (`Induction`, from the well-foundedness of
  `<` over the numbers), as sums (`Total`) and concatenations (`FlattenSeq`) that are taken apart at the end.

  `Content_proofs` goes on with `Typed`: what is decoded so far has these types, at every place (the attribute in work,
  the prefixes read, the record whose last entry waits for its attributes). `Typed` carries the result of a
  decoder to the lemmas about the writers, and so to the second round:
  * `TypeCorrect` (`TypeOK`), `NeverPanics` (`NoPanic`) and `RoundsAdvance` (`LoopsAdvance`, from which `Decodes`
    follows informally: a position that grows and is bounded stops). What is written is bytes, so `IInv`
    holds for it as for any other input.
  * `LengthsExact` (`LenExact`): the header that `Len` computes announces the bytes that `Write` writes. Its
    conditions are those of the property: the lengths fit their fields, an AGGREGATOR has its Identifier, no
    peer address is written as one of IPv4; a RIB_GENERIC record is one byte longer than it says.
  * `SkipsNothing` (`NothingSkipped`) from `Accounted`, which follows the bytes of an UPDATE through its
    decoding: the prefixes read so far are as long as what has been passed of their list (`WithdrawnRead`,
    `PrefixesRead`), there is one attribute for each header passed (`AttributesRead`, with `Count`, the function of
    `AttributeCount` unfolded one header at a time), a finished list ends where its length says unless an error
    was noted (`ListsEnd`), and what was complete stays so while the rest is decoded (`WithdrawnKept`,
    `AttributesKept`, `AllRead`). TLC finds `Accounted` invariant for the inputs of `decode`.

  `RoundTrip_proofs` relates the second decoding to the message that was written (`Target`), in two steps.
  * *What the decoders return is canonical* (`Clean`): it holds nothing that `Write` would not write. A prefix has
    exactly the bytes of its length, masked (`ParseNLRI` copies `(length+7)/8` bytes, `Write` masks again), and a path
    identifier only where the family has one; an attribute has the flags and the bytes that its `Write`
    chooses itself; a capability is of the type that its code selects; an OPEN's parameters are all
    capabilities. `Canonical` says so of the message in work, `FirstCanonical` of the one that was written. Without
    it the round trip is false: most records of the types of `Writing_proofs` come back changed.
  * *A canonical message is followed through the bytes* (`Replayed`). `MessageReplay(m)` says of each place of the
    decoders how much of `m` has been read and that the rest of the slice is what the writers return for the
    rest of `m`: `OpenReplay` (parameter by parameter, capability by capability, including the parameter that is only
    half read), `UpdateReplay` (withdrawn prefixes, attributes, the prefixes of an attribute that the prefix
    decoder is called for, and the announced prefixes), `NotificationReplay` and `KeepAliveReplay`. The offsets are
    sums of lengths (`Upto`, `ParamUpto`), and `SliceIs`, `FlattenSeq` and `Induction` turn "the bytes at the sum of the
    first n lengths" into "what is written of element n + 1". That no error branch can be taken follows
    from `Fits`: the length fields hold the lengths they announce.

  From these, for any set of inputs and any session:
  * `RewritingAccepted` (`RewrittenIsAccepted`): what is written of a message is accepted again.
  * `RoundTrips` (`RoundTrip`): and it is the same message, when its attributes are `Faithful` (the property names
    what the codec loses).
  * `Converts` (`ConvertedAnnounces`): the UPDATE made of an IPv4 entry of a RIB announces its prefix with its attributes.

  `Records_proofs` does the same for the records of an MRT file (`RecordReplayed`): `RecordReplay(r)` says of each
  place of the byteReader how much of `r` has been read, and that the rest of the record is what the writers
  return for the rest of `r`.
  * `StateChangeReplay`, `MessageRecordReplay`: the fields of a BGP4MP header are at their offsets (`AfterPeers`,
    for addresses of both families); the message inside is then followed by `MessageReplay`, with no session.
  * `PeerIndexReplay`: the peers read so far are the first n of `r.peers`, and the reader is where the other peers
    begin. `RibReplay`: the prefix by `PrefixesReplay`, the entries read so far, and the attributes of the entry in
    work by `AttributesReplay`, the predicates of `RoundTrip_proofs`; after each of them the record goes on.
  * `RecordBegins`: the type, the subtype and the length of the common header are those of the record, and the
    length, below 2^24, is read back from its four bytes.

  From these, for any set of inputs: `RecordsRoundTrip` (`MrtRoundTrip`): what is written of a record is accepted
  again and is the same record. The property names what is left out: lengths that do not fit (`RecordFits`), and what
  the code loses (`FaithfulRecord`: an IPv6 address that is written as one of IPv4, the AS number of a peer above
  65535, a RIB_GENERIC record, attributes that are not `Faithful`).

**Only model-checked:** liveness (`Redials`, `EvolveReturns`, `SilentPeerRemoved`, `RecvRoutineStops`,
`DispatchReturns`, `EveryUpdateHandled`, `Decodes`): fairness and ENABLED are outside the prover's reach.
The induction theorems of the library take an operator and cannot be used; the lemma `Induction` takes a set
instead.

## What does not hold, or is not promised

Stated in the modules or known from exploring them, and used by no run because no line of the
repository promises them:

* `NoPanic` for a configured neighbour whose dials fail: `DialTCP` stores nil in `tcpconn` while
  `Connected` or a queued message lets another routine use it. `Redials` and `EvolveReturns` therefore
  admit that the process has died.
* `Redials` without a hold time, and `SilentPeerRemoved` for a peer that never sent an OPEN: no timer
  runs in these cases.
* `OpenOnceAndFirst` for a configured neighbour: `OutQueue` keeps messages of the previous session.
* `ActiveAddPathAgreement`: fields are kept from the previous session.
* `AddPathAgreement` for lists that are not aligned: `CompareAddPath` (`server.go:265`) reads `remote[i]` where
  it means `remote[j]`, and takes the directions of another family. When the peer's list is shorter than i it
  reads past its end and the process ends (`NoPanic` of `Negotiation`): a peer that announces
  add-path for IPv6 only does that to a neighbour with the lists of `NewNeighbor`. The run `negotiation` includes
  these lists.
* `ReplicatesASN`: line 316 copies `PeerASN` before the OPEN has set it (319), so the answer to the first OPEN
  carries AS number 0 and not "the same ASN as received" (line 112).
* `RoutinesStop`: the quit signals (209, 213) are sent with a `default` branch, so a routine that is busy, or that is
  itself in `Disconnect`, misses its signal and goes on after the neighbour has been removed.
* That every connection is closed in the end: a `Disconnect` that writes IDLE late lets the life routine dial
  over a connection that is still open, and nothing closes that one any more (with two or more in `Conn`).

In the codecs, the conditions of the properties of `Codec` (`Fits`, `Sound`, `Faithful`, `Short`, `Mapped`)
name what is not kept:

* A message that was accepted may be longer when it is written: an AS_PATH segment gets as many AS numbers
  as it announces, and an OPEN parameter that is not understood is parsed again from its value. The length
  then does not fit its field or 4096 bytes, and the test `FuzzParseRoundTrip` fails on such an input.
* The same for MRT records (`RecordFits`): 65 AS_PATHs of five bytes that announce 254 AS numbers each make an
  entry whose attributes do not fit the 16 bits of their length when they are written, and a truncated
  PEER_INDEX gets peers that were not there, up to more than the 1 MB the decoder accepts.
* A segment of 255 or 510 AS numbers is written with a last set of length 0, and its numbers are then read
  as segments.
* An AGGREGATOR whose size does not fit the session, an MP_UNREACH with path identifiers, an IPv4-mapped
  next hop and the extended-length flag of a short unknown attribute are not written as they were read.
* A RIB_GENERIC record is written with AFI and SAFI before the sequence number and read with them after
  it, and its `Len` is one short. A peer with a 4-byte AS number is written with another flag than the
  decoder looks at. An IPv4-mapped peer address is written, and read back, as an IPv4 one.
* An IPv6 RIB entry is converted to an UPDATE that does not announce its prefix.
* A NOTIFICATION without a body is decoded from its header, as error 255/255. A truncated MRT record is
  decoded with zeros for what is missing. Of a RIB record only the error of the last entry is returned, and
  errors in the prefixes of MP_REACH and MP_UNREACH are dropped. Path identifiers of RIB entries are lost. A
  TABLE_DUMP host route gets a mask that is one bit short; `Len` and `Write` of these records end the program.

## What the models leave out

* Data races on single words are interleavings of atomic reads and writes; torn reads of the interface
  and time fields are not modelled.
* `Neighbor` and `WorkerPool` take a parse as any result; what it is, is the subject of `Codec`.
* In the codecs: the texts (`String`), code that is commented out, and the constructors of MRT records
  (`NewMrt...`, `AddEntry`), whose results are the records of `MCCodec`. Times stay bytes.
* `Manager.Start` over preconfigured neighbours, `NewServer`, `ServerRoutine`, `Manager.Stop` (its
  signal changes nothing), `SetUpdateEventHandler`.
* The keep-alive interval: `(PeerHoldTime/time.Second)/3` is a few nanoseconds in the code, so a
  KEEPALIVE is due on every tick and may be due on any packet.
* The RIB (an empty method), `fgbgp.go`, seed extraction and the fuzz entry points.

## Plan

Done: `Session`, `Neighbor`, `NeighborHistory`, `WorkerPool`, `Manager`, `Negotiation`, the codecs and the
proofs above. What could follow, most important first:

1. **`UpdatePath`**: composition of `Negotiation` with `WorkerPool`: the decode parameters are read when a
   worker gets to the UPDATE, not when it was received.
2. Two `Neighbor`s of this code connected to each other, for the handshake as a whole.
