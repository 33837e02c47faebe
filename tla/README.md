# A TLA+ model of FADIA

FADIA is an OMNeT++ simulation of a collaborative attestation protocol for
networks of small devices.  *Provers* check their own firmware once per period
(`deltah`), organise themselves in short-lived spanning trees, aggregate the
proofs of a tree on the way up, and the root hands the result to a
*collector*.  The program's own code is under `src/Fadia/src/devices`
(3282 lines); `src/inet` is the vendored INET framework.

The repository has no tests and no design document.  The reference for every
definition here is the code, in the two builds its Makefile has, both with
`SCENARIO FADIA`: the energy build (`WIRELESS`, `ENERGY_TEST`), where moving
provers open trees for ever, and the runtime build (`RUNTIME_TEST`), where one
tree is opened over fixed links and timed.

- [Inventory](#inventory)
- [Modules](#modules)
- [Runs](#runs)
- [Proofs](#proofs)
- [Findings](#findings)
- [Not modelled](#not-modelled)
- [Plan](#plan)

## Inventory

### Components

| Component | Source | State | Operations |
|---|---|---|---|
| Prover: spanning tree | `AProver.cpp` 262-640, 642-790 | `status`, `psessions` (parent), `csessions` (children), self-messages `attesttimer`, `checkdelaymsg`, `mktreetimer`, `cacktomsg`, `cresptomsg`, one `tomsg` per child | `startAttestation`, `checkSoftConfig`, `sendCommitReq`, `handleCommitReq/Resp/Ack`, the three `handle...TimeOut` |
| Prover: reporting | `AProver.cpp` 790-1223 | `aggreport` (uids, counters, proofs, separators), `attestcount` | `sendUpReq`, `handleUpReq`, `addOwnReport`, `fixProofs` |
| Prover: adaptation | `AProver.cpp`, `constants.h` | `maxchildren`, `selfish`, `deltag` | `updateMaxChildren`, `chooseTreeDelay` |
| Collector | `ACollector.cpp` | total of attested devices, `procstat` | `handleUpReq`, join and revoke handlers |
| Link layer | `ADevice.cpp`, `ADevice_template.h` | `txrxstat`, `chanstat`, `msgqueue`, `pupmsg`, `txmsg`, `cbusymsg` | `sendProver`, `sendCollector`, `broadcast`, `handleQueue`, `handlePostponeUpMsg` |
| Energy | `ADevice.cpp` 280-300, `constants.h` | battery of INET, `crashed` counter | consumption per operation, crash, end of simulation after `MAX_CRASH` crashes |
| Message dispatch | `ADevice.cpp` `handleMessage` | - | one case per message kind; crashed devices ignore everything |
| Join | `AProver.cpp`, `ACollector.cpp` | `jointomsg`, join sessions | `sendJoinReq`, `handleJoinReq/Resp`, timeout |
| Revoke | `AProver.cpp`, `ACollector.cpp` | revocation list | `sendRevoke`, `handleRevoke` |
| Network owner | `NetworkOwner.cpp` | key pool, key rings | `initialize` |

### How they interact

A prover calls the link layer to send; the link layer delivers a frame to the
destination's `handleMessage` after computation, carrier sensing and
transmission delays, so a frame may be overtaken by a later one that found the
channel idle.  Everything else is a self-message.  The simulator handles one
event at a time, so a handler is atomic; what interleaves is handlers of
different devices, and messages against self-messages of one device.  The
devices share no state, with two exceptions: a sender reads whether the
destination is in range, and it reads and sets the collector's busy flag.

A period of a prover:

```
startAttestation -> CHECKING -> READY --CommitReq--> ATTESTING --CommitAck--> (leaf) FINISHED
                                  |                     |                \
                                  | mktreetimer         | mktreetimer     v
                                  |                ATTESTING_CREATING   CREATING -> COLLECTING -> FINISHED
                                  +--> CREATING (own tree) <--ack timeout--+
```

### What is hard

- Timeouts race with the messages they wait for at three levels: an ack, the
  responses, and the report of each child.
- `startAttestation` deletes the sessions of the last period and cancels none
  of its timeouts.
- The timer that opens a tree can expire in the middle of a handshake.
- Self-messages are single objects; scheduling a pending one stops the
  simulation, and `psessions.second` is a raw pointer.
- The time budget of a period is split by arithmetic on the timeouts
  (`deltag`), with `depth`, an `unsigned int`, decremented per level.
- Devices crash and move out of range at any moment.
- The link layer has one queue, one postponed report and one shared
  invitation object, and sets another device's busy flag.

`PROJECT.json` lists each hazard at its line, with the properties that cover
it.

### What makes each component correct

- **Spanning tree**: the two ends of a session agree on tree and level; an ack
  is taken only for the response it answers; no null session is dereferenced;
  no pending self-message is scheduled again; a parent outwaits its children.
- **Reporting**: a prover reports once per period, in time, always unless it
  crashes; a record is counted once whichever way it takes; no report of a
  tree member is dropped.
- **Collector**: its total is the number of devices that attested.
- **Link layer**: a queued frame is eventually sent; a postponed report is
  not lost; one sender at a time holds the collector.
- **Aggregated report**: the parallel vectors of uids, counters and proofs
  stay aligned under merging, with one proof per group.
- **Wired build**: the one tree spans the network, so that the time measured
  is that of attesting every prover; nobody waits for ever; transmissions do
  not disturb each other.

## Modules

| Module | What it is |
|---|---|
| `SpanningTree` | The commit and update protocol of all provers, the collector's total, crashes and time; properties and the inductive invariant |
| `MCSpanningTree` | Key rings and firmware times for the TLC instances |
| `SpanningTreeProofs` | TLAPS proofs about `SpanningTree` |
| `TimingProofs` | TLAPS proofs about the levels of a tree and the time it takes; extends `SpanningTreeProofs` |
| `Link` | The radio of the provers below it: channel, queue, postponed report, and the collector's busy flag |
| `MCLink` | Traffic and movement for the TLC instances |
| `LinkProofs` | TLAPS proofs about `Link`: first the radio and the collector, then where each frame is |
| `Attestation` | Abstract specification: what becomes of a record |
| `TreeAttestation` | The refinement mapping from `SpanningTree` to `Attestation`; extended by `MCSpanningTree` |
| `TreeAttestationProofs` | TLAPS proofs of the refinement and of `NoDoubleCount` |
| `Report`, `MCReport` | The layout of an aggregated report: groups, separators, proofs, and merging |
| `ReportProofs` | TLAPS proofs about the shape of a report |
| `RecordProofs` | TLAPS proofs about its contents; extends `ReportProofs` |
| `Wired`, `MCWired` | The protocol in the wired build, one tree over fixed links |
| `WiredProofs` | TLAPS proofs about `Wired` |
| `Carrier`, `MCCarrier` | Carrier sensing and queueing in the wired build |
| `CarrierProofs` | TLAPS proofs about `Carrier` |

`SpanningTree` takes a report for a set of records, which `Report` justifies
(`RecordsKept`), and frames for delayed at most, which `Link` is about.  What
`Link` does lose, a postponed report, `SpanningTree` may lose too
(`overwrite`).  `Wired` relies in the same way on `Carrier` (`EventuallySent`).

### State of `SpanningTree`

| Variable | Code |
|---|---|
| `status`, `maxchildren`, `attestcount` | the members of `AProver` of that name |
| `pfirst`, `psecond` | `psessions.first`, `psessions.second` (`Null` for the null pointer) |
| `csess` | `csessions`; the entry `NOID` is the one `sendCommitReq` adds for the tree itself, so `csessions.size() == 1` means "no child left" |
| `csess[p][d].tomsg` | the update timeout of that child's session |
| `aggreport` | the records in `aggreport`, as a set of (device, counter) pairs |
| `attest` | `startmsg`, then `attesttimer` |
| `check`, `mktree`, `cackto`, `crespto` | `checkdelaymsg`, `mktreetimer`, `cacktomsg`, `cresptomsg` |
| `orphan` | update timeouts still scheduled whose session was deleted |
| `net` | frames on their way |
| `sum` | the collector's total |
| `crashed`, `period` | devices out of energy; periods started |
| `reported`, `received`, `dropped` | history variables, read by properties only |

Each action is one event the simulator delivers, with all the calls its handler
makes: `startAttestation`, `checkSoftConfig`, `mkTree` (the `MKTREE`
self-message), the three timeouts, `receive` (the four message handlers, and a
frame that meets a crashed device), `collect` (`ACollector::handleUpReq`),
`overwrite` (a postponed report that `sendCollector` forgets) and `crash`.  `sendUpReq`, `sendCommitReq` and their parts are operators used by
several handlers, as in the code.  `Tick` lets time pass and `Over` is the end
of the simulation.

### Abstractions

- **Time** is discrete.  A scheduled self-message is a countdown, `Off` (-1)
  otherwise.  `Tick` is blocked while something is due, so a timeout fires
  exactly when it expires, and events that are due together are taken in any
  order.  The one exception is `checkdelaymsg`, always scheduled before a
  simultaneous `mktreetimer` and therefore handled first.
- **Frames** take any whole time in `0..MaxDelay` and overtake each other.
  An invitation reaches any subset of the other provers: who is in range is
  read at that moment, and the devices move.  A report goes to the parent or,
  when the parent is out of range, to the collector; both are possible each
  time.  The one loss that `Link` exhibits is included: a report for the
  collector may vanish while another one is on its way there (`overwrite`).
- **Tree ids** are drawn at random from 2^32 values.  The runs use one value,
  so that two trees always collide, or two (`tree_adaptive`, `wired_networks`);
  any set is allowed in the proofs.
- **MACs and proofs** are left out; a `keyID` is kept because handlers test
  whether it is in the key ring.
- **Battery**: the level that adaptation reads is any member of `Battery`, the
  crash of a `Fallible` prover happens at any moment.  A crashed prover ignores
  its self-messages, so `crash` removes them.  The frames it has in `net` still
  arrive: for one that the radio still held (its MAC being computed, queued or
  postponed) the code would have dropped it, which is the behaviour of a crash
  before that frame was sent.
- **Bounds**: `MaxDelay` (delay of a frame) and `MaxPeriod` (periods per
  prover).  The proofs hold for every value of them.

### `Link`

| Variable | Code |
|---|---|
| `radio[d]` | `txrxstat`, `chanstat`, `msgqueue`, `pupmsg` of `ADevice`; `tx`, `entx`, `cbusy`, `collbusy` say whether `txmsg`, `entxmsg`, `cbusymsg`, `collbusymsg` are scheduled |
| `procstat`, `procend` | the collector's `procstat`; whether its `procendmsg` is scheduled |
| `air`, `crashed` | frames on their way; devices out of energy |
| `todo` | frames (`Load`) whose MAC is being computed and that will be handed to the radio |
| `done`, `lost` | history variables |

The handlers are actions: `handleTxDoneMsg`, `handlePostponeDoneMsg`,
`handlePostponeUpMsg`, `handleDoneEnMsg`, `handleProcDoneMsg`, `crash`, the
arrival of a frame at a prover (`arrive`, where a report may be passed on to
the collector, as a `FINISHED` prover does) and at the collector (`collect`).
`handOver` is the arrival of a frame's own self-message.  All of them send
through `handleMessage`, with `sendProver`, `sendProverBroadcast` and
`sendCollector` as in the code, applied to a radio that the handler has
updated before the call.

- **Time** is left out: scheduled self-messages arrive in any order.  The one
  order kept is that of the energy event and the end of a transmission
  (`bl / byterate` before `ndelay + bl / byterate`), on which scheduling
  `entxmsg` again depends.
- **Movement**: each handler finds one of the sets of provers in range that
  `Vicinity` allows, so a neighbour that was sensed may be gone at the next
  try.
- **Draining** handles the front of the queue and then pops it; since handling
  only appends, `drain` pops first.
- **Traffic** is a constant set of frames; the proofs hold for any.

### `Attestation` and the refinement

`Attestation` has four variables: `made` (records made by each prover),
`pending`, `received`, `sum`.  A step makes a prover's next record
(`Attest`), delivers a set of pending records to the collector, which adds their
number to its total (`Deliver`), or loses one (`Lose`).  The mapping of
`TreeAttestation` takes `made` to be `attestcount` and `pending` the records in
reports on their way and in `aggreport` of the provers that have not reported
yet (`Held`); a prover that has reported keeps a copy of what it sent.

### `Report`

| Variable | Code |
|---|---|
| `aggreport` | `report_t`: `uids` and `counters` with an entry `NOID`/0 that closes a group, `proofs`, `size`, `sepsize` |
| `attestcount`, `sum` | as in `SpanningTree` |
| `net` | reports sent: the copied lists |
| `period`, `reported` | bookkeeping of `SpanningTree`'s status: a prover adds its record once per period |
| `recs` | history variable: the records as a set |

`handleUpReq` is `merge`, in its three parts: `setAside` (the unfinished group
and the last proof), `appendReport`, `putBack`.  A proof is the set of the
records whose MACs are in it, so that `^=` is symmetric difference: the code's
`generateMAC` is a stub returning 0, which would hide every misplaced proof.
Any prover that has not reported may merge any report sent, so that every
tree shape and order occurs; who may send to whom is `SpanningTree`'s matter.

### `Wired`

The variables are those of `SpanningTree`, with `csess` a set of devices (there
are no update timeouts) and `collected` what the collector received before it ended
the simulation.  `mktree` is the root's `startmsg`, scheduled again by
`checkSoftConfig`.  Invitations go to every neighbour in `links`; frames take
any time up to `MaxDelay`.  Periods follow one another for ever, `deltah` being the
`htime` of the network's configuration; `period` only tells the first from the
later ones.  When a period cuts a tree off, `cacktomsg` may still be pending, as a
firmware check (1.96 s or 8 ms, `constants.h:137`) is shorter than `TIMEOUT_ACK` (4 s,
line 131): the next invitation schedules it twice, and the simulator stops with an
error (`scheduleTwice`, `collected = Aborted`).  The network is a variable, `links`, chosen from `Networks`
at the start; `MCWired` builds those of `Fadia-chain.ned`, `Fadia-ring.ned`,
`Fadia-tree.ned` and `Fadia-tree-fair.ned`.  A frame without a known gate leaves by gate 0 (`Gate0`): the
collector's at the root, that of the neighbour with the lowest index elsewhere.
Key rings are left out: any two rings of 300 out of 301 keys intersect.

### `Carrier`

`txrxstat`, `chanstat` and `msgqueue` are the members of `ADevice`; frames are
alike, so a queue is a length.  `isChannelBusy` is the recursion of the code
over gates, without the gate a question came by, `drange` links far.  It is
written as a recursive function of one record (`Question`), a form that both TLC
and the prover can unfold.

## Runs

The runs of `SpanningTree` use `TreeId = {1}`, except `tree_adaptive` with `{1, 2}`.
The timeouts 1/3/3 (unit 4 s) and 2/6/6 (unit 2 s) are the values 4 s, 12 s and 12 s of
`constants.h`.

| Run | Instance | Checks | Distinct states |
|---|---|---|---|
| `tree_periods` | 3 provers, 2 periods of 8, shorter than the timeouts of a full tree together, so `deltag` is 0; starts at 0 or 4; prover 1 may crash; fairness | `SessionsAgree`, `RecordOnce`, `Inv`, `AttestationImplemented`, `EventuallyReports` | 248k |
| `tree_adaptive` | 3 provers, 2 tree ids, batteries of 20, 50 and 100 %, prover 1 selfish; timeouts 2/6/6, 2 periods of 26, firmware check 1, `MaxDelay` 1; a crash of prover 3 ends the simulation | `NoNullSession`, `NoDoubleSchedule`, `ReportedInTime`, `NoDoubleCount`, `AckAnswersResponse`, `ReportOnce` | 940k |
| `tree_deep` | chain of 4 provers (neighbours share a key), one child each, depth 3, `MaxDelay` 1 | `TypeOK`, `TimeoutsNested` | 595k |
| `false_alarm` | 2 provers, one fast and one slow, depth 1, so that the child is a leaf; timeouts 2/6/6 | violates `NoFalseAlarm` | - |
| `late_report` | 4 provers, depth 3 | violates `StrangerDropped` | - |
| `link_moving` | 3 moving provers, 5 frames, prover 1 may crash | `FrameOnce`, `CollectorExclusive` | 228k |
| `link_together` | as above, always somebody in range, no crash; fairness | `QueueServed`, `NoTimerTwice`, `LinkInv`, `EventuallyArrives` | 99k |
| `link_lost` | as `link_together` | violates `PostponedKept` | - |
| `report_periods` | 3 provers, 2 periods, `aggsize` 2 | `ReportTypeOK`, `BackDefined`, `GroupsBounded`, `SizeCovers`, `RecordsKept`, `EachProvedOnce` | 104k |
| `report_proof` | 4 provers, `aggsize` 2 | violates `UnfinalizedRemoved` | - |
| `wired_networks` | 4 provers in a chain, a ring, a binary, a wide and a fair tree; 2 children, depth 3, 2 tree ids, periods of 9 (chain, binary tree) or 21, timeouts 3/5, firmware check 2, `MaxDelay` 1; fairness | `WiredTypeOK`, `Complete`, `ChildCommitted`, `ReportAwaited`, `TimeoutsCurrent`, `EventuallyCollected` | 78k |
| `wired_carrier` | 4 provers with 2 frames each, all 38 connected networks; fairness | `NoCollision`, `QueueAttended`, `EventuallySent` | 139k |

What the passing runs show:

- `NoDoubleCount`: `sum` equals the number of distinct records that reached
  the collector, although a report can come up the tree, go directly when the
  parent is out of range, or be passed on by a parent that finished.
- `SessionsAgree`: when a child and a parent both have a session for the
  other, it is for the same tree and the child is one level below; hence no
  cycle of provers waits on one another.
- `ReportOnce`: an action property; whatever combination of acks, timeouts and
  reports makes a prover call `sendUpReq`, it does so once in a period.
- `ReportedInTime`: the budget `deltag` leaves out the firmware check and the
  wait for an ack, yet with the configured proportions of the timeouts a
  prover has reported when its next period starts.
- `AckAnswersResponse`: `handleCommitAck` compares only the sender with
  `psessions.first`.  An ack of another handshake is still never accepted, with
  trees of both ids around and over two periods.  In the run a late ack finds a
  prover without a parent; that it cannot meet a later handshake with the same
  parent either, whatever the delays, is theorem `AckCorrect`.
- `NoNullSession`, `NoDoubleSchedule`: the simulation is not stopped by a null
  session or by `scheduleAt` on a pending message, even when a period ends in
  the middle of a tree.
- `TimeoutsNested`: below the root, a parent's update timeout exceeds what is
  left of its child's.  (Not for the root: see the findings.)
- `EventuallyReports`: a prover that starts a period reports unless it crashes
  or the simulation ends, whatever the others do.

- `FrameOnce`: whatever waits, is redirected, postponed or passed on, a frame
  is in one place, and vanishes only by arriving or by being overwritten in
  `pupmsg` (`lost`); the queue neither duplicates nor forgets.
- `CollectorExclusive`: senders test and set the collector's flag, and the
  collector clears it later; still one report at a time is on its way to it, and
  `procendmsg` is not pending when it arrives.
- `QueueServed`: a queue always has a pending self-message that leads to it,
  unless an invitation found nobody in range.
- `NoTimerTwice`: the self-messages of the radio are not scheduled twice.
- `EventuallyArrives`: however the provers contend for channel and collector,
  every frame arrives or is overwritten, as long as nobody crashes.  With a crash
  this is false, and not checked: a prover that crashes while transmitting
  stays `TRANSMITING`, and its neighbours sense a busy channel for ever.

- `RecordOnce`, `AttestationImplemented`: a record is never in two places, whether
  its report is merged, redirected, passed on, dropped, overwritten or copied,
  and every step is one of `Attestation`.
- `RecordsKept`, `EachProvedOnce`: taking the unfinished group of a report out
  and putting it back neither loses nor repeats a record or its share of a proof.
- `GroupsBounded`: `fixProofs` closes a group of exactly `aggsize` records, and
  none ever becomes longer without having had that length.
- `SizeCovers`: `size`, unsigned and never reset, does not wrap when it is
  decremented; `BackDefined`: no `back()` of an empty vector.
- `Complete`, `ReportAwaited`: in the wired build no prover is left out, although
  an invitation that finds a prover not `READY` is never repeated, and although
  a parent reports the moment its list of children is empty, possibly before
  all of its neighbours have responded.  Both hold as long as the tree does not
  outlive its period and everybody may have all its neighbours but its parent as
  children, as in the configured networks (`Fits`; in `Fadia-tree-fair` a prover
  may have exactly as many, 20).  The proof of `Complete` shows what else it rests on:
  no prover with siblings is at the last level of the tree, and nobody checks
  its firmware for longer than the root (see *Proofs*).
- `ChildCommitted`: without update timeouts a parent
  still never waits for a prover outside its tree, also when it has
  refused others for want of room.
- `EventuallyCollected`: the experiment ends, in its first period and with a
  report, if that period is long enough for any tree (`Ample`: the root's check,
  three frames per level down, `timeoutresp`, and the reports up).  The condition is
  needed.  `attesttimer` is always scheduled again, so a period that is too short
  can cut off every tree: with 9, TLC finds behaviours in which nothing is
  ever collected, and others that end in `Aborted`.
- `TimeoutsCurrent`: when a tree outlives its period, `cresptomsg` of a prover that
  is in a tree is never the one left over from the last.  (The leftover one does
  make a prover `COLLECTING` that has not been invited yet, so that the tree of
  that period is incomplete; and a leftover `cacktomsg` may be scheduled twice, see
  `scheduleTwice`.  The instance has provers of one type, as the configured chain
  has, and a check that outlasts a frame.)
- `NoCollision`, `EventuallySent`: senders that ask two links far exclude each
  other in every network, hidden ones included, and nobody starves.

**Why the bounds are enough.**  Two periods are needed and suffice for a
timeout or frame of one period to meet the next: `Deadlines` and `Handshakes`
bound every pending one by the end of a period.  An update timeout that
outlives its period occurs in no run; the proofs, which assume
nothing about those timeouts, cover it.  Three provers give a root, an inner
prover and a leaf, or two competing roots and one invited prover; the fourth is
needed only for the level between two inner provers (`tree_deep`,
`late_report`).  With `StartPhase` two values, provers start together or
interleaved in the middle of one another's timeouts.  For `Link`, two reports
for the collector, a third that is redirected or passed on, an invitation and
a response put every kind of frame in a queue behind every other.  For
`Report`, three provers over two periods give up to six records in a report,
hence merges of two reports that both end in an unfinished group behind a closed one,
and counters that are not reset.  In `Wired` a ring of four is the smallest network
where two branches of the tree meet at a prover.  A period of 21 is longer than any
tree takes (`Ample`), and one of 9 is too short for some; the number of periods is not
bounded.  `Carrier` covers all networks of four provers, paths of three
links, hidden senders and cycles among them.

**Fairness.**  `FairSpec` adds weak fairness of `Event`, the steps that are
scheduled in the simulator: it goes on as long as an event is pending.  Nothing
stronger is assumed; no single action is fair, and `crash` is not part of
`Event`, since no battery has to run out.  `Link`, which has no clock, assumes weak
fairness of each handler: what is scheduled arrives, because simulated time
never stops; so does `Carrier`.  That time cannot pass an expired countdown is what
makes each timeout happen.

**Deadlock** is checked everywhere.  `Over` stutters only once the simulation
was ended or nothing is scheduled, so a state with something pending and no
step is reported.

Every property has a mutant in `PROJECT.json`: a variant of one
definition of the model, kept next to it in the module and marked as such,
that reproduces a plausible mistake in the code and violates the property.

## Proofs

`SpanningTreeProofs` proves, for any provers, key rings, tree ids, batteries,
timeouts, delays and number of periods:

| Theorem | Statement |
|---|---|
| `InvCorrect` | `Spec => []Inv`, from `InitInv` and `NextInv` |
| `TypeCorrect` | `Spec => []TypeOK`: among others no depth leaves `1..maxdepth`, so the unsigned `depth` never wraps |
| `NoNullSessionCorrect` | `Spec => []NoNullSession` |
| `NoDoubleScheduleCorrect` | `Spec => []NoDoubleSchedule` |
| `AckCorrect` | `Spec => []AckAnswersResponse` |
| `ReportOnceCorrect` | `Spec => ReportOnce` |

**Assumptions.**  The named `ASSUME`s of `SpanningTree`: device ids are
positive and finite in number, keys are numbers and the collector's key is
in no ring, timeouts and the period are positive, `maxdepth` at least 1, and
`Null` is no session.  The one with content is `TimingAssumption`: after the
firmware check, the wait `deltag` and an unanswered response, what is left of a
period (`Slack`) exceeds `timeoutresp` and the three delays of a handshake.
The configured values meet it: with timeouts of 4 and 12 s and a firmware check
of at most 2 s, `Slack` is at least 22 s for every period `deltah` above 28 s and every
`maxdepth` with a positive `deltag` (86 s for depth 5); `omnetpp.ini` uses 600 s and
`Fadia.ned` 120 s.

**Argument.**  None of the safety properties is inductive: each depends on which
self-messages can still be pending in which status.  `Inv` adds

- `Phase`: the status determines which self-messages are scheduled;
  `cacktomsg` exactly while attesting, `mktreetimer` exactly until the prover
  stops waiting, `checkdelaymsg` exactly while checking.
- `Sessions`: the status determines the sessions; a prover with a session
  for its own tree has not reported.
- `Deadlines`: every pending self-message of a live prover expires before its
  next period, by a margin that shrinks along the period.  Without it `Phase`
  breaks in `startAttestation`, which cancels nothing.
- `Handshakes`: two provers have at most one frame of a handshake between
  them, and it arrives before the next period of the one that began it.  This
  is what makes the sender test of `handleCommitAck` sufficient, and
  it needs `Deadlines` to be kept by `Invite`.

`Inv` is also checked by TLC (`tree_periods`).  The proof has one lemma
per action and part of `Inv`, with shared lemmas for `sendUpReq`,
`sendCommitReq` and frames sent.

`TimingProofs` proves, under the same assumptions:

| Theorem | Statement |
|---|---|
| `SessionsAgreeCorrect` | `Spec => []SessionsAgree` |
| `ReportedInTimeCorrect` | `Spec => []ReportedInTime`, if `Budget` |
| `TimeoutsNestedCorrect` | `Spec => []TimeoutsNested`, if `3 * MaxDelay < timeoutack + timeoutresp` |

`Budget` says that what is left of a period once a prover has opened its tree
covers two frames and the longest update timeout.  `BudgetMet` reduces it to the
configured quantities: `deltah` is at least the timeouts of all levels (the
positive `deltag` of the code), and the firmware check and two frames take less
than `timeoutresp`, 12 s.  The bound on three frames is 16 s.  Both hold in
the run that checks the property (`tree_adaptive`, `tree_deep`).

Every step is of one of a few kinds (`StepKinds`): nothing is added
(`Fades`), a prover invites, answers an invitation, takes a child, or time
passes; each invariant has one lemma per kind.  `Agree` says that the frames
of a handshake name the tree and the level of the prover that began it, and that a
prover whose response is still on its way is not yet a child of its
addressee.  `Pending` says that a
prover which has not reported has something scheduled or a child whose timeout
is pending (`Working`, `Armed`), and that a response is no older than two delays as
measured by its addressee's own timeout (`RespTimed`).  `InTime` and `Nest` add
the comparisons themselves: a child's timeout with the end of the period, and with
what the child waits for in turn, which begins before the child has any
children, from the moment it is acknowledged.

`LinkProofs` proves, for any provers, traffic, movement and crashes
(`LinkAssumption`: the collector is no prover, the null pointer no frame,
frame ids are distinct):

| Theorem | Statement |
|---|---|
| `LinkInvCorrect` | `Spec => []LinkInv` |
| `CollectorExclusiveCorrect` | `Spec => []CollectorExclusive` |
| `NoTimerTwiceCorrect` | `Spec => []NoTimerTwice` |
| `QueueServedCorrect` | `Spec => []QueueServed` |
| `FrameOnceCorrect` | `Spec => []FrameOnce` |

`LinkInv` adds that the states of a live radio are the self-messages it has scheduled
(`Scheduled`), that a queue with a free radio waits behind a postponed report
that has its `collbusymsg` (`RadioInv`), and that nothing is on its way to a
collector that processes (`Processing`); without the last one `FlagClear`,
that a clear flag means no report anywhere, is not kept.  `HandleInv` shows
that sending any frame from any consistent radio keeps it, and each handler
is a corollary.

`FrameOnce` is about all queues at once, and draining one moves several frames.
`FrameInv` therefore states it frame by frame (`Once`), and a handler is a
sequence of moves: a frame is taken out of the place it is in (`Taken`, the
`Take...` lemmas) and put where it was not (`Put...`).  `HandleOnce` is the one
lemma on `handleMessage`: whatever it does with a frame that is nowhere, queue,
postpone, overwrite or transmit, the frame is in one place afterwards and the
others are where they were.  `KindOK`, that an invitation in a queue has an id of
its own, keeps broadcasts, of which many copies are on their way, out of it.

`TreeAttestationProofs` proves, under the assumptions of `SpanningTree`:

| Theorem | Statement |
|---|---|
| `RecordOnceCorrect` | `Spec => []RecordOnce` |
| `NoDoubleCountCorrect` | `Spec => []NoDoubleCount` |
| `AttestationCorrect` | `Spec => AttestationImplemented`, that is `A!Spec` |

`RecordOnce` is inductive relative to `Inv`: the counters in `Made` show that
a new record is nowhere yet, and `Inv` that a prover which calls `sendUpReq` has
not reported, so that what it sends was held by it alone.  A step that takes a
report out of `net` and puts its records elsewhere is one lemma, used by
merging, passing on and delivering.  For the refinement each step is an
`Attest`, a `Deliver` or `Lose` of one report's records, or leaves the mapped
variables unchanged.

`ReportProofs` proves, for any provers, `aggsize` and number of periods:

| Theorem | Statement |
|---|---|
| `ShapeCorrect` | `Spec => []ShapeInv` |
| `ReportTypeCorrect` | `Spec => []ReportTypeOK` |
| `GroupsBoundedCorrect` | `Spec => []GroupsBounded` |
| `BackDefinedCorrect` | `Spec => []BackDefined` |

`GroupsBounded` is not inductive: a window of `aggsize + 1` entries across
the joint of two merged reports has to hold a separator, which depends on where
their last ones are.  `ShapeInv` states it by the position `Closed` of the last
separator and the distance between separators, and the lemmas say what `Closed`
is of a list that is appended to, cut or closed.

`RecordProofs` proves, for any provers, `aggsize` and number of periods:

| Theorem | Statement |
|---|---|
| `ContentCorrect` | `Spec => []ContentInv` |
| `RecordsKeptCorrect` | `Spec => []RecordsKept` |
| `EachProvedOnceCorrect` | `Spec => []EachProvedOnce` |
| `SizeCoversCorrect` | `Spec => []SizeCovers` |

`ContentInv` adds to `ShapeInv` that the lists of a report carry the set `recs`
without repetition (`Carries`), that its proofs cover that set (`Covers`), that
reports still in use are disjoint (`Apart`), and that a counter is ahead of every
record made (`Fresh`).  Disjointness is what makes `^=` the union of the records
of two proofs.  The lemmas follow `handleUpReq`: `SetAsideHolds`,
`AppendReportHolds`, `PutBackHolds`.  Between them a list and its proofs are
about different sets (`Holds` has one for each): `handleUpReq` may put a group back
with the proof of another, which `report_proof` exhibits, and still
every record is in one proof.

`WiredProofs` proves, for every network, number of provers, depth and firmware
time, if `AckInTime`, that is `2 * MaxDelay < timeoutack`: a response and an ack
take less time than the prover waits for the ack.  (`TIMEOUT_ACK` is 2 s or more in
every scenario of `constants.h`, `NDELAY` at most 31 ms.)

| Theorem | Statement |
|---|---|
| `ChildCommittedCorrect` | `Spec => []ChildCommitted` |
| `ReportAwaitedCorrect` | `Spec => []ReportAwaited` |
| `TimeoutsCurrentCorrect` | `Spec => []TimeoutsCurrent`, if also `ChecksTimed` |
| `WiredTypesFirst` | `Spec => [](InPeriod => WiredTypeOK)` |
| `CompleteCorrect` | `Spec => []Complete`, if `Prompt` and `Spanned` |

`WiredTypesFirst` is for the first period only.  Beyond it, when a tree outlives
`deltah`, a prover may still get frames of the last tree; the run covers later
periods on its instance.

`TimeoutsCurrentCorrect` is about exactly those: it holds over any number of periods,
however short.  `ChecksTimed` says that a firmware check takes longer than a frame and
ends within its period, as does the check of the slow type, 1.96 s; on the fast one,
8 ms, a frame of the last period can outlast it.  The inductive
invariant is `PeriodsInv`:

- `Together`, `Lasting`: all provers start their periods at the same moments, and no
  prover is `READY` or in a tree before its check has ended;
- `Expired`: hence, until the root opens the next tree, the frames of the last one run
  out, and none meets the new one;
- `Pending`, `OneAnswer`: while a response or an ack is on its way its prover has
  `cacktomsg` pending, left over from the last period or not, and then answers no
  other invitation; so it has at most one such frame, which names the tree it accepted.

An ack therefore leads into the tree of `psessions`, with a `cresptomsg` started for it.
TLC checked `PeriodsInv` on `wired_networks` before it was proved.

`WiredInv` follows each child: its response is on its way (`Answering`), then
the ack (`Acking`), then it has a tree of its own, then its report is on its
way (`Reporting`).  A child has at most one frame of these (`Single`); each bounds
what is left of `cacktomsg`, so that the timeout cannot expire while one is on
its way; a parent has a session for a child from the ack to the report
(`Known`, `Children`).  `RootPhase`, that nothing happens before the root
opens the tree, makes all frames be of one tree (`OneTree`).  `ReportAwaited` turns
out not to need the second half of `Fits`: also a parent without room for all its
neighbours expects every report it gets.

`CompleteCorrect` has two hypotheses, on the constants alone:

- `Prompt`: acks and responses arrive before the timeouts for them, and no prover
  takes longer than the root to check its firmware.  (`TIMEOUT_ACK` is at least
  2 s and `TIMEOUT_RSP` at least 6 s.  Device types differ in the `FADIA` scenario
  only, where the root is of the slow one: 1.96 s against 8 ms.)  A prover that
  still checks drops the invitation, and nothing repeats it.
- `Spanned`: every network is connected (`Joined`) and no path from the root has
  `maxdepth` links (`Shallow`).  At the last level `handleCommitAck` does not gather
  children but reports at once.  The parent's list of children is then empty, and
  it reports too, perhaps before the others that it invited have answered.  With
  provers 1-2-3, 4 and 5 both linked to 3, and `maxdepth` 3, TLC finds the
  report {1, 2, 3, 4}.  The configurations set `maxdepth` to 9999.  Only chain, ring and
  grid (`Fadia-star`) of 10,000 provers and more have so long a path.  In chain and
  ring the last prover has no siblings, and `wired_networks`, whose chain and ring are
  as long as its tree is deep, shows `Complete` for this case; in a grid a branch
  would have to wind through all of it.

The inductive invariant is `WiredInv /\ SpanInv`.  `SpanInv` says, while everybody
fits:

- `Starting`: no check outlasts the root's, so that an invitation finds a prover
  that has not been asked `READY`;
- `Inviting`, `Responding`: an invitation that will be accepted, or the response to
  it, is no older than the part of the sender's `cresptomsg` that has passed;
- `Young`, `Timely`: until all answers are in (`Late`), each child of a prover still
  waits for an ack, or has a timeout for responses with no less to go than its
  parent's, or has stopped gathering for want of room and has a child of which
  the same is true (`Busy`); so no child reports, and no parent finds its list
  empty, too early;
- `Levels`: a prover's level is the length of a path of asked provers to it, so that
  by `Shallow` nobody is at the last one;
- `Spreading`: a prover that was in the tree has asked all its neighbours, or an
  invitation to the others is on its way;
- `Kept`, `Rooted`: a record is held by a prover that has not reported, or is on its
  way to one, and every prover that has not reported is below the root.

When the root reports, it has no children left.  By `Rooted` nobody else is in the
tree, by `Spreading` and `Joined` everybody was, and by `Kept` the root holds all
records.  Connectedness and `Rooted` are stated with closed sets instead of paths
(a set that holds the root and the neighbours, or the children, of its members),
so that the argument needs no induction over paths.  TLC checked all parts of
`SpanInv`, and that `Spanned` holds, on a chain, a ring and several trees of four
and five provers of unequal speed before they were proved.

`CarrierProofs` proves, for every network, number of frames and order of the
self-messages:

| Theorem | Statement |
|---|---|
| `QueueIsAttended` | `Spec => []QueueAttended` |
| `NobodyDisturbed` | `Spec => []NoCollision`, if `drange >= 2` (`NEIGHBOR_DISTANCE` is 2) |

`NoCollision` is inductive once it is known what `isChannelBusy` answers.  Its
recursion has a solution: the walks along which the question goes and that end
at a sender (`Heard`, `HeardStep`, `BusyEquation`).  Hence a sender
at most two links away is always found (`BusyNear`), on cycles too, where a
question could come back to the one that asked.

**Only model-checked.**  `EventuallyReports`, `EventuallyArrives`,
`EventuallyCollected` and `EventuallySent` are liveness under fairness, out of
the prover's reach.  `WiredTypeOK` is proved for the first
period and checked by TLC for all.  `TimeoutsCurrent` is proved if checks outlast
frames.  `Complete` is checked, but not proved, for a
network with a path as long as the tree may be deep.

## Findings

- `false_alarm` (`AProver.cpp:1031`): a prover whose only child reports while
  it is still `CREATING` reports at once and leaves `cresptomsg`
  scheduled.  In the run the child is a leaf, which reports as soon as it is
  acknowledged.  When that fires the status becomes `COLLECTING`, and
  the next `startAttestation` warns "Device didn't attest last deltah!!!"
  (line 269) of a prover that did.
- `late_report` (`AProver.cpp:918`): root and first level compute the same
  update timeout, as both have `depth = maxdepth`.  A child that waits for a
  silent child of its own reports when the root has given it up, and
  the report is dropped as "sender is not a child!!!" while the root still
  waits for another child.

- `link_lost` (`ADevice_template.h:135`): `sendCollector` forgets `pupmsg`
  first.  A prover whose own report waits for a busy collector loses it when
  it passes a child's late report on, and `handlePostponeUpMsg` logs "update
  message lost after queued!!!" (`ADevice.cpp:336`).

- `report_proof` (`AProver.cpp:1192`): `addOwnReport` decides by
  `uids.size() % aggsize` whether its record opens a proof, and counts the
  separators.  Behind a closed group the own record then goes into that group's proof, or
  a group gets two proofs, and `handleUpReq` "remove unfinialized proof aggregates"
  (line 941) takes the wrong one.  The configured values are not affected: with
  1 no group is ever unfinished, with 999999 none is ever closed.
One remark without a run: `size` is not reset with the rest of the report "at each
delta h" (`AProver.h:93`), so "sending a report of N records" (`AProver.cpp:833`, 837)
counts those of all earlier periods.  Only the log is affected, as `URQ_SIZE`
multiplies the size by 0 (`constants.h:40`).

## Not modelled

- **Join**: nothing schedules a `JOIN` message, so no prover joins in any build.
- **Revoke**: compiled with `REVOKE_TEST` only, which the Makefile defines for no
  target.  (There the collector would use its `energy` pointer, which only
  provers set.)
- **Network owner**: draws keys at random before the start; any key rings are
  a constant here.
- **`TREE`**: code for a variant of the wired build that no target defines.
- **`finalizeProofs`**: never called.
- **Energy consumption**: real arithmetic on INET's battery; only its outcome
  (level, crash) matters to the protocol.
- **Collector synchronisation**: `sendSyncReq` and `handleSyncReq` are empty.
- **Network descriptions, unused messages**: parameters, dead declarations.
- **INET**: a vendored framework of some 380,000 lines, most of the repository's text.
  FADIA uses its mobility (who is in range: any, here) and its battery.

## Plan

Done, in this order because reports depend on trees and trees on frames:
`SpanningTree` and `Link` with their runs, invariants and theorems;
`Attestation` and its refinement; `Report`; the wired build; the theorems about
levels and time, the contents of reports, the places of frames, the wired tree, its
completeness and carrier sensing.  Left: `WiredTypeOK` beyond the first period, and `TimeoutsCurrent` for
provers that check their firmware faster than a frame travels.
