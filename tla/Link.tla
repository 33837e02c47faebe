-------------------------------- MODULE Link --------------------------------
(***************************************************************************)
(* The radio of the provers and the collector's busy flag (ADevice.cpp,    *)
(* ADevice_template.h) in the wireless build.                              *)
(*                                                                         *)
(* A device sends one frame at a time, and senses the provers in range     *)
(* first.  What it cannot send waits in msgqueue, whose front is tried     *)
(* again when a transmission (txmsg) or a pause (cbusymsg) ends.  A report *)
(* for a collector that is processing another one waits in pupmsg, tried   *)
(* again when collbusymsg arrives.                                         *)
(*                                                                         *)
(* A self-message is scheduled or not, and scheduled ones arrive in any    *)
(* order, except that the energy event of a transmission precedes its end. *)
(* The positions of the provers matter only through who is in range: each  *)
(* handler finds one of the sets of provers that Vicinity allows.          *)
(***************************************************************************)
EXTENDS Integers, Sequences, FiniteSets

CONSTANTS
    Prover,         \* the provers
    Load,           \* the frames the protocol hands over to the radio
    Vicinity,       \* for each prover, whom it may find in range
    Fallible,       \* provers whose battery can run out
    MAX_CRASH,      \* crashes that end the simulation
    NoMsg           \* the null message pointer

Collector == 0

\* Frames with their identity.  The destination of an invitation (CMRQ) is
\* its source until copies of it leave.
ProverFrame == [id : Nat, kind : {"CMRQ", "CMRP", "CMAK", "UPRQ"},
                source : Prover, destination : Prover]
CollectorFrame == [id : Nat, kind : {"UPRQC", "UPRQF"},
                   source : Prover, destination : {Collector}]
Frame == ProverFrame \cup CollectorFrame

ASSUME LinkAssumption ==
    /\ Collector \notin Prover
    /\ Load \subseteq Frame
    /\ \A m, n \in Load : m.id = n.id => m = n
    /\ Vicinity \in [Prover -> SUBSET SUBSET Prover]
    /\ Fallible \subseteq Prover
    /\ MAX_CRASH \in Nat
    /\ NoMsg \notin Frame

\* The last four say whether txmsg, entxmsg, cbusymsg and collbusymsg are
\* scheduled.
Radio == [txrxstat : {"DIDLE", "TRANSMITING"}, chanstat : {"CIDLE", "BUSY"},
          msgqueue : Seq(Frame), pupmsg : CollectorFrame \cup {NoMsg},
          tx : BOOLEAN, entx : BOOLEAN, cbusy : BOOLEAN, collbusy : BOOLEAN]

VARIABLES
    todo,           \* frames the protocol has not handed over yet
    radio,          \* the radio of each prover
    air,            \* frames on their way
    procstat,       \* of the collector
    procend,        \* whether the collector's procendmsg is scheduled
    crashed,
    done,           \* history: frames that arrived
    lost            \* history: postponed reports that were overwritten

vars == <<todo, radio, air, procstat, procend, crashed, done, lost>>

IdleRadio == [txrxstat |-> "DIDLE", chanstat |-> "CIDLE", msgqueue |-> <<>>,
              pupmsg |-> NoMsg, tx |-> FALSE, entx |-> FALSE,
              cbusy |-> FALSE, collbusy |-> FALSE]

Init ==
    /\ todo = Load
    /\ radio = [d \in Prover |-> IdleRadio]
    /\ air = {}
    /\ procstat = "PIDLE"
    /\ procend = FALSE
    /\ crashed = {}
    /\ done = {}
    /\ lost = {}

Ended == Cardinality(crashed) >= MAX_CRASH
Alive(d) == d \notin crashed /\ ~Ended

-----------------------------------------------------------------------------
(***************************************************************************)
(* Sending frame m of prover d, whose radio is r at the call, while the    *)
(* provers near are in range and the frames a are on their way.            *)
(***************************************************************************)

\* Mutant: a pause does not keep the radio from sending.
occupied_transmitting(r) == r.txrxstat = "TRANSMITING"

occupied(r) == r.txrxstat = "TRANSMITING" \/ r.chanstat = "BUSY"

\* A prover in range transmits, or does so for ever because it crashed.
isChannelBusy(near) ==
    \E e \in near : radio[e].txrxstat = "TRANSMITING"

\* Mutant: the end of the pause is not scheduled.
queued_unscheduled(r, m) ==
    [r EXCEPT !.msgqueue = Append(@, m),
              !.chanstat = IF occupied(r) THEN @ ELSE "BUSY"]

\* The frame is queued; if the radio was free, the channel is busy and the
\* radio pauses.
queued(r, m) ==
    [r EXCEPT !.msgqueue = Append(@, m),
              !.chanstat = IF occupied(r) THEN @ ELSE "BUSY",
              !.cbusy = IF occupied(r) THEN @ ELSE TRUE]

Wait(d, r, m, near, a) ==
    /\ occupied(r) \/ isChannelBusy(near)
    /\ radio' = [radio EXCEPT ![d] = queued(r, m)]
    /\ air' = a
    /\ UNCHANGED procstat

\* The frames ms leave and the radio is taken until txmsg arrives.
Transmit(d, r, ms, near, a) ==
    /\ ~occupied(r) /\ ~isChannelBusy(near)
    /\ radio' = [radio EXCEPT ![d] = [r EXCEPT !.txrxstat = "TRANSMITING",
                                              !.tx = TRUE, !.entx = TRUE]]
    /\ air' = a \cup ms

sendProver(d, r, m, near, a) ==
    /\ \/ Wait(d, r, m, near, a)
       \/ Transmit(d, r, {m}, near, a) /\ UNCHANGED procstat
    /\ UNCHANGED lost

\* An invitation is copied to everyone in range; with nobody there the radio
\* stays as it is.
sendProverBroadcast(d, r, m, near, a) ==
    /\ \/ Wait(d, r, m, near, a)
       \/ /\ near # {}
          /\ Transmit(d, r, {[m EXCEPT !.destination = e] : e \in near},
                      near, a)
          /\ UNCHANGED procstat
       \/ /\ near = {}
          /\ ~occupied(r)
          /\ radio' = [radio EXCEPT ![d] = r]
          /\ air' = a
          /\ UNCHANGED procstat
    /\ UNCHANGED lost

\* Mutant: the busy flag of the collector is not looked at.
isCollectorBusy_never == FALSE

isCollectorBusy == procstat = "PBUSY"

\* pupmsg is forgotten first, whichever report it holds.  A report for a busy
\* collector becomes pupmsg; one that leaves sets the busy flag.
sendCollector(d, r, m, near, a) ==
    LET s == [r EXCEPT !.pupmsg = NoMsg] IN
    /\ lost' = lost \cup {n.id : n \in {r.pupmsg} \ {NoMsg, m}}
    /\ \/ Wait(d, s, m, near, a)
       \/ /\ ~occupied(s) /\ ~isChannelBusy(near)
          /\ isCollectorBusy
          /\ radio' = [radio EXCEPT ![d] = [s EXCEPT !.pupmsg = m,
                                                     !.collbusy = TRUE]]
          /\ air' = a
          /\ UNCHANGED procstat
       \/ /\ ~isCollectorBusy
          /\ Transmit(d, s, {m}, near, a)
          /\ procstat' = "PBUSY"

\* A report whose receiver is the collector instead.
Redirected(m) == [m EXCEPT !.kind = "UPRQF", !.destination = Collector]

\* handleMessage for a frame to be sent.
handleMessage(d, r, m, near, a) ==
    \/ m.kind = "CMRQ" /\ sendProverBroadcast(d, r, m, near, a)
    \/ m.kind \in {"CMRP", "CMAK"} /\ sendProver(d, r, m, near, a)
    \/ /\ m.kind = "UPRQ"
       /\ IF m.destination \in near
          THEN sendProver(d, r, m, near, a)
          ELSE sendCollector(d, r, Redirected(m), near, a)
    \/ m.kind \in {"UPRQC", "UPRQF"} /\ sendCollector(d, r, m, near, a)

-----------------------------------------------------------------------------
(***************************************************************************)
(* Self-messages.                                                          *)
(***************************************************************************)

\* The computation of a frame's MAC is over.
handOver(d) ==
    /\ Alive(d)
    /\ \E m \in todo, near \in Vicinity[d] :
          /\ m.source = d
          /\ todo' = todo \ {m}
          /\ handleMessage(d, radio[d], m, near, air)
    /\ UNCHANGED <<procend, crashed, done>>

\* Mutant: the front is handled and not popped.
popped_not(r) == r

popped(r) == [r EXCEPT !.msgqueue = Tail(@)]

\* The front of the queue is handled, then popped.  As handling can only add
\* at the end, this is the same as popping first.
drain(d, r) ==
    IF r.msgqueue # <<>>
    THEN \E near \in Vicinity[d] :
            handleMessage(d, popped(r), Head(r.msgqueue), near, air)
    ELSE /\ radio' = [radio EXCEPT ![d] = r]
         /\ UNCHANGED <<air, procstat, lost>>

\* Mutant: txmsg is scheduled again instead.
transmitted_again(r) == r

transmitted(r) == [r EXCEPT !.tx = FALSE, !.txrxstat = "DIDLE"]

handleTxDoneMsg(d) ==
    /\ Alive(d)
    /\ radio[d].tx /\ ~radio[d].entx
    /\ drain(d, transmitted(radio[d]))
    /\ UNCHANGED <<todo, procend, crashed, done>>

handlePostponeDoneMsg(d) ==
    /\ Alive(d)
    /\ radio[d].cbusy
    /\ drain(d, [radio[d] EXCEPT !.cbusy = FALSE, !.chanstat = "CIDLE"])
    /\ UNCHANGED <<todo, procend, crashed, done>>

\* The postponed report is tried again, if there is one left.
handlePostponeUpMsg(d) ==
    LET r == [radio[d] EXCEPT !.collbusy = FALSE] IN
    /\ Alive(d)
    /\ radio[d].collbusy
    /\ IF r.pupmsg # NoMsg
       THEN \E near \in Vicinity[d] :
               handleMessage(d, r, r.pupmsg, near, air)
       ELSE /\ radio' = [radio EXCEPT ![d] = r]
            /\ UNCHANGED <<air, procstat, lost>>
    /\ UNCHANGED <<todo, procend, crashed, done>>

\* The energy of the transmission is accounted for.
handleDoneEnMsg(d) ==
    /\ Alive(d)
    /\ radio[d].entx
    /\ radio' = [radio EXCEPT ![d].entx = FALSE]
    /\ UNCHANGED <<todo, air, procstat, procend, crashed, done, lost>>

\* The battery is found empty: from now on every message is ignored.  The
\* states of the radio stay as they are, TRANSMITING included.
crash(d) ==
    /\ Alive(d)
    /\ d \in Fallible
    /\ crashed' = crashed \cup {d}
    /\ radio' = [radio EXCEPT ![d].tx = FALSE, ![d].entx = FALSE,
                              ![d].cbusy = FALSE, ![d].collbusy = FALSE]
    /\ UNCHANGED <<todo, air, procstat, procend, done, lost>>

-----------------------------------------------------------------------------
(***************************************************************************)
(* Frames received.                                                        *)
(***************************************************************************)

\* A prover takes the frame or, a report that comes after it has FINISHED,
\* passes it on to the collector.  A crashed prover leaves it unhandled.
arrive(d) ==
    /\ ~Ended
    /\ \E m \in air :
          /\ m.destination = d
          /\ \/ /\ air' = air \ {m}
                /\ done' = done \cup {m.id}
                /\ UNCHANGED <<radio, procstat, lost>>
             \/ /\ m.kind = "UPRQ"
                /\ d \notin crashed
                /\ \E near \in Vicinity[d] :
                      sendCollector(d, radio[d], Redirected(m), near,
                                    air \ {m})
                /\ UNCHANGED done
    /\ UNCHANGED <<todo, procend, crashed>>

\* ACollector::handleUpReq schedules procendmsg.
collect ==
    /\ ~Ended
    /\ \E m \in air :
          /\ m.destination = Collector
          /\ air' = air \ {m}
          /\ done' = done \cup {m.id}
    /\ procend' = TRUE
    /\ UNCHANGED <<todo, radio, procstat, crashed, lost>>

handleProcDoneMsg ==
    /\ ~Ended
    /\ procend
    /\ procend' = FALSE
    /\ procstat' = "PIDLE"
    /\ UNCHANGED <<todo, radio, air, crashed, done, lost>>

\* Nothing is scheduled any more, or the simulation was ended.
Over ==
    /\ \/ Ended
       \/ /\ air = {} /\ ~procend
          /\ \A m \in todo : m.source \in crashed
          /\ \A d \in Prover : LET r == radio[d] IN
                ~r.tx /\ ~r.entx /\ ~r.cbusy /\ ~r.collbusy
    /\ UNCHANGED vars

Next ==
    \/ \E d \in Prover :
          \/ handOver(d)
          \/ handleTxDoneMsg(d)
          \/ handlePostponeDoneMsg(d)
          \/ handlePostponeUpMsg(d)
          \/ handleDoneEnMsg(d)
          \/ crash(d)
          \/ arrive(d)
    \/ collect
    \/ handleProcDoneMsg
    \/ Over

Spec == Init /\ [][Next]_vars

\* What is scheduled arrives: simulated time never stops.
FairSpec ==
    /\ Spec
    /\ \A d \in Prover : /\ WF_vars(handOver(d))
                         /\ WF_vars(handleTxDoneMsg(d))
                         /\ WF_vars(handlePostponeDoneMsg(d))
                         /\ WF_vars(handlePostponeUpMsg(d))
                         /\ WF_vars(handleDoneEnMsg(d))
                         /\ WF_vars(arrive(d))
    /\ WF_vars(collect)
    /\ WF_vars(handleProcDoneMsg)
-----------------------------------------------------------------------------
(***************************************************************************)
(* Properties.                                                             *)
(***************************************************************************)

\* Types.
TypeOK ==
    /\ todo \subseteq Load
    /\ radio \in [Prover -> Radio]
    /\ air \subseteq Frame
    /\ procstat \in {"PIDLE", "PBUSY"}
    /\ procend \in BOOLEAN
    /\ crashed \subseteq Prover
    /\ done \subseteq Nat
    /\ lost \subseteq Nat

\* The flag that senders read and set, and the collector clears, admits one
\* report at a time: a report arrives when procendmsg is not scheduled (or
\* scheduleAt would stop the simulation), and no second one is on its way.
CollectorExclusive ==
    \A m \in air : m.destination = Collector =>
       /\ procstat = "PBUSY" /\ ~procend
       /\ \A n \in air : n.destination = Collector => n = m

\* sendProver, sendProverBroadcast and sendCollector schedule txmsg, entxmsg
\* and cbusymsg only when the radio is not occupied: none is scheduled then.
NoTimerTwice ==
    \A d \in Prover \ crashed : LET r == radio[d] IN
       ~occupied(r) => ~r.tx /\ ~r.entx /\ ~r.cbusy

\* A frame that waits in the queue of a live prover is tried again: some
\* self-message that leads to the queue is scheduled.  Only an invitation that
\* nobody hears leaves a queue behind without one.
QueueServed ==
    \A d \in Prover \ crashed : LET r == radio[d] IN
       r.msgqueue # <<>> /\ {} \notin Vicinity[d]
          => \/ r.tx \/ r.cbusy
             \/ r.collbusy /\ r.pupmsg # NoMsg

\* Where the frame with id i is.
InTodo(i) == {<<"todo", m, 0>> : m \in {n \in todo : n.id = i}}
InQueues(i) ==
    UNION {{<<"msgqueue", d, k>> : k \in {j \in DOMAIN radio[d].msgqueue :
                                            radio[d].msgqueue[j].id = i}} :
              d \in Prover}
InPupmsgs(i) ==
    {<<"pupmsg", d, 0>> : d \in {e \in Prover : /\ radio[e].pupmsg # NoMsg
                                               /\ radio[e].pupmsg.id = i}}
InAir(i) == {<<"air", m, 0>> : m \in {n \in air : n.id = i}}
InHistory(i) == {<<"done", j, 0>> : j \in done \cap {i}}
                \cup {<<"lost", j, 0>> : j \in lost \cap {i}}

Places(i) ==
    InTodo(i) \cup InQueues(i) \cup InPupmsgs(i) \cup InAir(i) \cup InHistory(i)

Directed == {m \in Load : m.kind # "CMRQ"}

\* Queues, postponing, redirecting and passing on neither duplicate a frame
\* nor lose it: a frame that is no invitation is in one place, and vanishes
\* only when it arrives or when sendCollector overwrites it in pupmsg.
FrameOnce == \A m \in Directed : Cardinality(Places(m.id)) = 1

\* handlePostponeUpMsg logs "update message lost after queued!!!" when
\* collbusymsg arrives and pupmsg is gone: that does not happen.
PostponedKept ==
    \A d \in Prover : radio[d].collbusy => radio[d].pupmsg # NoMsg

\* While no battery runs out and nobody is alone, every frame arrives unless
\* it is overwritten in pupmsg, whatever the contention.
EventuallyArrives ==
    \A m \in Directed : m \in todo ~> m.id \in done \cup lost

-----------------------------------------------------------------------------
(***************************************************************************)
(* The inductive invariant.                                                *)
(***************************************************************************)

\* The states of a radio say what it has scheduled.
Scheduled(r) ==
    /\ r.tx <=> r.txrxstat = "TRANSMITING"
    /\ r.cbusy <=> r.chanstat = "BUSY"
    /\ r.entx => r.tx

\* A queue that waits for the end of no transmission or pause waits behind a
\* postponed report.
RadioInv(d, r) ==
    /\ Scheduled(r)
    /\ r.pupmsg # NoMsg => r.collbusy
    /\ r.msgqueue # <<>> /\ {} \notin Vicinity[d]
          => occupied(r) \/ r.pupmsg # NoMsg

\* While the collector processes a report, its flag is set and no report is
\* on its way.
Processing ==
    procend => /\ procstat = "PBUSY"
               /\ \A m \in air : m.destination # Collector

LinkInv ==
    /\ TypeOK
    /\ \A d \in Prover \ crashed : RadioInv(d, radio[d])
    /\ Processing
    /\ CollectorExclusive
=============================================================================
