------------------------------ MODULE Carrier ------------------------------
(***************************************************************************)
(* Access to the links in the wired build.  A prover that wants to send    *)
(* asks its neighbours, and they ask theirs, whether somebody transmits    *)
(* (isChannelBusy, a recursion over the gates of the modules); if so it    *)
(* postpones its frames, which wait in one queue with those that come      *)
(* while it transmits.  The collector is not asked and never sends.        *)
(*                                                                         *)
(* Frames are alike here, so that a queue is the number of frames in it.   *)
(* Time is left out: scheduled self-messages come in any order.            *)
(***************************************************************************)
EXTENDS Integers, FiniteSets

CONSTANTS
    Prover,
    Networks,           \* the sets of links considered
    drange,             \* NEIGHBOR_DISTANCE
    Frames              \* bound: frames that a prover's handlers send

ASSUME CarrierAssumption ==
    /\ Prover \subseteq Nat \ {0}
    /\ \A net \in Networks : net \subseteq {{p, q} : p, q \in Prover}
    /\ drange \in Nat
    /\ Frames \in Nat

VARIABLES
    links,              \* the connections of the network
    txrxstat,           \* "TRANSMITING" while txmsg is scheduled, or "DIDLE"
    chanstat,           \* "BUSY" while cbusymsg is scheduled, or "CIDLE"
    msgqueue,           \* frames in the queue
    todo                \* frames whose self-message has not arrived yet

vars == <<links, txrxstat, chanstat, msgqueue, todo>>

Init ==
    /\ links \in Networks
    /\ txrxstat = [p \in Prover |-> "DIDLE"]
    /\ chanstat = [p \in Prover |-> "CIDLE"]
    /\ msgqueue = [p \in Prover |-> 0]
    /\ todo = [p \in Prover |-> Frames]

NoGate == 0

\* The provers at the other end of p's gates.
Neighbours(p) == {q \in Prover : {p, q} \in links}

isTransmiting(p) == txrxstat[p] = "TRANSMITING"

\* The question whether somebody transmits, with the links it may still go
\* and the gate it came by.
Question == [far : 0..drange, at : Prover, gid : Prover \cup {NoGate}]

Ask(far, d, gid) == [far |-> far, at |-> d, gid |-> gid]

\* Mutant: the last level is not asked.
isChannelBusy_near(p, stat) ==
    LET busy[q \in Question] ==
          \/ stat[q.at] = "TRANSMITING"
          \/ /\ q.far > 1
             /\ \E n \in Neighbours(q.at) \ {q.gid} : busy[Ask(q.far - 1, n, q.at)]
    IN busy[Ask(drange, p, NoGate)]

\* The question goes to every gate but the one it came by, drange links far.
isChannelBusy(p, stat) ==
    LET busy[q \in Question] ==
          \/ stat[q.at] = "TRANSMITING"
          \/ /\ q.far # 0
             /\ \E n \in Neighbours(q.at) \ {q.gid} : busy[Ask(q.far - 1, n, q.at)]
    IN busy[Ask(drange, p, NoGate)]

\* sendProver, sendProverBroadcast and sendCollector for a frame of p, called
\* with the states stat and chan and queued frames in the queue.
transmit(p, stat, chan, queued) ==
    LET occupied == stat[p] = "TRANSMITING" \/ chan[p] = "BUSY"
        sensed == ~occupied /\ isChannelBusy(p, stat)
    IN
    /\ msgqueue' = [msgqueue EXCEPT
                      ![p] = IF occupied \/ sensed THEN queued + 1 ELSE queued]
    /\ chanstat' = IF sensed THEN [chan EXCEPT ![p] = "BUSY"] ELSE chan
    /\ txrxstat' = IF occupied \/ sensed THEN stat
                   ELSE [stat EXCEPT ![p] = "TRANSMITING"]

\* Mutant: nothing is done with the queue.
drain_not(p, stat, chan) ==
    /\ txrxstat' = stat
    /\ chanstat' = chan
    /\ UNCHANGED msgqueue

\* handleMessage for the front of the queue, which is then popped.
drain(p, stat, chan) ==
    IF msgqueue[p] > 0
    THEN transmit(p, stat, chan, msgqueue[p] - 1)
    ELSE /\ txrxstat' = stat
         /\ chanstat' = chan
         /\ UNCHANGED msgqueue

\* The self-message of a frame whose MAC is computed.
handOver(p) ==
    /\ todo[p] > 0
    /\ todo' = [todo EXCEPT ![p] = @ - 1]
    /\ transmit(p, txrxstat, chanstat, msgqueue[p])
    /\ UNCHANGED links

handleTxDoneMsg(p) ==
    /\ isTransmiting(p)
    /\ drain(p, [txrxstat EXCEPT ![p] = "DIDLE"], chanstat)
    /\ UNCHANGED <<links, todo>>

\* Mutant: the channel stays busy.
handlePostponeDoneMsg_busy(p) ==
    /\ chanstat[p] = "BUSY"
    /\ drain(p, txrxstat, chanstat)
    /\ UNCHANGED <<links, todo>>

handlePostponeDoneMsg(p) ==
    /\ chanstat[p] = "BUSY"
    /\ drain(p, txrxstat, [chanstat EXCEPT ![p] = "CIDLE"])
    /\ UNCHANGED <<links, todo>>

Handler(p) == handOver(p) \/ handleTxDoneMsg(p) \/ handlePostponeDoneMsg(p)

Idle(p) == todo[p] = 0 /\ txrxstat[p] = "DIDLE" /\ chanstat[p] = "CIDLE"

\* Nothing is scheduled any more.
Over ==
    /\ \A p \in Prover : Idle(p)
    /\ UNCHANGED vars

Next == (\E p \in Prover : Handler(p)) \/ Over

Spec == Init /\ [][Next]_vars

\* What is scheduled arrives.
FairSpec ==
    /\ Spec
    /\ \A p \in Prover : /\ WF_vars(handOver(p))
                         /\ WF_vars(handleTxDoneMsg(p))
                         /\ WF_vars(handlePostponeDoneMsg(p))
-----------------------------------------------------------------------------
(***************************************************************************)
(* Properties.                                                             *)
(***************************************************************************)

\* Two provers that transmit at the same time are neither joined by a link
\* nor to the same prover: neither disturbs the other, and no prover hears
\* both.  The senders decide on their own, each by asking around.
NoCollision ==
    \A p, q \in Prover :
       p # q /\ isTransmiting(p) /\ isTransmiting(q)
       => q \notin Neighbours(p) /\ Neighbours(p) \cap Neighbours(q) = {}

\* A frame waits only while something is scheduled that will take it up.
QueueAttended ==
    \A p \in Prover : msgqueue[p] > 0 => isTransmiting(p) \/ chanstat[p] = "BUSY"

\* However the provers contend, every frame is sent.
EventuallySent ==
    <>[](\A p \in Prover : Idle(p) /\ msgqueue[p] = 0)
=============================================================================
