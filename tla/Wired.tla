------------------------------- MODULE Wired -------------------------------
(***************************************************************************)
(* FADIA in the wired build (RUNTIME_TEST): one prover opens one tree that *)
(* is to span a network of fixed links, and the simulation ends with the   *)
(* first report that reaches the collector; the time it took is the result *)
(* of the experiment.                                                      *)
(*                                                                         *)
(* The protocol is that of SpanningTree without what the other build adds: *)
(* no timer opens further trees and, above all, no child is given up       *)
(* (handleUpdateTimeOut): a parent waits for every child it acknowledged.  *)
(***************************************************************************)
EXTENDS Integers, FiniteSets

CONSTANTS
    Prover,
    Networks,           \* the networks considered: sets of links
    root,               \* the prover with index rootidx, next to the collector
    MAXCHILDREN, maxdepth,
    timeoutack, timeoutresp,
    deltah,             \* htime in the configuration of each network
    firmware,           \* duration of the firmware check of each prover
    TreeId, Null,
    Aborted,            \* the simulator stopped with an error
    MaxDelay            \* bound: delay of a frame, with MAC and queueing

NOID == 0
Collector == -2
Off == -1
Dev == Prover \cup {NOID}

\* The collector has the id of the prover with index 0.  No network of
\* omnetpp.ini joins that prover to a root other than itself, so that the
\* root never learns a gate for this id and uses gate 0, the collector's.
ASSUME WiredAssumption ==
    /\ Prover \subseteq Nat \ {NOID} /\ IsFiniteSet(Prover)
    /\ \A ls \in Networks : /\ ls \subseteq {{p, q} : p, q \in Prover}
                            /\ root # 1 => {root, 1} \notin ls
    /\ root \in Prover
    /\ firmware \in [Prover -> Nat]
    /\ deltah \in [Networks -> Nat \ {0}]
    /\ {MAXCHILDREN, maxdepth, timeoutack, timeoutresp} \subseteq Nat \ {0}
    /\ MaxDelay \in Nat
    /\ Aborted # Null

VARIABLES
    links,              \* the connections of the network: sets of two provers
    status,
    pfirst, psecond,    \* psessions.first and psessions.second
    csess,              \* csessions: the devices it has an entry for
    aggreport,          \* the provers whose records are aggregated
    attest,             \* startmsg, then attesttimer
    check,              \* checkdelaymsg
    mktree,             \* the root's startmsg, scheduled again as MKTREE
    cackto, crespto,    \* cacktomsg and cresptomsg, as in SpanningTree
    net,                \* frames on their way
    collected,          \* what ended the simulation, or Null
    period              \* 0, then 1 in the first period and 2 in all later ones

sessions == <<pfirst, psecond, csess>>
timers == <<attest, check, mktree, cackto, crespto>>
vars == <<links, status, sessions, aggreport, timers, net, collected, period>>

Init ==
    /\ links \in Networks
    /\ status = [p \in Prover |-> "JOINING"]
    /\ pfirst = [p \in Prover |-> NOID]
    /\ psecond = [p \in Prover |-> Null]
    /\ csess = [p \in Prover |-> {}]
    /\ aggreport = [p \in Prover |-> {}]
    /\ attest = [p \in Prover |-> 0]
    /\ check = [p \in Prover |-> Off]
    /\ mktree = FALSE
    /\ cackto = [p \in Prover |-> [dev |-> NOID, t |-> Off]]
    /\ crespto = [p \in Prover |-> [treeID |-> NOID, t |-> Off]]
    /\ net = {}
    /\ collected = Null
    /\ period = [p \in Prover |-> 0]

Neighbours(p) == {q \in Prover : {p, q} \in links}

\* Where gate 0 leads: the first connection of a prover is one with a lower
\* index, except at the root, where it is the collector's.
Gate0(p) == IF p = root THEN Collector
            ELSE CHOOSE q \in Neighbours(p) : \A r \in Neighbours(p) : q <= r

\* The collector has called endSimulation, or scheduleAt has thrown.
Ended == collected # Null

-----------------------------------------------------------------------------
(***************************************************************************)
(* Sending.  rest is what remains of net once the handled frame is taken.  *)
(***************************************************************************)

\* The report goes to the parent; the root's one leaves through gate 0.
UpdateReq(p, first, tid, recs) ==
    [kind |-> IF first = NOID THEN "UPRQC" ELSE "UPRQ", source |-> p,
     destination |-> IF first = NOID THEN Collector ELSE first,
     report |-> recs, treeID |-> tid, ttl |-> MaxDelay]

\* sendUpReq, called with csessions = cs and the provers recs aggregated.
sendUpReq(p, first, tid, cs, recs, rest) ==
    LET own == recs \cup {p} IN
    /\ aggreport' = [aggreport EXCEPT ![p] = own]
    /\ net' = rest \cup {UpdateReq(p, first, tid, own)}
    /\ csess' = [csess EXCEPT ![p] = cs \ {NOID}]
    /\ pfirst' = [pfirst EXCEPT ![p] = NOID]
    /\ psecond' = [psecond EXCEPT ![p] = Null]
    /\ status' = [status EXCEPT ![p] = "FINISHED"]

\* Mutant: the levels are counted upwards.
childDepth_up(second) == second.depth + 1

\* The depth announced to the children of a prover that has a parent.
childDepth(second) == second.depth - 1

\* Mutant: a pending timeout is left as it is.
awaitResponses_kept(p, tid) ==
    crespto' = IF crespto[p].t # Off THEN crespto
               ELSE [crespto EXCEPT ![p] = [treeID |-> tid, t |-> timeoutresp]]

\* cresptomsg is cancelled and scheduled for the tree of this period.
awaitResponses(p, tid) ==
    crespto' = [crespto EXCEPT ![p] = [treeID |-> tid, t |-> timeoutresp]]

\* sendCommitReq past its first tests: every neighbour is invited.
sendCommitReq(p, first, second, tid, rest) ==
    \E t \in IF first = NOID THEN TreeId ELSE {tid} :
       LET sess == IF first = NOID THEN [treeID |-> t, depth |-> maxdepth]
                   ELSE second
           depth == IF first = NOID THEN maxdepth ELSE childDepth(second)
       IN
       /\ status' = [status EXCEPT ![p] = "CREATING"]
       /\ psecond' = [psecond EXCEPT ![p] = sess]
       /\ csess' = [csess EXCEPT ![p] = @ \cup {NOID}]
       /\ awaitResponses(p, t)
       /\ net' = rest \cup
                 {[kind |-> "CMRQ", source |-> p, destination |-> q,
                   depth |-> depth, treeID |-> t, ttl |-> MaxDelay] :
                     q \in Neighbours(p)}
       /\ pfirst' = [pfirst EXCEPT ![p] = first]
       /\ UNCHANGED aggreport

-----------------------------------------------------------------------------
(***************************************************************************)
(* Self-messages.                                                          *)
(***************************************************************************)

\* A period starts, and with it the timer of the next one; the timeouts of
\* the last one are left as they are.
startAttestation(p) ==
    /\ ~Ended
    /\ attest[p] = 0
    /\ status' = [status EXCEPT ![p] = "CHECKING"]
    /\ csess' = [csess EXCEPT ![p] = {}]
    /\ pfirst' = [pfirst EXCEPT ![p] = NOID]
    /\ psecond' = [psecond EXCEPT ![p] = Null]
    /\ aggreport' = [aggreport EXCEPT ![p] = {}]
    /\ period' = [period EXCEPT ![p] = IF @ = 0 THEN 1 ELSE 2]
    /\ attest' = [attest EXCEPT ![p] = deltah[links]]
    /\ check' = [check EXCEPT ![p] = firmware[p]]
    /\ UNCHANGED <<links, mktree, cackto, crespto, net, collected>>

\* The root opens the tree as soon as its firmware is checked.
checkSoftConfig(p) ==
    /\ ~Ended
    /\ check[p] = 0
    /\ check' = [check EXCEPT ![p] = Off]
    /\ status' = [status EXCEPT ![p] = "READY"]
    /\ mktree' = (mktree \/ p = root)
    /\ UNCHANGED <<links, sessions, aggreport, attest, cackto, crespto, net,
                   collected, period>>

\* Checks that end now were scheduled before startmsg and come first.
checksDone == \A p \in Prover : check[p] # 0

\* MKTREE at the root: sendCommitReq(NOID).
mkTree ==
    /\ ~Ended
    /\ mktree
    /\ checksDone
    /\ mktree' = FALSE
    /\ IF status[root] = "ATTESTING"
       THEN /\ status' = [status EXCEPT ![root] = "ATTESTING_CREATING"]
            /\ UNCHANGED <<sessions, aggreport, crespto, net>>
       ELSE sendCommitReq(root, pfirst[root], psecond[root], NOID, net)
    /\ UNCHANGED <<links, attest, check, cackto, collected, period>>

\* The parent did not answer.
handleCommitAckTimeOut(p) ==
    /\ ~Ended
    /\ cackto[p].t = 0
    /\ cackto' = [cackto EXCEPT ![p].t = Off]
    /\ IF cackto[p].dev # pfirst[p]
       THEN UNCHANGED <<status, sessions, aggreport, crespto, net>>
       ELSE IF status[p] = "ATTESTING_CREATING"
       THEN sendCommitReq(p, NOID, Null, NOID, net)
       ELSE /\ status' = [status EXCEPT ![p] = "READY"]
            /\ pfirst' = [pfirst EXCEPT ![p] = NOID]
            /\ psecond' = [psecond EXCEPT ![p] = Null]
            /\ UNCHANGED <<csess, aggreport, crespto, net>>
    /\ UNCHANGED <<links, attest, check, mktree, collected, period>>

\* No more responses are accepted.
handleCommitRespTimeOut(p) ==
    /\ ~Ended
    /\ crespto[p].t = 0
    /\ crespto' = [crespto EXCEPT ![p].t = Off]
    /\ IF Cardinality(csess[p]) = 1
       THEN sendUpReq(p, pfirst[p], crespto[p].treeID, csess[p],
                      aggreport[p], net)
       ELSE /\ status' = [status EXCEPT ![p] = "COLLECTING"]
            /\ UNCHANGED <<sessions, aggreport, net>>
    /\ UNCHANGED <<links, attest, check, mktree, cackto, collected, period>>

-----------------------------------------------------------------------------
(***************************************************************************)
(* Frames received by prover p.                                            *)
(***************************************************************************)

\* A timeout for an ack of the last period would be in the way of the next.
ackScheduled(p) == status[p] = "READY" /\ cackto[p].t # Off

\* An invitation is accepted by a READY prover (any two key rings of 300 out
\* of 301 keys share one).
handleCommitReq(p, m) ==
    /\ m.kind = "CMRQ"
    /\ ~ackScheduled(p)
    /\ IF status[p] = "READY"
       THEN /\ pfirst' = [pfirst EXCEPT ![p] = m.source]
            /\ psecond' = [psecond EXCEPT
                             ![p] = [treeID |-> m.treeID, depth |-> m.depth]]
            /\ status' = [status EXCEPT ![p] = "ATTESTING"]
            /\ net' = (net \ {m}) \cup
                      {[kind |-> "CMRP", source |-> p,
                        destination |-> m.source, treeID |-> m.treeID,
                        ttl |-> MaxDelay]}
            /\ cackto' = [cackto EXCEPT
                            ![p] = [dev |-> m.source, t |-> timeoutack]]
       ELSE /\ net' = net \ {m}
            /\ UNCHANGED <<pfirst, psecond, status, cackto>>
    /\ UNCHANGED <<csess, aggreport, crespto>>

\* Mutant: the ack's timeout stays scheduled.
acked_scheduled(p) == UNCHANGED cackto

acked(p) == cackto' = [cackto EXCEPT ![p].t = Off]

\* The parent accepted: at the last level the prover reports at once.
handleCommitAck(p, m) ==
    LET rest == net \ {m} IN
    /\ m.kind = "CMAK"
    /\ IF pfirst[p] # m.source
       THEN /\ net' = rest
            /\ UNCHANGED <<status, sessions, aggreport, cackto, crespto>>
       ELSE /\ acked(p)
            /\ IF psecond[p].depth = 1
               THEN /\ sendUpReq(p, m.source, m.treeID, csess[p],
                                 aggreport[p], rest)
                    /\ UNCHANGED crespto
               ELSE sendCommitReq(p, m.source, psecond[p], m.treeID, rest)

\* Mutant: one child less is accepted.
hasRoom_less(p) == csess[p] # {} /\ Cardinality(csess[p]) < MAXCHILDREN

\* csessions.size() - 1 < maxchildren, without a sign.
hasRoom(p) == csess[p] # {} /\ Cardinality(csess[p]) - 1 < MAXCHILDREN

\* A response makes a child while children are gathered.
handleCommitResp(p, m) ==
    LET accept == /\ status[p] = "CREATING"
                  /\ hasRoom(p)
                  /\ m.source \notin csess[p]
        full == Cardinality(csess[p]) = MAXCHILDREN
    IN
    /\ m.kind = "CMRP"
    /\ IF accept
       THEN /\ csess' = [csess EXCEPT ![p] = @ \cup {m.source}]
            /\ net' = (net \ {m}) \cup
                      {[kind |-> "CMAK", source |-> p,
                        destination |-> m.source, treeID |-> m.treeID,
                        ttl |-> MaxDelay]}
            /\ status' = IF full THEN [status EXCEPT ![p] = "COLLECTING"]
                         ELSE status
            /\ crespto' = IF full THEN [crespto EXCEPT ![p].t = Off]
                          ELSE crespto
       ELSE /\ net' = net \ {m}
            /\ UNCHANGED <<csess, status, crespto>>
    /\ UNCHANGED <<pfirst, psecond, aggreport, cackto>>

\* Mutant: reports are awaited only after the responses.
Awaited_collecting(p, m) ==
    /\ status[p] = "COLLECTING"
    /\ m.source \in csess[p]
    /\ m.treeID = psecond[p].treeID

\* The report of a child for the tree p is in.
Awaited(p, m) ==
    /\ status[p] \in {"COLLECTING", "CREATING"}
    /\ m.source \in csess[p]
    /\ m.treeID = psecond[p].treeID

\* Mutant: the entry of the tree itself is forgotten.
lastChild_none(cs) == cs = {}

\* Nobody but the tree itself is left in csessions.
lastChild(cs) == Cardinality(cs) = 1

\* A report: aggregated if it is awaited.  A prover that has finished sends
\* it to the collector, through gate 0.
handleUpReq(p, m) ==
    LET rest == net \ {m}
        cs == csess[p] \ {m.source}
        recs == aggreport[p] \cup m.report
        passOn == m.kind = "UPRQF" \/ status[p] = "FINISHED"
    IN
    /\ m.kind \in {"UPRQ", "UPRQF"}
    /\ IF passOn \/ ~Awaited(p, m)
       THEN /\ net' = rest \cup
                      IF passOn
                      THEN {[m EXCEPT !.kind = "UPRQF", !.ttl = MaxDelay,
                                      !.destination = Gate0(p)]}
                      ELSE {}
            /\ UNCHANGED <<status, sessions, aggreport>>
       ELSE IF lastChild(cs)
       THEN sendUpReq(p, pfirst[p], m.treeID, cs, recs, rest)
       ELSE /\ csess' = [csess EXCEPT ![p] = cs]
            /\ aggreport' = [aggreport EXCEPT ![p] = recs]
            /\ net' = rest
            /\ UNCHANGED <<status, pfirst, psecond>>
    /\ UNCHANGED <<cackto, crespto>>

receive(p) ==
    /\ ~Ended
    /\ \E m \in net :
          /\ m.destination = p
          /\ \/ handleCommitReq(p, m)
             \/ handleCommitAck(p, m)
             \/ handleCommitResp(p, m)
             \/ handleUpReq(p, m)
    /\ UNCHANGED <<links, attest, check, mktree, collected, period>>

\* An invitation to a prover whose cacktomsg is still scheduled: sendCommitResp
\* schedules it again, which the simulator answers with an error.
scheduleTwice(p) ==
    /\ ~Ended
    /\ \E m \in net : m.destination = p /\ m.kind = "CMRQ"
    /\ ackScheduled(p)
    /\ collected' = Aborted
    /\ UNCHANGED <<links, status, sessions, aggreport, timers, net, period>>

\* ACollector::handleUpReq: the report ends the simulation.
collect ==
    /\ ~Ended
    /\ \E m \in net : /\ m.destination = Collector
                      /\ net' = net \ {m}
                      /\ collected' = m.report
    /\ UNCHANGED <<links, status, sessions, aggreport, timers, period>>

-----------------------------------------------------------------------------
Countdowns(p) == {attest[p], check[p], cackto[p].t, crespto[p].t}

dec(t) == IF t > 0 THEN t - 1 ELSE t

\* Time passes when nothing is due.
Tick ==
    /\ ~Ended
    /\ ~mktree
    /\ \A p \in Prover : 0 \notin Countdowns(p)
    /\ \A m \in net : m.ttl > 0
    /\ attest' = [p \in Prover |-> dec(attest[p])]
    /\ check' = [p \in Prover |-> dec(check[p])]
    /\ cackto' = [p \in Prover |-> [cackto[p] EXCEPT !.t = dec(@)]]
    /\ crespto' = [p \in Prover |-> [crespto[p] EXCEPT !.t = dec(@)]]
    /\ net' = {[m EXCEPT !.ttl = @ - 1] : m \in net}
    /\ UNCHANGED <<links, status, sessions, aggreport, mktree, collected, period>>

\* The simulation has ended; until then attesttimer is always pending.
Over == Ended /\ UNCHANGED vars

Event ==
    \/ \E p \in Prover :
          \/ startAttestation(p)
          \/ checkSoftConfig(p)
          \/ handleCommitAckTimeOut(p)
          \/ handleCommitRespTimeOut(p)
          \/ receive(p)
          \/ scheduleTwice(p)
    \/ mkTree
    \/ collect
    \/ Tick

Next == Event \/ Over

Spec == Init /\ [][Next]_vars

\* The simulator goes on while an event is pending.
FairSpec == Spec /\ WF_vars(Event)
-----------------------------------------------------------------------------
(***************************************************************************)
(* Properties.                                                             *)
(***************************************************************************)

Status == {"JOINING", "CHECKING", "READY", "ATTESTING", "ATTESTING_CREATING",
           "CREATING", "COLLECTING", "FINISHED"}

\* Types; in particular no level of the tree is beyond maxdepth or below 1.
WiredTypeOK ==
    /\ status \in [Prover -> Status]
    /\ pfirst \in [Prover -> Dev]
    /\ psecond \in [Prover -> [treeID : TreeId, depth : 1..maxdepth] \cup {Null}]
    /\ csess \in [Prover -> SUBSET Dev]
    /\ aggreport \in [Prover -> SUBSET Prover]
    /\ \A m \in net : /\ m.source \in Prover
                      /\ m.destination \in Prover \cup {Collector}
                      /\ m.ttl \in 0..MaxDelay
    /\ collected \in (SUBSET Prover) \cup {Null, Aborted}

\* The tree has not outlived its period.
InPeriod == \A p \in Prover : period[p] <= 1

\* p may have all its neighbours as children, except its parent.
Spacious(p) ==
    Cardinality(Neighbours(p)) <= IF p = root THEN MAXCHILDREN ELSE MAXCHILDREN + 1

\* Nor has a prover to refuse children, as in the networks of omnetpp.ini.
Fits == InPeriod /\ \A p \in Prover : Spacious(p)

\* The experiment measures what it is meant to: the report that ends the
\* simulation has a record of every prover, although nothing but the timing
\* of checks, responses and acks keeps a prover from being left out.
Complete == collected # Null /\ Fits => collected = Prover

\* A parent that waits for a child without a timeout waits for a prover that
\* still waits for its ack, is in the tree below it, or has reported to it.
ChildCommitted ==
    InPeriod => \A p \in Prover : \A c \in csess[p] \ {NOID} :
       \/ pfirst[c] = p
       \/ \E m \in net : m.kind = "UPRQ" /\ m.source = c /\ m.destination = p

\* No report is dropped as unexpected or sent on its way through gate 0,
\* which leads to the collector at the root only.
ReportAwaited ==
    \A m \in net : Fits /\ m.kind = "UPRQ" => Awaited(m.destination, m)

\* startAttestation leaves the timeouts of the last period scheduled; still
\* the timeout for responses, which ends the gathering of children and names
\* the tree of a report, is that of the tree the prover is in.
TimeoutsCurrent ==
    \A p \in Prover :
       NOID \in csess[p] /\ crespto[p].t # Off
          => crespto[p].treeID = psecond[p].treeID

\* The most levels that a tree can have below its root.
MaxLevels == IF maxdepth < Cardinality(Prover) THEN maxdepth
             ELSE Cardinality(Prover) - 1

\* The period is long enough for any tree: the root's check, three frames
\* down each level, the timeout for responses at the last one, and the reports.
Ample ==
    deltah[links] > firmware[root] + timeoutresp + (4 * MaxLevels + 1) * MaxDelay

\* If its period is long enough for a tree, the experiment ends in it with a
\* report, and never because scheduleAt finds a timeout still scheduled.
\* (A tree that every period cuts off would never reach the collector:
\* startAttestation always starts the timer of the next period.)
EventuallyCollected ==
    Ample => <>(collected \notin {Null, Aborted} /\ InPeriod)
=============================================================================
