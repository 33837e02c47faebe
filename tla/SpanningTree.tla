---------------------------- MODULE SpanningTree ----------------------------
(***************************************************************************)
(* The commit and update protocol of FADIA provers (AProver.cpp) in the    *)
(* wireless build (WIRELESS, ENERGY_TEST; SCENARIO FADIA).                 *)
(*                                                                         *)
(* In every attestation period a prover checks its firmware, then waits to *)
(* be invited into a spanning tree (CommitReq / CommitResp / CommitAck) or *)
(* opens a tree of its own when its tree timer expires.  Reports travel up *)
(* the tree as UpdateReq and the root's one goes to the collector.         *)
(*                                                                         *)
(* One action models one self-message or one received message handled by   *)
(* ADevice::handleMessage, with every call the handler makes.  A pending   *)
(* self-message is a countdown, Off when it is not scheduled; time passes  *)
(* in Tick, never beyond an expired countdown.  A frame takes 0..MaxDelay  *)
(* time units (MAC computation, carrier sensing, transmission) and frames  *)
(* overtake each other, as the queue of the link layer allows.             *)
(***************************************************************************)
EXTENDS Integers, FiniteSets

CONSTANTS
    Prover,         \* the UIds of the provers
    Key, KeyRing,   \* key ids, and the key ring of each prover
    ckey,           \* the key shared with the collector
    TreeId,         \* the values a random tree id can take
    Null,           \* the null session pointer
    Selfish,        \* provers initialised as selfish
    Battery,        \* battery levels met, in percent
    statadapt,      \* whether the provers adapt to their battery level
    MAXCHILDREN, maxdepth,
    timeoutack, timeoutresp, timeoutup,
    deltah,         \* length of an attestation period
    firmware,       \* duration of the firmware check of each prover
    StartPhase,     \* when the first period of a prover may start
    Fallible,       \* provers whose battery can run out
    MAX_CRASH,      \* crashes that end the simulation
    MaxDelay,       \* bound: longest delay of a frame
    MaxPeriod       \* bound: periods modelled per prover

NOID == 0
Off == -1
Collector == -1       \* the address of the collector
Dev == Prover \cup {NOID}

ASSUME ProverAssumption ==
    /\ Prover \subseteq Nat \ {NOID}
    /\ IsFiniteSet(Prover)
    /\ Selfish \subseteq Prover
    /\ Fallible \subseteq Prover
    /\ TreeId \subseteq Nat

ASSUME KeyAssumption ==
    /\ Key \subseteq Nat
    /\ ckey \notin Key
    /\ KeyRing \in [Prover -> SUBSET Key]

ASSUME TimeAssumption ==
    /\ {timeoutack, timeoutresp, timeoutup, deltah} \subseteq Nat \ {0}
    /\ firmware \in [Prover -> Nat]
    /\ StartPhase \subseteq 0..deltah
    /\ {MaxDelay, MAX_CRASH, MaxPeriod} \subseteq Nat

ASSUME TreeAssumption ==
    /\ maxdepth \in Nat \ {0}
    /\ MAXCHILDREN \in Nat
    /\ Battery \subseteq 0..100
    /\ statadapt \in BOOLEAN

\* Mutant: a wait below zero is kept.
deltag_unclamped == deltah - (timeoutresp + timeoutack) * maxdepth - timeoutup

\* Mutant: the timeouts of one level only are set aside.
deltag_onelevel ==
    LET d == deltah - (timeoutresp + timeoutack) - timeoutup
    IN IF d < 0 THEN 0 ELSE d

(***************************************************************************)
(* The time left for waiting to be invited: what remains of a period after *)
(* the timeouts of a tree of depth maxdepth.                               *)
(***************************************************************************)
deltag ==
    LET d == deltah - (timeoutresp + timeoutack) * maxdepth - timeoutup
    IN IF d < 0 THEN 0 ELSE d

(***************************************************************************)
(* What is left of a period when a prover has opened its tree as late as   *)
(* it can: after the firmware check, the wait and an unanswered response.  *)
(* It exceeds the time the prover then gathers children for, and the time  *)
(* the three frames of a handshake take.                                   *)
(***************************************************************************)
Slack(p) == deltah - firmware[p] - deltag - timeoutack

ASSUME TimingAssumption ==
    \A p \in Prover : Slack(p) > timeoutresp /\ Slack(p) > 3 * MaxDelay

\* The child limit at battery level per: 0 at 10 percent, MAXCHILDREN at 90
\* percent, linear in between and beyond, rounded up; below one it is none.
CHILDREN(per) ==
    LET v == MAXCHILDREN * (per - 10)       \* in 80ths of a child
    IN IF v < 80 THEN 0 ELSE (v + 79) \div 80

updateMaxChildren(p, per) ==
    IF p \in Selfish THEN 0 ELSE CHILDREN(per)

chooseTreeDelay(p, per) ==
    IF p \in Selfish THEN 0 ELSE (deltag * per) \div 100

-----------------------------------------------------------------------------
Status == {"OFFLINE", "JOINING", "CHECKING", "READY", "ATTESTING",
           "ATTESTING_CREATING", "CREATING", "COLLECTING", "FINISHED"}

Timer == Nat \cup {Off}
Record == Prover \X Nat            \* a device and its attestation counter
Reports == {r \in SUBSET Record : IsFiniteSet(r)}

Depth == 1..maxdepth               \* levels of the tree still allowed

ParentSession == [treeID : TreeId, keyID : Key \cup {ckey}, depth : Depth]

\* tomsg is the countdown of the update timeout the session points to.
ChildSession == [treeID : TreeId, tomsg : Timer]

CommitReq == [kind : {"CMRQ"}, source : Prover, destination : Prover,
              depth : Depth, treeID : TreeId, ttl : 0..MaxDelay]
CommitResp == [kind : {"CMRP"}, source : Prover, destination : Prover,
               kid : Key, treeID : TreeId, ttl : 0..MaxDelay]
CommitAck == [kind : {"CMAK"}, source : Prover, destination : Prover,
              treeID : TreeId, ttl : 0..MaxDelay]
UpdateReq == [kind : {"UPRQ"}, source : Prover, destination : Prover,
              report : Reports, treeID : TreeId, ttl : 0..MaxDelay]
             \cup
             [kind : {"UPRQC", "UPRQF"}, source : Prover,
              destination : {Collector},
              report : Reports, treeID : TreeId, ttl : 0..MaxDelay]
Message == CommitReq \cup CommitResp \cup CommitAck \cup UpdateReq

ASSUME NullAssumption == Null \notin ParentSession \cup ChildSession

VARIABLES
    status, maxchildren, attestcount,
    pfirst, psecond,    \* psessions.first and psessions.second
    csess,              \* csessions: a session or Null for each device
    aggreport,          \* the records aggregated in this period
    attest,             \* startmsg, then attesttimer
    check, mktree,      \* checkdelaymsg, mktreetimer
    cackto,             \* cacktomsg: countdown t and device dev
    crespto,            \* cresptomsg: countdown t and tree treeID
    orphan,             \* update timeouts whose session was deleted
    net,                \* frames on their way
    sum,                \* the collector's total of attested devices
    crashed,            \* provers out of energy
    period,             \* periods started
    reported,           \* history: has reported in this period
    received,           \* history: records that reached the collector
    dropped             \* history: records in reports a live prover dropped

timers == <<attest, check, mktree, cackto, crespto, orphan>>
sessions == <<pfirst, psecond, csess>>
report == <<aggreport, attestcount, reported>>
collector == <<sum, received>>
vars == <<status, maxchildren, sessions, report, timers, net, collector,
          crashed, period, dropped>>
-----------------------------------------------------------------------------
Init ==
    /\ status = [p \in Prover |-> "FINISHED"]
    /\ maxchildren = [p \in Prover |-> MAXCHILDREN]
    /\ attestcount = [p \in Prover |-> 0]
    /\ pfirst = [p \in Prover |-> NOID]
    /\ psecond = [p \in Prover |-> Null]
    /\ csess = [p \in Prover |-> [d \in Dev |-> Null]]
    /\ aggreport = [p \in Prover |-> {}]
    /\ attest \in [Prover -> StartPhase]
    /\ check = [p \in Prover |-> Off]
    /\ mktree = [p \in Prover |-> Off]
    /\ cackto = [p \in Prover |-> [dev |-> NOID, t |-> Off]]
    /\ crespto = [p \in Prover |-> [treeID |-> NOID, t |-> Off]]
    /\ orphan = [p \in Prover |-> {}]
    /\ net = {}
    /\ sum = 0
    /\ crashed = {}
    /\ period = [p \in Prover |-> 0]
    /\ reported = [p \in Prover |-> FALSE]
    /\ received = {}
    /\ dropped = {}

\* endSimulation has been called.
Ended == Cardinality(crashed) >= MAX_CRASH

\* A crashed prover ignores every message, its own ones included.
Alive(p) == p \notin crashed /\ ~Ended

\* Whom csessions has an entry for (NOID is the entry of the tree itself).
Members(cs) == {d \in Dev : cs[d] # Null}
size(cs) == Cardinality(Members(cs))

\* The update timeouts of a prover's sessions, still scheduled.
SessionTimeouts(p) ==
    {[dev |-> d, treeID |-> csess[p][d].treeID, t |-> csess[p][d].tomsg] :
        d \in {c \in Members(csess[p]) : csess[p][c].tomsg # Off}}

-----------------------------------------------------------------------------
(***************************************************************************)
(* Sending.  rest is what remains of net once the handled frame is taken.  *)
(***************************************************************************)

\* The report goes to the parent if it is in range when the frame leaves,
\* otherwise straight to the collector; a root's one goes to the collector.
UpdateReqs(p, first, tid, recs) ==
    LET M(k, d) == [kind |-> k, source |-> p, destination |-> d,
                    report |-> recs, treeID |-> tid, ttl |-> MaxDelay]
    IN IF first = NOID THEN {M("UPRQC", Collector)}
       ELSE {M("UPRQ", first), M("UPRQF", Collector)}

\* Mutant: the session of the tree is kept.
closeTree_kept(cs) == cs

\* The session of the tree itself is erased once the report is sent.
closeTree(cs) == [cs EXCEPT ![NOID] = Null]

\* Mutant: the record carries the counter of the last one.
addOwnReport_stale(p, recs) == recs \cup {<<p, attestcount[p]>>}

\* The prover's own record joins the records recs.
addOwnReport(p, recs) == recs \cup {<<p, attestcount[p] + 1>>}

\* sendUpReq, called with csessions = cs and the records recs aggregated.
sendUpReq(p, first, tid, cs, recs, rest) ==
    LET own == addOwnReport(p, recs) IN
    /\ attestcount' = [attestcount EXCEPT ![p] = @ + 1]
    /\ aggreport' = [aggreport EXCEPT ![p] = own]
    /\ reported' = [reported EXCEPT ![p] = TRUE]
    /\ \E m \in UpdateReqs(p, first, tid, own) : net' = rest \cup {m}
    /\ csess' = [csess EXCEPT ![p] = closeTree(cs)]
    /\ pfirst' = [pfirst EXCEPT ![p] = NOID]
    /\ psecond' = [psecond EXCEPT ![p] = Null]
    /\ status' = [status EXCEPT ![p] = "FINISHED"]

RootSession(t) == [treeID |-> t, keyID |-> ckey, depth |-> maxdepth]

\* Mutant: every level announces the same depth.
childDepth_constant(second) == second.depth

\* The depth announced to the children of a prover that has a parent.
childDepth(second) == second.depth - 1

\* Inviting the provers near, whoever they are at that moment.
Invite(p, first, sess, depth, tid, rest) ==
    /\ status' = [status EXCEPT ![p] = "CREATING"]
    /\ pfirst' = [pfirst EXCEPT ![p] = first]
    /\ psecond' = [psecond EXCEPT ![p] = sess]
    /\ csess' = [csess EXCEPT ![p][NOID] = [treeID |-> tid, tomsg |-> Off]]
    /\ crespto' = [crespto EXCEPT ![p] = [treeID |-> tid, t |-> timeoutresp]]
    /\ \E near \in SUBSET (Prover \ {p}) :
          net' = rest \cup
                 {[kind |-> "CMRQ", source |-> p, destination |-> q,
                   depth |-> depth, treeID |-> tid, ttl |-> MaxDelay] :
                     q \in near}
    /\ UNCHANGED report

\* sendCommitReq past its first test (the prover is not ATTESTING), called
\* with psessions = (first, second).
sendCommitReq(p, first, second, tid, rest) ==
    \/ /\ maxchildren[p] = 0
       /\ \E t \in TreeId :
             sendUpReq(p, first, t, csess[p], aggreport[p], rest)
       /\ UNCHANGED crespto
    \/ /\ maxchildren[p] # 0
       /\ first = NOID
       /\ \E t \in TreeId :
             Invite(p, first, RootSession(t), maxdepth, t, rest)
    \/ /\ maxchildren[p] # 0
       /\ first # NOID
       /\ Invite(p, first, second, childDepth(second), tid, rest)

-----------------------------------------------------------------------------
(***************************************************************************)
(* Self-messages.                                                          *)
(***************************************************************************)

\* Mutant: the records of the last period are kept.
clearReport_kept(p) == UNCHANGED aggreport

\* The uids, counters and proofs of the last period are cleared.
clearReport(p) == aggreport' = [aggreport EXCEPT ![p] = {}]

\* A new period: sessions and report are dropped, but no timeout of the old
\* period is cancelled.
startAttestation(p) ==
    /\ Alive(p)
    /\ attest[p] = 0
    /\ status' = [status EXCEPT ![p] = "CHECKING"]
    /\ orphan' = [orphan EXCEPT ![p] = @ \cup SessionTimeouts(p)]
    /\ csess' = [csess EXCEPT ![p] = [d \in Dev |-> Null]]
    /\ pfirst' = [pfirst EXCEPT ![p] = NOID]
    /\ psecond' = [psecond EXCEPT ![p] = Null]
    /\ clearReport(p)
    /\ reported' = [reported EXCEPT ![p] = FALSE]
    /\ \E per \in Battery :
          /\ maxchildren' = IF statadapt
                            THEN [maxchildren EXCEPT
                                    ![p] = updateMaxChildren(p, per)]
                            ELSE maxchildren
          /\ mktree' = [mktree EXCEPT
                          ![p] = firmware[p] + IF statadapt
                                               THEN chooseTreeDelay(p, per)
                                               ELSE deltag]
    /\ check' = [check EXCEPT ![p] = firmware[p]]
    /\ period' = [period EXCEPT ![p] = @ + 1]
    /\ attest' = [attest EXCEPT
                    ![p] = IF period[p] + 1 < MaxPeriod THEN deltah ELSE Off]
    /\ UNCHANGED <<attestcount, cackto, crespto, net, collector, crashed,
                   dropped>>

checkSoftConfig(p) ==
    /\ Alive(p)
    /\ check[p] = 0
    /\ check' = [check EXCEPT ![p] = Off]
    /\ status' = [status EXCEPT ![p] = "READY"]
    /\ UNCHANGED <<maxchildren, sessions, report, attest, mktree, cackto,
                   crespto, orphan, net, collector, crashed, period, dropped>>

\* MKTREE: sendCommitReq(NOID).  When both expire together the firmware
\* check, scheduled first, comes first.
mkTree(p) ==
    /\ Alive(p)
    /\ mktree[p] = 0
    /\ check[p] # 0
    /\ mktree' = [mktree EXCEPT ![p] = Off]
    /\ \/ /\ status[p] = "ATTESTING"
          /\ status' = [status EXCEPT ![p] = "ATTESTING_CREATING"]
          /\ UNCHANGED <<sessions, report, crespto, net>>
       \/ /\ status[p] # "ATTESTING"
          /\ sendCommitReq(p, pfirst[p], psecond[p], NOID, net)
    /\ UNCHANGED <<maxchildren, attest, check, cackto, orphan, collector,
                   crashed, period, dropped>>

\* The session with the parent is deleted.
dropParent(p) ==
    /\ pfirst' = [pfirst EXCEPT ![p] = NOID]
    /\ psecond' = [psecond EXCEPT ![p] = Null]

\* Mutant: the parent that did not answer is kept.
handleCommitAckTimeOut_kept(p) ==
    /\ Alive(p)
    /\ cackto[p].t = 0
    /\ cackto' = [cackto EXCEPT ![p].t = Off]
    /\ \/ /\ cackto[p].dev # pfirst[p]
          /\ UNCHANGED <<status, sessions, report, crespto, net>>
       \/ /\ cackto[p].dev = pfirst[p]
          /\ status[p] = "ATTESTING_CREATING"
          /\ sendCommitReq(p, pfirst[p], psecond[p], psecond[p].treeID, net)
       \/ /\ cackto[p].dev = pfirst[p]
          /\ status[p] # "ATTESTING_CREATING"
          /\ status' = [status EXCEPT ![p] = "READY"]
          /\ dropParent(p)
          /\ UNCHANGED <<csess, report, crespto, net>>
    /\ UNCHANGED <<maxchildren, attest, check, mktree, orphan, collector,
                   crashed, period, dropped>>

\* The parent did not answer: back to waiting, or on to a tree of one's own
\* if the time to open it came in between.
handleCommitAckTimeOut(p) ==
    /\ Alive(p)
    /\ cackto[p].t = 0
    /\ cackto' = [cackto EXCEPT ![p].t = Off]
    /\ \/ /\ cackto[p].dev # pfirst[p]
          /\ UNCHANGED <<status, sessions, report, crespto, net>>
       \/ /\ cackto[p].dev = pfirst[p]
          /\ status[p] = "ATTESTING_CREATING"
          /\ sendCommitReq(p, NOID, Null, NOID, net)
       \/ /\ cackto[p].dev = pfirst[p]
          /\ status[p] # "ATTESTING_CREATING"
          /\ status' = [status EXCEPT ![p] = "READY"]
          /\ dropParent(p)
          /\ UNCHANGED <<csess, report, crespto, net>>
    /\ UNCHANGED <<maxchildren, attest, check, mktree, orphan, collector,
                   crashed, period, dropped>>

\* Mutant: a tree that is closed already counts as one without children.
handleCommitRespTimeOut_closed(p) ==
    /\ Alive(p)
    /\ crespto[p].t = 0
    /\ crespto' = [crespto EXCEPT ![p].t = Off]
    /\ IF size(csess[p]) <= 1
       THEN sendUpReq(p, pfirst[p], crespto[p].treeID, csess[p],
                      aggreport[p], net)
       ELSE /\ status' = [status EXCEPT ![p] = "COLLECTING"]
            /\ UNCHANGED <<sessions, report, net>>
    /\ UNCHANGED <<maxchildren, attest, check, mktree, cackto, orphan,
                   collector, crashed, period, dropped>>

\* No more responses are accepted.
handleCommitRespTimeOut(p) ==
    /\ Alive(p)
    /\ crespto[p].t = 0
    /\ crespto' = [crespto EXCEPT ![p].t = Off]
    /\ IF size(csess[p]) = 1
       THEN sendUpReq(p, pfirst[p], crespto[p].treeID, csess[p],
                      aggreport[p], net)
       ELSE /\ status' = [status EXCEPT ![p] = "COLLECTING"]
            /\ UNCHANGED <<sessions, report, net>>
    /\ UNCHANGED <<maxchildren, attest, check, mktree, cackto, orphan,
                   collector, crashed, period, dropped>>

\* A child did not report in time.  The timeout is that of its session or,
\* its session deleted by startAttestation or by another timeout, an orphan.
handleUpdateTimeOut(p) ==
    /\ Alive(p)
    /\ \E d \in Prover, t \in TreeId :
          /\ \/ /\ csess[p][d] = [treeID |-> t, tomsg |-> 0]
                /\ UNCHANGED orphan
             \/ /\ [dev |-> d, treeID |-> t, t |-> 0] \in orphan[p]
                /\ orphan' = [orphan EXCEPT
                                ![p] = (@ \ {[dev |-> d, treeID |-> t,
                                              t |-> 0]})
                                       \cup {o \in SessionTimeouts(p) :
                                                o.dev = d}]
          /\ LET cs == [csess[p] EXCEPT ![d] = Null] IN
             IF size(cs) = 1
             THEN sendUpReq(p, pfirst[p], t, cs, aggreport[p], net)
             ELSE /\ csess' = [csess EXCEPT ![p] = cs]
                  /\ UNCHANGED <<status, pfirst, psecond, report, net>>
    /\ UNCHANGED <<maxchildren, attest, check, mktree, cackto, crespto,
                   collector, crashed, period, dropped>>

-----------------------------------------------------------------------------
(***************************************************************************)
(* Frames received by prover p.                                            *)
(***************************************************************************)

Shared(p, m) == KeyRing[m.source] \cap KeyRing[p]

\* Mutant: an attesting prover answers as well.
acceptsReq_attesting(p, m) ==
    /\ status[p] \in {"READY", "ATTESTING", "ATTESTING_CREATING"}
    /\ Shared(p, m) # {}

\* Only a READY prover answers, if it shares a key with the sender.
acceptsReq(p, m) == status[p] = "READY" /\ Shared(p, m) # {}

\* An invitation: accepted only by a READY prover that shares a key with the
\* sender; the key is the first of the sender's ring that it holds.
handleCommitReq(p, m) ==
    LET kid == CHOOSE k \in Shared(p, m) : \A l \in Shared(p, m) : k <= l IN
    /\ m.kind = "CMRQ"
    /\ IF acceptsReq(p, m)
       THEN /\ pfirst' = [pfirst EXCEPT ![p] = m.source]
            /\ psecond' = [psecond EXCEPT
                             ![p] = [treeID |-> m.treeID, keyID |-> kid,
                                     depth |-> m.depth]]
            /\ status' = [status EXCEPT ![p] = "ATTESTING"]
            /\ net' = (net \ {m}) \cup
                      {[kind |-> "CMRP", source |-> p,
                        destination |-> m.source, kid |-> kid,
                        treeID |-> m.treeID, ttl |-> MaxDelay]}
            /\ cackto' = [cackto EXCEPT
                            ![p] = [dev |-> m.source, t |-> timeoutack]]
       ELSE /\ net' = net \ {m}
            /\ UNCHANGED <<pfirst, psecond, status, cackto>>
    /\ UNCHANGED <<csess, report, mktree, crespto, dropped>>

\* The ack comes from the parent, and the key of the session is known.
acceptsAck(p, m) ==
    pfirst[p] = m.source /\ psecond[p].keyID \in KeyRing[p]

\* Mutant: the depth is ignored.
isLeaf_anydepth(p) == maxchildren[p] = 0

\* The depth is used up, or the battery allows no children.
isLeaf(p) == psecond[p].depth = 1 \/ maxchildren[p] = 0

\* The parent accepted: a leaf reports at once, the others invite in turn.
\* Neither the status nor the tree id of the ack is checked.
handleCommitAck(p, m) ==
    LET rest == net \ {m} IN
    /\ m.kind = "CMAK"
    /\ \/ /\ ~acceptsAck(p, m)
          /\ net' = rest
          /\ UNCHANGED <<status, sessions, report, mktree, cackto, crespto>>
       \/ /\ acceptsAck(p, m)
          /\ mktree' = [mktree EXCEPT ![p] = Off]
          /\ cackto' = [cackto EXCEPT ![p].t = Off]
          /\ IF isLeaf(p)
             THEN /\ sendUpReq(p, m.source, m.treeID, csess[p],
                               aggreport[p], rest)
                  /\ UNCHANGED crespto
             ELSE sendCommitReq(p, m.source, psecond[p], m.treeID, rest)
    /\ UNCHANGED dropped

\* Mutant: the update timeout is not scheduled.
updateDelay_off(p) == Off

\* How long the report of a child is awaited.
updateDelay(p) ==
    (timeoutack + timeoutresp) * (psecond[p].depth - 1) + timeoutup

\* A prover answers an invitation.  While the children are being gathered it
\* becomes one, with an update timeout that covers the depth below it.
handleCommitResp(p, m) ==
    LET n == size(csess[p])
        accept == /\ status[p] = "CREATING"
                  /\ n # 0 /\ n - 1 < maxchildren[p]
                  /\ csess[p][m.source] = Null
                  /\ m.kid \in KeyRing[p]
        full == n = maxchildren[p]
    IN
    /\ m.kind = "CMRP"
    /\ IF accept
       THEN /\ csess' = [csess EXCEPT
                           ![p][m.source] = [treeID |-> m.treeID,
                                             tomsg |-> updateDelay(p)]]
            /\ net' = (net \ {m}) \cup
                      {[kind |-> "CMAK", source |-> p,
                        destination |-> m.source, treeID |-> m.treeID,
                        ttl |-> MaxDelay]}
            /\ status' = IF full THEN [status EXCEPT ![p] = "COLLECTING"]
                         ELSE status
            /\ crespto' = IF full THEN [crespto EXCEPT ![p].t = Off]
                          ELSE crespto
       ELSE /\ net' = net \ {m}
            /\ UNCHANGED <<csess, status, crespto>>
    /\ UNCHANGED <<pfirst, psecond, report, mktree, cackto, dropped>>

\* A child's report: aggregated while children are gathered or awaited,
\* passed on to the collector once this prover has finished, dropped else.
handleUpReq(p, m) ==
    LET rest == net \ {m}
        cs == [csess[p] EXCEPT ![m.source] = Null]
        recs == aggreport[p] \cup m.report
        accept == /\ status[p] \in {"COLLECTING", "CREATING"}
                  /\ csess[p][m.source] # Null
                  /\ m.treeID = psecond[p].treeID
    IN
    /\ m.kind = "UPRQ"
    /\ \/ /\ status[p] = "FINISHED"
          /\ net' = rest \cup {[m EXCEPT !.kind = "UPRQF",
                                         !.destination = Collector,
                                         !.ttl = MaxDelay]}
          /\ UNCHANGED <<status, sessions, report, dropped>>
       \/ /\ status[p] # "FINISHED"
          /\ ~accept
          /\ net' = rest
          /\ dropped' = dropped \cup m.report
          /\ UNCHANGED <<status, sessions, report>>
       \/ /\ accept
          /\ IF size(cs) = 1
             THEN sendUpReq(p, pfirst[p], m.treeID, cs, recs, rest)
             ELSE /\ csess' = [csess EXCEPT ![p] = cs]
                  /\ aggreport' = [aggreport EXCEPT ![p] = recs]
                  /\ net' = rest
                  /\ UNCHANGED <<status, pfirst, psecond, attestcount,
                                 reported>>
          /\ UNCHANGED dropped
    /\ UNCHANGED <<mktree, cackto, crespto>>

\* handleMessage for a frame; a crashed prover leaves it unhandled.
receive(p) ==
    \E m \in net :
       /\ m.destination = p
       /\ ~Ended
       /\ \/ /\ p \in crashed
             /\ net' = net \ {m}
             /\ UNCHANGED <<status, sessions, report, mktree, cackto, crespto,
                            dropped>>
          \/ /\ p \notin crashed
             /\ \/ handleCommitReq(p, m)
                \/ handleCommitAck(p, m)
                \/ handleCommitResp(p, m)
                \/ handleUpReq(p, m)
       /\ UNCHANGED <<maxchildren, attest, check, orphan, collector, crashed,
                      period>>

\* ACollector::handleUpReq: the collector counts the devices of the report.
collect ==
    /\ ~Ended
    /\ \E m \in net :
          /\ m.destination = Collector
          /\ net' = net \ {m}
          /\ sum' = sum + Cardinality(m.report)
          /\ received' = received \cup m.report
    /\ UNCHANGED <<status, maxchildren, sessions, report, timers, crashed,
                   period, dropped>>

\* ADevice::sendCollector: a report m that waits at a prover for the collector
\* to be idle is forgotten when that prover sends another one n there.  Which
\* prover holds a frame is not modelled here (Link does), so any two count.
overwrite ==
    /\ ~Ended
    /\ \E m, n \in net :
          /\ m # n
          /\ m.destination = Collector /\ n.destination = Collector
          /\ net' = net \ {m}
    /\ UNCHANGED <<status, maxchildren, sessions, report, timers, collector,
                   crashed, period, dropped>>

-----------------------------------------------------------------------------
\* The battery of p is found empty when an energy event is handled.  From
\* then on its self-messages are ignored, so none is kept.
\* A frame of p in net is delivered.  In the code it is lost if p still computes
\* its MAC or holds it in msgqueue or pupmsg (ADevice::handleMessage ignores the
\* self-messages): for the others that is the crash one step earlier, which the
\* model takes as well.
crash(p) ==
    /\ Alive(p)
    /\ p \in Fallible
    /\ crashed' = crashed \cup {p}
    /\ attest' = [attest EXCEPT ![p] = Off]
    /\ check' = [check EXCEPT ![p] = Off]
    /\ mktree' = [mktree EXCEPT ![p] = Off]
    /\ cackto' = [cackto EXCEPT ![p].t = Off]
    /\ crespto' = [crespto EXCEPT ![p].t = Off]
    /\ orphan' = [orphan EXCEPT ![p] = {}]
    /\ csess' = [csess EXCEPT
                   ![p] = [d \in Dev |->
                             IF csess[p][d] = Null THEN Null
                             ELSE [csess[p][d] EXCEPT !.tomsg = Off]]]
    /\ UNCHANGED <<status, maxchildren, pfirst, psecond, report, net,
                   collector, period, dropped>>

\* The countdowns of prover p.
Countdowns(p) ==
    {attest[p], check[p], mktree[p], cackto[p].t, crespto[p].t}
    \cup {o.t : o \in orphan[p]}
    \cup {csess[p][d].tomsg : d \in Members(csess[p])}

dec(t) == IF t > 0 THEN t - 1 ELSE t

\* Time passes when nothing is due.
Tick ==
    /\ ~Ended
    /\ \A p \in Prover : 0 \notin Countdowns(p)
    /\ \A m \in net : m.ttl > 0
    /\ net # {} \/ \E p \in Prover : Countdowns(p) # {Off}
    /\ attest' = [p \in Prover |-> dec(attest[p])]
    /\ check' = [p \in Prover |-> dec(check[p])]
    /\ mktree' = [p \in Prover |-> dec(mktree[p])]
    /\ cackto' = [p \in Prover |-> [cackto[p] EXCEPT !.t = dec(@)]]
    /\ crespto' = [p \in Prover |-> [crespto[p] EXCEPT !.t = dec(@)]]
    /\ orphan' = [p \in Prover |-> {[o EXCEPT !.t = dec(@)] :
                                       o \in orphan[p]}]
    /\ csess' = [p \in Prover |->
                   [d \in Dev |-> IF csess[p][d] = Null THEN Null
                                  ELSE [csess[p][d] EXCEPT
                                          !.tomsg = dec(@)]]]
    /\ net' = {[m EXCEPT !.ttl = @ - 1] : m \in net}
    /\ UNCHANGED <<status, maxchildren, pfirst, psecond, report, collector,
                   crashed, period, dropped>>

\* The simulation is over: it was ended, or every prover has gone through
\* its MaxPeriod periods and nothing is pending.
Over ==
    /\ \/ Ended
       \/ net = {} /\ \A p \in Prover : Countdowns(p) = {Off}
    /\ UNCHANGED vars

\* What the simulator has scheduled: a self-message, a frame, or time.
Event ==
    \/ \E p \in Prover :
          \/ startAttestation(p)
          \/ checkSoftConfig(p)
          \/ mkTree(p)
          \/ handleCommitAckTimeOut(p)
          \/ handleCommitRespTimeOut(p)
          \/ handleUpdateTimeOut(p)
          \/ receive(p)
    \/ collect
    \/ Tick

Next ==
    \/ Event
    \/ overwrite
    \/ \E p \in Prover : crash(p)
    \/ Over

Spec == Init /\ [][Next]_vars

\* The simulator never stops while an event is pending.  No battery has to
\* run out and no report has to be forgotten.
FairSpec == Spec /\ WF_vars(Event)
-----------------------------------------------------------------------------
(***************************************************************************)
(* Properties.                                                             *)
(***************************************************************************)

SessionType ==
    /\ status \in [Prover -> Status]
    /\ maxchildren \in [Prover -> Nat]
    /\ pfirst \in [Prover -> Dev]
    /\ psecond \in [Prover -> ParentSession \cup {Null}]
    /\ csess \in [Prover -> [Dev -> ChildSession \cup {Null}]]

TimerType ==
    /\ attest \in [Prover -> Timer]
    /\ check \in [Prover -> Timer]
    /\ mktree \in [Prover -> Timer]
    /\ cackto \in [Prover -> [dev : Dev, t : Timer]]
    /\ crespto \in [Prover -> [treeID : TreeId \cup {NOID}, t : Timer]]
    /\ orphan \in [Prover -> SUBSET [dev : Prover, treeID : TreeId, t : Timer]]

ReportType ==
    /\ attestcount \in [Prover -> Nat]
    /\ aggreport \in [Prover -> Reports]
    /\ reported \in [Prover -> BOOLEAN]
    /\ sum \in Nat
    /\ received \subseteq Record
    /\ dropped \subseteq Record
    /\ crashed \subseteq Prover
    /\ period \in [Prover -> Nat]

\* Types.  The depth of a session or an invitation, an unsigned int that is
\* decremented at each level, never leaves 1..maxdepth.
TypeOK == SessionType /\ TimerType /\ ReportType /\ net \subseteq Message

NoChildren == [d \in Dev |-> Null]

\* psessions.second is dereferenced by handleCommitAck and sendCommitReq for
\* a prover with a parent, by handleUpReq, handleUpdateTimeOut and
\* handleCommitRespTimeOut (through sendUpReq) for one with child sessions,
\* and by sendCommitAck for one that is CREATING: it is not null there.
NoNullSession ==
    \A p \in Prover :
       \/ pfirst[p] # NOID
       \/ csess[p] # NoChildren
       \/ status[p] = "CREATING"
       => psecond[p] # Null

\* scheduleAt stops the simulation when the message is already scheduled:
\* startAttestation meets checkdelaymsg and mktreetimer off, and
\* sendCommitResp, answering an invitation, meets cacktomsg off.
NoDoubleSchedule ==
    /\ \A p \in Prover \ crashed :
          attest[p] = 0 => check[p] = Off /\ mktree[p] = Off
    /\ \A m \in net :
          /\ m.kind = "CMRQ"
          /\ m.destination \notin crashed
          /\ acceptsReq(m.destination, m)
          => cackto[m.destination].t = Off

\* handleCommitAck tests neither the status of the prover nor the tree of the
\* ack: still, an ack it accepts answers the response the prover waits on.
AckAnswersResponse ==
    \A m \in net :
       m.kind = "CMAK" /\ acceptsAck(m.destination, m)
          => /\ status[m.destination] \in {"ATTESTING", "ATTESTING_CREATING"}
             /\ psecond[m.destination].treeID = m.treeID

\* A prover adds its own record (addOwnReport) at most once in a period,
\* whichever timeouts, acks and reports make it send.
ReportOnce ==
    [][\A p \in Prover : attestcount'[p] # attestcount[p] => ~reported[p]]_vars

\* The collector counts no record twice, whichever way it came: as a report
\* of a tree, as one sent directly, or as one passed on by a parent that had
\* already finished.
NoDoubleCount == sum = Cardinality(received)

\* The time budget of deltag: a prover has reported when its next period
\* starts.
ReportedInTime ==
    \A p \in Prover : attest[p] = 0 /\ period[p] > 0 => reported[p]

\* The two sessions of a parent s and a child p are of one tree, and the
\* child stands one level below: no cycle of provers waits on one another.
SessionsAgree ==
    \A p, s \in Prover :
       pfirst[p] = s /\ csess[s][p] # Null
          => /\ psecond[p].treeID = csess[s][p].treeID
             /\ csess[s][p].treeID = psecond[s].treeID
             /\ psecond[p].depth = IF pfirst[s] = NOID THEN maxdepth
                                   ELSE psecond[s].depth - 1

\* A parent that is not a root waits longer for a child than the child waits
\* for its own children.
TimeoutsNested ==
    \A p, s, c \in Prover :
       /\ s \notin crashed /\ p \notin crashed
       /\ pfirst[p] = s /\ csess[s][p] # Null /\ pfirst[s] # NOID
       /\ csess[p][c] # Null
       => csess[s][p].tomsg > csess[p][c].tomsg

\* startAttestation warns "Device didn't attest last deltah!!!" of a prover
\* that is not FINISHED: it then has not reported.
NoFalseAlarm ==
    \A p \in Prover : attest[p] = 0 /\ reported[p] => status[p] = "FINISHED"

\* handleUpReq drops a report with "sender is not a child!!!" when csessions
\* has no entry: its sender is then not one of the tree of this prover.
StrangerDropped ==
    \A m \in net : LET p == m.destination IN
       /\ m.kind = "UPRQ"
       /\ p \notin crashed
       /\ status[p] \in {"CREATING", "COLLECTING"}
       /\ psecond[p] # Null
       /\ csess[p][m.source] = Null
       => m.treeID # psecond[p].treeID

\* Every prover that starts a period reports, unless it runs out of energy or
\* the simulation ends.
EventuallyReports ==
    \A p \in Prover :
       status[p] = "CHECKING" ~> (reported[p] \/ p \in crashed \/ Ended)

-----------------------------------------------------------------------------
(***************************************************************************)
(* The inductive invariant.  Phase(p) ties the status of a prover to its   *)
(* sessions and pending self-messages, Deadlines(p) bounds these by the    *)
(* end of the period, and Handshakes says that at most one frame of the    *)
(* handshake of two provers is on its way, and that it is gone before the  *)
(* next period of the prover that began it.                                *)
(***************************************************************************)
Phase(p) ==
    /\ check[p] # Off <=> status[p] = "CHECKING"
    /\ mktree[p] # Off <=> status[p] \in {"CHECKING", "READY", "ATTESTING"}
    /\ check[p] # Off => check[p] <= mktree[p]
    /\ cackto[p].t # Off
          <=> status[p] \in {"ATTESTING", "ATTESTING_CREATING"}
    /\ status[p] = "CREATING" => crespto[p].t # Off
    /\ crespto[p].t # Off
          => /\ status[p] \in {"CREATING", "COLLECTING", "FINISHED"}
             /\ crespto[p].treeID \in TreeId

Sessions(p) ==
    /\ status[p] \in {"ATTESTING", "ATTESTING_CREATING"}
          => pfirst[p] # NOID /\ cackto[p].dev = pfirst[p]
    /\ status[p] \in {"CHECKING", "READY", "FINISHED"}
          => pfirst[p] = NOID
    /\ pfirst[p] # NOID => psecond[p] # Null /\ ~reported[p]
    /\ csess[p] # NoChildren
          => /\ status[p] \in {"CREATING", "COLLECTING"}
             /\ csess[p][NOID] # Null /\ csess[p][NOID].tomsg = Off
             /\ psecond[p] # Null
             /\ ~reported[p]
    /\ status[p] = "CREATING" => csess[p] # NoChildren
    /\ status[p] \in {"CHECKING", "READY"} => ~reported[p]

Deadlines(p) ==
    /\ check[p] # Off /\ attest[p] # Off => check[p] < attest[p]
    /\ mktree[p] # Off /\ attest[p] # Off
          => mktree[p] + timeoutack + Slack(p) <= attest[p]
    /\ cackto[p].t # Off => cackto[p].t <= timeoutack
    /\ cackto[p].t # Off /\ mktree[p] = Off /\ attest[p] # Off
          => cackto[p].t + Slack(p) <= attest[p]
    /\ crespto[p].t # Off /\ attest[p] # Off
          => crespto[p].t + Slack(p) - timeoutresp <= attest[p]

\* The prover that began the handshake of a frame, the one it invited, and
\* the longest time until the last frame of the handshake arrives.
IsHandshake(m) == m.kind \in {"CMRQ", "CMRP", "CMAK"}
Opener(m) == IF m.kind = "CMRP" THEN m.destination ELSE m.source
Invited(m) == IF m.kind = "CMRP" THEN m.source ELSE m.destination
Left(m) == m.ttl + (IF m.kind = "CMRQ" THEN 2 * MaxDelay
                    ELSE IF m.kind = "CMRP" THEN MaxDelay ELSE 0)

OneHandshake ==
    \A m, n \in net :
       /\ IsHandshake(m) /\ IsHandshake(n)
       /\ Opener(m) = Opener(n) /\ Invited(m) = Invited(n)
       => m = n

HandshakeTimed(m) ==
    /\ status[Opener(m)] \in {"CREATING", "COLLECTING", "FINISHED"}
    /\ attest[Opener(m)] # Off => Left(m) < attest[Opener(m)]
    /\ m.kind # "CMRQ" /\ pfirst[Invited(m)] = Opener(m)
          => /\ status[Invited(m)] \in {"ATTESTING", "ATTESTING_CREATING"}
             /\ psecond[Invited(m)].treeID = m.treeID

Handshakes ==
    /\ OneHandshake
    /\ \A m \in net : IsHandshake(m) => HandshakeTimed(m)

Inv ==
    /\ TypeOK
    /\ \A p \in Prover \ crashed : Phase(p) /\ Deadlines(p)
    /\ \A p \in Prover : Sessions(p)
    /\ Handshakes
=============================================================================
