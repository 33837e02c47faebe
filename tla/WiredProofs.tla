---------------------------- MODULE WiredProofs ----------------------------
(***************************************************************************)
(* Proofs about Wired: what holds of the one tree of the experiment until  *)
(* a prover starts its second period, for any network, if an ack arrives   *)
(* before the timeout for it (AckInTime), and what holds of the timeouts   *)
(* of a tree over any number of periods.                                   *)
(*                                                                         *)
(* In the first period every frame belongs to one tree.  A child is        *)
(* followed from its response to its report: first its response and then   *)
(* the ack is on its way, then it gathers children itself, then its report *)
(* is on its way; at each moment exactly one of these holds, and the       *)
(* parent has a session for it from the ack to the report.                 *)
(*                                                                         *)
(* The second part shows that the report which ends the experiment is      *)
(* complete.  That is about time: a prover that is asked finds its checks  *)
(* done, nobody reports while a neighbour that it invited may answer, and  *)
(* so the tree grows over the whole network before it is folded up.        *)
(*                                                                         *)
(* The last part is about the timeouts that startAttestation leaves        *)
(* scheduled when a period ends before its tree does.                      *)
(***************************************************************************)
EXTENDS Wired, FiniteSetTheorems, TLAPS

\* A response and an ack take less time than a prover waits for the ack.
AckInTime == 2 * MaxDelay < timeoutack

-----------------------------------------------------------------------------
Timer == Nat \cup {Off}
Session == [treeID : TreeId, depth : 1..maxdepth]

Frame ==
    [kind : {"CMRQ"}, source : Prover, destination : Prover,
     depth : 1..maxdepth, treeID : TreeId, ttl : 0..MaxDelay]
    \cup [kind : {"CMRP", "CMAK"}, source : Prover, destination : Prover,
          treeID : TreeId, ttl : 0..MaxDelay]
    \cup [kind : {"UPRQ"}, source : Prover, destination : Prover,
          report : SUBSET Prover, treeID : TreeId, ttl : 0..MaxDelay]
    \cup [kind : {"UPRQC"}, source : Prover, destination : {Collector},
          report : SUBSET Prover, treeID : TreeId, ttl : 0..MaxDelay]

Types ==
    /\ status \in [Prover -> Status]
    /\ pfirst \in [Prover -> Dev]
    /\ psecond \in [Prover -> Session \cup {Null}]
    /\ csess \in [Prover -> SUBSET Dev]
    /\ \A p \in Prover : IsFiniteSet(csess[p])
    /\ aggreport \in [Prover -> SUBSET Prover]
    /\ check \in [Prover -> Timer]
    /\ mktree \in BOOLEAN
    /\ cackto \in [Prover -> [dev : Dev, t : Timer]]
    /\ crespto \in [Prover -> [treeID : TreeId \cup {NOID}, t : Timer]]
    /\ \A p \in Prover : crespto[p].t # Off => crespto[p].treeID \in TreeId
    /\ net \subseteq Frame
    /\ collected \in (SUBSET Prover) \cup {Null}

\* What a prover in each status has: no tree, a parent that has not answered,
\* or a tree of its own.
Idle(p) == pfirst[p] = NOID /\ csess[p] = {} /\ cackto[p].t = Off
Committed(p) ==
    /\ pfirst[p] \in Prover /\ cackto[p].dev = pfirst[p] /\ cackto[p].t # Off
    /\ psecond[p] \in Session
    /\ csess[p] = {} /\ crespto[p].t = Off
Open(p) ==
    /\ pfirst[p] \in Prover \/ p = root
    /\ psecond[p] \in Session
    /\ NOID \in csess[p] /\ cackto[p].t = Off

Unasked == {"JOINING", "CHECKING", "READY"}

Phase(p) ==
    /\ period[p] = 0 => status[p] = "JOINING"
    /\ check[p] # Off => status[p] = "CHECKING"
    /\ \/ status[p] \in Unasked /\ Idle(p) /\ crespto[p].t = Off
       \/ status[p] = "ATTESTING" /\ Committed(p)
       \/ status[p] = "CREATING" /\ Open(p) /\ crespto[p].t # Off
       \/ status[p] = "COLLECTING" /\ Open(p) /\ crespto[p].t = Off
       \/ status[p] = "COLLECTING" /\ Idle(p) /\ crespto[p].t = Off
       \/ status[p] = "FINISHED" /\ Idle(p)

\* The root opens the tree before anything else happens, and is in no other.
Before == period[root] = 0 \/ check[root] # Off \/ mktree
RootPhase ==
    /\ pfirst[root] = NOID
    /\ mktree => status[root] = "READY"
    /\ Before => net = {} /\ \A p \in Prover : status[p] \in Unasked
    /\ ~Before => status[root] \in {"CREATING", "COLLECTING", "FINISHED"}

\* One tree.
OneTree(t) ==
    /\ \A m \in net : m.treeID = t
    /\ \A p \in Prover : /\ status[p] = "ATTESTING" \/ NOID \in csess[p]
                               => psecond[p].treeID = t
                         /\ crespto[p].t # Off => crespto[p].treeID = t

\* The frames that say where a child stands, and the child.
Steps == {"CMRP", "CMAK", "UPRQ"}
Child(m) == IF m.kind = "CMAK" THEN m.destination ELSE m.source

Answering(m) ==
    m.kind = "CMRP" =>
       /\ status[m.source] = "ATTESTING"
       /\ pfirst[m.source] = m.destination
       /\ cackto[m.source].t >= timeoutack - MaxDelay + m.ttl

Acking(m) ==
    m.kind = "CMAK" =>
       /\ status[m.destination] = "ATTESTING"
       /\ pfirst[m.destination] = m.source
       /\ m.destination \in csess[m.source]
       /\ cackto[m.destination].t >= timeoutack - 2 * MaxDelay + m.ttl

Reporting(m) ==
    m.kind = "UPRQ" =>
       /\ status[m.source] \in {"COLLECTING", "FINISHED"}
       /\ pfirst[m.source] = NOID /\ csess[m.source] = {}
       /\ m.source \in csess[m.destination]

Single ==
    \A m, n \in net : /\ m.kind \in Steps /\ n.kind \in Steps
                      /\ Child(m) = Child(n)
                      => m = n

\* A parent has a session for each child that is in the tree, and none for
\* another prover.
Known ==
    \A c \in Prover : NOID \in csess[c] /\ pfirst[c] # NOID => c \in csess[pfirst[c]]

InTree(p, c) == NOID \in csess[c] /\ pfirst[c] = p
Acked(p, c) ==
    /\ pfirst[c] = p
    /\ \E m \in net : m.kind = "CMAK" /\ m.source = p /\ m.destination = c
Reported(p, c) ==
    \E m \in net : m.kind = "UPRQ" /\ m.source = c /\ m.destination = p

Children ==
    \A p \in Prover : \A c \in csess[p] \ {NOID} :
       InTree(p, c) \/ Acked(p, c) \/ Reported(p, c)

FirstTree ==
    /\ Types
    /\ \A p \in Prover : Phase(p)
    /\ RootPhase
    /\ \E t : OneTree(t)
    /\ \A m \in net : Answering(m) /\ Acking(m) /\ Reporting(m)
    /\ Single
    /\ Known
    /\ Children

PeriodType == period \in [Prover -> Nat]

WiredInv == PeriodType /\ (InPeriod => FirstTree)

-----------------------------------------------------------------------------
\* The fields of frames, now and after a tick.
LEMMA FrameFacts ==
  ASSUME NEW m \in Frame
  PROVE  /\ m.kind \in {"CMRQ", "CMRP", "CMAK", "UPRQ", "UPRQC"}
         /\ m.source \in Prover /\ m.treeID \in TreeId /\ m.ttl \in 0..MaxDelay
         /\ m.kind # "UPRQC" => m.destination \in Prover
         /\ m.kind = "UPRQC" => m.destination = Collector
         /\ m.kind = "CMRQ" => m.depth \in 1..maxdepth
         /\ m.kind \in {"UPRQ", "UPRQC"} => m.report \subseteq Prover
  BY DEF Frame

\* A frame that comes one unit of time closer stays the same frame.
LEMMA TickFacts ==
  ASSUME NEW m \in Frame, m.ttl > 0, NEW n, n = [m EXCEPT !.ttl = m.ttl - 1]
  PROVE  /\ n \in Frame /\ n.ttl = m.ttl - 1
         /\ n.kind = m.kind /\ n.source = m.source /\ n.treeID = m.treeID
         /\ n.destination = m.destination
         /\ n.kind \in {"UPRQ", "UPRQC"} => n.report = m.report
         /\ n.kind = "CMRQ" => n.depth = m.depth
  <1>1. MaxDelay \in Nat
    BY WiredAssumption
  <1>2. m.ttl \in 0..MaxDelay
    BY FrameFacts
  <1>3. m.ttl - 1 \in 0..MaxDelay
    BY <1>1, <1>2
  <1>. QED
    BY <1>3 DEF Frame

\* The constants, and who can be told apart.
LEMMA Consts ==
  /\ NOID \notin Prover /\ Collector \notin Prover /\ root \in Prover
  /\ Prover \subseteq Dev /\ NOID \in Dev
  /\ maxdepth \in Nat \ {0} /\ MaxDelay \in Nat
  /\ timeoutack \in Nat \ {0} /\ timeoutresp \in Nat \ {0}
  /\ MAXCHILDREN \in Nat \ {0}
  /\ firmware \in [Prover -> Nat]
  /\ Off \notin Nat
  BY WiredAssumption DEF NOID, Collector, Dev, Off

\* The initial states, in which nobody has started.
LEMMA InitInv == Init => WiredInv
  <1>. SUFFICES ASSUME Init PROVE WiredInv
    OBVIOUS
  <1>1. PeriodType
    BY DEF Init, PeriodType
  <1>2. Types
    <2>1. \A p \in Prover : csess[p] = {} /\ crespto[p].t = Off
      BY DEF Init
    <2>2. \A p \in Prover : IsFiniteSet(csess[p])
      BY <2>1, FS_EmptySet
    <2>3. /\ check \in [Prover -> Timer] /\ cackto \in [Prover -> [dev : Dev, t : Timer]]
          /\ crespto \in [Prover -> [treeID : TreeId \cup {NOID}, t : Timer]]
      BY Consts DEF Init, Timer
    <2>4. /\ status \in [Prover -> Status] /\ pfirst \in [Prover -> Dev]
          /\ psecond \in [Prover -> Session \cup {Null}]
      BY Consts DEF Init, Status
    <2>5. csess \in [Prover -> SUBSET Dev] /\ aggreport \in [Prover -> SUBSET Prover]
      BY DEF Init
    <2>6. net \subseteq Frame /\ collected \in (SUBSET Prover) \cup {Null}
      BY DEF Init
    <2>7. mktree \in BOOLEAN
      BY DEF Init
    <2>8. \A p \in Prover : crespto[p].t # Off => crespto[p].treeID \in TreeId
      BY <2>1
    <2>. QED
      BY <2>2, <2>3, <2>4, <2>5, <2>6, <2>7, <2>8, Zenon DEF Types
  <1>3. \A p \in Prover : Phase(p)
    BY DEF Init, Phase, Idle, Unasked
  <1>4. RootPhase
    BY Consts DEF Init, RootPhase, Before, Unasked
  <1>5. OneTree(NOID)
    BY DEF Init, OneTree
  <1>6. Single /\ Known /\ Children
    BY DEF Init, Single, Known, Children
  <1>7. \A m \in net : Answering(m) /\ Acking(m) /\ Reporting(m)
    BY DEF Init
  <1>. QED
    BY <1>1, <1>2, <1>3, <1>4, <1>5, <1>6, <1>7 DEF WiredInv, FirstTree

\* Nothing that the invariant says of q changes.
Same(q) ==
    /\ status'[q] = status[q] /\ period'[q] = period[q]
    /\ pfirst'[q] = pfirst[q] /\ psecond'[q] = psecond[q] /\ csess'[q] = csess[q]
    /\ check'[q] = check[q] /\ cackto'[q] = cackto[q] /\ crespto'[q] = crespto[q]

\* A prover that no step touches stays in its phase.
LEMMA SamePhase ==
  ASSUME NEW q, Same(q), Phase(q)
  PROVE  Phase(q)'
  BY DEF Same, Phase, Idle, Committed, Open

\* A prover starts its first period.
LEMMA StartInv ==
  ASSUME FirstTree, PeriodType, InPeriod', NEW p \in Prover, startAttestation(p)
  PROVE  FirstTree'
  <1>1. period[p] = 0 /\ period'[p] = 1
    BY DEF PeriodType, InPeriod, startAttestation
  <1>2. status[p] = "JOINING" /\ check[p] = Off /\ Idle(p) /\ crespto[p].t = Off
    BY <1>1 DEF FirstTree, Phase, Unasked, Committed
  <1>3. Types'
    BY Consts, FS_EmptySet DEF FirstTree, Types, startAttestation, Status, Timer
  <1>4. /\ \A q \in Prover \ {p} : Same(q)
        /\ status'[p] = "CHECKING" /\ pfirst'[p] = pfirst[p] /\ csess'[p] = csess[p]
        /\ cackto' = cackto /\ crespto' = crespto /\ csess' = csess /\ pfirst' = pfirst
        /\ check'[p] \in Nat
        /\ net' = net /\ mktree' = mktree
    BY <1>2, Consts DEF FirstTree, Types, startAttestation, Same, PeriodType, Idle
  <1>5. \A q \in Prover : Phase(q)'
    <2>1. Phase(p)'
      BY <1>1, <1>2, <1>4, Consts DEF Phase, Idle, Unasked
    <2>. QED
      BY <1>4, <2>1, SamePhase DEF FirstTree
  <1>6. RootPhase'
    BY <1>1, <1>2, <1>4, Consts DEF FirstTree, RootPhase, Before, Same, Unasked
  <1>7. \E t : OneTree(t)'
    <2>1. PICK t : OneTree(t)
      BY DEF FirstTree
    <2>2. OneTree(t)'
      BY <1>2, <1>4, <2>1 DEF OneTree, Same, Idle
    <2>. QED
      BY <2>2
  <1>8. \A m \in net' : Answering(m)' /\ Acking(m)' /\ Reporting(m)'
    BY <1>2, <1>4, FrameFacts DEF FirstTree, Types, Answering, Acking, Reporting, Same
  <1>9. Single' /\ Known' /\ Children'
    BY <1>4 DEF FirstTree, Single, Known, Children, InTree, Acked, Reported, Child
  <1>. QED
    BY <1>3, <1>5, <1>6, <1>7, <1>8, <1>9 DEF FirstTree

\* Its firmware is checked.
LEMMA CheckInv ==
  ASSUME FirstTree, PeriodType, NEW p \in Prover, checkSoftConfig(p)
  PROVE  FirstTree'
  <1>1. status[p] = "CHECKING" /\ check[p] = 0 /\ Idle(p) /\ crespto[p].t = Off
        /\ period[p] # 0
    BY DEF FirstTree, Phase, Unasked, Committed, checkSoftConfig, Off
  <1>2. Types'
    BY DEF FirstTree, Types, checkSoftConfig, sessions, Status, Timer
  <1>3. /\ \A q \in Prover \ {p} : Same(q)
        /\ status'[p] = "READY" /\ check'[p] = Off
        /\ cackto' = cackto /\ crespto' = crespto /\ csess' = csess /\ pfirst' = pfirst
        /\ psecond' = psecond /\ period' = period
        /\ net' = net /\ mktree' = (mktree \/ p = root)
    BY DEF FirstTree, Types, checkSoftConfig, sessions, Same
  <1>4. \A q \in Prover : Phase(q)'
    <2>1. Phase(p)'
      BY <1>1, <1>3 DEF Phase, Idle, Unasked
    <2>. QED
      BY <1>3, <2>1, SamePhase DEF FirstTree
  <1>5. RootPhase'
    BY <1>1, <1>3, Consts DEF FirstTree, RootPhase, Before, Same, Unasked, Off
  <1>6. \E t : OneTree(t)'
    <2>1. PICK t : OneTree(t)
      BY DEF FirstTree
    <2>2. OneTree(t)'
      BY <1>1, <1>3, <2>1 DEF OneTree, Same, Idle
    <2>. QED
      BY <2>2
  <1>7. \A m \in net' : Answering(m)' /\ Acking(m)' /\ Reporting(m)'
    <2>1. net \subseteq Frame /\ \A m \in net : Answering(m) /\ Acking(m) /\ Reporting(m)
      BY DEF FirstTree, Types
    <2>. QED
      BY <1>1, <1>3, <2>1, FrameFacts DEF Answering, Acking, Reporting, Same
  <1>8. Single' /\ Known' /\ Children'
    BY <1>3 DEF FirstTree, Single, Known, Children, InTree, Acked, Reported, Child
  <1>. QED
    BY <1>2, <1>4, <1>5, <1>6, <1>7, <1>8 DEF FirstTree

-----------------------------------------------------------------------------
\* What the invariant says of the frames.
LEMMA NetFacts ==
  ASSUME FirstTree
  PROVE  /\ net \subseteq Frame
         /\ \A m \in net : Answering(m) /\ Acking(m) /\ Reporting(m)
         /\ \A m \in net : m.kind \in Steps => Child(m) \in Prover
  <1>1. net \subseteq Frame /\ \A m \in net : Answering(m) /\ Acking(m) /\ Reporting(m)
    BY DEF FirstTree, Types
  <1>. QED
    BY <1>1, FrameFacts DEF Steps, Child

\* Once a frame is on its way or a prover is asked, the root has its tree.
LEMMA RootFacts ==
  ASSUME FirstTree
  PROVE  /\ net # {} => ~Before
         /\ \A p \in Prover : status[p] \notin Unasked => ~Before
         /\ ~Before => status[root] \in {"CREATING", "COLLECTING", "FINISHED"}
         /\ pfirst[root] = NOID
  BY DEF FirstTree, RootPhase

\* The root has its tree, and keeps it.
LEMMA RootKept ==
  ASSUME ~Before, period'[root] = period[root], check'[root] = check[root],
         mktree' = mktree, pfirst'[root] = NOID,
         status'[root] \in {"CREATING", "COLLECTING", "FINISHED"}
  PROVE  RootPhase'
  BY DEF Before, RootPhase

\* The timeout for the ack expires: neither the response nor the ack of the
\* prover is on its way.
LEMMA AckTimeOutInv ==
  ASSUME FirstTree, AckInTime, NEW p \in Prover, handleCommitAckTimeOut(p)
  PROVE  FirstTree'
  <1>1. cackto[p].t = 0 /\ cackto[p].t # Off
    BY DEF handleCommitAckTimeOut, Off
  <1>2. Phase(p) /\ Types
    BY DEF FirstTree
  <1>3. status[p] = "ATTESTING" /\ Committed(p) /\ check[p] = Off /\ period[p] # 0
    BY <1>1, <1>2 DEF Phase, Idle, Open
  <1>4. /\ status' = [status EXCEPT ![p] = "READY"]
        /\ pfirst' = [pfirst EXCEPT ![p] = NOID]
        /\ psecond' = [psecond EXCEPT ![p] = Null]
        /\ cackto' = [cackto EXCEPT ![p].t = Off]
        /\ UNCHANGED <<csess, aggreport, crespto, net, check, mktree, collected, period>>
    BY <1>3 DEF handleCommitAckTimeOut, Committed
  <1>5. /\ \A q \in Prover \ {p} : Same(q)
        /\ status'[p] = "READY" /\ pfirst'[p] = NOID /\ cackto'[p].t = Off
    BY <1>2, <1>4 DEF Types, Same
  <1>6. Types'
    BY <1>2, <1>4, Consts DEF Types, Status, Timer
  <1>7. \A m \in net : m.kind \in Steps => Child(m) # p
    <2>. SUFFICES ASSUME NEW m \in net, m.kind \in Steps, Child(m) = p PROVE FALSE
      OBVIOUS
    <2>1. Answering(m) /\ Acking(m) /\ Reporting(m) /\ m.ttl \in 0..MaxDelay
      BY NetFacts, FrameFacts
    <2>. QED
      BY <1>1, <1>3, <2>1, Consts DEF Answering, Acking, Reporting, Steps, Child, AckInTime
  <1>8. \A q \in Prover : Phase(q)'
    <2>1. Phase(p)'
      BY <1>3, <1>4, <1>5 DEF Phase, Committed, Idle, Unasked
    <2>. QED
      BY <1>5, <2>1, SamePhase DEF FirstTree
  <1>9. p # root /\ ~Before
    BY <1>3, RootFacts DEF Unasked
  <1>10. RootPhase'
    BY <1>4, <1>5, <1>9, RootFacts, RootKept, Consts DEF Same
  <1>11. \E t : OneTree(t)'
    <2>1. PICK t : OneTree(t)
      BY DEF FirstTree
    <2>2. OneTree(t)'
      BY <1>3, <1>4, <1>5, <2>1 DEF OneTree, Same, Committed
    <2>. QED
      BY <2>2
  <1>12. \A m \in net' : Answering(m)' /\ Acking(m)' /\ Reporting(m)'
    BY <1>4, <1>5, <1>7, NetFacts, FrameFacts
       DEF Answering, Acking, Reporting, Same, Steps, Child
  <1>13. Single'
    BY <1>4 DEF FirstTree, Single, Child
  <1>14. Known'
    BY <1>3, <1>4, <1>5 DEF FirstTree, Known, Same, Committed
  <1>15. Children'
    <2>1. \A q \in Prover : \A c \in csess[q] \ {NOID} :
             InTree(q, c) \/ Acked(q, c) \/ Reported(q, c)
      BY DEF FirstTree, Children
    <2>2. \A q \in Prover : ~InTree(q, p) /\ ~Acked(q, p)
      BY <1>3, <1>7 DEF InTree, Acked, Committed, Steps, Child
    <2>3. \A q \in Prover : csess'[q] \ {NOID} \subseteq Prover
      BY <1>6 DEF Types, Dev
    <2>. QED
      BY <1>4, <1>5, <2>1, <2>2, <2>3 DEF Children, InTree, Acked, Reported, Same
  <1>. QED
    BY <1>6, <1>8, <1>10, <1>11, <1>12, <1>13, <1>14, <1>15 DEF FirstTree

\* A prover that has no child any more reports and leaves the tree.  What
\* remains of net does not concern it.
LEMMA SendUpReqInv ==
  ASSUME FirstTree, NEW p \in Prover, NEW t, OneTree(t), t \in TreeId,
         NEW cs, NEW recs \in SUBSET Prover, NEW rest \in SUBSET net,
         sendUpReq(p, pfirst[p], t, cs, recs, rest), cs \ {NOID} = {},
         status[p] = "ATTESTING" \/ NOID \in csess[p],
         pfirst[p] # NOID => p \in csess[pfirst[p]],
         \A m \in rest : m.kind \in Steps => Child(m) # p,
         \A m \in rest : m.kind = "CMAK" => m.source # p,
         \A m \in rest : m.kind = "UPRQ" => m.destination # p,
         \A m \in net \ rest : /\ m.kind \in Steps
                               /\ Child(m) = p \/ (m.kind = "UPRQ" /\ m.destination = p),
         \A c \in Prover : NOID \in csess[c] => pfirst[c] # p,
         cackto' \in [Prover -> [dev : Dev, t : Timer]],
         crespto' \in [Prover -> [treeID : TreeId \cup {NOID}, t : Timer]],
         cackto'[p].t = Off, crespto'[p].t # Off => crespto'[p].treeID = t,
         \A q \in Prover \ {p} : cackto'[q] = cackto[q] /\ crespto'[q] = crespto[q],
         UNCHANGED <<check, mktree, period, collected>>
  PROVE  FirstTree'
  <1>0. PICK u : u = UpdateReq(p, pfirst[p], t, recs \cup {p})
    OBVIOUS
  <1>1. Types /\ Phase(p)
    BY DEF FirstTree
  <1>2. /\ status' = [status EXCEPT ![p] = "FINISHED"]
        /\ pfirst' = [pfirst EXCEPT ![p] = NOID]
        /\ psecond' = [psecond EXCEPT ![p] = Null]
        /\ csess' = [csess EXCEPT ![p] = {}]
        /\ aggreport' = [aggreport EXCEPT ![p] = recs \cup {p}]
        /\ net' = rest \cup {u}
    BY <1>0 DEF sendUpReq
  <1>3. /\ \A q \in Prover \ {p} : Same(q)
        /\ status'[p] = "FINISHED" /\ pfirst'[p] = NOID /\ csess'[p] = {}
    BY <1>1, <1>2 DEF Types, Same
  <1>4. /\ u \in Frame /\ u.source = p /\ u.treeID = t
        /\ u.kind = "UPRQC" \/ (u.kind = "UPRQ" /\ u.destination = pfirst[p]
                                /\ pfirst[p] \in Prover)
    <2>1. pfirst[p] = NOID \/ pfirst[p] \in Prover
      BY <1>1 DEF Types, Dev
    <2>2. MaxDelay \in 0..MaxDelay /\ recs \cup {p} \in SUBSET Prover
      BY Consts
    <2>. QED
      BY <1>0, <2>1, <2>2, Consts DEF UpdateReq, Frame
  <1>5. status[p] \notin Unasked /\ check[p] = Off /\ period[p] # 0
    BY <1>1 DEF Phase, Unasked, Idle, Committed
  <1>6. Types'
    <2>1. \A q \in Prover : IsFiniteSet(csess'[q])
      BY <1>1, <1>2, FS_EmptySet DEF Types
    <2>2. net' \subseteq Frame
      BY <1>1, <1>2, <1>4 DEF Types
    <2>3. /\ status' \in [Prover -> Status] /\ pfirst' \in [Prover -> Dev]
          /\ psecond' \in [Prover -> Session \cup {Null}]
      BY <1>1, <1>2, Consts DEF Types, Status
    <2>4. csess' \in [Prover -> SUBSET Dev] /\ aggreport' \in [Prover -> SUBSET Prover]
      BY <1>1, <1>2 DEF Types
    <2>5. \A q \in Prover : crespto'[q].t # Off => crespto'[q].treeID \in TreeId
      BY <1>1 DEF Types
    <2>. QED
      BY <1>1, <2>1, <2>2, <2>3, <2>4, <2>5 DEF Types
  <1>7. \A q \in Prover : Phase(q)'
    <2>1. Phase(p)'
      BY <1>3, <1>5 DEF Phase, Idle
    <2>. QED
      BY <1>3, <2>1, SamePhase DEF FirstTree
  <1>8. RootPhase'
    BY <1>3, <1>5, RootFacts, RootKept, Consts DEF Same
  <1>9. OneTree(t)'
    BY <1>2, <1>3, <1>4 DEF OneTree, Same
  <1>10. \A m \in rest : Child(m)' = Child(m)
    BY DEF Child
  <1>11. \A m \in net' : Answering(m)' /\ Acking(m)' /\ Reporting(m)'
    <2>1. ASSUME NEW m \in rest
          PROVE  Answering(m)' /\ Acking(m)' /\ Reporting(m)'
      <3>1. m \in Frame /\ Answering(m) /\ Acking(m) /\ Reporting(m)
        BY NetFacts
      <3>2. Answering(m)'
        BY <1>3, <3>1, FrameFacts DEF Answering, Same, Steps, Child
      <3>3. Acking(m)'
        BY <1>3, <3>1, FrameFacts DEF Acking, Same, Steps, Child
      <3>4. Reporting(m)'
        BY <1>3, <3>1, FrameFacts DEF Reporting, Same, Steps, Child
      <3>. QED
        BY <3>2, <3>3, <3>4
    <2>2. Answering(u)' /\ Acking(u)' /\ Reporting(u)'
      <3>1. u.kind = "UPRQ" => p \in csess'[pfirst[p]]
        <4>1. CASE pfirst[p] = p
          <5>1. p \in csess[p]
            BY <4>1, Consts
          <5>2. NOID \in csess[p]
            BY <1>1, <5>1 DEF Phase, Committed, Idle, Open
          <5>. QED
            BY <4>1, <5>2
        <4>2. CASE pfirst[p] # p
          BY <1>3, <1>4, <4>2, Consts DEF Same
        <4>. QED
          BY <4>1, <4>2
      <3>. QED
        BY <1>3, <1>4, <3>1 DEF Answering, Acking, Reporting
    <2>. QED
      BY <1>2, <2>1, <2>2
  <1>12. Single'
    <2>1. \A m, n \in net : m.kind \in Steps /\ n.kind \in Steps /\ Child(m) = Child(n)
                               => m = n
      BY DEF FirstTree, Single
    <2>2. u.kind \in Steps => Child(u) = p
      BY <1>4 DEF Child, Steps
    <2>. QED
      BY <1>2, <2>1, <2>2 DEF Single, Child
  <1>13. Known'
    <2>1. \A c \in Prover : pfirst[c] = NOID \/ pfirst[c] \in Prover
      BY <1>1 DEF Types, Dev
    <2>. QED
      BY <1>3, <2>1, Consts DEF FirstTree, Known, Same
  <1>14. Children'
    <2>1. SUFFICES ASSUME NEW q \in Prover, NEW c \in csess'[q] \ {NOID}
                   PROVE  InTree(q, c)' \/ Acked(q, c)' \/ Reported(q, c)'
      BY DEF Children
    <2>2. q # p /\ csess'[q] = csess[q] /\ c \in Prover
      BY <1>3, <1>6 DEF Same, Types, Dev
    <2>3. InTree(q, c) \/ Acked(q, c) \/ Reported(q, c)
      BY <2>1, <2>2 DEF FirstTree, Children
    <2>4. CASE c = p
      <3>1. CASE pfirst[p] = q
        <4>1. u.kind = "UPRQ" /\ u.source = c /\ u.destination = q /\ u \in net'
          BY <1>0, <1>2, <1>4, <2>4, <3>1, Consts DEF UpdateReq
        <4>. QED
          BY <4>1 DEF Reported
      <3>2. CASE pfirst[p] # q
        <4>1. Reported(q, c)
          BY <2>3, <2>4, <3>2 DEF InTree, Acked
        <4>2. PICK m \in net : m.kind = "UPRQ" /\ m.source = p
          BY <2>4, <4>1 DEF Reported
        <4>3. status[p] \in {"COLLECTING", "FINISHED"} /\ csess[p] = {}
          BY <4>2, NetFacts DEF Reporting
        <4>. QED
          BY <4>3
      <3>. QED
        BY <3>1, <3>2
    <2>5. CASE c # p
      <3>1. Same(c)
        BY <1>3, <2>2, <2>5
      <3>2. \A m \in net : /\ m.kind \in Steps /\ Child(m) = c
                           /\ m.kind = "UPRQ" => m.destination # p
                           => m \in net'
        BY <1>2, <2>5
      <3>. QED
        BY <2>2, <2>3, <2>5, <3>1, <3>2 DEF InTree, Acked, Reported, Same, Steps, Child
    <2>. QED
      BY <2>4, <2>5
  <1>. QED
    BY <1>6, <1>7, <1>8, <1>9, <1>11, <1>12, <1>13, <1>14 DEF FirstTree

\* A prover without children invites its neighbours.
LEMMA OpenInv ==
  ASSUME FirstTree, NEW p \in Prover, NEW t \in TreeId, OneTree(t),
         NEW sess \in Session, sess.treeID = t, NEW depth \in 1..maxdepth,
         NEW rest \in SUBSET net,
         status' = [status EXCEPT ![p] = "CREATING"],
         psecond' = [psecond EXCEPT ![p] = sess],
         csess' = [csess EXCEPT ![p] = @ \cup {NOID}],
         awaitResponses(p, t),
         net' = rest \cup {[kind |-> "CMRQ", source |-> p, destination |-> q,
                            depth |-> depth, treeID |-> t, ttl |-> MaxDelay] :
                              q \in Neighbours(p)},
         csess[p] = {}, cackto'[p].t = Off,
         cackto' \in [Prover -> [dev : Dev, t : Timer]],
         \A q \in Prover \ {p} : cackto'[q] = cackto[q],
         UNCHANGED <<pfirst, aggreport, check, period, collected>>,
         period[p] # 0, check[p] = Off,
         mktree' \in BOOLEAN, status[p] \in {"READY", "ATTESTING"},
         IF p = root THEN ~mktree' ELSE pfirst[p] \in Prover /\ ~Before /\ mktree' = mktree,
         pfirst[p] # NOID => p \in csess[pfirst[p]],
         \A m \in rest : m.kind \in Steps => Child(m) # p,
         \A m \in net \ rest : m.kind \in Steps /\ Child(m) = p
  PROVE  FirstTree'
  <1>0. PICK inv : /\ inv = {[kind |-> "CMRQ", source |-> p, destination |-> q,
                              depth |-> depth, treeID |-> t, ttl |-> MaxDelay] :
                                q \in Neighbours(p)}
                   /\ net' = rest \cup inv
    OBVIOUS
  <1>1. Types /\ Phase(p)
    BY DEF FirstTree
  <1>2. \A m \in inv : m \in Frame /\ m.kind = "CMRQ" /\ m.treeID = t
    <2>1. MaxDelay \in 0..MaxDelay /\ Neighbours(p) \subseteq Prover
      BY Consts DEF Neighbours
    <2>. QED
      BY <1>0, <2>1 DEF Frame
  <1>3. /\ \A q \in Prover \ {p} : Same(q)
        /\ status'[p] = "CREATING" /\ pfirst' = pfirst /\ csess'[p] = {NOID}
        /\ psecond'[p] = sess
        /\ crespto'[p].t = timeoutresp /\ crespto'[p].treeID = t
    BY <1>1 DEF Types, Same, awaitResponses
  <1>4. Types'
    <2>0. \A q \in Prover : /\ IsFiniteSet(csess[q])
                            /\ crespto[q].t # Off => crespto[q].treeID \in TreeId
      BY <1>1 DEF Types
    <2>1. \A q \in Prover : IsFiniteSet(csess'[q])
      <3>1. IsFiniteSet({NOID})
        BY FS_Singleton
      <3>. QED
        BY <1>3, <2>0, <3>1 DEF Same
    <2>2. net' \subseteq Frame
      BY <1>0, <1>1, <1>2 DEF Types
    <2>3. /\ status' \in [Prover -> Status] /\ pfirst' \in [Prover -> Dev]
          /\ psecond' \in [Prover -> Session \cup {Null}]
      BY <1>1, Consts DEF Types, Status
    <2>4. csess' \in [Prover -> SUBSET Dev] /\ aggreport' \in [Prover -> SUBSET Prover]
      BY <1>1, Consts DEF Types
    <2>5. crespto' \in [Prover -> [treeID : TreeId \cup {NOID}, t : Timer]]
      BY <1>1, Consts DEF Types, awaitResponses, Timer
    <2>6. \A q \in Prover : crespto'[q].t # Off => crespto'[q].treeID \in TreeId
      BY <1>3, <2>0 DEF Same
    <2>. QED
      BY <1>1, <2>1, <2>2, <2>3, <2>4, <2>5, <2>6 DEF Types
  <1>5. \A q \in Prover : Phase(q)'
    <2>1. crespto'[p].t # Off
      BY <1>3, Consts DEF Off
    <2>2. Open(p)'
      BY <1>3 DEF Open
    <2>3. Phase(p)'
      BY <1>3, <2>1, <2>2 DEF Phase
    <2>. QED
      BY <1>3, <2>3, SamePhase DEF FirstTree
  <1>6. RootPhase'
    <2>1. CASE p = root
      BY <1>3, <2>1, RootFacts DEF RootPhase, Before
    <2>2. CASE p # root
      BY <1>3, <2>2, RootFacts, RootKept, Consts DEF Same
    <2>. QED
      BY <2>1, <2>2
  <1>7. OneTree(t)'
    BY <1>0, <1>2, <1>3 DEF OneTree, Same
  <1>8. \A m \in net' : Answering(m)' /\ Acking(m)' /\ Reporting(m)'
    <2>1. ASSUME NEW m \in rest
          PROVE  Answering(m)' /\ Acking(m)' /\ Reporting(m)'
      <3>1. m \in Frame /\ Answering(m) /\ Acking(m) /\ Reporting(m)
        BY NetFacts
      <3>2. Answering(m)'
        BY <1>3, <3>1, FrameFacts DEF Answering, Same, Steps, Child
      <3>3. Acking(m)'
        BY <1>3, <3>1, FrameFacts DEF Acking, Same, Steps, Child
      <3>4. Reporting(m)'
        BY <1>3, <3>1, FrameFacts DEF Reporting, Same, Steps, Child
      <3>. QED
        BY <3>2, <3>3, <3>4
    <2>2. \A m \in inv : Answering(m)' /\ Acking(m)' /\ Reporting(m)'
      BY <1>2 DEF Answering, Acking, Reporting
    <2>. QED
      BY <1>0, <2>1, <2>2
  <1>9. Single'
    <2>1. \A m, n \in net : m.kind \in Steps /\ n.kind \in Steps /\ Child(m) = Child(n)
                               => m = n
      BY DEF FirstTree, Single
    <2>. QED
      BY <1>0, <1>2, <2>1 DEF Single, Child, Steps
  <1>10. Known'
    <2>1. \A c \in Prover : pfirst[c] = NOID \/ pfirst[c] \in Prover
      BY <1>1 DEF Types, Dev
    <2>2. \A c \in Prover : csess[c] \subseteq csess'[c]
      BY <1>3 DEF Same
    <2>3. \A c \in Prover : NOID \in csess[c] /\ pfirst[c] # NOID => c \in csess[pfirst[c]]
      BY DEF FirstTree, Known
    <2>4. \A c \in Prover : NOID \in csess'[c] /\ pfirst[c] # NOID => c \in csess[pfirst[c]]
      BY <1>3, <2>3 DEF Same
    <2>. QED
      BY <1>3, <2>1, <2>2, <2>4 DEF Known
  <1>11. Children'
    <2>1. SUFFICES ASSUME NEW q \in Prover, NEW c \in csess'[q] \ {NOID}
                   PROVE  InTree(q, c)' \/ Acked(q, c)' \/ Reported(q, c)'
      BY DEF Children
    <2>2. q # p /\ csess'[q] = csess[q] /\ c \in Prover
      BY <1>3, <1>4 DEF Same, Types, Dev
    <2>3. InTree(q, c) \/ Acked(q, c) \/ Reported(q, c)
      BY <2>1, <2>2 DEF FirstTree, Children
    <2>4. CASE c = p
      <3>1. pfirst[p] = q \/ Reported(q, p)
        BY <2>3, <2>4 DEF InTree, Acked
      <3>2. ~Reported(q, p)
        BY NetFacts DEF Reported, Reporting
      <3>. QED
        BY <1>3, <2>4, <3>1, <3>2 DEF InTree
    <2>5. CASE c # p
      <3>1. Same(c)
        BY <1>3, <2>2, <2>5
      <3>2. \A m \in net : m.kind \in Steps /\ Child(m) = c => m \in net'
        BY <1>0, <2>5
      <3>. QED
        BY <2>2, <2>3, <3>1, <3>2 DEF InTree, Acked, Reported, Same, Steps, Child
    <2>. QED
      BY <2>4, <2>5
  <1>. QED
    BY <1>4, <1>5, <1>6, <1>7, <1>8, <1>9, <1>10, <1>11 DEF FirstTree

\* The size of csessions tells whether a child is left.
LEMMA OnlyTree ==
  ASSUME NEW S, IsFiniteSet(S), NOID \in S
  PROVE  Cardinality(S) = 1 <=> S = {NOID}
  <1>1. Cardinality({NOID}) = 1
    BY FS_Singleton
  <1>2. ASSUME Cardinality(S) = 1
        PROVE  S = {NOID}
    <2>1. IsFiniteSet(S \ {NOID}) /\ Cardinality(S \ {NOID}) = Cardinality(S) - 1
      BY FS_RemoveElement
    <2>2. S \ {NOID} = {}
      BY <1>2, <2>1, FS_EmptySet
    <2>. QED
      BY <2>2
  <1>. QED
    BY <1>1, <1>2

\* The root opens the tree.
LEMMA MkTreeInv ==
  ASSUME FirstTree, mkTree
  PROVE  FirstTree'
  <1>1. /\ mktree /\ ~mktree' /\ mktree' \in BOOLEAN
        /\ UNCHANGED <<check, cackto, collected, period>>
    BY DEF mkTree
  <1>2. /\ pfirst[root] = NOID /\ status[root] = "READY" /\ net = {}
        /\ \A q \in Prover : status[q] \in Unasked
    BY <1>1 DEF FirstTree, RootPhase, Before
  <1>3. \A q \in Prover : Idle(q) /\ crespto[q].t = Off
    BY <1>2 DEF FirstTree, Phase, Unasked
  <1>4. period[root] # 0 /\ check[root] = Off
    BY <1>2, Consts DEF FirstTree, Phase
  <1>5. sendCommitReq(root, NOID, psecond[root], NOID, net)
    BY <1>2 DEF mkTree
  <1>6. PICK t \in TreeId :
           /\ status' = [status EXCEPT ![root] = "CREATING"]
           /\ psecond' = [psecond EXCEPT ![root] = [treeID |-> t, depth |-> maxdepth]]
           /\ csess' = [csess EXCEPT ![root] = @ \cup {NOID}]
           /\ awaitResponses(root, t)
           /\ net' = net \cup
                     {[kind |-> "CMRQ", source |-> root, destination |-> q,
                       depth |-> maxdepth, treeID |-> t, ttl |-> MaxDelay] :
                         q \in Neighbours(root)}
           /\ UNCHANGED <<pfirst, aggreport>>
    <2>1. [pfirst EXCEPT ![root] = NOID] = pfirst
      BY <1>2 DEF FirstTree, Types
    <2>. QED
      BY <1>5, <2>1 DEF sendCommitReq
  <1>7. PICK sess : sess = [treeID |-> t, depth |-> maxdepth]
    OBVIOUS
  <1>70. sess \in Session /\ sess.treeID = t
    <2>1. maxdepth \in 1..maxdepth
      BY Consts
    <2>. QED
      BY <1>7, <2>1 DEF Session
  <1>8. OneTree(t)
    BY <1>2, <1>3 DEF OneTree, Idle, Unasked
  <1>9. /\ cackto' \in [Prover -> [dev : Dev, t : Timer]] /\ cackto'[root].t = Off
        /\ \A q \in Prover \ {root} : cackto'[q] = cackto[q]
        /\ csess[root] = {} /\ maxdepth \in 1..maxdepth
    BY <1>1, <1>3, Consts DEF FirstTree, Types, Idle
  <1>10. /\ \A m \in net : m.kind \in Steps => Child(m) # root
         /\ \A m \in net \ net : m.kind \in Steps /\ Child(m) = root
    BY <1>2
  <1>. QED
    BY <1>1, <1>2, <1>4, <1>6, <1>7, <1>70, <1>8, <1>9, <1>10, OpenInv, Consts

\* No more responses are accepted.
LEMMA RespTimeOutInv ==
  ASSUME FirstTree, NEW p \in Prover, handleCommitRespTimeOut(p)
  PROVE  FirstTree'
  <1>1. crespto[p].t = 0 /\ crespto[p].t # Off
    BY DEF handleCommitRespTimeOut, Off
  <1>2. Phase(p) /\ Types
    BY DEF FirstTree
  <1>3. /\ crespto' = [crespto EXCEPT ![p].t = Off]
        /\ UNCHANGED <<check, mktree, cackto, collected, period>>
    BY DEF handleCommitRespTimeOut
  <1>4. /\ crespto' \in [Prover -> [treeID : TreeId \cup {NOID}, t : Timer]]
        /\ crespto'[p].t = Off
        /\ \A q \in Prover \ {p} : crespto'[q] = crespto[q]
        /\ cackto' \in [Prover -> [dev : Dev, t : Timer]]
        /\ IsFiniteSet(csess[p])
    BY <1>2, <1>3 DEF Types, Timer
  <1>5. \/ status[p] = "CREATING" /\ Open(p)
        \/ status[p] = "FINISHED" /\ Idle(p)
    BY <1>1, <1>2 DEF Phase, Committed
  <1>6. CASE status[p] = "CREATING" /\ Cardinality(csess[p]) = 1
    <2>1. csess[p] = {NOID} /\ cackto[p].t = Off
      BY <1>4, <1>5, <1>6, OnlyTree DEF Open
    <2>2. PICK t : OneTree(t)
      BY DEF FirstTree
    <2>3. crespto[p].treeID = t /\ t \in TreeId /\ aggreport[p] \in SUBSET Prover
      BY <1>1, <1>2, <2>2 DEF OneTree, Types
    <2>4. sendUpReq(p, pfirst[p], t, csess[p], aggreport[p], net)
      BY <1>6, <2>3 DEF handleCommitRespTimeOut
    <2>5. pfirst[p] # NOID => p \in csess[pfirst[p]]
      BY <2>1 DEF FirstTree, Known
    <2>6. \A c \in Prover : c \notin csess[p]
      BY <2>1, Consts
    <2>7. \A m \in net : /\ m.kind \in Steps => Child(m) # p
                         /\ m.kind = "CMAK" => m.source # p
                         /\ m.kind = "UPRQ" => m.destination # p
      BY <1>6, <2>6, NetFacts, FrameFacts DEF Answering, Acking, Reporting, Steps, Child
    <2>8. \A c \in Prover : NOID \in csess[c] => pfirst[c] # p
      BY <2>6, Consts DEF FirstTree, Known
    <2>9. /\ csess[p] \ {NOID} = {} /\ NOID \in csess[p]
          /\ net \in SUBSET net
          /\ \A m \in net \ net :
                /\ m.kind \in Steps
                /\ Child(m) = p \/ (m.kind = "UPRQ" /\ m.destination = p)
          /\ UNCHANGED <<check, mktree, period, collected>>
          /\ \A q \in Prover \ {p} : cackto'[q] = cackto[q] /\ crespto'[q] = crespto[q]
          /\ cackto'[p].t = Off /\ crespto'[p].t = Off
      BY <1>3, <1>4, <2>1
    <2>. QED
      BY <1>4, <2>2, <2>3, <2>4, <2>5, <2>7, <2>8, <2>9, SendUpReqInv, Zenon
  <1>7. CASE ~(status[p] = "CREATING" /\ Cardinality(csess[p]) = 1)
    <2>1. Cardinality(csess[p]) # 1
      <3>1. CASE status[p] = "FINISHED" /\ Idle(p)
        BY <3>1, FS_EmptySet DEF Idle
      <3>. QED
        BY <1>5, <1>7, <3>1
    <2>2. /\ status' = [status EXCEPT ![p] = "COLLECTING"]
          /\ UNCHANGED <<pfirst, psecond, csess, aggreport, net>>
      BY <2>1 DEF handleCommitRespTimeOut, sessions
    <2>3. Types'
      <3>1. status' \in [Prover -> Status]
        BY <1>2, <2>2 DEF Types, Status
      <3>2. \A q \in Prover : crespto'[q].t # Off => crespto'[q].treeID \in TreeId
        BY <1>2, <1>4 DEF Types
      <3>. QED
        BY <1>2, <1>3, <1>4, <2>2, <3>1, <3>2 DEF Types
    <2>4. /\ \A q \in Prover \ {p} : Same(q)
          /\ status'[p] = "COLLECTING"
      BY <1>2, <1>3, <1>4, <2>2 DEF Same, Types
    <2>5. \A q \in Prover : Phase(q)'
      <3>1. Phase(p)'
        BY <1>2, <1>3, <1>4, <1>5, <2>2, <2>4 DEF Phase, Open, Idle
      <3>. QED
        BY <2>4, <3>1, SamePhase DEF FirstTree
    <2>6. RootPhase'
      BY <1>3, <1>5, <2>2, <2>4, RootFacts, RootKept, Consts DEF Same, Unasked
    <2>7. \E t : OneTree(t)'
      <3>1. PICK t : OneTree(t)
        BY DEF FirstTree
      <3>2. OneTree(t)'
        BY <1>4, <2>2, <2>4, <3>1 DEF OneTree, Same
      <3>. QED
        BY <3>2
    <2>8. \A m \in net' : Answering(m)' /\ Acking(m)' /\ Reporting(m)'
      BY <1>3, <1>5, <2>2, <2>4, NetFacts, FrameFacts DEF Answering, Acking, Reporting, Same
    <2>9. Single' /\ Known' /\ Children'
      BY <2>2 DEF FirstTree, Single, Known, Children, InTree, Acked, Reported, Child
    <2>. QED
      BY <2>3, <2>5, <2>6, <2>7, <2>8, <2>9 DEF FirstTree
  <1>. QED
    BY <1>6, <1>7

-----------------------------------------------------------------------------
\* A frame that says nothing of a child is taken, or a response is refused.
LEMMA DropInv ==
  ASSUME FirstTree, NEW m \in net, m.kind \in {"CMRQ", "CMRP", "UPRQC"},
         net' = net \ {m}, collected' \in (SUBSET Prover) \cup {Null},
         UNCHANGED <<status, pfirst, psecond, csess, aggreport, check, mktree,
                     cackto, crespto, period>>
  PROVE  FirstTree'
  <1>1. \A q \in Prover : Same(q)
    BY DEF Same
  <1>2. Types'
    BY DEF FirstTree, Types
  <1>3. \A q \in Prover : Phase(q)'
    BY <1>1, SamePhase DEF FirstTree
  <1>4. RootPhase'
    BY RootFacts, RootKept
  <1>5. \E t : OneTree(t)'
    <2>1. PICK t : OneTree(t)
      BY DEF FirstTree
    <2>2. OneTree(t)'
      BY <2>1 DEF OneTree
    <2>. QED
      BY <2>2
  <1>6. \A n \in net' : Answering(n)' /\ Acking(n)' /\ Reporting(n)'
    BY NetFacts DEF Answering, Acking, Reporting
  <1>7. Single' /\ Known'
    BY DEF FirstTree, Single, Known, Child
  <1>8. Children'
    <2>1. \A q \in Prover : \A c \in csess[q] \ {NOID} :
             InTree(q, c) \/ Acked(q, c) \/ Reported(q, c)
      BY DEF FirstTree, Children
    <2>. QED
      BY <2>1 DEF Children, InTree, Acked, Reported
  <1>. QED
    BY <1>2, <1>3, <1>4, <1>5, <1>6, <1>7, <1>8 DEF FirstTree

\* The report ends the simulation.
LEMMA CollectInv ==
  ASSUME FirstTree, collect
  PROVE  FirstTree'
  <1>1. PICK m \in net : /\ m.destination = Collector
                         /\ net' = net \ {m} /\ collected' = m.report
    BY DEF collect
  <1>2. m \in Frame
    BY NetFacts
  <1>3. m.kind = "UPRQC" /\ collected' \in (SUBSET Prover) \cup {Null}
    BY <1>1, <1>2, FrameFacts, Consts
  <1>4. UNCHANGED <<status, pfirst, psecond, csess, aggreport, check, mktree,
                    cackto, crespto, period>>
    BY DEF collect, sessions, timers
  <1>. QED
    BY <1>1, <1>3, <1>4, DropInv

\* An invitation: a READY prover is in no tree and none of the frames says
\* that it is a child.
LEMMA CommitReqInv ==
  ASSUME FirstTree, NEW p \in Prover, NEW m \in net, m.destination = p,
         handleCommitReq(p, m), UNCHANGED <<check, mktree, collected, period>>
  PROVE  FirstTree'
  <1>1. Types /\ Phase(p) /\ m \in Frame /\ m.kind = "CMRQ"
    BY NetFacts DEF FirstTree, handleCommitReq
  <1>2. UNCHANGED <<csess, aggreport, crespto>>
    BY DEF handleCommitReq
  <1>3. CASE status[p] # "READY"
    <2>1. net' = net \ {m} /\ UNCHANGED <<pfirst, psecond, status, cackto>>
      BY <1>3 DEF handleCommitReq
    <2>2. collected' \in (SUBSET Prover) \cup {Null}
      BY <1>1 DEF Types
    <2>. QED
      BY <1>1, <1>2, <2>1, <2>2, DropInv
  <1>4. CASE status[p] = "READY"
    <2>0. PICK r, sess, to :
             /\ r = [kind |-> "CMRP", source |-> p, destination |-> m.source,
                     treeID |-> m.treeID, ttl |-> MaxDelay]
             /\ sess = [treeID |-> m.treeID, depth |-> m.depth]
             /\ to = [dev |-> m.source, t |-> timeoutack]
      OBVIOUS
    <2>1. /\ pfirst' = [pfirst EXCEPT ![p] = m.source]
          /\ psecond' = [psecond EXCEPT ![p] = sess]
          /\ status' = [status EXCEPT ![p] = "ATTESTING"]
          /\ net' = (net \ {m}) \cup {r}
          /\ cackto' = [cackto EXCEPT ![p] = to]
      BY <1>4, <2>0 DEF handleCommitReq
    <2>2. /\ m.source \in Prover /\ m.treeID \in TreeId /\ m.depth \in 1..maxdepth
      BY <1>1, FrameFacts
    <2>3. /\ r \in Frame /\ r.kind = "CMRP" /\ r.source = p
          /\ r.destination = m.source /\ r.treeID = m.treeID /\ r.ttl = MaxDelay
      <3>1. MaxDelay \in 0..MaxDelay
        BY Consts
      <3>. QED
        BY <2>0, <2>2, <3>1 DEF Frame
    <2>4. /\ sess \in Session /\ sess.treeID = m.treeID
          /\ to \in [dev : Dev, t : Timer] /\ to.dev = m.source /\ to.t = timeoutack
      BY <2>0, <2>2, Consts DEF Session, Timer
    <2>5. /\ \A q \in Prover \ {p} : Same(q)
          /\ status'[p] = "ATTESTING" /\ pfirst'[p] = m.source
          /\ psecond'[p] = sess /\ cackto'[p] = to
      BY <1>1, <1>2, <2>1 DEF Types, Same
    <2>6. Idle(p) /\ crespto[p].t = Off /\ check[p] = Off /\ period[p] # 0
      BY <1>1, <1>4 DEF Phase
    <2>7. Types'
      <3>1. /\ status' \in [Prover -> Status] /\ pfirst' \in [Prover -> Dev]
            /\ psecond' \in [Prover -> Session \cup {Null}]
        BY <1>1, <2>1, <2>2, <2>4, Consts DEF Types, Status
      <3>2. cackto' \in [Prover -> [dev : Dev, t : Timer]] /\ net' \subseteq Frame
        BY <1>1, <2>1, <2>3, <2>4 DEF Types
      <3>. QED
        BY <1>1, <1>2, <3>1, <3>2 DEF Types
    <2>8. \A q \in Prover : Phase(q)'
      <3>1. Committed(p)'
        BY <1>2, <2>2, <2>4, <2>5, <2>6, Consts DEF Committed, Idle
      <3>2. Phase(p)'
        BY <2>5, <2>6, <3>1 DEF Phase
      <3>. QED
        BY <2>5, <3>2, SamePhase DEF FirstTree
    <2>9. p # root /\ ~Before
      BY <1>4, RootFacts
    <2>10. RootPhase'
      BY <2>5, <2>9, RootFacts, RootKept, Consts DEF Same
    <2>11. \E t : OneTree(t)'
      <3>1. PICK t : OneTree(t)
        BY DEF FirstTree
      <3>2. m.treeID = t
        BY <3>1 DEF OneTree
      <3>3. OneTree(t)'
        BY <1>2, <2>1, <2>3, <2>4, <2>5, <3>1, <3>2 DEF OneTree, Same
      <3>. QED
        BY <3>3
    <2>12. \A n \in net : n.kind \in Steps => Child(n) # p
      <3>. SUFFICES ASSUME NEW n \in net, n.kind \in Steps, Child(n) = p PROVE FALSE
        OBVIOUS
      <3>1. Answering(n) /\ Acking(n) /\ Reporting(n)
        BY NetFacts
      <3>. QED
        BY <1>4, <3>1 DEF Answering, Acking, Reporting, Steps, Child
    <2>13. \A n \in net' : Answering(n)' /\ Acking(n)' /\ Reporting(n)'
      <3>1. ASSUME NEW n \in net
            PROVE  Answering(n)' /\ Acking(n)' /\ Reporting(n)'
        <4>1. n \in Frame /\ Answering(n) /\ Acking(n) /\ Reporting(n)
          BY NetFacts
        <4>2. Answering(n)'
          BY <2>5, <2>12, <4>1, FrameFacts DEF Answering, Same, Steps, Child
        <4>3. Acking(n)'
          BY <1>2, <2>5, <2>12, <4>1, FrameFacts DEF Acking, Same, Steps, Child
        <4>4. Reporting(n)'
          BY <1>2, <2>5, <2>12, <4>1, FrameFacts DEF Reporting, Same, Steps, Child
        <4>. QED
          BY <4>2, <4>3, <4>4
      <3>2. Answering(r)' /\ Acking(r)' /\ Reporting(r)'
        BY <2>3, <2>4, <2>5, Consts DEF Answering, Acking, Reporting
      <3>. QED
        BY <2>1, <3>1, <3>2
    <2>14. Single'
      <3>1. \A k, n \in net : k.kind \in Steps /\ n.kind \in Steps /\ Child(k) = Child(n)
                                 => k = n
        BY DEF FirstTree, Single
      <3>2. Child(r) = p
        BY <2>3 DEF Child
      <3>. QED
        BY <2>1, <2>12, <3>1, <3>2 DEF Single, Child
    <2>15. Known'
      BY <1>2, <2>5, <2>6 DEF FirstTree, Known, Same, Idle
    <2>16. Children'
      <3>1. \A q \in Prover : \A c \in csess[q] \ {NOID} :
               InTree(q, c) \/ Acked(q, c) \/ Reported(q, c)
        BY DEF FirstTree, Children
      <3>2. \A q \in Prover : ~InTree(q, p) /\ ~Acked(q, p) /\ ~Reported(q, p)
        BY <2>6, <2>12 DEF InTree, Acked, Reported, Idle, Steps, Child
      <3>3. \A q \in Prover : csess'[q] \ {NOID} \subseteq Prover
        BY <2>7 DEF Types, Dev
      <3>. QED
        BY <1>1, <1>2, <2>1, <2>5, <3>1, <3>2, <3>3
           DEF Children, InTree, Acked, Reported, Same
    <2>. QED
      BY <2>7, <2>8, <2>10, <2>11, <2>13, <2>14, <2>15, <2>16 DEF FirstTree
  <1>. QED
    BY <1>3, <1>4

\* The ack: the prover still waits for it, and nothing else on its way is
\* about it.
LEMMA CommitAckInv ==
  ASSUME FirstTree, NEW p \in Prover, NEW m \in net, m.destination = p,
         handleCommitAck(p, m), UNCHANGED <<check, mktree, collected, period>>
  PROVE  FirstTree'
  <1>1. Types /\ Phase(p) /\ m \in Frame /\ m.kind = "CMAK" /\ Acking(m)
    BY NetFacts DEF FirstTree, handleCommitAck
  <1>2. /\ status[p] = "ATTESTING" /\ pfirst[p] = m.source /\ p \in csess[m.source]
        /\ m.source \in Prover
    BY <1>1, FrameFacts DEF Acking
  <1>3. /\ Committed(p) /\ csess[p] = {} /\ crespto[p].t = Off /\ psecond[p] \in Session
        /\ check[p] = Off /\ period[p] # 0
    BY <1>1, <1>2 DEF Phase, Committed, Unasked
  <1>4. PICK t : OneTree(t)
    BY DEF FirstTree
  <1>5. m.treeID = t /\ psecond[p].treeID = t /\ t \in TreeId
    BY <1>1, <1>2, <1>4, FrameFacts DEF OneTree
  <1>6. PICK rest : rest = net \ {m}
    OBVIOUS
  <1>7. /\ rest \in SUBSET net
        /\ \A n \in rest : n.kind \in Steps => Child(n) # p
        /\ \A n \in net \ rest : n.kind \in Steps /\ Child(n) = p
    <2>1. m.kind \in Steps /\ Child(m) = p
      BY <1>1 DEF Steps, Child
    <2>. QED
      BY <1>6, <2>1 DEF FirstTree, Single
  <1>8. /\ cackto' \in [Prover -> [dev : Dev, t : Timer]] /\ cackto'[p].t = Off
        /\ \A q \in Prover \ {p} : cackto'[q] = cackto[q]
    <2>1. cackto' = [cackto EXCEPT ![p].t = Off]
      BY <1>2 DEF handleCommitAck, acked
    <2>. QED
      BY <1>1, <2>1 DEF Types, Timer
  <1>9. CASE psecond[p].depth = 1
    <2>1. sendUpReq(p, pfirst[p], t, csess[p], aggreport[p], rest) /\ UNCHANGED crespto
      BY <1>2, <1>5, <1>6, <1>9 DEF handleCommitAck
    <2>2. \A n \in rest : n.kind = "CMAK" => n.source # p
      BY <1>3, <1>7, NetFacts DEF Acking
    <2>3. \A n \in rest : n.kind = "UPRQ" => n.destination # p
      BY <1>3, <1>7, NetFacts DEF Reporting
    <2>4. \A n \in net \ rest :
             /\ n.kind \in Steps
             /\ Child(n) = p \/ (n.kind = "UPRQ" /\ n.destination = p)
      BY <1>7
    <2>5. \A c \in Prover : NOID \in csess[c] => pfirst[c] # p
      BY <1>3, Consts DEF FirstTree, Known
    <2>6. /\ crespto' \in [Prover -> [treeID : TreeId \cup {NOID}, t : Timer]]
          /\ crespto'[p].t # Off => crespto'[p].treeID = t
          /\ \A q \in Prover \ {p} : cackto'[q] = cackto[q] /\ crespto'[q] = crespto[q]
          /\ csess[p] \ {NOID} = {} /\ aggreport[p] \in SUBSET Prover
          /\ pfirst[p] # NOID => p \in csess[pfirst[p]]
      BY <1>1, <1>2, <1>3, <1>8, <2>1 DEF Types
    <2>. QED
      BY <1>2, <1>4, <1>5, <1>7, <1>8, <2>1, <2>2, <2>3, <2>4, <2>5, <2>6,
         SendUpReqInv
  <1>10. CASE psecond[p].depth # 1
    <2>1. PICK depth : depth = psecond[p].depth - 1
      OBVIOUS
    <2>2. depth \in 1..maxdepth
      <3>1. psecond[p].depth \in 1..maxdepth
        BY <1>3 DEF Session
      <3>. QED
        BY <1>10, <2>1, <3>1, Consts
    <2>3. sendCommitReq(p, m.source, psecond[p], t, rest)
      BY <1>2, <1>5, <1>6, <1>10 DEF handleCommitAck
    <2>4. /\ status' = [status EXCEPT ![p] = "CREATING"]
          /\ psecond' = [psecond EXCEPT ![p] = psecond[p]]
          /\ csess' = [csess EXCEPT ![p] = @ \cup {NOID}]
          /\ awaitResponses(p, t)
          /\ net' = rest \cup
                    {[kind |-> "CMRQ", source |-> p, destination |-> q,
                      depth |-> depth, treeID |-> t, ttl |-> MaxDelay] :
                        q \in Neighbours(p)}
          /\ UNCHANGED <<pfirst, aggreport>>
      <3>1. m.source # NOID /\ depth = childDepth(psecond[p])
        BY <1>2, <2>1, Consts DEF childDepth
      <3>. QED
        BY <1>1, <1>2, <2>3, <3>1 DEF sendCommitReq, Types
    <2>5. p # root /\ ~Before
      BY <1>2, RootFacts
    <2>6. /\ IF p = root THEN ~mktree'
             ELSE pfirst[p] \in Prover /\ ~Before /\ mktree' = mktree
          /\ mktree' \in BOOLEAN /\ status[p] \in {"READY", "ATTESTING"}
          /\ UNCHANGED <<pfirst, aggreport, check, period, collected>>
          /\ pfirst[p] # NOID => p \in csess[pfirst[p]]
      BY <1>1, <1>2, <2>4, <2>5 DEF Types
    <2>. QED
      BY <1>3, <1>4, <1>5, <1>7, <1>8, <2>2, <2>4, <2>6, OpenInv
  <1>. QED
    BY <1>9, <1>10

\* A response: the ack that answers it arrives before the timeout.
LEMMA CommitRespInv ==
  ASSUME FirstTree, AckInTime, NEW p \in Prover, NEW m \in net, m.destination = p,
         handleCommitResp(p, m), UNCHANGED <<check, mktree, collected, period>>
  PROVE  FirstTree'
  <1>1. Types /\ Phase(p) /\ m \in Frame /\ m.kind = "CMRP" /\ Answering(m)
    BY NetFacts DEF FirstTree, handleCommitResp
  <1>2. UNCHANGED <<pfirst, psecond, aggreport, cackto>>
    BY DEF handleCommitResp
  <1>3. CASE ~(status[p] = "CREATING" /\ hasRoom(p) /\ m.source \notin csess[p])
    <2>1. net' = net \ {m} /\ UNCHANGED <<csess, status, crespto>>
      BY <1>3 DEF handleCommitResp
    <2>2. collected' \in (SUBSET Prover) \cup {Null}
      BY <1>1 DEF Types
    <2>. QED
      BY <1>1, <1>2, <2>1, <2>2, DropInv
  <1>4. CASE status[p] = "CREATING" /\ hasRoom(p) /\ m.source \notin csess[p]
    <2>0. PICK a, c : /\ a = [kind |-> "CMAK", source |-> p, destination |-> m.source,
                              treeID |-> m.treeID, ttl |-> MaxDelay]
                      /\ c = m.source
      OBVIOUS
    <2>1. /\ csess' = [csess EXCEPT ![p] = @ \cup {c}]
          /\ net' = (net \ {m}) \cup {a}
          /\ \/ /\ status' = [status EXCEPT ![p] = "COLLECTING"]
                /\ crespto' = [crespto EXCEPT ![p].t = Off]
             \/ status' = status /\ crespto' = crespto
      BY <1>4, <2>0 DEF handleCommitResp
    <2>2. /\ c \in Prover /\ m.treeID \in TreeId /\ m.ttl \in 0..MaxDelay
          /\ status[c] = "ATTESTING" /\ pfirst[c] = p
          /\ cackto[c].t >= timeoutack - MaxDelay + m.ttl
          /\ m.kind \in Steps /\ Child(m) = c
      BY <1>1, <2>0, FrameFacts DEF Answering, Steps, Child
    <2>3. /\ a \in Frame /\ a.kind = "CMAK" /\ a.source = p /\ a.destination = c
          /\ a.treeID = m.treeID /\ a.ttl = MaxDelay /\ Child(a) = c
      <3>1. MaxDelay \in 0..MaxDelay
        BY Consts
      <3>. QED
        BY <2>0, <2>2, <3>1 DEF Frame, Child
    <2>4. Open(p) /\ crespto[p].t # Off /\ check[p] = Off /\ period[p] # 0 /\ c # p
      BY <1>1, <1>4, <2>2 DEF Phase, Unasked
    <2>5. /\ \A q \in Prover \ {p} : Same(q)
          /\ csess'[p] = csess[p] \cup {c}
          /\ \/ status'[p] = "COLLECTING" /\ crespto'[p].t = Off
             \/ status'[p] = "CREATING" /\ crespto'[p] = crespto[p]
      BY <1>1, <1>2, <1>4, <2>1 DEF Types, Same
    <2>6. Types'
      <3>1. \A q \in Prover : IsFiniteSet(csess'[q])
        <4>1. \A q \in Prover : IsFiniteSet(csess[q])
          BY <1>1 DEF Types
        <4>2. IsFiniteSet(csess[p] \cup {c})
          BY <4>1, FS_AddElement
        <4>. QED
          BY <2>5, <4>1, <4>2 DEF Same
      <3>2. status' \in [Prover -> Status] /\ csess' \in [Prover -> SUBSET Dev]
        BY <1>1, <2>1, <2>2, Consts DEF Types, Status
      <3>3. crespto' \in [Prover -> [treeID : TreeId \cup {NOID}, t : Timer]]
        <4>1. CASE crespto' = [crespto EXCEPT ![p].t = Off]
          BY <1>1, <4>1 DEF Types, Timer
        <4>. QED
          BY <1>1, <2>1, <4>1 DEF Types
      <3>4. \A q \in Prover : crespto'[q].t # Off => crespto'[q].treeID \in TreeId
        BY <1>1, <2>5 DEF Types, Same
      <3>5. net' \subseteq Frame
        BY <1>1, <2>1, <2>3 DEF Types
      <3>. QED
        BY <1>1, <1>2, <3>1, <3>2, <3>3, <3>4, <3>5 DEF Types
    <2>7. \A q \in Prover : Phase(q)'
      <3>1. Open(p)'
        BY <1>2, <2>4, <2>5 DEF Open
      <3>2. Phase(p)'
        BY <2>4, <2>5, <3>1 DEF Phase
      <3>. QED
        BY <2>5, <3>2, SamePhase DEF FirstTree
    <2>8. RootPhase'
      BY <1>2, <2>5, RootFacts, RootKept, Consts DEF Same
    <2>9. \E t : OneTree(t)'
      <3>1. PICK t : OneTree(t)
        BY DEF FirstTree
      <3>2. a.treeID = t /\ psecond[p].treeID = t
        BY <2>3, <2>4, <3>1 DEF OneTree, Open
      <3>3. OneTree(t)'
        BY <1>2, <2>1, <2>5, <3>1, <3>2 DEF OneTree, Same
      <3>. QED
        BY <3>3
    <2>10. \A n \in net' : Answering(n)' /\ Acking(n)' /\ Reporting(n)'
      <3>0. \A q \in Prover : csess[q] \subseteq csess'[q]
        BY <2>5 DEF Same
      <3>1. ASSUME NEW n \in net
            PROVE  Answering(n)' /\ Acking(n)' /\ Reporting(n)'
        <4>1. n \in Frame /\ Answering(n) /\ Acking(n) /\ Reporting(n)
          BY NetFacts
        <4>2. Answering(n)'
          BY <1>2, <1>4, <2>5, <4>1, FrameFacts DEF Answering, Same
        <4>3. Acking(n)'
          BY <1>2, <1>4, <2>5, <3>0, <4>1, FrameFacts DEF Acking, Same
        <4>4. Reporting(n)'
          BY <1>2, <1>4, <2>5, <3>0, <4>1, FrameFacts DEF Reporting, Same
        <4>. QED
          BY <4>2, <4>3, <4>4
      <3>2. Answering(a)' /\ Reporting(a)'
        BY <2>3 DEF Answering, Reporting
      <3>3. Acking(a)'
        <4>1. cackto[c].t \in Int
          BY <1>1, <2>2 DEF Types, Timer, Off
        <4>2. cackto'[c].t >= timeoutack - 2 * MaxDelay + a.ttl
          BY <1>2, <2>2, <2>3, <4>1, Consts
        <4>. QED
          BY <1>2, <2>2, <2>3, <2>4, <2>5, <4>2 DEF Acking, Same
      <3>. QED
        BY <2>1, <3>1, <3>2, <3>3
    <2>11. Single'
      <3>1. \A k, n \in net : k.kind \in Steps /\ n.kind \in Steps /\ Child(k) = Child(n)
                                 => k = n
        BY DEF FirstTree, Single
      <3>2. \A n \in net \ {m} : n.kind \in Steps => Child(n) # c
        BY <2>2, <3>1
      <3>. QED
        BY <2>1, <2>3, <3>1, <3>2 DEF Single, Child
    <2>12. Known'
      <3>1. \A q \in Prover : csess[q] \subseteq csess'[q] /\ (NOID \in csess'[q] => NOID \in csess[q])
        BY <2>2, <2>5, Consts DEF Same
      <3>2. \A q \in Prover : pfirst[q] = NOID \/ pfirst[q] \in Prover
        BY <1>1 DEF Types, Dev
      <3>. QED
        BY <1>2, <3>1, <3>2 DEF FirstTree, Known
    <2>13. Children'
      <3>1. SUFFICES ASSUME NEW q \in Prover, NEW d \in csess'[q] \ {NOID}
                     PROVE  InTree(q, d)' \/ Acked(q, d)' \/ Reported(q, d)'
        BY DEF Children
      <3>2. CASE q = p /\ d = c
        BY <1>2, <2>1, <2>2, <2>3, <3>2 DEF Acked
      <3>3. CASE ~(q = p /\ d = c)
        <4>1. d \in csess[q] \ {NOID} /\ d \in Prover
          BY <2>5, <2>6, <3>3 DEF Same, Types, Dev
        <4>2. InTree(q, d) \/ Acked(q, d) \/ Reported(q, d)
          BY <4>1 DEF FirstTree, Children
        <4>3. NOID \in csess[d] => NOID \in csess'[d]
          BY <2>5, <4>1 DEF Same
        <4>. QED
          BY <1>1, <1>2, <2>1, <4>2, <4>3 DEF InTree, Acked, Reported
      <3>. QED
        BY <3>2, <3>3
    <2>. QED
      BY <2>6, <2>7, <2>8, <2>9, <2>10, <2>11, <2>12, <2>13 DEF FirstTree
  <1>. QED
    BY <1>3, <1>4

\* A report: it is awaited, and the parent of the reporting child either goes
\* on waiting for the others or reports itself.
LEMMA UpReqInv ==
  ASSUME FirstTree, NEW p \in Prover, NEW m \in net, m.destination = p,
         handleUpReq(p, m), UNCHANGED <<check, mktree, collected, period>>
  PROVE  FirstTree'
  <1>1. Types /\ Phase(p) /\ m \in Frame /\ Reporting(m) /\ UNCHANGED <<cackto, crespto>>
    BY NetFacts DEF FirstTree, handleUpReq
  <1>2. m.kind = "UPRQ"
    BY <1>1, FrameFacts DEF handleUpReq
  <1>3. PICK c, rest, cs, recs :
           /\ c = m.source /\ rest = net \ {m}
           /\ cs = csess[p] \ {c} /\ recs = aggreport[p] \cup m.report
    OBVIOUS
  <1>4. /\ c \in Prover /\ c \in csess[p] /\ csess[c] = {} /\ c # p
        /\ status[c] \in {"COLLECTING", "FINISHED"}
        /\ m.kind \in Steps /\ Child(m) = c
    BY <1>1, <1>2, <1>3, FrameFacts DEF Reporting, Steps, Child
  <1>5. /\ Open(p) /\ NOID \in csess[p] /\ status[p] \in {"CREATING", "COLLECTING"}
        /\ cackto[p].t = Off /\ check[p] = Off /\ period[p] # 0
    BY <1>1, <1>4 DEF Phase, Idle, Committed, Open
  <1>6. PICK t : OneTree(t)
    BY DEF FirstTree
  <1>7. m.treeID = t /\ psecond[p].treeID = t /\ t \in TreeId
    BY <1>1, <1>5, <1>6, FrameFacts DEF OneTree
  <1>8. Awaited(p, m) /\ ~(m.kind = "UPRQF" \/ status[p] = "FINISHED")
    BY <1>2, <1>3, <1>4, <1>5, <1>7 DEF Awaited
  <1>9. recs \in SUBSET Prover /\ IsFiniteSet(cs) /\ NOID \in cs /\ rest \in SUBSET net
    <2>1. aggreport[p] \subseteq Prover /\ m.report \subseteq Prover /\ IsFiniteSet(csess[p])
      BY <1>1, <1>2, FrameFacts DEF Types
    <2>2. IsFiniteSet(cs)
      BY <1>3, <2>1, FS_Subset
    <2>. QED
      BY <1>3, <1>4, <1>5, <2>1, <2>2, Consts
  <1>10. \A n \in net : n.kind \in Steps => Child(n) # p
    <2>. SUFFICES ASSUME NEW n \in net, n.kind \in Steps, Child(n) = p PROVE FALSE
      OBVIOUS
    <2>1. Answering(n) /\ Acking(n) /\ Reporting(n)
      BY NetFacts
    <2>. QED
      BY <1>5, <2>1 DEF Answering, Acking, Reporting, Steps, Child
  <1>11. \A n \in rest : n.kind \in Steps => Child(n) # c
    BY <1>3, <1>4 DEF FirstTree, Single
  <1>12. CASE lastChild(cs)
    <2>1. cs = {NOID}
      BY <1>9, <1>12, OnlyTree DEF lastChild
    <2>2. sendUpReq(p, pfirst[p], t, cs, recs, rest)
      BY <1>3, <1>7, <1>8, <1>12 DEF handleUpReq
    <2>3. \A d \in Prover : d \in csess[p] => d = c
      BY <1>3, <2>1, Consts
    <2>4. \A n \in rest : n.kind = "CMAK" => n.source # p
      <3>. SUFFICES ASSUME NEW n \in rest, n.kind = "CMAK", n.source = p PROVE FALSE
        OBVIOUS
      <3>1. n \in net /\ n \in Frame /\ Acking(n)
        BY <1>9, NetFacts
      <3>2. n.destination \in Prover
        BY <3>1, FrameFacts
      <3>. QED
        BY <1>11, <2>3, <3>1, <3>2 DEF Acking, Steps, Child
    <2>5. \A n \in rest : n.kind = "UPRQ" => n.destination # p
      <3>. SUFFICES ASSUME NEW n \in rest, n.kind = "UPRQ", n.destination = p PROVE FALSE
        OBVIOUS
      <3>1. n \in net /\ n \in Frame /\ Reporting(n)
        BY <1>9, NetFacts
      <3>2. n.source \in Prover
        BY <3>1, FrameFacts
      <3>. QED
        BY <1>11, <2>3, <3>1, <3>2 DEF Reporting, Steps, Child
    <2>6. \A n \in net \ rest :
             /\ n.kind \in Steps
             /\ Child(n) = p \/ (n.kind = "UPRQ" /\ n.destination = p)
      BY <1>2, <1>3, <1>4
    <2>7. \A d \in Prover : NOID \in csess[d] => pfirst[d] # p
      <3>1. \A d \in Prover : NOID \in csess[d] /\ pfirst[d] # NOID => d \in csess[pfirst[d]]
        BY DEF FirstTree, Known
      <3>. QED
        BY <1>4, <2>3, <3>1, Consts
    <2>8. pfirst[p] # NOID => p \in csess[pfirst[p]]
      BY <1>5 DEF FirstTree, Known
    <2>9. /\ cackto' \in [Prover -> [dev : Dev, t : Timer]]
          /\ crespto' \in [Prover -> [treeID : TreeId \cup {NOID}, t : Timer]]
          /\ cackto'[p].t = Off
          /\ crespto'[p].t # Off => crespto'[p].treeID = t
          /\ \A q \in Prover \ {p} : cackto'[q] = cackto[q] /\ crespto'[q] = crespto[q]
          /\ cs \ {NOID} = {}
          /\ \A n \in rest : n.kind \in Steps => Child(n) # p
      BY <1>1, <1>5, <1>6, <1>9, <1>10, <2>1 DEF Types, OneTree
    <2>. QED
      BY <1>5, <1>6, <1>7, <1>9, <2>2, <2>4, <2>5, <2>6, <2>7, <2>8, <2>9, SendUpReqInv
  <1>13. CASE ~lastChild(cs)
    <2>1. /\ csess' = [csess EXCEPT ![p] = cs]
          /\ aggreport' = [aggreport EXCEPT ![p] = recs]
          /\ net' = rest
          /\ UNCHANGED <<status, pfirst, psecond>>
      BY <1>3, <1>8, <1>13 DEF handleUpReq
    <2>2. /\ \A q \in Prover \ {p} : Same(q)
          /\ csess'[p] = cs /\ cs \subseteq csess[p]
      BY <1>1, <1>3, <2>1 DEF Types, Same
    <2>3. Types'
      <3>1. \A q \in Prover : IsFiniteSet(csess'[q])
        BY <1>1, <1>9, <2>2 DEF Types, Same
      <3>2. csess' \in [Prover -> SUBSET Dev] /\ aggreport' \in [Prover -> SUBSET Prover]
        <4>1. cs \in SUBSET Dev
          BY <1>1, <2>2 DEF Types
        <4>. QED
          BY <1>1, <1>9, <2>1, <4>1 DEF Types
      <3>. QED
        BY <1>1, <1>9, <2>1, <3>1, <3>2 DEF Types
    <2>4. \A q \in Prover : Phase(q)'
      <3>1. Open(p)'
        BY <1>1, <1>5, <1>9, <2>1, <2>2 DEF Open
      <3>2. Phase(p)'
        BY <1>1, <1>4, <1>5, <2>1, <3>1 DEF Phase, Idle, Unasked
      <3>. QED
        BY <2>2, <3>2, SamePhase DEF FirstTree
    <2>5. RootPhase'
      BY <2>1, RootFacts, RootKept
    <2>6. OneTree(t)'
      BY <1>1, <1>6, <1>7, <1>9, <2>1, <2>2 DEF OneTree, Same
    <2>7. \A n \in net' : Answering(n)' /\ Acking(n)' /\ Reporting(n)'
      <3>1. SUFFICES ASSUME NEW n \in rest
                     PROVE  Answering(n)' /\ Acking(n)' /\ Reporting(n)'
        BY <2>1
      <3>2. n \in net /\ n \in Frame /\ Answering(n) /\ Acking(n) /\ Reporting(n)
        BY <1>9, NetFacts
      <3>3. \A q, d \in Prover : d \in csess[q] /\ d # c => d \in csess'[q]
        BY <1>3, <2>2 DEF Same
      <3>4. n.kind \in Steps => Child(n) # c
        BY <1>11
      <3>5. Answering(n)'
        BY <1>1, <2>1, <3>2 DEF Answering
      <3>6. Acking(n)'
        BY <1>1, <2>1, <3>2, <3>3, <3>4, FrameFacts DEF Acking, Steps, Child
      <3>7. Reporting(n)'
        <4>1. n.kind = "UPRQ" => csess'[n.source] = {}
          BY <2>2, <3>2, FrameFacts DEF Reporting, Same
        <4>. QED
          BY <2>1, <3>2, <3>3, <3>4, <4>1, FrameFacts DEF Reporting, Steps, Child
      <3>. QED
        BY <3>5, <3>6, <3>7
    <2>8. Single'
      BY <1>9, <2>1 DEF FirstTree, Single, Child
    <2>9. Known'
      <3>1. \A d \in Prover : NOID \in csess[d] /\ pfirst[d] # NOID => d \in csess[pfirst[d]]
        BY DEF FirstTree, Known
      <3>2. \A d \in Prover : /\ pfirst[d] = NOID \/ pfirst[d] \in Prover
                              /\ NOID \in csess'[d] => NOID \in csess[d]
        BY <1>1, <2>2 DEF Types, Dev, Same
      <3>3. \A q, d \in Prover : d \in csess[q] /\ d # c => d \in csess'[q]
        BY <1>3, <2>2 DEF Same
      <3>. QED
        BY <1>4, <2>1, <3>1, <3>2, <3>3 DEF Known
    <2>10. Children'
      <3>1. SUFFICES ASSUME NEW q \in Prover, NEW d \in csess'[q] \ {NOID}
                     PROVE  InTree(q, d)' \/ Acked(q, d)' \/ Reported(q, d)'
        BY DEF Children
      <3>2. d \in csess[q] \ {NOID} /\ d \in Prover
        BY <2>2, <2>3 DEF Same, Types, Dev
      <3>3. InTree(q, d) \/ Acked(q, d) \/ Reported(q, d)
        BY <3>2 DEF FirstTree, Children
      <3>4. CASE d = c
        <4>1. q # p
          BY <1>3, <2>2, <3>4
        <4>2. ~InTree(q, c)
          BY <1>4 DEF InTree
        <4>3. ~Acked(q, c)
          BY <1>2, <1>3, <1>11 DEF Acked, Steps, Child
        <4>4. ~Reported(q, c)
          BY <1>3, <1>11, <4>1 DEF Reported, Steps, Child
        <4>. QED
          BY <3>3, <3>4, <4>2, <4>3, <4>4
      <3>5. CASE d # c
        <4>1. NOID \in csess[d] => NOID \in csess'[d]
          BY <1>9, <2>2, <3>2 DEF Same
        <4>2. \A n \in net : n.kind \in Steps /\ Child(n) = d => n \in net'
          BY <1>3, <1>4, <2>1, <3>5
        <4>. QED
          BY <2>1, <3>3, <4>1, <4>2 DEF InTree, Acked, Reported, Steps, Child
      <3>. QED
        BY <3>4, <3>5
    <2>. QED
      BY <2>3, <2>4, <2>5, <2>6, <2>7, <2>8, <2>9, <2>10 DEF FirstTree
  <1>. QED
    BY <1>12, <1>13

\* A frame is received.
LEMMA ReceiveInv ==
  ASSUME FirstTree, AckInTime, NEW p \in Prover, receive(p)
  PROVE  FirstTree'
  <1>1. UNCHANGED <<check, mktree, collected, period>>
    BY DEF receive
  <1>2. PICK m \in net :
           /\ m.destination = p
           /\ \/ handleCommitReq(p, m) \/ handleCommitAck(p, m)
              \/ handleCommitResp(p, m) \/ handleUpReq(p, m)
    BY DEF receive
  <1>. QED
    BY <1>1, <1>2, CommitReqInv, CommitAckInv, CommitRespInv, UpReqInv

\* Time passes: what remains of a frame's time and of the timeout for the ack
\* shrinks alike.
LEMMA TickInv ==
  ASSUME FirstTree, AckInTime, Tick
  PROVE  FirstTree'
  <1>1. /\ Types /\ ~mktree
        /\ \A p \in Prover : check[p] # 0 /\ cackto[p].t # 0 /\ crespto[p].t # 0
        /\ \A m \in net : m.ttl > 0
        /\ UNCHANGED <<status, pfirst, psecond, csess, aggreport, mktree, collected, period>>
    BY DEF FirstTree, Tick, Countdowns, sessions
  <1>2. /\ check' = [p \in Prover |-> dec(check[p])]
        /\ cackto' = [p \in Prover |-> [cackto[p] EXCEPT !.t = dec(@)]]
        /\ crespto' = [p \in Prover |-> [crespto[p] EXCEPT !.t = dec(@)]]
        /\ net' = {[m EXCEPT !.ttl = @ - 1] : m \in net}
    BY DEF Tick
  <1>3. \A i \in Timer \ {0} : /\ dec(i) \in Timer /\ (dec(i) = Off <=> i = Off)
                               /\ i # Off => dec(i) = i - 1
    BY DEF Timer, dec, Off
  <1>4. ASSUME NEW p \in Prover
        PROVE  /\ check'[p] \in Timer /\ (check'[p] = Off <=> check[p] = Off)
               /\ cackto'[p] \in [dev : Dev, t : Timer] /\ cackto'[p].dev = cackto[p].dev
               /\ cackto'[p].t = Off <=> cackto[p].t = Off
               /\ cackto[p].t # Off => cackto'[p].t = cackto[p].t - 1
               /\ crespto'[p] \in [treeID : TreeId \cup {NOID}, t : Timer]
               /\ crespto'[p].treeID = crespto[p].treeID
               /\ crespto'[p].t = Off <=> crespto[p].t = Off
    <2>1. /\ check[p] \in Timer \ {0}
          /\ cackto[p] \in [dev : Dev, t : Timer] /\ cackto[p].t \in Timer \ {0}
          /\ crespto[p] \in [treeID : TreeId \cup {NOID}, t : Timer]
          /\ crespto[p].t \in Timer \ {0}
      BY <1>1 DEF Types
    <2>2. check'[p] \in Timer /\ (check'[p] = Off <=> check[p] = Off)
      BY <1>2, <1>3, <2>1
    <2>3. /\ cackto'[p] \in [dev : Dev, t : Timer] /\ cackto'[p].dev = cackto[p].dev
          /\ cackto'[p].t = dec(cackto[p].t)
      BY <1>2, <1>3, <2>1
    <2>4. /\ crespto'[p] \in [treeID : TreeId \cup {NOID}, t : Timer]
          /\ crespto'[p].treeID = crespto[p].treeID
          /\ crespto'[p].t = dec(crespto[p].t)
      BY <1>2, <1>3, <2>1
    <2>. QED
      BY <1>3, <2>1, <2>2, <2>3, <2>4
  <1>5. /\ \A n \in net' : \E m \in net : n = [m EXCEPT !.ttl = m.ttl - 1]
        /\ \A m \in net : \E n \in net' : n = [m EXCEPT !.ttl = m.ttl - 1]
    BY <1>2
  <1>6. /\ \A n \in net' : n \in Frame
        /\ \A n \in net' : \E m \in net :
              /\ n = [m EXCEPT !.ttl = m.ttl - 1] /\ n.ttl = m.ttl - 1
              /\ n.kind = m.kind /\ n.source = m.source /\ n.treeID = m.treeID
              /\ n.destination = m.destination
        /\ \A m \in net : \E n \in net' :
              n.kind = m.kind /\ n.source = m.source /\ n.destination = m.destination
    BY <1>1, <1>5, NetFacts, TickFacts
  <1>7. Types'
    <2>1. /\ check' \in [Prover -> Timer] /\ cackto' \in [Prover -> [dev : Dev, t : Timer]]
          /\ crespto' \in [Prover -> [treeID : TreeId \cup {NOID}, t : Timer]]
      BY <1>2, <1>4
    <2>2. \A p \in Prover : crespto'[p].t # Off => crespto'[p].treeID \in TreeId
      BY <1>1, <1>4 DEF Types
    <2>3. net' \subseteq Frame
      BY <1>6
    <2>. QED
      BY <1>1, <2>1, <2>2, <2>3 DEF Types
  <1>8. \A p \in Prover : Phase(p)'
    BY <1>1, <1>4 DEF FirstTree, Phase, Idle, Committed, Open
  <1>9. RootPhase'
    BY <1>1, <1>4, <1>6, Consts DEF FirstTree, RootPhase, Before
  <1>10. \E t : OneTree(t)'
    <2>1. PICK t : OneTree(t)
      BY DEF FirstTree
    <2>2. OneTree(t)'
      BY <1>1, <1>4, <1>6, <2>1 DEF OneTree
    <2>. QED
      BY <2>2
  <1>11. \A n \in net' : Answering(n)' /\ Acking(n)' /\ Reporting(n)'
    <2>. SUFFICES ASSUME NEW n \in net'
                  PROVE  Answering(n)' /\ Acking(n)' /\ Reporting(n)'
      OBVIOUS
    <2>1. PICK m \in net : /\ n.ttl = m.ttl - 1 /\ n.kind = m.kind
                           /\ n.source = m.source /\ n.destination = m.destination
      BY <1>6
    <2>2. m \in Frame /\ Answering(m) /\ Acking(m) /\ Reporting(m)
      BY NetFacts
    <2>3. \A p \in Prover : cackto[p].t \in Timer
      BY <1>1 DEF Types
    <2>4. m.ttl \in 0..MaxDelay
      BY <2>2, FrameFacts
    <2>5. ASSUME NEW p \in Prover, NEW i \in Int, i >= 0, cackto[p].t >= i + m.ttl
          PROVE  cackto'[p].t >= i + n.ttl
      <3>1. cackto[p].t # Off /\ cackto[p].t \in Int
        BY <2>3, <2>4, <2>5, Consts DEF Off, Timer
      <3>. QED
        BY <1>4, <2>1, <2>4, <2>5, <3>1, Consts
    <2>6. timeoutack - MaxDelay \in Nat /\ timeoutack - 2 * MaxDelay \in Nat
      BY Consts DEF AckInTime
    <2>7. Answering(n)'
      BY <1>1, <2>1, <2>2, <2>5, <2>6, FrameFacts DEF Answering
    <2>8. Acking(n)'
      <3>1. CASE n.kind = "CMAK"
        <4>1. /\ m.destination \in Prover
              /\ cackto[m.destination].t >= timeoutack - 2 * MaxDelay + m.ttl
          BY <2>1, <2>2, <3>1, FrameFacts DEF Acking
        <4>2. cackto'[m.destination].t >= timeoutack - 2 * MaxDelay + n.ttl
          BY <2>5, <2>6, <4>1
        <4>. QED
          BY <1>1, <2>1, <2>2, <4>2 DEF Acking
      <3>. QED
        BY <3>1 DEF Acking
    <2>9. Reporting(n)'
      BY <1>1, <2>1, <2>2 DEF Reporting
    <2>. QED
      BY <2>7, <2>8, <2>9
  <1>12. Single'
    BY <1>6 DEF FirstTree, Single, Child
  <1>13. Known'
    BY <1>1 DEF FirstTree, Known
  <1>14. Children'
    <2>1. \A p \in Prover : \A c \in csess[p] \ {NOID} :
             InTree(p, c) \/ Acked(p, c) \/ Reported(p, c)
      BY DEF FirstTree, Children
    <2>. QED
      BY <1>1, <1>6, <2>1 DEF Children, InTree, Acked, Reported
  <1>. QED
    BY <1>7, <1>8, <1>9, <1>10, <1>11, <1>12, <1>13, <1>14 DEF FirstTree

-----------------------------------------------------------------------------
\* Periods are only counted up, so that a state of the first one comes from
\* a state of the first one.
LEMMA PeriodNext ==
  ASSUME PeriodType, [Next]_vars
  PROVE  PeriodType' /\ (InPeriod' => InPeriod)
  <1>1. ASSUME NEW p \in Prover, startAttestation(p)
        PROVE  PeriodType' /\ (InPeriod' => InPeriod)
    BY <1>1 DEF startAttestation, PeriodType, InPeriod
  <1>2. ASSUME period' = period
        PROVE  PeriodType' /\ (InPeriod' => InPeriod)
    BY <1>2 DEF PeriodType, InPeriod
  <1>3. period' = period \/ \E p \in Prover : startAttestation(p)
    BY DEF Next, Event, Over, checkSoftConfig, handleCommitAckTimeOut,
       handleCommitRespTimeOut, receive, scheduleTwice, mkTree, collect, Tick, vars
  <1>. QED
    BY <1>1, <1>2, <1>3

\* A prover that is READY has no timeout for an ack pending.
LEMMA NoneTwice ==
  ASSUME FirstTree, NEW p \in Prover
  PROVE  ~scheduleTwice(p)
  BY DEF FirstTree, Phase, Unasked, Idle, scheduleTwice, ackScheduled

\* A step that changes nothing.
LEMMA StutterInv ==
  ASSUME FirstTree, UNCHANGED vars
  PROVE  FirstTree'
  <1>1. UNCHANGED <<status, pfirst, psecond, csess, aggreport, check, mktree, cackto,
                    crespto, net, collected, period>>
    BY DEF vars, sessions, timers
  <1>2. Types' /\ RootPhase' /\ Known'
    BY <1>1 DEF FirstTree, Types, RootPhase, Before, Known
  <1>3. \A p \in Prover : Phase(p)'
    BY <1>1, SamePhase DEF FirstTree, Same
  <1>4. \E t : OneTree(t)'
    BY <1>1 DEF FirstTree, OneTree
  <1>5. \A m \in net' : Answering(m)' /\ Acking(m)' /\ Reporting(m)'
    BY <1>1 DEF FirstTree, Answering, Acking, Reporting
  <1>6. Single' /\ Children'
    BY <1>1 DEF FirstTree, Single, Child, Children, InTree, Acked, Reported
  <1>. QED
    BY <1>2, <1>3, <1>4, <1>5, <1>6 DEF FirstTree

\* Every step keeps the invariant of the first period.
LEMMA NextInv ==
  ASSUME AckInTime, WiredInv, [Next]_vars
  PROVE  WiredInv'
  <1>1. PeriodType' /\ (InPeriod' => InPeriod)
    BY PeriodNext DEF WiredInv
  <1>2. ASSUME InPeriod'
        PROVE  FirstTree'
    <2>1. FirstTree /\ PeriodType
      BY <1>1, <1>2 DEF WiredInv
    <2>2. ASSUME NEW p \in Prover, startAttestation(p) PROVE FirstTree'
      BY <1>2, <2>1, <2>2, StartInv
    <2>3. ASSUME NEW p \in Prover, checkSoftConfig(p) PROVE FirstTree'
      BY <2>1, <2>3, CheckInv
    <2>4. ASSUME NEW p \in Prover, handleCommitAckTimeOut(p) PROVE FirstTree'
      BY <2>1, <2>4, AckTimeOutInv
    <2>5. ASSUME NEW p \in Prover, handleCommitRespTimeOut(p) PROVE FirstTree'
      BY <2>1, <2>5, RespTimeOutInv
    <2>6. ASSUME NEW p \in Prover, receive(p) PROVE FirstTree'
      BY <2>1, <2>6, ReceiveInv
    <2>7. CASE mkTree
      BY <2>1, <2>7, MkTreeInv
    <2>8. CASE collect
      BY <2>1, <2>8, CollectInv
    <2>9. CASE Tick
      BY <2>1, <2>9, TickInv
    <2>10. CASE Over \/ UNCHANGED vars
      BY <2>1, <2>10, StutterInv DEF Over
    <2>. QED
      BY <2>1, <2>2, <2>3, <2>4, <2>5, <2>6, <2>7, <2>8, <2>9, <2>10, NoneTwice
         DEF Next, Event
  <1>. QED
    BY <1>1, <1>2 DEF WiredInv

\* The inductive invariant holds in every reachable state.
LEMMA WiredInvariant ==
  ASSUME AckInTime
  PROVE  Spec => []WiredInv
  <1>1. Init => WiredInv
    BY InitInv
  <1>2. WiredInv /\ [Next]_vars => WiredInv'
    BY NextInv
  <1>. QED
    BY <1>1, <1>2, PTL DEF Spec

-----------------------------------------------------------------------------
\* If an ack cannot be later than the timeout for it, then in the first period
\* a parent, which has no timeout for its children (handleUpReq is all that
\* removes them), waits only for provers that have it as their parent or have
\* sent it their report: it never waits for a prover that gave it up.
THEOREM ChildCommittedCorrect ==
  ASSUME AckInTime
  PROVE  Spec => []ChildCommitted
  <1>1. WiredInv => ChildCommitted
    <2>. SUFFICES ASSUME FirstTree, NEW p \in Prover, NEW c \in csess[p] \ {NOID}
                  PROVE  \/ pfirst[c] = p
                         \/ \E m \in net : /\ m.kind = "UPRQ" /\ m.source = c
                                           /\ m.destination = p
      BY DEF WiredInv, ChildCommitted
    <2>1. InTree(p, c) \/ Acked(p, c) \/ Reported(p, c)
      BY DEF FirstTree, Children
    <2>. QED
      BY <2>1 DEF InTree, Acked, Reported
  <1>. QED
    BY <1>1, WiredInvariant, PTL

\* If an ack cannot be later than the timeout for it, then in the first period
\* every report on its way to a prover finds there a session for its sender
\* and the tree it names (the tests of handleUpReq): none is dropped and none
\* is sent on through gate 0.
THEOREM ReportAwaitedCorrect ==
  ASSUME AckInTime
  PROVE  Spec => []ReportAwaited
  <1>1. WiredInv => ReportAwaited
    <2>. SUFFICES ASSUME FirstTree, NEW m \in net, m.kind = "UPRQ"
                  PROVE  Awaited(m.destination, m)
      BY DEF WiredInv, ReportAwaited, Fits
    <2>1. m \in Frame /\ Reporting(m)
      BY NetFacts
    <2>2. m.destination \in Prover /\ m.source \in csess[m.destination]
      BY <2>1, FrameFacts DEF Reporting
    <2>3. Phase(m.destination)
      BY <2>2 DEF FirstTree
    <2>4. NOID \in csess[m.destination] /\ status[m.destination] \in {"CREATING", "COLLECTING"}
      BY <2>2, <2>3 DEF Phase, Idle, Committed, Open
    <2>5. PICK t : OneTree(t)
      BY DEF FirstTree
    <2>6. m.treeID = psecond[m.destination].treeID
      BY <2>2, <2>4, <2>5 DEF OneTree
    <2>. QED
      BY <2>2, <2>4, <2>6 DEF Awaited
  <1>. QED
    BY <1>1, WiredInvariant, PTL

\* In the first period the state is well typed; in particular the levels that
\* sendCommitReq counts down stay between 1 and maxdepth, for any depth of the
\* network.
THEOREM WiredTypesFirst ==
  ASSUME AckInTime
  PROVE  Spec => [](InPeriod => WiredTypeOK)
  <1>1. WiredInv => (InPeriod => WiredTypeOK)
    <2>. SUFFICES ASSUME FirstTree PROVE WiredTypeOK
      BY DEF WiredInv
    <2>1. Types
      BY DEF FirstTree
    <2>2. \A m \in net : /\ m.source \in Prover
                         /\ m.destination \in Prover \cup {Collector}
                         /\ m.ttl \in 0..MaxDelay
      BY <2>1, FrameFacts DEF Types
    <2>. QED
      BY <2>1, <2>2 DEF Types, WiredTypeOK, Session
  <1>. QED
    BY <1>1, WiredInvariant, PTL

-----------------------------------------------------------------------------
(***************************************************************************)
(* The report that ends the experiment is complete.  Everything below is   *)
(* about networks in which nobody has to refuse children (Fits)            *)
(* and about the first period.                                             *)
(***************************************************************************)

\* The network is connected: a set of provers that holds the root and the
\* neighbours of its members holds everybody.
Joined(ls) ==
    \A S \in SUBSET Prover :
       /\ root \in S
       /\ \A p \in S : \A q \in Prover : {p, q} \in ls => q \in S
       => S = Prover

\* w is a path of k links without repetition from the root.
Path(w, k, ls) ==
    /\ w[0] = root
    /\ \A i \in 1..k : {w[i - 1], w[i]} \in ls
    /\ \A i, j \in 0..k : w[i] = w[j] => i = j

\* No path is so long that a prover would be at the last level.  There a
\* prover reports as soon as it is acknowledged, so that its parent may report
\* before the others that it invited have answered.
Shallow(ls) == \A w \in [0..maxdepth -> Prover] : ~Path(w, maxdepth, ls)

Spanned == \A ls \in Networks : Joined(ls) /\ Shallow(ls)

\* An ack and all responses arrive before the timeouts for them, and the root
\* is not faster than the others to check its firmware.
Prompt ==
    /\ AckInTime /\ 2 * MaxDelay < timeoutresp
    /\ firmware[root] > 0 /\ \A p \in Prover : firmware[p] <= firmware[root]

-----------------------------------------------------------------------------
Asked(p) == status[p] \notin Unasked

\* Until the root's firmware is checked.
Waiting == period[root] = 0 \/ check[root] # Off
Remaining == IF period[root] = 0 THEN firmware[root] ELSE check[root]

\* A prover starts its first period at once, and no check outlasts the root's:
\* when the root's is over, nobody is still checking or yet to start.
Starting ==
    /\ attest \in [Prover -> Timer]
    /\ \A p \in Prover : /\ period[p] = 0 => attest[p] = 0
                         /\ status[p] = "JOINING" => period[p] = 0
                         /\ status[p] = "CHECKING" => check[p] # Off
    /\ Waiting => \A p \in Prover : /\ check[p] <= Remaining
                                    /\ period[p] = 0 => Remaining = firmware[root]
    /\ ~Waiting => \A p \in Prover : period[p] # 0 /\ check[p] \in {0, Off}
    /\ ~Before => \A p \in Prover : check[p] = Off

\* What is left of the timeout for responses.
Bounded == \A p \in Prover : crespto[p].t <= timeoutresp

\* Nobody that p invited can still be about to answer.
Late(p) == crespto[p].t < timeoutresp - 2 * MaxDelay

\* There is a path of k links to p along provers that have been asked.
Trail(p, k) ==
    /\ k \in Nat
    /\ \E w \in [0..k -> Prover] :
          Path(w, k, links) /\ w[k] = p /\ \A i \in 0..k : Asked(w[i])

\* An invitation is for a neighbour and comes from a prover that is as deep in
\* the tree as it says; if it will find somebody, its sender still waits.
Inviting(m) ==
    m.kind = "CMRQ" =>
       /\ m.destination \in Neighbours(m.source)
       /\ Trail(m.source, maxdepth - m.depth)
       /\ ~Asked(m.destination) =>
             /\ status[m.source] = "CREATING"
             /\ crespto[m.source].t >= timeoutresp - MaxDelay + m.ttl

\* A response finds its addressee still waiting for it.
Responding(m) ==
    m.kind = "CMRP" =>
       /\ m.source \in Neighbours(m.destination)
       /\ status[m.destination] = "CREATING"
       /\ crespto[m.destination].t >= timeoutresp - 2 * MaxDelay + m.ttl

\* A report does not reach a parent while others may answer it, and the one
\* for the collector has everybody's record.
Timely(m) ==
    /\ m.kind = "UPRQ" /\ status[m.destination] = "CREATING" => Late(m.destination)
    /\ m.kind = "UPRQC" => m.report = Prover

\* Parents and children are neighbours, and nobody is both.
Adjacent ==
    \A p \in Prover :
       /\ csess[p] \subseteq Neighbours(p) \cup {NOID}
       /\ pfirst[p] # NOID => pfirst[p] \in Neighbours(p) /\ pfirst[p] \notin csess[p]

\* The level of a prover is the length of a path to it.
Levels ==
    \A p \in Prover \ {root} :
       status[p] = "ATTESTING" \/ NOID \in csess[p]
          => \E k \in Nat : psecond[p].depth = maxdepth - k + 1 /\ Trail(p, k)

\* Each of S waits for an answer, for no less than t, or for another of S.
Busy(S, t) ==
    \A q \in S :
       \/ status[q] = "ATTESTING"
       \/ status[q] = "CREATING" /\ crespto[q].t >= t
       \/ status[q] = "COLLECTING" /\ csess[q] \cap S # {}

\* While others may answer a prover, none of its children is done: the child
\* waits for answers itself, or has no more room and waits for its children.
Young ==
    \A p \in Prover : status[p] = "CREATING" /\ ~Late(p) =>
       \E S \in SUBSET Prover : csess[p] \ {NOID} \subseteq S /\ Busy(S, crespto[p].t)

\* An answer is on its way for every prover that waits for one.
Answered ==
    \A p \in Prover : status[p] = "ATTESTING" =>
       \E m \in net : m.kind \in {"CMRP", "CMAK"} /\ Child(m) = p

\* A prover that was in the tree has asked, or is asking, all its neighbours.
Passed(p) == Asked(p) /\ status[p] # "ATTESTING"
Invited(p, q) ==
    \E m \in net : m.kind = "CMRQ" /\ m.source = p /\ m.destination = q
Spreading ==
    \A p \in Prover : Passed(p) => \A q \in Neighbours(p) : Asked(q) \/ Invited(p, q)

\* Until the root reports, the record of a prover that has reported is with
\* one that has not, or on its way to it.
Held(c) ==
    \/ \E p \in Prover : NOID \in csess[p] /\ c \in aggreport[p]
    \/ \E m \in net : m.kind = "UPRQ" /\ c \in m.report
Kept ==
    NOID \in csess[root] =>
       \A c \in Prover : Passed(c) /\ NOID \notin csess[c] => Held(c)

\* All that are in the tree are below the root.
Closed(S) == root \in S /\ \A p \in S : csess[p] \ {NOID} \subseteq S
Rooted ==
    \A S \in SUBSET Prover : Closed(S) => \A p \in Prover : NOID \in csess[p] => p \in S

\* The root reports once, and what the collector has is complete.
Ending ==
    /\ NOID \in csess[root] => \A m \in net : m.kind # "UPRQC"
    /\ collected # Null => collected = Prover

\* What holds in the first period while everybody fits.
Spans ==
    /\ Starting
    /\ Bounded
    /\ \A m \in net : Inviting(m) /\ Responding(m) /\ Timely(m)
    /\ Adjacent
    /\ Levels
    /\ Young
    /\ Answered
    /\ Spreading
    /\ Kept
    /\ Rooted
    /\ Ending

SpanInv == links \in Networks /\ (Fits => Spans)

-----------------------------------------------------------------------------
\* Who has been asked stays so, and so do the paths that lead to it.
LEMMA TrailKept ==
  ASSUME links' = links, \A q \in Prover : Asked(q) => Asked(q)',
         NEW p, NEW k, Trail(p, k)
  PROVE  Trail(p, k)'
  <1>1. PICK w \in [0..k -> Prover] :
           Path(w, k, links) /\ w[k] = p /\ \A i \in 0..k : Asked(w[i])
    BY DEF Trail
  <1>2. Path(w, k, links)' /\ \A i \in 0..k : Asked(w[i])'
    BY <1>1 DEF Path
  <1>. QED
    BY <1>1, <1>2 DEF Trail

\* A path grows by a link when a prover accepts an invitation.
LEMMA TrailExtended ==
  ASSUME links' = links, \A q \in Prover : Asked(q) => Asked(q)',
         NEW q \in Prover, NEW p \in Prover, NEW k, Trail(q, k),
         p \in Neighbours(q), ~Asked(p), Asked(p)'
  PROVE  Trail(p, k + 1)'
  <1>1. PICK w \in [0..k -> Prover] :
           Path(w, k, links) /\ w[k] = q /\ \A i \in 0..k : Asked(w[i])
    BY DEF Trail
  <1>2. k \in Nat
    BY DEF Trail
  <1>3. PICK v : v = [i \in 0..(k + 1) |-> IF i = k + 1 THEN p ELSE w[i]]
    OBVIOUS
  <1>4. /\ v \in [0..(k + 1) -> Prover] /\ v[k + 1] = p
        /\ \A i \in 0..k : v[i] = w[i] /\ v[i] # p
    <2>1. \A i \in 0..(k + 1) : i # k + 1 => i \in 0..k
      BY <1>2
    <2>2. \A i \in 0..k : i \in 0..(k + 1) /\ i # k + 1
      BY <1>2
    <2>3. k + 1 \in 0..(k + 1)
      BY <1>2
    <2>. QED
      BY <1>1, <1>3, <2>1, <2>2, <2>3
  <1>5. \A i \in 0..(k + 1) : Asked(v[i])'
    <2>1. \A i \in 0..k : w[i] \in Prover
      OBVIOUS
    <2>2. \A i \in 0..(k + 1) : i # k + 1 => i \in 0..k
      BY <1>2
    <2>. QED
      BY <1>1, <1>4, <2>1, <2>2
  <1>6. Path(v, k + 1, links)
    <2>1. v[0] = root
      BY <1>1, <1>2, <1>4 DEF Path
    <2>2. ASSUME NEW i \in 1..(k + 1)
          PROVE  {v[i - 1], v[i]} \in links
      <3>1. CASE i = k + 1
        <4>1. v[i - 1] = q /\ v[i] = p
          BY <1>1, <1>2, <1>4, <3>1
        <4>. QED
          BY <4>1 DEF Neighbours
      <3>2. CASE i # k + 1
        <4>1. i \in 1..k /\ i - 1 \in 0..k /\ i \in 0..k
          BY <1>2, <3>2
        <4>. QED
          BY <1>1, <1>4, <4>1 DEF Path
      <3>. QED
        BY <3>1, <3>2
    <2>3. ASSUME NEW i \in 0..(k + 1), NEW j \in 0..(k + 1), v[i] = v[j]
          PROVE  i = j
      <3>1. \A l \in 0..(k + 1) : l # k + 1 => l \in 0..k
        BY <1>2
      <3>. QED
        BY <1>1, <1>4, <2>3, <3>1 DEF Path
    <2>. QED
      BY <2>1, <2>2, <2>3 DEF Path
  <1>7. Path(v, k + 1, links)' /\ k + 1 \in Nat
    BY <1>2, <1>6 DEF Path
  <1>. QED
    BY <1>4, <1>5, <1>7 DEF Trail

\* The start of the period is over, or nothing about it changes.
LEMMA StartingKept ==
  ASSUME Starting, UNCHANGED <<period, check, attest, mktree>>,
         \A q \in Prover : status'[q] \in {"JOINING", "CHECKING"} => status'[q] = status[q]
  PROVE  Starting'
  BY DEF Starting, Waiting, Remaining, Before

\* Nobody's status, children or timeout for responses changes.
LEMMA YoungKept ==
  ASSUME Young, UNCHANGED <<status, csess, crespto>>
  PROVE  Young'
  <1>. QED
    BY DEF Young, Busy, Late

\* Before the root opens the tree nothing else is to be shown.
LEMMA QuietSpans ==
  ASSUME FirstTree', Before', collected' = Null, Starting'
  PROVE  Spans'
  <1>1. /\ net' = {}
        /\ \A q \in Prover : /\ status'[q] \in Unasked /\ csess'[q] = {}
                             /\ pfirst'[q] = NOID /\ crespto'[q].t = Off
    <2>1. net' = {} /\ \A q \in Prover : status'[q] \in Unasked
      BY DEF FirstTree, RootPhase
    <2>2. \A q \in Prover : Idle(q)' /\ crespto'[q].t = Off
      BY <2>1 DEF FirstTree, Phase, Unasked
    <2>. QED
      BY <2>1, <2>2 DEF Idle
  <1>2. Bounded'
    BY <1>1, Consts DEF Bounded, Off
  <1>3. Adjacent' /\ Levels' /\ Young'
    BY <1>1, Consts DEF Adjacent, Levels, Young, Unasked
  <1>4. Answered' /\ Spreading' /\ Kept'
    BY <1>1, Consts DEF Answered, Spreading, Passed, Asked, Kept, Unasked
  <1>5. Rooted' /\ Ending'
    BY <1>1, Consts DEF Rooted, Ending
  <1>. QED
    BY <1>1, <1>2, <1>3, <1>4, <1>5 DEF Spans

\* The initial states: nobody has been asked and nothing is on its way.
LEMMA InitSpans == Init => SpanInv
  <1>. SUFFICES ASSUME Init PROVE SpanInv
    OBVIOUS
  <1>1. Starting
    BY Consts DEF Init, Starting, Waiting, Remaining, Before, Timer, Off
  <1>2. Bounded
    BY Consts DEF Init, Bounded, Off
  <1>3. Adjacent /\ Levels /\ Young
    BY Consts DEF Init, Adjacent, Levels, Young
  <1>4. Answered /\ Spreading /\ Kept
    BY Consts DEF Init, Answered, Spreading, Passed, Asked, Kept, Unasked
  <1>5. Rooted /\ Ending
    BY Consts DEF Init, Rooted, Ending
  <1>6. net = {} /\ links \in Networks
    BY DEF Init
  <1>. QED
    BY <1>1, <1>2, <1>3, <1>4, <1>5, <1>6 DEF Spans, SpanInv

\* A prover starts its period: the root's check is not over.
LEMMA StartSpans ==
  ASSUME FirstTree, FirstTree', PeriodType, InPeriod', Prompt, Spans,
         links \in Networks, NEW p \in Prover, startAttestation(p)
  PROVE  Spans'
  <1>1. /\ period[p] = 0 /\ period'[p] = 1 /\ Starting /\ Types
        /\ \A q \in Prover \ {p} : period'[q] = period[q]
    BY DEF PeriodType, InPeriod, startAttestation, Spans, FirstTree
  <1>2. Waiting
    BY <1>1 DEF Starting
  <1>3. /\ status'[p] = "CHECKING" /\ check'[p] = firmware[p] /\ mktree' = mktree
        /\ \A q \in Prover \ {p} : status'[q] = status[q] /\ check'[q] = check[q]
        /\ collected' = Null
    BY <1>1 DEF startAttestation, Types, Ended
  <1>4. /\ attest' \in [Prover -> Timer]
        /\ \A q \in Prover \ {p} : attest'[q] = attest[q]
    <2>1. attest \in [Prover -> Timer] /\ deltah[links] \in Timer
      BY <1>1, WiredAssumption DEF Starting, Timer
    <2>. QED
      BY <2>1 DEF startAttestation
  <1>5. firmware[p] \in Nat /\ firmware[root] \in Nat /\ firmware[p] <= firmware[root]
    BY Consts DEF Prompt
  <1>6. Waiting' /\ Remaining' = Remaining /\ Remaining = firmware[root]
    <2>1. Remaining = firmware[root]
      BY <1>1, <1>2 DEF Starting
    <2>2. CASE p = root
      BY <1>1, <1>3, <1>5, <2>1, <2>2, Consts DEF Waiting, Remaining
    <2>3. CASE p # root
      BY <1>1, <1>2, <1>3, <2>1, <2>3, Consts DEF Waiting, Remaining
    <2>. QED
      BY <2>1, <2>2, <2>3
  <1>7. Before'
    BY <1>6 DEF Before, Waiting
  <1>8. Starting'
    <2>1. \A q \in Prover : /\ period'[q] = 0 => attest'[q] = 0
                            /\ status'[q] = "JOINING" => period'[q] = 0
                            /\ status'[q] = "CHECKING" => check'[q] # Off
      BY <1>1, <1>3, <1>4, <1>5, Consts DEF Starting
    <2>2. \A q \in Prover : check'[q] <= Remaining'
      BY <1>1, <1>2, <1>3, <1>5, <1>6 DEF Starting
    <2>. QED
      BY <1>4, <1>6, <1>7, <2>1, <2>2 DEF Starting
  <1>. QED
    BY <1>3, <1>7, <1>8, QuietSpans

\* A check ends.  When it is the root's, all others have ended or end now.
LEMMA CheckSpans ==
  ASSUME FirstTree, FirstTree', Prompt, Spans, NEW p \in Prover, checkSoftConfig(p)
  PROVE  Spans'
  <1>1. /\ check[p] = 0 /\ Starting /\ Types /\ Phase(p) /\ RootPhase
        /\ check' = [check EXCEPT ![p] = Off]
        /\ UNCHANGED <<attest, period>> /\ mktree' = (mktree \/ p = root)
        /\ collected' = Null
    BY DEF checkSoftConfig, Spans, FirstTree, Ended
  <1>2. /\ status'[p] = "READY" /\ check'[p] = Off
        /\ \A q \in Prover \ {p} : status'[q] = status[q] /\ check'[q] = check[q]
    BY <1>1 DEF checkSoftConfig, Types
  <1>3. Before /\ period[p] # 0
    BY <1>1 DEF Starting, Off, Phase
  <1>4. \A q \in Prover : check[q] \in Timer
    BY <1>1 DEF Types
  <1>5. firmware[root] \in Nat /\ firmware[root] > 0
    BY Consts DEF Prompt
  <1>6. \A q \in Prover : /\ period'[q] = 0 => attest'[q] = 0
                          /\ status'[q] = "JOINING" => period'[q] = 0
                          /\ status'[q] = "CHECKING" => check'[q] # Off
    BY <1>1, <1>2 DEF Starting
  <1>7. CASE p = root
    <2>1. Waiting /\ Remaining = 0
      BY <1>1, <1>3, <1>7 DEF Waiting, Remaining, Off
    <2>2. \A q \in Prover : check[q] <= 0 /\ period[q] # 0
      BY <1>1, <1>5, <2>1 DEF Starting
    <2>3. \A q \in Prover : check[q] \in {0, Off}
      BY <1>4, <2>2 DEF Timer
    <2>4. ~Waiting' /\ Before'
      BY <1>1, <1>2, <1>3, <1>7 DEF Waiting, Before
    <2>5. \A q \in Prover : period'[q] # 0 /\ check'[q] \in {0, Off}
      BY <1>1, <1>2, <2>2, <2>3
    <2>6. Starting'
      BY <1>1, <1>6, <2>4, <2>5 DEF Starting
    <2>. QED
      BY <1>1, <2>4, <2>6, QuietSpans
  <1>8. CASE p # root
    <2>1. Before' /\ (Waiting' <=> Waiting) /\ (Waiting => Remaining' = Remaining)
      BY <1>1, <1>2, <1>3, <1>8, Consts DEF Before, Waiting, Remaining
    <2>2. Waiting => Remaining \in Nat
      BY <1>4, <1>5, Consts DEF Waiting, Remaining, Timer
    <2>3. Waiting => \A q \in Prover : /\ check'[q] <= Remaining'
                                       /\ period'[q] = 0 => Remaining' = firmware[root]
      BY <1>1, <1>2, <2>1, <2>2 DEF Starting, Off
    <2>4. ~Waiting => \A q \in Prover : period'[q] # 0 /\ check'[q] \in {0, Off}
      BY <1>1, <1>2 DEF Starting
    <2>5. Starting'
      BY <1>1, <1>6, <2>1, <2>3, <2>4 DEF Starting
    <2>. QED
      BY <1>1, <2>1, <2>5, QuietSpans
  <1>. QED
    BY <1>7, <1>8

-----------------------------------------------------------------------------
\* A prover opens its part of the tree and asks all its neighbours.
Opens(p, depth, rest, inv) ==
    /\ depth \in 1..maxdepth /\ rest \subseteq net
    /\ net' = rest \cup inv
    /\ \A m \in inv : /\ m.kind = "CMRQ" /\ m.source = p /\ m.destination \in Neighbours(p)
                      /\ m.depth = depth /\ m.ttl = MaxDelay
    /\ \A q \in Neighbours(p) : \E m \in inv : m.destination = q
    /\ \A q \in Prover \ {p} : Same(q)
    /\ status[p] \in {"READY", "ATTESTING"} /\ status'[p] = "CREATING"
    /\ csess[p] = {} /\ csess'[p] = {NOID} /\ crespto'[p].t = timeoutresp
    /\ UNCHANGED <<links, pfirst, aggreport, collected>> /\ collected = Null
    /\ Trail(p, maxdepth - depth)'
    /\ p = root => net = {} /\ pfirst[p] = NOID
    /\ p # root => /\ psecond'[p].depth = depth + 1
                   /\ pfirst[p] \in Prover /\ p \in csess[pfirst[p]]
    /\ \A m \in net \ rest : m.kind = "CMAK" /\ m.destination = p

\* It waits for their answers at least as long as its parent does.
LEMMA OpenSpans ==
  ASSUME FirstTree, Spans, Starting', NEW p \in Prover, NEW depth, NEW rest, NEW inv,
         Opens(p, depth, rest, inv)
  PROVE  Spans'
  <1>. USE DEF Opens
  <1>1. /\ Types /\ Bounded /\ Adjacent /\ Levels /\ Young /\ Answered /\ Spreading
        /\ Kept /\ Rooted /\ Ending
        /\ \A m \in net : m \in Frame /\ Inviting(m) /\ Responding(m) /\ Timely(m)
    BY NetFacts DEF Spans, FirstTree
  <1>2. \A q \in Prover : Asked(q) => Asked(q)'
    BY DEF Asked, Same, Unasked
  <1>3. \A q, k : Trail(q, k) => Trail(q, k)'
    BY <1>2, TrailKept
  <1>4. \A q \in Prover : Neighbours(q)' = Neighbours(q)
    BY DEF Neighbours
  <1>5. \A q \in Prover : csess'[q] \ {NOID} = csess[q] \ {NOID}
    BY DEF Same
  <1>6. \A q \in Prover : csess[q] # {} => NOID \in csess[q]
    BY DEF FirstTree, Phase, Idle, Committed, Open
  <1>7. Bounded'
    <2>1. timeoutresp <= timeoutresp
      BY Consts
    <2>. QED
      BY <1>1, <2>1 DEF Bounded, Same
  <1>8. \A m \in inv : /\ m.kind = "CMRQ" /\ m.source = p /\ m.destination \in Neighbours(p)
                       /\ m.depth = depth /\ m.ttl = MaxDelay
    OBVIOUS
  <1>9. \A m \in inv : Inviting(m)' /\ Responding(m)' /\ Timely(m)'
    <2>. SUFFICES ASSUME NEW m \in inv PROVE Inviting(m)' /\ Responding(m)' /\ Timely(m)'
      OBVIOUS
    <2>1. crespto'[m.source].t >= timeoutresp - MaxDelay + m.ttl
      BY <1>8, Consts
    <2>2. Inviting(m)'
      BY <1>4, <1>8, <2>1 DEF Inviting
    <2>. QED
      BY <1>8, <2>2 DEF Responding, Timely
  <1>10. \A m \in rest : Inviting(m)' /\ Responding(m)' /\ Timely(m)'
    <2>. SUFFICES ASSUME NEW m \in rest PROVE Inviting(m)' /\ Responding(m)' /\ Timely(m)'
      OBVIOUS
    <2>1. m \in Frame /\ Inviting(m) /\ Responding(m) /\ Timely(m) /\ Reporting(m)
      BY <1>1, NetFacts
    <2>2. Inviting(m)'
      <3>. SUFFICES ASSUME m.kind = "CMRQ" PROVE Inviting(m)'
        BY DEF Inviting
      <3>1. m.source \in Prover /\ m.destination \in Prover
        BY <2>1, FrameFacts
      <3>2. m.destination \in Neighbours(m.source)' /\ Trail(m.source, maxdepth - m.depth)'
        BY <1>3, <1>4, <2>1, <3>1 DEF Inviting
      <3>3. ASSUME ~Asked(m.destination)'
            PROVE  /\ status'[m.source] = "CREATING"
                   /\ crespto'[m.source].t >= timeoutresp - MaxDelay + m.ttl
        <4>1. ~Asked(m.destination)
          BY <1>2, <3>1, <3>3
        <4>. QED
          BY <2>1, <3>1, <4>1 DEF Inviting, Same
      <3>. QED
        BY <3>2, <3>3 DEF Inviting
    <2>3. Responding(m)'
      BY <1>4, <2>1, FrameFacts DEF Responding, Same
    <2>4. Timely(m)'
      BY <2>1, FrameFacts DEF Timely, Reporting, Late, Same
    <2>. QED
      BY <2>2, <2>3, <2>4
  <1>11. Adjacent'
    <2>1. \A q \in Prover : /\ csess[q] \subseteq Neighbours(q) \cup {NOID}
                            /\ pfirst[q] # NOID => /\ pfirst[q] \in Neighbours(q)
                                                   /\ pfirst[q] \notin csess[q]
      BY <1>1 DEF Adjacent
    <2>. QED
      BY <1>4, <1>5, <2>1 DEF Adjacent
  <1>12. Levels'
    <2>. SUFFICES ASSUME NEW q \in Prover \ {root}, status'[q] = "ATTESTING" \/ NOID \in csess'[q]
                  PROVE  \E k \in Nat : psecond'[q].depth = maxdepth - k + 1 /\ Trail(q, k)'
      BY DEF Levels
    <2>1. CASE q = p
      <3>1. depth + 1 = maxdepth - (maxdepth - depth) + 1 /\ maxdepth - depth \in Nat
        BY Consts
      <3>. QED
        BY <2>1, <3>1
    <2>2. CASE q # p
      <3>1. PICK k \in Nat : psecond[q].depth = maxdepth - k + 1 /\ Trail(q, k)
        BY <1>1, <2>2 DEF Levels, Same
      <3>. QED
        BY <1>3, <2>2, <3>1 DEF Same
    <2>. QED
      BY <2>1, <2>2
  <1>13. Young'
    <2>. SUFFICES ASSUME NEW q \in Prover, status'[q] = "CREATING", ~Late(q)'
                  PROVE  \E S \in SUBSET Prover : /\ csess'[q] \ {NOID} \subseteq S
                                                 /\ Busy(S, crespto[q].t)'
      BY DEF Young
    <2>1. CASE q = p
      BY <1>5, <2>1 DEF Busy
    <2>2. CASE q # p
      <3>1. Same(q) /\ status[q] = "CREATING" /\ ~Late(q) /\ crespto'[q] = crespto[q]
        BY <2>2 DEF Same, Late
      <3>2. PICK S \in SUBSET Prover : csess[q] \ {NOID} \subseteq S /\ Busy(S, crespto[q].t)
        BY <1>1, <3>1 DEF Young
      <3>3. timeoutresp >= crespto[q].t
        <4>1. crespto[q].t <= timeoutresp /\ crespto[q].t \in Timer
          BY <1>1 DEF Bounded, Types
        <4>. QED
          BY <4>1, Consts DEF Timer, Off
      <3>4. Busy(S, crespto[q].t)'
        BY <3>1, <3>2, <3>3 DEF Busy, Same
      <3>. QED
        BY <1>5, <3>2, <3>4
    <2>. QED
      BY <2>1, <2>2
  <1>14. Answered'
    <2>. SUFFICES ASSUME NEW q \in Prover, status'[q] = "ATTESTING"
                  PROVE  \E m \in net' : m.kind \in {"CMRP", "CMAK"} /\ Child(m)' = q
      BY DEF Answered
    <2>1. q # p /\ status[q] = "ATTESTING"
      BY DEF Same
    <2>2. PICK m \in net : m.kind \in {"CMRP", "CMAK"} /\ Child(m) = q
      BY <1>1, <2>1 DEF Answered
    <2>3. m \in rest
      BY <2>1, <2>2 DEF Child
    <2>. QED
      BY <2>2, <2>3 DEF Child
  <1>15. Spreading'
    <2>. SUFFICES ASSUME NEW q \in Prover, Passed(q)', NEW r \in Neighbours(q)'
                  PROVE  Asked(r)' \/ Invited(q, r)'
      BY DEF Spreading
    <2>1. r \in Neighbours(q) /\ r \in Prover
      BY <1>4 DEF Neighbours
    <2>2. CASE q = p
      <3>1. PICK m \in inv : m.destination = r
        BY <2>1, <2>2
      <3>. QED
        BY <1>8, <2>2, <3>1 DEF Invited
    <2>3. CASE q # p
      <3>1. Passed(q)
        BY <2>3 DEF Passed, Asked, Same
      <3>2. Asked(r) \/ Invited(q, r)
        BY <1>1, <2>1, <3>1 DEF Spreading
      <3>3. Invited(q, r) => Invited(q, r)'
        BY DEF Invited
      <3>. QED
        BY <1>2, <2>1, <3>2, <3>3
    <2>. QED
      BY <2>2, <2>3
  <1>16. Kept'
    <2>. SUFFICES ASSUME NOID \in csess'[root], NEW c \in Prover,
                         Passed(c)', NOID \notin csess'[c]
                  PROVE  Held(c)'
      BY DEF Kept
    <2>1. c # p /\ Passed(c) /\ NOID \notin csess[c]
      BY DEF Passed, Asked, Same
    <2>2. CASE p = root
      <3>1. \A q \in Prover : status[q] # "ATTESTING"
        BY <1>1, <2>2 DEF Answered
      <3>2. Before
        BY <2>2, RootFacts
      <3>. QED
        BY <2>1, <3>2 DEF FirstTree, RootPhase, Passed, Asked
    <2>3. CASE p # root
      <3>1. Held(c)
        BY <1>1, <2>1, <2>3, Consts DEF Kept, Same
      <3>2. \A q \in Prover : NOID \in csess[q] => NOID \in csess'[q]
        BY DEF Same
      <3>. QED
        BY <3>1, <3>2 DEF Held
    <2>. QED
      BY <2>2, <2>3
  <1>17. Rooted'
    <2>. SUFFICES ASSUME NEW S \in SUBSET Prover, Closed(S)',
                         NEW q \in Prover, NOID \in csess'[q]
                  PROVE  q \in S
      BY DEF Rooted
    <2>1. Closed(S)
      BY <1>5 DEF Closed
    <2>2. \A r \in Prover : NOID \in csess[r] => r \in S
      BY <1>1, <2>1 DEF Rooted
    <2>3. CASE q = p /\ p # root
      BY <1>6, <2>1, <2>2, <2>3, Consts DEF Closed
    <2>4. CASE q = p /\ p = root
      BY <2>1, <2>4 DEF Closed
    <2>5. CASE q # p
      BY <2>2, <2>5 DEF Same
    <2>. QED
      BY <2>3, <2>4, <2>5
  <1>18. Ending'
    <2>1. \A m \in rest : NOID \in csess'[root] => m.kind # "UPRQC"
      BY <1>1, Consts DEF Ending, Same
    <2>. QED
      BY <1>8, <2>1 DEF Ending
  <1>. QED
    BY <1>7, <1>9, <1>10, <1>11, <1>12, <1>13, <1>14, <1>15, <1>16, <1>17, <1>18 DEF Spans

\* The root opens the tree: by now everybody's firmware is checked.
LEMMA MkTreeSpans ==
  ASSUME FirstTree, Spans, links' = links, mkTree
  PROVE  Spans'
  <1>1. /\ mktree /\ ~mktree' /\ checksDone /\ Types /\ Starting /\ Phase(root)
        /\ UNCHANGED <<check, cackto, collected, period, attest>> /\ collected = Null
    BY Consts DEF mkTree, FirstTree, Spans, Ended
  <1>2. /\ pfirst[root] = NOID /\ status[root] = "READY" /\ net = {}
        /\ csess[root] = {} /\ period[root] # 0 /\ check[root] = Off
        /\ \A q \in Prover : status[q] \in Unasked
    <2>1. /\ pfirst[root] = NOID /\ status[root] = "READY" /\ net = {}
          /\ \A q \in Prover : status[q] \in Unasked
      BY <1>1 DEF FirstTree, RootPhase, Before
    <2>. QED
      BY <1>1, <2>1 DEF Phase, Idle
  <1>3. sendCommitReq(root, NOID, psecond[root], NOID, net)
    BY <1>2 DEF mkTree
  <1>4. PICK t \in TreeId :
           /\ status' = [status EXCEPT ![root] = "CREATING"]
           /\ psecond' = [psecond EXCEPT ![root] = [treeID |-> t, depth |-> maxdepth]]
           /\ csess' = [csess EXCEPT ![root] = @ \cup {NOID}]
           /\ awaitResponses(root, t)
           /\ net' = net \cup
                     {[kind |-> "CMRQ", source |-> root, destination |-> q,
                       depth |-> maxdepth, treeID |-> t, ttl |-> MaxDelay] :
                         q \in Neighbours(root)}
           /\ UNCHANGED <<pfirst, aggreport>>
    <2>1. [pfirst EXCEPT ![root] = NOID] = pfirst
      BY <1>1, <1>2 DEF Types
    <2>. QED
      BY <1>3, <2>1 DEF sendCommitReq
  <1>5. PICK inv : inv = {[kind |-> "CMRQ", source |-> root, destination |-> q,
                           depth |-> maxdepth, treeID |-> t, ttl |-> MaxDelay] :
                             q \in Neighbours(root)}
    OBVIOUS
  <1>6. /\ \A q \in Prover \ {root} : Same(q)
        /\ status'[root] = "CREATING" /\ csess'[root] = {NOID}
        /\ crespto'[root].t = timeoutresp
    BY <1>1, <1>2, <1>4, Consts DEF Types, Same, awaitResponses
  <1>7. Starting'
    <2>1. ~Waiting /\ ~Waiting'
      BY <1>1, <1>2 DEF Waiting
    <2>2. \A q \in Prover : period[q] # 0 /\ check[q] = Off
      BY <1>1, <2>1 DEF Starting, checksDone
    <2>3. \A q \in Prover : /\ status'[q] # "JOINING" \/ status'[q] = status[q]
                            /\ status'[q] # "CHECKING" \/ status'[q] = status[q]
      BY <1>6 DEF Same
    <2>. QED
      BY <1>1, <2>1, <2>2, <2>3 DEF Starting
  <1>8. Trail(root, maxdepth - maxdepth)'
    <2>1. PICK w : w = [i \in 0..0 |-> root]
      OBVIOUS
    <2>2. w \in [0..0 -> Prover] /\ w[0] = root
      BY <2>1, Consts
    <2>3. Path(w, 0, links)'
      BY <2>2 DEF Path
    <2>4. \A i \in 0..0 : Asked(w[i])'
      BY <1>6, <2>2 DEF Asked, Unasked
    <2>5. Trail(root, 0)'
      BY <2>2, <2>3, <2>4 DEF Trail
    <2>6. maxdepth - maxdepth = 0
      BY Consts
    <2>. QED
      BY <2>5, <2>6
  <1>9. maxdepth \in 1..maxdepth /\ net' = {} \cup inv /\ {} \in SUBSET net
    BY <1>2, <1>4, <1>5, Consts
  <1>10. /\ \A m \in net \ {} : m.kind = "CMAK" /\ m.destination = root
         /\ status[root] \in {"READY", "ATTESTING"} /\ root \in Prover
         /\ UNCHANGED <<links, pfirst, aggreport, collected>>
    BY <1>1, <1>2, <1>4, Consts
  <1>11. /\ \A m \in inv : /\ m.kind = "CMRQ" /\ m.source = root
                           /\ m.destination \in Neighbours(root)
                           /\ m.depth = maxdepth /\ m.ttl = MaxDelay
         /\ \A q \in Neighbours(root) : \E m \in inv : m.destination = q
    <2>1. \A m \in inv : /\ m.kind = "CMRQ" /\ m.source = root
                         /\ m.destination \in Neighbours(root)
                         /\ m.depth = maxdepth /\ m.ttl = MaxDelay
      BY <1>5
    <2>2. ASSUME NEW q \in Neighbours(root)
          PROVE  \E m \in inv : m.destination = q
      <3>1. PICK m : m = [kind |-> "CMRQ", source |-> root, destination |-> q,
                          depth |-> maxdepth, treeID |-> t, ttl |-> MaxDelay]
        OBVIOUS
      <3>2. m \in inv
        BY <1>5, <3>1, Zenon
      <3>. QED
        BY <3>1, <3>2
    <2>. QED
      BY <2>1, <2>2
  <1>12. Opens(root, maxdepth, {}, inv)
    BY <1>1, <1>2, <1>6, <1>8, <1>9, <1>10, <1>11 DEF Opens
  <1>. QED
    BY <1>7, <1>12, Consts, OpenSpans

\* The ack: the prover is not at the last level and invites its neighbours.
LEMMA CommitAckSpans ==
  ASSUME FirstTree, Spans, Shallow(links), links' = links,
         NEW p \in Prover, NEW m \in net, m.destination = p, handleCommitAck(p, m),
         ~Ended, UNCHANGED <<attest, check, mktree, collected, period>>
  PROVE  Spans'
  <1>1. Types /\ Phase(p) /\ m \in Frame /\ m.kind = "CMAK" /\ Acking(m) /\ Levels /\ Starting
    BY NetFacts DEF FirstTree, handleCommitAck, Spans
  <1>2. /\ status[p] = "ATTESTING" /\ pfirst[p] = m.source /\ p \in csess[m.source]
        /\ m.source \in Prover
    BY <1>1, FrameFacts DEF Acking
  <1>3. csess[p] = {} /\ psecond[p] \in Session /\ p # root
    BY <1>1, <1>2, RootFacts DEF Phase, Committed, Unasked
  <1>4. /\ psecond[p].depth \in 1..maxdepth
        /\ \E k \in Nat : psecond[p].depth = maxdepth - k + 1 /\ Trail(p, k)
    BY <1>1, <1>2, <1>3 DEF Session, Levels
  <1>40. PICK k \in Nat : psecond[p].depth = maxdepth - k + 1 /\ Trail(p, k)
    BY <1>4
  <1>5. psecond[p].depth # 1
    <2>. SUFFICES ASSUME psecond[p].depth = 1 PROVE FALSE
      OBVIOUS
    <2>1. k = maxdepth
      BY <1>40, Consts
    <2>2. Trail(p, maxdepth)
      BY <1>40, <2>1
    <2>. QED
      BY <2>2 DEF Trail, Shallow
  <1>6. PICK depth, rest, t :
           depth = psecond[p].depth - 1 /\ rest = net \ {m} /\ t = m.treeID
    OBVIOUS
  <1>7. depth \in 1..maxdepth
    BY <1>4, <1>5, <1>6, Consts
  <1>8. sendCommitReq(p, m.source, psecond[p], t, rest)
    BY <1>2, <1>5, <1>6 DEF handleCommitAck
  <1>9. PICK inv : inv = {[kind |-> "CMRQ", source |-> p, destination |-> q,
                           depth |-> depth, treeID |-> t, ttl |-> MaxDelay] :
                             q \in Neighbours(p)}
    OBVIOUS
  <1>10. /\ status' = [status EXCEPT ![p] = "CREATING"]
         /\ psecond' = [psecond EXCEPT ![p] = psecond[p]]
         /\ csess' = [csess EXCEPT ![p] = @ \cup {NOID}]
         /\ awaitResponses(p, t)
         /\ net' = rest \cup inv
         /\ UNCHANGED <<pfirst, aggreport>>
    <2>1. m.source # NOID /\ depth = childDepth(psecond[p])
      BY <1>2, <1>6, Consts DEF childDepth
    <2>. QED
      BY <1>1, <1>2, <1>8, <1>9, <2>1 DEF sendCommitReq, Types
  <1>11. cackto' = [cackto EXCEPT ![p].t = Off]
    BY <1>2 DEF handleCommitAck, acked
  <1>12. /\ \A q \in Prover \ {p} : Same(q)
         /\ status'[p] = "CREATING" /\ csess'[p] = {NOID} /\ psecond'[p] = psecond[p]
         /\ crespto'[p].t = timeoutresp
    BY <1>1, <1>3, <1>10, <1>11 DEF Types, Same, awaitResponses
  <1>13. Starting'
    BY <1>1, <1>12, StartingKept DEF Same
  <1>14. Trail(p, maxdepth - depth)'
    <2>1. k = maxdepth - depth
      BY <1>4, <1>40, <1>6, Consts
    <2>2. \A q \in Prover : Asked(q) => Asked(q)'
      BY <1>12 DEF Asked, Unasked, Same
    <2>. QED
      BY <1>40, <2>1, <2>2, TrailKept
  <1>15. /\ p = root => net = {} /\ pfirst[p] = NOID
         /\ p # root => /\ psecond'[p].depth = depth + 1
                        /\ pfirst[p] \in Prover /\ p \in csess[pfirst[p]]
    BY <1>2, <1>3, <1>4, <1>6, <1>12
  <1>16. /\ rest \in SUBSET net /\ collected = Null
         /\ \A n \in net \ rest : n.kind = "CMAK" /\ n.destination = p
         /\ status[p] \in {"READY", "ATTESTING"}
         /\ UNCHANGED <<links, pfirst, aggreport, collected>>
    BY <1>1, <1>2, <1>6, <1>10 DEF Ended
  <1>17. /\ \A n \in inv : /\ n.kind = "CMRQ" /\ n.source = p
                           /\ n.destination \in Neighbours(p)
                           /\ n.depth = depth /\ n.ttl = MaxDelay
         /\ \A q \in Neighbours(p) : \E n \in inv : n.destination = q
    <2>1. \A n \in inv : /\ n.kind = "CMRQ" /\ n.source = p
                         /\ n.destination \in Neighbours(p)
                         /\ n.depth = depth /\ n.ttl = MaxDelay
      BY <1>9
    <2>2. ASSUME NEW q \in Neighbours(p)
          PROVE  \E n \in inv : n.destination = q
      <3>1. PICK n : n = [kind |-> "CMRQ", source |-> p, destination |-> q,
                          depth |-> depth, treeID |-> t, ttl |-> MaxDelay]
        OBVIOUS
      <3>2. n \in inv
        BY <1>9, <3>1, Zenon
      <3>. QED
        BY <3>1, <3>2
    <2>. QED
      BY <2>1, <2>2
  <1>18. net' = rest \cup inv /\ csess[p] = {}
    BY <1>3, <1>10
  <1>19. Opens(p, depth, rest, inv)
    BY <1>7, <1>12, <1>14, <1>15, <1>16, <1>17, <1>18 DEF Opens
  <1>. QED
    BY <1>13, <1>19, OpenSpans

-----------------------------------------------------------------------------
\* Every prover that waits for an ack has an answer on its way, and no timeout
\* that is due.
LEMMA NoAckTimeOut ==
  ASSUME FirstTree, AckInTime, Spans, NEW p \in Prover, handleCommitAckTimeOut(p)
  PROVE  FALSE
  <1>1. cackto[p].t = 0 /\ cackto[p].t # Off
    BY DEF handleCommitAckTimeOut, Off
  <1>2. status[p] = "ATTESTING"
    BY <1>1 DEF FirstTree, Phase, Idle, Open
  <1>3. PICK m \in net : m.kind \in {"CMRP", "CMAK"} /\ Child(m) = p
    BY <1>2 DEF Spans, Answered
  <1>4. Answering(m) /\ Acking(m) /\ m.ttl \in 0..MaxDelay
    BY NetFacts, FrameFacts
  <1>. QED
    BY <1>1, <1>3, <1>4, Consts DEF Answering, Acking, Child, AckInTime

\* A step that opens and sends nothing.
Waits(gone) ==
    /\ net' = net \ gone
    /\ UNCHANGED <<links, pfirst, psecond, csess, aggreport, collected>>
    /\ \A q \in Prover : (Asked(q)' <=> Asked(q)) /\ (Passed(q)' <=> Passed(q))
    /\ \A m \in gone : m.kind = "CMRQ" /\ Asked(m.destination)
    /\ \A q \in Prover :
          \/ status'[q] = status[q] /\ crespto'[q] = crespto[q]
          \/ /\ status'[q] # "CREATING" /\ status'[q] # "ATTESTING"
             /\ \A m \in net : m.kind = "CMRP" => m.destination # q
             /\ \A m \in net : m.kind = "CMRQ" /\ m.source = q => Asked(m.destination)

\* Only the timers are left to be looked at.
LEMMA WaitSpans ==
  ASSUME FirstTree, Spans, Starting', Bounded', Young', NEW gone, Waits(gone)
  PROVE  Spans'
  <1>. USE DEF Waits
  <1>1. /\ Adjacent /\ Levels /\ Answered /\ Spreading /\ Kept /\ Rooted /\ Ending
        /\ \A m \in net : m \in Frame /\ Inviting(m) /\ Responding(m) /\ Timely(m)
    BY NetFacts DEF Spans
  <1>2. \A q, k : Trail(q, k) => Trail(q, k)'
    BY TrailKept
  <1>3. \A q \in Prover : Neighbours(q)' = Neighbours(q)
    BY DEF Neighbours
  <1>4. \A m \in net' : Inviting(m)' /\ Responding(m)' /\ Timely(m)'
    <2>. SUFFICES ASSUME NEW m \in net' PROVE Inviting(m)' /\ Responding(m)' /\ Timely(m)'
      OBVIOUS
    <2>1. m \in net /\ m \in Frame /\ Inviting(m) /\ Responding(m) /\ Timely(m)
      BY <1>1
    <2>2. Inviting(m)'
      <3>. SUFFICES ASSUME m.kind = "CMRQ" PROVE Inviting(m)'
        BY DEF Inviting
      <3>1. m.source \in Prover /\ m.destination \in Prover
        BY <2>1, FrameFacts
      <3>2. m.destination \in Neighbours(m.source)' /\ Trail(m.source, maxdepth - m.depth)'
        BY <1>2, <1>3, <2>1, <3>1 DEF Inviting
      <3>3. ASSUME ~Asked(m.destination)'
            PROVE  /\ status'[m.source] = "CREATING"
                   /\ crespto'[m.source].t >= timeoutresp - MaxDelay + m.ttl
        <4>1. ~Asked(m.destination)
          BY <3>1, <3>3
        <4>2. status'[m.source] = status[m.source] /\ crespto'[m.source] = crespto[m.source]
          BY <2>1, <3>1, <4>1
        <4>. QED
          BY <2>1, <4>1, <4>2 DEF Inviting
      <3>. QED
        BY <3>2, <3>3 DEF Inviting
    <2>3. Responding(m)'
      <3>. SUFFICES ASSUME m.kind = "CMRP" PROVE Responding(m)'
        BY DEF Responding
      <3>1. m.destination \in Prover
        BY <2>1, FrameFacts
      <3>2. status'[m.destination] = status[m.destination]
            /\ crespto'[m.destination] = crespto[m.destination]
        BY <2>1, <3>1
      <3>. QED
        BY <1>3, <2>1, <3>1, <3>2 DEF Responding
    <2>4. Timely(m)'
      BY <2>1, FrameFacts DEF Timely, Late
    <2>. QED
      BY <2>2, <2>3, <2>4
  <1>5. Adjacent'
    <2>1. \A q \in Prover : /\ csess[q] \subseteq Neighbours(q) \cup {NOID}
                            /\ pfirst[q] # NOID => /\ pfirst[q] \in Neighbours(q)
                                                   /\ pfirst[q] \notin csess[q]
      BY <1>1 DEF Adjacent
    <2>. QED
      BY <1>3, <2>1 DEF Adjacent
  <1>6. Levels'
    <2>. SUFFICES ASSUME NEW q \in Prover \ {root}, status'[q] = "ATTESTING" \/ NOID \in csess'[q]
                  PROVE  \E k \in Nat : psecond'[q].depth = maxdepth - k + 1 /\ Trail(q, k)'
      BY DEF Levels
    <2>1. status[q] = "ATTESTING" \/ NOID \in csess[q]
      OBVIOUS
    <2>2. PICK k \in Nat : psecond[q].depth = maxdepth - k + 1 /\ Trail(q, k)
      BY <1>1, <2>1 DEF Levels
    <2>. QED
      BY <1>2, <2>2
  <1>7. Answered'
    <2>. SUFFICES ASSUME NEW q \in Prover, status'[q] = "ATTESTING"
                  PROVE  \E m \in net' : m.kind \in {"CMRP", "CMAK"} /\ Child(m)' = q
      BY DEF Answered
    <2>1. PICK m \in net : m.kind \in {"CMRP", "CMAK"} /\ Child(m) = q
      BY <1>1 DEF Answered
    <2>. QED
      BY <2>1 DEF Child
  <1>8. Spreading'
    <2>. SUFFICES ASSUME NEW q \in Prover, Passed(q)', NEW r \in Neighbours(q)'
                  PROVE  Asked(r)' \/ Invited(q, r)'
      BY DEF Spreading
    <2>1. r \in Neighbours(q) /\ r \in Prover
      BY <1>3 DEF Neighbours
    <2>2. Asked(r) \/ Invited(q, r)
      BY <1>1, <2>1 DEF Spreading
    <2>3. Invited(q, r) /\ ~Asked(r) => Invited(q, r)'
      BY DEF Invited
    <2>. QED
      BY <2>1, <2>2, <2>3
  <1>9. Kept'
    <2>. SUFFICES ASSUME NOID \in csess[root], NEW c \in Prover,
                         Passed(c), NOID \notin csess[c]
                  PROVE  Held(c)'
      BY DEF Kept
    <2>1. Held(c)
      BY <1>1 DEF Kept
    <2>. QED
      BY <2>1 DEF Held
  <1>10. Rooted' /\ Ending'
    BY <1>1 DEF Rooted, Closed, Ending
  <1>. QED
    BY <1>4, <1>5, <1>6, <1>7, <1>8, <1>9, <1>10 DEF Spans

\* The timeout for responses of a prover that has children, or has reported:
\* by now all answers to its invitations have arrived.
LEMMA RespEndSpans ==
  ASSUME FirstTree, Spans, Prompt, links' = links,
         NEW p \in Prover, handleCommitRespTimeOut(p), Cardinality(csess[p]) # 1
  PROVE  Spans'
  <1>1. /\ crespto[p].t = 0 /\ crespto[p].t # Off /\ Types /\ Phase(p)
        /\ Starting /\ Bounded /\ Young
        /\ \A m \in net : m \in Frame /\ Inviting(m) /\ Responding(m)
    BY NetFacts DEF handleCommitRespTimeOut, Off, FirstTree, Spans
  <1>2. /\ crespto' = [crespto EXCEPT ![p].t = Off]
        /\ status' = [status EXCEPT ![p] = "COLLECTING"]
        /\ UNCHANGED <<pfirst, psecond, csess, aggreport, net, collected>>
        /\ UNCHANGED <<check, mktree, period, attest>>
    BY DEF handleCommitRespTimeOut, sessions
  <1>3. /\ crespto'[p].t = Off /\ status'[p] = "COLLECTING"
        /\ \A q \in Prover \ {p} : crespto'[q] = crespto[q] /\ status'[q] = status[q]
    BY <1>1, <1>2 DEF Types
  <1>4. status[p] \in {"CREATING", "FINISHED"}
    BY <1>1 DEF Phase, Committed
  <1>5. Starting'
    BY <1>1, <1>2, <1>3, StartingKept
  <1>6. Bounded'
    BY <1>1, <1>3, Consts DEF Bounded, Off
  <1>7. timeoutresp - 2 * MaxDelay > 0 /\ timeoutresp - MaxDelay > 0
    BY Consts DEF Prompt
  <1>8. Young'
    <2>. SUFFICES ASSUME NEW q \in Prover, status'[q] = "CREATING", ~Late(q)'
                  PROVE  \E S \in SUBSET Prover : /\ csess[q] \ {NOID} \subseteq S
                                                 /\ Busy(S, crespto[q].t)'
      BY <1>2 DEF Young
    <2>1. q # p /\ status[q] = "CREATING" /\ crespto'[q] = crespto[q] /\ ~Late(q)
      BY <1>3 DEF Late
    <2>2. PICK S \in SUBSET Prover : csess[q] \ {NOID} \subseteq S /\ Busy(S, crespto[q].t)
      BY <1>1, <2>1 DEF Young
    <2>3. ~(0 >= crespto[q].t)
      <3>1. crespto[q].t \in Timer
        BY <1>1 DEF Types
      <3>. QED
        BY <1>7, <2>1, <3>1, Consts DEF Late, Timer, Off
    <2>4. p \notin S
      BY <1>1, <1>4, <2>2, <2>3 DEF Busy
    <2>5. Busy(S, crespto[q].t)'
      BY <1>2, <1>3, <2>1, <2>2, <2>4 DEF Busy
    <2>. QED
      BY <2>2, <2>5
  <1>9. ASSUME NEW m \in net
        PROVE  /\ m.kind = "CMRP" => m.destination # p
               /\ m.kind = "CMRQ" /\ m.source = p => Asked(m.destination)
    <2>1. m.ttl \in 0..MaxDelay /\ Inviting(m) /\ Responding(m)
      BY <1>1, FrameFacts
    <2>2. /\ ~(crespto[p].t >= timeoutresp - 2 * MaxDelay + m.ttl)
          /\ ~(crespto[p].t >= timeoutresp - MaxDelay + m.ttl)
      BY <1>1, <1>7, <2>1, Consts
    <2>. QED
      BY <2>1, <2>2 DEF Inviting, Responding
  <1>10. \A q \in Prover : (Asked(q)' <=> Asked(q)) /\ (Passed(q)' <=> Passed(q))
    BY <1>3, <1>4 DEF Asked, Passed, Unasked
  <1>11. \A q \in Prover :
            \/ status'[q] = status[q] /\ crespto'[q] = crespto[q]
            \/ /\ status'[q] # "CREATING" /\ status'[q] # "ATTESTING"
               /\ \A m \in net : m.kind = "CMRP" => m.destination # q
               /\ \A m \in net : m.kind = "CMRQ" /\ m.source = q => Asked(m.destination)
    BY <1>3, <1>9
  <1>12. Waits({})
    BY <1>2, <1>10, <1>11 DEF Waits
  <1>. QED
    BY <1>5, <1>6, <1>8, <1>12, WaitSpans

-----------------------------------------------------------------------------
\* An invitation to a prover that has been asked before is dropped.
LEMMA ReqDropSpans ==
  ASSUME FirstTree, Spans, links' = links, NEW p \in Prover, NEW m \in net,
         m.destination = p, handleCommitReq(p, m), Asked(p),
         UNCHANGED <<attest, check, mktree, collected, period>>
  PROVE  Spans'
  <1>1. status[p] # "READY" /\ m.kind = "CMRQ"
    BY DEF Asked, Unasked, handleCommitReq
  <1>2. /\ net' = net \ {m}
        /\ UNCHANGED <<pfirst, psecond, csess, aggreport, status, crespto>>
    BY <1>1 DEF handleCommitReq
  <1>3. Starting /\ Bounded /\ Young
    BY DEF Spans
  <1>4. Starting'
    BY <1>2, <1>3, StartingKept
  <1>5. Bounded' /\ Young'
    BY <1>2, <1>3, YoungKept DEF Bounded
  <1>6. \A q \in Prover : (Asked(q)' <=> Asked(q)) /\ (Passed(q)' <=> Passed(q))
    BY <1>2 DEF Asked, Passed
  <1>7. Waits({m})
    BY <1>1, <1>2, <1>6 DEF Waits
  <1>. QED
    BY <1>4, <1>5, <1>7, WaitSpans

\* A prover that has not been asked before is ready, and accepts: it is one
\* link further from the root than the one that asked, which still waits for
\* answers when this one arrives.
LEMMA AcceptSpans ==
  ASSUME FirstTree, Spans, links' = links, NEW p \in Prover, NEW m \in net,
         m.destination = p, handleCommitReq(p, m), ~Asked(p),
         UNCHANGED <<attest, check, mktree, collected, period>>
  PROVE  Spans'
  <1>1. /\ Types /\ Phase(p) /\ m \in Frame /\ m.kind = "CMRQ"
        /\ Starting /\ Bounded /\ Adjacent /\ Levels /\ Young /\ Answered /\ Spreading
        /\ Kept /\ Rooted /\ Ending
        /\ \A n \in net : n \in Frame /\ Inviting(n) /\ Responding(n) /\ Timely(n)
    BY NetFacts DEF FirstTree, handleCommitReq, Spans
  <1>2. status[p] = "READY"
    <2>1. ~Before
      BY RootFacts
    <2>2. check[p] = Off /\ period[p] # 0
      BY <1>1, <2>1 DEF Starting, Before, Waiting
    <2>. QED
      BY <1>1, <2>2 DEF Starting, Asked, Unasked
  <1>3. PICK r, f : /\ r = [kind |-> "CMRP", source |-> p, destination |-> m.source,
                            treeID |-> m.treeID, ttl |-> MaxDelay]
                    /\ f = m.source
    OBVIOUS
  <1>4. /\ pfirst' = [pfirst EXCEPT ![p] = f]
        /\ psecond' = [psecond EXCEPT ![p] = [treeID |-> m.treeID, depth |-> m.depth]]
        /\ status' = [status EXCEPT ![p] = "ATTESTING"]
        /\ net' = (net \ {m}) \cup {r}
        /\ cackto' = [cackto EXCEPT ![p] = [dev |-> m.source, t |-> timeoutack]]
        /\ UNCHANGED <<csess, aggreport, crespto>>
    BY <1>2, <1>3 DEF handleCommitReq
  <1>5. /\ r.kind = "CMRP" /\ r.source = p /\ r.destination = f /\ r.ttl = MaxDelay
    BY <1>3
  <1>6. /\ \A q \in Prover \ {p} : Same(q)
        /\ status'[p] = "ATTESTING" /\ pfirst'[p] = f /\ psecond'[p].depth = m.depth
    BY <1>1, <1>4 DEF Types, Same
  <1>7. /\ f \in Prover /\ m.ttl \in 0..MaxDelay /\ m.depth \in 1..maxdepth
        /\ p \in Neighbours(f) /\ Trail(f, maxdepth - m.depth)
        /\ status[f] = "CREATING" /\ crespto[f].t >= timeoutresp - MaxDelay + m.ttl
        /\ f # p
    BY <1>1, <1>2, <1>3, FrameFacts DEF Inviting
  <1>8. csess[p] = {} /\ pfirst[p] = NOID
    BY <1>1, <1>2 DEF Phase, Idle
  <1>9. \A q \in Prover : (Asked(q) => Asked(q)') /\ (Passed(q)' <=> Passed(q))
    BY <1>2, <1>6 DEF Asked, Passed, Unasked, Same
  <1>10. \A q, k : Trail(q, k) => Trail(q, k)'
    BY <1>9, TrailKept
  <1>11. \A q \in Prover : Neighbours(q)' = Neighbours(q)
    BY DEF Neighbours
  <1>12. Starting' /\ Bounded'
    <2>1. Starting'
      BY <1>1, <1>6, StartingKept DEF Same
    <2>. QED
      BY <1>1, <1>4, <2>1 DEF Bounded
  <1>13. \A n \in net : Inviting(n)' /\ Responding(n)' /\ Timely(n)'
    <2>. SUFFICES ASSUME NEW n \in net PROVE Inviting(n)' /\ Responding(n)' /\ Timely(n)'
      OBVIOUS
    <2>1. n \in Frame /\ Inviting(n) /\ Responding(n) /\ Timely(n) /\ Reporting(n)
      BY <1>1, NetFacts
    <2>2. Inviting(n)'
      <3>. SUFFICES ASSUME n.kind = "CMRQ" PROVE Inviting(n)'
        BY DEF Inviting
      <3>1. n.source \in Prover /\ n.destination \in Prover
        BY <2>1, FrameFacts
      <3>2. n.destination \in Neighbours(n.source)' /\ Trail(n.source, maxdepth - n.depth)'
        BY <1>10, <1>11, <2>1, <3>1 DEF Inviting
      <3>3. ASSUME ~Asked(n.destination)'
            PROVE  /\ status'[n.source] = "CREATING"
                   /\ crespto'[n.source].t >= timeoutresp - MaxDelay + n.ttl
        <4>1. ~Asked(n.destination)
          BY <1>9, <3>1, <3>3
        <4>. QED
          BY <1>2, <1>4, <1>6, <2>1, <3>1, <4>1 DEF Inviting, Same
      <3>. QED
        BY <3>2, <3>3 DEF Inviting
    <2>3. Responding(n)'
      BY <1>2, <1>4, <1>6, <1>11, <2>1, FrameFacts DEF Responding, Same
    <2>4. Timely(n)'
      BY <1>4, <1>6, <1>8, <2>1, FrameFacts DEF Timely, Reporting, Late, Same
    <2>. QED
      BY <2>2, <2>3, <2>4
  <1>14. Inviting(r)' /\ Responding(r)' /\ Timely(r)'
    <2>1. crespto[f].t \in Int
      BY <1>1, <1>7 DEF Types, Timer, Off
    <2>2. crespto'[f].t >= timeoutresp - 2 * MaxDelay + r.ttl
      BY <1>4, <1>5, <1>7, <2>1, Consts
    <2>3. Responding(r)'
      BY <1>5, <1>6, <1>7, <1>11, <2>2 DEF Responding, Same
    <2>. QED
      BY <1>5, <2>3 DEF Inviting, Timely
  <1>15. Adjacent'
    <2>1. \A q \in Prover : /\ csess[q] \subseteq Neighbours(q) \cup {NOID}
                            /\ pfirst[q] # NOID => /\ pfirst[q] \in Neighbours(q)
                                                   /\ pfirst[q] \notin csess[q]
      BY <1>1 DEF Adjacent
    <2>2. f \in Neighbours(p)
      <3>1. {p, f} = {f, p}
        OBVIOUS
      <3>. QED
        BY <1>7, <3>1 DEF Neighbours
    <2>. QED
      BY <1>4, <1>6, <1>8, <1>11, <2>1, <2>2 DEF Adjacent, Same
  <1>16. Levels'
    <2>. SUFFICES ASSUME NEW q \in Prover \ {root}, status'[q] = "ATTESTING" \/ NOID \in csess'[q]
                  PROVE  \E k \in Nat : psecond'[q].depth = maxdepth - k + 1 /\ Trail(q, k)'
      BY DEF Levels
    <2>1. CASE q = p
      <3>1. PICK k : k = maxdepth - m.depth
        OBVIOUS
      <3>2. k \in Nat /\ k + 1 \in Nat /\ m.depth = maxdepth - (k + 1) + 1
        BY <1>7, <3>1, Consts
      <3>3. Trail(f, k) /\ Asked(p)'
        BY <1>6, <1>7, <3>1 DEF Asked, Unasked
      <3>4. Trail(p, k + 1)'
        BY <1>7, <1>9, <3>3, TrailExtended
      <3>. QED
        BY <1>6, <2>1, <3>2, <3>4
    <2>2. CASE q # p
      <3>1. PICK k \in Nat : psecond[q].depth = maxdepth - k + 1 /\ Trail(q, k)
        BY <1>1, <1>6, <2>2 DEF Levels, Same
      <3>. QED
        BY <1>6, <1>10, <2>2, <3>1 DEF Same
    <2>. QED
      BY <2>1, <2>2
  <1>17. \A q \in Prover : p \notin csess[q]
    <2>. SUFFICES ASSUME NEW q \in Prover, p \in csess[q] PROVE FALSE
      OBVIOUS
    <2>1. InTree(q, p) \/ Acked(q, p) \/ Reported(q, p)
      BY Consts DEF FirstTree, Children
    <2>2. ~InTree(q, p)
      BY <1>8 DEF InTree
    <2>3. ~Acked(q, p)
      BY <1>2, NetFacts DEF Acked, Acking
    <2>4. ~Reported(q, p)
      BY <1>2, NetFacts DEF Reported, Reporting
    <2>. QED
      BY <2>1, <2>2, <2>3, <2>4
  <1>18. Young'
    <2>. SUFFICES ASSUME NEW q \in Prover, status'[q] = "CREATING", ~Late(q)'
                  PROVE  \E S \in SUBSET Prover : /\ csess[q] \ {NOID} \subseteq S
                                                 /\ Busy(S, crespto[q].t)'
      BY <1>4 DEF Young
    <2>1. q # p /\ status[q] = "CREATING" /\ crespto'[q] = crespto[q] /\ ~Late(q)
      BY <1>6 DEF Late, Same
    <2>2. PICK S \in SUBSET Prover : csess[q] \ {NOID} \subseteq S /\ Busy(S, crespto[q].t)
      BY <1>1, <2>1 DEF Young
    <2>3. Busy(S, crespto[q].t)'
      BY <1>4, <1>6, <2>1, <2>2 DEF Busy, Same
    <2>. QED
      BY <2>2, <2>3
  <1>19. Answered'
    <2>. SUFFICES ASSUME NEW q \in Prover, status'[q] = "ATTESTING"
                  PROVE  \E n \in net' : n.kind \in {"CMRP", "CMAK"} /\ Child(n)' = q
      BY DEF Answered
    <2>1. CASE q = p
      BY <1>4, <1>5, <2>1 DEF Child
    <2>2. CASE q # p
      <3>1. PICK n \in net : n.kind \in {"CMRP", "CMAK"} /\ Child(n) = q
        BY <1>1, <1>6, <2>2 DEF Answered, Same
      <3>2. n # m
        BY <1>1, <3>1
      <3>. QED
        BY <1>4, <3>1, <3>2 DEF Child
    <2>. QED
      BY <2>1, <2>2
  <1>20. Spreading'
    <2>. SUFFICES ASSUME NEW q \in Prover, Passed(q)', NEW x \in Neighbours(q)'
                  PROVE  Asked(x)' \/ Invited(q, x)'
      BY DEF Spreading
    <2>1. x \in Neighbours(q) /\ x \in Prover
      BY <1>11 DEF Neighbours
    <2>2. Asked(x) \/ Invited(q, x)
      BY <1>1, <1>9, <2>1 DEF Spreading
    <2>3. Asked(p)'
      BY <1>6 DEF Asked, Unasked
    <2>4. Invited(q, x) /\ x # p => Invited(q, x)'
      BY <1>4 DEF Invited
    <2>. QED
      BY <1>9, <2>1, <2>2, <2>3, <2>4
  <1>21. Kept'
    <2>. SUFFICES ASSUME NOID \in csess[root], NEW c \in Prover,
                         Passed(c), NOID \notin csess[c]
                  PROVE  Held(c)'
      BY <1>4, <1>9 DEF Kept
    <2>1. Held(c)
      BY <1>1 DEF Kept
    <2>. QED
      BY <1>1, <1>4, <2>1 DEF Held
  <1>22. Rooted'
    BY <1>1, <1>4 DEF Rooted, Closed
  <1>23. Ending'
    BY <1>1, <1>4, <1>5 DEF Ending
  <1>24. \A n \in net' : Inviting(n)' /\ Responding(n)' /\ Timely(n)'
    BY <1>4, <1>13, <1>14
  <1>. QED
    BY <1>12, <1>15, <1>16, <1>18, <1>19, <1>20, <1>21, <1>22, <1>23, <1>24 DEF Spans

-----------------------------------------------------------------------------
\* Who waits for an ack has no session yet.
LEMMA NoSession ==
  ASSUME FirstTree, NEW p \in Prover, NEW m \in net, m.kind = "CMRP"
  PROVE  m.source \notin csess[p]
  <1>. SUFFICES ASSUME m.source \in csess[p] PROVE FALSE
    OBVIOUS
  <1>1. PICK c : c = m.source
    OBVIOUS
  <1>2. c \in Prover /\ status[c] = "ATTESTING" /\ m.kind \in Steps /\ Child(m) = c
    BY <1>1, NetFacts, FrameFacts DEF Answering, Steps, Child
  <1>3. csess[c] = {}
    BY <1>2 DEF FirstTree, Phase, Committed, Unasked
  <1>4. InTree(p, c) \/ Acked(p, c) \/ Reported(p, c)
    BY <1>1, <1>2, Consts DEF FirstTree, Children
  <1>5. ~InTree(p, c)
    BY <1>3 DEF InTree
  <1>6. \A n \in net : n.kind \in Steps /\ Child(n) = c => n = m
    BY <1>2 DEF FirstTree, Single
  <1>7. ~Acked(p, c) /\ ~Reported(p, c)
    BY <1>6 DEF Acked, Reported, Steps, Child
  <1>. QED
    BY <1>4, <1>5, <1>7

\* Sessions are with provers that fit, so there is room for one more of them;
\* when it takes the last place, all of them are children.
LEMMA Room ==
  ASSUME NEW ns, ns \subseteq Prover, Cardinality(ns) <= MAXCHILDREN,
         NEW cs, NOID \in cs, cs \subseteq ns \cup {NOID},
         NEW c \in ns, c \notin cs
  PROVE  /\ Cardinality(cs) - 1 < MAXCHILDREN
         /\ Cardinality(cs) = MAXCHILDREN => ns \subseteq cs \cup {c}
  <1>1. NOID \notin ns
    BY Consts
  <1>2. IsFiniteSet(ns) /\ Cardinality(ns) \in Nat
    <2>1. IsFiniteSet(Prover)
      BY WiredAssumption
    <2>2. IsFiniteSet(ns)
      BY <2>1, FS_Subset
    <2>. QED
      BY <2>2, FS_CardinalityType
  <1>3. PICK ds : ds = (cs \ {NOID}) \cup {c}
    OBVIOUS
  <1>4. ds \subseteq ns
    BY <1>3
  <1>5. /\ IsFiniteSet(ds) /\ Cardinality(ds) \in Nat
        /\ Cardinality(ds) <= Cardinality(ns)
        /\ Cardinality(ds) = Cardinality(ns) => ds = ns
    BY <1>2, <1>4, FS_Subset, FS_CardinalityType
  <1>6. IsFiniteSet(cs \ {NOID}) /\ IsFiniteSet(cs)
    <2>1. cs \ {NOID} \subseteq ds
      BY <1>3
    <2>2. IsFiniteSet(cs \ {NOID})
      BY <1>5, <2>1, FS_Subset
    <2>3. IsFiniteSet((cs \ {NOID}) \cup {NOID})
      BY <2>2, FS_AddElement
    <2>4. (cs \ {NOID}) \cup {NOID} = cs
      OBVIOUS
    <2>. QED
      BY <2>2, <2>3, <2>4
  <1>7. Cardinality(cs \ {NOID}) = Cardinality(cs) - 1
    BY <1>6, FS_RemoveElement
  <1>8. Cardinality(ds) = Cardinality(cs \ {NOID}) + 1
    BY <1>3, <1>6, FS_AddElement
  <1>9. Cardinality(cs) \in Nat /\ Cardinality(ds) = Cardinality(cs)
    BY <1>6, <1>7, <1>8, FS_CardinalityType
  <1>10. Cardinality(cs) - 1 < MAXCHILDREN
    BY <1>2, <1>5, <1>9, Consts
  <1>11. Cardinality(cs) = MAXCHILDREN => ds = ns
    BY <1>2, <1>5, <1>9, Consts
  <1>. QED
    BY <1>3, <1>10, <1>11

\* A response is accepted.
LEMMA CommitRespSpans ==
  ASSUME FirstTree, Spans, links' = links, NEW p \in Prover, Spacious(p),
         NEW m \in net, m.destination = p, handleCommitResp(p, m),
         UNCHANGED <<attest, check, mktree, collected, period>>
  PROVE  Spans'
  <1>1. /\ Types /\ Phase(p) /\ m \in Frame /\ m.kind = "CMRP" /\ Answering(m)
        /\ Starting /\ Bounded /\ Adjacent /\ Levels /\ Young /\ Answered /\ Spreading
        /\ Kept /\ Rooted /\ Ending
        /\ \A n \in net : n \in Frame /\ Inviting(n) /\ Responding(n) /\ Timely(n)
    BY NetFacts DEF FirstTree, handleCommitResp, Spans
  <1>2. PICK a, c : /\ a = [kind |-> "CMAK", source |-> p, destination |-> m.source,
                            treeID |-> m.treeID, ttl |-> MaxDelay]
                    /\ c = m.source
    OBVIOUS
  <1>3. /\ c \in Prover /\ status[c] = "ATTESTING" /\ pfirst[c] = p
        /\ c \in Neighbours(p) /\ status[p] = "CREATING" /\ c \notin csess[p] /\ c # p
    BY <1>1, <1>2, NoSession, FrameFacts DEF Answering, Responding
  <1>4. Open(p) /\ NOID \in csess[p] /\ csess[c] = {}
    <2>1. Phase(c)
      BY <1>3 DEF FirstTree
    <2>. QED
      BY <1>1, <1>3, <2>1 DEF Phase, Committed, Open, Unasked
  <1>5. /\ csess[p] \subseteq Neighbours(p) \cup {NOID}
        /\ pfirst[p] # NOID => pfirst[p] \in Neighbours(p) /\ pfirst[p] \notin csess[p]
    BY <1>1 DEF Adjacent
  <1>6. ASSUME NEW q \in Prover, pfirst[p] = q
        PROVE  p \in csess[q] /\ Asked(q) /\ status[q] # "ATTESTING"
    <2>1. p \in csess[q]
      BY <1>4, <1>6, Consts DEF FirstTree, Known
    <2>2. Phase(q)
      BY DEF FirstTree
    <2>. QED
      BY <2>1, <2>2 DEF Phase, Idle, Committed, Open, Asked, Unasked
  <1>7. PICK ns : ns = Neighbours(p) \ {pfirst[p]}
    OBVIOUS
  <1>8. /\ Cardinality(csess[p]) - 1 < MAXCHILDREN
        /\ Cardinality(csess[p]) = MAXCHILDREN => ns \subseteq csess[p] \cup {c}
    <2>1. IsFiniteSet(Neighbours(p)) /\ Cardinality(Neighbours(p)) \in Nat
      <3>1. IsFiniteSet(Prover) /\ Neighbours(p) \subseteq Prover
        BY WiredAssumption DEF Neighbours
      <3>. QED
        BY <3>1, FS_Subset, FS_CardinalityType
    <2>2. Cardinality(ns) <= MAXCHILDREN
      <3>1. CASE p = root
        <4>1. ns = Neighbours(p)
          BY <1>7, <3>1, RootFacts, Consts DEF Neighbours
        <4>. QED
          BY <3>1, <4>1 DEF Spacious
      <3>2. CASE p # root
        <4>1. pfirst[p] \in Neighbours(p)
          BY <1>4, <1>5, <3>2, Consts DEF Open
        <4>2. Cardinality(ns) = Cardinality(Neighbours(p)) - 1
          BY <1>7, <2>1, <4>1, FS_RemoveElement
        <4>. QED
          BY <2>1, <3>2, <4>2, Consts DEF Spacious
      <3>. QED
        BY <3>1, <3>2
    <2>3. ns \subseteq Prover /\ c \in ns /\ csess[p] \subseteq ns \cup {NOID}
      BY <1>3, <1>5, <1>6, <1>7 DEF Neighbours
    <2>. QED
      BY <1>3, <1>4, <2>2, <2>3, Room
  <1>9. hasRoom(p)
    BY <1>4, <1>8 DEF hasRoom
  <1>10. PICK full \in BOOLEAN : full = (Cardinality(csess[p]) = MAXCHILDREN)
    OBVIOUS
  <1>11. /\ csess' = [csess EXCEPT ![p] = @ \cup {c}]
         /\ net' = (net \ {m}) \cup {a}
         /\ status' = IF full THEN [status EXCEPT ![p] = "COLLECTING"] ELSE status
         /\ crespto' = IF full THEN [crespto EXCEPT ![p].t = Off] ELSE crespto
         /\ UNCHANGED <<pfirst, psecond, aggreport, cackto>>
    BY <1>2, <1>3, <1>9, <1>10 DEF handleCommitResp
  <1>12. /\ \A q \in Prover \ {p} : Same(q)
         /\ csess'[p] = csess[p] \cup {c}
         /\ full => status'[p] = "COLLECTING" /\ crespto'[p].t = Off
         /\ ~full => status'[p] = "CREATING" /\ crespto'[p] = crespto[p]
    <2>1. CASE full
      BY <1>1, <1>11, <2>1 DEF Types, Same
    <2>2. CASE ~full
      BY <1>1, <1>3, <1>11, <2>2 DEF Types, Same
    <2>. QED
      BY <2>1, <2>2
  <1>13. a.kind = "CMAK" /\ a.destination = c /\ a.source = p
    BY <1>2
  <1>14. \A q \in Prover : /\ (Asked(q)' <=> Asked(q)) /\ (Passed(q)' <=> Passed(q))
                           /\ csess[q] \subseteq csess'[q]
                           /\ NOID \in csess'[q] => NOID \in csess[q]
    <2>1. \A q \in Prover : (Asked(q)' <=> Asked(q)) /\ (Passed(q)' <=> Passed(q))
      BY <1>3, <1>12 DEF Asked, Passed, Unasked, Same
    <2>. QED
      BY <1>4, <1>12, <2>1 DEF Same
  <1>15. \A q, k : Trail(q, k) => Trail(q, k)'
    BY <1>14, TrailKept
  <1>16. \A q \in Prover : Neighbours(q)' = Neighbours(q)
    BY DEF Neighbours
  <1>17. Starting'
    BY <1>1, <1>12, StartingKept DEF Same
  <1>18. Bounded'
    BY <1>1, <1>12, Consts DEF Bounded, Same, Off
  <1>19. ASSUME full, NEW n \in net, n # m
         PROVE  /\ n.kind = "CMRP" => n.destination # p
                /\ n.kind = "CMRQ" /\ n.source = p => Asked(n.destination)
    <2>1. n \in Frame /\ Inviting(n) /\ Responding(n)
      BY <1>1
    <2>2. \A d \in Neighbours(p) : d \in csess[p] \/ d = c \/ d = pfirst[p]
      BY <1>7, <1>8, <1>10, <1>19
    <2>3. ASSUME n.kind = "CMRP", n.destination = p PROVE FALSE
      <3>1. n.source \in Neighbours(p) /\ n.source \notin csess[p]
        BY <2>1, <2>3, NoSession DEF Responding
      <3>2. n.source \in Prover /\ status[n.source] = "ATTESTING"
        BY <2>1, <2>3, NetFacts, FrameFacts DEF Answering
      <3>3. n.source = m.source
        BY <1>2, <1>6, <2>2, <3>1, <3>2
      <3>. QED
        BY <1>1, <1>19, <2>3, <3>3 DEF FirstTree, Single, Steps, Child
    <2>4. ASSUME n.kind = "CMRQ", n.source = p PROVE Asked(n.destination)
      <3>1. PICK d \in Prover : d = n.destination
        BY <2>1, <2>4, FrameFacts
      <3>2. d \in csess[p] \/ d = c \/ d = pfirst[p]
        BY <2>1, <2>2, <2>4, <3>1 DEF Inviting
      <3>3. CASE d = pfirst[p]
        BY <1>6, <3>1, <3>3
      <3>4. CASE d = c
        BY <1>3, <3>1, <3>4 DEF Asked, Unasked
      <3>5. CASE d \in csess[p]
        <4>1. InTree(p, d) \/ Acked(p, d) \/ Reported(p, d)
          BY <3>5, Consts DEF FirstTree, Children
        <4>2. InTree(p, d) => Asked(d)
          BY DEF InTree, FirstTree, Phase, Idle, Asked, Unasked
        <4>3. Acked(p, d) => Asked(d)
          BY NetFacts DEF Acked, Acking, Asked, Unasked
        <4>4. Reported(p, d) => Asked(d)
          BY NetFacts DEF Reported, Reporting, Asked, Unasked
        <4>. QED
          BY <3>1, <4>1, <4>2, <4>3, <4>4
      <3>. QED
        BY <3>2, <3>3, <3>4, <3>5
    <2>. QED
      BY <2>3, <2>4
  <1>20. \A n \in net \ {m} : Inviting(n)' /\ Responding(n)' /\ Timely(n)'
    <2>. SUFFICES ASSUME NEW n \in net \ {m} PROVE Inviting(n)' /\ Responding(n)' /\ Timely(n)'
      OBVIOUS
    <2>1. n \in net /\ n \in Frame /\ Inviting(n) /\ Responding(n) /\ Timely(n)
      BY <1>1
    <2>2. Inviting(n)'
      <3>. SUFFICES ASSUME n.kind = "CMRQ" PROVE Inviting(n)'
        BY DEF Inviting
      <3>1. n.source \in Prover /\ n.destination \in Prover
        BY <2>1, FrameFacts
      <3>2. n.destination \in Neighbours(n.source)' /\ Trail(n.source, maxdepth - n.depth)'
        BY <1>15, <1>16, <2>1, <3>1 DEF Inviting
      <3>3. ASSUME ~Asked(n.destination)'
            PROVE  /\ status'[n.source] = "CREATING"
                   /\ crespto'[n.source].t >= timeoutresp - MaxDelay + n.ttl
        <4>1. ~Asked(n.destination)
          BY <1>14, <3>1, <3>3
        <4>2. n.source = p => ~full
          BY <1>19, <4>1
        <4>. QED
          BY <1>12, <2>1, <3>1, <4>1, <4>2 DEF Inviting, Same
      <3>. QED
        BY <3>2, <3>3 DEF Inviting
    <2>3. Responding(n)'
      <3>. SUFFICES ASSUME n.kind = "CMRP" PROVE Responding(n)'
        BY DEF Responding
      <3>1. n.destination \in Prover /\ (n.destination = p => ~full)
        BY <1>19, <2>1, FrameFacts
      <3>. QED
        BY <1>12, <1>16, <2>1, <3>1 DEF Responding, Same
    <2>4. Timely(n)'
      <3>1. n.kind = "UPRQ" => n.destination \in Prover
        BY <2>1, FrameFacts
      <3>2. n.kind = "UPRQ" /\ status'[n.destination] = "CREATING" => Late(n.destination)'
        <4>1. CASE n.destination = p
          BY <1>3, <1>12, <2>1, <4>1 DEF Timely, Late
        <4>2. CASE n.destination # p
          BY <1>12, <2>1, <3>1, <4>2 DEF Timely, Late, Same
        <4>. QED
          BY <4>1, <4>2
      <3>. QED
        BY <2>1, <3>2 DEF Timely
    <2>. QED
      BY <2>2, <2>3, <2>4
  <1>21. \A n \in net' : Inviting(n)' /\ Responding(n)' /\ Timely(n)'
    <2>1. Inviting(a)' /\ Responding(a)' /\ Timely(a)'
      BY <1>13 DEF Inviting, Responding, Timely
    <2>. QED
      BY <1>11, <1>20, <2>1
  <1>22. Adjacent'
    <2>1. \A q \in Prover : /\ csess[q] \subseteq Neighbours(q) \cup {NOID}
                            /\ pfirst[q] # NOID => /\ pfirst[q] \in Neighbours(q)
                                                   /\ pfirst[q] \notin csess[q]
      BY <1>1 DEF Adjacent
    <2>. QED
      BY <1>3, <1>6, <1>11, <1>12, <1>16, <2>1 DEF Adjacent, Same
  <1>23. Levels'
    <2>. SUFFICES ASSUME NEW q \in Prover \ {root}, status'[q] = "ATTESTING" \/ NOID \in csess'[q]
                  PROVE  \E k \in Nat : psecond'[q].depth = maxdepth - k + 1 /\ Trail(q, k)'
      BY DEF Levels
    <2>1. status[q] = "ATTESTING" \/ NOID \in csess[q]
      BY <1>12, <1>14 DEF Same
    <2>2. PICK k \in Nat : psecond[q].depth = maxdepth - k + 1 /\ Trail(q, k)
      BY <1>1, <2>1 DEF Levels
    <2>. QED
      BY <1>11, <1>15, <2>2
  <1>24. Young'
    <2>. SUFFICES ASSUME NEW q \in Prover, status'[q] = "CREATING", ~Late(q)'
                  PROVE  \E S \in SUBSET Prover : /\ csess'[q] \ {NOID} \subseteq S
                                                 /\ Busy(S, crespto[q].t)'
      BY DEF Young
    <2>1. status[q] = "CREATING" /\ crespto'[q] = crespto[q] /\ ~Late(q)
      BY <1>3, <1>12 DEF Same, Late
    <2>2. PICK S \in SUBSET Prover : csess[q] \ {NOID} \subseteq S /\ Busy(S, crespto[q].t)
      BY <1>1, <2>1 DEF Young
    <2>3. PICK R : R = S \cup {c}
      OBVIOUS
    <2>4. R \in SUBSET Prover /\ csess'[q] \ {NOID} \subseteq R
      BY <1>3, <1>12, <2>2, <2>3 DEF Same
    <2>5. ASSUME NEW x \in R
          PROVE  \/ status'[x] = "ATTESTING"
                 \/ status'[x] = "CREATING" /\ crespto'[x].t >= crespto'[q].t
                 \/ status'[x] = "COLLECTING" /\ csess'[x] \cap R # {}
      <3>1. CASE x = c
        BY <1>3, <1>12, <3>1 DEF Same
      <3>2. CASE x = p /\ x # c
        <4>1. x \in S /\ crespto[x].t >= crespto[q].t
          BY <1>3, <2>2, <2>3, <3>2 DEF Busy
        <4>2. c \in csess'[x] \cap R
          BY <1>12, <2>3, <3>2
        <4>. QED
          BY <1>12, <2>1, <3>2, <4>1, <4>2
      <3>3. CASE x # p /\ x # c
        <4>1. x \in S /\ Same(x)
          BY <1>12, <2>2, <2>3, <3>3
        <4>. QED
          BY <2>1, <2>2, <2>3, <4>1 DEF Busy, Same
      <3>. QED
        BY <3>1, <3>2, <3>3
    <2>6. Busy(R, crespto[q].t)'
      BY <2>5 DEF Busy
    <2>. QED
      BY <2>4, <2>6
  <1>25. Answered'
    <2>. SUFFICES ASSUME NEW q \in Prover, status'[q] = "ATTESTING"
                  PROVE  \E n \in net' : n.kind \in {"CMRP", "CMAK"} /\ Child(n)' = q
      BY DEF Answered
    <2>1. CASE q = c
      BY <1>11, <1>13, <2>1 DEF Child
    <2>2. CASE q # c
      <3>1. PICK n \in net : n.kind \in {"CMRP", "CMAK"} /\ Child(n) = q
        BY <1>1, <1>12, <2>2 DEF Answered, Same
      <3>2. n # m
        BY <1>1, <1>2, <2>2, <3>1 DEF Child
      <3>. QED
        BY <1>11, <3>1, <3>2 DEF Child
    <2>. QED
      BY <2>1, <2>2
  <1>26. Spreading'
    <2>. SUFFICES ASSUME NEW q \in Prover, Passed(q)', NEW x \in Neighbours(q)'
                  PROVE  Asked(x)' \/ Invited(q, x)'
      BY DEF Spreading
    <2>1. x \in Neighbours(q) /\ x \in Prover
      BY <1>16 DEF Neighbours
    <2>2. Asked(x) \/ Invited(q, x)
      BY <1>1, <1>14, <2>1 DEF Spreading
    <2>3. Invited(q, x) => Invited(q, x)'
      BY <1>1, <1>11 DEF Invited
    <2>. QED
      BY <1>14, <2>1, <2>2, <2>3
  <1>27. Kept'
    <2>. SUFFICES ASSUME NOID \in csess'[root], NEW x \in Prover,
                         Passed(x)', NOID \notin csess'[x]
                  PROVE  Held(x)'
      BY DEF Kept
    <2>1. NOID \in csess[root] /\ Passed(x) /\ NOID \notin csess[x]
      BY <1>14, Consts
    <2>2. Held(x)
      BY <1>1, <2>1 DEF Kept
    <2>. QED
      BY <1>1, <1>11, <1>14, <2>2 DEF Held
  <1>28. Rooted'
    <2>. SUFFICES ASSUME NEW S \in SUBSET Prover, Closed(S)',
                         NEW q \in Prover, NOID \in csess'[q]
                  PROVE  q \in S
      BY DEF Rooted
    <2>1. Closed(S)
      BY <1>14 DEF Closed
    <2>. QED
      BY <1>1, <1>14, <2>1 DEF Rooted
  <1>29. Ending'
    <2>1. NOID \in csess'[root] => NOID \in csess[root]
      BY <1>14, Consts
    <2>. QED
      BY <1>1, <1>11, <1>13, <2>1 DEF Ending
  <1>. QED
    BY <1>17, <1>18, <1>21, <1>22, <1>23, <1>24, <1>25, <1>26, <1>27, <1>28, <1>29 DEF Spans

-----------------------------------------------------------------------------
\* A prover sends its report u and leaves the tree, and none of its children
\* is in the tree any more.
Leaves(p, recs, rest, u) ==
    /\ rest \subseteq net /\ net' = rest \cup {u}
    /\ u.report = recs \cup {p} /\ recs \subseteq Prover /\ aggreport[p] \subseteq recs
    /\ pfirst[p] = NOID => u.kind = "UPRQC"
    /\ pfirst[p] # NOID => u.kind = "UPRQ" /\ u.destination = pfirst[p]
    /\ \A q \in Prover \ {p} : Same(q) /\ aggreport'[q] = aggreport[q]
    /\ NOID \in csess[p] /\ csess'[p] = {} /\ status'[p] = "FINISHED" /\ pfirst'[p] = NOID
    /\ crespto'[p].t <= timeoutresp
    /\ status[p] = "CREATING" => Late(p)
    /\ \A m \in net \ rest : m.kind = "UPRQ" /\ m.report \subseteq recs
    /\ \A m \in rest : m.kind = "UPRQ" => m.destination # p
    /\ \A d \in csess[p] \ {NOID} : status[d] # "ATTESTING" /\ csess[d] = {}
    /\ UNCHANGED <<links, collected>> /\ collected = Null

\* Nobody answers a prover that is late, or has yet to.
LEMMA LateFacts ==
  ASSUME FirstTree, Spans, NEW p \in Prover, status[p] = "CREATING" => Late(p), NEW m \in net
  PROVE  /\ m.kind = "CMRP" => m.destination # p
         /\ m.kind = "CMRQ" /\ m.source = p => Asked(m.destination)
  <1>1. m \in Frame /\ Inviting(m) /\ Responding(m) /\ crespto[p].t \in Timer
    BY NetFacts DEF Spans, FirstTree, Types
  <1>2. m.ttl \in 0..MaxDelay /\ crespto[p].t \in Int
    BY <1>1, FrameFacts DEF Timer, Off
  <1>3. Late(p) => /\ ~(crespto[p].t >= timeoutresp - 2 * MaxDelay + m.ttl)
                   /\ ~(crespto[p].t >= timeoutresp - MaxDelay + m.ttl)
    BY <1>2, Consts DEF Late
  <1>. QED
    BY <1>1, <1>3 DEF Inviting, Responding

\* When the root reports, nobody else is in the tree and no invitation is on
\* its way to a prover that was not asked, so that everybody was asked; and
\* the record of each is at the root.
LEMMA RootReports ==
  ASSUME FirstTree, Spans, Joined(links), NEW recs, NEW rest, NEW u,
         Leaves(root, recs, rest, u)
  PROVE  u.report = Prover
  <1>. USE DEF Leaves
  <1>1. /\ Types /\ Answered /\ Spreading /\ Kept /\ Rooted /\ Ending
        /\ \A m \in net : /\ m \in Frame /\ Inviting(m) /\ Responding(m)
                          /\ Answering(m) /\ Acking(m) /\ Reporting(m)
    BY NetFacts DEF Spans, FirstTree
  <1>2. \A q \in Prover : /\ csess[q] # {} => NOID \in csess[q]
                          /\ status[q] = "CREATING" => NOID \in csess[q]
    BY DEF FirstTree, Phase, Idle, Committed, Open, Unasked
  <1>3. \A q \in Prover : NOID \in csess[q] => q = root
    <2>1. PICK S : S = {root} \cup (csess[root] \ {NOID})
      OBVIOUS
    <2>2. S \in SUBSET Prover /\ Closed(S)
      BY <1>1, <2>1, Consts DEF Types, Dev, Closed
    <2>3. \A q \in Prover : NOID \in csess[q] => q \in S
      BY <1>1, <2>2 DEF Rooted
    <2>. QED
      BY <2>1, <2>3
  <1>4. \A m \in net : /\ m.kind = "CMRP" => m.destination # root
                       /\ m.kind = "CMRQ" /\ m.source = root => Asked(m.destination)
    BY LateFacts, Consts
  <1>5. \A m \in net : m.kind # "CMRP" /\ m.kind # "CMAK"
    <2>. SUFFICES ASSUME NEW m \in net PROVE m.kind # "CMRP" /\ m.kind # "CMAK"
      OBVIOUS
    <2>1. m.kind # "CMRP"
      BY <1>1, <1>2, <1>3, <1>4, FrameFacts DEF Responding
    <2>2. m.kind # "CMAK"
      <3>. SUFFICES ASSUME m.kind = "CMAK" PROVE FALSE
        OBVIOUS
      <3>1. m.source \in Prover /\ m.destination \in Prover
        BY <1>1, FrameFacts
      <3>2. m.destination \in csess[m.source] /\ status[m.destination] = "ATTESTING"
        BY <1>1 DEF Acking
      <3>3. m.source = root
        BY <1>2, <1>3, <3>1, <3>2
      <3>. QED
        BY <3>1, <3>2, <3>3, Consts
    <2>. QED
      BY <2>1, <2>2
  <1>6. \A q \in Prover : status[q] # "ATTESTING"
    BY <1>1, <1>5 DEF Answered
  <1>7. \A m \in net : m.kind = "CMRQ" => Asked(m.destination)
    <2>. SUFFICES ASSUME NEW m \in net, m.kind = "CMRQ", ~Asked(m.destination) PROVE FALSE
      OBVIOUS
    <2>1. m.source \in Prover /\ status[m.source] = "CREATING"
      BY <1>1, FrameFacts DEF Inviting
    <2>2. m.source = root
      BY <1>2, <1>3, <2>1
    <2>. QED
      BY <1>4, <2>2
  <1>8. \A q \in Prover : Asked(q)
    <2>1. PICK S : S = {q \in Prover : Asked(q)}
      OBVIOUS
    <2>2. root \in S
      <3>1. ~Before
        BY Consts DEF FirstTree, RootPhase, Phase, Idle, Unasked
      <3>. QED
        BY <2>1, <3>1, RootFacts, Consts DEF Asked, Unasked
    <2>3. ASSUME NEW p \in S, NEW q \in Prover, {p, q} \in links
          PROVE  q \in S
      <3>1. Passed(p) /\ p \in Prover /\ q \in Neighbours(p)
        BY <1>6, <2>1, <2>3 DEF Passed, Neighbours
      <3>2. Asked(q) \/ Invited(p, q)
        BY <1>1, <3>1 DEF Spreading
      <3>. QED
        BY <1>7, <2>1, <3>2 DEF Invited
    <2>4. S = Prover
      BY <2>1, <2>2, <2>3 DEF Joined
    <2>. QED
      BY <2>1, <2>4
  <1>9. ASSUME NEW c \in Prover, c # root
        PROVE  c \in recs
    <2>1. Held(c)
      BY <1>1, <1>3, <1>6, <1>8, <1>9 DEF Kept, Passed
    <2>2. CASE \E p \in Prover : NOID \in csess[p] /\ c \in aggreport[p]
      BY <1>3, <2>2
    <2>3. CASE \E m \in net : m.kind = "UPRQ" /\ c \in m.report
      <3>1. PICK m \in net : m.kind = "UPRQ" /\ c \in m.report
        BY <2>3
      <3>2. m.source \in Prover /\ m.destination \in Prover /\ m.source \in csess[m.destination]
        BY <1>1, <3>1, FrameFacts DEF Reporting
      <3>3. m.destination = root
        BY <1>2, <1>3, <3>2
      <3>. QED
        BY <3>1, <3>3
    <2>. QED
      BY <2>1, <2>2, <2>3 DEF Held
  <1>. QED
    BY <1>9, Consts

\* The report of a child finds its parent no longer waiting for answers.
LEMMA LeaveSpans ==
  ASSUME FirstTree, Spans, Starting', Joined(links),
         NEW p \in Prover, NEW recs, NEW rest, NEW u, Leaves(p, recs, rest, u)
  PROVE  Spans'
  <1>0. p = root => u.report = Prover
    BY RootReports
  <1>. USE DEF Leaves
  <1>1. /\ Types /\ Phase(p) /\ Bounded /\ Adjacent /\ Levels /\ Young /\ Answered
        /\ Spreading /\ Kept /\ Rooted /\ Ending
        /\ \A m \in net : m \in Frame /\ Inviting(m) /\ Responding(m) /\ Timely(m)
    BY NetFacts DEF Spans, FirstTree
  <1>2. status[p] \in {"CREATING", "COLLECTING"} /\ (pfirst[p] \in Prover \/ p = root)
    BY <1>1 DEF Phase, Idle, Committed, Open
  <1>3. \A m \in net : /\ m.kind = "CMRP" => m.destination # p
                       /\ m.kind = "CMRQ" /\ m.source = p => Asked(m.destination)
    BY LateFacts
  <1>4. pfirst[p] # NOID => /\ pfirst[p] \in Prover /\ pfirst[p] # p
                            /\ p \in csess[pfirst[p]]
    <2>1. pfirst[p] # NOID => p \in csess[pfirst[p]]
      BY DEF FirstTree, Known
    <2>2. pfirst[p] # NOID => pfirst[p] \in Neighbours(p) /\ pfirst[p] \notin csess[p]
      BY <1>1 DEF Adjacent
    <2>. QED
      BY <2>1, <2>2 DEF Neighbours
  <1>5. (p = root <=> pfirst[p] = NOID)
    BY <1>2, RootFacts, Consts
  <1>6. \A q \in Prover : (Asked(q)' <=> Asked(q)) /\ (Passed(q)' <=> Passed(q))
    BY <1>2 DEF Asked, Passed, Unasked, Same
  <1>7. \A q, k : Trail(q, k) => Trail(q, k)'
    BY <1>6, TrailKept
  <1>8. \A q \in Prover : Neighbours(q)' = Neighbours(q)
    BY DEF Neighbours
  <1>9. Bounded'
    BY <1>1 DEF Bounded, Same
  <1>10. ASSUME NEW q \in Prover, ~Late(q), NEW S \in SUBSET Prover, Busy(S, crespto[q].t)
         PROVE  p \notin S
    <2>. SUFFICES ASSUME p \in S PROVE FALSE
      OBVIOUS
    <2>1. CASE status[p] = "CREATING"
      <3>1. crespto[p].t >= crespto[q].t /\ Late(p)
        BY <1>10, <2>1 DEF Busy
      <3>2. crespto[p].t \in Int /\ crespto[q].t \in Int
        BY <1>1 DEF Types, Timer, Off
      <3>. QED
        BY <1>10, <3>1, <3>2, Consts DEF Late
    <2>2. CASE status[p] = "COLLECTING"
      <3>1. PICK d \in S : d \in csess[p]
        BY <1>10, <2>2 DEF Busy
      <3>2. d \in Prover /\ status[d] # "ATTESTING" /\ csess[d] = {}
        BY <3>1, Consts
      <3>3. status[d] = "CREATING"
        BY <1>10, <3>1, <3>2 DEF Busy
      <3>. QED
        BY <3>2, <3>3 DEF FirstTree, Phase, Open, Unasked
    <2>. QED
      BY <1>2, <2>1, <2>2
  <1>11. \A m \in rest : Inviting(m)' /\ Responding(m)' /\ Timely(m)'
    <2>. SUFFICES ASSUME NEW m \in rest PROVE Inviting(m)' /\ Responding(m)' /\ Timely(m)'
      OBVIOUS
    <2>1. m \in net /\ m \in Frame /\ Inviting(m) /\ Responding(m) /\ Timely(m)
      BY <1>1
    <2>2. Inviting(m)'
      <3>. SUFFICES ASSUME m.kind = "CMRQ" PROVE Inviting(m)'
        BY DEF Inviting
      <3>1. m.source \in Prover /\ m.destination \in Prover
        BY <2>1, FrameFacts
      <3>2. m.destination \in Neighbours(m.source)' /\ Trail(m.source, maxdepth - m.depth)'
        BY <1>7, <1>8, <2>1, <3>1 DEF Inviting
      <3>3. ASSUME ~Asked(m.destination)'
            PROVE  /\ status'[m.source] = "CREATING"
                   /\ crespto'[m.source].t >= timeoutresp - MaxDelay + m.ttl
        <4>1. ~Asked(m.destination) /\ m.source # p
          BY <1>3, <1>6, <2>1, <3>1, <3>3
        <4>. QED
          BY <2>1, <3>1, <4>1 DEF Inviting, Same
      <3>. QED
        BY <3>2, <3>3 DEF Inviting
    <2>3. Responding(m)'
      BY <1>3, <1>8, <2>1, FrameFacts DEF Responding, Same
    <2>4. Timely(m)'
      BY <2>1, FrameFacts DEF Timely, Late, Same
    <2>. QED
      BY <2>2, <2>3, <2>4
  <1>12. Inviting(u)' /\ Responding(u)' /\ Timely(u)'
    <2>1. CASE p = root
      BY <1>0, <1>5, <2>1 DEF Inviting, Responding, Timely
    <2>2. CASE p # root
      <3>1. u.kind = "UPRQ" /\ u.destination = pfirst[p]
        BY <1>5, <2>2
      <3>2. status'[u.destination] = "CREATING" => Late(u.destination)'
        <4>. SUFFICES ASSUME status'[u.destination] = "CREATING", ~Late(u.destination)'
                      PROVE  FALSE
          OBVIOUS
        <4>1. PICK q \in Prover : q = u.destination
          BY <1>4, <1>5, <2>2, <3>1
        <4>2. p \in csess[q] \ {NOID} /\ status[q] = "CREATING" /\ ~Late(q)
          BY <1>4, <1>5, <2>2, <3>1, <4>1, Consts DEF Late, Same
        <4>3. PICK S \in SUBSET Prover : csess[q] \ {NOID} \subseteq S /\ Busy(S, crespto[q].t)
          BY <1>1, <4>2 DEF Young
        <4>. QED
          BY <1>10, <4>2, <4>3
      <3>. QED
        BY <3>1, <3>2 DEF Inviting, Responding, Timely
    <2>. QED
      BY <2>1, <2>2
  <1>13. Adjacent'
    <2>1. \A q \in Prover : /\ csess[q] \subseteq Neighbours(q) \cup {NOID}
                            /\ pfirst[q] # NOID => /\ pfirst[q] \in Neighbours(q)
                                                   /\ pfirst[q] \notin csess[q]
      BY <1>1 DEF Adjacent
    <2>. QED
      BY <1>8, <2>1 DEF Adjacent, Same
  <1>14. Levels'
    <2>. SUFFICES ASSUME NEW q \in Prover \ {root}, status'[q] = "ATTESTING" \/ NOID \in csess'[q]
                  PROVE  \E k \in Nat : psecond'[q].depth = maxdepth - k + 1 /\ Trail(q, k)'
      BY DEF Levels
    <2>1. q # p
      OBVIOUS
    <2>2. PICK k \in Nat : psecond[q].depth = maxdepth - k + 1 /\ Trail(q, k)
      BY <1>1, <2>1 DEF Levels, Same
    <2>. QED
      BY <1>7, <2>1, <2>2 DEF Same
  <1>15. Young'
    <2>. SUFFICES ASSUME NEW q \in Prover, status'[q] = "CREATING", ~Late(q)'
                  PROVE  \E S \in SUBSET Prover : /\ csess'[q] \ {NOID} \subseteq S
                                                 /\ Busy(S, crespto[q].t)'
      BY DEF Young
    <2>1. q # p /\ Same(q) /\ status[q] = "CREATING" /\ ~Late(q)
      BY DEF Same, Late
    <2>2. PICK S \in SUBSET Prover : csess[q] \ {NOID} \subseteq S /\ Busy(S, crespto[q].t)
      BY <1>1, <2>1 DEF Young
    <2>3. p \notin S
      BY <1>10, <2>1, <2>2
    <2>4. Busy(S, crespto[q].t)'
      BY <2>1, <2>2, <2>3 DEF Busy, Same
    <2>. QED
      BY <2>1, <2>2, <2>4 DEF Same
  <1>16. Answered'
    <2>. SUFFICES ASSUME NEW q \in Prover, status'[q] = "ATTESTING"
                  PROVE  \E n \in net' : n.kind \in {"CMRP", "CMAK"} /\ Child(n)' = q
      BY DEF Answered
    <2>1. PICK n \in net : n.kind \in {"CMRP", "CMAK"} /\ Child(n) = q
      BY <1>1 DEF Answered, Same
    <2>2. n \in rest
      BY <2>1
    <2>. QED
      BY <2>1, <2>2 DEF Child
  <1>17. Spreading'
    <2>. SUFFICES ASSUME NEW q \in Prover, Passed(q)', NEW x \in Neighbours(q)'
                  PROVE  Asked(x)' \/ Invited(q, x)'
      BY DEF Spreading
    <2>1. x \in Neighbours(q) /\ x \in Prover
      BY <1>8 DEF Neighbours
    <2>2. Asked(x) \/ Invited(q, x)
      BY <1>1, <1>6, <2>1 DEF Spreading
    <2>3. Invited(q, x) => Invited(q, x)'
      BY DEF Invited
    <2>. QED
      BY <1>6, <2>1, <2>2, <2>3
  <1>18. Kept'
    <2>. SUFFICES ASSUME NOID \in csess'[root], NEW x \in Prover,
                         Passed(x)', NOID \notin csess'[x]
                  PROVE  Held(x)'
      BY DEF Kept
    <2>1. p # root /\ NOID \in csess[root] /\ u.kind = "UPRQ" /\ u \in net'
      BY <1>5, Consts DEF Same
    <2>2. CASE x \in recs \cup {p}
      BY <2>1, <2>2 DEF Held
    <2>3. CASE x \notin recs \cup {p}
      <3>1. Held(x)
        BY <1>1, <1>6, <2>1, <2>3 DEF Kept, Same
      <3>2. CASE \E q \in Prover : NOID \in csess[q] /\ x \in aggreport[q]
        <4>1. PICK q \in Prover : NOID \in csess[q] /\ x \in aggreport[q]
          BY <3>2
        <4>2. q # p
          BY <2>3, <4>1
        <4>. QED
          BY <4>1, <4>2 DEF Held, Same
      <3>3. CASE \E m \in net : m.kind = "UPRQ" /\ x \in m.report
        <4>1. PICK m \in net : m.kind = "UPRQ" /\ x \in m.report
          BY <3>3
        <4>2. m \in rest
          BY <2>3, <4>1
        <4>. QED
          BY <4>1, <4>2 DEF Held
      <3>. QED
        BY <3>1, <3>2, <3>3 DEF Held
    <2>. QED
      BY <2>2, <2>3
  <1>19. Rooted'
    <2>. SUFFICES ASSUME NEW S \in SUBSET Prover, Closed(S)',
                         NEW q \in Prover, NOID \in csess'[q]
                  PROVE  q \in S
      BY DEF Rooted
    <2>1. PICK R : R = S \cup (csess[p] \ {NOID})
      OBVIOUS
    <2>2. R \in SUBSET Prover
      BY <1>1, <2>1 DEF Types, Dev
    <2>3. ASSUME NEW x \in R
          PROVE  csess[x] \ {NOID} \subseteq R
      <3>1. CASE x = p
        BY <2>1, <3>1
      <3>2. CASE x # p /\ x \in S
        BY <2>1, <3>2 DEF Closed, Same
      <3>3. CASE x \in csess[p] \ {NOID}
        BY <3>3
      <3>. QED
        BY <2>1, <2>3, <3>1, <3>2, <3>3
    <2>4. Closed(R)
      BY <2>1, <2>3 DEF Closed
    <2>5. q # p /\ NOID \in csess[q]
      BY DEF Same
    <2>6. q \in R
      BY <1>1, <2>2, <2>4, <2>5 DEF Rooted
    <2>. QED
      BY <2>1, <2>5, <2>6
  <1>20. Ending'
    <2>1. NOID \in csess'[root] => p # root /\ NOID \in csess[root]
      BY Consts DEF Same
    <2>2. p # root => u.kind = "UPRQ"
      BY <1>5
    <2>. QED
      BY <1>1, <2>1, <2>2 DEF Ending
  <1>21. \A m \in net' : Inviting(m)' /\ Responding(m)' /\ Timely(m)'
    BY <1>11, <1>12
  <1>. QED
    BY <1>9, <1>13, <1>14, <1>15, <1>16, <1>17, <1>18, <1>19, <1>20, <1>21 DEF Spans

-----------------------------------------------------------------------------
\* The timeout for responses: a prover without children reports at once.
LEMMA RespTimeOutSpans ==
  ASSUME FirstTree, Spans, Prompt, Joined(links), links' = links,
         NEW p \in Prover, handleCommitRespTimeOut(p)
  PROVE  Spans'
  <1>1. CASE Cardinality(csess[p]) # 1
    BY <1>1, RespEndSpans
  <1>2. CASE Cardinality(csess[p]) = 1
    <2>1. /\ crespto[p].t = 0 /\ crespto[p].t # Off /\ Types /\ Phase(p) /\ Starting
          /\ IsFiniteSet(csess[p]) /\ aggreport[p] \subseteq Prover
      BY DEF handleCommitRespTimeOut, Off, FirstTree, Spans, Types
    <2>2. csess[p] = {NOID}
      <3>1. csess[p] # {}
        BY <1>2, FS_EmptySet
      <3>2. NOID \in csess[p]
        BY <2>1, <3>1 DEF Phase, Idle, Committed, Open
      <3>. QED
        BY <1>2, <2>1, <3>2, OnlyTree
    <2>3. PICK u, recs : /\ recs = aggreport[p]
                         /\ u = UpdateReq(p, pfirst[p], crespto[p].treeID, recs \cup {p})
      OBVIOUS
    <2>4. /\ status' = [status EXCEPT ![p] = "FINISHED"]
          /\ pfirst' = [pfirst EXCEPT ![p] = NOID]
          /\ psecond' = [psecond EXCEPT ![p] = Null]
          /\ csess' = [csess EXCEPT ![p] = csess[p] \ {NOID}]
          /\ aggreport' = [aggreport EXCEPT ![p] = recs \cup {p}]
          /\ net' = net \cup {u}
          /\ crespto' = [crespto EXCEPT ![p].t = Off]
          /\ UNCHANGED <<attest, check, mktree, cackto, collected, period>>
          /\ collected = Null
      BY <1>2, <2>3 DEF handleCommitRespTimeOut, sendUpReq, Ended
    <2>5. /\ \A q \in Prover \ {p} : Same(q) /\ aggreport'[q] = aggreport[q]
          /\ csess'[p] = {} /\ status'[p] = "FINISHED" /\ pfirst'[p] = NOID
          /\ crespto'[p].t = Off
      BY <2>1, <2>2, <2>4 DEF Types, Same
    <2>6. Off <= timeoutresp
      BY Consts DEF Off
    <2>7. Late(p)
      BY <2>1, Consts DEF Late, Prompt
    <2>8. /\ u.report = recs \cup {p}
          /\ pfirst[p] = NOID => u.kind = "UPRQC"
          /\ pfirst[p] # NOID => u.kind = "UPRQ" /\ u.destination = pfirst[p]
      BY <2>3 DEF UpdateReq
    <2>9. \A m \in net : m.kind = "UPRQ" => m.destination # p
      BY <2>2, NetFacts, FrameFacts, Consts DEF Reporting
    <2>10. Leaves(p, recs, net, u)
      BY <2>1, <2>2, <2>3, <2>4, <2>5, <2>6, <2>7, <2>8, <2>9 DEF Leaves
    <2>11. Starting'
      BY <2>1, <2>4, <2>5, StartingKept DEF Same
    <2>. QED
      BY <2>10, <2>11, LeaveSpans
  <1>. QED
    BY <1>1, <1>2

\* The report of a child: it is added to that of its parent, which sends it on
\* if it was the last one.
LEMMA UpReqSpans ==
  ASSUME FirstTree, Spans, Joined(links), links' = links, ~Ended,
         NEW p \in Prover, NEW m \in net, m.destination = p, handleUpReq(p, m),
         UNCHANGED <<attest, check, mktree, collected, period>>
  PROVE  Spans'
  <1>1. /\ Types /\ Phase(p) /\ m \in Frame /\ Reporting(m) /\ UNCHANGED <<cackto, crespto>>
        /\ Starting /\ Bounded /\ Adjacent /\ Levels /\ Young /\ Answered /\ Spreading
        /\ Kept /\ Rooted /\ Ending
        /\ \A n \in net : n \in Frame /\ Inviting(n) /\ Responding(n) /\ Timely(n)
    BY NetFacts DEF FirstTree, handleUpReq, Spans
  <1>2. m.kind = "UPRQ"
    BY <1>1, FrameFacts DEF handleUpReq
  <1>3. PICK c, rest, cs, recs :
           /\ c = m.source /\ rest = net \ {m}
           /\ cs = csess[p] \ {c} /\ recs = aggreport[p] \cup m.report
    OBVIOUS
  <1>4. /\ c \in Prover /\ c \in csess[p] /\ csess[c] = {} /\ c # p
        /\ status[c] \in {"COLLECTING", "FINISHED"}
        /\ m.kind \in Steps /\ Child(m) = c
    BY <1>1, <1>2, <1>3, FrameFacts DEF Reporting, Steps, Child
  <1>5. /\ NOID \in csess[p] /\ status[p] \in {"CREATING", "COLLECTING"}
    BY <1>1, <1>4 DEF Phase, Idle, Committed, Open
  <1>6. PICK t : OneTree(t)
    BY DEF FirstTree
  <1>7. m.treeID = t /\ psecond[p].treeID = t
    BY <1>5, <1>6 DEF OneTree
  <1>8. Awaited(p, m) /\ ~(m.kind = "UPRQF" \/ status[p] = "FINISHED")
    BY <1>2, <1>3, <1>4, <1>5, <1>7 DEF Awaited
  <1>9. recs \subseteq Prover /\ IsFiniteSet(cs) /\ NOID \in cs /\ rest \subseteq net
    <2>1. aggreport[p] \subseteq Prover /\ m.report \subseteq Prover /\ IsFiniteSet(csess[p])
      BY <1>1, <1>2, FrameFacts DEF Types
    <2>2. IsFiniteSet(cs)
      BY <1>3, <2>1, FS_Subset
    <2>. QED
      BY <1>3, <1>4, <1>5, <2>1, <2>2, Consts
  <1>10. CASE lastChild(cs)
    <2>1. cs = {NOID}
      BY <1>9, <1>10, OnlyTree DEF lastChild
    <2>2. PICK u : u = UpdateReq(p, pfirst[p], m.treeID, recs \cup {p})
      OBVIOUS
    <2>3. sendUpReq(p, pfirst[p], m.treeID, cs, recs, rest)
      BY <1>3, <1>8, <1>10 DEF handleUpReq
    <2>4. /\ status' = [status EXCEPT ![p] = "FINISHED"]
          /\ pfirst' = [pfirst EXCEPT ![p] = NOID]
          /\ psecond' = [psecond EXCEPT ![p] = Null]
          /\ csess' = [csess EXCEPT ![p] = cs \ {NOID}]
          /\ aggreport' = [aggreport EXCEPT ![p] = recs \cup {p}]
          /\ net' = rest \cup {u}
          /\ collected = Null
      BY <2>2, <2>3 DEF sendUpReq, Ended
    <2>5. /\ \A q \in Prover \ {p} : Same(q) /\ aggreport'[q] = aggreport[q]
          /\ csess'[p] = {} /\ status'[p] = "FINISHED" /\ pfirst'[p] = NOID
      BY <1>1, <2>1, <2>4 DEF Types, Same
    <2>6. /\ u.report = recs \cup {p}
          /\ pfirst[p] = NOID => u.kind = "UPRQC"
          /\ pfirst[p] # NOID => u.kind = "UPRQ" /\ u.destination = pfirst[p]
      BY <2>2 DEF UpdateReq
    <2>7. status[p] = "CREATING" => Late(p)
      BY <1>1, <1>2 DEF Timely
    <2>8. \A d \in csess[p] \ {NOID} : status[d] # "ATTESTING" /\ csess[d] = {}
      BY <1>3, <1>4, <2>1
    <2>9. \A n \in rest : n.kind = "UPRQ" => n.destination # p
      <3>. SUFFICES ASSUME NEW n \in rest, n.kind = "UPRQ", n.destination = p PROVE FALSE
        OBVIOUS
      <3>1. n \in net /\ n.source \in Prover /\ n.source \in csess[p]
        BY <1>1, <1>9, NetFacts, FrameFacts DEF Reporting
      <3>2. n.source = c /\ n # m
        BY <1>3, <2>1, <3>1, Consts
      <3>. QED
        BY <1>2, <1>4, <3>1, <3>2 DEF FirstTree, Single, Steps, Child
    <2>10. crespto'[p].t <= timeoutresp /\ aggreport[p] \subseteq recs
           /\ \A n \in net \ rest : n.kind = "UPRQ" /\ n.report \subseteq recs
      BY <1>1, <1>2, <1>3 DEF Bounded
    <2>11. Leaves(p, recs, rest, u)
      BY <1>5, <1>9, <2>4, <2>5, <2>6, <2>7, <2>8, <2>9, <2>10 DEF Leaves
    <2>12. Starting'
      BY <1>1, <2>5, StartingKept DEF Same
    <2>. QED
      BY <2>11, <2>12, LeaveSpans
  <1>11. CASE ~lastChild(cs)
    <2>1. /\ csess' = [csess EXCEPT ![p] = cs]
          /\ aggreport' = [aggreport EXCEPT ![p] = recs]
          /\ net' = rest
          /\ UNCHANGED <<status, pfirst, psecond>>
      BY <1>3, <1>8, <1>11 DEF handleUpReq
    <2>2. /\ \A q \in Prover \ {p} : csess'[q] = csess[q] /\ aggreport'[q] = aggreport[q]
          /\ csess'[p] = cs /\ aggreport'[p] = recs
      BY <1>1, <2>1 DEF Types
    <2>3. \A q \in Prover : /\ csess'[q] \subseteq csess[q]
                            /\ NOID \in csess'[q] <=> NOID \in csess[q]
                            /\ aggreport[q] \subseteq aggreport'[q]
      BY <1>3, <1>5, <1>9, <2>2
    <2>4. \A q \in Prover : /\ (Asked(q)' <=> Asked(q)) /\ (Passed(q)' <=> Passed(q))
                            /\ Neighbours(q)' = Neighbours(q) /\ (Late(q)' <=> Late(q))
      BY <1>1, <2>1 DEF Asked, Passed, Neighbours, Late
    <2>5. \A q, k : Trail(q, k) => Trail(q, k)'
      BY <2>4, TrailKept
    <2>6. Starting' /\ Bounded'
      <3>1. Starting'
        BY <1>1, <2>1, StartingKept
      <3>. QED
        BY <1>1, <3>1 DEF Bounded
    <2>7. \A n \in net' : Inviting(n)' /\ Responding(n)' /\ Timely(n)'
      <3>. SUFFICES ASSUME NEW n \in net' PROVE Inviting(n)' /\ Responding(n)' /\ Timely(n)'
        OBVIOUS
      <3>1. n \in Frame /\ Inviting(n) /\ Responding(n) /\ Timely(n)
        BY <1>1, <1>9, <2>1
      <3>2. Inviting(n)'
        <4>. SUFFICES ASSUME n.kind = "CMRQ" PROVE Inviting(n)'
          BY DEF Inviting
        <4>1. n.source \in Prover /\ n.destination \in Prover
          BY <3>1, FrameFacts
        <4>. QED
          BY <1>1, <2>1, <2>4, <2>5, <3>1, <4>1 DEF Inviting
      <3>3. Responding(n)'
        BY <1>1, <2>1, <2>4, <3>1, FrameFacts DEF Responding
      <3>4. Timely(n)'
        BY <2>1, <2>4, <3>1, FrameFacts DEF Timely
      <3>. QED
        BY <3>2, <3>3, <3>4
    <2>8. Adjacent'
      <3>1. \A q \in Prover : /\ csess[q] \subseteq Neighbours(q) \cup {NOID}
                              /\ pfirst[q] # NOID => /\ pfirst[q] \in Neighbours(q)
                                                     /\ pfirst[q] \notin csess[q]
        BY <1>1 DEF Adjacent
      <3>. QED
        BY <2>1, <2>3, <2>4, <3>1 DEF Adjacent
    <2>9. Levels'
      <3>. SUFFICES ASSUME NEW q \in Prover \ {root}, status[q] = "ATTESTING" \/ NOID \in csess[q]
                    PROVE  \E k \in Nat : psecond[q].depth = maxdepth - k + 1 /\ Trail(q, k)'
        BY <2>1, <2>3 DEF Levels
      <3>1. PICK k \in Nat : psecond[q].depth = maxdepth - k + 1 /\ Trail(q, k)
        BY <1>1 DEF Levels
      <3>. QED
        BY <2>5, <3>1
    <2>10. Young'
      <3>. SUFFICES ASSUME NEW q \in Prover, status[q] = "CREATING", ~Late(q)
                    PROVE  \E S \in SUBSET Prover : /\ csess'[q] \ {NOID} \subseteq S
                                                   /\ Busy(S, crespto[q].t)'
        BY <2>1, <2>4 DEF Young
      <3>1. PICK S \in SUBSET Prover : csess[q] \ {NOID} \subseteq S /\ Busy(S, crespto[q].t)
        BY <1>1 DEF Young
      <3>2. c \notin S
        <4>1. status[c] # "ATTESTING" /\ status[c] # "CREATING"
          BY <1>4
        <4>2. csess[c] \cap S = {}
          BY <1>4
        <4>. QED
          BY <3>1, <4>1, <4>2 DEF Busy
      <3>3. \A x \in S : csess[x] \cap S # {} => csess'[x] \cap S # {}
        <4>1. \A x \in Prover : csess[x] \subseteq csess'[x] \cup {c}
          BY <1>3, <2>2
        <4>. QED
          BY <3>2, <4>1
      <3>4. Busy(S, crespto[q].t)'
        BY <1>1, <2>1, <3>1, <3>3 DEF Busy
      <3>. QED
        BY <2>3, <3>1, <3>4
    <2>11. Answered'
      <3>. SUFFICES ASSUME NEW q \in Prover, status[q] = "ATTESTING"
                    PROVE  \E n \in net' : n.kind \in {"CMRP", "CMAK"} /\ Child(n)' = q
        BY <2>1 DEF Answered
      <3>1. PICK n \in net : n.kind \in {"CMRP", "CMAK"} /\ Child(n) = q
        BY <1>1 DEF Answered
      <3>2. n \in net'
        BY <1>2, <1>3, <2>1, <3>1
      <3>. QED
        BY <3>1, <3>2 DEF Child
    <2>12. Spreading'
      <3>. SUFFICES ASSUME NEW q \in Prover, Passed(q)', NEW x \in Neighbours(q)'
                    PROVE  Asked(x)' \/ Invited(q, x)'
        BY DEF Spreading
      <3>1. x \in Neighbours(q) /\ x \in Prover
        BY <2>4 DEF Neighbours
      <3>2. Asked(x) \/ Invited(q, x)
        BY <1>1, <2>4, <3>1 DEF Spreading
      <3>3. Invited(q, x) => Invited(q, x)'
        BY <1>2, <1>3, <2>1 DEF Invited
      <3>. QED
        BY <2>4, <3>1, <3>2, <3>3
    <2>13. Kept'
      <3>. SUFFICES ASSUME NOID \in csess'[root], NEW x \in Prover,
                           Passed(x)', NOID \notin csess'[x]
                    PROVE  Held(x)'
        BY DEF Kept
      <3>1. Held(x)
        BY <1>1, <2>3, <2>4, Consts DEF Kept
      <3>2. CASE \E q \in Prover : NOID \in csess[q] /\ x \in aggreport[q]
        BY <2>3, <3>2 DEF Held
      <3>3. CASE \E n \in net : n.kind = "UPRQ" /\ x \in n.report
        <4>1. PICK n \in net : n.kind = "UPRQ" /\ x \in n.report
          BY <3>3
        <4>2. CASE n = m
          BY <1>3, <1>9, <2>2, <4>1, <4>2 DEF Held
        <4>3. CASE n # m
          BY <1>3, <2>1, <4>1, <4>3 DEF Held
        <4>. QED
          BY <4>2, <4>3
      <3>. QED
        BY <3>1, <3>2, <3>3 DEF Held
    <2>14. Rooted'
      <3>. SUFFICES ASSUME NEW S \in SUBSET Prover, Closed(S)',
                           NEW q \in Prover, NOID \in csess'[q]
                    PROVE  q \in S
        BY DEF Rooted
      <3>1. PICK R : R = S \cup {c}
        OBVIOUS
      <3>2. R \in SUBSET Prover
        BY <1>4, <3>1
      <3>3. ASSUME NEW x \in R
            PROVE  csess[x] \ {NOID} \subseteq R
        <4>1. CASE x = c
          BY <1>4, <4>1
        <4>2. CASE x # c
          <5>1. x \in S /\ csess'[x] \ {NOID} \subseteq S
            BY <3>1, <4>2 DEF Closed
          <5>2. csess[x] \subseteq csess'[x] \cup {c}
            BY <1>3, <2>2, <5>1
          <5>. QED
            BY <3>1, <5>1, <5>2
        <4>. QED
          BY <4>1, <4>2
      <3>4. Closed(R)
        BY <3>1, <3>3 DEF Closed
      <3>5. NOID \in csess[q] /\ q # c
        BY <1>4, <2>3
      <3>6. q \in R
        BY <1>1, <3>2, <3>4, <3>5 DEF Rooted
      <3>. QED
        BY <3>1, <3>5, <3>6
    <2>15. Ending'
      BY <1>1, <1>9, <2>1, <2>3, Consts DEF Ending
    <2>. QED
      BY <2>6, <2>7, <2>8, <2>9, <2>10, <2>11, <2>12, <2>13, <2>14, <2>15 DEF Spans
  <1>. QED
    BY <1>10, <1>11

-----------------------------------------------------------------------------
\* The collector receives the root's report: it has a record of everybody.
LEMMA CollectSpans ==
  ASSUME FirstTree, Spans, links' = links, collect
  PROVE  Spans'
  <1>1. PICK m \in net : /\ m.destination = Collector
                         /\ net' = net \ {m} /\ collected' = m.report
    BY DEF collect
  <1>2. UNCHANGED <<status, pfirst, psecond, csess, aggreport, attest, check, mktree,
                    cackto, crespto, period>>
    BY DEF collect, sessions, timers
  <1>3. /\ Starting /\ Bounded /\ Adjacent /\ Levels /\ Young /\ Answered /\ Spreading
        /\ Rooted /\ Ending
        /\ \A n \in net : n \in Frame /\ Inviting(n) /\ Responding(n) /\ Timely(n)
    BY NetFacts DEF Spans
  <1>4. m.kind = "UPRQC" /\ collected' = Prover /\ NOID \notin csess[root]
    <2>1. m.kind = "UPRQC"
      BY <1>1, <1>3, FrameFacts, Consts
    <2>. QED
      BY <1>1, <1>3, <2>1 DEF Timely, Ending
  <1>5. \A q \in Prover : /\ (Asked(q)' <=> Asked(q)) /\ (Passed(q)' <=> Passed(q))
                          /\ Neighbours(q)' = Neighbours(q) /\ (Late(q)' <=> Late(q))
    BY <1>2 DEF Asked, Passed, Neighbours, Late
  <1>6. \A q, k : Trail(q, k) => Trail(q, k)'
    BY <1>5, TrailKept
  <1>7. Starting' /\ Bounded' /\ Young'
    <2>1. Starting'
      BY <1>2, <1>3, StartingKept
    <2>. QED
      BY <1>2, <1>3, <2>1, YoungKept DEF Bounded
  <1>8. \A n \in net' : Inviting(n)' /\ Responding(n)' /\ Timely(n)'
    <2>. SUFFICES ASSUME NEW n \in net' PROVE Inviting(n)' /\ Responding(n)' /\ Timely(n)'
      OBVIOUS
    <2>1. n \in Frame /\ Inviting(n) /\ Responding(n) /\ Timely(n)
      BY <1>1, <1>3
    <2>2. Inviting(n)'
      <3>. SUFFICES ASSUME n.kind = "CMRQ" PROVE Inviting(n)'
        BY DEF Inviting
      <3>1. n.source \in Prover /\ n.destination \in Prover
        BY <2>1, FrameFacts
      <3>. QED
        BY <1>2, <1>5, <1>6, <2>1, <3>1 DEF Inviting
    <2>3. Responding(n)'
      BY <1>2, <1>5, <2>1, FrameFacts DEF Responding
    <2>4. Timely(n)'
      BY <1>2, <1>5, <2>1, FrameFacts DEF Timely
    <2>. QED
      BY <2>2, <2>3, <2>4
  <1>9. Adjacent'
    <2>1. \A q \in Prover : /\ csess[q] \subseteq Neighbours(q) \cup {NOID}
                            /\ pfirst[q] # NOID => /\ pfirst[q] \in Neighbours(q)
                                                   /\ pfirst[q] \notin csess[q]
      BY <1>3 DEF Adjacent
    <2>. QED
      BY <1>2, <1>5, <2>1 DEF Adjacent
  <1>10. Levels'
    <2>. SUFFICES ASSUME NEW q \in Prover \ {root}, status[q] = "ATTESTING" \/ NOID \in csess[q]
                  PROVE  \E k \in Nat : psecond[q].depth = maxdepth - k + 1 /\ Trail(q, k)'
      BY <1>2 DEF Levels
    <2>1. PICK k \in Nat : psecond[q].depth = maxdepth - k + 1 /\ Trail(q, k)
      BY <1>3 DEF Levels
    <2>. QED
      BY <1>6, <2>1
  <1>11. Answered'
    <2>1. \A q \in Prover : status[q] = "ATTESTING" =>
             \E n \in net : n.kind \in {"CMRP", "CMAK"} /\ Child(n) = q
      BY <1>3 DEF Answered
    <2>2. \A n \in net : n.kind \in {"CMRP", "CMAK"} => n \in net'
      BY <1>1, <1>4
    <2>. QED
      BY <1>2, <2>1, <2>2 DEF Answered, Child
  <1>12. Spreading'
    <2>. SUFFICES ASSUME NEW q \in Prover, Passed(q)', NEW x \in Neighbours(q)'
                  PROVE  Asked(x)' \/ Invited(q, x)'
      BY DEF Spreading
    <2>1. x \in Neighbours(q) /\ x \in Prover
      BY <1>5 DEF Neighbours
    <2>2. Asked(x) \/ Invited(q, x)
      BY <1>3, <1>5, <2>1 DEF Spreading
    <2>3. Invited(q, x) => Invited(q, x)'
      BY <1>1, <1>4 DEF Invited
    <2>. QED
      BY <1>5, <2>1, <2>2, <2>3
  <1>13. Kept' /\ Ending'
    BY <1>2, <1>4 DEF Kept, Ending
  <1>14. Rooted'
    BY <1>2, <1>3 DEF Rooted, Closed
  <1>. QED
    BY <1>7, <1>8, <1>9, <1>10, <1>11, <1>12, <1>13, <1>14 DEF Spans

\* Time passes: what remains of a frame's time and of the timeout for responses
\* shrinks alike, and so do the checks.
LEMMA TickSpans ==
  ASSUME FirstTree, Spans, Prompt, links' = links, Tick
  PROVE  Spans'
  <1>1. /\ Types /\ ~mktree
        /\ \A p \in Prover : attest[p] # 0 /\ check[p] # 0 /\ crespto[p].t # 0
        /\ \A m \in net : m.ttl > 0
        /\ UNCHANGED <<status, pfirst, psecond, csess, aggreport, mktree, collected, period>>
        /\ Starting /\ Bounded /\ Adjacent /\ Levels /\ Young /\ Answered /\ Spreading
        /\ Kept /\ Rooted /\ Ending
        /\ \A n \in net : n \in Frame /\ Inviting(n) /\ Responding(n) /\ Timely(n)
    BY NetFacts DEF FirstTree, Tick, Countdowns, sessions, Spans
  <1>2. /\ attest' = [p \in Prover |-> dec(attest[p])]
        /\ check' = [p \in Prover |-> dec(check[p])]
        /\ crespto' = [p \in Prover |-> [crespto[p] EXCEPT !.t = dec(@)]]
        /\ net' = {[m EXCEPT !.ttl = @ - 1] : m \in net}
    BY DEF Tick
  <1>3. \A i \in Timer \ {0} : /\ dec(i) \in Timer /\ (dec(i) = Off <=> i = Off)
                               /\ i # Off => dec(i) = i - 1
    BY DEF Timer, dec, Off
  <1>4. ASSUME NEW p \in Prover
        PROVE  /\ check[p] \in Timer \ {0} /\ check'[p] = dec(check[p])
               /\ crespto[p].t \in Timer \ {0} /\ crespto'[p].t = dec(crespto[p].t)
               /\ attest[p] \in Timer \ {0} /\ attest'[p] = dec(attest[p])
    <2>1. /\ crespto[p] \in [treeID : TreeId \cup {NOID}, t : Timer]
          /\ check[p] \in Timer /\ attest[p] \in Timer
      BY <1>1 DEF Types, Starting
    <2>. QED
      BY <1>1, <1>2, <2>1
  <1>5. \A p \in Prover : period[p] # 0
    BY <1>1 DEF Starting
  <1>6. /\ \A n \in net' : \E m \in net : n = [m EXCEPT !.ttl = m.ttl - 1]
        /\ \A m \in net : \E n \in net' : n = [m EXCEPT !.ttl = m.ttl - 1]
    BY <1>2
  <1>7. /\ \A n \in net' : \E m \in net :
              /\ m \in Frame /\ n.ttl = m.ttl - 1 /\ n.kind = m.kind
              /\ n.source = m.source /\ n.destination = m.destination
              /\ n.kind = "CMRQ" => n.depth = m.depth
              /\ n.kind \in {"UPRQ", "UPRQC"} => n.report = m.report
        /\ \A m \in net : \E n \in net' :
              /\ n.kind = m.kind /\ n.source = m.source /\ n.destination = m.destination
              /\ n.kind \in {"UPRQ", "UPRQC"} => n.report = m.report
    BY <1>1, <1>6, TickFacts
  <1>8. Starting'
    <2>1. attest' \in [Prover -> Timer]
      BY <1>2, <1>3, <1>4
    <2>2. \A p \in Prover : (check'[p] = Off <=> check[p] = Off)
      BY <1>3, <1>4
    <2>3. (Waiting' <=> Waiting) /\ (Before' <=> Before)
      BY <1>1, <2>2, Consts DEF Waiting, Before
    <2>4. Waiting => \A p \in Prover : check'[p] <= check'[root]
      <3>. SUFFICES ASSUME Waiting, NEW p \in Prover PROVE check'[p] <= check'[root]
        OBVIOUS
      <3>1. check[root] # Off /\ check[p] <= check[root]
        BY <1>1, <1>5, Consts DEF Starting, Waiting, Remaining
      <3>2. check[root] \in Timer \ {0} /\ check'[root] = check[root] - 1
        BY <1>3, <1>4, <3>1, Consts
      <3>3. check'[p] = check[p] - 1 \/ check'[p] = Off
        BY <1>3, <1>4
      <3>4. check[p] \in Int /\ check[root] \in Nat \ {0}
        BY <1>4, <3>1, <3>2 DEF Timer, Off
      <3>. QED
        BY <3>1, <3>2, <3>3, <3>4 DEF Off
    <2>5. Waiting => Remaining' = check'[root]
      BY <1>1, <1>5, Consts DEF Remaining
    <2>6. ~Waiting => \A p \in Prover : check'[p] \in {0, Off}
      BY <1>1, <1>4, <2>2 DEF Starting
    <2>7. ~Before => \A p \in Prover : check'[p] = Off
      BY <1>1, <2>2 DEF Starting
    <2>8. \A p \in Prover : /\ period'[p] = 0 => attest'[p] = 0
                            /\ status'[p] = "JOINING" => period'[p] = 0
                            /\ status'[p] = "CHECKING" => check'[p] # Off
      BY <1>1, <1>5, <2>2 DEF Starting
    <2>. QED
      BY <1>1, <1>5, <2>1, <2>3, <2>4, <2>5, <2>6, <2>7, <2>8 DEF Starting
  <1>9. \A p \in Prover : /\ crespto[p].t \in Int /\ crespto'[p].t \in Int
                          /\ crespto'[p].t <= crespto[p].t
                          /\ crespto[p].t # Off => crespto'[p].t = crespto[p].t - 1
    BY <1>3, <1>4 DEF Timer, Off
  <1>10. Bounded'
    BY <1>1, <1>9, Consts DEF Bounded
  <1>11. \A p \in Prover : /\ (Asked(p)' <=> Asked(p)) /\ (Passed(p)' <=> Passed(p))
                           /\ Neighbours(p)' = Neighbours(p)
                           /\ Late(p) => Late(p)'
    <2>1. \A p \in Prover : Late(p) => Late(p)'
      BY <1>9, Consts DEF Late
    <2>. QED
      BY <1>1, <2>1 DEF Asked, Passed, Neighbours
  <1>12. \A q, k : Trail(q, k) => Trail(q, k)'
    BY <1>11, TrailKept
  <1>13. ASSUME NEW p \in Prover, NEW i \in Nat, NEW j \in Nat, crespto[p].t >= i + j
         PROVE  crespto'[p].t >= i + (j - 1)
    <2>1. crespto[p].t \in Int /\ crespto[p].t # Off /\ crespto'[p].t = crespto[p].t - 1
      BY <1>9, <1>13 DEF Off
    <2>. QED
      BY <1>13, <2>1
  <1>14. timeoutresp - MaxDelay \in Nat /\ timeoutresp - 2 * MaxDelay \in Nat
    BY Consts DEF Prompt
  <1>15. \A n \in net' : Inviting(n)' /\ Responding(n)' /\ Timely(n)'
    <2>. SUFFICES ASSUME NEW n \in net' PROVE Inviting(n)' /\ Responding(n)' /\ Timely(n)'
      OBVIOUS
    <2>1. PICK m \in net :
             /\ m \in Frame /\ n.ttl = m.ttl - 1 /\ n.kind = m.kind
             /\ n.source = m.source /\ n.destination = m.destination
             /\ n.kind = "CMRQ" => n.depth = m.depth
             /\ n.kind \in {"UPRQ", "UPRQC"} => n.report = m.report
      BY <1>7
    <2>2. Inviting(m) /\ Responding(m) /\ Timely(m) /\ m.ttl \in Nat
      BY <1>1, <2>1, FrameFacts
    <2>3. Inviting(n)'
      <3>. SUFFICES ASSUME n.kind = "CMRQ" PROVE Inviting(n)'
        BY DEF Inviting
      <3>1. m.source \in Prover /\ m.destination \in Prover
        BY <2>1, FrameFacts
      <3>2. n.destination \in Neighbours(n.source)' /\ Trail(n.source, maxdepth - n.depth)'
        BY <1>11, <1>12, <2>1, <2>2, <3>1 DEF Inviting
      <3>3. ASSUME ~Asked(n.destination)'
            PROVE  /\ status'[n.source] = "CREATING"
                   /\ crespto'[n.source].t >= timeoutresp - MaxDelay + n.ttl
        <4>1. /\ status[m.source] = "CREATING"
              /\ crespto[m.source].t >= timeoutresp - MaxDelay + m.ttl
          BY <1>11, <2>1, <2>2, <3>1, <3>3 DEF Inviting
        <4>2. crespto'[m.source].t >= timeoutresp - MaxDelay + (m.ttl - 1)
          BY <1>13, <1>14, <2>2, <3>1, <4>1
        <4>. QED
          BY <1>1, <2>1, <4>1, <4>2
      <3>. QED
        BY <3>2, <3>3 DEF Inviting
    <2>4. Responding(n)'
      <3>. SUFFICES ASSUME n.kind = "CMRP" PROVE Responding(n)'
        BY DEF Responding
      <3>1. m.source \in Prover /\ m.destination \in Prover
        BY <2>1, FrameFacts
      <3>2. /\ m.source \in Neighbours(m.destination) /\ status[m.destination] = "CREATING"
            /\ crespto[m.destination].t >= timeoutresp - 2 * MaxDelay + m.ttl
        BY <2>1, <2>2 DEF Responding
      <3>3. crespto'[m.destination].t >= timeoutresp - 2 * MaxDelay + (m.ttl - 1)
        BY <1>13, <1>14, <2>2, <3>1, <3>2
      <3>. QED
        BY <1>1, <1>11, <2>1, <3>1, <3>2, <3>3 DEF Responding
    <2>5. Timely(n)'
      BY <1>1, <1>11, <2>1, <2>2, FrameFacts DEF Timely
    <2>. QED
      BY <2>3, <2>4, <2>5
  <1>16. Adjacent'
    <2>1. \A q \in Prover : /\ csess[q] \subseteq Neighbours(q) \cup {NOID}
                            /\ pfirst[q] # NOID => /\ pfirst[q] \in Neighbours(q)
                                                   /\ pfirst[q] \notin csess[q]
      BY <1>1 DEF Adjacent
    <2>. QED
      BY <1>1, <1>11, <2>1 DEF Adjacent
  <1>17. Levels'
    <2>. SUFFICES ASSUME NEW q \in Prover \ {root}, status[q] = "ATTESTING" \/ NOID \in csess[q]
                  PROVE  \E k \in Nat : psecond[q].depth = maxdepth - k + 1 /\ Trail(q, k)'
      BY <1>1 DEF Levels
    <2>1. PICK k \in Nat : psecond[q].depth = maxdepth - k + 1 /\ Trail(q, k)
      BY <1>1 DEF Levels
    <2>. QED
      BY <1>12, <2>1
  <1>18. Young'
    <2>. SUFFICES ASSUME NEW q \in Prover, status[q] = "CREATING", ~Late(q)'
                  PROVE  \E S \in SUBSET Prover : /\ csess[q] \ {NOID} \subseteq S
                                                 /\ Busy(S, crespto[q].t)'
      BY <1>1 DEF Young
    <2>1. PICK S \in SUBSET Prover : csess[q] \ {NOID} \subseteq S /\ Busy(S, crespto[q].t)
      BY <1>1, <1>11 DEF Young
    <2>2. ASSUME NEW x \in S, status[x] = "CREATING", crespto[x].t >= crespto[q].t
          PROVE  crespto'[x].t >= crespto'[q].t
      <3>1. x \in Prover /\ crespto[x].t # Off /\ crespto[q].t # Off
        BY <2>1, <2>2 DEF FirstTree, Phase, Unasked
      <3>2. crespto'[x].t = crespto[x].t - 1 /\ crespto'[q].t = crespto[q].t - 1
        BY <1>9, <3>1
      <3>3. crespto[x].t \in Int /\ crespto[q].t \in Int
        BY <1>9, <3>1
      <3>. QED
        BY <2>2, <3>2, <3>3
    <2>3. Busy(S, crespto[q].t)'
      BY <1>1, <2>1, <2>2 DEF Busy
    <2>. QED
      BY <2>1, <2>3
  <1>19. Answered'
    BY <1>1, <1>7 DEF Answered, Child
  <1>20. Spreading'
    <2>. SUFFICES ASSUME NEW q \in Prover, Passed(q)', NEW x \in Neighbours(q)'
                  PROVE  Asked(x)' \/ Invited(q, x)'
      BY DEF Spreading
    <2>1. x \in Neighbours(q) /\ x \in Prover
      BY <1>11 DEF Neighbours
    <2>2. Asked(x) \/ Invited(q, x)
      BY <1>1, <1>11, <2>1 DEF Spreading
    <2>3. Invited(q, x) => Invited(q, x)'
      BY <1>7 DEF Invited
    <2>. QED
      BY <1>11, <2>1, <2>2, <2>3
  <1>21. Kept'
    <2>. SUFFICES ASSUME NOID \in csess[root], NEW c \in Prover,
                         Passed(c), NOID \notin csess[c]
                  PROVE  Held(c)'
      BY <1>1, <1>11 DEF Kept
    <2>1. Held(c)
      BY <1>1 DEF Kept
    <2>2. \A m \in net : m.kind = "UPRQ" /\ c \in m.report =>
             \E n \in net' : n.kind = "UPRQ" /\ c \in n.report
      BY <1>7
    <2>. QED
      BY <1>1, <2>1, <2>2 DEF Held
  <1>22. Rooted'
    BY <1>1 DEF Rooted, Closed
  <1>23. Ending'
    BY <1>1, <1>7 DEF Ending
  <1>. QED
    BY <1>8, <1>10, <1>15, <1>16, <1>17, <1>18, <1>19, <1>20, <1>21, <1>22, <1>23 DEF Spans

\* A step that changes nothing.
LEMMA StutterSpans ==
  ASSUME Spans, UNCHANGED vars
  PROVE  Spans'
  <1>1. UNCHANGED <<links, status, pfirst, psecond, csess, aggreport, attest, check, mktree,
                    cackto, crespto, net, collected, period>>
    BY DEF vars, sessions, timers
  <1>2. Starting' /\ Bounded' /\ Adjacent' /\ Young'
    <2>1. Starting'
      BY <1>1, StartingKept DEF Spans
    <2>. QED
      BY <1>1, <2>1, YoungKept DEF Spans, Bounded, Adjacent, Neighbours
  <1>3. \A q, k : Trail(q, k) => Trail(q, k)'
    BY <1>1, TrailKept DEF Asked
  <1>4. \A m \in net' : Inviting(m)' /\ Responding(m)' /\ Timely(m)'
    <2>. SUFFICES ASSUME NEW m \in net PROVE Inviting(m)' /\ Responding(m)' /\ Timely(m)'
      BY <1>1
    <2>1. Inviting(m) /\ Responding(m) /\ Timely(m)
      BY DEF Spans
    <2>. QED
      BY <1>1, <1>3, <2>1 DEF Inviting, Responding, Timely, Neighbours, Asked, Late
  <1>5. Levels'
    <2>1. Levels
      BY DEF Spans
    <2>. QED
      BY <1>1, <1>3, <2>1 DEF Levels
  <1>6. Answered' /\ Spreading'
    BY <1>1 DEF Spans, Answered, Child, Spreading, Passed, Asked, Invited, Neighbours
  <1>7. Kept' /\ Rooted' /\ Ending'
    BY <1>1 DEF Spans, Kept, Held, Passed, Asked, Rooted, Closed, Ending
  <1>. QED
    BY <1>2, <1>4, <1>5, <1>6, <1>7 DEF Spans

\* A frame is received.
LEMMA ReceiveSpans ==
  ASSUME FirstTree, Spans, Joined(links), Shallow(links), links' = links, NEW p \in Prover,
         Spacious(p), receive(p)
  PROVE  Spans'
  <1>1. UNCHANGED <<attest, check, mktree, collected, period>> /\ ~Ended
    BY DEF receive
  <1>2. PICK m \in net :
           /\ m.destination = p
           /\ \/ handleCommitReq(p, m) \/ handleCommitAck(p, m)
              \/ handleCommitResp(p, m) \/ handleUpReq(p, m)
    BY DEF receive
  <1>3. CASE handleCommitReq(p, m)
    BY <1>1, <1>2, <1>3, ReqDropSpans, AcceptSpans
  <1>4. CASE handleCommitAck(p, m)
    BY <1>1, <1>2, <1>4, CommitAckSpans
  <1>5. CASE handleCommitResp(p, m)
    BY <1>1, <1>2, <1>5, CommitRespSpans
  <1>6. CASE handleUpReq(p, m)
    BY <1>1, <1>2, <1>6, UpReqSpans
  <1>. QED
    BY <1>2, <1>3, <1>4, <1>5, <1>6

\* Every step keeps what makes the tree reach everybody.
LEMMA NextSpans ==
  ASSUME Prompt, Spanned, WiredInv, WiredInv', SpanInv, [Next]_vars
  PROVE  SpanInv'
  <1>1. links' = links
    BY DEF Next, Event, Over, startAttestation, checkSoftConfig, handleCommitAckTimeOut,
       handleCommitRespTimeOut, receive, scheduleTwice, mkTree, collect, Tick, vars
  <1>2. links' \in Networks /\ Joined(links) /\ Shallow(links)
    BY <1>1 DEF SpanInv, Spanned
  <1>3. ASSUME Fits'
        PROVE  Spans'
    <2>1. InPeriod' /\ InPeriod /\ PeriodType
      BY <1>3, PeriodNext DEF Fits, WiredInv
    <2>2. \A p \in Prover : Spacious(p)
      BY <1>1, <1>3 DEF Fits, Spacious, Neighbours
    <2>3. FirstTree /\ FirstTree' /\ Spans /\ AckInTime
      BY <2>1, <2>2 DEF WiredInv, SpanInv, Fits, Prompt
    <2>4. ASSUME NEW p \in Prover, startAttestation(p) PROVE Spans'
      BY <2>1, <2>3, <2>4, StartSpans DEF SpanInv
    <2>5. ASSUME NEW p \in Prover, checkSoftConfig(p) PROVE Spans'
      BY <2>3, <2>5, CheckSpans
    <2>6. ASSUME NEW p \in Prover, handleCommitAckTimeOut(p) PROVE Spans'
      BY <2>3, <2>6, NoAckTimeOut
    <2>7. ASSUME NEW p \in Prover, handleCommitRespTimeOut(p) PROVE Spans'
      BY <1>1, <1>2, <2>3, <2>7, RespTimeOutSpans
    <2>8. ASSUME NEW p \in Prover, receive(p) PROVE Spans'
      BY <1>1, <1>2, <2>2, <2>3, <2>8, ReceiveSpans
    <2>9. CASE mkTree
      BY <1>1, <2>3, <2>9, MkTreeSpans
    <2>10. CASE collect
      BY <1>1, <2>3, <2>10, CollectSpans
    <2>11. CASE Tick
      BY <1>1, <2>3, <2>11, TickSpans
    <2>12. CASE Over \/ UNCHANGED vars
      BY <2>3, <2>12, StutterSpans DEF Over
    <2>. QED
      BY <2>3, <2>4, <2>5, <2>6, <2>7, <2>8, <2>9, <2>10, <2>11, <2>12, NoneTwice
         DEF Next, Event
  <1>. QED
    BY <1>2, <1>3 DEF SpanInv

\* In a connected network whose paths are shorter than the depth of the tree,
\* the report that ends the simulation in the first period has a record of
\* every prover (ACollector::handleUpReq stops the clock of the experiment at
\* the first report), provided that
\*   - every prover may have all its neighbours but its parent as children,
\*   - acks and responses arrive before the timeouts for them, and
\*   - no prover takes longer than the root to check its firmware.
THEOREM CompleteCorrect ==
  ASSUME Prompt, Spanned
  PROVE  Spec => []Complete
  <1>1. Init => WiredInv /\ SpanInv
    BY InitInv, InitSpans
  <1>2. (WiredInv /\ SpanInv) /\ [Next]_vars => (WiredInv /\ SpanInv)'
    <2>1. AckInTime
      BY DEF Prompt
    <2>. QED
      BY <2>1, NextInv, NextSpans
  <1>3. SpanInv => Complete
    BY DEF SpanInv, Spans, Ending, Complete
  <1>. QED
    BY <1>1, <1>2, <1>3, PTL DEF Spec

-----------------------------------------------------------------------------
(***************************************************************************)
(* Over all periods: the timeouts that startAttestation leaves behind.     *)
(*                                                                         *)
(* All provers start their periods together.  Frames of the last period    *)
(* are gone before the first check ends, so that none of them meets a new  *)
(* tree (Expired); and a prover answers no invitation while its last       *)
(* answer or the ack for it may be on its way, for as long the timeout for *)
(* the ack is pending (Pending).  An ack is therefore one for the tree     *)
(* that its receiver has accepted, which is the tree of cresptomsg.        *)
(***************************************************************************)

\* A check outlasts the frames of the last period and ends in its own.
ChecksTimed ==
    \A p \in Prover : /\ MaxDelay < firmware[p]
                      /\ \A ls \in Networks : firmware[p] < deltah[ls]

Answers == {"CMRP", "CMAK"}
Handshake == Answers \cup {"CMRQ"}
Parent(m) == IF m.kind = "CMAK" THEN m.source ELSE m.destination

\* A report that a prover has sent on through gate 0.
Forwarded(m) ==
    \E d : m \in [kind : {"UPRQF"}, source : Prover, destination : {d},
                  report : SUBSET Prover, treeID : TreeId, ttl : 0..MaxDelay]

Shapes ==
    /\ links \in Networks
    /\ status \in [Prover -> Status]
    /\ pfirst \in [Prover -> Dev]
    /\ psecond \in [Prover -> Session \cup {Null}]
    /\ csess \in [Prover -> SUBSET Dev]
    /\ aggreport \in [Prover -> SUBSET Prover]
    /\ attest \in [Prover -> 0..deltah[links]]
    /\ check \in [Prover -> Timer]
    /\ mktree \in BOOLEAN
    /\ cackto \in [Prover -> [dev : Dev, t : Timer]]
    /\ crespto \in [Prover -> [treeID : TreeId \cup {NOID}, t : Timer]]
    /\ \A m \in net : m \in Frame \/ Forwarded(m)

\* The time that p has been in its period.
Elapsed(p) == deltah[links] - attest[p]

Together == \/ \A p, q \in Prover : attest[p] = attest[q]
            \/ \A p \in Prover : attest[p] \in {0, deltah[links]}

\* What each prover is in, whichever timeouts of the last period are pending.
Blank(p) == pfirst[p] = NOID /\ csess[p] = {}
Lasting(p) ==
    /\ check[p] # Off => /\ status[p] \in {"CHECKING", "COLLECTING"} /\ Blank(p)
                         /\ check[p] + Elapsed(p) = firmware[p]
    /\ status[p] = "READY" \/ ~Blank(p) => Elapsed(p) >= firmware[p]
    /\ status[p] = "ATTESTING_CREATING" => p = root
    /\ cackto[p].t # Off => cackto[p].dev \in Prover
    /\ pfirst[p] # NOID => psecond[p] \in Session
    /\ NOID \in csess[p] => /\ status[p] # "READY"
                            /\ cackto[p].t = Off \/ pfirst[p] = NOID
    /\ crespto[p].t # Off => crespto[p].treeID \in TreeId
    /\ NOID \in csess[p] /\ crespto[p].t # Off
          => crespto[p].treeID = psecond[p].treeID

\* The root has no tree when it opens one.
Opening == mktree => /\ pfirst[root] = NOID /\ check[root] = Off
                     /\ Elapsed(root) = firmware[root]
Expired ==
    check[root] # Off \/ mktree =>
       \A m \in net : m.kind \in Handshake => m.ttl + Elapsed(root) <= MaxDelay

\* A response or an ack, the child of which still has a timeout for it.
Pending(m) ==
    /\ m.kind = "CMRP" => cackto[m.source].t >= timeoutack - MaxDelay + m.ttl
    /\ m.kind = "CMAK" => cackto[m.destination].t >= timeoutack - 2 * MaxDelay + m.ttl
    /\ m.kind \in Answers /\ pfirst[Child(m)] = Parent(m)
          => psecond[Child(m)].treeID = m.treeID
OneAnswer ==
    \A m, n \in net : /\ m.kind \in Answers /\ n.kind \in Answers
                      /\ Child(m) = Child(n)
                      => m = n

PeriodsInv ==
    /\ Shapes
    /\ Together
    /\ \A p \in Prover : Lasting(p)
    /\ Opening
    /\ Expired
    /\ \A m \in net : Pending(m)
    /\ OneAnswer

-----------------------------------------------------------------------------
\* The fields of frames in any period.
LEMMA ShapeFacts ==
  ASSUME Shapes, NEW m \in net
  PROVE  /\ m.source \in Prover /\ m.ttl \in 0..MaxDelay /\ m.treeID \in TreeId
         /\ m.kind \in Handshake \cup {"UPRQ", "UPRQC", "UPRQF"}
         /\ m.kind \in Handshake \cup {"UPRQ"} => m \in Frame /\ m.destination \in Prover
         /\ m.kind \in Answers => Child(m) \in Prover /\ Parent(m) \in Prover
         /\ m.kind \in {"UPRQ", "UPRQC", "UPRQF"} => m.report \subseteq Prover
  <1>1. CASE m \in Frame
    BY <1>1, FrameFacts DEF Handshake, Answers, Child, Parent
  <1>2. CASE Forwarded(m)
    BY <1>2 DEF Forwarded, Handshake, Answers
  <1>. QED
    BY <1>1, <1>2 DEF Shapes

\* The constants of the network and the clocks are numbers.
LEMMA ClockFacts ==
  ASSUME Shapes, ChecksTimed
  PROVE  /\ deltah[links] \in Nat /\ MaxDelay \in Nat
         /\ \A p \in Prover : /\ attest[p] \in 0..deltah[links] /\ Elapsed(p) \in 0..deltah[links]
                              /\ firmware[p] \in Nat
                              /\ MaxDelay < firmware[p] /\ firmware[p] < deltah[links]
  <1>1. deltah[links] \in Nat
    BY WiredAssumption DEF Shapes
  <1>. QED
    BY <1>1, Consts DEF Shapes, ChecksTimed, Elapsed

\* A prover that no step touches.
LEMMA SameLasting ==
  ASSUME NEW q, Same(q), attest'[q] = attest[q], links' = links, Lasting(q)
  PROVE  Lasting(q)'
  BY DEF Same, Lasting, Blank, Elapsed

\* No answer is on its way from or to a prover without a timeout for it.
LEMMA NoAnswer ==
  ASSUME AckInTime, PeriodsInv, NEW p \in Prover, cackto[p].t \in {0, Off}, NEW m \in net,
         m.kind \in Answers
  PROVE  Child(m) # p
  <1>1. Pending(m) /\ m.ttl \in 0..MaxDelay
    BY ShapeFacts DEF PeriodsInv
  <1>2. timeoutack \in Nat /\ MaxDelay \in Nat
    BY Consts
  <1>. QED
    BY <1>1, <1>2 DEF Pending, Answers, Child, AckInTime, Off

\* Frames that answer other frames while the root is checking its firmware are
\* sent at the moment in which the period starts.
LEMMA AtStart ==
  ASSUME ChecksTimed, PeriodsInv, NEW m \in net, m.kind \in Handshake,
         NEW p \in Prover, Elapsed(p) >= firmware[p], check[root] # Off \/ mktree
  PROVE  ~mktree /\ Elapsed(root) = 0
  <1>1. m.ttl \in 0..MaxDelay /\ m.ttl + Elapsed(root) <= MaxDelay
    BY ShapeFacts DEF PeriodsInv, Expired
  <1>2. /\ deltah[links] \in Nat /\ MaxDelay \in Nat
        /\ \A q \in {p, root} : /\ attest[q] \in 0..deltah[links] /\ Elapsed(q) = deltah[links] - attest[q]
                                /\ firmware[q] \in Nat
                                /\ MaxDelay < firmware[q] /\ firmware[q] < deltah[links]
    BY ClockFacts, Consts DEF PeriodsInv, Elapsed
  <1>3. ~mktree
    BY <1>1, <1>2 DEF PeriodsInv, Opening
  <1>4. attest[p] = attest[root] \/ attest[root] \in {0, deltah[links]}
    BY Consts DEF PeriodsInv, Together
  <1>. QED
    BY <1>1, <1>2, <1>3, <1>4

\* A step of p after the start of its period: what it must see to.
LEMMA StepKept ==
  ASSUME ChecksTimed, PeriodsInv, Shapes', NEW p \in Prover,
         \A q \in Prover \ {p} : Same(q), UNCHANGED <<links, attest, check>>,
         Lasting(p)', mktree' => mktree /\ pfirst'[root] = NOID,
         \A m \in net' \ net : m.kind \in Handshake /\ (check[root] # Off \/ mktree')
                                  => m.ttl + Elapsed(root) <= MaxDelay,
         \A m \in net' : m.kind \in Answers => (m \in net /\ Child(m) # p) \/ Pending(m)',
         OneAnswer'
  PROVE  PeriodsInv'
  <1>1. \A q \in Prover : Lasting(q)'
    BY SameLasting DEF PeriodsInv
  <1>2. Together' /\ Opening'
    BY DEF PeriodsInv, Together, Opening, Elapsed
  <1>3. Expired'
    BY DEF PeriodsInv, Expired, Elapsed
  <1>4. \A m \in net' : Pending(m)'
    <2>. SUFFICES ASSUME NEW m \in net', m.kind \in Answers, m \in net, Child(m) # p
                  PROVE  Pending(m)'
      BY DEF Pending, Answers
    <2>1. Child(m) \in Prover /\ Pending(m)
      BY ShapeFacts DEF PeriodsInv
    <2>2. Same(Child(m))
      BY <2>1
    <2>. QED
      BY <2>1, <2>2 DEF Pending, Same, Child, Parent, Answers
  <1>. QED
    BY <1>1, <1>2, <1>3, <1>4 DEF PeriodsInv

\* No response and no ack is new.
LEMMA FewerAnswers ==
  ASSUME OneAnswer, \A m \in net' \ net : m.kind \notin Answers
  PROVE  OneAnswer'
  BY DEF OneAnswer, Child

\* The initial states.
LEMMA InitPeriods ==
  ASSUME Init
  PROVE  PeriodsInv
  <1>1. Shapes
    <2>1. attest \in [Prover -> 0..deltah[links]]
      BY WiredAssumption DEF Init
    <2>2. /\ status \in [Prover -> Status] /\ pfirst \in [Prover -> Dev]
          /\ psecond \in [Prover -> Session \cup {Null}]
          /\ csess \in [Prover -> SUBSET Dev] /\ aggreport \in [Prover -> SUBSET Prover]
          /\ check \in [Prover -> Timer] /\ mktree \in BOOLEAN
      BY Consts DEF Init, Status, Timer
    <2>3. /\ cackto \in [Prover -> [dev : Dev, t : Timer]]
          /\ crespto \in [Prover -> [treeID : TreeId \cup {NOID}, t : Timer]]
      BY Consts DEF Init, Timer
    <2>. QED
      BY <2>1, <2>2, <2>3 DEF Init, Shapes
  <1>2. \A p \in Prover : Lasting(p)
    BY DEF Init, Lasting, Blank
  <1>. QED
    BY <1>1, <1>2, Consts DEF Init, PeriodsInv, Together, Opening, Expired, OneAnswer

\* A period starts; what is on its way is at most MaxDelay from its end.
LEMMA StartPeriods ==
  ASSUME ChecksTimed, PeriodsInv, NEW p \in Prover, startAttestation(p)
  PROVE  PeriodsInv'
  <1>1. Shapes /\ Together /\ Lasting(p) /\ Opening /\ Expired /\ OneAnswer
    BY DEF PeriodsInv
  <1>2. /\ deltah[links] \in Nat /\ MaxDelay \in Nat /\ firmware[p] \in Nat
        /\ firmware[p] < deltah[links]
    BY <1>1, ClockFacts
  <1>3. /\ attest[p] = 0 /\ attest' = [attest EXCEPT ![p] = deltah[links]]
        /\ check' = [check EXCEPT ![p] = firmware[p]]
        /\ UNCHANGED <<links, mktree, cackto, crespto, net>>
    BY DEF startAttestation
  <1>4. /\ \A q \in Prover \ {p} : /\ status'[q] = status[q] /\ pfirst'[q] = pfirst[q]
                                   /\ psecond'[q] = psecond[q] /\ csess'[q] = csess[q]
                                   /\ check'[q] = check[q] /\ attest'[q] = attest[q]
        /\ status'[p] = "CHECKING" /\ Blank(p)' /\ check'[p] = firmware[p]
        /\ attest'[p] = deltah[links]
    BY <1>1 DEF Shapes, startAttestation, Blank
  <1>5. Shapes'
    BY <1>1, <1>2, Consts DEF Shapes, startAttestation, Status, Timer, Forwarded
  <1>6. Together'
    BY <1>1, <1>3, <1>4 DEF Together
  <1>7. \A q \in Prover : Lasting(q)'
    <2>1. Lasting(p)'
      BY <1>1, <1>2, <1>3, <1>4 DEF Lasting, Blank, Elapsed
    <2>2. ASSUME NEW q \in Prover, q # p
          PROVE  Lasting(q)'
      <3>1. Lasting(q)
        BY DEF PeriodsInv
      <3>. QED
        BY <1>3, <1>4, <2>2, <3>1 DEF Lasting, Blank, Elapsed
    <2>. QED
      BY <2>1, <2>2
  <1>8. Opening'
    <2>1. CASE p = root
      BY <1>1, <1>2, <1>3, <2>1 DEF Opening, Elapsed
    <2>2. CASE p # root
      BY <1>1, <1>3, <1>4, <2>2, Consts DEF Opening, Elapsed
    <2>. QED
      BY <2>1, <2>2
  <1>9. Expired'
    <2>1. CASE p = root
      <3>1. Elapsed(root)' = 0 /\ \A m \in net : m.ttl \in 0..MaxDelay
        BY <1>1, <1>2, <1>3, <1>4, <2>1, ShapeFacts DEF Elapsed
      <3>. QED
        BY <1>2, <1>3, <3>1 DEF Expired
    <2>2. CASE p # root
      BY <1>1, <1>3, <1>4, <2>2, Consts DEF Expired, Elapsed
    <2>. QED
      BY <2>1, <2>2
  <1>10. \A m \in net' : Pending(m)'
    <2>. SUFFICES ASSUME NEW m \in net PROVE Pending(m)'
      BY <1>3
    <2>1. Pending(m) /\ (m.kind \in Answers => Child(m) \in Prover /\ Parent(m) \in Prover)
      BY <1>1, ShapeFacts DEF PeriodsInv
    <2>. QED
      BY <1>3, <1>4, <2>1, Consts DEF Pending, Blank, Child, Parent
  <1>11. OneAnswer'
    BY <1>1, <1>3 DEF OneAnswer, Child
  <1>. QED
    BY <1>5, <1>6, <1>7, <1>8, <1>9, <1>10, <1>11 DEF PeriodsInv

\* A check ends.
LEMMA CheckPeriods ==
  ASSUME ChecksTimed, PeriodsInv, NEW p \in Prover, checkSoftConfig(p)
  PROVE  PeriodsInv'
  <1>1. Shapes /\ Together /\ Lasting(p) /\ Opening /\ Expired /\ OneAnswer
    BY DEF PeriodsInv
  <1>2. /\ check[p] = 0 /\ check[p] # Off /\ check' = [check EXCEPT ![p] = Off]
        /\ status' = [status EXCEPT ![p] = "READY"] /\ mktree' = (mktree \/ p = root)
        /\ UNCHANGED <<links, pfirst, psecond, csess, aggreport, attest, cackto, crespto, net>>
    BY DEF checkSoftConfig, sessions, Off
  <1>3. Blank(p) /\ Elapsed(p) = firmware[p]
    BY <1>1, <1>2, ClockFacts DEF Lasting
  <1>4. /\ \A q \in Prover \ {p} : status'[q] = status[q] /\ check'[q] = check[q]
        /\ status'[p] = "READY" /\ check'[p] = Off
    BY <1>1, <1>2 DEF Shapes
  <1>5. Shapes'
    BY <1>1, <1>2, Consts DEF Shapes, Status, Timer, Forwarded
  <1>6. \A q \in Prover : Lasting(q)'
    <2>1. Lasting(p)'
      BY <1>1, <1>2, <1>3, <1>4, ClockFacts, Consts DEF Lasting, Blank, Elapsed
    <2>2. ASSUME NEW q \in Prover, q # p
          PROVE  Lasting(q)'
      <3>1. Lasting(q)
        BY DEF PeriodsInv
      <3>. QED
        BY <1>2, <1>4, <2>2, <3>1 DEF Lasting, Blank, Elapsed
    <2>. QED
      BY <2>1, <2>2
  <1>7. Together' /\ OneAnswer' /\ \A m \in net' : Pending(m)'
    BY <1>1, <1>2 DEF PeriodsInv, Together, OneAnswer, Pending, Child, Parent
  <1>8. Opening'
    BY <1>1, <1>2, <1>3, <1>4, Consts DEF Opening, Blank, Elapsed
  <1>9. Expired'
    BY <1>1, <1>2, <1>4, Consts DEF Expired, Elapsed
  <1>. QED
    BY <1>5, <1>6, <1>7, <1>8, <1>9 DEF PeriodsInv

\* A prover reports and leaves its tree.
LEMMA ReportPeriods ==
  ASSUME ChecksTimed, PeriodsInv, NEW p \in Prover, NEW first \in Dev, NEW t \in TreeId,
         NEW cs \in SUBSET Dev, NEW recs \in SUBSET Prover, NEW rest \in SUBSET net,
         sendUpReq(p, first, t, cs, recs, rest),
         UNCHANGED <<links, attest, check, mktree, period>>,
         check[p] = Off, Elapsed(p) >= firmware[p],
         \/ UNCHANGED cackto
         \/ /\ cackto' = [cackto EXCEPT ![p].t = Off]
            /\ \A m \in rest : m.kind \in Answers => Child(m) # p,
         UNCHANGED crespto \/ crespto' = [crespto EXCEPT ![p].t = Off]
  PROVE  PeriodsInv'
  <1>1. Shapes /\ Lasting(p) /\ Opening /\ OneAnswer
    BY DEF PeriodsInv
  <1>2. PICK u : u = UpdateReq(p, first, t, recs \cup {p})
    OBVIOUS
  <1>3. /\ aggreport' = [aggreport EXCEPT ![p] = recs \cup {p}]
        /\ net' = rest \cup {u}
        /\ csess' = [csess EXCEPT ![p] = cs \ {NOID}]
        /\ pfirst' = [pfirst EXCEPT ![p] = NOID]
        /\ psecond' = [psecond EXCEPT ![p] = Null]
        /\ status' = [status EXCEPT ![p] = "FINISHED"]
    BY <1>2 DEF sendUpReq
  <1>4. u \in Frame /\ u.kind \in {"UPRQ", "UPRQC"}
    <2>1. MaxDelay \in 0..MaxDelay /\ recs \cup {p} \in SUBSET Prover
      BY Consts
    <2>2. CASE first = NOID
      BY <1>2, <2>1, <2>2 DEF UpdateReq, Frame
    <2>3. CASE first # NOID
      BY <1>2, <2>1, <2>3 DEF UpdateReq, Frame, Dev
    <2>. QED
      BY <2>2, <2>3
  <1>5. /\ cackto' \in [Prover -> [dev : Dev, t : Timer]]
        /\ \A q \in Prover \ {p} : cackto'[q] = cackto[q]
        /\ cackto'[p].dev = cackto[p].dev /\ cackto'[p].t \in {cackto[p].t, Off}
    BY <1>1 DEF Shapes, Timer
  <1>6. /\ crespto' \in [Prover -> [treeID : TreeId \cup {NOID}, t : Timer]]
        /\ \A q \in Prover \ {p} : crespto'[q] = crespto[q]
        /\ crespto'[p].treeID = crespto[p].treeID /\ crespto'[p].t \in {crespto[p].t, Off}
    BY <1>1 DEF Shapes, Timer
  <1>7. /\ \A q \in Prover \ {p} : Same(q)
        /\ status'[p] = "FINISHED" /\ pfirst'[p] = NOID /\ NOID \notin csess'[p]
    BY <1>1, <1>3, <1>5, <1>6 DEF Shapes, Same
  <1>8. Shapes'
    <2>1. \A m \in net' : m \in Frame \/ Forwarded(m)
      BY <1>1, <1>3, <1>4 DEF Shapes
    <2>2. /\ status' \in [Prover -> Status] /\ pfirst' \in [Prover -> Dev]
          /\ psecond' \in [Prover -> Session \cup {Null}] /\ csess' \in [Prover -> SUBSET Dev]
          /\ aggreport' \in [Prover -> SUBSET Prover]
      BY <1>1, <1>3, Consts DEF Shapes, Status
    <2>. QED
      BY <1>1, <1>5, <1>6, <2>1, <2>2 DEF Shapes, Forwarded
  <1>9. Lasting(p)'
    BY <1>1, <1>5, <1>6, <1>7 DEF Lasting, Elapsed
  <1>10. mktree' => mktree /\ pfirst'[root] = NOID
    BY <1>1, <1>7, Consts DEF Opening, Same
  <1>11. \A m \in net' \ net : m.kind \notin Handshake /\ m.kind \notin Answers
    BY <1>3, <1>4 DEF Handshake, Answers
  <1>12. \A m \in net' : m.kind \in Answers => (m \in net /\ Child(m) # p) \/ Pending(m)'
    <2>. SUFFICES ASSUME NEW m \in net', m.kind \in Answers, Child(m) = p, UNCHANGED cackto,
                         m \in net
                  PROVE  Pending(m)'
      BY <1>3, <1>4 DEF Answers
    <2>1. Pending(m) /\ Parent(m) \in Prover
      BY <1>1, ShapeFacts DEF PeriodsInv
    <2>. QED
      BY <1>7, <2>1, Consts DEF Pending
  <1>13. OneAnswer'
    BY <1>1, <1>11, FewerAnswers
  <1>. QED
    BY <1>7, <1>8, <1>9, <1>10, <1>11, <1>12, <1>13, StepKept

\* A prover opens a tree of its own.
LEMMA OwnTree ==
  ASSUME NEW p \in Prover, NEW second, NEW tid, NEW rest,
         sendCommitReq(p, NOID, second, tid, rest)
  PROVE  \E t \in TreeId :
            /\ status' = [status EXCEPT ![p] = "CREATING"]
            /\ pfirst' = [pfirst EXCEPT ![p] = NOID]
            /\ psecond' = [psecond EXCEPT ![p] = [treeID |-> t, depth |-> maxdepth]]
            /\ csess' = [csess EXCEPT ![p] = @ \cup {NOID}]
            /\ awaitResponses(p, t)
            /\ net' = rest \cup {[kind |-> "CMRQ", source |-> p, destination |-> q,
                                  depth |-> maxdepth, treeID |-> t, ttl |-> MaxDelay] :
                                    q \in Neighbours(p)}
            /\ UNCHANGED aggreport
  BY DEF sendCommitReq

\* A prover opens its part of a tree.
LEMMA OpenPeriods ==
  ASSUME ChecksTimed, PeriodsInv, NEW p \in Prover, NEW first \in Dev, NEW second, NEW tid,
         NEW rest \in SUBSET net, sendCommitReq(p, first, second, tid, rest),
         first # NOID => second \in Session /\ second.treeID = tid /\ second.depth # 1,
         UNCHANGED <<links, attest, check, period>>,
         mktree' \in BOOLEAN, mktree' => mktree /\ (p = root => first = NOID),
         check[p] = Off, Elapsed(p) >= firmware[p],
         check[root] # Off \/ mktree' => Elapsed(root) = 0,
         cackto' \in [Prover -> [dev : Dev, t : Timer]],
         \A q \in Prover \ {p} : cackto'[q] = cackto[q],
         cackto'[p].t # Off => cackto'[p] = cackto[p],
         first # NOID => cackto'[p].t = Off,
         \A m \in rest : m.kind \in Answers => Child(m) # p
  PROVE  PeriodsInv'
  <1>1. Shapes /\ Lasting(p) /\ Opening /\ OneAnswer
    BY DEF PeriodsInv
  <1>2. PICK t, sess, depth :
           /\ sess \in Session /\ sess.treeID = t /\ depth \in 1..maxdepth
           /\ status' = [status EXCEPT ![p] = "CREATING"]
           /\ pfirst' = [pfirst EXCEPT ![p] = first]
           /\ psecond' = [psecond EXCEPT ![p] = sess]
           /\ csess' = [csess EXCEPT ![p] = @ \cup {NOID}]
           /\ awaitResponses(p, t)
           /\ net' = rest \cup {[kind |-> "CMRQ", source |-> p, destination |-> q,
                                 depth |-> depth, treeID |-> t, ttl |-> MaxDelay] :
                                   q \in Neighbours(p)}
           /\ UNCHANGED aggreport
    <2>1. maxdepth \in 1..maxdepth
      BY Consts
    <2>2. CASE first = NOID
      <3>0. sendCommitReq(p, NOID, second, tid, rest)
        BY <2>2
      <3>1. PICK t \in TreeId :
               /\ status' = [status EXCEPT ![p] = "CREATING"]
               /\ pfirst' = [pfirst EXCEPT ![p] = NOID]
               /\ psecond' = [psecond EXCEPT ![p] = [treeID |-> t, depth |-> maxdepth]]
               /\ csess' = [csess EXCEPT ![p] = @ \cup {NOID}]
               /\ awaitResponses(p, t)
               /\ net' = rest \cup {[kind |-> "CMRQ", source |-> p, destination |-> q,
                                     depth |-> maxdepth, treeID |-> t, ttl |-> MaxDelay] :
                                       q \in Neighbours(p)}
               /\ UNCHANGED aggreport
        BY <3>0, OwnTree
      <3>2. PICK sess : sess = [treeID |-> t, depth |-> maxdepth]
        OBVIOUS
      <3>3. sess \in Session /\ sess.treeID = t
        BY <2>1, <3>2 DEF Session
      <3>. WITNESS t, sess, maxdepth
      <3>. QED
        BY <2>1, <2>2, <3>1, <3>2, <3>3
    <2>3. CASE first # NOID
      <3>1. PICK depth : depth = childDepth(second)
        OBVIOUS
      <3>2. depth \in 1..maxdepth
        BY <2>3, <3>1, Consts DEF Session, childDepth
      <3>. WITNESS tid, second, depth
      <3>. QED
        BY <2>3, <3>1, <3>2 DEF sendCommitReq
    <2>. QED
      BY <2>2, <2>3
  <1>3. t \in TreeId /\ timeoutresp \in Timer
    BY <1>2, Consts DEF Session, Timer
  <1>4. /\ crespto' \in [Prover -> [treeID : TreeId \cup {NOID}, t : Timer]]
        /\ \A q \in Prover \ {p} : crespto'[q] = crespto[q]
        /\ crespto'[p].treeID = t
    BY <1>1, <1>2, <1>3 DEF Shapes, awaitResponses
  <1>5. /\ \A q \in Prover \ {p} : Same(q)
        /\ status'[p] = "CREATING" /\ pfirst'[p] = first /\ psecond'[p] = sess
    BY <1>1, <1>2, <1>4 DEF Shapes, Same
  <1>6. \A m \in net' \ rest :
           m \in Frame /\ m.kind = "CMRQ" /\ m.ttl = MaxDelay
    <2>1. MaxDelay \in 0..MaxDelay /\ Neighbours(p) \subseteq Prover
      BY Consts DEF Neighbours
    <2>. QED
      BY <1>2, <1>3, <2>1 DEF Frame
  <1>7. Shapes'
    <2>1. \A m \in net' : m \in Frame \/ Forwarded(m)
      BY <1>1, <1>6 DEF Shapes
    <2>2. /\ status' \in [Prover -> Status] /\ pfirst' \in [Prover -> Dev]
          /\ psecond' \in [Prover -> Session \cup {Null}] /\ csess' \in [Prover -> SUBSET Dev]
      BY <1>1, <1>2, Consts DEF Shapes, Status
    <2>. QED
      BY <1>1, <1>2, <1>4, <2>1, <2>2 DEF Shapes, Forwarded
  <1>8. Lasting(p)'
    BY <1>1, <1>2, <1>3, <1>4, <1>5 DEF Lasting, Elapsed
  <1>9. mktree' => mktree /\ pfirst'[root] = NOID
    BY <1>1, <1>5, Consts DEF Opening, Same
  <1>10. \A m \in net' \ net : m.kind \in Handshake /\ (check[root] # Off \/ mktree')
                                  => m.ttl + Elapsed(root) <= MaxDelay
    BY <1>6, Consts
  <1>11. \A m \in net' : m.kind \in Answers => (m \in net /\ Child(m) # p) \/ Pending(m)'
    BY <1>6 DEF Answers
  <1>12. OneAnswer'
    BY <1>1, <1>6, FewerAnswers DEF Answers
  <1>. QED
    BY <1>5, <1>7, <1>8, <1>9, <1>10, <1>11, <1>12, StepKept

\* The root has no parent when it opens a tree, and no answer to take back.
LEMMA MkTreePeriods ==
  ASSUME AckInTime, ChecksTimed, PeriodsInv, mkTree
  PROVE  PeriodsInv'
  <1>1. /\ Shapes /\ Lasting(root) /\ Opening /\ Expired /\ OneAnswer /\ mktree /\ ~mktree'
        /\ mktree' \in BOOLEAN
        /\ UNCHANGED <<links, attest, check, cackto, collected, period>>
    BY Consts DEF PeriodsInv, mkTree
  <1>2. /\ pfirst[root] = NOID /\ check[root] = Off
        /\ Elapsed(root) = firmware[root] /\ Elapsed(root) >= firmware[root]
    BY <1>1, ClockFacts, Consts DEF Opening
  <1>3. \A m \in net : m.kind \notin Handshake
    <2>. SUFFICES ASSUME NEW m \in net, m.kind \in Handshake PROVE FALSE
      OBVIOUS
    <2>. QED
      BY <1>1, <1>2, AtStart, Consts
  <1>4. CASE status[root] = "ATTESTING"
    <2>1. /\ status' = [status EXCEPT ![root] = "ATTESTING_CREATING"]
          /\ UNCHANGED <<pfirst, psecond, csess, aggreport, crespto, net>>
      BY <1>4 DEF mkTree, sessions
    <2>2. /\ \A q \in Prover \ {root} : Same(q)
          /\ status'[root] = "ATTESTING_CREATING"
      BY <1>1, <2>1, Consts DEF Shapes, Same
    <2>3. Shapes'
      BY <1>1, <2>1 DEF Shapes, Status, Forwarded
    <2>4. Lasting(root)'
      BY <1>1, <1>2, <2>1, <2>2 DEF Lasting, Blank, Elapsed
    <2>5. OneAnswer' /\ \A m \in net' : m.kind \notin Answers
      BY <1>1, <1>3, <2>1 DEF OneAnswer, Child, Handshake
    <2>. QED
      BY <1>1, <2>1, <2>2, <2>3, <2>4, <2>5, StepKept, Consts
  <1>5. CASE status[root] # "ATTESTING"
    <2>1. sendCommitReq(root, NOID, psecond[root], NOID, net)
      BY <1>2, <1>5 DEF mkTree
    <2>2. /\ \A m \in net : m.kind \in Answers => Child(m) # root
          /\ cackto' \in [Prover -> [dev : Dev, t : Timer]] /\ cackto'[root] = cackto[root]
          /\ \A q \in Prover \ {root} : cackto'[q] = cackto[q]
      BY <1>1, <1>3 DEF Handshake, Shapes
    <2>. QED
      BY <1>1, <1>2, <2>1, <2>2, OpenPeriods, Consts
  <1>. QED
    BY <1>4, <1>5

\* The timeout for an ack: no answer of the prover is on its way, so that none
\* is left when it accepts another invitation.
LEMMA AckTimeOutPeriods ==
  ASSUME AckInTime, ChecksTimed, PeriodsInv, NEW p \in Prover, handleCommitAckTimeOut(p)
  PROVE  PeriodsInv'
  <1>1. Shapes /\ Lasting(p) /\ Opening /\ OneAnswer
    BY DEF PeriodsInv
  <1>2. /\ cackto[p].t = 0 /\ cackto[p].t # Off
        /\ cackto' = [cackto EXCEPT ![p].t = Off]
        /\ UNCHANGED <<links, attest, check, mktree, collected, period>>
    BY DEF handleCommitAckTimeOut, Off
  <1>3. cackto[p].dev \in Prover /\ cackto[p].dev # NOID
    BY <1>1, <1>2, Consts DEF Lasting
  <1>4. /\ cackto' \in [Prover -> [dev : Dev, t : Timer]]
        /\ \A q \in Prover \ {p} : cackto'[q] = cackto[q]
        /\ cackto'[p].t = Off
    BY <1>1, <1>2 DEF Shapes, Timer
  <1>5. \A m \in net : m.kind \in Answers => Child(m) # p
    BY <1>2, NoAnswer
  <1>6. CASE cackto[p].dev # pfirst[p]
    <2>1. UNCHANGED <<status, pfirst, psecond, csess, aggreport, crespto, net>>
      BY <1>6 DEF handleCommitAckTimeOut, sessions
    <2>2. \A q \in Prover \ {p} : Same(q)
      BY <1>2, <1>4, <2>1 DEF Same
    <2>3. Shapes'
      BY <1>1, <1>2, <1>4, <2>1 DEF Shapes, Forwarded
    <2>4. Lasting(p)'
      BY <1>1, <1>2, <1>4, <2>1 DEF Lasting, Blank, Elapsed
    <2>5. mktree' => mktree /\ pfirst'[root] = NOID
      BY <1>1, <1>2, <2>1 DEF Opening
    <2>6. OneAnswer'
      BY <1>1, <2>1 DEF OneAnswer, Child
    <2>. QED
      BY <1>2, <1>5, <2>1, <2>2, <2>3, <2>4, <2>5, <2>6, StepKept
  <1>7. CASE cackto[p].dev = pfirst[p] /\ status[p] = "ATTESTING_CREATING"
    <2>1. sendCommitReq(p, NOID, Null, NOID, net)
      BY <1>7 DEF handleCommitAckTimeOut
    <2>2. /\ p = root /\ check[p] = Off /\ Elapsed(p) >= firmware[p]
          /\ ~mktree /\ mktree' \in BOOLEAN
      BY <1>1, <1>2, <1>3, <1>7 DEF Lasting, Blank, Opening, Shapes
    <2>. QED
      BY <1>2, <1>4, <1>5, <2>1, <2>2, OpenPeriods, Consts
  <1>8. CASE cackto[p].dev = pfirst[p] /\ status[p] # "ATTESTING_CREATING"
    <2>1. /\ status' = [status EXCEPT ![p] = "READY"]
          /\ pfirst' = [pfirst EXCEPT ![p] = NOID]
          /\ psecond' = [psecond EXCEPT ![p] = Null]
          /\ UNCHANGED <<csess, aggreport, crespto, net>>
      BY <1>8 DEF handleCommitAckTimeOut
    <2>2. /\ \A q \in Prover \ {p} : Same(q)
          /\ status'[p] = "READY" /\ pfirst'[p] = NOID
      BY <1>1, <1>2, <1>4, <2>1 DEF Shapes, Same
    <2>3. Shapes'
      BY <1>1, <1>2, <1>4, <2>1, Consts DEF Shapes, Status, Forwarded
    <2>4. Lasting(p)'
      BY <1>1, <1>2, <1>3, <1>4, <1>8, <2>1, <2>2 DEF Lasting, Blank, Elapsed
    <2>5. mktree' => mktree /\ pfirst'[root] = NOID
      BY <1>1, <1>2, <2>2, Consts DEF Opening, Same
    <2>6. OneAnswer'
      BY <1>1, <2>1 DEF OneAnswer, Child
    <2>. QED
      BY <1>2, <1>5, <2>1, <2>2, <2>3, <2>4, <2>5, <2>6, StepKept
  <1>. QED
    BY <1>6, <1>7, <1>8

\* The timeout for responses, of this tree or left behind by the last one.
LEMMA RespTimeOutPeriods ==
  ASSUME ChecksTimed, PeriodsInv, NEW p \in Prover, handleCommitRespTimeOut(p)
  PROVE  PeriodsInv'
  <1>1. Shapes /\ Lasting(p) /\ Opening /\ OneAnswer
    BY DEF PeriodsInv
  <1>2. /\ crespto[p].t = 0 /\ crespto[p].t # Off
        /\ crespto' = [crespto EXCEPT ![p].t = Off]
        /\ UNCHANGED <<links, attest, check, mktree, cackto, collected, period>>
    BY DEF handleCommitRespTimeOut, Off
  <1>3. CASE Cardinality(csess[p]) = 1
    <2>1. csess[p] # {}
      BY <1>3, FS_EmptySet
    <2>2. check[p] = Off /\ Elapsed(p) >= firmware[p] /\ crespto[p].treeID \in TreeId
      BY <1>1, <1>2, <2>1 DEF Lasting, Blank
    <2>3. sendUpReq(p, pfirst[p], crespto[p].treeID, csess[p], aggreport[p], net)
      BY <1>3 DEF handleCommitRespTimeOut
    <2>4. /\ pfirst[p] \in Dev /\ csess[p] \in SUBSET Dev /\ aggreport[p] \in SUBSET Prover
          /\ net \in SUBSET net
      BY <1>1 DEF Shapes
    <2>. QED
      BY <1>2, <2>2, <2>3, <2>4, ReportPeriods
  <1>4. CASE Cardinality(csess[p]) # 1
    <2>1. /\ status' = [status EXCEPT ![p] = "COLLECTING"]
          /\ UNCHANGED <<pfirst, psecond, csess, aggreport, net>>
      BY <1>4 DEF handleCommitRespTimeOut, sessions
    <2>2. /\ crespto' \in [Prover -> [treeID : TreeId \cup {NOID}, t : Timer]]
          /\ \A q \in Prover \ {p} : crespto'[q] = crespto[q]
          /\ crespto'[p].t = Off
      BY <1>1, <1>2 DEF Shapes, Timer
    <2>3. /\ \A q \in Prover \ {p} : Same(q)
          /\ status'[p] = "COLLECTING"
      BY <1>1, <1>2, <2>1, <2>2 DEF Shapes, Same
    <2>4. Shapes'
      BY <1>1, <1>2, <2>1, <2>2 DEF Shapes, Status, Forwarded
    <2>5. Lasting(p)'
      BY <1>1, <1>2, <2>1, <2>2, <2>3 DEF Lasting, Blank, Elapsed
    <2>6. mktree' => mktree /\ pfirst'[root] = NOID
      BY <1>1, <1>2, <2>1 DEF Opening
    <2>7. OneAnswer' /\ \A m \in net' : Pending(m)'
      BY <1>1, <1>2, <2>1 DEF PeriodsInv, OneAnswer, Pending, Child, Parent
    <2>. QED
      BY <1>2, <2>1, <2>3, <2>4, <2>5, <2>6, <2>7, StepKept
  <1>. QED
    BY <1>3, <1>4

\* Frames are taken away and nothing else happens to the provers.
LEMMA TakePeriods ==
  ASSUME ChecksTimed, PeriodsInv, net' \subseteq net,
         UNCHANGED <<links, status, pfirst, psecond, csess, aggreport, attest, check,
                     mktree, cackto, crespto>>
  PROVE  PeriodsInv'
  <1>1. Shapes' /\ Together' /\ Opening' /\ Expired'
    BY DEF PeriodsInv, Shapes, Forwarded, Together, Opening, Expired, Elapsed
  <1>2. \A q \in Prover : Lasting(q)'
    BY DEF PeriodsInv, Lasting, Blank, Elapsed
  <1>3. OneAnswer' /\ \A m \in net' : Pending(m)'
    BY DEF PeriodsInv, OneAnswer, Pending, Child, Parent
  <1>. QED
    BY <1>1, <1>2, <1>3 DEF PeriodsInv

\* An invitation: the timeout for the last ack is not pending, so that nothing
\* of the last handshake is left.
LEMMA CommitReqPeriods ==
  ASSUME AckInTime, ChecksTimed, PeriodsInv, NEW p \in Prover, NEW m \in net,
         m.destination = p, handleCommitReq(p, m),
         UNCHANGED <<links, attest, check, mktree, period>>
  PROVE  PeriodsInv'
  <1>1. Shapes /\ Lasting(p) /\ Opening /\ OneAnswer
    BY DEF PeriodsInv
  <1>2. m.kind = "CMRQ" /\ m \in Frame /\ UNCHANGED <<csess, aggreport, crespto>>
    BY <1>1, ShapeFacts DEF handleCommitReq, Handshake
  <1>3. CASE status[p] # "READY"
    <2>1. net' = net \ {m} /\ UNCHANGED <<pfirst, psecond, status, cackto>>
      BY <1>3 DEF handleCommitReq
    <2>. QED
      BY <1>2, <2>1, TakePeriods
  <1>4. CASE status[p] = "READY"
    <2>1. PICK r : r = [kind |-> "CMRP", source |-> p, destination |-> m.source,
                        treeID |-> m.treeID, ttl |-> MaxDelay]
      OBVIOUS
    <2>2. /\ pfirst' = [pfirst EXCEPT ![p] = m.source]
          /\ psecond' = [psecond EXCEPT ![p] = [treeID |-> m.treeID, depth |-> m.depth]]
          /\ status' = [status EXCEPT ![p] = "ATTESTING"]
          /\ net' = (net \ {m}) \cup {r}
          /\ cackto' = [cackto EXCEPT ![p] = [dev |-> m.source, t |-> timeoutack]]
          /\ cackto[p].t = Off
      BY <1>4, <2>1 DEF handleCommitReq, ackScheduled
    <2>3. /\ m.source \in Prover /\ m.treeID \in TreeId /\ m.depth \in 1..maxdepth
          /\ m.source \in Dev /\ m.source # NOID /\ timeoutack \in Timer
      BY <1>2, FrameFacts, Consts DEF Timer
    <2>4. PICK sess : sess = [treeID |-> m.treeID, depth |-> m.depth]
      OBVIOUS
    <2>5. sess \in Session /\ sess.treeID = m.treeID
      BY <2>3, <2>4 DEF Session
    <2>6. /\ r \in Frame /\ r.kind = "CMRP" /\ r.source = p /\ r.destination = m.source
          /\ r.treeID = m.treeID /\ r.ttl = MaxDelay
      <3>1. MaxDelay \in 0..MaxDelay
        BY Consts
      <3>. QED
        BY <2>1, <2>3, <3>1 DEF Frame
    <2>7. /\ \A q \in Prover \ {p} : Same(q)
          /\ status'[p] = "ATTESTING" /\ pfirst'[p] = m.source /\ psecond'[p] = sess
          /\ cackto'[p].dev = m.source /\ cackto'[p].t = timeoutack
      BY <1>1, <1>2, <2>2, <2>4 DEF Shapes, Same
    <2>8. Shapes'
      <3>1. \A n \in net' : n \in Frame \/ Forwarded(n)
        BY <1>1, <2>2, <2>6 DEF Shapes
      <3>2. /\ status' \in [Prover -> Status] /\ pfirst' \in [Prover -> Dev]
            /\ psecond' \in [Prover -> Session \cup {Null}]
        BY <1>1, <2>2, <2>3, <2>4, <2>5 DEF Shapes, Status
      <3>3. cackto' \in [Prover -> [dev : Dev, t : Timer]]
        BY <1>1, <2>2, <2>3 DEF Shapes
      <3>. QED
        BY <1>1, <1>2, <3>1, <3>2, <3>3 DEF Shapes, Forwarded
    <2>9. Lasting(p)'
      BY <1>1, <1>2, <1>4, <2>3, <2>5, <2>7, Consts DEF Lasting, Elapsed, Blank
    <2>10. Elapsed(p) >= firmware[p]
      BY <1>1, <1>4 DEF Lasting
    <2>11. check[root] # Off \/ mktree => ~mktree /\ Elapsed(root) = 0
      BY <1>2, <2>10, AtStart DEF Handshake
    <2>12. \A n \in net : n.kind \in Answers => Child(n) # p
      BY <2>2, NoAnswer
    <2>13. Pending(r)'
      BY <2>5, <2>6, <2>7, Consts DEF Pending, Child, Answers
    <2>14. OneAnswer'
      BY <1>1, <2>2, <2>6, <2>12 DEF OneAnswer, Child, Answers
    <2>15. \A n \in net' : n.kind \in Answers => (n \in net /\ Child(n) # p) \/ Pending(n)'
      BY <2>2, <2>12, <2>13
    <2>16. \A n \in net' \ net : n.kind \in Handshake /\ (check[root] # Off \/ mktree')
                                    => n.ttl + Elapsed(root) <= MaxDelay
      BY <2>2, <2>6, <2>11, Consts
    <2>. QED
      BY <2>7, <2>8, <2>9, <2>11, <2>14, <2>15, <2>16, StepKept
  <1>. QED
    BY <1>3, <1>4

\* The ack: it is the only answer of this prover, and for the tree it accepted.
LEMMA CommitAckPeriods ==
  ASSUME AckInTime, ChecksTimed, PeriodsInv, NEW p \in Prover, NEW m \in net,
         m.destination = p, handleCommitAck(p, m),
         UNCHANGED <<links, attest, check, mktree, period>>
  PROVE  PeriodsInv'
  <1>1. Shapes /\ Lasting(p) /\ Opening /\ OneAnswer /\ Pending(m)
    BY DEF PeriodsInv
  <1>2. PICK rest : rest = net \ {m}
    OBVIOUS
  <1>3. /\ m.kind = "CMAK" /\ m \in Frame /\ m.kind \in Answers
        /\ Child(m) = p /\ Parent(m) = m.source
        /\ m.source \in Prover /\ m.source # NOID /\ m.source \in Dev /\ m.treeID \in TreeId
    BY <1>1, ShapeFacts, Consts DEF handleCommitAck, Handshake, Answers, Child, Parent
  <1>4. CASE pfirst[p] # m.source
    <2>1. net' = rest /\ UNCHANGED <<status, pfirst, psecond, csess, aggreport, cackto, crespto>>
      BY <1>2, <1>4 DEF handleCommitAck, sessions
    <2>. QED
      BY <1>2, <2>1, TakePeriods
  <1>5. CASE pfirst[p] = m.source
    <2>1. cackto' = [cackto EXCEPT ![p].t = Off]
      BY <1>5 DEF handleCommitAck, acked
    <2>2. /\ cackto' \in [Prover -> [dev : Dev, t : Timer]] /\ cackto'[p].t = Off
          /\ \A q \in Prover \ {p} : cackto'[q] = cackto[q]
      BY <1>1, <2>1 DEF Shapes, Timer
    <2>3. /\ psecond[p] \in Session /\ psecond[p].treeID = m.treeID
          /\ check[p] = Off /\ Elapsed(p) >= firmware[p]
      BY <1>1, <1>3, <1>5 DEF Lasting, Blank, Pending
    <2>4. \A n \in rest : n.kind \in Answers => Child(n) # p
      BY <1>1, <1>2, <1>3 DEF OneAnswer
    <2>5. rest \in SUBSET net /\ csess[p] \in SUBSET Dev /\ aggreport[p] \in SUBSET Prover
      BY <1>1, <1>2 DEF Shapes
    <2>6. CASE psecond[p].depth = 1
      <3>1. /\ sendUpReq(p, m.source, m.treeID, csess[p], aggreport[p], rest)
            /\ UNCHANGED crespto
        BY <1>2, <1>5, <2>6 DEF handleCommitAck
      <3>. QED
        BY <1>3, <2>1, <2>3, <2>4, <2>5, <3>1, ReportPeriods
    <2>7. CASE psecond[p].depth # 1
      <3>1. sendCommitReq(p, m.source, psecond[p], m.treeID, rest)
        BY <1>2, <1>5, <2>7 DEF handleCommitAck
      <3>2. check[root] # Off \/ mktree' => ~mktree' /\ Elapsed(root) = 0
        BY <1>3, <2>3, AtStart DEF Handshake
      <3>3. mktree' \in BOOLEAN
        BY <1>1 DEF Shapes
      <3>. QED
        BY <1>3, <2>2, <2>3, <2>4, <2>5, <2>7, <3>1, <3>2, <3>3, OpenPeriods
    <2>. QED
      BY <2>6, <2>7
  <1>. QED
    BY <1>4, <1>5

\* A response: the ack takes its place.
LEMMA CommitRespPeriods ==
  ASSUME ChecksTimed, PeriodsInv, NEW p \in Prover, NEW m \in net,
         m.destination = p, handleCommitResp(p, m),
         UNCHANGED <<links, attest, check, mktree, period>>
  PROVE  PeriodsInv'
  <1>1. Shapes /\ Lasting(p) /\ Opening /\ OneAnswer /\ Pending(m)
    BY DEF PeriodsInv
  <1>2. /\ m.kind = "CMRP" /\ m \in Frame /\ m.kind \in Answers
        /\ Child(m) = m.source /\ Parent(m) = p
        /\ m.source \in Prover /\ m.source # NOID /\ m.treeID \in TreeId
        /\ m.ttl \in 0..MaxDelay
        /\ UNCHANGED <<pfirst, psecond, aggreport, cackto>>
    BY <1>1, ShapeFacts, Consts DEF handleCommitResp, Handshake, Answers, Child, Parent
  <1>3. PICK accept, full :
           /\ accept = (status[p] = "CREATING" /\ hasRoom(p) /\ m.source \notin csess[p])
           /\ full = (Cardinality(csess[p]) = MAXCHILDREN)
    OBVIOUS
  <1>4. CASE ~accept
    <2>1. net' = net \ {m} /\ UNCHANGED <<csess, status, crespto>>
      BY <1>3, <1>4 DEF handleCommitResp
    <2>. QED
      BY <1>2, <2>1, TakePeriods
  <1>5. CASE accept
    <2>1. PICK k : k = [kind |-> "CMAK", source |-> p, destination |-> m.source,
                        treeID |-> m.treeID, ttl |-> MaxDelay]
      OBVIOUS
    <2>2. /\ csess' = [csess EXCEPT ![p] = @ \cup {m.source}]
          /\ net' = (net \ {m}) \cup {k}
          /\ status' = IF full THEN [status EXCEPT ![p] = "COLLECTING"] ELSE status
          /\ crespto' = IF full THEN [crespto EXCEPT ![p].t = Off] ELSE crespto
          /\ status[p] = "CREATING" /\ csess[p] # {}
      BY <1>3, <1>5, <2>1 DEF handleCommitResp, hasRoom
    <2>3. /\ k \in Frame /\ k.kind = "CMAK" /\ k.source = p /\ k.destination = m.source
          /\ k.treeID = m.treeID /\ k.ttl = MaxDelay
      <3>1. MaxDelay \in 0..MaxDelay
        BY Consts
      <3>. QED
        BY <1>2, <2>1, <3>1 DEF Frame
    <2>4. /\ crespto' \in [Prover -> [treeID : TreeId \cup {NOID}, t : Timer]]
          /\ \A q \in Prover \ {p} : crespto'[q] = crespto[q]
          /\ crespto'[p].treeID = crespto[p].treeID /\ crespto'[p].t \in {crespto[p].t, Off}
      BY <1>1, <2>2 DEF Shapes, Timer
    <2>5. /\ status' \in [Prover -> Status] /\ status'[p] \in {"CREATING", "COLLECTING"}
          /\ \A q \in Prover \ {p} : status'[q] = status[q]
      BY <1>1, <2>2 DEF Shapes, Status
    <2>6. /\ csess' \in [Prover -> SUBSET Dev] /\ csess'[p] = csess[p] \cup {m.source}
          /\ \A q \in Prover \ {p} : csess'[q] = csess[q]
      BY <1>1, <1>2, <2>2, Consts DEF Shapes
    <2>7. \A q \in Prover \ {p} : Same(q)
      BY <1>2, <2>4, <2>5, <2>6 DEF Same
    <2>8. Shapes'
      <3>1. \A n \in net' : n \in Frame \/ Forwarded(n)
        BY <1>1, <2>2, <2>3 DEF Shapes
      <3>. QED
        BY <1>1, <1>2, <2>4, <2>5, <2>6, <3>1 DEF Shapes, Forwarded
    <2>9. check[p] = Off /\ Elapsed(p) >= firmware[p]
      BY <1>1, <2>2 DEF Lasting, Blank
    <2>10. Lasting(p)'
      BY <1>1, <1>2, <2>2, <2>4, <2>5, <2>6, <2>9 DEF Lasting, Elapsed, Blank
    <2>11. check[root] # Off \/ mktree => ~mktree /\ Elapsed(root) = 0
      BY <1>2, <2>9, AtStart DEF Handshake
    <2>12. Pending(k)'
      <3>1. cackto[m.source].t >= timeoutack - MaxDelay + m.ttl /\ cackto[m.source].t \in Timer
        BY <1>1, <1>2 DEF Pending, Shapes
      <3>2. cackto[m.source].t >= timeoutack - 2 * MaxDelay + MaxDelay
        BY <1>2, <3>1, Consts DEF Timer, Off
      <3>3. pfirst[m.source] = p => psecond[m.source].treeID = m.treeID
        BY <1>1, <1>2 DEF Pending
      <3>. QED
        BY <1>2, <2>3, <3>2, <3>3 DEF Pending, Child, Parent, Answers
    <2>13. \A n \in net \ {m} : n.kind \in Answers => Child(n) # m.source
      BY <1>1, <1>2 DEF OneAnswer
    <2>14. OneAnswer'
      BY <1>1, <2>2, <2>3, <2>13 DEF OneAnswer, Child
    <2>15. \A n \in net' : n.kind \in Answers => (n \in net /\ Child(n) # p) \/ Pending(n)'
      <3>. SUFFICES ASSUME NEW n \in net, n.kind \in Answers PROVE Pending(n)'
        BY <2>2, <2>12
      <3>. QED
        BY <1>2 DEF PeriodsInv, Pending, Child, Parent
    <2>16. \A n \in net' \ net : n.kind \in Handshake /\ (check[root] # Off \/ mktree')
                                    => n.ttl + Elapsed(root) <= MaxDelay
      BY <2>2, <2>3, <2>11, Consts
    <2>17. mktree' => mktree /\ pfirst'[root] = NOID
      BY <1>1, <1>2 DEF Opening
    <2>. QED
      BY <2>7, <2>8, <2>10, <2>14, <2>15, <2>16, <2>17, StepKept
  <1>. QED
    BY <1>3, <1>4, <1>5

\* A report that is sent on stays a frame.
LEMMA ForwardFacts ==
  ASSUME NEW m, (m \in Frame /\ m.kind = "UPRQ") \/ Forwarded(m), NEW d, NEW n,
         n = [m EXCEPT !.kind = "UPRQF", !.ttl = MaxDelay, !.destination = d]
  PROVE  Forwarded(n) /\ n.kind = "UPRQF"
  <1>1. MaxDelay \in 0..MaxDelay
    BY Consts
  <1>2. CASE m \in Frame /\ m.kind = "UPRQ"
    <2>1. m \in [kind : {"UPRQ"}, source : Prover, destination : Prover,
                 report : SUBSET Prover, treeID : TreeId, ttl : 0..MaxDelay]
      BY <1>2 DEF Frame
    <2>2. /\ n \in [kind : {"UPRQF"}, source : Prover, destination : {d},
                    report : SUBSET Prover, treeID : TreeId, ttl : 0..MaxDelay]
          /\ n.kind = "UPRQF"
      BY <1>1, <2>1
    <2>. QED
      BY <2>2 DEF Forwarded
  <1>3. CASE Forwarded(m)
    <2>1. PICK e : m \in [kind : {"UPRQF"}, source : Prover, destination : {e},
                          report : SUBSET Prover, treeID : TreeId, ttl : 0..MaxDelay]
      BY <1>3 DEF Forwarded
    <2>2. /\ n \in [kind : {"UPRQF"}, source : Prover, destination : {d},
                    report : SUBSET Prover, treeID : TreeId, ttl : 0..MaxDelay]
          /\ n.kind = "UPRQF"
      BY <1>1, <2>1
    <2>. QED
      BY <2>2 DEF Forwarded
  <1>. QED
    BY <1>2, <1>3

\* A report.
LEMMA UpReqPeriods ==
  ASSUME ChecksTimed, PeriodsInv, NEW p \in Prover, NEW m \in net,
         m.destination = p, handleUpReq(p, m),
         UNCHANGED <<links, attest, check, mktree, period>>
  PROVE  PeriodsInv'
  <1>1. Shapes /\ Lasting(p) /\ Opening /\ OneAnswer
    BY DEF PeriodsInv
  <1>2. PICK rest, cs, recs, passOn :
           /\ rest = net \ {m} /\ cs = csess[p] \ {m.source}
           /\ recs = aggreport[p] \cup m.report
           /\ passOn = (m.kind = "UPRQF" \/ status[p] = "FINISHED")
    OBVIOUS
  <1>3. m.kind \in {"UPRQ", "UPRQF"} /\ UNCHANGED <<cackto, crespto>>
    BY DEF handleUpReq
  <1>4. /\ m.source \in Prover /\ m.treeID \in TreeId /\ m.report \subseteq Prover
        /\ (m \in Frame /\ m.kind = "UPRQ") \/ Forwarded(m)
        /\ m.source # NOID
    <2>1. m.kind = "UPRQF" => m \notin Frame
      BY FrameFacts
    <2>2. m \in Frame \/ Forwarded(m)
      BY <1>1 DEF Shapes
    <2>. QED
      BY <1>1, <1>3, <2>1, <2>2, ShapeFacts, Consts
  <1>5. CASE ~passOn /\ ~Awaited(p, m)
    <2>1. net' \subseteq net /\ UNCHANGED <<status, pfirst, psecond, csess, aggreport>>
      BY <1>2, <1>5 DEF handleUpReq, sessions
    <2>. QED
      BY <1>3, <2>1, TakePeriods
  <1>6. CASE passOn
    <2>1. PICK n : n = [m EXCEPT !.kind = "UPRQF", !.ttl = MaxDelay, !.destination = Gate0(p)]
      OBVIOUS
    <2>2. net' = rest \cup {n} /\ UNCHANGED <<status, pfirst, psecond, csess, aggreport>>
      BY <1>2, <1>6, <2>1 DEF handleUpReq, sessions
    <2>3. Forwarded(n) /\ n.kind = "UPRQF" /\ n.kind \notin Handshake /\ n.kind \notin Answers
      BY <1>4, <2>1, ForwardFacts DEF Handshake, Answers
    <2>4. Shapes'
      <3>1. \A x \in net' : x \in Frame \/ Forwarded(x)
        BY <1>1, <1>2, <2>2, <2>3 DEF Shapes
      <3>. QED
        BY <1>1, <1>3, <2>2, <3>1 DEF Shapes, Forwarded
    <2>5. (\A q \in Prover \ {p} : Same(q)) /\ Lasting(p)'
      BY <1>1, <1>3, <2>2 DEF Same, Lasting, Blank, Elapsed
    <2>6. OneAnswer'
      BY <1>1, <1>2, <2>2, <2>3, FewerAnswers
    <2>7. \A x \in net' : x.kind \in Answers => Pending(x)'
      BY <1>2, <1>3, <2>2, <2>3 DEF PeriodsInv, Pending, Child, Parent
    <2>8. mktree' => mktree /\ pfirst'[root] = NOID
      BY <1>1, <2>2 DEF Opening
    <2>. QED
      BY <1>2, <2>2, <2>3, <2>4, <2>5, <2>6, <2>7, <2>8, StepKept
  <1>7. CASE ~passOn /\ Awaited(p, m)
    <2>1. check[p] = Off /\ Elapsed(p) >= firmware[p]
      BY <1>1, <1>7 DEF Awaited, Lasting, Blank
    <2>2. /\ pfirst[p] \in Dev /\ cs \in SUBSET Dev /\ recs \in SUBSET Prover
          /\ rest \in SUBSET net
      BY <1>1, <1>2, <1>4 DEF Shapes
    <2>3. CASE lastChild(cs)
      <3>1. sendUpReq(p, pfirst[p], m.treeID, cs, recs, rest)
        BY <1>2, <1>7, <2>3 DEF handleUpReq
      <3>. QED
        BY <1>3, <1>4, <2>1, <2>2, <3>1, ReportPeriods
    <2>4. CASE ~lastChild(cs)
      <3>1. /\ csess' = [csess EXCEPT ![p] = cs]
            /\ aggreport' = [aggreport EXCEPT ![p] = recs]
            /\ net' = rest
            /\ UNCHANGED <<status, pfirst, psecond>>
        BY <1>2, <1>7, <2>4 DEF handleUpReq
      <3>2. /\ \A q \in Prover \ {p} : Same(q)
            /\ csess'[p] = cs
        BY <1>1, <1>3, <3>1 DEF Shapes, Same
      <3>3. Shapes'
        BY <1>1, <1>3, <2>2, <3>1 DEF Shapes, Forwarded
      <3>4. Lasting(p)'
        BY <1>1, <1>2, <1>3, <2>1, <3>1, <3>2 DEF Lasting, Blank, Elapsed
      <3>5. OneAnswer' /\ \A x \in net' : Pending(x)'
        BY <1>1, <1>2, <1>3, <3>1 DEF PeriodsInv, OneAnswer, Pending, Child, Parent
      <3>6. (mktree' => mktree /\ pfirst'[root] = NOID) /\ net' \subseteq net
        BY <1>1, <1>2, <3>1 DEF Opening
      <3>. QED
        BY <3>2, <3>3, <3>4, <3>5, <3>6, StepKept
    <2>. QED
      BY <2>3, <2>4
  <1>. QED
    BY <1>5, <1>6, <1>7

\* Time passes for all clocks and all frames.
LEMMA TickPeriods ==
  ASSUME AckInTime, ChecksTimed, PeriodsInv, Tick
  PROVE  PeriodsInv'
  <1>1. Shapes /\ Together /\ Expired /\ OneAnswer
    BY DEF PeriodsInv
  <1>2. /\ ~mktree /\ \A m \in net : m.ttl > 0
        /\ \A p \in Prover : /\ attest[p] # 0 /\ check[p] # 0
                             /\ cackto[p].t # 0 /\ crespto[p].t # 0
        /\ attest' = [p \in Prover |-> dec(attest[p])]
        /\ check' = [p \in Prover |-> dec(check[p])]
        /\ cackto' = [p \in Prover |-> [cackto[p] EXCEPT !.t = dec(@)]]
        /\ crespto' = [p \in Prover |-> [crespto[p] EXCEPT !.t = dec(@)]]
        /\ net' = {[m EXCEPT !.ttl = @ - 1] : m \in net}
        /\ UNCHANGED <<links, status, pfirst, psecond, csess, aggreport, mktree>>
    BY DEF Tick, Countdowns, sessions
  <1>3. \A i \in Timer \ {0} : /\ dec(i) \in Timer /\ (dec(i) = Off <=> i = Off)
                               /\ i # Off => dec(i) = i - 1
    BY DEF Timer, dec, Off
  <1>4. ASSUME NEW p \in Prover
        PROVE  /\ attest[p] \in 0..deltah[links] /\ attest'[p] = attest[p] - 1
               /\ attest'[p] \in 0..deltah[links] /\ Elapsed(p)' = Elapsed(p) + 1
               /\ Elapsed(p) \in Nat
    <2>1. deltah[links] \in Nat /\ attest[p] \in 0..deltah[links] /\ attest[p] # 0
      BY <1>1, <1>2, ClockFacts
    <2>. QED
      BY <1>2, <2>1 DEF Elapsed, dec
  <1>5. ASSUME NEW p \in Prover
        PROVE  /\ check[p] \in Timer /\ check'[p] \in Timer
               /\ check'[p] = Off <=> check[p] = Off
               /\ check[p] # Off => check'[p] = check[p] - 1
               /\ cackto'[p] \in [dev : Dev, t : Timer] /\ cackto'[p].dev = cackto[p].dev
               /\ cackto[p].t \in Timer /\ (cackto'[p].t = Off <=> cackto[p].t = Off)
               /\ cackto[p].t # Off => cackto'[p].t = cackto[p].t - 1
               /\ crespto'[p] \in [treeID : TreeId \cup {NOID}, t : Timer]
               /\ crespto'[p].treeID = crespto[p].treeID
               /\ crespto'[p].t = Off <=> crespto[p].t = Off
    <2>1. /\ check[p] \in Timer \ {0}
          /\ cackto[p] \in [dev : Dev, t : Timer] /\ cackto[p].t \in Timer \ {0}
          /\ crespto[p] \in [treeID : TreeId \cup {NOID}, t : Timer]
          /\ crespto[p].t \in Timer \ {0}
      BY <1>1, <1>2 DEF Shapes
    <2>2. check'[p] = dec(check[p])
      BY <1>2
    <2>3. /\ cackto'[p] \in [dev : Dev, t : Timer] /\ cackto'[p].dev = cackto[p].dev
          /\ cackto'[p].t = dec(cackto[p].t)
      BY <1>2, <1>3, <2>1
    <2>4. /\ crespto'[p] \in [treeID : TreeId \cup {NOID}, t : Timer]
          /\ crespto'[p].treeID = crespto[p].treeID
          /\ crespto'[p].t = dec(crespto[p].t)
      BY <1>2, <1>3, <2>1
    <2>. QED
      BY <1>3, <2>1, <2>2, <2>3, <2>4
  <1>6. ASSUME NEW n \in net'
        PROVE  /\ n \in Frame \/ Forwarded(n)
               /\ \E m \in net : /\ n = [m EXCEPT !.ttl = m.ttl - 1] /\ n.ttl = m.ttl - 1
                                 /\ n.kind = m.kind /\ n.source = m.source
                                 /\ n.treeID = m.treeID /\ n.destination = m.destination
    <2>1. PICK m \in net : n = [m EXCEPT !.ttl = m.ttl - 1]
      BY <1>2, <1>6
    <2>2. m.ttl > 0 /\ (m \in Frame \/ Forwarded(m))
      BY <1>1, <1>2 DEF Shapes
    <2>3. CASE m \in Frame
      BY <2>1, <2>2, <2>3, TickFacts
    <2>4. CASE Forwarded(m)
      <3>1. PICK d : m \in [kind : {"UPRQF"}, source : Prover, destination : {d},
                            report : SUBSET Prover, treeID : TreeId, ttl : 0..MaxDelay]
        BY <2>4 DEF Forwarded
      <3>2. m.ttl - 1 \in 0..MaxDelay
        BY <2>2, <3>1, Consts
      <3>3. /\ n \in [kind : {"UPRQF"}, source : Prover, destination : {d},
                      report : SUBSET Prover, treeID : TreeId, ttl : 0..MaxDelay]
            /\ n.ttl = m.ttl - 1 /\ n.kind = m.kind /\ n.source = m.source
            /\ n.treeID = m.treeID /\ n.destination = m.destination
        BY <2>1, <3>1, <3>2
      <3>. QED
        BY <2>1, <3>3 DEF Forwarded
    <2>. QED
      BY <2>2, <2>3, <2>4
  <1>7. Shapes'
    <2>1. /\ attest' \in [Prover -> 0..deltah[links]] /\ check' \in [Prover -> Timer]
      BY <1>2, <1>4, <1>5
    <2>2. /\ cackto' \in [Prover -> [dev : Dev, t : Timer]]
          /\ crespto' \in [Prover -> [treeID : TreeId \cup {NOID}, t : Timer]]
      BY <1>2, <1>5
    <2>. QED
      BY <1>1, <1>2, <1>6, <2>1, <2>2 DEF Shapes, Forwarded
  <1>8. Together'
    <2>1. \A p, q \in Prover : attest[p] = attest[q]
      BY <1>1, <1>2 DEF Together
    <2>. QED
      BY <1>4, <2>1 DEF Together
  <1>9. \A p \in Prover : Lasting(p)'
    <2>. SUFFICES ASSUME NEW p \in Prover PROVE Lasting(p)'
      OBVIOUS
    <2>1. Lasting(p) /\ firmware[p] \in Nat
      BY Consts DEF PeriodsInv
    <2>2. check'[p] # Off => check'[p] + Elapsed(p)' = firmware[p]
      <3>. SUFFICES ASSUME check'[p] # Off PROVE check'[p] + Elapsed(p)' = firmware[p]
        OBVIOUS
      <3>1. check[p] \in Nat /\ check[p] + Elapsed(p) = firmware[p] /\ check'[p] = check[p] - 1
        BY <1>5, <2>1 DEF Lasting, Timer
      <3>. QED
        BY <1>4, <3>1
    <2>3. Elapsed(p) >= firmware[p] => Elapsed(p)' >= firmware[p]
      BY <1>4, <2>1
    <2>. QED
      BY <1>2, <1>5, <2>1, <2>2, <2>3 DEF Lasting, Blank
  <1>10. Opening'
    BY <1>2 DEF Opening
  <1>11. Expired'
    <2>. SUFFICES ASSUME check'[root] # Off, NEW n \in net', n.kind \in Handshake
                  PROVE  n.ttl + Elapsed(root)' <= MaxDelay
      BY <1>2 DEF Expired
    <2>1. PICK m \in net : n.ttl = m.ttl - 1 /\ n.kind = m.kind
      BY <1>6
    <2>2. m.ttl \in 0..MaxDelay /\ m.ttl + Elapsed(root) <= MaxDelay
      BY <1>1, <1>5, <2>1, ShapeFacts, Consts DEF Expired
    <2>. QED
      BY <1>4, <2>1, <2>2, Consts
  <1>12. \A n \in net' : Pending(n)'
    <2>. SUFFICES ASSUME NEW n \in net', n.kind \in Answers PROVE Pending(n)'
      BY DEF Pending, Answers
    <2>1. PICK m \in net : /\ n.ttl = m.ttl - 1 /\ n.kind = m.kind /\ n.source = m.source
                           /\ n.treeID = m.treeID /\ n.destination = m.destination
      BY <1>6
    <2>2. Pending(m) /\ m.ttl \in 0..MaxDelay /\ Child(m) \in Prover
      BY <1>1, <2>1, ShapeFacts DEF PeriodsInv
    <2>3. Child(n) = Child(m) /\ Parent(n) = Parent(m)
      BY <2>1 DEF Child, Parent
    <2>4. ASSUME NEW i \in Nat, cackto[Child(m)].t >= i + m.ttl
          PROVE  cackto'[Child(m)].t >= i + n.ttl
      <3>1. cackto[Child(m)].t # Off /\ cackto[Child(m)].t \in Int
        BY <1>5, <2>2, <2>4 DEF Off, Timer
      <3>. QED
        BY <1>5, <2>1, <2>2, <2>4, <3>1, Consts
    <2>5. timeoutack - MaxDelay \in Nat /\ timeoutack - 2 * MaxDelay \in Nat
      BY Consts DEF AckInTime
    <2>6. n.kind = "CMRP" => cackto'[n.source].t >= timeoutack - MaxDelay + n.ttl
      <3>. SUFFICES ASSUME n.kind = "CMRP"
                    PROVE  cackto'[n.source].t >= timeoutack - MaxDelay + n.ttl
        OBVIOUS
      <3>1. Child(m) = m.source /\ cackto[m.source].t >= timeoutack - MaxDelay + m.ttl
        BY <2>1, <2>2 DEF Pending, Child
      <3>. QED
        BY <2>1, <2>4, <2>5, <3>1
    <2>7. n.kind = "CMAK" => cackto'[n.destination].t >= timeoutack - 2 * MaxDelay + n.ttl
      <3>. SUFFICES ASSUME n.kind = "CMAK"
                    PROVE  cackto'[n.destination].t >= timeoutack - 2 * MaxDelay + n.ttl
        OBVIOUS
      <3>1. /\ Child(m) = m.destination
            /\ cackto[m.destination].t >= timeoutack - 2 * MaxDelay + m.ttl
        BY <2>1, <2>2 DEF Pending, Child
      <3>. QED
        BY <2>1, <2>4, <2>5, <3>1
    <2>. QED
      BY <1>2, <2>1, <2>2, <2>3, <2>6, <2>7 DEF Pending
  <1>13. OneAnswer'
    <2>. SUFFICES ASSUME NEW n \in net', NEW o \in net', n.kind \in Answers,
                         o.kind \in Answers, Child(n) = Child(o)
                  PROVE  n = o
      BY DEF OneAnswer
    <2>1. PICK m \in net : /\ n = [m EXCEPT !.ttl = m.ttl - 1] /\ n.kind = m.kind
                           /\ n.source = m.source /\ n.destination = m.destination
      BY <1>6
    <2>2. PICK k \in net : /\ o = [k EXCEPT !.ttl = k.ttl - 1] /\ o.kind = k.kind
                           /\ o.source = k.source /\ o.destination = k.destination
      BY <1>6
    <2>3. m = k
      BY <1>1, <2>1, <2>2 DEF OneAnswer, Child
    <2>. QED
      BY <2>1, <2>2, <2>3
  <1>. QED
    BY <1>7, <1>8, <1>9, <1>10, <1>11, <1>12, <1>13 DEF PeriodsInv

\* Every step keeps the invariant of all periods.
LEMMA NextPeriods ==
  ASSUME AckInTime, ChecksTimed, PeriodsInv, [Next]_vars
  PROVE  PeriodsInv'
  <1>1. ASSUME NEW p \in Prover, startAttestation(p) PROVE PeriodsInv'
    BY <1>1, StartPeriods
  <1>2. ASSUME NEW p \in Prover, checkSoftConfig(p) PROVE PeriodsInv'
    BY <1>2, CheckPeriods
  <1>3. ASSUME NEW p \in Prover, handleCommitAckTimeOut(p) PROVE PeriodsInv'
    BY <1>3, AckTimeOutPeriods
  <1>4. ASSUME NEW p \in Prover, handleCommitRespTimeOut(p) PROVE PeriodsInv'
    BY <1>4, RespTimeOutPeriods
  <1>5. ASSUME NEW p \in Prover, receive(p) PROVE PeriodsInv'
    <2>1. PICK m \in net :
             /\ m.destination = p
             /\ \/ handleCommitReq(p, m) \/ handleCommitAck(p, m)
                \/ handleCommitResp(p, m) \/ handleUpReq(p, m)
      BY <1>5 DEF receive
    <2>2. UNCHANGED <<links, attest, check, mktree, period>>
      BY <1>5 DEF receive
    <2>. QED
      BY <2>1, <2>2, CommitReqPeriods, CommitAckPeriods, CommitRespPeriods, UpReqPeriods
  <1>6. CASE mkTree
    BY <1>6, MkTreePeriods
  <1>7. CASE Tick
    BY <1>7, TickPeriods
  <1>8. ASSUME collect \/ Over \/ UNCHANGED vars \/ \E p \in Prover : scheduleTwice(p)
        PROVE  PeriodsInv'
    <2>1. /\ net' \subseteq net
          /\ UNCHANGED <<links, status, pfirst, psecond, csess, aggreport, attest, check,
                         mktree, cackto, crespto>>
      BY <1>8 DEF collect, Over, scheduleTwice, vars, sessions, timers
    <2>. QED
      BY <2>1, TakePeriods
  <1>. QED
    BY <1>1, <1>2, <1>3, <1>4, <1>5, <1>6, <1>7, <1>8 DEF Next, Event

\* Although startAttestation leaves cresptomsg and cacktomsg scheduled, over
\* any number of periods the timeout for responses of a prover in a tree is the
\* one of this tree (handleCommitAck and mkTree start it with the tree's id):
\* no late ack puts a prover into a tree with the timeout of another.  It is
\* assumed that an ack arrives before the timeout for it, that a firmware check
\* takes longer than a frame and that it ends within its period.
THEOREM TimeoutsCurrentCorrect ==
  ASSUME AckInTime, ChecksTimed
  PROVE  Spec => []TimeoutsCurrent
  <1>1. Init => PeriodsInv
    BY InitPeriods
  <1>2. PeriodsInv /\ [Next]_vars => PeriodsInv'
    BY NextPeriods
  <1>3. PeriodsInv => TimeoutsCurrent
    BY DEF PeriodsInv, Lasting, TimeoutsCurrent
  <1>. QED
    BY <1>1, <1>2, <1>3, PTL DEF Spec
=============================================================================
