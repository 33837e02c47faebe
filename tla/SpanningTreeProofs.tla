------------------------- MODULE SpanningTreeProofs -------------------------
(***************************************************************************)
(* Proofs about SpanningTree: the inductive invariant Inv, and from it the *)
(* properties that no null session is dereferenced, no self-message is     *)
(* scheduled twice, no ack is taken for another one and no prover reports  *)
(* twice in a period, for any number of provers and any timeouts that meet *)
(* the assumptions of SpanningTree.                                        *)
(***************************************************************************)
EXTENDS SpanningTree, FiniteSetTheorems, WellFoundedInduction, TLAPS

ChildMap == [Dev -> ChildSession \cup {Null}]

\* The wait is a number, and what it leaves of the period is what
\* TimingAssumption promises.
LEMMA DeltagType == deltag \in Nat
  <1>1. (timeoutresp + timeoutack) * maxdepth \in Nat
    BY TimeAssumption, TreeAssumption
  <1>. QED
    BY <1>1, TimeAssumption, TreeAssumption DEF deltag

LEMMA SlackFacts ==
  ASSUME NEW p \in Prover
  PROVE  /\ Slack(p) \in Int
         /\ Slack(p) > timeoutresp
         /\ Slack(p) > 3 * MaxDelay
         /\ deltah = Slack(p) + timeoutack + firmware[p] + deltag
  BY DeltagType, TimeAssumption, TimingAssumption DEF Slack

\* A tree delay chosen from the battery level is at most deltag.
LEMMA TreeDelayType ==
  ASSUME NEW p \in Prover, NEW per \in Battery
  PROVE  chooseTreeDelay(p, per) \in 0..deltag
  <1>1. per \in Nat /\ per <= 100
    BY TreeAssumption
  <1>2. deltag * per \in Nat /\ deltag * per <= deltag * 100
    BY <1>1, DeltagType
  <1>3. (deltag * per) \div 100 \in 0..deltag
    BY <1>2, DeltagType
  <1>. QED
    BY <1>3, DeltagType DEF chooseTreeDelay

LEMMA ChildLimitType ==
  ASSUME NEW p \in Prover, NEW per \in Battery
  PROVE  updateMaxChildren(p, per) \in Nat
  <1>1. MAXCHILDREN * (per - 10) \in Int
    BY TreeAssumption
  <1>. QED
    BY <1>1 DEF updateMaxChildren, CHILDREN

\* A set of sessions of size one that holds the session of the tree holds no
\* other, so that closing the tree leaves none.
LEMMA LastSession ==
  ASSUME NEW cs \in ChildMap, size(cs) = 1
  PROVE  /\ cs # NoChildren
         /\ cs[NOID] # Null => closeTree(cs) = NoChildren
  <1>1. IsFiniteSet(Dev)
    BY ProverAssumption, FS_AddElement, FS_Union, FS_Singleton DEF Dev
  <1>2. IsFiniteSet(Members(cs))
    BY <1>1, FS_Subset DEF Members
  <1>3. PICK x : Members(cs) = {x}
    BY <1>2, FS_Singleton DEF size
  <1>4. cs # NoChildren
    BY <1>3 DEF Members, NoChildren
  <1>5. ASSUME cs[NOID] # Null
        PROVE  closeTree(cs) = NoChildren
    <2>1. x = NOID
      BY <1>3, <1>5 DEF Members, Dev
    <2>2. \A d \in Dev : d # NOID => cs[d] = Null
      BY <1>3, <2>1 DEF Members
    <2>. QED
      BY <2>2 DEF closeTree, NoChildren, ChildMap, Dev
  <1>. QED
    BY <1>4, <1>5

-----------------------------------------------------------------------------
THEOREM InitInv == Init => Inv
  <1>. SUFFICES ASSUME Init PROVE Inv
    OBVIOUS
  <1>1. TypeOK
    <2>1. SessionType
      BY TreeAssumption DEF Init, SessionType, Status, Dev, NOID
    <2>2. TimerType
      <3>1. StartPhase \subseteq Timer
        BY TimeAssumption DEF Timer
      <3>2. attest \in [Prover -> Timer]
        BY <3>1 DEF Init
      <3>. QED
        BY <3>2 DEF Init, TimerType, Timer, Dev, Off
    <2>3. ReportType /\ net \subseteq Message
      BY FS_EmptySet DEF Init, ReportType, Reports
    <2>. QED
      BY <2>1, <2>2, <2>3 DEF TypeOK
  <1>2. \A p \in Prover : Phase(p) /\ Deadlines(p) /\ Sessions(p)
    BY DEF Init, Phase, Deadlines, Sessions, NoChildren, Off
  <1>3. Handshakes
    BY DEF Init, Handshakes, OneHandshake
  <1>. QED
    BY <1>1, <1>2, <1>3 DEF Inv

-----------------------------------------------------------------------------
\* One action at a time.  The invariant of a prover that does not take part
\* in a step carries over as it stands.
LocalInv(q) == Sessions(q) /\ (q \notin crashed => Phase(q) /\ Deadlines(q))

LEMMA InvParts ==
  /\ Inv => TypeOK /\ Handshakes /\ \A q \in Prover : LocalInv(q)
  /\ TypeOK /\ Handshakes /\ (\A q \in Prover : LocalInv(q)) => Inv
  BY DEF Inv, LocalInv

\* What the invariant of a prover depends on is unchanged.
Same(q) ==
    /\ status'[q] = status[q] /\ pfirst'[q] = pfirst[q]
    /\ psecond'[q] = psecond[q] /\ csess'[q] = csess[q]
    /\ attest'[q] = attest[q] /\ check'[q] = check[q]
    /\ mktree'[q] = mktree[q] /\ cackto'[q] = cackto[q]
    /\ crespto'[q] = crespto[q] /\ reported'[q] = reported[q]
    /\ (q \in crashed') <=> (q \in crashed)

LEMMA SameLocal ==
  ASSUME NEW q \in Prover, Same(q), LocalInv(q)
  PROVE  LocalInv(q)'
  BY DEF Same, LocalInv, Phase, Deadlines, Sessions, NoChildren, Slack

\* The frames of a handshake are between two provers, and arrive in time.
LEMMA HandshakeType ==
  ASSUME NEW m \in Message, IsHandshake(m)
  PROVE  /\ Opener(m) \in Prover /\ Invited(m) \in Prover
         /\ Left(m) \in Nat
         /\ m.treeID \in TreeId
  <1>1. MaxDelay \in Nat
    BY TimeAssumption
  <1>. QED
    BY <1>1 DEF Message, IsHandshake, CommitReq, CommitResp, CommitAck, UpdateReq,
                Opener, Invited, Left

\* A step that sends no frame of a handshake.
LEMMA HandshakesKept ==
  ASSUME Handshakes,
         \A m \in net' : IsHandshake(m) => m \in net /\ HandshakeTimed(m)'
  PROVE  Handshakes'
  BY DEF Handshakes, OneHandshake

LEMMA CheckSoftConfigInv ==
  ASSUME Inv, NEW p \in Prover, checkSoftConfig(p)
  PROVE  Inv'
  <1>1. TypeOK'
    BY DEF Inv, checkSoftConfig, TypeOK, SessionType, TimerType, ReportType, Status, Timer, Off, sessions, report, collector
  <1>2. \A q \in Prover : LocalInv(q)'
    <2>1. ASSUME NEW q \in Prover, q # p PROVE LocalInv(q)'
      <3>1. Same(q)
        BY <2>1 DEF Same, checkSoftConfig, sessions, report, Inv, TypeOK, SessionType, TimerType
      <3>. QED
        BY <3>1, SameLocal, InvParts
    <2>2. LocalInv(p)'
      <3>1. /\ status[p] = "CHECKING" /\ p \notin crashed /\ LocalInv(p)
            /\ mktree[p] # Off
        BY InvParts DEF LocalInv, Phase, checkSoftConfig, Alive, Off
      <3>2. /\ status'[p] = "READY" /\ check'[p] = Off
            /\ pfirst'[p] = pfirst[p] /\ psecond'[p] = psecond[p]
            /\ csess'[p] = csess[p] /\ attest'[p] = attest[p]
            /\ mktree'[p] = mktree[p] /\ cackto'[p] = cackto[p]
            /\ crespto'[p] = crespto[p] /\ reported'[p] = reported[p]
            /\ crashed' = crashed
        BY DEF checkSoftConfig, sessions, report, Inv, TypeOK, SessionType, TimerType
      <3>. QED
        BY <3>1, <3>2 DEF LocalInv, Phase, Deadlines, Sessions, Slack, NoChildren
    <2>. QED
      BY <2>1, <2>2
  <1>3. Handshakes'
    <2>1. ASSUME NEW m \in net', IsHandshake(m)
          PROVE  m \in net /\ HandshakeTimed(m)'
      <3>1. m \in net /\ HandshakeTimed(m)
        BY <2>1 DEF Inv, Handshakes, checkSoftConfig
      <3>2. Opener(m) \in Prover /\ Invited(m) \in Prover
        BY <2>1, <3>1, HandshakeType DEF Inv, TypeOK
      <3>3. status[p] = "CHECKING" /\ pfirst[p] = NOID
        BY InvParts DEF LocalInv, Phase, Sessions, checkSoftConfig, Alive, Off
      <3>. QED
        BY <3>1, <3>2, <3>3, ProverAssumption
        DEF HandshakeTimed, checkSoftConfig, sessions, Inv, TypeOK, SessionType
    <2>. QED
      BY <2>1, HandshakesKept DEF Inv
  <1>. QED
    BY <1>1, <1>2, <1>3, InvParts DEF Inv, LocalInv

-----------------------------------------------------------------------------
\* What every step of prover p but startAttestation leaves alone.
Framed(p) ==
    /\ UNCHANGED <<maxchildren, attest, collector, crashed, period>>
    /\ TimerType'
    /\ dropped' \subseteq Record
    /\ \A q \in Prover :
          q # p => /\ check'[q] = check[q] /\ mktree'[q] = mktree[q]
                   /\ cackto'[q] = cackto[q] /\ crespto'[q] = crespto[q]

\* Nothing but the response timeout is pending, and that one as it was.
Quiet(p) ==
    /\ check'[p] = Off /\ mktree'[p] = Off /\ cackto'[p].t = Off
    /\ crespto'[p].t # Off => crespto'[p] = crespto[p]

Opened == {"CREATING", "COLLECTING", "FINISHED"}

\* The frames on their way stay timed when the prover that moves leaves or
\* keeps its parent.
LEMMA TimedKept ==
  ASSUME Inv, NEW p \in Prover, attest' = attest,
         \A q \in Prover : q # p => /\ status'[q] = status[q]
                                   /\ pfirst'[q] = pfirst[q]
                                   /\ psecond'[q] = psecond[q],
         status[p] \in Opened => status'[p] \in Opened,
         \/ pfirst'[p] = NOID
         \/ /\ pfirst'[p] = pfirst[p] /\ psecond'[p] = psecond[p]
            /\ \/ status'[p] = status[p]
               \/ status'[p] = "ATTESTING_CREATING",
         NEW m \in net, IsHandshake(m)
  PROVE  HandshakeTimed(m)'
  <1>1. HandshakeTimed(m)
    BY DEF Inv, Handshakes
  <1>2. Opener(m) \in Prover /\ Invited(m) \in Prover
    BY HandshakeType DEF Inv, TypeOK
  <1>3. status'[Opener(m)] \in {"CREATING", "COLLECTING", "FINISHED"}
    BY <1>1, <1>2 DEF HandshakeTimed, Opened
  <1>4. attest'[Opener(m)] # Off => Left(m) < attest'[Opener(m)]
    BY <1>1, <1>2 DEF HandshakeTimed
  <1>5. ASSUME m.kind # "CMRQ", pfirst'[Invited(m)] = Opener(m)
        PROVE  /\ status'[Invited(m)] \in {"ATTESTING", "ATTESTING_CREATING"}
               /\ psecond'[Invited(m)].treeID = m.treeID
    <2>1. Opener(m) # NOID
      BY <1>2, ProverAssumption
    <2>. QED
      BY <1>1, <1>2, <1>5, <2>1 DEF HandshakeTimed
  <1>. QED
    BY <1>3, <1>4, <1>5 DEF HandshakeTimed, Left

-----------------------------------------------------------------------------
\* Sending a report: the frame it adds is none of a handshake, and the prover
\* ends without sessions.
LEMMA SendUpReqFacts ==
  ASSUME TypeOK, NEW p \in Prover, NEW first \in Dev, NEW tid \in TreeId,
         NEW cs \in ChildMap, NEW recs \in Reports,
         NEW rest \in SUBSET Message,
         sendUpReq(p, first, tid, cs, recs, rest)
  PROVE  /\ status' \in [Prover -> Status]
         /\ pfirst' \in [Prover -> Dev]
         /\ psecond' \in [Prover -> ParentSession \cup {Null}]
         /\ csess' \in [Prover -> ChildMap]
         /\ attestcount' \in [Prover -> Nat]
         /\ aggreport' \in [Prover -> Reports]
         /\ reported' \in [Prover -> BOOLEAN]
         /\ net' \subseteq Message
         /\ \A m \in net' : IsHandshake(m) => m \in rest
         /\ status'[p] = "FINISHED" /\ pfirst'[p] = NOID
         /\ psecond'[p] = Null /\ csess'[p] = closeTree(cs)
         /\ \A q \in Prover :
               q # p => /\ status'[q] = status[q] /\ pfirst'[q] = pfirst[q]
                        /\ psecond'[q] = psecond[q] /\ csess'[q] = csess[q]
                        /\ reported'[q] = reported[q]
  <1>. DEFINE own == addOwnReport(p, recs)
  <1>1. own \in Reports
    <2>1. attestcount[p] + 1 \in Nat
      BY DEF TypeOK, ReportType
    <2>2. IsFiniteSet(own)
      BY FS_AddElement DEF Reports, addOwnReport
    <2>. QED
      BY <2>1, <2>2 DEF Record, Reports, addOwnReport
  <1>2. /\ status' \in [Prover -> Status] /\ pfirst' \in [Prover -> Dev]
        /\ psecond' \in [Prover -> ParentSession \cup {Null}]
    BY DEF sendUpReq, TypeOK, SessionType, Status, Dev
  <1>3. closeTree(cs) \in ChildMap
    BY DEF closeTree, ChildMap
  <1>4. csess' \in [Prover -> ChildMap]
    BY <1>3 DEF sendUpReq, TypeOK, SessionType, ChildMap
  <1>5. /\ attestcount' \in [Prover -> Nat]
        /\ aggreport' \in [Prover -> Reports]
        /\ reported' \in [Prover -> BOOLEAN]
    BY <1>1 DEF sendUpReq, TypeOK, ReportType
  <1>6. PICK m \in UpdateReqs(p, first, tid, own) : net' = rest \cup {m}
    BY DEF sendUpReq
  <1>7. m \in UpdateReq /\ m.kind \in {"UPRQC", "UPRQ", "UPRQF"}
    <2>1. MaxDelay \in 0..MaxDelay
      BY TimeAssumption
    <2>2. first = NOID \/ first \in Prover
      BY DEF Dev
    <2>. QED
      BY <1>1, <1>6, <2>1, <2>2 DEF UpdateReqs, UpdateReq
  <1>8. /\ status'[p] = "FINISHED" /\ pfirst'[p] = NOID
        /\ psecond'[p] = Null /\ csess'[p] = closeTree(cs)
        /\ \A q \in Prover :
              q # p => /\ status'[q] = status[q] /\ pfirst'[q] = pfirst[q]
                       /\ psecond'[q] = psecond[q] /\ csess'[q] = csess[q]
                       /\ reported'[q] = reported[q]
    BY DEF sendUpReq, TypeOK, SessionType, ReportType
  <1>9. net' \subseteq Message /\ \A n \in net' : IsHandshake(n) => n \in rest
    BY <1>6, <1>7 DEF Message, IsHandshake
  <1>. QED
    BY <1>2, <1>4, <1>5, <1>8, <1>9

\* A step that ends with the prover's report sent and no session left.
LEMMA SendUpReqInv ==
  ASSUME Inv, NEW p \in Prover, p \notin crashed,
         NEW first \in Dev, NEW tid \in TreeId, NEW cs \in ChildMap,
         NEW recs \in Reports, NEW rest \in SUBSET net,
         sendUpReq(p, first, tid, cs, recs, rest),
         closeTree(cs) = NoChildren, Framed(p), Quiet(p)
  PROVE  Inv'
  <1>1. TypeOK /\ Handshakes /\ rest \in SUBSET Message
    BY DEF Inv, TypeOK
  <1>. DEFINE T == /\ status' \in [Prover -> Status]
                   /\ pfirst' \in [Prover -> Dev]
                   /\ psecond' \in [Prover -> ParentSession \cup {Null}]
                   /\ csess' \in [Prover -> ChildMap]
                   /\ attestcount' \in [Prover -> Nat]
                   /\ aggreport' \in [Prover -> Reports]
                   /\ reported' \in [Prover -> BOOLEAN]
                   /\ net' \subseteq Message
              L == /\ status'[p] = "FINISHED" /\ pfirst'[p] = NOID
                   /\ psecond'[p] = Null /\ csess'[p] = NoChildren
              F == \A q \in Prover :
                      q # p => /\ status'[q] = status[q]
                               /\ pfirst'[q] = pfirst[q]
                               /\ psecond'[q] = psecond[q]
                               /\ csess'[q] = csess[q]
                               /\ reported'[q] = reported[q]
  <1>2. T /\ L /\ F /\ \A m \in net' : IsHandshake(m) => m \in rest
    BY <1>1, SendUpReqFacts
  <1>3. TypeOK'
    BY <1>1, <1>2 DEF TypeOK, SessionType, ReportType, Framed, collector, ChildMap
  <1>4. ASSUME NEW q \in Prover PROVE LocalInv(q)'
    <2>1. CASE q # p
      <3>1. Same(q)
        BY <1>2, <2>1 DEF Same, Framed
      <3>. QED
        BY <3>1, SameLocal, InvParts
    <2>2. CASE q = p
      <3>1. LocalInv(p) /\ attest' = attest
        BY InvParts DEF Framed
      <3>2. Sessions(p)'
        BY <1>2 DEF Sessions, NoChildren
      <3>3. Phase(p)' /\ Deadlines(p)'
        BY <1>2, <3>1 DEF LocalInv, Phase, Deadlines, Quiet, Slack
      <3>. QED
        BY <2>2, <3>2, <3>3 DEF LocalInv
    <2>. QED
      BY <2>1, <2>2
  <1>5. Handshakes'
    <2>1. ASSUME NEW m \in net', IsHandshake(m)
          PROVE  m \in net /\ HandshakeTimed(m)'
      <3>1. m \in net
        BY <1>2, <2>1
      <3>. QED
        BY <1>2, <2>1, <3>1, TimedKept DEF Framed, Opened
    <2>. QED
      BY <1>1, <2>1, HandshakesKept
  <1>. QED
    BY <1>3, <1>4, <1>5, InvParts DEF Inv, LocalInv

-----------------------------------------------------------------------------
\* Inviting: the frames added are invitations by p, one for each prover.
LEMMA InviteFacts ==
  ASSUME TypeOK, NEW p \in Prover, NEW first \in Dev,
         NEW sess \in ParentSession, NEW depth \in Depth, NEW tid \in TreeId,
         NEW rest \in SUBSET Message,
         Invite(p, first, sess, depth, tid, rest)
  PROVE  /\ status' \in [Prover -> Status]
         /\ pfirst' \in [Prover -> Dev]
         /\ psecond' \in [Prover -> ParentSession \cup {Null}]
         /\ csess' \in [Prover -> ChildMap]
         /\ net' \subseteq Message
         /\ \A m \in net' \ rest :
               /\ Opener(m) = p /\ Left(m) = 3 * MaxDelay /\ m.kind = "CMRQ"
               /\ \A n \in net' \ rest : Invited(m) = Invited(n) => m = n
         /\ status'[p] = "CREATING" /\ pfirst'[p] = first
         /\ psecond'[p] = sess /\ csess'[p] # NoChildren
         /\ csess'[p][NOID] # Null /\ csess'[p][NOID].tomsg = Off
         /\ crespto'[p] = [treeID |-> tid, t |-> timeoutresp]
         /\ \A q \in Prover :
               q # p => /\ status'[q] = status[q] /\ pfirst'[q] = pfirst[q]
                        /\ psecond'[q] = psecond[q] /\ csess'[q] = csess[q]
  <1>. DEFINE req(q) == [kind |-> "CMRQ", source |-> p, destination |-> q,
                         depth |-> depth, treeID |-> tid, ttl |-> MaxDelay]
  <1>1. PICK near \in SUBSET (Prover \ {p}) : net' = rest \cup {req(q) : q \in near}
    BY DEF Invite
  <1>2. MaxDelay \in 0..MaxDelay /\ MaxDelay \in Nat
    BY TimeAssumption
  <1>3. \A q \in near : req(q) \in CommitReq
    BY <1>2 DEF CommitReq
  <1>4. \A q \in near : /\ Opener(req(q)) = p /\ Left(req(q)) = 3 * MaxDelay
                        /\ req(q).kind = "CMRQ" /\ Invited(req(q)) = q
    BY <1>2 DEF Opener, Left, Invited
  <1>5. \A m \in net' \ rest :
           /\ Opener(m) = p /\ Left(m) = 3 * MaxDelay /\ m.kind = "CMRQ"
           /\ \A n \in net' \ rest : Invited(m) = Invited(n) => m = n
    <2>. HIDE DEF req
    <2>1. \A m \in net' \ rest : \E q \in near : m = req(q)
      BY <1>1
    <2>. QED
      BY <1>4, <2>1
  <1>6. net' \subseteq Message
    BY <1>1, <1>3 DEF Message
  <1>7. [treeID |-> tid, tomsg |-> Off] \in ChildSession
    BY DEF ChildSession, Timer
  <1>8. NOID \in Dev
    BY DEF Dev
  <1>9. /\ status' \in [Prover -> Status] /\ pfirst' \in [Prover -> Dev]
        /\ psecond' \in [Prover -> ParentSession \cup {Null}]
        /\ status'[p] = "CREATING" /\ pfirst'[p] = first /\ psecond'[p] = sess
    BY DEF Invite, TypeOK, SessionType, Status
  <1>10. csess' \in [Prover -> ChildMap]
    BY <1>7, <1>8 DEF Invite, TypeOK, SessionType, ChildMap
  <1>11. csess'[p][NOID] # Null /\ csess'[p][NOID].tomsg = Off
    BY <1>7, <1>8, NullAssumption DEF Invite, TypeOK, SessionType
  <1>12. csess'[p] # NoChildren
    BY <1>8, <1>11 DEF NoChildren
  <1>13. crespto'[p] = [treeID |-> tid, t |-> timeoutresp]
    BY DEF Invite, TypeOK, TimerType
  <1>14. \A q \in Prover :
            q # p => /\ status'[q] = status[q] /\ pfirst'[q] = pfirst[q]
                     /\ psecond'[q] = psecond[q] /\ csess'[q] = csess[q]
    BY DEF Invite, TypeOK, SessionType
  <1>. QED
    BY <1>5, <1>6, <1>9, <1>10, <1>11, <1>12, <1>13, <1>14

\* A step that ends with invitations: p had none on its way, and time enough
\* is left in its period for the handshakes it begins.
LEMMA InviteInv ==
  ASSUME Inv, NEW p \in Prover, p \notin crashed,
         status[p] \in {"READY", "ATTESTING", "ATTESTING_CREATING"},
         attest[p] # Off => Slack(p) <= attest[p],
         NEW first \in Dev, NEW sess \in ParentSession, NEW depth \in Depth,
         NEW tid \in TreeId, NEW rest \in SUBSET net,
         Invite(p, first, sess, depth, tid, rest),
         \/ first = NOID
         \/ \A m \in rest : IsHandshake(m)
                               => ~(Opener(m) = first /\ Invited(m) = p),
         Framed(p), check'[p] = Off, mktree'[p] = Off, cackto'[p].t = Off
  PROVE  Inv'
  <1>1. TypeOK /\ Handshakes /\ rest \in SUBSET Message
    BY DEF Inv, TypeOK
  <1>. DEFINE T == /\ status' \in [Prover -> Status]
                   /\ pfirst' \in [Prover -> Dev]
                   /\ psecond' \in [Prover -> ParentSession \cup {Null}]
                   /\ csess' \in [Prover -> ChildMap]
                   /\ net' \subseteq Message
              N == \A m \in net' \ rest :
                      /\ Opener(m) = p /\ Left(m) = 3 * MaxDelay
                      /\ m.kind = "CMRQ"
                      /\ \A n \in net' \ rest : Invited(m) = Invited(n) => m = n
              L == /\ status'[p] = "CREATING" /\ pfirst'[p] = first
                   /\ psecond'[p] = sess /\ csess'[p] # NoChildren
                   /\ csess'[p][NOID] # Null /\ csess'[p][NOID].tomsg = Off
                   /\ crespto'[p] = [treeID |-> tid, t |-> timeoutresp]
              F == \A q \in Prover :
                      q # p => /\ status'[q] = status[q]
                               /\ pfirst'[q] = pfirst[q]
                               /\ psecond'[q] = psecond[q]
                               /\ csess'[q] = csess[q]
  <1>2. T /\ N /\ L /\ F
    BY <1>1, InviteFacts
  <1>3. reported' = reported /\ aggreport' = aggreport /\ attestcount' = attestcount
    BY DEF Invite, report
  <1>4. TypeOK'
    BY <1>1, <1>2, <1>3 DEF TypeOK, SessionType, ReportType, Framed, collector, ChildMap
  <1>5. ASSUME NEW q \in Prover PROVE LocalInv(q)'
    <2>1. CASE q # p
      <3>1. Same(q)
        BY <1>2, <1>3, <2>1 DEF Same, Framed
      <3>. QED
        BY <3>1, SameLocal, InvParts
    <2>2. CASE q = p
      <3>1. LocalInv(p) /\ attest' = attest
        BY InvParts DEF Framed
      <3>2. psecond'[p] # Null /\ ~reported[p]
        BY <1>2, <3>1, NullAssumption, ProverAssumption DEF LocalInv, Sessions
      <3>3. Sessions(p)'
        BY <1>2, <1>3, <3>2 DEF Sessions, NoChildren
      <3>4. Phase(p)'
        BY <1>2, TimeAssumption DEF Phase, Off
      <3>5. attest'[p] # Off => crespto'[p].t + Slack(p) - timeoutresp <= attest'[p]
        BY <1>2, <3>1, SlackFacts, TimeAssumption
      <3>6. Deadlines(p)'
        BY <3>5 DEF Deadlines, Slack
      <3>. QED
        BY <2>2, <3>3, <3>4, <3>6 DEF LocalInv
    <2>. QED
      BY <2>1, <2>2
  <1>6. \A m \in rest : IsHandshake(m) => Opener(m) # p
    BY DEF Inv, Handshakes, HandshakeTimed
  <1>7. OneHandshake'
    BY <1>1, <1>2, <1>6 DEF Handshakes, OneHandshake
  <1>8. ASSUME NEW m \in net', IsHandshake(m) PROVE HandshakeTimed(m)'
    <2>1. CASE m \in rest
      <3>1. HandshakeTimed(m) /\ Opener(m) \in Prover /\ Invited(m) \in Prover
        BY <1>1, <1>8, <2>1, HandshakeType DEF Handshakes
      <3>2. Opener(m) # p
        BY <1>6, <1>8, <2>1
      <3>3. Invited(m) = p => pfirst'[p] # Opener(m)
        BY <1>2, <1>8, <2>1, <3>1, ProverAssumption
      <3>. QED
        BY <1>2, <3>1, <3>2, <3>3 DEF HandshakeTimed, Framed, Left
    <2>2. CASE m \notin rest
      <3>1. Opener(m) = p /\ Left(m) = 3 * MaxDelay /\ m.kind = "CMRQ"
        BY <1>2, <2>2
      <3>2. attest' = attest
        BY DEF Framed
      <3>3. attest[p] # Off => 3 * MaxDelay < attest[p]
        <4>1. attest[p] # Off => attest[p] \in Nat
          BY <1>1 DEF TypeOK, TimerType, Timer
        <4>. QED
          BY <4>1, SlackFacts, TimeAssumption
      <3>. QED
        BY <1>2, <3>1, <3>2, <3>3 DEF HandshakeTimed, Left
    <2>. QED
      BY <2>1, <2>2
  <1>. QED
    BY <1>4, <1>5, <1>7, <1>8, InvParts DEF Inv, LocalInv, Handshakes

\* The response timeout after sendCommitReq.
LEMMA RespTimeOutType ==
  ASSUME TypeOK, NEW p \in Prover, NEW first, NEW second, NEW tid, NEW rest,
         sendCommitReq(p, first, second, tid, rest),
         first = NOID \/ tid \in TreeId
  PROVE  /\ crespto' \in [Prover -> [treeID : TreeId \cup {NOID}, t : Timer]]
         /\ \A q \in Prover : q # p => crespto'[q] = crespto[q]
  <1>1. CASE maxchildren[p] = 0
    BY <1>1 DEF sendCommitReq, TypeOK, TimerType
  <1>2. CASE maxchildren[p] # 0
    <2>1. PICK t \in TreeId :
             crespto' = [crespto EXCEPT ![p] = [treeID |-> t, t |-> timeoutresp]]
      BY <1>2 DEF sendCommitReq, Invite
    <2>. QED
      BY <2>1, TimeAssumption DEF TypeOK, TimerType, Timer
  <1>. QED
    BY <1>1, <1>2

\* sendCommitReq, with the parent kept or without one.
LEMMA SendCommitReqInv ==
  ASSUME Inv, NEW p \in Prover, p \notin crashed,
         status[p] \in {"READY", "ATTESTING", "ATTESTING_CREATING"},
         attest[p] # Off => Slack(p) <= attest[p],
         NEW first \in Dev, NEW second, NEW tid, NEW rest \in SUBSET net,
         sendCommitReq(p, first, second, tid, rest),
         \/ first = NOID
         \/ /\ second \in ParentSession /\ second.depth > 1 /\ tid \in TreeId
            /\ \A m \in rest : IsHandshake(m)
                                  => ~(Opener(m) = first /\ Invited(m) = p),
         Framed(p), check'[p] = Off, mktree'[p] = Off, cackto'[p].t = Off
  PROVE  Inv'
  <1>1. csess[p] = NoChildren /\ csess[p] \in ChildMap /\ aggreport[p] \in Reports
    BY InvParts DEF LocalInv, Sessions, TypeOK, SessionType, ReportType, ChildMap
  <1>2. CASE maxchildren[p] = 0
    <2>1. PICK t \in TreeId : sendUpReq(p, first, t, csess[p], aggreport[p], rest)
      BY <1>2 DEF sendCommitReq
    <2>2. crespto' = crespto
      BY <1>2 DEF sendCommitReq
    <2>3. closeTree(csess[p]) = NoChildren
      BY <1>1 DEF closeTree, NoChildren
    <2>4. Quiet(p)
      BY <2>2 DEF Quiet
    <2>. QED
      BY <1>1, <2>1, <2>3, <2>4, SendUpReqInv
  <1>3. CASE maxchildren[p] # 0 /\ first = NOID
    <2>1. PICK t \in TreeId : Invite(p, first, RootSession(t), maxdepth, t, rest)
      BY <1>3 DEF sendCommitReq
    <2>2. RootSession(t) \in ParentSession /\ maxdepth \in Depth
      BY TreeAssumption DEF RootSession, ParentSession, Depth
    <2>. QED
      BY <1>3, <2>1, <2>2, InviteInv
  <1>4. CASE maxchildren[p] # 0 /\ first # NOID
    <2>1. Invite(p, first, second, childDepth(second), tid, rest)
      BY <1>4 DEF sendCommitReq
    <2>2. childDepth(second) \in Depth
      BY <1>4, TreeAssumption DEF childDepth, Depth, ParentSession
    <2>. QED
      BY <1>4, <2>1, <2>2, InviteInv
  <1>. QED
    BY <1>2, <1>3, <1>4

-----------------------------------------------------------------------------
\* The tree timer expires in a READY prover, or in one that waits for an ack.
LEMMA MkTreeInv ==
  ASSUME Inv, NEW p \in Prover, mkTree(p)
  PROVE  Inv'
  <1>1. /\ TypeOK /\ Handshakes /\ LocalInv(p) /\ Phase(p) /\ Deadlines(p)
        /\ Sessions(p) /\ p \notin crashed
    BY InvParts DEF LocalInv, mkTree, Alive
  <1>2. status[p] \in {"READY", "ATTESTING"} /\ check[p] = Off
    <2>1. check[p] \in Nat \cup {Off} /\ mktree[p] = 0 /\ check[p] # 0
      BY <1>1 DEF TypeOK, TimerType, Timer, mkTree
    <2>. QED
      BY <1>1, <2>1 DEF Phase, Off
  <1>3. attest[p] # Off => timeoutack + Slack(p) <= attest[p]
    BY <1>1, SlackFacts, TimeAssumption DEF Deadlines, mkTree, Off
  <1>4. /\ mktree' \in [Prover -> Timer] /\ mktree'[p] = Off
        /\ \A q \in Prover : q # p => mktree'[q] = mktree[q]
    BY <1>1 DEF mkTree, TypeOK, TimerType, Timer
  <1>5. UNCHANGED <<maxchildren, attest, check, cackto, orphan, collector,
                    crashed, period, dropped>>
    BY DEF mkTree
  <1>6. CASE status[p] = "ATTESTING"
    <2>1. /\ status' = [status EXCEPT ![p] = "ATTESTING_CREATING"]
          /\ UNCHANGED <<sessions, report, crespto, net>>
      BY <1>6 DEF mkTree
    <2>2. TypeOK'
      BY <1>1, <1>4, <1>5, <2>1
      DEF TypeOK, SessionType, TimerType, ReportType, Status, sessions, report, collector
    <2>3. status'[p] = "ATTESTING_CREATING"
          /\ \A q \in Prover : q # p => status'[q] = status[q]
      BY <1>1, <2>1 DEF TypeOK, SessionType
    <2>4. ASSUME NEW q \in Prover PROVE LocalInv(q)'
      <3>1. CASE q # p
        <4>1. Same(q)
          BY <1>4, <1>5, <2>1, <2>3, <3>1 DEF Same, sessions, report
        <4>. QED
          BY <4>1, SameLocal, InvParts
      <3>2. CASE q = p
        <4>1. /\ pfirst' = pfirst /\ psecond' = psecond /\ csess' = csess
              /\ reported' = reported /\ crespto' = crespto /\ check' = check
              /\ cackto' = cackto /\ attest' = attest /\ crashed' = crashed
          BY <1>5, <2>1 DEF sessions, report
        <4>2. Sessions(p)'
          BY <1>1, <1>6, <2>3, <4>1 DEF Sessions, NoChildren
        <4>3. Phase(p)'
          BY <1>1, <1>2, <1>4, <1>6, <2>3, <4>1 DEF Phase
        <4>4. cackto[p].t # Off => cackto[p].t \in Nat /\ cackto[p].t <= timeoutack
          BY <1>1 DEF TypeOK, TimerType, Timer, Deadlines
        <4>5. attest[p] # Off => attest[p] \in Nat
          BY <1>1 DEF TypeOK, TimerType, Timer
        <4>6. /\ cackto[p].t # Off /\ attest[p] # Off
              => cackto[p].t + Slack(p) <= attest[p]
          BY <1>3, <4>4, <4>5, SlackFacts, TimeAssumption
        <4>7. Deadlines(p)'
          BY <1>1, <1>4, <4>1, <4>6 DEF Deadlines, Slack
        <4>. QED
          BY <3>2, <4>2, <4>3, <4>7 DEF LocalInv
      <3>. QED
        BY <3>1, <3>2
    <2>5. Handshakes'
      <3>1. ASSUME NEW m \in net', IsHandshake(m)
            PROVE  m \in net /\ HandshakeTimed(m)'
        <4>1. m \in net /\ pfirst' = pfirst /\ psecond' = psecond /\ attest' = attest
          BY <1>5, <2>1, <3>1 DEF sessions
        <4>. QED
          BY <1>6, <2>3, <3>1, <4>1, TimedKept DEF Opened
      <3>. QED
        BY <1>1, <3>1, HandshakesKept
    <2>. QED
      BY <2>2, <2>4, <2>5, InvParts DEF Inv, LocalInv
  <1>7. CASE status[p] = "READY"
    <2>1. sendCommitReq(p, pfirst[p], psecond[p], NOID, net)
      BY <1>7 DEF mkTree
    <2>2. pfirst[p] = NOID /\ NOID \in Dev /\ cackto[p].t = Off
      BY <1>1, <1>7 DEF Sessions, Phase, Dev
    <2>3. attest[p] # Off => Slack(p) <= attest[p]
      <3>1. attest[p] # Off => attest[p] \in Nat
        BY <1>1 DEF TypeOK, TimerType, Timer
      <3>. QED
        BY <1>3, <3>1, SlackFacts, TimeAssumption
    <2>4. Framed(p)
      <3>1. /\ crespto' \in [Prover -> [treeID : TreeId \cup {NOID}, t : Timer]]
            /\ \A q \in Prover : q # p => crespto'[q] = crespto[q]
        BY <1>1, <2>1, <2>2, RespTimeOutType
      <3>. QED
        BY <1>1, <1>4, <1>5, <3>1 DEF Framed, TypeOK, TimerType, ReportType
    <2>. QED
      BY <1>1, <1>2, <1>4, <1>5, <1>7, <2>1, <2>2, <2>3, <2>4, SendCommitReqInv
  <1>. QED
    BY <1>2, <1>6, <1>7

\* A step of one prover that sends no frame of a handshake.
LEMMA LocalStepInv ==
  ASSUME Inv, NEW p \in Prover, TypeOK', LocalInv(p)', attest' = attest,
         \A q \in Prover : q # p => Same(q),
         status[p] \in Opened => status'[p] \in Opened,
         \/ pfirst'[p] = NOID
         \/ /\ pfirst'[p] = pfirst[p] /\ psecond'[p] = psecond[p]
            /\ \/ status'[p] = status[p]
               \/ status'[p] = "ATTESTING_CREATING",
         \A m \in net' : IsHandshake(m) => m \in net
  PROVE  Inv'
  <1>1. \A q \in Prover : LocalInv(q)'
    BY SameLocal, InvParts
  <1>2. ASSUME NEW m \in net', IsHandshake(m)
        PROVE  m \in net /\ HandshakeTimed(m)'
    BY <1>2, TimedKept DEF Same
  <1>3. Handshakes'
    BY <1>2, HandshakesKept DEF Inv
  <1>. QED
    BY <1>1, <1>3, InvParts DEF Inv, LocalInv

\* The ack did not come: the prover is READY again or opens its own tree.
LEMMA AckTimeOutInv ==
  ASSUME Inv, NEW p \in Prover, handleCommitAckTimeOut(p)
  PROVE  Inv'
  <1>1. /\ TypeOK /\ Phase(p) /\ Deadlines(p) /\ Sessions(p) /\ p \notin crashed
        /\ cackto[p].t = 0
    BY InvParts DEF LocalInv, handleCommitAckTimeOut, Alive
  <1>2. /\ status[p] \in {"ATTESTING", "ATTESTING_CREATING"}
        /\ cackto[p].dev = pfirst[p] /\ check[p] = Off
    BY <1>1 DEF Phase, Sessions, Off
  <1>3. /\ cackto' \in [Prover -> [dev : Dev, t : Timer]] /\ cackto'[p].t = Off
        /\ \A q \in Prover : q # p => cackto'[q] = cackto[q]
    BY <1>1 DEF handleCommitAckTimeOut, TypeOK, TimerType, Timer
  <1>4. UNCHANGED <<maxchildren, attest, check, mktree, orphan, collector,
                    crashed, period, dropped>>
    BY DEF handleCommitAckTimeOut
  <1>5. CASE status[p] = "ATTESTING_CREATING"
    <2>1. sendCommitReq(p, NOID, Null, NOID, net) /\ NOID \in Dev
      BY <1>2, <1>5 DEF handleCommitAckTimeOut, Dev
    <2>2. attest[p] # Off => Slack(p) <= attest[p]
      BY <1>1, <1>5, SlackFacts DEF Phase, Deadlines, Off
    <2>3. Framed(p)
      <3>1. /\ crespto' \in [Prover -> [treeID : TreeId \cup {NOID}, t : Timer]]
            /\ \A q \in Prover : q # p => crespto'[q] = crespto[q]
        BY <1>1, <2>1, RespTimeOutType
      <3>. QED
        BY <1>1, <1>3, <1>4, <3>1 DEF Framed, TypeOK, TimerType, ReportType
    <2>4. check'[p] = Off /\ mktree'[p] = Off
      BY <1>1, <1>2, <1>4, <1>5 DEF Phase
    <2>. QED
      BY <1>1, <1>3, <1>5, <2>1, <2>2, <2>3, <2>4, SendCommitReqInv
  <1>6. CASE status[p] = "ATTESTING"
    <2>1. /\ status' = [status EXCEPT ![p] = "READY"]
          /\ dropParent(p)
          /\ UNCHANGED <<csess, report, crespto, net>>
      BY <1>2, <1>6 DEF handleCommitAckTimeOut
    <2>2. /\ status' \in [Prover -> Status] /\ pfirst' \in [Prover -> Dev]
          /\ psecond' \in [Prover -> ParentSession \cup {Null}]
          /\ status'[p] = "READY" /\ pfirst'[p] = NOID /\ psecond'[p] = Null
          /\ \A q \in Prover : q # p => /\ status'[q] = status[q]
                                        /\ pfirst'[q] = pfirst[q]
                                        /\ psecond'[q] = psecond[q]
      BY <1>1, <2>1 DEF TypeOK, SessionType, Status, dropParent, Dev
    <2>3. TypeOK'
      BY <1>1, <1>3, <1>4, <2>1, <2>2
      DEF TypeOK, SessionType, TimerType, ReportType, report, collector
    <2>4. \A q \in Prover : q # p => Same(q)
      BY <1>3, <1>4, <2>1, <2>2 DEF Same, report
    <2>5. LocalInv(p)'
      <3>1. /\ csess' = csess /\ reported' = reported /\ crespto' = crespto
            /\ check' = check /\ mktree' = mktree /\ attest' = attest
        BY <1>4, <2>1 DEF report
      <3>2. Sessions(p)'
        BY <1>1, <1>6, <2>2, <3>1, ProverAssumption DEF Sessions, NoChildren
      <3>3. Phase(p)' /\ Deadlines(p)'
        BY <1>1, <1>3, <1>6, <2>2, <3>1 DEF Phase, Deadlines, Slack
      <3>. QED
        BY <3>2, <3>3 DEF LocalInv
    <2>. QED
      BY <1>4, <1>6, <2>1, <2>2, <2>3, <2>4, <2>5, LocalStepInv DEF Opened
  <1>. QED
    BY <1>2, <1>5, <1>6

\* No more children: the prover sends its report or awaits those it has.
LEMMA RespTimeOutInv ==
  ASSUME Inv, NEW p \in Prover, handleCommitRespTimeOut(p)
  PROVE  Inv'
  <1>1. /\ TypeOK /\ Phase(p) /\ Deadlines(p) /\ Sessions(p) /\ p \notin crashed
        /\ crespto[p].t = 0
    BY InvParts DEF LocalInv, handleCommitRespTimeOut, Alive
  <1>2. /\ status[p] \in Opened /\ crespto[p].treeID \in TreeId
        /\ check[p] = Off /\ mktree[p] = Off /\ cackto[p].t = Off
    BY <1>1 DEF Phase, Off, Opened
  <1>3. /\ crespto' \in [Prover -> [treeID : TreeId \cup {NOID}, t : Timer]]
        /\ crespto'[p].t = Off
        /\ \A q \in Prover : q # p => crespto'[q] = crespto[q]
    BY <1>1 DEF handleCommitRespTimeOut, TypeOK, TimerType, Timer
  <1>4. UNCHANGED <<maxchildren, attest, check, mktree, cackto, orphan,
                    collector, crashed, period, dropped>>
    BY DEF handleCommitRespTimeOut
  <1>5. CASE size(csess[p]) = 1
    <2>1. sendUpReq(p, pfirst[p], crespto[p].treeID, csess[p], aggreport[p], net)
      BY <1>5 DEF handleCommitRespTimeOut
    <2>2. /\ pfirst[p] \in Dev /\ csess[p] \in ChildMap
          /\ aggreport[p] \in Reports
      BY <1>1 DEF TypeOK, SessionType, ReportType, ChildMap
    <2>3. closeTree(csess[p]) = NoChildren
      BY <1>1, <1>5, <2>2, LastSession DEF Sessions
    <2>4. Framed(p) /\ Quiet(p)
      BY <1>1, <1>2, <1>3, <1>4 DEF Framed, Quiet, TypeOK, TimerType, ReportType
    <2>. QED
      BY <1>1, <1>2, <2>1, <2>2, <2>3, <2>4, SendUpReqInv
  <1>6. CASE size(csess[p]) # 1
    <2>1. /\ status' = [status EXCEPT ![p] = "COLLECTING"]
          /\ UNCHANGED <<sessions, report, net>>
      BY <1>6 DEF handleCommitRespTimeOut
    <2>2. /\ status' \in [Prover -> Status] /\ status'[p] = "COLLECTING"
          /\ \A q \in Prover : q # p => status'[q] = status[q]
      BY <1>1, <2>1 DEF TypeOK, SessionType, Status
    <2>3. TypeOK'
      BY <1>1, <1>3, <1>4, <2>1, <2>2
      DEF TypeOK, SessionType, TimerType, ReportType, sessions, report, collector
    <2>4. \A q \in Prover : q # p => Same(q)
      BY <1>3, <1>4, <2>1, <2>2 DEF Same, sessions, report
    <2>5. pfirst' = pfirst /\ psecond' = psecond /\ csess' = csess
          /\ reported' = reported
      BY <2>1 DEF sessions, report
    <2>6. LocalInv(p)'
      <3>1. Sessions(p)'
        BY <1>1, <2>2, <2>5 DEF Sessions, NoChildren
      <3>2. Phase(p)' /\ Deadlines(p)'
        BY <1>1, <1>2, <1>3, <1>4, <2>2 DEF Phase, Deadlines
      <3>. QED
        BY <3>1, <3>2 DEF LocalInv
    <2>7. \A m \in net : IsHandshake(m) => HandshakeTimed(m)'
      <3>1. ASSUME NEW m \in net, IsHandshake(m) PROVE HandshakeTimed(m)'
        <4>1. HandshakeTimed(m) /\ Opener(m) \in Prover /\ Invited(m) \in Prover
          BY <1>1, <3>1, HandshakeType DEF TypeOK, Inv, Handshakes
        <4>2. Invited(m) = p => m.kind = "CMRQ" \/ pfirst[p] # Opener(m)
          BY <1>2, <4>1 DEF HandshakeTimed, Opened
        <4>. QED
          BY <1>4, <2>2, <2>5, <4>1, <4>2 DEF HandshakeTimed, Left
      <3>. QED
        BY <3>1
    <2>8. Handshakes'
      BY <2>1, <2>7, HandshakesKept DEF Inv
    <2>. QED
      BY <2>3, <2>4, <2>6, <2>8, SameLocal, InvParts DEF Inv, LocalInv
  <1>. QED
    BY <1>5, <1>6

\* The timeouts of a prover's sessions are those of its children.
LEMMA SessionTimeoutsType ==
  ASSUME TypeOK, NEW p \in Prover, Sessions(p)
  PROVE  SessionTimeouts(p) \subseteq [dev : Prover, treeID : TreeId, t : Timer]
  <1>1. ASSUME NEW d \in Members(csess[p]), csess[p][d].tomsg # Off
        PROVE  /\ d \in Prover /\ csess[p][d].treeID \in TreeId
               /\ csess[p][d].tomsg \in Timer
    <2>1. d \in Dev /\ csess[p][d] \in ChildSession
      BY <1>1 DEF Members, TypeOK, SessionType
    <2>2. csess[p] # NoChildren
      BY <1>1 DEF Members, NoChildren
    <2>3. d # NOID
      BY <1>1, <2>2 DEF Sessions
    <2>. QED
      BY <2>1, <2>3 DEF Dev, ChildSession
  <1>. QED
    BY <1>1 DEF SessionTimeouts

\* A child's session is closed: the sessions that remain, and what sending
\* the report leaves of them when only that of the tree remains.
LEMMA CloseChild ==
  ASSUME TypeOK, NEW p \in Prover, Sessions(p), NEW d \in Prover
  PROVE  LET cs == [csess[p] EXCEPT ![d] = Null] IN
         /\ cs \in ChildMap
         /\ csess[p][NOID] = cs[NOID]
         /\ cs # NoChildren <=> csess[p] # NoChildren
         /\ size(cs) = 1 => csess[p] # NoChildren /\ closeTree(cs) = NoChildren
  <1>. DEFINE cs == [csess[p] EXCEPT ![d] = Null]
  <1>1. csess[p] \in ChildMap /\ cs \in ChildMap /\ csess[p][NOID] = cs[NOID]
    BY ProverAssumption DEF TypeOK, SessionType, ChildMap, Dev
  <1>2. csess[p] # NoChildren => cs # NoChildren
    BY <1>1 DEF Sessions, NoChildren, Dev
  <1>3. csess[p] = NoChildren => cs = NoChildren
    BY <1>1 DEF ChildMap, NoChildren
  <1>4. size(cs) = 1 => csess[p] # NoChildren /\ closeTree(cs) = NoChildren
    <2>. HIDE DEF cs
    <2>. QED
      BY <1>1, <1>3, LastSession DEF Sessions
  <1>. QED
    BY <1>1, <1>2, <1>3, <1>4

\* A child is given up, or the timeout of a deleted session fires.
LEMMA UpdateTimeOutInv ==
  ASSUME Inv, NEW p \in Prover, handleUpdateTimeOut(p)
  PROVE  Inv'
  <1>1. /\ TypeOK /\ Phase(p) /\ Deadlines(p) /\ Sessions(p) /\ p \notin crashed
    BY InvParts DEF LocalInv, handleUpdateTimeOut, Alive
  <1>2. UNCHANGED <<maxchildren, attest, check, mktree, cackto, crespto,
                    collector, crashed, period, dropped>>
    BY DEF handleUpdateTimeOut
  <1>. DEFINE cs(d) == [csess[p] EXCEPT ![d] = Null]
              gone(d, t) == [dev |-> d, treeID |-> t, t |-> 0]
  <1>3. PICK d \in Prover, t \in TreeId :
           /\ \/ orphan' = orphan
              \/ orphan' = [orphan EXCEPT
                              ![p] = (@ \ {gone(d, t)})
                                     \cup {o \in SessionTimeouts(p) : o.dev = d}]
           /\ IF size(cs(d)) = 1
              THEN sendUpReq(p, pfirst[p], t, cs(d), aggreport[p], net)
              ELSE /\ csess' = [csess EXCEPT ![p] = cs(d)]
                   /\ UNCHANGED <<status, pfirst, psecond, report, net>>
    BY DEF handleUpdateTimeOut
  <1>4. orphan' \in [Prover -> SUBSET [dev : Prover, treeID : TreeId, t : Timer]]
    <2>. HIDE DEF gone
    <2>1. {o \in SessionTimeouts(p) : o.dev = d}
             \subseteq [dev : Prover, treeID : TreeId, t : Timer]
      BY <1>1, SessionTimeoutsType
    <2>. QED
      BY <1>1, <1>3, <2>1 DEF TypeOK, TimerType
  <1>5. Framed(p)
    BY <1>1, <1>2, <1>4 DEF Framed, TypeOK, TimerType, ReportType
  <1>6. /\ cs(d) \in ChildMap /\ csess[p][NOID] = cs(d)[NOID]
        /\ cs(d) # NoChildren <=> csess[p] # NoChildren
        /\ size(cs(d)) = 1 => /\ csess[p] # NoChildren
                              /\ closeTree(cs(d)) = NoChildren
    BY <1>1, CloseChild
  <1>. HIDE DEF cs
  <1>7. CASE size(cs(d)) = 1
    <2>1. sendUpReq(p, pfirst[p], t, cs(d), aggreport[p], net)
      BY <1>3, <1>7
    <2>2. pfirst[p] \in Dev /\ aggreport[p] \in Reports
      BY <1>1 DEF TypeOK, SessionType, ReportType
    <2>3. Quiet(p)
      BY <1>1, <1>2, <1>6, <1>7 DEF Quiet, Sessions, Phase
    <2>. QED
      BY <1>1, <1>5, <1>6, <1>7, <2>1, <2>2, <2>3, SendUpReqInv
  <1>8. CASE size(cs(d)) # 1
    <2>1. /\ csess' = [csess EXCEPT ![p] = cs(d)]
          /\ UNCHANGED <<status, pfirst, psecond, report, net>>
      BY <1>3, <1>8
    <2>2. /\ csess' \in [Prover -> ChildMap] /\ csess'[p] = cs(d)
          /\ \A q \in Prover : q # p => csess'[q] = csess[q]
      BY <1>1, <1>6, <2>1 DEF TypeOK, SessionType, ChildMap
    <2>3. TypeOK'
      BY <1>1, <1>2, <1>5, <2>1, <2>2
      DEF TypeOK, SessionType, ReportType, Framed, report, collector, ChildMap
    <2>4. \A q \in Prover : q # p => Same(q)
      BY <1>2, <2>1, <2>2 DEF Same, report
    <2>5. LocalInv(p)'
      <3>1. Sessions(p)'
        BY <1>1, <1>2, <1>6, <2>1, <2>2 DEF Sessions, NoChildren, report
      <3>2. Phase(p)' /\ Deadlines(p)'
        BY <1>1, <1>2, <2>1 DEF Phase, Deadlines
      <3>. QED
        BY <3>1, <3>2 DEF LocalInv
    <2>. QED
      BY <1>2, <2>1, <2>3, <2>4, <2>5, LocalStepInv
  <1>. QED
    BY <1>7, <1>8

-----------------------------------------------------------------------------
\* A frame is taken off the network, or a report replaced, and no prover moves.
LEMMA StayInv ==
  ASSUME Inv, TypeOK',
         UNCHANGED <<status, sessions, report, attest, check, mktree, cackto,
                     crespto, crashed>>,
         \A m \in net' : IsHandshake(m) => m \in net
  PROVE  Inv'
  <1>1. \A q \in Prover : Same(q)
    BY DEF Same, sessions, report
  <1>2. \A q \in Prover : LocalInv(q)'
    BY <1>1, SameLocal, InvParts
  <1>3. \A m \in net : IsHandshake(m) => HandshakeTimed(m)'
    BY DEF Inv, Handshakes, HandshakeTimed, sessions, Left
  <1>4. Handshakes'
    BY <1>3, HandshakesKept DEF Inv
  <1>. QED
    BY <1>2, <1>4, InvParts DEF Inv, LocalInv

\* A handshake goes on: frame m is replaced by the next one, r.
LEMMA HandshakeGoesOn ==
  ASSUME Handshakes, NEW m \in net, IsHandshake(m), NEW r,
         net' = (net \ {m}) \cup {r},
         Opener(r) = Opener(m), Invited(r) = Invited(m), HandshakeTimed(r)',
         \A n \in net \ {m} : IsHandshake(n) => HandshakeTimed(n)'
  PROVE  Handshakes'
  <1>1. OneHandshake'
    BY DEF Handshakes, OneHandshake
  <1>. QED
    BY <1>1 DEF Handshakes

\* What a prover that receives a frame leaves alone.
Received(p) ==
    UNCHANGED <<maxchildren, attest, check, orphan, collector, crashed, period>>

\* The key of a session exists: the shared keys have a smallest one.
LEMMA SmallestKey ==
  ASSUME NEW S \in SUBSET Nat, S # {}
  PROVE  \E k \in S : \A l \in S : k <= l
  <1>1. PICK k \in S : \A l \in S : ~(<<l, k>> \in OpToRel(<, Nat))
    BY WFMin, NatLessThanWellFounded
  <1>2. \A l \in S : ~(l < k)
    BY <1>1 DEF OpToRel
  <1>. QED
    BY <1>2

\* A prover accepts or ignores an invitation.
LEMMA CommitReqInv ==
  ASSUME Inv, NEW p \in Prover, p \notin crashed, NEW m \in net,
         m.destination = p, handleCommitReq(p, m), Received(p)
  PROVE  Inv'
  <1>1. /\ TypeOK /\ Phase(p) /\ Deadlines(p) /\ Sessions(p) /\ Handshakes
    BY InvParts DEF LocalInv
  <1>2. m \in CommitReq
    BY <1>1 DEF handleCommitReq, TypeOK, Message, CommitReq, CommitResp, CommitAck, UpdateReq
  <1>3. UNCHANGED <<csess, report, mktree, crespto, dropped>>
    BY DEF handleCommitReq
  <1>4. CASE ~acceptsReq(p, m)
    <2>1. net' = net \ {m} /\ UNCHANGED <<pfirst, psecond, status, cackto>>
      BY <1>4 DEF handleCommitReq
    <2>2. TypeOK'
      BY <1>1, <1>3, <2>1 DEF TypeOK, SessionType, TimerType, ReportType, Received, report, collector
    <2>. QED
      BY <1>3, <2>1, <2>2, StayInv DEF Received, sessions
  <1>5. CASE acceptsReq(p, m)
    <2>. DEFINE kid == CHOOSE k \in Shared(p, m) : \A l \in Shared(p, m) : k <= l
                r == [kind |-> "CMRP", source |-> p, destination |-> m.source,
                      kid |-> kid, treeID |-> m.treeID, ttl |-> MaxDelay]
                sess == [treeID |-> m.treeID, keyID |-> kid, depth |-> m.depth]
    <2>1. /\ pfirst' = [pfirst EXCEPT ![p] = m.source]
          /\ psecond' = [psecond EXCEPT ![p] = sess]
          /\ status' = [status EXCEPT ![p] = "ATTESTING"]
          /\ net' = (net \ {m}) \cup {r}
          /\ cackto' = [cackto EXCEPT ![p] = [dev |-> m.source, t |-> timeoutack]]
      BY <1>5 DEF handleCommitReq
    <2>2. status[p] = "READY"
      BY <1>5 DEF acceptsReq
    <2>3. kid \in Key
      <3>1. Shared(p, m) \subseteq Key /\ Shared(p, m) # {}
        BY <1>2, <1>5, KeyAssumption DEF Shared, acceptsReq, CommitReq
      <3>2. \E k \in Shared(p, m) : \A l \in Shared(p, m) : k <= l
        BY <3>1, KeyAssumption, SmallestKey
      <3>. QED
        BY <3>1, <3>2
    <2>. HIDE DEF kid
    <2>4. /\ m.source \in Prover /\ m.treeID \in TreeId /\ m.depth \in Depth
          /\ m.ttl \in Nat /\ MaxDelay \in Nat /\ m.kind = "CMRQ"
      BY <1>2, TimeAssumption DEF CommitReq
    <2>5. r \in CommitResp /\ sess \in ParentSession
      BY <2>3, <2>4 DEF CommitResp, ParentSession
    <2>6. /\ Opener(r) = m.source /\ Opener(m) = m.source /\ Invited(r) = p
          /\ Invited(m) = p /\ r.kind = "CMRP" /\ r.treeID = m.treeID
          /\ Left(r) <= Left(m) /\ IsHandshake(m)
          /\ Left(r) \in Nat /\ Left(m) \in Nat
      BY <2>4 DEF Opener, Invited, Left, IsHandshake
    <2>. HIDE DEF r
    <2>7. /\ status' \in [Prover -> Status] /\ pfirst' \in [Prover -> Dev]
          /\ psecond' \in [Prover -> ParentSession \cup {Null}]
          /\ status'[p] = "ATTESTING" /\ pfirst'[p] = m.source
          /\ psecond'[p] = sess
          /\ \A q \in Prover : q # p => /\ status'[q] = status[q]
                                        /\ pfirst'[q] = pfirst[q]
                                        /\ psecond'[q] = psecond[q]
      BY <1>1, <2>1, <2>4, <2>5 DEF TypeOK, SessionType, Status, Dev
    <2>8. /\ cackto' \in [Prover -> [dev : Dev, t : Timer]]
          /\ cackto'[p] = [dev |-> m.source, t |-> timeoutack]
          /\ \A q \in Prover : q # p => cackto'[q] = cackto[q]
      BY <1>1, <2>1, <2>4, TimeAssumption DEF TypeOK, TimerType, Timer, Dev
    <2>9. TypeOK'
      BY <1>1, <1>3, <2>1, <2>5, <2>7, <2>8
      DEF TypeOK, SessionType, TimerType, ReportType, Received, report, collector, Message
    <2>10. \A q \in Prover : q # p => Same(q)
      BY <1>3, <2>7, <2>8 DEF Same, Received, report
    <2>11. LocalInv(p)'
      <3>1. /\ csess' = csess /\ reported' = reported /\ check' = check
            /\ mktree' = mktree /\ crespto' = crespto /\ attest' = attest
        BY <1>3 DEF Received, report
      <3>2. psecond'[p] # Null
        BY <2>5, <2>7, NullAssumption
      <3>3. Sessions(p)'
        BY <1>1, <2>2, <2>4, <2>7, <2>8, <3>1, <3>2, ProverAssumption DEF Sessions, NoChildren
      <3>4. Phase(p)'
        BY <1>1, <2>2, <2>7, <2>8, <3>1, TimeAssumption DEF Phase, Off
      <3>5. Deadlines(p)'
        BY <1>1, <2>2, <2>8, <3>1, TimeAssumption DEF Deadlines, Phase, Slack
      <3>. QED
        BY <3>3, <3>4, <3>5 DEF LocalInv
    <2>12. HandshakeTimed(m) /\ m.source # p
      BY <1>1, <2>2, <2>6 DEF Handshakes, HandshakeTimed
    <2>13. HandshakeTimed(r)'
      <3>1. attest' = attest /\ (attest[m.source] # Off => attest[m.source] \in Nat)
        BY <1>1, <2>4 DEF Received, TypeOK, TimerType, Timer
      <3>2. attest[m.source] # Off => Left(r) < attest[m.source]
        BY <2>6, <2>12, <3>1 DEF HandshakeTimed
      <3>3. status'[m.source] \in {"CREATING", "COLLECTING", "FINISHED"}
        BY <2>4, <2>6, <2>7, <2>12 DEF HandshakeTimed
      <3>. QED
        BY <2>6, <2>7, <3>1, <3>2, <3>3 DEF HandshakeTimed, Left
    <2>14. ASSUME NEW n \in net \ {m}, IsHandshake(n) PROVE HandshakeTimed(n)'
      <3>1. HandshakeTimed(n) /\ Opener(n) \in Prover /\ Invited(n) \in Prover
        BY <1>1, <2>14, HandshakeType DEF Handshakes, TypeOK
      <3>2. Opener(n) # p
        BY <2>2, <3>1 DEF HandshakeTimed
      <3>3. Invited(n) = p => Opener(n) # m.source
        BY <1>1, <2>6, <2>14 DEF Handshakes, OneHandshake
      <3>. QED
        BY <2>7, <3>1, <3>2, <3>3 DEF HandshakeTimed, Received, Left
    <2>15. Handshakes'
      BY <1>1, <2>1, <2>6, <2>13, <2>14, HandshakeGoesOn
    <2>. QED
      BY <2>9, <2>10, <2>11, <2>15, SameLocal, InvParts DEF Inv, LocalInv
  <1>. QED
    BY <1>4, <1>5

\* An ack that is accepted is the last frame of the handshake the prover waits
\* on; the prover reports or invites in turn.
LEMMA CommitAckInv ==
  ASSUME Inv, NEW p \in Prover, p \notin crashed, NEW m \in net,
         m.destination = p, handleCommitAck(p, m), Received(p)
  PROVE  Inv'
  <1>1. /\ TypeOK /\ Phase(p) /\ Deadlines(p) /\ Sessions(p) /\ Handshakes
    BY InvParts DEF LocalInv
  <1>2. m \in CommitAck
    BY <1>1 DEF handleCommitAck, TypeOK, Message, CommitReq, CommitResp, CommitAck, UpdateReq
  <1>3. dropped' = dropped
    BY DEF handleCommitAck
  <1>4. CASE ~acceptsAck(p, m)
    <2>1. /\ net' = net \ {m}
          /\ UNCHANGED <<status, sessions, report, mktree, cackto, crespto>>
      BY <1>4 DEF handleCommitAck
    <2>2. TypeOK'
      BY <1>1, <1>3, <2>1
      DEF TypeOK, SessionType, TimerType, ReportType, Received, sessions, report, collector
    <2>. QED
      BY <2>1, <2>2, StayInv DEF Received
  <1>5. CASE acceptsAck(p, m)
    <2>. DEFINE rest == net \ {m}
    <2>1. /\ mktree' = [mktree EXCEPT ![p] = Off]
          /\ cackto' = [cackto EXCEPT ![p].t = Off]
          /\ IF isLeaf(p)
             THEN /\ sendUpReq(p, m.source, m.treeID, csess[p], aggreport[p], rest)
                  /\ UNCHANGED crespto
             ELSE sendCommitReq(p, m.source, psecond[p], m.treeID, rest)
      BY <1>5 DEF handleCommitAck
    <2>2. /\ m.source \in Prover /\ m.source \in Dev /\ m.treeID \in TreeId
          /\ m.kind = "CMAK" /\ IsHandshake(m) /\ Opener(m) = m.source
          /\ Invited(m) = p /\ pfirst[p] = m.source
      BY <1>2, <1>5 DEF CommitAck, IsHandshake, Opener, Invited, acceptsAck, Dev
    <2>3. status[p] \in {"ATTESTING", "ATTESTING_CREATING"}
      BY <1>1, <2>2 DEF Handshakes, HandshakeTimed
    <2>4. csess[p] = NoChildren /\ check[p] = Off /\ psecond[p] \in ParentSession
      BY <1>1, <2>2, <2>3, ProverAssumption DEF Sessions, Phase, TypeOK, SessionType
    <2>5. /\ mktree' \in [Prover -> Timer] /\ mktree'[p] = Off
          /\ cackto' \in [Prover -> [dev : Dev, t : Timer]] /\ cackto'[p].t = Off
          /\ \A q \in Prover : q # p => mktree'[q] = mktree[q] /\ cackto'[q] = cackto[q]
      BY <1>1, <2>1 DEF TypeOK, TimerType, Timer
    <2>6. \A n \in rest : IsHandshake(n) => ~(Opener(n) = m.source /\ Invited(n) = p)
      BY <1>1, <2>2 DEF Handshakes, OneHandshake
    <2>7. attest[p] # Off => Slack(p) <= attest[p]
      <3>1. /\ attest[p] # Off => attest[p] \in Nat
            /\ mktree[p] # Off => mktree[p] \in Nat
            /\ cackto[p].t # Off /\ cackto[p].t \in Nat
        BY <1>1, <2>3 DEF TypeOK, TimerType, Timer, Phase
      <3>2. CASE mktree[p] = Off
        BY <1>1, <3>1, <3>2, SlackFacts DEF Deadlines
      <3>3. CASE mktree[p] # Off
        BY <1>1, <3>1, <3>3, SlackFacts, TimeAssumption DEF Deadlines
      <3>. QED
        BY <3>2, <3>3
    <2>. HIDE DEF rest
    <2>8. rest \in SUBSET net
      BY DEF rest
    <2>9. CASE isLeaf(p)
      <3>1. /\ sendUpReq(p, m.source, m.treeID, csess[p], aggreport[p], rest)
            /\ crespto' = crespto
        BY <2>1, <2>9
      <3>2. closeTree(csess[p]) = NoChildren
        BY <2>4 DEF closeTree, NoChildren
      <3>3. csess[p] \in ChildMap /\ aggreport[p] \in Reports
        BY <1>1 DEF TypeOK, SessionType, ReportType, ChildMap
      <3>4. Framed(p) /\ Quiet(p)
        BY <1>1, <1>3, <2>4, <2>5, <3>1
        DEF Framed, Quiet, Received, TypeOK, TimerType, ReportType
      <3>. QED
        BY <2>2, <2>8, <3>1, <3>2, <3>3, <3>4, SendUpReqInv
    <2>10. CASE ~isLeaf(p)
      <3>1. sendCommitReq(p, m.source, psecond[p], m.treeID, rest)
        BY <2>1, <2>10
      <3>2. psecond[p].depth > 1
        BY <2>4, <2>10, TreeAssumption DEF isLeaf, ParentSession, Depth
      <3>3. Framed(p)
        <4>1. /\ crespto' \in [Prover -> [treeID : TreeId \cup {NOID}, t : Timer]]
              /\ \A q \in Prover : q # p => crespto'[q] = crespto[q]
          BY <1>1, <2>2, <3>1, RespTimeOutType
        <4>. QED
          BY <1>1, <1>3, <2>5, <4>1
          DEF Framed, Received, TypeOK, TimerType, ReportType
      <3>4. check'[p] = Off
        BY <2>4 DEF Received
      <3>. QED
        BY <2>2, <2>3, <2>4, <2>5, <2>6, <2>7, <2>8, <3>1, <3>2, <3>3, <3>4,
           SendCommitReqInv
    <2>. QED
      BY <2>9, <2>10
  <1>. QED
    BY <1>4, <1>5

\* A response: its sender becomes a child and is sent an ack, or is ignored.
LEMMA CommitRespInv ==
  ASSUME Inv, NEW p \in Prover, p \notin crashed, NEW m \in net,
         m.destination = p, handleCommitResp(p, m), Received(p)
  PROVE  Inv'
  <1>1. /\ TypeOK /\ Phase(p) /\ Deadlines(p) /\ Sessions(p) /\ Handshakes
    BY InvParts DEF LocalInv
  <1>2. m \in CommitResp
    BY <1>1 DEF handleCommitResp, TypeOK, Message, CommitReq, CommitResp, CommitAck, UpdateReq
  <1>3. UNCHANGED <<pfirst, psecond, report, mktree, cackto, dropped>>
    BY DEF handleCommitResp
  <1>. DEFINE sess == [treeID |-> m.treeID, tomsg |-> updateDelay(p)]
              a == [kind |-> "CMAK", source |-> p, destination |-> m.source,
                    treeID |-> m.treeID, ttl |-> MaxDelay]
  <1>4. \/ net' = net \ {m} /\ UNCHANGED <<csess, status, crespto>>
        \/ /\ status[p] = "CREATING"
           /\ csess' = [csess EXCEPT ![p][m.source] = sess]
           /\ net' = (net \ {m}) \cup {a}
           /\ \/ UNCHANGED <<status, crespto>>
              \/ /\ status' = [status EXCEPT ![p] = "COLLECTING"]
                 /\ crespto' = [crespto EXCEPT ![p].t = Off]
    BY DEF handleCommitResp
  <1>5. CASE net' = net \ {m} /\ UNCHANGED <<csess, status, crespto>>
    <2>1. TypeOK'
      BY <1>1, <1>3, <1>5
      DEF TypeOK, SessionType, TimerType, ReportType, Received, report, collector
    <2>. QED
      BY <1>3, <1>5, <2>1, StayInv DEF Received, sessions
  <1>6. CASE /\ status[p] = "CREATING"
             /\ csess' = [csess EXCEPT ![p][m.source] = sess]
             /\ net' = (net \ {m}) \cup {a}
             /\ \/ UNCHANGED <<status, crespto>>
                \/ /\ status' = [status EXCEPT ![p] = "COLLECTING"]
                   /\ crespto' = [crespto EXCEPT ![p].t = Off]
    <2>1. /\ m.source \in Prover /\ m.source \in Dev /\ m.source # NOID
          /\ m.treeID \in TreeId /\ m.ttl \in Nat /\ MaxDelay \in Nat
          /\ m.kind = "CMRP"
      BY <1>2, TimeAssumption, ProverAssumption DEF CommitResp, Dev
    <2>2. sess \in ChildSession
      <3>1. psecond[p] \in ParentSession
        BY <1>1, <1>6 DEF Sessions, TypeOK, SessionType
      <3>2. psecond[p].depth - 1 \in Nat
        BY <3>1, TreeAssumption DEF ParentSession, Depth
      <3>3. updateDelay(p) \in Nat
        <4>1. \A d \in Nat : (timeoutack + timeoutresp) * d + timeoutup \in Nat
          BY TimeAssumption
        <4>. QED
          BY <3>2, <4>1 DEF updateDelay
      <3>. QED
        BY <2>1, <3>3 DEF ChildSession, Timer
    <2>3. a \in CommitAck
      BY <2>1 DEF CommitAck
    <2>4. /\ Opener(a) = p /\ Opener(m) = p /\ Invited(a) = m.source
          /\ Invited(m) = m.source /\ a.kind = "CMAK" /\ a.treeID = m.treeID
          /\ Left(a) <= Left(m) /\ Left(a) \in Nat /\ Left(m) \in Nat
          /\ IsHandshake(m)
      BY <2>1 DEF Opener, Invited, Left, IsHandshake
    <2>. HIDE DEF a, sess
    <2>5. /\ csess' \in [Prover -> ChildMap]
          /\ csess'[p][NOID] = csess[p][NOID]
          /\ \A q \in Prover : q # p => csess'[q] = csess[q]
      <3>1. csess \in [Prover -> ChildMap] /\ NOID \in Dev
        BY <1>1 DEF TypeOK, SessionType, ChildMap, Dev
      <3>2. csess' = [csess EXCEPT ![p] = [csess[p] EXCEPT ![m.source] = sess]]
        BY <1>6
      <3>3. [csess[p] EXCEPT ![m.source] = sess] \in ChildMap
        BY <2>1, <2>2, <3>1 DEF ChildMap
      <3>4. csess' \in [Prover -> ChildMap]
        BY <3>1, <3>2, <3>3
      <3>5. csess'[p][NOID] = csess[p][NOID]
        BY <2>1, <3>1, <3>2 DEF ChildMap
      <3>. QED
        BY <3>1, <3>2, <3>4, <3>5
    <2>6. /\ status' \in [Prover -> Status]
          /\ status'[p] \in {"CREATING", "COLLECTING"}
          /\ \A q \in Prover : q # p => status'[q] = status[q]
      BY <1>1, <1>6 DEF TypeOK, SessionType, Status
    <2>7. /\ crespto' \in [Prover -> [treeID : TreeId \cup {NOID}, t : Timer]]
          /\ \A q \in Prover : q # p => crespto'[q] = crespto[q]
          /\ \/ crespto'[p] = crespto[p] /\ status'[p] = status[p]
             \/ crespto'[p].t = Off /\ status'[p] = "COLLECTING"
      <3>1. CASE UNCHANGED <<status, crespto>>
        BY <1>1, <3>1 DEF TypeOK, TimerType
      <3>2. CASE /\ status' = [status EXCEPT ![p] = "COLLECTING"]
                 /\ crespto' = [crespto EXCEPT ![p].t = Off]
        BY <1>1, <3>2 DEF TypeOK, SessionType, TimerType, Timer
      <3>. QED
        BY <1>6, <3>1, <3>2
    <2>8. TypeOK'
      BY <1>1, <1>3, <1>6, <2>3, <2>5, <2>6, <2>7
      DEF TypeOK, SessionType, TimerType, ReportType, Received, report, collector,
          Message, ChildMap
    <2>9. \A q \in Prover : q # p => Same(q)
      BY <1>3, <2>5, <2>6, <2>7 DEF Same, Received, report
    <2>10. LocalInv(p)'
      <3>1. /\ pfirst' = pfirst /\ psecond' = psecond /\ reported' = reported
            /\ check' = check /\ mktree' = mktree /\ cackto' = cackto
            /\ attest' = attest
        BY <1>3 DEF Received, report
      <3>2. csess[p][NOID] # Null /\ csess[p][NOID].tomsg = Off /\ psecond[p] # Null
            /\ ~reported[p]
        BY <1>1, <1>6 DEF Sessions
      <3>3. csess'[p] # NoChildren
        BY <2>5, <3>2 DEF NoChildren, Dev
      <3>4. Sessions(p)'
        BY <1>1, <1>6, <2>5, <2>6, <3>1, <3>2, <3>3 DEF Sessions, NoChildren
      <3>5. Phase(p)' /\ Deadlines(p)'
        BY <1>1, <1>6, <2>6, <2>7, <3>1 DEF Phase, Deadlines, Slack
      <3>. QED
        BY <3>4, <3>5 DEF LocalInv
    <2>11. ASSUME NEW n \in net, IsHandshake(n) PROVE HandshakeTimed(n)'
      <3>1. HandshakeTimed(n) /\ Opener(n) \in Prover /\ Invited(n) \in Prover
        BY <1>1, <2>11, HandshakeType DEF Handshakes, TypeOK
      <3>2. n.kind # "CMRQ" /\ pfirst[Invited(n)] = Opener(n) => Invited(n) # p
        BY <1>6, <3>1 DEF HandshakeTimed
      <3>. QED
        BY <1>3, <2>6, <3>1, <3>2 DEF HandshakeTimed, Received, Left
    <2>12. HandshakeTimed(a)'
      <3>1. HandshakeTimed(m)'
        BY <2>4, <2>11
      <3>2. attest'[p] # Off => attest'[p] \in Nat
        BY <2>8 DEF TypeOK, TimerType, Timer
      <3>. QED
        BY <2>1, <2>4, <3>1, <3>2 DEF HandshakeTimed, Left
    <2>13. Handshakes'
      BY <1>1, <1>6, <2>4, <2>11, <2>12, HandshakeGoesOn
    <2>. QED
      BY <2>8, <2>9, <2>10, <2>13, SameLocal, InvParts DEF Inv, LocalInv
  <1>. QED
    BY <1>4, <1>5, <1>6

\* A report is passed on, dropped, or aggregated and perhaps sent on.
LEMMA UpReqInv ==
  ASSUME Inv, NEW p \in Prover, p \notin crashed, NEW m \in net,
         m.destination = p, handleUpReq(p, m), Received(p)
  PROVE  Inv'
  <1>1. /\ TypeOK /\ Phase(p) /\ Deadlines(p) /\ Sessions(p) /\ Handshakes
    BY InvParts DEF LocalInv
  <1>2. /\ m \in UpdateReq /\ m.kind = "UPRQ" /\ m.source \in Prover
        /\ m.report \in Reports /\ m.treeID \in TreeId
    BY <1>1 DEF handleUpReq, TypeOK, Message, CommitReq, CommitResp, CommitAck, UpdateReq
  <1>3. UNCHANGED <<mktree, cackto, crespto>>
    BY DEF handleUpReq
  <1>. DEFINE rest == net \ {m}
              cs == [csess[p] EXCEPT ![m.source] = Null]
              recs == aggreport[p] \cup m.report
              on == [m EXCEPT !.kind = "UPRQF", !.destination = Collector,
                              !.ttl = MaxDelay]
  <1>4. \/ /\ net' = rest \cup {on}
           /\ UNCHANGED <<status, sessions, report, dropped>>
        \/ /\ net' = rest /\ dropped' = dropped \cup m.report
           /\ UNCHANGED <<status, sessions, report>>
        \/ /\ status[p] \in {"COLLECTING", "CREATING"}
           /\ IF size(cs) = 1
              THEN sendUpReq(p, pfirst[p], m.treeID, cs, recs, rest)
              ELSE /\ csess' = [csess EXCEPT ![p] = cs]
                   /\ aggreport' = [aggreport EXCEPT ![p] = recs]
                   /\ net' = rest
                   /\ UNCHANGED <<status, pfirst, psecond, attestcount, reported>>
           /\ UNCHANGED dropped
    BY DEF handleUpReq
  <1>5. on \in Message /\ ~IsHandshake(on)
    <2>1. MaxDelay \in 0..MaxDelay
      BY TimeAssumption
    <2>. QED
      BY <1>2, <2>1 DEF Message, UpdateReq, IsHandshake
  <1>6. rest \in SUBSET net /\ recs \in Reports /\ pfirst[p] \in Dev
    BY <1>1, <1>2, FS_Union DEF TypeOK, SessionType, ReportType, Reports
  <1>7. /\ cs \in ChildMap /\ csess[p][NOID] = cs[NOID]
        /\ cs # NoChildren <=> csess[p] # NoChildren
        /\ size(cs) = 1 => csess[p] # NoChildren /\ closeTree(cs) = NoChildren
    BY <1>1, <1>2, CloseChild
  <1>. HIDE DEF on, cs, recs, rest
  <1>8. CASE /\ net' = rest \cup {on}
             /\ UNCHANGED <<status, sessions, report, dropped>>
    <2>1. TypeOK'
      BY <1>1, <1>3, <1>5, <1>6, <1>8
      DEF TypeOK, SessionType, TimerType, ReportType, Received, sessions, report, collector
    <2>. QED
      BY <1>3, <1>5, <1>6, <1>8, <2>1, StayInv DEF Received
  <1>9. CASE /\ net' = rest /\ dropped' = dropped \cup m.report
             /\ UNCHANGED <<status, sessions, report>>
    <2>1. TypeOK'
      BY <1>1, <1>2, <1>3, <1>6, <1>9
      DEF TypeOK, SessionType, TimerType, ReportType, Received, sessions, report, collector, Reports
    <2>. QED
      BY <1>3, <1>6, <1>9, <2>1, StayInv DEF Received
  <1>10. CASE /\ status[p] \in {"COLLECTING", "CREATING"} /\ size(cs) = 1
              /\ sendUpReq(p, pfirst[p], m.treeID, cs, recs, rest)
              /\ dropped' = dropped
    <2>1. Framed(p) /\ Quiet(p)
      BY <1>1, <1>3, <1>10
      DEF Framed, Quiet, Phase, Received, TypeOK, TimerType, ReportType
    <2>. QED
      BY <1>2, <1>6, <1>7, <1>10, <2>1, SendUpReqInv
  <1>11. CASE /\ csess' = [csess EXCEPT ![p] = cs]
              /\ aggreport' = [aggreport EXCEPT ![p] = recs]
              /\ net' = rest /\ dropped' = dropped
              /\ UNCHANGED <<status, pfirst, psecond, attestcount, reported>>
    <2>1. /\ csess' \in [Prover -> ChildMap] /\ csess'[p] = cs
          /\ \A q \in Prover : q # p => csess'[q] = csess[q]
      BY <1>1, <1>7, <1>11 DEF TypeOK, SessionType, ChildMap
    <2>2. aggreport' \in [Prover -> Reports]
      BY <1>1, <1>6, <1>11 DEF TypeOK, ReportType
    <2>3. TypeOK'
      BY <1>1, <1>3, <1>6, <1>11, <2>1, <2>2
      DEF TypeOK, SessionType, TimerType, ReportType, Received, collector, ChildMap
    <2>4. \A q \in Prover : q # p => Same(q)
      BY <1>3, <1>11, <2>1 DEF Same, Received
    <2>5. LocalInv(p)'
      <3>1. Sessions(p)'
        BY <1>1, <1>3, <1>7, <1>11, <2>1 DEF Sessions, NoChildren
      <3>2. Phase(p)' /\ Deadlines(p)'
        BY <1>1, <1>3, <1>11 DEF Phase, Deadlines, Received
      <3>. QED
        BY <3>1, <3>2 DEF LocalInv
    <2>. QED
      BY <1>6, <1>11, <2>3, <2>4, <2>5, LocalStepInv DEF Received
  <1>. QED
    BY <1>4, <1>8, <1>9, <1>10, <1>11

\* A frame arrives at a prover, alive or not.
LEMMA ReceiveInv ==
  ASSUME Inv, NEW p \in Prover, receive(p)
  PROVE  Inv'
  <1>1. PICK m \in net :
           /\ m.destination = p
           /\ \/ /\ p \in crashed
                 /\ net' = net \ {m}
                 /\ UNCHANGED <<status, sessions, report, mktree, cackto,
                                crespto, dropped>>
              \/ /\ p \notin crashed
                 /\ \/ handleCommitReq(p, m)
                    \/ handleCommitAck(p, m)
                    \/ handleCommitResp(p, m)
                    \/ handleUpReq(p, m)
           /\ Received(p)
    BY DEF receive, Received
  <1>2. CASE p \in crashed
    <2>1. TypeOK'
      BY <1>1, <1>2
      DEF Inv, TypeOK, SessionType, TimerType, ReportType, Received, sessions, report, collector
    <2>. QED
      BY <1>1, <1>2, <2>1, StayInv DEF Received
  <1>3. CASE p \notin crashed
    BY <1>1, <1>3, CommitReqInv, CommitAckInv, CommitRespInv, UpReqInv
  <1>. QED
    BY <1>2, <1>3

\* The collector takes a report.
LEMMA CollectInv ==
  ASSUME Inv, collect
  PROVE  Inv'
  <1>1. PICK m \in net :
           /\ m.destination = Collector /\ net' = net \ {m}
           /\ sum' = sum + Cardinality(m.report)
           /\ received' = received \cup m.report
    BY DEF collect
  <1>2. m.report \in Reports
    BY <1>1, ProverAssumption
    DEF Inv, TypeOK, Message, CommitReq, CommitResp, CommitAck, UpdateReq, Collector
  <1>3. Cardinality(m.report) \in Nat
    BY <1>2, FS_CardinalityType DEF Reports
  <1>4. TypeOK'
    BY <1>1, <1>2, <1>3
    DEF Inv, collect, TypeOK, SessionType, TimerType, ReportType, Reports, sessions, report,
        timers
  <1>. QED
    BY <1>1, <1>4, StayInv DEF collect, timers

\* A report that waits for the collector is forgotten.
LEMMA OverwriteInv ==
  ASSUME Inv, overwrite
  PROVE  Inv'
  <1>1. net' \subseteq net
    BY DEF overwrite
  <1>2. TypeOK'
    BY <1>1 DEF Inv, overwrite, TypeOK, SessionType, TimerType, ReportType,
                sessions, report, timers, collector
  <1>. QED
    BY <1>1, <1>2, StayInv DEF overwrite, timers

\* A prover runs out of energy.
LEMMA CrashInv ==
  ASSUME Inv, NEW p \in Prover, crash(p)
  PROVE  Inv'
  <1>1. TypeOK /\ Sessions(p) /\ Handshakes
    BY InvParts DEF LocalInv
  <1>. DEFINE off(c) == IF c = Null THEN Null ELSE [c EXCEPT !.tomsg = Off]
              cs == [d \in Dev |-> off(csess[p][d])]
  <1>2. /\ csess' = [csess EXCEPT ![p] = cs]
        /\ UNCHANGED <<status, maxchildren, pfirst, psecond, report, net,
                       collector, period, dropped>>
    BY DEF crash
  <1>3. \A c \in ChildSession : /\ off(c) \in ChildSession /\ off(c) # Null
                                /\ off(c).tomsg = Off
    BY NullAssumption DEF ChildSession, Timer
  <1>4. off(Null) = Null
    OBVIOUS
  <1>. HIDE DEF off
  <1>5. cs \in ChildMap
    BY <1>1, <1>3, <1>4 DEF TypeOK, SessionType, ChildMap
  <1>6. csess[p] = NoChildren => cs = NoChildren
    BY <1>4 DEF NoChildren
  <1>7. csess[p] # NoChildren => /\ cs[NOID] # Null /\ cs[NOID].tomsg = Off
                                 /\ cs # NoChildren
    BY <1>1, <1>3 DEF Sessions, TypeOK, SessionType, NoChildren, Dev
  <1>. HIDE DEF cs
  <1>8. /\ csess' \in [Prover -> ChildMap] /\ csess'[p] = cs
        /\ \A q \in Prover : q # p => csess'[q] = csess[q]
    BY <1>1, <1>2, <1>5 DEF TypeOK, SessionType, ChildMap
  <1>9. /\ attest' \in [Prover -> Timer] /\ check' \in [Prover -> Timer]
        /\ mktree' \in [Prover -> Timer] /\ attest'[p] = Off
        /\ \A q \in Prover : q # p => /\ attest'[q] = attest[q]
                                      /\ check'[q] = check[q]
                                      /\ mktree'[q] = mktree[q]
    BY <1>1 DEF crash, TypeOK, TimerType, Timer
  <1>10. /\ cackto' \in [Prover -> [dev : Dev, t : Timer]]
         /\ cackto'[p].dev = cackto[p].dev
         /\ \A q \in Prover : q # p => cackto'[q] = cackto[q]
    BY <1>1 DEF crash, TypeOK, TimerType, Timer
  <1>11. /\ crespto' \in [Prover -> [treeID : TreeId \cup {NOID}, t : Timer]]
         /\ \A q \in Prover : q # p => crespto'[q] = crespto[q]
    BY <1>1 DEF crash, TypeOK, TimerType, Timer
  <1>12. orphan' \in [Prover -> SUBSET [dev : Prover, treeID : TreeId, t : Timer]]
    BY <1>1 DEF crash, TypeOK, TimerType
  <1>13. TypeOK'
    BY <1>1, <1>2, <1>8, <1>9, <1>10, <1>11, <1>12
    DEF crash, TypeOK, SessionType, TimerType, ReportType, report, collector, ChildMap
  <1>14. \A q \in Prover : q # p => Same(q)
    BY <1>2, <1>8, <1>9, <1>10, <1>11 DEF Same, crash, report
  <1>15. LocalInv(p)'
    <2>1. Sessions(p)'
      BY <1>1, <1>2, <1>6, <1>7, <1>8, <1>10 DEF Sessions, NoChildren, report
    <2>2. p \in crashed'
      BY DEF crash
    <2>. QED
      BY <2>1, <2>2 DEF LocalInv
  <1>16. Handshakes'
    <2>1. ASSUME NEW m \in net', IsHandshake(m)
          PROVE  m \in net /\ HandshakeTimed(m)'
      <3>1. m \in net /\ HandshakeTimed(m)
        BY <1>1, <1>2, <2>1 DEF Handshakes
      <3>2. Opener(m) \in Prover
        BY <1>1, <2>1, <3>1, HandshakeType DEF TypeOK
      <3>. QED
        BY <1>2, <1>9, <3>1, <3>2 DEF HandshakeTimed, Left
    <2>. QED
      BY <1>1, <2>1, HandshakesKept
  <1>. QED
    BY <1>13, <1>14, <1>15, <1>16, SameLocal, InvParts DEF Inv, LocalInv

-----------------------------------------------------------------------------
\* A period starts: no handshake of the prover's last period is on its way and
\* no timeout but update timeouts is pending, although none was cancelled.
LEMMA StartAttestationInv ==
  ASSUME Inv, NEW p \in Prover, startAttestation(p)
  PROVE  Inv'
  <1>1. /\ TypeOK /\ Phase(p) /\ Deadlines(p) /\ Sessions(p) /\ Handshakes
        /\ attest[p] = 0 /\ p \notin crashed
    BY InvParts DEF LocalInv, startAttestation, Alive
  <1>2. PICK per \in Battery :
          /\ maxchildren' = IF statadapt
                            THEN [maxchildren EXCEPT
                                    ![p] = updateMaxChildren(p, per)]
                            ELSE maxchildren
          /\ mktree' = [mktree EXCEPT
                          ![p] = firmware[p] + IF statadapt
                                               THEN chooseTreeDelay(p, per)
                                               ELSE deltag]
    BY DEF startAttestation
  <1>3. /\ cackto[p].t = Off /\ crespto[p].t = Off
    <2>1. /\ cackto[p].t # Off => cackto[p].t \in Nat
          /\ crespto[p].t # Off => crespto[p].t \in Nat
          /\ mktree[p] # Off => mktree[p] \in Nat
      BY <1>1 DEF TypeOK, TimerType, Timer
    <2>2. mktree[p] = Off
      BY <1>1, <2>1, SlackFacts, TimeAssumption DEF Deadlines, Off
    <2>. QED
      BY <1>1, <2>1, <2>2, SlackFacts, TimeAssumption DEF Deadlines, Off
  <1>4. /\ status' \in [Prover -> Status] /\ pfirst' \in [Prover -> Dev]
        /\ psecond' \in [Prover -> ParentSession \cup {Null}]
        /\ status'[p] = "CHECKING" /\ pfirst'[p] = NOID
        /\ \A q \in Prover : q # p => /\ status'[q] = status[q]
                                      /\ pfirst'[q] = pfirst[q]
                                      /\ psecond'[q] = psecond[q]
    BY <1>1 DEF startAttestation, TypeOK, SessionType, Status, Dev
  <1>5. /\ csess' \in [Prover -> ChildMap] /\ csess'[p] = NoChildren
        /\ \A q \in Prover : q # p => csess'[q] = csess[q]
    BY <1>1 DEF startAttestation, TypeOK, SessionType, ChildMap, NoChildren
  <1>6. /\ aggreport' \in [Prover -> Reports]
        /\ reported' \in [Prover -> BOOLEAN] /\ ~reported'[p]
        /\ period' \in [Prover -> Nat]
        /\ \A q \in Prover : q # p => reported'[q] = reported[q]
    BY <1>1, FS_EmptySet DEF startAttestation, clearReport, TypeOK, ReportType, Reports
  <1>7. maxchildren' \in [Prover -> Nat]
    BY <1>1, <1>2, ChildLimitType DEF TypeOK, SessionType
  <1>8. /\ mktree' \in [Prover -> Timer] /\ mktree'[p] \in Nat
        /\ firmware[p] <= mktree'[p] /\ mktree'[p] <= firmware[p] + deltag
        /\ \A q \in Prover : q # p => mktree'[q] = mktree[q]
    <2>. DEFINE w == IF statadapt THEN chooseTreeDelay(p, per) ELSE deltag
    <2>1. w \in Nat /\ w <= deltag
      BY TreeDelayType, DeltagType
    <2>2. mktree' = [mktree EXCEPT ![p] = firmware[p] + w]
      BY <1>2
    <2>. HIDE DEF w
    <2>3. firmware[p] \in Nat
      BY TimeAssumption
    <2>. QED
      BY <1>1, <2>1, <2>2, <2>3, DeltagType DEF TypeOK, TimerType, Timer
  <1>9. /\ check' \in [Prover -> Timer] /\ check'[p] = firmware[p]
        /\ \A q \in Prover : q # p => check'[q] = check[q]
    BY <1>1, TimeAssumption DEF startAttestation, TypeOK, TimerType, Timer
  <1>10. /\ attest' \in [Prover -> Timer] /\ attest'[p] \in {Off, deltah}
         /\ \A q \in Prover : q # p => attest'[q] = attest[q]
    BY <1>1, TimeAssumption DEF startAttestation, TypeOK, TimerType, Timer
  <1>11. orphan' \in [Prover -> SUBSET [dev : Prover, treeID : TreeId, t : Timer]]
    BY <1>1, SessionTimeoutsType DEF startAttestation, TypeOK, TimerType
  <1>12. UNCHANGED <<attestcount, cackto, crespto, net, collector, crashed, dropped>>
    BY DEF startAttestation
  <1>13. TypeOK'
    BY <1>1, <1>4, <1>5, <1>6, <1>7, <1>8, <1>9, <1>10, <1>11, <1>12
    DEF TypeOK, SessionType, TimerType, ReportType, collector, ChildMap
  <1>14. \A q \in Prover : q # p => Same(q)
    BY <1>4, <1>5, <1>6, <1>8, <1>9, <1>10, <1>12 DEF Same
  <1>15. LocalInv(p)'
    <2>1. Sessions(p)'
      BY <1>4, <1>5, <1>6 DEF Sessions, NoChildren
    <2>2. Phase(p)'
      BY <1>3, <1>4, <1>8, <1>9, <1>12, TimeAssumption DEF Phase, Off
    <2>3. attest'[p] # Off
             => /\ check'[p] < attest'[p]
                /\ mktree'[p] + timeoutack + Slack(p) <= attest'[p]
      <3>1. /\ firmware[p] \in Nat /\ timeoutack \in Nat /\ timeoutresp \in Nat
            /\ timeoutack > 0 /\ deltag \in Nat /\ Slack(p) \in Int
            /\ Slack(p) > timeoutresp
            /\ deltah = Slack(p) + timeoutack + firmware[p] + deltag
        BY SlackFacts, DeltagType, TimeAssumption
      <3>. QED
        BY <1>8, <1>9, <1>10, <3>1
    <2>4. Deadlines(p)'
      BY <1>3, <1>12, <2>3 DEF Deadlines, Slack
    <2>. QED
      BY <2>1, <2>2, <2>4 DEF LocalInv
  <1>16. Handshakes'
    <2>1. ASSUME NEW m \in net', IsHandshake(m)
          PROVE  m \in net /\ HandshakeTimed(m)'
      <3>1. m \in net /\ HandshakeTimed(m)
        BY <1>1, <1>12, <2>1 DEF Handshakes
      <3>2. Opener(m) \in Prover /\ Invited(m) \in Prover /\ Left(m) \in Nat
        BY <1>1, <2>1, <3>1, HandshakeType DEF TypeOK
      <3>3. Opener(m) # p
        BY <1>1, <3>1, <3>2 DEF HandshakeTimed, Off
      <3>4. Opener(m) # NOID
        BY <3>2, ProverAssumption
      <3>. QED
        BY <1>4, <1>10, <3>1, <3>2, <3>3, <3>4 DEF HandshakeTimed, Left
    <2>. QED
      BY <1>1, <2>1, HandshakesKept
  <1>. QED
    BY <1>13, <1>14, <1>15, <1>16, SameLocal, InvParts DEF Inv, LocalInv

\* Time passes: every countdown and every frame's delay goes down by one.
LEMMA TickInv ==
  ASSUME Inv, Tick
  PROVE  Inv'
  <1>1. TypeOK /\ Handshakes /\ \A q \in Prover : LocalInv(q)
    BY InvParts
  <1>2. \A t \in Timer : dec(t) \in Timer
    BY DEF dec, Timer, Off
  <1>3. \A t \in Timer \ {0} : /\ dec(t) = Off <=> t = Off
                               /\ t # Off => dec(t) = t - 1 /\ dec(t) \in Nat
    BY DEF dec, Timer, Off
  <1>4. UNCHANGED <<status, maxchildren, pfirst, psecond, report, collector,
                    crashed, period, dropped>>
    BY DEF Tick
  <1>. DEFINE low(c) == IF c = Null THEN Null ELSE [c EXCEPT !.tomsg = dec(@)]
  <1>5. csess' = [p \in Prover |-> [d \in Dev |-> low(csess[p][d])]]
    BY DEF Tick
  <1>6. /\ \A c \in ChildSession : /\ low(c) \in ChildSession /\ low(c) # Null
                                   /\ c.tomsg = Off => low(c).tomsg = Off
        /\ low(Null) = Null
    BY <1>2, NullAssumption DEF ChildSession, dec, Off
  <1>. HIDE DEF low
  <1>7. csess' \in [Prover -> ChildMap]
    BY <1>1, <1>5, <1>6 DEF TypeOK, SessionType, ChildMap
  <1>. DEFINE older(m) == [m EXCEPT !.ttl = @ - 1]
  <1>8. net' = {older(m) : m \in net} /\ \A m \in net : m.ttl > 0
    BY DEF Tick
  <1>9. ASSUME NEW m \in Message, m.ttl > 0
        PROVE  /\ older(m) \in Message
               /\ older(m).kind = m.kind /\ older(m).treeID = m.treeID
               /\ older(m).source = m.source
               /\ older(m).destination = m.destination
               /\ older(m).ttl = m.ttl - 1 /\ m.ttl \in Nat
    <2>1. \A t \in 0..MaxDelay : t > 0 => t - 1 \in 0..MaxDelay /\ t \in Nat
      BY TimeAssumption
    <2>2. CASE m \in CommitReq
      BY <1>9, <2>1, <2>2 DEF CommitReq, Message
    <2>3. CASE m \in CommitResp
      BY <1>9, <2>1, <2>3 DEF CommitResp, Message
    <2>4. CASE m \in CommitAck
      BY <1>9, <2>1, <2>4 DEF CommitAck, Message
    <2>5. CASE m \in UpdateReq
      BY <1>9, <2>1, <2>5 DEF UpdateReq, Message
    <2>. QED
      BY <2>2, <2>3, <2>4, <2>5 DEF Message
  <1>. HIDE DEF older
  <1>10. TypeOK'
    <2>1. SessionType'
      BY <1>1, <1>4, <1>7 DEF TypeOK, SessionType, ChildMap
    <2>2. /\ attest' \in [Prover -> Timer] /\ check' \in [Prover -> Timer]
          /\ mktree' \in [Prover -> Timer]
      BY <1>1, <1>2 DEF Tick, TypeOK, TimerType
    <2>3. /\ cackto' \in [Prover -> [dev : Dev, t : Timer]]
          /\ crespto' \in [Prover -> [treeID : TreeId \cup {NOID}, t : Timer]]
      BY <1>1, <1>2 DEF Tick, TypeOK, TimerType
    <2>4. orphan' \in [Prover -> SUBSET [dev : Prover, treeID : TreeId, t : Timer]]
      <3>. DEFINE O == [dev : Prover, treeID : TreeId, t : Timer]
                  less(o) == [o EXCEPT !.t = dec(@)]
      <3>1. orphan' = [p \in Prover |-> {less(o) : o \in orphan[p]}]
        BY DEF Tick
      <3>2. \A o \in O : less(o) \in O
        BY <1>2
      <3>3. orphan \in [Prover -> SUBSET O]
        BY <1>1 DEF TypeOK, TimerType
      <3>. HIDE DEF O, less
      <3>4. orphan' \in [Prover -> SUBSET O]
        BY <3>1, <3>2, <3>3
      <3>. QED
        BY <3>4 DEF O
    <2>5. ReportType' /\ net' \subseteq Message
      BY <1>1, <1>4, <1>8, <1>9 DEF TypeOK, ReportType, report, collector
    <2>. QED
      BY <2>1, <2>2, <2>3, <2>4, <2>5 DEF TypeOK, TimerType
  <1>11. ASSUME NEW q \in Prover PROVE LocalInv(q)'
    <2>1. /\ attest[q] \in Timer \ {0} /\ check[q] \in Timer \ {0}
          /\ mktree[q] \in Timer \ {0} /\ cackto[q].t \in Timer \ {0}
          /\ crespto[q].t \in Timer \ {0}
      BY <1>1 DEF Tick, Countdowns, TypeOK, TimerType
    <2>2. /\ attest'[q] = dec(attest[q]) /\ check'[q] = dec(check[q])
          /\ mktree'[q] = dec(mktree[q])
          /\ cackto'[q].t = dec(cackto[q].t) /\ cackto'[q].dev = cackto[q].dev
          /\ crespto'[q].t = dec(crespto[q].t)
          /\ crespto'[q].treeID = crespto[q].treeID
      BY <1>1 DEF Tick, TypeOK, TimerType
    <2>3. /\ csess[q] = NoChildren <=> csess'[q] = NoChildren
          /\ csess[q] # NoChildren => /\ csess'[q][NOID] # Null
                                      /\ csess'[q][NOID].tomsg = Off
      <3>1. csess'[q] = [d \in Dev |-> low(csess[q][d])]
        BY <1>5
      <3>2. csess[q] = NoChildren => csess'[q] = NoChildren
        BY <1>6, <3>1 DEF NoChildren
      <3>3. csess[q] # NoChildren => /\ csess'[q][NOID] # Null
                                     /\ csess'[q][NOID].tomsg = Off
        <4>1. ASSUME csess[q] # NoChildren
              PROVE  csess[q][NOID] \in ChildSession /\ csess[q][NOID].tomsg = Off
          BY <1>1, <4>1 DEF LocalInv, Sessions, TypeOK, SessionType, Dev
        <4>. QED
          BY <1>6, <3>1, <4>1 DEF Dev
      <3>. QED
        BY <3>2, <3>3 DEF NoChildren, Dev
    <2>4. Sessions(q)'
      BY <1>1, <1>4, <2>2, <2>3 DEF LocalInv, Sessions, NoChildren, report
    <2>5. ASSUME q \notin crashed PROVE Phase(q)' /\ Deadlines(q)'
      <3>1. Phase(q) /\ Deadlines(q)
        BY <1>1, <2>5 DEF LocalInv
      <3>2. /\ dec(check[q]) = Off <=> check[q] = Off
            /\ dec(mktree[q]) = Off <=> mktree[q] = Off
            /\ dec(attest[q]) = Off <=> attest[q] = Off
            /\ dec(cackto[q].t) = Off <=> cackto[q].t = Off
            /\ dec(crespto[q].t) = Off <=> crespto[q].t = Off
        BY <1>3, <2>1
      <3>3. /\ check[q] # Off => check[q] \in Nat /\ dec(check[q]) = check[q] - 1
            /\ mktree[q] # Off => mktree[q] \in Nat /\ dec(mktree[q]) = mktree[q] - 1
            /\ attest[q] # Off => attest[q] \in Nat /\ dec(attest[q]) = attest[q] - 1
            /\ cackto[q].t # Off => cackto[q].t \in Nat /\ dec(cackto[q].t) = cackto[q].t - 1
            /\ crespto[q].t # Off => crespto[q].t \in Nat /\ dec(crespto[q].t) = crespto[q].t - 1
        BY <1>3, <2>1 DEF Timer
      <3>4. Phase(q)'
        BY <1>4, <2>2, <3>1, <3>2, <3>3 DEF Phase
      <3>5. /\ Slack(q) \in Int /\ timeoutack \in Nat /\ timeoutresp \in Nat
            /\ Slack(q)' = Slack(q)
        BY SlackFacts, TimeAssumption DEF Slack
      <3>6. Deadlines(q)'
        BY <2>2, <3>1, <3>2, <3>3, <3>5 DEF Deadlines
      <3>. QED
        BY <3>4, <3>6
    <2>. QED
      BY <1>4, <2>4, <2>5 DEF LocalInv
  <1>12. ASSUME NEW m \in net, IsHandshake(m)
         PROVE  HandshakeTimed(older(m))'
    <2>1. HandshakeTimed(m) /\ Opener(m) \in Prover /\ Left(m) \in Nat
      BY <1>1, <1>12, HandshakeType DEF Handshakes, TypeOK
    <2>2. /\ Opener(older(m)) = Opener(m) /\ Invited(older(m)) = Invited(m)
          /\ older(m).kind = m.kind /\ older(m).treeID = m.treeID
      BY <1>1, <1>8, <1>9 DEF Opener, Invited, TypeOK
    <2>3. Left(older(m)) = Left(m) - 1
      <3>1. m.ttl \in Nat /\ older(m).ttl = m.ttl - 1 /\ older(m).kind = m.kind
        BY <1>1, <1>8, <1>9 DEF TypeOK
      <3>. QED
        BY <3>1, TimeAssumption DEF Left
    <2>4. /\ attest[Opener(m)] \in Timer \ {0}
          /\ attest'[Opener(m)] = dec(attest[Opener(m)])
      BY <1>1, <2>1 DEF Tick, Countdowns, TypeOK, TimerType
    <2>5. attest'[Opener(m)] # Off => Left(older(m)) < attest'[Opener(m)]
      <3>1. attest'[Opener(m)] # Off
               => /\ attest[Opener(m)] # Off /\ attest[Opener(m)] \in Nat
                  /\ attest'[Opener(m)] = attest[Opener(m)] - 1
        BY <1>3, <2>4 DEF Timer
      <3>. QED
        BY <2>1, <2>3, <3>1 DEF HandshakeTimed
    <2>. QED
      BY <1>4, <2>1, <2>2, <2>5 DEF HandshakeTimed, Left
  <1>13. ASSUME NEW n \in net'
         PROVE  \E m \in net : /\ n = older(m)
                               /\ IsHandshake(n) <=> IsHandshake(m)
                               /\ Opener(n) = Opener(m) /\ Invited(n) = Invited(m)
    <2>1. PICK m \in net : n = older(m)
      BY <1>8, <1>13
    <2>. QED
      BY <1>1, <1>8, <1>9, <2>1 DEF Opener, Invited, TypeOK, IsHandshake
  <1>14. Handshakes'
    BY <1>1, <1>12, <1>13 DEF Handshakes, OneHandshake
  <1>. QED
    BY <1>10, <1>11, <1>14, InvParts DEF Inv, LocalInv

-----------------------------------------------------------------------------
\* Inv is inductive: every step of the provers, of the collector and of time
\* preserves it.
THEOREM NextInv == Inv /\ [Next]_vars => Inv'
  <1>. SUFFICES ASSUME Inv, [Next]_vars PROVE Inv'
    OBVIOUS
  <1>1. CASE UNCHANGED vars
    <2>1. TypeOK'
      BY <1>1 DEF Inv, TypeOK, SessionType, TimerType, ReportType, vars, sessions,
                  report, timers, collector
    <2>. QED
      BY <1>1, <2>1, StayInv DEF vars, timers
  <1>2. CASE Over
    BY <1>1, <1>2 DEF Over
  <1>3. CASE \E p \in Prover :
                \/ startAttestation(p) \/ checkSoftConfig(p) \/ mkTree(p)
                \/ handleCommitAckTimeOut(p) \/ handleCommitRespTimeOut(p)
                \/ handleUpdateTimeOut(p) \/ receive(p) \/ crash(p)
    BY <1>3, StartAttestationInv, CheckSoftConfigInv, MkTreeInv, AckTimeOutInv,
       RespTimeOutInv, UpdateTimeOutInv, ReceiveInv, CrashInv
  <1>4. CASE collect
    BY <1>4, CollectInv
  <1>5. CASE Tick
    BY <1>5, TickInv
  <1>6. CASE overwrite
    BY <1>6, OverwriteInv
  <1>. QED
    BY <1>1, <1>2, <1>3, <1>4, <1>5, <1>6 DEF Next, Event

\* Inv holds in every reachable state, whatever the number of provers, the
\* timeouts and the delays within TimingAssumption.
THEOREM InvCorrect == Spec => []Inv
  BY InitInv, NextInv, PTL DEF Spec

\* Every variable keeps its type; the depths of sessions and invitations stay
\* in 1..maxdepth.
THEOREM TypeCorrect == Spec => []TypeOK
  <1>1. Inv => TypeOK
    BY DEF Inv
  <1>. QED
    BY <1>1, InvCorrect, PTL

\* No handler dereferences a null psessions.second.
THEOREM NoNullSessionCorrect == Spec => []NoNullSession
  <1>1. Inv => NoNullSession
    BY DEF Inv, Sessions, NoNullSession
  <1>. QED
    BY <1>1, InvCorrect, PTL

\* startAttestation and sendCommitResp never schedule a self-message that is
\* pending.
THEOREM NoDoubleScheduleCorrect == Spec => []NoDoubleSchedule
  <1>1. Inv => NoDoubleSchedule
    <2>. SUFFICES ASSUME Inv PROVE NoDoubleSchedule
      OBVIOUS
    <2>1. ASSUME NEW p \in Prover \ crashed, attest[p] = 0
          PROVE  check[p] = Off /\ mktree[p] = Off
      <3>1. /\ check[p] # Off => check[p] \in Nat
            /\ mktree[p] # Off => mktree[p] \in Nat
        BY DEF Inv, TypeOK, TimerType, Timer
      <3>. QED
        BY <2>1, <3>1, SlackFacts, TimeAssumption DEF Inv, Deadlines, Off
    <2>2. ASSUME NEW m \in net, m.kind = "CMRQ", m.destination \notin crashed,
                 acceptsReq(m.destination, m)
          PROVE  cackto[m.destination].t = Off
      <3>1. m.destination \in Prover
        BY <2>2 DEF Inv, TypeOK, Message, CommitReq, CommitResp, CommitAck, UpdateReq
      <3>. QED
        BY <2>2, <3>1 DEF Inv, Phase, acceptsReq
    <2>. QED
      BY <2>1, <2>2 DEF NoDoubleSchedule
  <1>. QED
    BY <1>1, InvCorrect, PTL

\* An ack that handleCommitAck accepts answers the response the prover waits
\* on: it is from the same tree, and the prover is attesting.
THEOREM AckCorrect == Spec => []AckAnswersResponse
  <1>1. Inv => AckAnswersResponse
    <2>. SUFFICES ASSUME Inv PROVE AckAnswersResponse
      OBVIOUS
    <2>1. ASSUME NEW m \in net, m.kind = "CMAK", acceptsAck(m.destination, m)
          PROVE  /\ status[m.destination] \in {"ATTESTING", "ATTESTING_CREATING"}
                 /\ psecond[m.destination].treeID = m.treeID
      <3>1. /\ IsHandshake(m) /\ Opener(m) = m.source
            /\ Invited(m) = m.destination
        BY <2>1 DEF IsHandshake, Opener, Invited
      <3>. QED
        BY <2>1, <3>1 DEF Inv, Handshakes, HandshakeTimed, acceptsAck
    <2>. QED
      BY <2>1 DEF AckAnswersResponse
  <1>. QED
    BY <1>1, InvCorrect, PTL

-----------------------------------------------------------------------------
\* sendUpReq, directly or from sendCommitReq, adds a record for p only.
LEMMA OwnRecord ==
  ASSUME TypeOK, NEW p \in Prover, NEW q \in Prover,
         attestcount'[q] # attestcount[q],
         NEW first, NEW tid, NEW cs, NEW recs, NEW rest,
         sendUpReq(p, first, tid, cs, recs, rest)
  PROVE  q = p
  BY DEF sendUpReq, TypeOK, ReportType

LEMMA OwnRecordInTree ==
  ASSUME TypeOK, NEW p \in Prover, NEW q \in Prover,
         attestcount'[q] # attestcount[q],
         NEW first, NEW second, NEW tid, NEW rest,
         sendCommitReq(p, first, second, tid, rest)
  PROVE  q = p
  BY OwnRecord DEF sendCommitReq, Invite, report

\* A prover whose own record is added has not reported in this period.
LEMMA RecordIsNew ==
  ASSUME Inv, Next, NEW q \in Prover, attestcount'[q] # attestcount[q]
  PROVE  ~reported[q]
  <1>1. TypeOK /\ Handshakes /\ \A p \in Prover : Sessions(p)
    BY DEF Inv
  <1>2. ASSUME NEW p \in Prover, mkTree(p) PROVE ~reported[q]
    <2>1. /\ status[p] \in {"READY", "ATTESTING"} /\ check[p] = Off
      <3>1. Phase(p) /\ check[p] \in Nat \cup {Off} /\ mktree[p] = 0 /\ check[p] # 0
        BY <1>2 DEF Inv, mkTree, Alive, TypeOK, TimerType, Timer
      <3>. QED
        BY <3>1 DEF Phase, Off
    <2>2. status[p] # "ATTESTING" /\ q = p
      BY <1>1, <1>2, OwnRecordInTree DEF mkTree, report
    <2>. QED
      BY <1>1, <2>1, <2>2 DEF Sessions
  <1>3. ASSUME NEW p \in Prover, handleCommitAckTimeOut(p) PROVE ~reported[q]
    <2>1. status[p] \in {"ATTESTING", "ATTESTING_CREATING"}
      BY <1>3 DEF Inv, Phase, handleCommitAckTimeOut, Alive, Off
    <2>2. q = p
      BY <1>1, <1>3, OwnRecordInTree DEF handleCommitAckTimeOut, report
    <2>. QED
      BY <1>1, <2>1, <2>2 DEF Sessions
  <1>4. ASSUME NEW p \in Prover, handleCommitRespTimeOut(p) PROVE ~reported[q]
    <2>1. size(csess[p]) = 1 /\ q = p
      BY <1>1, <1>4, OwnRecord DEF handleCommitRespTimeOut, report
    <2>2. csess[p] # NoChildren
      BY <1>1, <2>1, LastSession DEF TypeOK, SessionType, ChildMap
    <2>. QED
      BY <1>1, <2>1, <2>2 DEF Sessions
  <1>5. ASSUME NEW p \in Prover, handleUpdateTimeOut(p) PROVE ~reported[q]
    <2>1. PICK d \in Prover : size([csess[p] EXCEPT ![d] = Null]) = 1 /\ q = p
      BY <1>1, <1>5, OwnRecord DEF handleUpdateTimeOut, report
    <2>2. csess[p] # NoChildren
      BY <1>1, <2>1, CloseChild
    <2>. QED
      BY <1>1, <2>1, <2>2 DEF Sessions
  <1>6. ASSUME NEW p \in Prover, receive(p) PROVE ~reported[q]
    <2>1. PICK m \in net : \/ UNCHANGED report
                           \/ handleCommitReq(p, m) \/ handleCommitAck(p, m)
                           \/ handleCommitResp(p, m) \/ handleUpReq(p, m)
      BY <1>6 DEF receive
    <2>2. CASE handleCommitAck(p, m)
      <3>1. acceptsAck(p, m) /\ q = p /\ m.kind = "CMAK"
        BY <1>1, <2>2, OwnRecord, OwnRecordInTree DEF handleCommitAck, report
      <3>2. m.source \in Prover
        BY <1>1, <3>1 DEF TypeOK, Message, CommitReq, CommitResp, CommitAck, UpdateReq
      <3>. QED
        BY <1>1, <3>1, <3>2, ProverAssumption DEF Sessions, acceptsAck
    <2>3. CASE handleUpReq(p, m)
      <3>1. size([csess[p] EXCEPT ![m.source] = Null]) = 1 /\ q = p /\ m.kind = "UPRQ"
        BY <1>1, <2>3, OwnRecord DEF handleUpReq, report
      <3>2. m.source \in Prover
        BY <1>1, <3>1 DEF TypeOK, Message, CommitReq, CommitResp, CommitAck, UpdateReq
      <3>3. csess[p] # NoChildren
        BY <1>1, <3>1, <3>2, CloseChild
      <3>. QED
        BY <1>1, <3>1, <3>3 DEF Sessions
    <2>. QED
      BY <2>1, <2>2, <2>3 DEF handleCommitReq, handleCommitResp, report
  <1>7. ASSUME NEW p \in Prover, startAttestation(p) \/ checkSoftConfig(p) \/ crash(p)
        PROVE  attestcount' = attestcount
    BY <1>7 DEF startAttestation, checkSoftConfig, crash, report
  <1>8. ASSUME collect \/ overwrite \/ Tick \/ Over
        PROVE  attestcount' = attestcount
    BY <1>8 DEF collect, overwrite, Tick, Over, vars, report
  <1>. QED
    BY <1>2, <1>3, <1>4, <1>5, <1>6, <1>7, <1>8 DEF Next, Event

\* A prover's own record is added at most once in a period, whichever timeouts
\* of this or an earlier period, acks and reports make it send.
THEOREM ReportOnceCorrect == Spec => ReportOnce
  <1>. DEFINE A == \A p \in Prover : attestcount'[p] # attestcount[p] => ~reported[p]
  <1>1. Inv /\ [Next]_vars => [A]_vars
    BY RecordIsNew
  <1>. QED
    BY <1>1, InvCorrect, PTL DEF Spec, ReportOnce
=============================================================================
