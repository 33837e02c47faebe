---------------------------- MODULE TimingProofs ----------------------------
(***************************************************************************)
(* Proofs about the trees that provers build and the time these take.      *)
(* The two ends of a parent and child session agree on the tree and on the *)
(* level (SessionsAgree); a prover has reported when its next period       *)
(* starts (ReportedInTime), if a period is long enough; and a parent waits *)
(* longer for a child than the child does for its own ones                 *)
(* (TimeoutsNested), if three frames take less than the two timeouts of a  *)
(* level.  They rest on Inv, the invariant of SpanningTreeProofs, and on   *)
(* the invariants below, which relate the frames of a handshake to the     *)
(* sessions and the timeouts of the prover that began it.                  *)
(***************************************************************************)
EXTENDS SpanningTreeProofs

\* The level of the children of s, as its invitations announce it.
Level(s) == IF pfirst[s] = NOID THEN maxdepth ELSE psecond[s].depth - 1

\* A frame of a handshake is about the tree and the level of its opener.
OfTree(m) ==
    LET s == Opener(m)
        p == Invited(m)
    IN /\ m.treeID = psecond[s].treeID
       /\ m.kind = "CMRQ" => m.depth = Level(s)
       /\ m.kind # "CMRQ" /\ pfirst[p] = s => psecond[p].depth = Level(s)

\* Until its response is accepted a prover is not a child.
Agrees(m) ==
    /\ csess[Opener(m)] # NoChildren => OfTree(m)
    /\ m.kind \in {"CMRQ", "CMRP"} => csess[Opener(m)][Invited(m)] = Null

OneTree ==
    \A s \in Prover : \A d \in Dev :
       csess[s][d] # Null => csess[s][d].treeID = psecond[s].treeID

Agree ==
    /\ OneTree
    /\ \A m \in net : IsHandshake(m) => Agrees(m)
    /\ SessionsAgree

\* The update timeout of every child is pending.
Armed(p) ==
    \A c \in Prover : csess[p][c] # Null => csess[p][c].tomsg # Off

\* A response arrives within two delays of the invitation, which the response
\* timeout of the opener measures.
RespTimed(m) ==
    /\ m.kind \in {"CMRQ", "CMRP"}
    /\ Opener(m) \notin crashed
    /\ status[Opener(m)] = "CREATING"
    => crespto[Opener(m)].t + 2 * MaxDelay - m.ttl
          - (IF m.kind = "CMRQ" THEN MaxDelay ELSE 0) >= timeoutresp

\* A prover that has begun a period and has not reported has a timer pending
\* that makes it go on, or a child.
Going == {"CHECKING", "READY", "ATTESTING", "ATTESTING_CREATING", "CREATING"}
Working(p) ==
    \/ period[p] = 0
    \/ reported[p]
    \/ status[p] \in Going
    \/ status[p] = "COLLECTING" /\ \E c \in Prover : csess[p][c] # Null

\* What holds whatever the length of a period.
Pending ==
    /\ \A p \in Prover \ crashed : Armed(p) /\ Working(p)
    /\ \A p \in crashed : attest[p] = Off
    /\ \A m \in net : RespTimed(m)

-----------------------------------------------------------------------------
(***************************************************************************)
(* The kinds of steps.  Fades: no child, invitation or session is added.   *)
(* Opens: p becomes CREATING and sends invitations.  Answers: p accepts    *)
(* the invitation m.  Takes: p takes the sender of response m as a child.  *)
(* And Tick.                                                               *)
(***************************************************************************)

FadesAt(q) ==
    /\ \A d \in Dev :
          csess'[q][d] # Null
          => /\ csess[q][d] # Null
             /\ csess'[q][d].treeID = csess[q][d].treeID
             /\ q \notin crashed' => csess'[q][d] = csess[q][d]
    /\ \/ pfirst'[q] = pfirst[q] /\ psecond'[q] = psecond[q]
       \/ pfirst'[q] = NOID /\ csess'[q] = NoChildren
    /\ q \in crashed => q \in crashed' /\ attest'[q] = attest[q]
    /\ q \in crashed' /\ q \notin crashed => attest'[q] = Off
    /\ q \notin crashed'
       => /\ attest'[q] = attest[q] \/ csess'[q] = NoChildren
          /\ status'[q] = "CREATING" => /\ status[q] = "CREATING"
                                        /\ crespto'[q] = crespto[q]
          /\ Working(q) => Working(q)'

Fades ==
    /\ \A q \in Prover : FadesAt(q)
    /\ \A n \in net' : IsHandshake(n) => n \in net

\* Nothing of q changes.
Still(q) ==
    /\ status'[q] = status[q] /\ pfirst'[q] = pfirst[q]
    /\ psecond'[q] = psecond[q] /\ csess'[q] = csess[q]
    /\ crespto'[q] = crespto[q] /\ reported'[q] = reported[q]

StillElse(p) ==
    /\ UNCHANGED <<attest, crashed, period>>
    /\ \A q \in Prover : q # p => Still(q)

Invitation(p, n) ==
    /\ n.kind = "CMRQ" /\ n.source = p /\ n.destination \in Prover
    /\ n.treeID = psecond'[p].treeID /\ n.depth = Level(p)'
    /\ n.ttl = MaxDelay

AckFor(p, m) ==
    m.kind = "CMAK" /\ m.source = pfirst[p] /\ m.destination = p

Opens(p) ==
    /\ p \notin crashed
    /\ status[p] \in {"READY", "ATTESTING", "ATTESTING_CREATING"}
    /\ StillElse(p)
    /\ status'[p] = "CREATING" /\ crespto'[p].t = timeoutresp
    /\ \A d \in Dev :
          csess'[p][d] # Null
          => d = NOID /\ csess'[p][d].treeID = psecond'[p].treeID
    /\ \A n \in net' : IsHandshake(n) => n \in net \/ Invitation(p, n)
    /\ \/ pfirst'[p] = NOID
       \/ /\ pfirst'[p] = pfirst[p] /\ psecond'[p] = psecond[p]
          /\ \E m \in net : AckFor(p, m)

Answers(p, m) ==
    /\ p \notin crashed /\ status[p] = "READY"
    /\ m.kind = "CMRQ" /\ m.destination = p /\ m.source \in Prover
    /\ StillElse(p)
    /\ UNCHANGED <<csess, crespto, reported>>
    /\ status'[p] = "ATTESTING" /\ pfirst'[p] = m.source
    /\ psecond'[p].treeID = m.treeID /\ psecond'[p].depth = m.depth
    /\ \A n \in net' :
          \/ n \in net /\ n # m
          \/ /\ n.kind = "CMRP" /\ n.source = p /\ n.destination = m.source
             /\ n.treeID = m.treeID /\ n.ttl = MaxDelay

Takes(p, m) ==
    /\ p \notin crashed /\ status[p] = "CREATING"
    /\ m.kind = "CMRP" /\ m.destination = p /\ m.source \in Prover
    /\ StillElse(p)
    /\ UNCHANGED <<pfirst, psecond, reported>>
    /\ \/ status'[p] = "CREATING" /\ crespto'[p] = crespto[p]
       \/ status'[p] = "COLLECTING"
    /\ \A d \in Dev : d # m.source => csess'[p][d] = csess[p][d]
    /\ csess'[p][m.source] = [treeID |-> m.treeID, tomsg |-> updateDelay(p)]
    /\ \A n \in net' :
          \/ n \in net /\ n # m
          \/ /\ n.kind = "CMAK" /\ n.source = p /\ n.destination = m.source
             /\ n.treeID = m.treeID /\ n.ttl = MaxDelay

-----------------------------------------------------------------------------
\* The two ends of the frames of a handshake.
LEMMA Ends ==
  ASSUME Inv, NEW m \in net, IsHandshake(m)
  PROVE  /\ Opener(m) \in Prover /\ Invited(m) \in Prover
         /\ Opener(m) # NOID /\ Invited(m) # NOID
         /\ Opener(m) \in Dev /\ Invited(m) \in Dev
         /\ HandshakeTimed(m) /\ m.ttl \in Nat
  <1>1. m \in Message /\ HandshakeTimed(m)
    BY DEF Inv, TypeOK, Handshakes
  <1>2. m.ttl \in Nat
    BY <1>1, TimeAssumption DEF Message, CommitReq, CommitResp, CommitAck, UpdateReq
  <1>. QED
    BY <1>1, <1>2, HandshakeType, ProverAssumption DEF Dev

\* Agreement is kept by each kind of step.
LEMMA AgreeFades ==
  ASSUME Inv, Inv', Agree, Fades
  PROVE  Agree'
  <1>1. ASSUME NEW q \in Prover, csess'[q] # NoChildren
        PROVE  /\ csess[q] # NoChildren
               /\ pfirst'[q] = pfirst[q] /\ psecond'[q] = psecond[q]
    <2>1. PICK d \in Dev : csess'[q][d] # Null
      BY <1>1 DEF Inv, TypeOK, SessionType, NoChildren
    <2>. QED
      BY <1>1, <2>1 DEF Fades, FadesAt, NoChildren
  <1>2. \A q \in Prover : \A d \in Dev : csess'[q][d] # Null => csess'[q] # NoChildren
    BY DEF NoChildren
  <1>3. OneTree'
    BY <1>1, <1>2 DEF OneTree, Agree, Fades, FadesAt
  <1>4. ASSUME NEW n \in net', IsHandshake(n) PROVE Agrees(n)'
    <2>1. n \in net /\ Agrees(n)
      BY <1>4 DEF Fades, Agree
    <2>2. /\ Opener(n) \in Prover /\ Invited(n) \in Prover
          /\ Opener(n) # NOID /\ Invited(n) \in Dev
      BY <1>4, <2>1, Ends
    <2>3. ASSUME csess'[Opener(n)] # NoChildren PROVE OfTree(n)'
      <3>1. /\ pfirst'[Opener(n)] = pfirst[Opener(n)]
            /\ psecond'[Opener(n)] = psecond[Opener(n)] /\ OfTree(n)
        BY <1>1, <2>1, <2>2, <2>3 DEF Agrees
      <3>2. pfirst'[Invited(n)] = Opener(n)
               => /\ pfirst[Invited(n)] = Opener(n)
                  /\ psecond'[Invited(n)] = psecond[Invited(n)]
        BY <2>2 DEF Fades, FadesAt
      <3>. QED
        BY <3>1, <3>2 DEF OfTree, Level
    <2>4. csess[Opener(n)][Invited(n)] = Null => csess'[Opener(n)][Invited(n)] = Null
      BY <2>2 DEF Fades, FadesAt
    <2>. QED
      BY <2>1, <2>3, <2>4 DEF Agrees, NoChildren
  <1>5. SessionsAgree'
    <2>1. ASSUME NEW p \in Prover, NEW s \in Prover,
                 pfirst'[p] = s, csess'[s][p] # Null
          PROVE  /\ psecond'[p].treeID = csess'[s][p].treeID
                 /\ csess'[s][p].treeID = psecond'[s].treeID
                 /\ psecond'[p].depth = IF pfirst'[s] = NOID THEN maxdepth
                                        ELSE psecond'[s].depth - 1
      <3>1. p \in Dev /\ s # NOID
        BY ProverAssumption DEF Dev
      <3>2. pfirst[p] = s /\ psecond'[p] = psecond[p]
        BY <2>1, <3>1 DEF Fades, FadesAt
      <3>3. /\ csess[s][p] # Null /\ csess'[s][p].treeID = csess[s][p].treeID
            /\ pfirst'[s] = pfirst[s] /\ psecond'[s] = psecond[s]
        BY <1>1, <1>2, <2>1, <3>1 DEF Fades, FadesAt
      <3>. QED
        BY <3>2, <3>3 DEF Agree, SessionsAgree
    <2>. QED
      BY <2>1 DEF SessionsAgree
  <1>. QED
    BY <1>3, <1>4, <1>5 DEF Agree

\* The invitations p sends are of its tree, and it has no other frame open.
LEMMA AgreeOpens ==
  ASSUME Inv, Agree, NEW p \in Prover, Opens(p)
  PROVE  Agree'
  <1>1. \A q \in Prover : q # p => Still(q)
    BY DEF Opens, StillElse
  <1>2. OneTree'
    BY <1>1 DEF OneTree, Agree, Opens, Still
  <1>3. ASSUME NEW n \in net', IsHandshake(n) PROVE Agrees(n)'
    <2>1. CASE n \in net
      <3>1. /\ Opener(n) \in Prover /\ Invited(n) \in Prover
            /\ Opener(n) # NOID /\ HandshakeTimed(n) /\ Agrees(n)
        BY <1>3, <2>1, Ends DEF Agree
      <3>2. Opener(n) # p
        BY <3>1 DEF HandshakeTimed, Opens
      <3>3. Still(Opener(n))
        BY <1>1, <3>1, <3>2
      <3>4. pfirst'[Invited(n)] = Opener(n)
               => /\ pfirst[Invited(n)] = Opener(n)
                  /\ psecond'[Invited(n)] = psecond[Invited(n)]
        BY <1>1, <3>1 DEF Opens, Still
      <3>. QED
        BY <3>1, <3>3, <3>4 DEF Agrees, OfTree, Level, Still, NoChildren
    <2>2. CASE Invitation(p, n)
      <3>1. /\ Opener(n) = p /\ Invited(n) \in Prover /\ n.kind = "CMRQ"
            /\ Invited(n) \in Dev /\ Invited(n) # NOID
        BY <2>2, ProverAssumption DEF Invitation, Opener, Invited, Dev
      <3>2. OfTree(n)'
        BY <2>2, <3>1 DEF OfTree, Invitation
      <3>3. csess'[p][Invited(n)] = Null
        BY <3>1 DEF Opens
      <3>. QED
        BY <3>1, <3>2, <3>3 DEF Agrees
    <2>. QED
      BY <1>3, <2>1, <2>2 DEF Opens
  <1>4. SessionsAgree'
    <2>1. ASSUME NEW c \in Prover, NEW s \in Prover,
                 pfirst'[c] = s, csess'[s][c] # Null
          PROVE  /\ psecond'[c].treeID = csess'[s][c].treeID
                 /\ csess'[s][c].treeID = psecond'[s].treeID
                 /\ psecond'[c].depth = IF pfirst'[s] = NOID THEN maxdepth
                                        ELSE psecond'[s].depth - 1
      <3>1. c \in Dev /\ c # NOID /\ s # NOID
        BY ProverAssumption DEF Dev
      <3>2. s # p
        BY <2>1, <3>1 DEF Opens
      <3>3. pfirst[c] = s /\ psecond'[c] = psecond[c]
        BY <1>1, <2>1, <3>1 DEF Opens, Still
      <3>4. Still(s)
        BY <1>1, <3>2
      <3>. QED
        BY <2>1, <3>3, <3>4 DEF Agree, SessionsAgree, Still
    <2>. QED
      BY <2>1 DEF SessionsAgree
  <1>. QED
    BY <1>2, <1>3, <1>4 DEF Agree

\* The response repeats the invitation, of which it takes tree and level.
LEMMA AgreeAnswers ==
  ASSUME Inv, Agree, NEW p \in Prover, NEW m \in net, Answers(p, m)
  PROVE  Agree'
  <1>1. /\ \A q \in Prover : q # p => Still(q)
        /\ csess' = csess
    BY DEF Answers, StillElse
  <1>2. csess[p] = NoChildren
    BY DEF Inv, Sessions, Answers
  <1>3. /\ IsHandshake(m) /\ Opener(m) = m.source /\ Invited(m) = p
        /\ m.kind = "CMRQ" /\ m.source \in Prover /\ p \in Dev
    BY DEF Answers, IsHandshake, Opener, Invited, Dev
  <1>4. HandshakeTimed(m) /\ Agrees(m) /\ m.source # p
    BY <1>3, Ends DEF Agree, HandshakeTimed, Answers
  <1>5. Still(m.source) /\ csess[m.source][p] = Null
    BY <1>1, <1>3, <1>4 DEF Agrees
  <1>6. OneTree'
    BY <1>1, <1>2 DEF OneTree, Agree, Still, NoChildren
  <1>7. ASSUME NEW n \in net', IsHandshake(n) PROVE Agrees(n)'
    <2>1. CASE n \in net /\ n # m
      <3>1. /\ Opener(n) \in Prover /\ Invited(n) \in Prover
            /\ HandshakeTimed(n) /\ Agrees(n)
        BY <1>7, <2>1, Ends DEF Agree
      <3>2. Opener(n) # p
        BY <3>1 DEF HandshakeTimed, Answers
      <3>3. Still(Opener(n))
        BY <1>1, <3>1, <3>2
      <3>4. Invited(n) = p => Opener(n) # m.source
        BY <1>3, <1>7, <2>1 DEF Inv, Handshakes, OneHandshake
      <3>5. pfirst'[Invited(n)] = Opener(n)
               => /\ pfirst[Invited(n)] = Opener(n)
                  /\ psecond'[Invited(n)] = psecond[Invited(n)]
        BY <1>1, <3>1, <3>4 DEF Answers, Still
      <3>. QED
        BY <1>1, <3>1, <3>3, <3>5 DEF Agrees, OfTree, Level, Still, NoChildren
    <2>2. CASE /\ n.kind = "CMRP" /\ n.source = p /\ n.destination = m.source
               /\ n.treeID = m.treeID
      <3>1. Opener(n) = m.source /\ Invited(n) = p /\ n.kind = "CMRP"
        BY <2>2 DEF Opener, Invited
      <3>2. csess[m.source] # NoChildren
               => /\ m.treeID = psecond'[m.source].treeID
                  /\ m.depth = Level(m.source)'
        BY <1>3, <1>4, <1>5 DEF Agrees, OfTree, Level, Still
      <3>3. csess[m.source] # NoChildren => OfTree(n)'
        BY <2>2, <3>1, <3>2 DEF OfTree, Answers
      <3>. QED
        BY <1>1, <1>5, <3>1, <3>3 DEF Agrees, NoChildren
    <2>. QED
      BY <2>1, <2>2 DEF Answers
  <1>8. SessionsAgree'
    <2>1. ASSUME NEW c \in Prover, NEW s \in Prover,
                 pfirst'[c] = s, csess'[s][c] # Null
          PROVE  /\ psecond'[c].treeID = csess'[s][c].treeID
                 /\ csess'[s][c].treeID = psecond'[s].treeID
                 /\ psecond'[c].depth = IF pfirst'[s] = NOID THEN maxdepth
                                        ELSE psecond'[s].depth - 1
      <3>1. c # p
        BY <1>1, <1>5, <2>1 DEF Answers
      <3>2. s # p
        BY <1>1, <1>2, <2>1 DEF NoChildren, Dev
      <3>3. Still(c) /\ Still(s)
        BY <1>1, <3>1, <3>2
      <3>. QED
        BY <2>1, <3>3 DEF Agree, SessionsAgree, Still
    <2>. QED
      BY <2>1 DEF SessionsAgree
  <1>. QED
    BY <1>6, <1>7, <1>8 DEF Agree

\* The sender of a response becomes a child with the tree of the response.
LEMMA AgreeTakes ==
  ASSUME Inv, Agree, NEW p \in Prover, NEW m \in net, Takes(p, m)
  PROVE  Agree'
  <1>1. /\ \A q \in Prover : q # p => Still(q)
        /\ pfirst' = pfirst /\ psecond' = psecond
    BY DEF Takes, StillElse
  <1>2. /\ IsHandshake(m) /\ Opener(m) = p /\ Invited(m) = m.source
        /\ m.kind = "CMRP" /\ m.source \in Prover
    BY DEF Takes, IsHandshake, Opener, Invited
  <1>3. HandshakeTimed(m) /\ Agrees(m) /\ csess[p] # NoChildren
    BY <1>2, Ends DEF Agree, Inv, Sessions, Takes
  <1>4. OfTree(m)
    BY <1>2, <1>3 DEF Agrees
  <1>5. csess'[p][m.source].treeID = psecond[p].treeID
    BY <1>2, <1>4 DEF Takes, OfTree
  <1>6. OneTree'
    BY <1>1, <1>5 DEF OneTree, Agree, Still, Takes
  <1>7. ASSUME NEW n \in net', IsHandshake(n) PROVE Agrees(n)'
    <2>1. CASE n \in net /\ n # m
      <3>1. /\ Opener(n) \in Prover /\ Invited(n) \in Dev
            /\ HandshakeTimed(n) /\ Agrees(n)
        BY <1>7, <2>1, Ends DEF Agree
      <3>2. csess'[Opener(n)] # NoChildren => OfTree(n)'
        <4>1. csess'[Opener(n)] # NoChildren => csess[Opener(n)] # NoChildren
          BY <1>1, <1>3, <3>1 DEF Still
        <4>. QED
          BY <1>1, <3>1, <4>1 DEF Agrees, OfTree, Level
      <3>3. ~(Opener(n) = p /\ Invited(n) = m.source)
        BY <1>2, <1>7, <2>1 DEF Inv, Handshakes, OneHandshake
      <3>4. csess'[Opener(n)][Invited(n)] = csess[Opener(n)][Invited(n)]
        BY <1>1, <3>1, <3>3 DEF Takes, Still
      <3>. QED
        BY <3>1, <3>2, <3>4 DEF Agrees, NoChildren
    <2>2. CASE /\ n.kind = "CMAK" /\ n.source = p /\ n.destination = m.source
               /\ n.treeID = m.treeID
      <3>1. Opener(n) = p /\ Invited(n) = m.source /\ n.kind = "CMAK"
        BY <2>2 DEF Opener, Invited
      <3>2. OfTree(n)'
        BY <1>1, <1>2, <1>4, <2>2, <3>1 DEF OfTree, Level
      <3>. QED
        BY <3>1, <3>2 DEF Agrees
    <2>. QED
      BY <2>1, <2>2 DEF Takes
  <1>8. SessionsAgree'
    <2>1. ASSUME NEW c \in Prover, NEW s \in Prover,
                 pfirst'[c] = s, csess'[s][c] # Null
          PROVE  /\ psecond'[c].treeID = csess'[s][c].treeID
                 /\ csess'[s][c].treeID = psecond'[s].treeID
                 /\ psecond'[c].depth = IF pfirst'[s] = NOID THEN maxdepth
                                        ELSE psecond'[s].depth - 1
      <3>1. CASE s = p /\ c = m.source
        <4>1. psecond[c].treeID = m.treeID /\ psecond[c].depth = Level(p)
          BY <1>1, <1>2, <1>3, <1>4, <2>1, <3>1 DEF HandshakeTimed, OfTree
        <4>. QED
          BY <1>1, <1>5, <3>1, <4>1 DEF Takes, Level
      <3>2. CASE ~(s = p /\ c = m.source)
        <4>1. csess'[s][c] = csess[s][c]
          BY <1>1, <3>2 DEF Takes, Still, Dev
        <4>. QED
          BY <1>1, <2>1, <4>1 DEF Agree, SessionsAgree
      <3>. QED
        BY <3>1, <3>2
    <2>. QED
      BY <2>1 DEF SessionsAgree
  <1>. QED
    BY <1>6, <1>7, <1>8 DEF Agree

-----------------------------------------------------------------------------
\* What time does to the sessions, the timeouts and the frames.
Older(n, m) ==
    /\ n.kind = m.kind /\ n.treeID = m.treeID
    /\ n.source = m.source /\ n.destination = m.destination
    /\ m.kind = "CMRQ" => n.depth = m.depth
    /\ m.ttl \in Nat /\ n.ttl = m.ttl - 1

\* A frame of the next state is one of this state, a time unit older.
LEMMA TickFrames ==
  ASSUME TypeOK, Tick, NEW n \in net'
  PROVE  \E m \in net : Older(n, m)
  <1>1. PICK m \in net : n = [m EXCEPT !.ttl = @ - 1]
    BY DEF Tick
  <1>2. m \in Message
    BY DEF TypeOK
  <1>3. \A t \in 0..MaxDelay : t \in Nat
    BY TimeAssumption
  <1>4. CASE m \in CommitReq
    BY <1>1, <1>3, <1>4 DEF CommitReq, Older
  <1>5. CASE m \in CommitResp
    BY <1>1, <1>3, <1>5 DEF CommitResp, Older
  <1>6. CASE m \in CommitAck
    BY <1>1, <1>3, <1>6 DEF CommitAck, Older
  <1>7. CASE m \in UpdateReq
    BY <1>1, <1>3, <1>7 DEF UpdateReq, Older
  <1>. QED
    BY <1>2, <1>4, <1>5, <1>6, <1>7 DEF Message

\* A countdown that is pending goes down by one.
Runs(t, u) ==
    /\ t = Off <=> u = Off
    /\ t # Off => t \in Nat /\ u \in Nat /\ u = t - 1

\* Time passes on all countdowns of a prover, and on nothing else.
LEMMA TickTimers ==
  ASSUME Inv, Tick, NEW q \in Prover
  PROVE  /\ Runs(attest[q], attest'[q])
         /\ Runs(crespto[q].t, crespto'[q].t)
         /\ \A d \in Dev :
               /\ csess[q][d] = Null <=> csess'[q][d] = Null
               /\ csess[q][d] # Null
                  => /\ csess'[q][d].treeID = csess[q][d].treeID
                     /\ Runs(csess[q][d].tomsg, csess'[q][d].tomsg)
         /\ csess[q] = NoChildren <=> csess'[q] = NoChildren
  <1>1. TypeOK
    BY DEF Inv
  <1>2. ASSUME NEW t \in Timer, t # 0 PROVE Runs(t, dec(t))
    BY <1>2 DEF Runs, dec, Timer, Off
  <1>3. /\ attest[q] \in Timer /\ crespto[q].t \in Timer
        /\ attest[q] # 0 /\ crespto[q].t # 0
    BY <1>1 DEF Tick, Countdowns, TypeOK, TimerType
  <1>4. attest'[q] = dec(attest[q]) /\ crespto'[q].t = dec(crespto[q].t)
    BY <1>1 DEF Tick, TypeOK, TimerType
  <1>5. ASSUME NEW d \in Dev
        PROVE  /\ csess[q][d] = Null <=> csess'[q][d] = Null
               /\ csess[q][d] # Null
                  => /\ csess'[q][d].treeID = csess[q][d].treeID
                     /\ Runs(csess[q][d].tomsg, csess'[q][d].tomsg)
    <2>1. csess'[q][d] = IF csess[q][d] = Null THEN Null
                         ELSE [csess[q][d] EXCEPT !.tomsg = dec(@)]
      BY DEF Tick
    <2>2. CASE csess[q][d] = Null
      BY <2>1, <2>2
    <2>3. CASE csess[q][d] # Null
      <3>1. csess[q][d] \in ChildSession
        BY <1>1, <2>3 DEF TypeOK, SessionType
      <3>2. csess[q][d].tomsg \in Timer /\ csess[q][d].tomsg # 0
        BY <2>3, <3>1 DEF ChildSession, Tick, Countdowns, Members
      <3>3. /\ csess'[q][d].treeID = csess[q][d].treeID
            /\ csess'[q][d].tomsg = dec(csess[q][d].tomsg)
        BY <2>1, <2>3, <3>1 DEF ChildSession
      <3>4. csess'[q][d] \in ChildSession
        <4>1. dec(csess[q][d].tomsg) \in Timer
          BY <3>2 DEF dec, Timer, Off
        <4>. QED
          BY <2>1, <2>3, <3>1, <4>1 DEF ChildSession
      <3>. QED
        BY <1>2, <2>3, <3>2, <3>3, <3>4, NullAssumption
    <2>. QED
      BY <2>2, <2>3
  <1>6. /\ csess[q] = NoChildren <=> \A d \in Dev : csess[q][d] = Null
        /\ csess'[q] = NoChildren <=> \A d \in Dev : csess'[q][d] = Null
    <2>1. csess[q] \in [Dev -> ChildSession \cup {Null}]
      BY <1>1 DEF TypeOK, SessionType
    <2>2. csess'[q] = [d \in Dev |-> IF csess[q][d] = Null THEN Null
                                     ELSE [csess[q][d] EXCEPT !.tomsg = dec(@)]]
      BY DEF Tick
    <2>3. csess'[q] = [d \in Dev |-> csess'[q][d]]
      BY <2>2
    <2>. QED
      BY <2>1, <2>3 DEF NoChildren
  <1>. QED
    BY <1>2, <1>3, <1>4, <1>5, <1>6

\* Time changes neither trees nor levels.
LEMMA AgreeTick ==
  ASSUME Inv, Agree, Tick
  PROVE  Agree'
  <1>1. pfirst' = pfirst /\ psecond' = psecond
    BY DEF Tick
  <1>2. OneTree'
    BY <1>1, TickTimers DEF OneTree, Agree
  <1>3. ASSUME NEW n \in net', IsHandshake(n) PROVE Agrees(n)'
    <2>1. PICK m \in net : Older(n, m)
      BY TickFrames DEF Inv
    <2>2. /\ IsHandshake(m) /\ Opener(n) = Opener(m) /\ Invited(n) = Invited(m)
          /\ n.kind = m.kind /\ n.treeID = m.treeID
          /\ m.kind = "CMRQ" => n.depth = m.depth
      BY <1>3, <2>1 DEF Older, IsHandshake, Opener, Invited
    <2>3. Agrees(m) /\ Opener(m) \in Prover /\ Invited(m) \in Dev
      BY <2>2, Ends DEF Agree
    <2>4. /\ csess[Opener(m)] = NoChildren <=> csess'[Opener(m)] = NoChildren
          /\ csess[Opener(m)][Invited(m)] = Null
                <=> csess'[Opener(m)][Invited(m)] = Null
      BY <2>3, TickTimers
    <2>. QED
      BY <1>1, <2>2, <2>3, <2>4 DEF Agrees, OfTree, Level, NoChildren
  <1>4. SessionsAgree'
    <2>1. ASSUME NEW c \in Prover, NEW s \in Prover,
                 pfirst'[c] = s, csess'[s][c] # Null
          PROVE  /\ psecond'[c].treeID = csess'[s][c].treeID
                 /\ csess'[s][c].treeID = psecond'[s].treeID
                 /\ psecond'[c].depth = IF pfirst'[s] = NOID THEN maxdepth
                                        ELSE psecond'[s].depth - 1
      <3>1. c \in Dev
        BY DEF Dev
      <3>2. csess[s][c] # Null /\ csess'[s][c].treeID = csess[s][c].treeID
        BY <2>1, <3>1, TickTimers
      <3>. QED
        BY <1>1, <2>1, <3>2 DEF Agree, SessionsAgree
    <2>. QED
      BY <2>1 DEF SessionsAgree
  <1>. QED
    BY <1>2, <1>3, <1>4 DEF Agree

-----------------------------------------------------------------------------
\* Timers are pending where they are needed, after each kind of step.
LEMMA PendingFades ==
  ASSUME Inv, Inv', Pending, Fades
  PROVE  Pending'
  <1>1. ASSUME NEW q \in Prover, q \notin crashed' PROVE Armed(q)' /\ Working(q)'
    <2>1. q \notin crashed /\ Armed(q) /\ Working(q)
      BY <1>1 DEF Fades, FadesAt, Pending
    <2>2. \A c \in Prover : csess'[q][c] # Null
             => csess[q][c] # Null /\ csess'[q][c] = csess[q][c]
      BY <1>1 DEF Fades, FadesAt, Dev
    <2>. QED
      BY <1>1, <2>1, <2>2 DEF Fades, FadesAt, Armed
  <1>2. ASSUME NEW q \in Prover, q \in crashed' PROVE attest'[q] = Off
    BY <1>2 DEF Fades, FadesAt, Pending
  <1>3. ASSUME NEW n \in net' PROVE RespTimed(n)'
    <2>1. SUFFICES ASSUME n.kind \in {"CMRQ", "CMRP"}, Opener(n) \notin crashed',
                          status'[Opener(n)] = "CREATING"
                   PROVE  crespto'[Opener(n)].t + 2 * MaxDelay - n.ttl
                          - (IF n.kind = "CMRQ" THEN MaxDelay ELSE 0) >= timeoutresp
      BY DEF RespTimed
    <2>2. IsHandshake(n) /\ n \in net
      BY <2>1 DEF IsHandshake, Fades
    <2>3. Opener(n) \in Prover /\ RespTimed(n)
      BY <2>2, Ends DEF Pending
    <2>. QED
      BY <2>1, <2>3 DEF RespTimed, Fades, FadesAt
  <1>4. crashed' \subseteq Prover
    BY DEF Inv, TypeOK, ReportType
  <1>. QED
    BY <1>1, <1>2, <1>3, <1>4 DEF Pending

\* An invitation leaves as the response timeout starts.
LEMMA PendingOpens ==
  ASSUME Inv, Pending, NEW p \in Prover, Opens(p)
  PROVE  Pending'
  <1>1. /\ \A q \in Prover : q # p => Still(q)
        /\ attest' = attest /\ crashed' = crashed /\ period' = period
    BY DEF Opens, StillElse
  <1>2. ASSUME NEW q \in Prover \ crashed PROVE Armed(q)' /\ Working(q)'
    <2>1. CASE q = p
      BY <2>1, ProverAssumption DEF Opens, Armed, Working, Going, Dev
    <2>2. CASE q # p
      BY <1>1, <1>2, <2>2 DEF Pending, Armed, Working, Still
    <2>. QED
      BY <2>1, <2>2
  <1>3. ASSUME NEW n \in net' PROVE RespTimed(n)'
    <2>1. CASE n.kind \notin {"CMRQ", "CMRP"}
      BY <2>1 DEF RespTimed
    <2>2. CASE n.kind \in {"CMRQ", "CMRP"} /\ n \in net
      <3>1. IsHandshake(n)
        BY <2>2 DEF IsHandshake
      <3>2. Opener(n) \in Prover /\ HandshakeTimed(n) /\ RespTimed(n)
        BY <2>2, <3>1, Ends DEF Pending
      <3>3. Opener(n) # p
        BY <3>2 DEF HandshakeTimed, Opens
      <3>. QED
        BY <1>1, <3>2, <3>3 DEF RespTimed, Still
    <2>3. CASE Invitation(p, n)
      <3>1. Opener(n) = p /\ n.ttl = MaxDelay /\ n.kind = "CMRQ"
        BY <2>3 DEF Invitation, Opener
      <3>. QED
        BY <3>1, TimeAssumption DEF RespTimed, Opens
    <2>. QED
      BY <2>1, <2>2, <2>3 DEF Opens, IsHandshake
  <1>. QED
    BY <1>1, <1>2, <1>3 DEF Pending

\* A response leaves within the delay of the invitation.
LEMMA PendingAnswers ==
  ASSUME Inv, Pending, NEW p \in Prover, NEW m \in net, Answers(p, m)
  PROVE  Pending'
  <1>1. /\ \A q \in Prover : q # p => Still(q)
        /\ attest' = attest /\ crashed' = crashed /\ period' = period
        /\ csess' = csess /\ crespto' = crespto
    BY DEF Answers, StillElse
  <1>2. ASSUME NEW q \in Prover \ crashed PROVE Armed(q)' /\ Working(q)'
    <2>1. CASE q = p
      BY <1>1, <1>2, <2>1 DEF Answers, Pending, Armed, Working, Going
    <2>2. CASE q # p
      BY <1>1, <1>2, <2>2 DEF Pending, Armed, Working, Still
    <2>. QED
      BY <2>1, <2>2
  <1>3. /\ IsHandshake(m) /\ Opener(m) = m.source /\ m.kind = "CMRQ"
    BY DEF Answers, IsHandshake, Opener
  <1>4. HandshakeTimed(m) /\ RespTimed(m) /\ m.ttl \in Nat /\ m.source \in Prover
    BY <1>3, Ends DEF Pending
  <1>5. ASSUME NEW n \in net' PROVE RespTimed(n)'
    <2>1. CASE n.kind \notin {"CMRQ", "CMRP"}
      BY <2>1 DEF RespTimed
    <2>2. CASE n.kind \in {"CMRQ", "CMRP"} /\ n \in net
      <3>1. IsHandshake(n)
        BY <2>2 DEF IsHandshake
      <3>2. Opener(n) \in Prover /\ HandshakeTimed(n) /\ RespTimed(n)
        BY <2>2, <3>1, Ends DEF Pending
      <3>3. Opener(n) # p
        BY <3>2 DEF HandshakeTimed, Answers
      <3>. QED
        BY <1>1, <3>2, <3>3 DEF RespTimed, Still
    <2>3. CASE /\ n.kind = "CMRP" /\ n.source = p /\ n.destination = m.source
               /\ n.ttl = MaxDelay
      <3>1. Opener(n) = m.source /\ n.kind = "CMRP"
        BY <2>3 DEF Opener
      <3>2. m.source # p
        BY <1>3, <1>4 DEF HandshakeTimed, Answers
      <3>3. status'[m.source] = status[m.source]
        BY <1>1, <1>4, <3>2 DEF Still
      <3>4. status[m.source] = "CREATING" /\ m.source \notin crashed
               => /\ crespto[m.source].t \in Int
                  /\ crespto[m.source].t + 2 * MaxDelay - m.ttl - MaxDelay
                        >= timeoutresp
        <4>1. crespto[m.source].t \in Int
          BY <1>4 DEF Inv, TypeOK, TimerType, Timer, Off
        <4>. QED
          BY <1>3, <1>4, <4>1 DEF RespTimed
      <3>. QED
        BY <1>1, <1>4, <2>3, <3>1, <3>3, <3>4, TimeAssumption DEF RespTimed
    <2>. QED
      BY <2>1, <2>2, <2>3 DEF Answers
  <1>. QED
    BY <1>1, <1>2, <1>5 DEF Pending

\* How long a report is awaited: a number, and at most the time set aside for
\* the levels below a root.
LEMMA UpdateDelayType ==
  ASSUME Inv, NEW p \in Prover, psecond[p] # Null
  PROVE  /\ updateDelay(p) \in Nat
         /\ updateDelay(p) <= (timeoutack + timeoutresp) * (maxdepth - 1) + timeoutup
         /\ psecond[p].depth \in Nat
  <1>1. psecond[p].depth \in 1..maxdepth /\ maxdepth \in Nat
    BY TreeAssumption DEF Inv, TypeOK, SessionType, ParentSession, Depth
  <1>. DEFINE k == timeoutack + timeoutresp
              a == psecond[p].depth - 1
              b == maxdepth - 1
  <1>2. k \in Nat /\ a \in Nat /\ b \in Nat /\ a <= b /\ timeoutup \in Nat
    BY <1>1, TimeAssumption
  <1>3. k * a + timeoutup \in Nat /\ k * a + timeoutup <= k * b + timeoutup
    <2>. HIDE DEF k, a, b
    <2>1. k * a \in Nat /\ k * b \in Nat /\ k * a <= k * b
      BY <1>2
    <2>. QED
      BY <1>2, <2>1
  <1>. QED
    BY <1>1, <1>3 DEF updateDelay

\* A child is taken with its update timeout pending.
LEMMA PendingTakes ==
  ASSUME Inv, Pending, NEW p \in Prover, NEW m \in net, Takes(p, m)
  PROVE  Pending'
  <1>1. /\ \A q \in Prover : q # p => Still(q)
        /\ attest' = attest /\ crashed' = crashed /\ period' = period
    BY DEF Takes, StillElse
  <1>2. psecond[p] # Null
    BY DEF Inv, Sessions, Takes
  <1>3. csess'[p][m.source] # Null /\ csess'[p][m.source].tomsg # Off
    <2>1. updateDelay(p) \in Nat /\ m.treeID \in TreeId
      BY <1>2, UpdateDelayType, HandshakeType
      DEF Takes, IsHandshake, Inv, TypeOK
    <2>2. [treeID |-> m.treeID, tomsg |-> updateDelay(p)] \in ChildSession
      BY <2>1 DEF ChildSession, Timer
    <2>. QED
      BY <2>1, <2>2, NullAssumption DEF Takes, Off
  <1>4. ASSUME NEW q \in Prover \ crashed PROVE Armed(q)' /\ Working(q)'
    <2>1. CASE q = p
      <3>1. Armed(p)'
        BY <1>3, <1>4, <2>1 DEF Takes, Pending, Armed, Dev
      <3>2. Working(p)'
        BY <1>3, <2>1 DEF Takes, Working, Going
      <3>. QED
        BY <2>1, <3>1, <3>2
    <2>2. CASE q # p
      BY <1>1, <1>4, <2>2 DEF Pending, Armed, Working, Still
    <2>. QED
      BY <2>1, <2>2
  <1>5. ASSUME NEW n \in net' PROVE RespTimed(n)'
    <2>1. CASE n.kind \notin {"CMRQ", "CMRP"}
      BY <2>1 DEF RespTimed
    <2>2. CASE n.kind \in {"CMRQ", "CMRP"}
      <3>1. IsHandshake(n) /\ n \in net
        BY <2>2 DEF IsHandshake, Takes
      <3>2. Opener(n) \in Prover /\ RespTimed(n)
        BY <3>1, Ends DEF Pending
      <3>3. status'[Opener(n)] = "CREATING"
               => /\ status[Opener(n)] = "CREATING"
                  /\ crespto'[Opener(n)] = crespto[Opener(n)]
        BY <1>1, <3>2 DEF Takes, Still
      <3>. QED
        BY <1>1, <3>2, <3>3 DEF RespTimed
    <2>. QED
      BY <2>1, <2>2
  <1>. QED
    BY <1>1, <1>4, <1>5 DEF Pending

\* Countdowns and frames age together.
LEMMA PendingTick ==
  ASSUME Inv, Pending, Tick
  PROVE  Pending'
  <1>1. /\ status' = status /\ crashed' = crashed /\ period' = period
        /\ reported' = reported
    BY DEF Tick, report
  <1>2. ASSUME NEW q \in Prover \ crashed PROVE Armed(q)' /\ Working(q)'
    <2>1. \A c \in Prover : /\ csess[q][c] = Null <=> csess'[q][c] = Null
                            /\ csess[q][c] # Null
                               => Runs(csess[q][c].tomsg, csess'[q][c].tomsg)
      BY TickTimers DEF Dev
    <2>2. Armed(q) /\ Working(q)
      BY <1>2 DEF Pending
    <2>. QED
      BY <1>1, <2>1, <2>2 DEF Armed, Working, Runs
  <1>3. \A q \in crashed : attest'[q] = Off
    BY TickTimers DEF Pending, Runs, Inv, TypeOK, ReportType
  <1>4. ASSUME NEW n \in net' PROVE RespTimed(n)'
    <2>1. PICK m \in net : Older(n, m)
      BY TickFrames DEF Inv
    <2>2. CASE n.kind \notin {"CMRQ", "CMRP"}
      BY <2>2 DEF RespTimed
    <2>3. CASE /\ n.kind \in {"CMRQ", "CMRP"} /\ Opener(n) \notin crashed
               /\ status[Opener(n)] = "CREATING"
      <3>1. /\ IsHandshake(m) /\ Opener(n) = Opener(m) /\ n.kind = m.kind
            /\ m.ttl \in Nat /\ n.ttl = m.ttl - 1
        BY <2>1, <2>3 DEF Older, IsHandshake, Opener
      <3>2. Opener(m) \in Prover /\ RespTimed(m)
        BY <3>1, Ends DEF Pending
      <3>3. crespto[Opener(m)].t # Off
        BY <2>3, <3>1, <3>2 DEF Inv, Phase
      <3>4. /\ crespto[Opener(m)].t \in Nat
            /\ crespto'[Opener(m)].t = crespto[Opener(m)].t - 1
        BY <3>2, <3>3, TickTimers DEF Runs
      <3>5. crespto[Opener(m)].t + 2 * MaxDelay - m.ttl
               - (IF m.kind = "CMRQ" THEN MaxDelay ELSE 0) >= timeoutresp
        BY <2>3, <3>1, <3>2 DEF RespTimed
      <3>6. crespto'[Opener(n)].t + 2 * MaxDelay - n.ttl
               - (IF n.kind = "CMRQ" THEN MaxDelay ELSE 0) >= timeoutresp
        BY <3>1, <3>4, <3>5, TimeAssumption
      <3>. QED
        BY <3>6 DEF RespTimed
    <2>. QED
      BY <1>1, <2>2, <2>3 DEF RespTimed
  <1>. QED
    BY <1>1, <1>2, <1>3, <1>4 DEF Pending

-----------------------------------------------------------------------------
\* A period is long enough: what is left of it once a prover has opened its
\* tree covers the response of a child and the longest update timeout.  This
\* is so when deltah is not shorter than the timeouts of all levels, and the
\* firmware check and two frames take less than timeoutresp.
Budget ==
    \A p \in Prover :
       Slack(p) > 2 * MaxDelay + (timeoutack + timeoutresp) * (maxdepth - 1)
                     + timeoutup

\* The values under which a period is long enough.
LEMMA BudgetMet ==
  ASSUME deltah >= (timeoutack + timeoutresp) * maxdepth + timeoutup,
         \A p \in Prover : firmware[p] + 2 * MaxDelay < timeoutresp
  PROVE  Budget
  <1>. SUFFICES ASSUME NEW p \in Prover
                PROVE  Slack(p) > 2 * MaxDelay
                          + (timeoutack + timeoutresp) * (maxdepth - 1) + timeoutup
    BY DEF Budget
  <1>. DEFINE k == timeoutack + timeoutresp
              a == k * maxdepth
              b == k * (maxdepth - 1)
  <1>1. /\ timeoutack \in Nat /\ timeoutresp \in Nat /\ timeoutup \in Nat
        /\ deltah \in Nat /\ maxdepth \in Nat /\ firmware[p] \in Nat
        /\ MaxDelay \in Nat
    BY TimeAssumption, TreeAssumption
  <1>2. a = b + k /\ a \in Int /\ b \in Int
    BY <1>1
  <1>3. (timeoutresp + timeoutack) * maxdepth = a
    BY <1>1
  <1>4. deltag = deltah - a - timeoutup
    <2>. HIDE DEF a
    <2>. QED
      BY <1>1, <1>2, <1>3 DEF deltag, a
  <1>5. Slack(p) = a + timeoutup - firmware[p] - timeoutack
    <2>. HIDE DEF a
    <2>. QED
      BY <1>1, <1>2, <1>4 DEF Slack
  <1>6. Slack(p) > 2 * MaxDelay + b + timeoutup
    <2>. HIDE DEF a, b
    <2>. QED
      BY <1>1, <1>2, <1>5
  <1>. QED
    BY <1>6

\* The update timeouts of a prover's children end before its period does.
InTime ==
    \A p \in Prover \ crashed : \A c \in Prover :
       attest[p] # Off /\ csess[p][c] # Null => csess[p][c].tomsg < attest[p]

\* A step that adds no child adds no timeout.
LEMMA InTimeFades ==
  ASSUME InTime, Fades
  PROVE  InTime'
  <1>1. ASSUME NEW q \in Prover, q \notin crashed', NEW c \in Prover,
               attest'[q] # Off, csess'[q][c] # Null
        PROVE  csess'[q][c].tomsg < attest'[q]
    <2>1. c \in Dev /\ csess'[q] # NoChildren
      BY <1>1 DEF Dev, NoChildren
    <2>2. /\ q \notin crashed /\ attest'[q] = attest[q]
          /\ csess'[q][c] = csess[q][c]
      BY <1>1, <2>1 DEF Fades, FadesAt
    <2>. QED
      BY <1>1, <2>2 DEF InTime
  <1>. QED
    BY <1>1 DEF InTime

\* The timeout of a child that is taken ends within the period.
LEMMA InTimeTakes ==
  ASSUME Budget, Inv, Pending, InTime, NEW p \in Prover, NEW m \in net,
         Takes(p, m)
  PROVE  InTime'
  <1>1. /\ \A q \in Prover : q # p => Still(q)
        /\ attest' = attest /\ crashed' = crashed
    BY DEF Takes, StillElse
  <1>2. /\ IsHandshake(m) /\ Opener(m) = p /\ m.kind = "CMRP" /\ p \notin crashed
        /\ status[p] = "CREATING" /\ psecond[p] # Null /\ crespto[p].t # Off
    BY DEF Takes, IsHandshake, Opener, Inv, Sessions, Phase
  <1>3. m.ttl \in Nat /\ RespTimed(m)
    BY <1>2, Ends DEF Pending
  <1>4. /\ MaxDelay \in Nat /\ timeoutresp \in Nat /\ Slack(p) \in Int
        /\ crespto[p].t \in Nat /\ (attest[p] # Off => attest[p] \in Nat)
    BY <1>2, SlackFacts, TimeAssumption DEF Inv, TypeOK, TimerType, Timer
  <1>5. crespto[p].t + 2 * MaxDelay - m.ttl >= timeoutresp
    BY <1>2, <1>3, <1>4 DEF RespTimed
  <1>6. attest[p] # Off => crespto[p].t + Slack(p) - timeoutresp <= attest[p]
    BY <1>2 DEF Inv, Deadlines
  <1>7. attest[p] # Off => updateDelay(p) < attest[p]
    <2>. DEFINE most == (timeoutack + timeoutresp) * (maxdepth - 1)
    <2>1. /\ updateDelay(p) \in Nat /\ updateDelay(p) <= most + timeoutup
          /\ most \in Int /\ timeoutup \in Nat
      BY <1>2, UpdateDelayType, TimeAssumption, TreeAssumption
    <2>2. Slack(p) > 2 * MaxDelay + most + timeoutup
      BY DEF Budget
    <2>. HIDE DEF most
    <2>. QED
      BY <1>3, <1>4, <1>5, <1>6, <2>1, <2>2
  <1>8. ASSUME NEW q \in Prover \ crashed, NEW c \in Prover,
               attest[q] # Off, csess'[q][c] # Null
        PROVE  csess'[q][c].tomsg < attest[q]
    <2>1. CASE q = p /\ c = m.source
      BY <1>7, <1>8, <2>1 DEF Takes
    <2>2. CASE ~(q = p /\ c = m.source)
      <3>1. csess'[q][c] = csess[q][c]
        BY <1>1, <1>8, <2>2 DEF Takes, Still, Dev
      <3>. QED
        BY <1>8, <3>1 DEF InTime
    <2>. QED
      BY <2>1, <2>2
  <1>. QED
    BY <1>1, <1>8 DEF InTime

\* A prover that opens its tree has no child yet.
LEMMA InTimeOpens ==
  ASSUME InTime, NEW p \in Prover, Opens(p)
  PROVE  InTime'
  <1>1. /\ \A q \in Prover : q # p => Still(q)
        /\ attest' = attest /\ crashed' = crashed
    BY DEF Opens, StillElse
  <1>2. \A c \in Prover : csess'[p][c] = Null
    BY ProverAssumption DEF Opens, Dev
  <1>. QED
    BY <1>1, <1>2 DEF InTime, Still

\* Update timeouts and the period run down together.
LEMMA InTimeTick ==
  ASSUME Inv, Pending, InTime, Tick
  PROVE  InTime'
  <1>1. crashed' = crashed
    BY DEF Tick
  <1>2. ASSUME NEW q \in Prover \ crashed, NEW c \in Prover,
               attest'[q] # Off, csess'[q][c] # Null
        PROVE  csess'[q][c].tomsg < attest'[q]
    <2>1. c \in Dev
      BY DEF Dev
    <2>2. /\ csess[q][c] # Null /\ Runs(attest[q], attest'[q])
          /\ Runs(csess[q][c].tomsg, csess'[q][c].tomsg)
      BY <1>2, <2>1, TickTimers
    <2>3. attest[q] # Off /\ csess[q][c].tomsg < attest[q] /\ csess[q][c].tomsg # Off
      BY <1>2, <2>2 DEF InTime, Pending, Armed, Runs
    <2>. QED
      BY <1>2, <2>2, <2>3 DEF Runs
  <1>. QED
    BY <1>1, <1>2 DEF InTime

\* When a period ends, a prover that has not reported would have a timer
\* pending that ends earlier.
LEMMA TimeIsEnough ==
  ASSUME Inv, Pending, InTime
  PROVE  ReportedInTime
  <1>. SUFFICES ASSUME NEW p \in Prover, attest[p] = 0, period[p] > 0,
                       ~reported[p]
                PROVE  FALSE
    BY DEF ReportedInTime
  <1>1. p \notin crashed
    BY DEF Pending, Off
  <1>2. Phase(p) /\ Deadlines(p) /\ Armed(p) /\ Working(p)
    BY <1>1 DEF Inv, Pending
  <1>3. /\ check[p] # Off => check[p] \in Nat
        /\ mktree[p] # Off => mktree[p] \in Nat
        /\ cackto[p].t # Off => cackto[p].t \in Nat
        /\ crespto[p].t # Off => crespto[p].t \in Nat
        /\ period[p] # 0
    BY DEF Inv, TypeOK, TimerType, Timer
  <1>4. /\ Slack(p) \in Int /\ timeoutack \in Nat /\ timeoutresp \in Nat
        /\ Slack(p) > timeoutresp
    BY SlackFacts, TimeAssumption
  <1>5. mktree[p] = Off /\ check[p] = Off
    BY <1>2, <1>3, <1>4 DEF Deadlines, Off
  <1>6. cackto[p].t = Off /\ crespto[p].t = Off
    BY <1>2, <1>3, <1>4, <1>5 DEF Deadlines, Off
  <1>7. status[p] \notin Going
    BY <1>2, <1>5, <1>6 DEF Phase, Going
  <1>8. PICK c \in Prover : csess[p][c] # Null
    BY <1>2, <1>3, <1>7 DEF Working
  <1>9. csess[p][c].tomsg \in Nat
    BY <1>2, <1>8 DEF Armed, Inv, TypeOK, SessionType, ChildSession, Timer, Dev
  <1>. QED
    BY <1>1, <1>8, <1>9 DEF InTime, Off

-----------------------------------------------------------------------------
(***************************************************************************)
(* A parent's update timeout started at most one delay before the child    *)
(* had its ack, and so at most three delays before the child accepts a     *)
(* response of its own.                                                    *)
(***************************************************************************)
AckTimed(m) ==
    LET s == m.source
        p == m.destination
    IN /\ m.kind = "CMAK" /\ s \notin crashed
       /\ pfirst[p] = s /\ csess[s][p] # Null
       => csess[s][p].tomsg + MaxDelay - m.ttl >= updateDelay(s)

ChildTimed(p, s) ==
    /\ status[p] = "CREATING" /\ pfirst[p] = s /\ csess[s][p] # Null
    => csess[s][p].tomsg + MaxDelay + timeoutresp - crespto[p].t >= updateDelay(s)

Nest ==
    /\ \A m \in net : AckTimed(m)
    /\ \A p, s \in Prover \ crashed : ChildTimed(p, s)
    /\ TimeoutsNested

\* The timeouts of two levels differ by the timeouts of one.
LEMMA LevelDelay ==
  ASSUME Inv, Agree, NEW p \in Prover, NEW s \in Prover,
         pfirst[p] = s, csess[s][p] # Null, pfirst[s] # NOID
  PROVE  /\ updateDelay(s) = updateDelay(p) + timeoutack + timeoutresp
         /\ updateDelay(s) \in Nat /\ updateDelay(p) \in Nat
  <1>1. psecond[p] # Null /\ psecond[s] # Null
    <2>1. pfirst[p] # NOID
      BY ProverAssumption
    <2>. QED
      BY <2>1 DEF Inv, Sessions
  <1>2. psecond[p].depth = psecond[s].depth - 1
    BY DEF Agree, SessionsAgree
  <1>3. /\ psecond[p].depth \in Nat /\ psecond[s].depth \in Nat
        /\ updateDelay(s) \in Nat /\ updateDelay(p) \in Nat
    BY <1>1, UpdateDelayType
  <1>. DEFINE k == timeoutack + timeoutresp
              d == psecond[p].depth
  <1>4. k * d = k * (d - 1) + k /\ k * d \in Int /\ k * (d - 1) \in Int
    BY <1>3, TimeAssumption
  <1>5. psecond[s].depth - 1 = d
    BY <1>2, <1>3
  <1>6. updateDelay(s) = k * d + timeoutup /\ updateDelay(p) = k * (d - 1) + timeoutup
    BY <1>5 DEF updateDelay
  <1>. QED
    BY <1>3, <1>4, <1>6, TimeAssumption

\* The timeout of a child of a prover alive is pending.
LEMMA ChildTimeout ==
  ASSUME Inv, Pending, NEW s \in Prover \ crashed, NEW p \in Prover,
         csess[s][p] # Null
  PROVE  /\ csess[s][p].tomsg \in Nat /\ csess[s][p].tomsg # Off
         /\ csess[s] # NoChildren /\ psecond[s] # Null
         /\ updateDelay(s) \in Nat
  <1>1. p \in Dev /\ csess[s] # NoChildren
    BY DEF Dev, NoChildren
  <1>2. csess[s][p].tomsg \in Nat /\ csess[s][p].tomsg # Off
    BY <1>1 DEF Pending, Armed, Inv, TypeOK, SessionType, ChildSession, Timer
  <1>3. psecond[s] # Null
    BY <1>1 DEF Inv, Sessions
  <1>. QED
    BY <1>1, <1>2, <1>3, UpdateDelayType

\* A step that adds no child and starts no timeout keeps timeouts nested.
LEMMA NestFades ==
  ASSUME Inv, Inv', Nest, Fades
  PROVE  Nest'
  <1>1. ASSUME NEW s \in Prover, s \notin crashed', NEW p \in Prover,
               csess'[s][p] # Null
        PROVE  /\ s \notin crashed /\ csess'[s][p] = csess[s][p]
               /\ pfirst'[s] = pfirst[s] /\ psecond'[s] = psecond[s]
               /\ csess[s][p] # Null /\ updateDelay(s)' = updateDelay(s)
    <2>1. p \in Dev /\ csess'[s] # NoChildren
      BY <1>1 DEF Dev, NoChildren
    <2>. QED
      BY <1>1, <2>1 DEF Fades, FadesAt, updateDelay
  <1>2. ASSUME NEW s \in Prover, NEW p \in Prover, pfirst'[p] = s
        PROVE  pfirst[p] = s
    BY <1>2, ProverAssumption DEF Fades, FadesAt
  <1>3. ASSUME NEW n \in net' PROVE AckTimed(n)'
    <2>1. SUFFICES ASSUME n.kind = "CMAK", n.source \notin crashed',
                          pfirst'[n.destination] = n.source,
                          csess'[n.source][n.destination] # Null
                   PROVE  csess'[n.source][n.destination].tomsg + MaxDelay - n.ttl
                             >= updateDelay(n.source)'
      BY DEF AckTimed
    <2>2. IsHandshake(n) /\ Opener(n) = n.source /\ Invited(n) = n.destination
      BY <2>1 DEF IsHandshake, Opener, Invited
    <2>3. n \in net
      BY <2>2 DEF Fades
    <2>4. n.source \in Prover /\ n.destination \in Prover /\ AckTimed(n)
      BY <2>2, <2>3, Ends DEF Nest
    <2>. QED
      BY <1>1, <1>2, <2>1, <2>4 DEF AckTimed
  <1>4. ASSUME NEW p \in Prover, p \notin crashed', NEW s \in Prover, s \notin crashed',
               status'[p] = "CREATING", pfirst'[p] = s, csess'[s][p] # Null
        PROVE  csess'[s][p].tomsg + MaxDelay + timeoutresp - crespto'[p].t
                  >= updateDelay(s)'
    <2>1. p \notin crashed /\ status[p] = "CREATING" /\ crespto'[p] = crespto[p]
      BY <1>4 DEF Fades, FadesAt
    <2>. QED
      BY <1>1, <1>2, <1>4, <2>1 DEF Nest, ChildTimed
  <1>5. TimeoutsNested'
    <2>1. ASSUME NEW p \in Prover, NEW s \in Prover, NEW c \in Prover,
                 s \notin crashed', p \notin crashed', pfirst'[p] = s,
                 csess'[s][p] # Null, pfirst'[s] # NOID, csess'[p][c] # Null
          PROVE  csess'[s][p].tomsg > csess'[p][c].tomsg
      <3>1. /\ s \notin crashed /\ csess'[s][p] = csess[s][p] /\ csess[s][p] # Null
            /\ pfirst[s] # NOID
        BY <1>1, <2>1
      <3>2. p \notin crashed /\ csess'[p][c] = csess[p][c] /\ csess[p][c] # Null
        BY <1>1, <2>1
      <3>. QED
        BY <1>2, <2>1, <3>1, <3>2 DEF Nest, TimeoutsNested
    <2>. QED
      BY <2>1 DEF TimeoutsNested
  <1>. QED
    BY <1>3, <1>4, <1>5 DEF Nest, ChildTimed

\* A child that has its ack starts its response timeout one delay, at most,
\* after its parent started the update timeout.
LEMMA NestOpens ==
  ASSUME Inv, Pending, Nest, NEW p \in Prover, Opens(p)
  PROVE  Nest'
  <1>1. /\ \A q \in Prover : q # p => Still(q)
        /\ crashed' = crashed
    BY DEF Opens, StillElse
  <1>2. \A c \in Prover : csess'[p][c] = Null
    BY ProverAssumption DEF Opens, Dev
  <1>3. \A c, s \in Prover : pfirst'[c] = s => pfirst[c] = s
    BY <1>1, ProverAssumption DEF Opens, Still
  <1>4. \A s \in Prover : s # p => updateDelay(s)' = updateDelay(s)
    BY <1>1 DEF Still, updateDelay
  <1>5. ASSUME NEW n \in net' PROVE AckTimed(n)'
    <2>1. SUFFICES ASSUME n.kind = "CMAK", n.source \notin crashed,
                          pfirst'[n.destination] = n.source,
                          csess'[n.source][n.destination] # Null
                   PROVE  csess'[n.source][n.destination].tomsg + MaxDelay - n.ttl
                             >= updateDelay(n.source)'
      BY <1>1 DEF AckTimed
    <2>2. IsHandshake(n) /\ Opener(n) = n.source /\ Invited(n) = n.destination
      BY <2>1 DEF IsHandshake, Opener, Invited
    <2>3. n \in net
      BY <2>1, <2>2 DEF Opens, Invitation
    <2>4. n.source \in Prover /\ n.destination \in Prover /\ AckTimed(n)
      BY <2>2, <2>3, Ends DEF Nest
    <2>5. n.source # p
      BY <1>2, <2>1, <2>4
    <2>6. Still(n.source) /\ updateDelay(n.source)' = updateDelay(n.source)
      BY <1>1, <1>4, <2>4, <2>5
    <2>. QED
      BY <1>3, <2>1, <2>4, <2>6 DEF AckTimed, Still
  <1>6. ASSUME NEW c \in Prover \ crashed, NEW s \in Prover \ crashed,
               status'[c] = "CREATING", pfirst'[c] = s, csess'[s][c] # Null
        PROVE  csess'[s][c].tomsg + MaxDelay + timeoutresp - crespto'[c].t
                  >= updateDelay(s)'
    <2>1. s # p /\ pfirst[c] = s
      BY <1>2, <1>3, <1>6
    <2>2. Still(s) /\ updateDelay(s)' = updateDelay(s) /\ csess[s][c] # Null
      BY <1>1, <1>4, <1>6, <2>1 DEF Still
    <2>3. CASE c # p
      BY <1>1, <1>6, <2>1, <2>2, <2>3 DEF Nest, ChildTimed, Still
    <2>4. CASE c = p
      <3>1. s # NOID
        BY ProverAssumption
      <3>2. PICK m \in net : AckFor(p, m)
        BY <1>6, <2>4, <3>1 DEF Opens
      <3>3. /\ m.kind = "CMAK" /\ m.source = s /\ m.destination = p
            /\ IsHandshake(m) /\ AckTimed(m)
        BY <2>1, <2>4, <3>2 DEF AckFor, IsHandshake, Nest
      <3>4. m.ttl \in Nat
        BY <3>3, Ends
      <3>5. csess[s][p].tomsg + MaxDelay - m.ttl >= updateDelay(s)
        BY <1>6, <2>1, <2>2, <2>4, <3>3 DEF AckTimed
      <3>6. csess[s][p].tomsg \in Nat /\ updateDelay(s) \in Nat
        BY <1>6, <2>2, <2>4, ChildTimeout
      <3>7. crespto'[p].t = timeoutresp
        BY DEF Opens
      <3>8. csess[s][p].tomsg + MaxDelay + timeoutresp - timeoutresp >= updateDelay(s)
        BY <3>4, <3>5, <3>6, TimeAssumption
      <3>. QED
        BY <2>2, <2>4, <3>7, <3>8 DEF Still
    <2>. QED
      BY <2>3, <2>4
  <1>7. TimeoutsNested'
    <2>1. ASSUME NEW c \in Prover, NEW s \in Prover, NEW d \in Prover,
                 s \notin crashed, c \notin crashed, pfirst'[c] = s,
                 csess'[s][c] # Null, pfirst'[s] # NOID, csess'[c][d] # Null
          PROVE  csess'[s][c].tomsg > csess'[c][d].tomsg
      <3>1. c # p /\ s # p
        BY <1>2, <2>1
      <3>. QED
        BY <1>1, <2>1, <3>1 DEF Nest, TimeoutsNested, Still
    <2>. QED
      BY <1>1, <2>1 DEF TimeoutsNested
  <1>. QED
    BY <1>1, <1>5, <1>6, <1>7 DEF Nest, ChildTimed

\* A prover that answers an invitation is no child yet and has none.
LEMMA NestAnswers ==
  ASSUME Inv, Agree, Nest, NEW p \in Prover, NEW m \in net, Answers(p, m)
  PROVE  Nest'
  <1>1. /\ \A q \in Prover : q # p => Still(q)
        /\ crashed' = crashed /\ csess' = csess /\ crespto' = crespto
    BY DEF Answers, StillElse
  <1>2. /\ IsHandshake(m) /\ Opener(m) = m.source /\ Invited(m) = p
        /\ m.kind = "CMRQ" /\ m.source \in Prover
    BY DEF Answers, IsHandshake, Opener, Invited
  <1>3. csess[m.source][p] = Null /\ csess[p] = NoChildren
    BY <1>2 DEF Agree, Agrees, Inv, Sessions, Answers
  <1>4. /\ \A c \in Prover : csess[p][c] = Null
        /\ \A s \in Prover : pfirst'[p] = s => csess[s][p] = Null
    BY <1>3 DEF NoChildren, Answers, Dev
  <1>5. \A s \in Prover : s # p => updateDelay(s)' = updateDelay(s)
    BY <1>1 DEF Still, updateDelay
  <1>6. ASSUME NEW n \in net' PROVE AckTimed(n)'
    <2>1. SUFFICES ASSUME n.kind = "CMAK", n.source \notin crashed,
                          pfirst'[n.destination] = n.source,
                          csess[n.source][n.destination] # Null
                   PROVE  csess[n.source][n.destination].tomsg + MaxDelay - n.ttl
                             >= updateDelay(n.source)'
      BY <1>1 DEF AckTimed
    <2>2. /\ IsHandshake(n) /\ Opener(n) = n.source /\ Invited(n) = n.destination
          /\ n \in net
      BY <2>1 DEF IsHandshake, Opener, Invited, Answers
    <2>3. n.source \in Prover /\ n.destination \in Prover /\ AckTimed(n)
      BY <2>2, Ends DEF Nest
    <2>4. n.source # p /\ n.destination # p
      BY <1>4, <2>1, <2>3
    <2>. QED
      BY <1>1, <1>5, <2>1, <2>3, <2>4 DEF AckTimed, Still
  <1>7. ASSUME NEW c \in Prover \ crashed, NEW s \in Prover \ crashed,
               status'[c] = "CREATING", pfirst'[c] = s, csess[s][c] # Null
        PROVE  csess[s][c].tomsg + MaxDelay + timeoutresp - crespto[c].t
                  >= updateDelay(s)'
    <2>1. s # p /\ c # p
      BY <1>4, <1>7
    <2>. QED
      BY <1>1, <1>5, <1>7, <2>1 DEF Nest, ChildTimed, Still
  <1>8. TimeoutsNested'
    <2>1. ASSUME NEW c \in Prover, NEW s \in Prover, NEW d \in Prover,
                 s \notin crashed, c \notin crashed, pfirst'[c] = s,
                 csess[s][c] # Null, pfirst'[s] # NOID, csess[c][d] # Null
          PROVE  csess[s][c].tomsg > csess[c][d].tomsg
      <3>1. c # p /\ s # p
        BY <1>4, <2>1
      <3>. QED
        BY <1>1, <2>1, <3>1 DEF Nest, TimeoutsNested, Still
    <2>. QED
      BY <1>1, <2>1 DEF TimeoutsNested
  <1>. QED
    BY <1>1, <1>6, <1>7, <1>8 DEF Nest, ChildTimed

\* The timeout of a new child is shorter than the one of the prover itself at
\* its parent, by at least one level less three delays.
LEMMA NestTakes ==
  ASSUME 3 * MaxDelay < timeoutack + timeoutresp,
         Inv, Agree, Pending, Nest, NEW p \in Prover, NEW m \in net, Takes(p, m)
  PROVE  Nest'
  <1>1. /\ \A q \in Prover : q # p => Still(q)
        /\ crashed' = crashed /\ pfirst' = pfirst /\ psecond' = psecond
    BY DEF Takes, StillElse
  <1>2. /\ IsHandshake(m) /\ Opener(m) = p /\ Invited(m) = m.source
        /\ m.kind = "CMRP" /\ m.source \in Prover /\ p \notin crashed
        /\ status[p] = "CREATING" /\ psecond[p] # Null
    BY DEF Takes, IsHandshake, Opener, Invited, Inv, Sessions
  <1>3. HandshakeTimed(m) /\ RespTimed(m) /\ m.ttl \in Nat
    BY <1>2, Ends DEF Pending
  <1>4. pfirst[m.source] = p
           => /\ status[m.source] \in {"ATTESTING", "ATTESTING_CREATING"}
              /\ m.source # p /\ csess[m.source] = NoChildren
    BY <1>2, <1>3 DEF HandshakeTimed, Inv, Sessions
  <1>5. \A s, c \in Prover : ~(s = p /\ c = m.source) => csess'[s][c] = csess[s][c]
    BY <1>1 DEF Takes, Still, Dev
  <1>6. \A s \in Prover : updateDelay(s)' = updateDelay(s)
    BY <1>1 DEF updateDelay
  <1>7. csess'[p][m.source].tomsg = updateDelay(p) /\ updateDelay(p) \in Nat
    BY <1>2, UpdateDelayType DEF Takes
  <1>8. ASSUME NEW n \in net' PROVE AckTimed(n)'
    <2>1. SUFFICES ASSUME n.kind = "CMAK", n.source \notin crashed,
                          pfirst[n.destination] = n.source,
                          csess'[n.source][n.destination] # Null
                   PROVE  csess'[n.source][n.destination].tomsg + MaxDelay - n.ttl
                             >= updateDelay(n.source)
      BY <1>1, <1>6 DEF AckTimed, updateDelay
    <2>2. CASE n \in net /\ n # m
      <3>1. /\ IsHandshake(n) /\ Opener(n) = n.source /\ Invited(n) = n.destination
        BY <2>1 DEF IsHandshake, Opener, Invited
      <3>2. n.source \in Prover /\ n.destination \in Prover /\ AckTimed(n)
        BY <2>2, <3>1, Ends DEF Nest
      <3>3. ~(n.source = p /\ n.destination = m.source)
        BY <1>2, <2>2, <3>1 DEF Inv, Handshakes, OneHandshake
      <3>. QED
        BY <1>5, <2>1, <3>2, <3>3 DEF AckTimed
    <2>3. CASE n.source = p /\ n.destination = m.source /\ n.ttl = MaxDelay
      BY <1>7, <2>3, TimeAssumption
    <2>. QED
      BY <2>2, <2>3 DEF Takes
  <1>9. ASSUME NEW c \in Prover \ crashed, NEW s \in Prover \ crashed,
               status'[c] = "CREATING", pfirst[c] = s, csess'[s][c] # Null
        PROVE  csess'[s][c].tomsg + MaxDelay + timeoutresp - crespto'[c].t
                  >= updateDelay(s)
    <2>1. status[c] = "CREATING" /\ crespto'[c] = crespto[c]
      BY <1>1, <1>9 DEF Takes, Still
    <2>2. ~(s = p /\ c = m.source)
      BY <1>4, <1>9, <2>1
    <2>. QED
      BY <1>5, <1>9, <2>1, <2>2 DEF Nest, ChildTimed
  <1>10. TimeoutsNested'
    <2>1. ASSUME NEW c \in Prover, NEW s \in Prover, NEW d \in Prover,
                 s \notin crashed, c \notin crashed, pfirst[c] = s,
                 csess'[s][c] # Null, pfirst[s] # NOID, csess'[c][d] # Null
          PROVE  csess'[s][c].tomsg > csess'[c][d].tomsg
      <3>1. ~(s = p /\ c = m.source)
        BY <1>4, <1>5, <2>1 DEF NoChildren, Dev
      <3>2. csess'[s][c] = csess[s][c]
        BY <1>5, <3>1
      <3>3. CASE ~(c = p /\ d = m.source)
        BY <1>5, <2>1, <3>2, <3>3 DEF Nest, TimeoutsNested
      <3>4. CASE c = p /\ d = m.source
        <4>1. csess[s][p].tomsg + MaxDelay + timeoutresp - crespto[p].t
                 >= updateDelay(s)
          BY <1>2, <2>1, <3>2, <3>4 DEF Nest, ChildTimed
        <4>2. crespto[p].t + 2 * MaxDelay - m.ttl >= timeoutresp
          <5>1. crespto[p].t \in Int
            BY DEF Inv, TypeOK, TimerType, Timer, Off
          <5>. QED
            BY <1>2, <1>3, <5>1, TimeAssumption DEF RespTimed
        <4>3. /\ updateDelay(s) = updateDelay(p) + timeoutack + timeoutresp
              /\ updateDelay(s) \in Nat
          BY <2>1, <3>2, <3>4, LevelDelay
        <4>4. csess[s][p].tomsg \in Nat /\ crespto[p].t \in Int
          BY <2>1, <3>2, <3>4, ChildTimeout DEF Inv, TypeOK, TimerType, Timer, Off
        <4>5. csess[s][p].tomsg > updateDelay(p)
          BY <1>3, <1>7, <4>1, <4>2, <4>3, <4>4, TimeAssumption
        <4>. QED
          BY <1>7, <3>2, <3>4, <4>5
      <3>. QED
        BY <3>3, <3>4
    <2>. QED
      BY <1>1, <2>1 DEF TimeoutsNested
  <1>. QED
    BY <1>1, <1>6, <1>8, <1>9, <1>10 DEF Nest, ChildTimed

\* Timeouts run down together.
LEMMA NestTick ==
  ASSUME Inv, Pending, Nest, Tick
  PROVE  Nest'
  <1>1. /\ crashed' = crashed /\ pfirst' = pfirst /\ psecond' = psecond
        /\ status' = status
    BY DEF Tick
  <1>2. \A s \in Prover : updateDelay(s)' = updateDelay(s)
    BY <1>1 DEF updateDelay
  <1>3. ASSUME NEW s \in Prover \ crashed, NEW p \in Prover, csess'[s][p] # Null
        PROVE  /\ csess[s][p] # Null /\ csess[s][p].tomsg \in Nat
               /\ csess'[s][p].tomsg = csess[s][p].tomsg - 1
               /\ updateDelay(s) \in Nat
    <2>1. p \in Dev
      BY DEF Dev
    <2>2. csess[s][p] # Null /\ Runs(csess[s][p].tomsg, csess'[s][p].tomsg)
      BY <1>3, <2>1, TickTimers
    <2>3. csess[s][p].tomsg # Off /\ updateDelay(s) \in Nat
      BY <2>2, ChildTimeout
    <2>. QED
      BY <2>2, <2>3 DEF Runs
  <1>4. ASSUME NEW n \in net' PROVE AckTimed(n)'
    <2>1. SUFFICES ASSUME n.kind = "CMAK", n.source \notin crashed,
                          pfirst[n.destination] = n.source,
                          csess'[n.source][n.destination] # Null
                   PROVE  csess'[n.source][n.destination].tomsg + MaxDelay - n.ttl
                             >= updateDelay(n.source)
      BY <1>1 DEF AckTimed, updateDelay
    <2>2. PICK m \in net : Older(n, m)
      BY TickFrames DEF Inv
    <2>3. /\ IsHandshake(m) /\ m.kind = "CMAK" /\ m.source = n.source
          /\ m.destination = n.destination /\ m.ttl \in Nat /\ n.ttl = m.ttl - 1
          /\ Opener(m) = m.source /\ Invited(m) = m.destination
      BY <2>1, <2>2 DEF Older, IsHandshake, Opener, Invited
    <2>4. n.source \in Prover /\ n.destination \in Prover /\ AckTimed(m)
      BY <2>3, Ends DEF Nest
    <2>. DEFINE x == csess[n.source][n.destination].tomsg
                y == csess'[n.source][n.destination].tomsg
                u == updateDelay(n.source)
    <2>5. x \in Nat /\ y = x - 1 /\ u \in Nat /\ x + MaxDelay - m.ttl >= u
      BY <1>3, <2>1, <2>3, <2>4 DEF AckTimed
    <2>. HIDE DEF x, y, u
    <2>6. y + MaxDelay - n.ttl >= u
      BY <2>3, <2>5, TimeAssumption
    <2>. QED
      BY <2>6 DEF y, u
  <1>5. ASSUME NEW p \in Prover \ crashed, NEW s \in Prover \ crashed,
               status[p] = "CREATING", pfirst[p] = s, csess'[s][p] # Null
        PROVE  csess'[s][p].tomsg + MaxDelay + timeoutresp - crespto'[p].t
                  >= updateDelay(s)
    <2>1. crespto[p].t # Off
      BY <1>5 DEF Inv, Phase
    <2>2. crespto[p].t \in Nat /\ crespto'[p].t = crespto[p].t - 1
      BY <2>1, TickTimers DEF Runs
    <2>. DEFINE x == csess[s][p].tomsg
                y == csess'[s][p].tomsg
                u == updateDelay(s)
    <2>3. /\ x \in Nat /\ y = x - 1 /\ u \in Nat
          /\ x + MaxDelay + timeoutresp - crespto[p].t >= u
      BY <1>3, <1>5 DEF Nest, ChildTimed
    <2>. HIDE DEF x, y, u
    <2>4. y + MaxDelay + timeoutresp - crespto'[p].t >= u
      BY <2>2, <2>3, TimeAssumption
    <2>. QED
      BY <2>4 DEF y, u
  <1>6. TimeoutsNested'
    <2>1. ASSUME NEW p \in Prover, NEW s \in Prover, NEW c \in Prover,
                 s \notin crashed, p \notin crashed, pfirst[p] = s,
                 csess'[s][p] # Null, pfirst[s] # NOID, csess'[p][c] # Null
          PROVE  csess'[s][p].tomsg > csess'[p][c].tomsg
      <3>. DEFINE x == csess[s][p].tomsg
                  y == csess[p][c].tomsg
      <3>1. /\ csess[s][p] # Null /\ csess[p][c] # Null /\ x \in Nat /\ y \in Nat
            /\ csess'[s][p].tomsg = x - 1 /\ csess'[p][c].tomsg = y - 1
        BY <1>3, <2>1
      <3>2. x > y
        BY <2>1, <3>1 DEF Nest, TimeoutsNested
      <3>. HIDE DEF x, y
      <3>. QED
        BY <3>1, <3>2
    <2>. QED
      BY <1>1, <2>1 DEF TimeoutsNested
  <1>. QED
    BY <1>1, <1>2, <1>4, <1>5, <1>6 DEF Nest, ChildTimed

-----------------------------------------------------------------------------
\* Every step is of one of the kinds.
LEMMA StillFades ==
  ASSUME NEW q \in Prover, Still(q), attest'[q] = attest[q],
         crashed' = crashed, period'[q] = period[q]
  PROVE  FadesAt(q)
  BY DEF Still, FadesAt, Working

\* A step of one prover that fades.
LEMMA StepFades ==
  ASSUME NEW p \in Prover, StillElse(p), FadesAt(p),
         \A n \in net' : IsHandshake(n) => n \in net
  PROVE  Fades
  BY StillFades DEF StillElse, Fades

\* A step in which no prover moves.
LEMMA StayFades ==
  ASSUME UNCHANGED <<status, sessions, report, attest, crespto, crashed, period>>,
         \A n \in net' : IsHandshake(n) => n \in net
  PROVE  Fades
  <1>1. \A q \in Prover : Still(q)
    BY DEF Still, sessions, report
  <1>. QED
    BY <1>1, StillFades DEF Fades

\* A report is sent.
LEMMA SentFades ==
  ASSUME Inv, Inv', NEW p \in Prover, p \notin crashed,
         NEW first \in Dev, NEW tid \in TreeId, NEW cs \in ChildMap,
         NEW recs \in Reports, NEW rest \in SUBSET net,
         sendUpReq(p, first, tid, cs, recs, rest),
         UNCHANGED <<attest, crashed, period>>,
         \A q \in Prover : q # p => crespto'[q] = crespto[q]
  PROVE  Fades
  <1>1. TypeOK /\ rest \in SUBSET Message
    BY DEF Inv, TypeOK
  <1>. DEFINE L == status'[p] = "FINISHED" /\ pfirst'[p] = NOID
              F == \A q \in Prover :
                      q # p => /\ status'[q] = status[q]
                               /\ pfirst'[q] = pfirst[q]
                               /\ psecond'[q] = psecond[q]
                               /\ csess'[q] = csess[q]
                               /\ reported'[q] = reported[q]
  <1>2. L /\ F /\ \A m \in net' : IsHandshake(m) => m \in rest
    BY <1>1, SendUpReqFacts
  <1>3. csess'[p] = NoChildren
    <2>1. Sessions(p)'
      BY DEF Inv
    <2>. QED
      BY <1>2, <2>1 DEF Sessions, NoChildren
  <1>4. reported'[p]
    BY <1>1 DEF sendUpReq, TypeOK, ReportType
  <1>5. FadesAt(p)
    BY <1>2, <1>3, <1>4 DEF FadesAt, NoChildren, Working
  <1>6. StillElse(p)
    BY <1>2 DEF StillElse, Still
  <1>. QED
    BY <1>2, <1>5, <1>6, StepFades

\* Invitations are sent.
LEMMA InviteOpens ==
  ASSUME Inv, NEW p \in Prover, p \notin crashed,
         status[p] \in {"READY", "ATTESTING", "ATTESTING_CREATING"},
         NEW first \in Dev, NEW sess \in ParentSession, NEW depth \in Depth,
         NEW tid \in TreeId, NEW rest \in SUBSET net,
         Invite(p, first, sess, depth, tid, rest), tid = sess.treeID,
         depth = IF first = NOID THEN maxdepth ELSE sess.depth - 1,
         \/ first = NOID
         \/ first = pfirst[p] /\ sess = psecond[p] /\ \E m \in net : AckFor(p, m),
         UNCHANGED <<attest, crashed, period>>
  PROVE  Opens(p)
  <1>1. TypeOK /\ csess[p] = NoChildren
    BY DEF Inv, Sessions
  <1>2. /\ status'[p] = "CREATING" /\ pfirst'[p] = first /\ psecond'[p] = sess
        /\ crespto'[p] = [treeID |-> tid, t |-> timeoutresp]
        /\ reported' = reported
    BY <1>1 DEF Invite, TypeOK, SessionType, TimerType, report
  <1>3. \A q \in Prover : q # p => Still(q)
    BY <1>1, <1>2 DEF Still, Invite, TypeOK, SessionType, TimerType
  <1>4. csess'[p] = [NoChildren EXCEPT ![NOID] = [treeID |-> tid, tomsg |-> Off]]
    BY <1>1 DEF Invite, TypeOK, SessionType
  <1>5. \A d \in Dev : csess'[p][d] # Null
           => d = NOID /\ csess'[p][d].treeID = psecond'[p].treeID
    BY <1>2, <1>4 DEF NoChildren
  <1>6. \A n \in net' : n \in net \/ Invitation(p, n)
    <2>1. PICK near \in SUBSET (Prover \ {p}) :
             net' = rest \cup
                    {[kind |-> "CMRQ", source |-> p, destination |-> q,
                      depth |-> depth, treeID |-> tid, ttl |-> MaxDelay] :
                        q \in near}
      BY DEF Invite
    <2>2. depth = Level(p)'
      BY <1>2 DEF Level
    <2>3. \A q \in near :
             Invitation(p, [kind |-> "CMRQ", source |-> p, destination |-> q,
                            depth |-> depth, treeID |-> tid, ttl |-> MaxDelay])
      BY <1>2, <2>2 DEF Invitation
    <2>. QED
      BY <2>1, <2>3
  <1>. QED
    BY <1>2, <1>3, <1>5, <1>6 DEF Opens, StillElse

\* sendCommitReq reports or invites.
LEMMA CommitReqStep ==
  ASSUME Inv, Inv', NEW p \in Prover, p \notin crashed,
         status[p] \in {"READY", "ATTESTING", "ATTESTING_CREATING"},
         NEW first \in Dev, NEW second, NEW tid, NEW rest \in SUBSET net,
         sendCommitReq(p, first, second, tid, rest),
         \/ first = NOID
         \/ /\ first = pfirst[p] /\ second = psecond[p]
            /\ second \in ParentSession /\ second.depth > 1
            /\ tid = second.treeID /\ tid \in TreeId
            /\ \E m \in net : AckFor(p, m),
         UNCHANGED <<attest, crashed, period>>
  PROVE  Fades \/ Opens(p)
  <1>1. csess[p] \in ChildMap /\ aggreport[p] \in Reports /\ TypeOK
    BY DEF Inv, TypeOK, SessionType, ReportType, ChildMap
  <1>2. CASE maxchildren[p] = 0
    <2>1. PICK t \in TreeId : sendUpReq(p, first, t, csess[p], aggreport[p], rest)
      BY <1>2 DEF sendCommitReq
    <2>2. crespto' = crespto
      BY <1>2 DEF sendCommitReq
    <2>. QED
      BY <1>1, <2>1, <2>2, SentFades
  <1>3. CASE maxchildren[p] # 0 /\ first = NOID
    <2>1. PICK t \in TreeId : Invite(p, first, RootSession(t), maxdepth, t, rest)
      BY <1>3 DEF sendCommitReq
    <2>2. /\ RootSession(t) \in ParentSession /\ maxdepth \in Depth
          /\ RootSession(t).treeID = t
      BY TreeAssumption DEF RootSession, ParentSession, Depth
    <2>. QED
      BY <1>3, <2>1, <2>2, InviteOpens
  <1>4. CASE maxchildren[p] # 0 /\ first # NOID
    <2>1. Invite(p, first, second, childDepth(second), tid, rest)
      BY <1>4 DEF sendCommitReq
    <2>2. childDepth(second) \in Depth /\ childDepth(second) = second.depth - 1
      BY <1>4, TreeAssumption DEF childDepth, Depth, ParentSession
    <2>. QED
      BY <1>4, <2>1, <2>2, InviteOpens
  <1>. QED
    BY <1>2, <1>3, <1>4

\* Sessions that are not that of the tree alone include one of a child.
LEMMA ChildLeft ==
  ASSUME NEW cs \in ChildMap, cs[NOID] # Null, size(cs) # 1
  PROVE  \E c \in Prover : cs[c] # Null
  <1>. SUFFICES ASSUME \A c \in Prover : cs[c] = Null PROVE FALSE
    OBVIOUS
  <1>1. Members(cs) = {NOID}
    BY DEF Members, Dev
  <1>. QED
    BY <1>1, FS_Singleton DEF size

\* A new period: the sessions are dropped.
LEMMA StartStep ==
  ASSUME Inv, NEW p \in Prover, startAttestation(p)
  PROVE  Fades
  <1>1. TypeOK /\ p \notin crashed
    BY DEF Inv, startAttestation, Alive
  <1>2. /\ status'[p] = "CHECKING" /\ pfirst'[p] = NOID
        /\ csess'[p] = NoChildren
    BY <1>1 DEF startAttestation, TypeOK, SessionType, NoChildren
  <1>3. crashed' = crashed /\ net' = net
    BY DEF startAttestation
  <1>4. FadesAt(p)
    BY <1>1, <1>2, <1>3 DEF FadesAt, NoChildren, Working, Going
  <1>5. \A q \in Prover : q # p => /\ Still(q) /\ attest'[q] = attest[q]
                                   /\ period'[q] = period[q]
    BY <1>1
    DEF startAttestation, Still, TypeOK, SessionType, TimerType, ReportType
  <1>. QED
    BY <1>3, <1>4, <1>5, StillFades DEF Fades

\* The firmware check is done.
LEMMA CheckStep ==
  ASSUME Inv, NEW p \in Prover, checkSoftConfig(p)
  PROVE  Fades
  <1>1. /\ status' = [status EXCEPT ![p] = "READY"] /\ TypeOK
        /\ UNCHANGED <<sessions, report, crespto, attest, crashed, period, net>>
    BY DEF checkSoftConfig, Inv
  <1>2. status'[p] = "READY" /\ StillElse(p)
    BY <1>1 DEF StillElse, Still, TypeOK, SessionType, sessions, report
  <1>3. FadesAt(p)
    BY <1>1, <1>2 DEF FadesAt, Working, Going, sessions
  <1>. QED
    BY <1>1, <1>2, <1>3, StepFades

\* The tree timer expires.
LEMMA MkTreeStep ==
  ASSUME Inv, Inv', NEW p \in Prover, mkTree(p)
  PROVE  Fades \/ Opens(p)
  <1>1. TypeOK /\ Phase(p) /\ Sessions(p) /\ p \notin crashed
    BY DEF Inv, mkTree, Alive
  <1>2. status[p] \in {"READY", "ATTESTING"}
    <2>1. check[p] \in Nat \cup {Off} /\ mktree[p] = 0 /\ check[p] # 0
      BY <1>1 DEF TypeOK, TimerType, Timer, mkTree
    <2>. QED
      BY <1>1, <2>1 DEF Phase, Off
  <1>3. UNCHANGED <<attest, crashed, period>>
    BY DEF mkTree
  <1>4. CASE status[p] = "ATTESTING"
    <2>1. /\ status' = [status EXCEPT ![p] = "ATTESTING_CREATING"]
          /\ UNCHANGED <<sessions, report, crespto, net>>
      BY <1>4 DEF mkTree
    <2>2. status'[p] = "ATTESTING_CREATING" /\ StillElse(p)
      BY <1>1, <1>3, <2>1 DEF StillElse, Still, TypeOK, SessionType, sessions, report
    <2>3. FadesAt(p)
      BY <1>3, <2>1, <2>2 DEF FadesAt, Working, Going, sessions
    <2>. QED
      BY <2>1, <2>2, <2>3, StepFades
  <1>5. CASE status[p] = "READY"
    <2>1. sendCommitReq(p, pfirst[p], psecond[p], NOID, net)
      BY <1>5 DEF mkTree
    <2>2. pfirst[p] = NOID /\ NOID \in Dev
      BY <1>1, <1>5 DEF Sessions, Dev
    <2>. QED
      BY <1>1, <1>3, <1>5, <2>1, <2>2, CommitReqStep
  <1>. QED
    BY <1>2, <1>4, <1>5

\* The ack did not come.
LEMMA AckTimeOutStep ==
  ASSUME Inv, Inv', NEW p \in Prover, handleCommitAckTimeOut(p)
  PROVE  Fades \/ Opens(p)
  <1>1. TypeOK /\ Phase(p) /\ Sessions(p) /\ p \notin crashed /\ cackto[p].t = 0
    BY DEF Inv, handleCommitAckTimeOut, Alive
  <1>2. /\ status[p] \in {"ATTESTING", "ATTESTING_CREATING"}
        /\ cackto[p].dev = pfirst[p]
    BY <1>1 DEF Phase, Sessions, Off
  <1>3. UNCHANGED <<attest, crashed, period>>
    BY DEF handleCommitAckTimeOut
  <1>4. CASE status[p] = "ATTESTING_CREATING"
    <2>1. sendCommitReq(p, NOID, Null, NOID, net) /\ NOID \in Dev
      BY <1>2, <1>4 DEF handleCommitAckTimeOut, Dev
    <2>. QED
      BY <1>1, <1>3, <1>4, <2>1, CommitReqStep
  <1>5. CASE status[p] = "ATTESTING"
    <2>1. /\ status' = [status EXCEPT ![p] = "READY"]
          /\ dropParent(p)
          /\ UNCHANGED <<csess, report, crespto, net>>
      BY <1>2, <1>5 DEF handleCommitAckTimeOut
    <2>2. /\ status'[p] = "READY" /\ pfirst'[p] = NOID /\ StillElse(p)
          /\ csess'[p] = NoChildren
      BY <1>1, <1>3, <1>5, <2>1
      DEF StillElse, Still, TypeOK, SessionType, dropParent, report, Sessions
    <2>3. FadesAt(p)
      BY <1>1, <1>3, <2>1, <2>2 DEF FadesAt, Working, Going, NoChildren
    <2>. QED
      BY <2>1, <2>2, <2>3, StepFades
  <1>. QED
    BY <1>2, <1>4, <1>5

\* No more responses are accepted: the prover reports or has a child.
LEMMA RespTimeOutStep ==
  ASSUME Inv, Inv', NEW p \in Prover, handleCommitRespTimeOut(p)
  PROVE  Fades
  <1>1. TypeOK /\ Phase(p) /\ Sessions(p) /\ p \notin crashed /\ crespto[p].t = 0
    BY DEF Inv, handleCommitRespTimeOut, Alive
  <1>2. /\ status[p] \in {"CREATING", "COLLECTING", "FINISHED"}
        /\ crespto[p].treeID \in TreeId
    BY <1>1 DEF Phase, Off
  <1>3. /\ UNCHANGED <<attest, crashed, period>>
        /\ \A q \in Prover : q # p => crespto'[q] = crespto[q]
    BY <1>1 DEF handleCommitRespTimeOut, TypeOK, TimerType
  <1>4. csess[p] \in ChildMap /\ aggreport[p] \in Reports /\ pfirst[p] \in Dev
    BY <1>1 DEF TypeOK, SessionType, ReportType, ChildMap
  <1>5. CASE size(csess[p]) = 1
    <2>1. sendUpReq(p, pfirst[p], crespto[p].treeID, csess[p], aggreport[p], net)
      BY <1>5 DEF handleCommitRespTimeOut
    <2>. QED
      BY <1>1, <1>2, <1>3, <1>4, <2>1, SentFades
  <1>6. CASE size(csess[p]) # 1
    <2>1. /\ status' = [status EXCEPT ![p] = "COLLECTING"]
          /\ UNCHANGED <<sessions, report, net>>
      BY <1>6 DEF handleCommitRespTimeOut
    <2>2. /\ status'[p] = "COLLECTING" /\ StillElse(p)
          /\ UNCHANGED <<pfirst, psecond, csess, reported>>
      BY <1>1, <1>3, <2>1 DEF StillElse, Still, TypeOK, SessionType, sessions, report
    <2>3. status[p] = "CREATING" => \E c \in Prover : csess[p][c] # Null
      BY <1>1, <1>4, <1>6, ChildLeft DEF Sessions
    <2>4. Working(p) => Working(p)'
      BY <1>2, <1>3, <2>2, <2>3 DEF Working, Going
    <2>5. FadesAt(p)
      BY <1>1, <1>3, <2>2, <2>4 DEF FadesAt
    <2>. QED
      BY <2>1, <2>2, <2>5, StepFades
  <1>. QED
    BY <1>5, <1>6

\* A child's session is closed and others remain.
LEMMA CloseFades ==
  ASSUME Inv, NEW p \in Prover, p \notin crashed, NEW d \in Prover,
         size([csess[p] EXCEPT ![d] = Null]) # 1,
         csess' = [csess EXCEPT ![p] = [csess[p] EXCEPT ![d] = Null]],
         UNCHANGED <<status, pfirst, psecond, reported, crespto, attest, crashed,
                     period>>,
         \A n \in net' : IsHandshake(n) => n \in net
  PROVE  Fades
  <1>. DEFINE cs == [csess[p] EXCEPT ![d] = Null]
  <1>1. TypeOK /\ Sessions(p)
    BY DEF Inv
  <1>2. csess[p] \in ChildMap /\ csess'[p] = cs
    BY <1>1 DEF TypeOK, SessionType, ChildMap
  <1>3. StillElse(p)
    BY <1>1 DEF StillElse, Still, TypeOK, SessionType
  <1>4. cs \in ChildMap /\ csess[p][NOID] = cs[NOID]
    BY <1>1, CloseChild
  <1>5. csess[p] # NoChildren => \E c \in Prover : cs[c] # Null
    <2>. HIDE DEF cs
    <2>1. size(cs) # 1
      BY DEF cs
    <2>. QED
      BY <1>1, <1>4, <2>1, ChildLeft DEF Sessions
  <1>6. \A e \in Dev : cs[e] # Null => csess[p][e] # Null /\ cs[e] = csess[p][e]
    BY <1>2 DEF ChildMap
  <1>7. Working(p) => Working(p)'
    BY <1>2, <1>5 DEF Working, NoChildren, Dev
  <1>. HIDE DEF cs
  <1>8. FadesAt(p)
    BY <1>2, <1>6, <1>7 DEF FadesAt
  <1>. QED
    BY <1>3, <1>8, StepFades

\* A child did not report in time.
LEMMA UpdateTimeOutStep ==
  ASSUME Inv, Inv', NEW p \in Prover, handleUpdateTimeOut(p)
  PROVE  Fades
  <1>1. /\ TypeOK /\ Sessions(p) /\ p \notin crashed
        /\ UNCHANGED <<crespto, attest, crashed, period>>
    BY DEF Inv, handleUpdateTimeOut, Alive
  <1>. DEFINE cs(d) == [csess[p] EXCEPT ![d] = Null]
  <1>2. PICK d \in Prover, t \in TreeId :
           IF size(cs(d)) = 1
           THEN sendUpReq(p, pfirst[p], t, cs(d), aggreport[p], net)
           ELSE /\ csess' = [csess EXCEPT ![p] = cs(d)]
                /\ UNCHANGED <<status, pfirst, psecond, report, net>>
    BY DEF handleUpdateTimeOut
  <1>3. CASE size(cs(d)) = 1
    <2>1. cs(d) \in ChildMap /\ pfirst[p] \in Dev /\ aggreport[p] \in Reports
      BY <1>1, CloseChild DEF TypeOK, SessionType, ReportType
    <2>. HIDE DEF cs
    <2>. QED
      BY <1>1, <1>2, <1>3, <2>1, SentFades
  <1>4. CASE size(cs(d)) # 1
    <2>1. /\ csess' = [csess EXCEPT ![p] = cs(d)]
          /\ UNCHANGED <<status, pfirst, psecond, report, net>>
      BY <1>2, <1>4
    <2>2. reported' = reported /\ net' = net
      BY <2>1 DEF report
    <2>. QED
      BY <1>1, <1>4, <2>1, <2>2, CloseFades
  <1>. QED
    BY <1>3, <1>4

\* A prover runs out of energy.
LEMMA CrashStep ==
  ASSUME Inv, NEW p \in Prover, crash(p)
  PROVE  Fades
  <1>1. TypeOK /\ p \notin crashed
    BY DEF Inv, crash, Alive
  <1>2. /\ crashed' = crashed \cup {p} /\ attest'[p] = Off
        /\ UNCHANGED <<status, pfirst, psecond, report, net, period>>
        /\ \A q \in Prover : q # p => attest'[q] = attest[q] /\ csess'[q] = csess[q]
                                      /\ crespto'[q] = crespto[q]
    BY <1>1 DEF crash, TypeOK, SessionType, TimerType
  <1>3. ASSUME NEW d \in Dev, csess'[p][d] # Null
        PROVE  csess[p][d] # Null /\ csess'[p][d].treeID = csess[p][d].treeID
    <2>1. csess'[p][d] = IF csess[p][d] = Null THEN Null
                         ELSE [csess[p][d] EXCEPT !.tomsg = Off]
      BY <1>1 DEF crash, TypeOK, SessionType
    <2>2. csess[p][d] # Null => csess[p][d] \in ChildSession
      BY <1>1 DEF TypeOK, SessionType
    <2>. QED
      BY <1>3, <2>1, <2>2 DEF ChildSession
  <1>4. FadesAt(p)
    BY <1>1, <1>2, <1>3 DEF FadesAt
  <1>5. \A q \in Prover : q # p => FadesAt(q)
    BY <1>2 DEF FadesAt, Working, report
  <1>. QED
    BY <1>2, <1>4, <1>5 DEF Fades

\* An invitation is ignored or answered.
LEMMA CommitReqReceived ==
  ASSUME Inv, NEW p \in Prover, p \notin crashed, NEW m \in net,
         m.destination = p, handleCommitReq(p, m), Received(p)
  PROVE  Fades \/ Answers(p, m)
  <1>1. TypeOK /\ m.kind = "CMRQ"
    BY DEF Inv, handleCommitReq
  <1>2. m.source \in Prover
    BY <1>1 DEF TypeOK, Message, CommitReq, CommitResp, CommitAck, UpdateReq
  <1>3. /\ UNCHANGED <<csess, crespto, reported, attest, crashed, period>>
        /\ UNCHANGED report
    BY DEF handleCommitReq, Received, report
  <1>4. CASE ~acceptsReq(p, m)
    <2>1. net' = net \ {m} /\ UNCHANGED <<pfirst, psecond, status>>
      BY <1>4 DEF handleCommitReq
    <2>. QED
      BY <1>3, <2>1, StayFades DEF sessions
  <1>5. CASE acceptsReq(p, m)
    <2>. DEFINE kid == CHOOSE k \in Shared(p, m) : \A l \in Shared(p, m) : k <= l
                r == [kind |-> "CMRP", source |-> p, destination |-> m.source,
                      kid |-> kid, treeID |-> m.treeID, ttl |-> MaxDelay]
                sess == [treeID |-> m.treeID, keyID |-> kid, depth |-> m.depth]
    <2>1. /\ pfirst' = [pfirst EXCEPT ![p] = m.source]
          /\ psecond' = [psecond EXCEPT ![p] = sess]
          /\ status' = [status EXCEPT ![p] = "ATTESTING"]
          /\ net' = (net \ {m}) \cup {r}
      BY <1>5 DEF handleCommitReq
    <2>. HIDE DEF kid
    <2>2. /\ r.kind = "CMRP" /\ r.source = p /\ r.destination = m.source
          /\ r.treeID = m.treeID /\ r.ttl = MaxDelay
          /\ sess.treeID = m.treeID /\ sess.depth = m.depth
      OBVIOUS
    <2>. HIDE DEF r, sess
    <2>3. /\ pfirst'[p] = m.source /\ psecond'[p] = sess /\ status'[p] = "ATTESTING"
          /\ StillElse(p)
      BY <1>1, <1>3, <2>1 DEF StillElse, Still, TypeOK, SessionType
    <2>4. status[p] = "READY"
      BY <1>5 DEF acceptsReq
    <2>5. \A n \in net' :
          \/ n \in net /\ n # m
          \/ /\ n.kind = "CMRP" /\ n.source = p /\ n.destination = m.source
             /\ n.treeID = m.treeID /\ n.ttl = MaxDelay
      BY <2>1, <2>2
    <2>. QED
      BY <1>1, <1>2, <1>3, <2>2, <2>3, <2>4, <2>5 DEF Answers
  <1>. QED
    BY <1>4, <1>5

\* An ack is ignored, or the prover reports or invites in turn.
LEMMA CommitAckReceived ==
  ASSUME Inv, Inv', NEW p \in Prover, p \notin crashed, NEW m \in net,
         m.destination = p, handleCommitAck(p, m), Received(p)
  PROVE  Fades \/ Opens(p)
  <1>1. /\ TypeOK /\ Sessions(p) /\ Handshakes /\ m.kind = "CMAK"
        /\ UNCHANGED <<attest, crashed, period>>
    BY DEF Inv, handleCommitAck, Received
  <1>2. /\ m.source \in Prover /\ m.source \in Dev /\ m.treeID \in TreeId
        /\ IsHandshake(m) /\ Opener(m) = m.source /\ Invited(m) = p
    <2>1. m \in CommitAck
      BY <1>1 DEF TypeOK, Message, CommitReq, CommitResp, CommitAck, UpdateReq
    <2>. QED
      BY <1>1, <2>1 DEF CommitAck, Dev, IsHandshake, Opener, Invited
  <1>3. CASE ~acceptsAck(p, m)
    <2>1. /\ net' = net \ {m}
          /\ UNCHANGED <<status, sessions, report, crespto>>
      BY <1>3 DEF handleCommitAck
    <2>. QED
      BY <1>1, <2>1, StayFades
  <1>4. CASE acceptsAck(p, m)
    <2>. DEFINE rest == net \ {m}
    <2>1. IF isLeaf(p)
          THEN /\ sendUpReq(p, m.source, m.treeID, csess[p], aggreport[p], rest)
               /\ UNCHANGED crespto
          ELSE sendCommitReq(p, m.source, psecond[p], m.treeID, rest)
      BY <1>4 DEF handleCommitAck
    <2>2. rest \in SUBSET net
      OBVIOUS
    <2>. HIDE DEF rest
    <2>3. pfirst[p] = m.source /\ AckFor(p, m)
      BY <1>1, <1>4 DEF acceptsAck, AckFor
    <2>4. /\ status[p] \in {"ATTESTING", "ATTESTING_CREATING"}
          /\ psecond[p].treeID = m.treeID
      BY <1>1, <1>2, <2>3 DEF Handshakes, HandshakeTimed
    <2>5. psecond[p] \in ParentSession
      BY <1>1, <1>2, <2>3, ProverAssumption DEF Sessions, TypeOK, SessionType
    <2>6. CASE isLeaf(p)
      <3>1. csess[p] \in ChildMap /\ aggreport[p] \in Reports
        BY <1>1 DEF TypeOK, SessionType, ReportType, ChildMap
      <3>. QED
        BY <1>1, <1>2, <2>1, <2>2, <2>6, <3>1, SentFades
    <2>7. CASE ~isLeaf(p)
      <3>1. psecond[p].depth > 1
        BY <2>5, <2>7, TreeAssumption DEF isLeaf, ParentSession, Depth
      <3>. QED
        BY <1>1, <1>2, <2>1, <2>2, <2>3, <2>4, <2>5, <2>7, <3>1, CommitReqStep
    <2>. QED
      BY <2>6, <2>7
  <1>. QED
    BY <1>3, <1>4

\* A response is ignored or its sender becomes a child.
LEMMA CommitRespReceived ==
  ASSUME Inv, NEW p \in Prover, p \notin crashed, NEW m \in net,
         m.destination = p, handleCommitResp(p, m), Received(p)
  PROVE  Fades \/ Takes(p, m)
  <1>1. /\ TypeOK /\ m.kind = "CMRP"
        /\ UNCHANGED <<pfirst, psecond, report, attest, crashed, period>>
    BY DEF Inv, handleCommitResp, Received
  <1>2. m.source \in Prover /\ m.source \in Dev
    BY <1>1 DEF TypeOK, Message, CommitReq, CommitResp, CommitAck, UpdateReq, Dev
  <1>. DEFINE sess == [treeID |-> m.treeID, tomsg |-> updateDelay(p)]
              a == [kind |-> "CMAK", source |-> p, destination |-> m.source,
                    treeID |-> m.treeID, ttl |-> MaxDelay]
  <1>3. \/ net' = net \ {m} /\ UNCHANGED <<csess, status, crespto>>
        \/ /\ status[p] = "CREATING"
           /\ csess' = [csess EXCEPT ![p][m.source] = sess]
           /\ net' = (net \ {m}) \cup {a}
           /\ \/ UNCHANGED <<status, crespto>>
              \/ /\ status' = [status EXCEPT ![p] = "COLLECTING"]
                 /\ crespto' = [crespto EXCEPT ![p].t = Off]
    BY DEF handleCommitResp
  <1>4. CASE net' = net \ {m} /\ UNCHANGED <<csess, status, crespto>>
    BY <1>1, <1>4, StayFades DEF sessions
  <1>5. CASE /\ status[p] = "CREATING"
             /\ csess' = [csess EXCEPT ![p][m.source] = sess]
             /\ net' = (net \ {m}) \cup {a}
             /\ \/ UNCHANGED <<status, crespto>>
                \/ /\ status' = [status EXCEPT ![p] = "COLLECTING"]
                   /\ crespto' = [crespto EXCEPT ![p].t = Off]
    <2>1. \A n \in net' :
          \/ n \in net /\ n # m
          \/ /\ n.kind = "CMAK" /\ n.source = p /\ n.destination = m.source
             /\ n.treeID = m.treeID /\ n.ttl = MaxDelay
      BY <1>5
    <2>. HIDE DEF a
    <2>2. /\ \A d \in Dev : d # m.source => csess'[p][d] = csess[p][d]
          /\ csess'[p][m.source] = sess
          /\ \A q \in Prover : q # p => csess'[q] = csess[q]
      <3>. HIDE DEF sess
      <3>. QED
        BY <1>1, <1>2, <1>5 DEF TypeOK, SessionType
    <2>. HIDE DEF sess
    <2>3. /\ \/ status'[p] = "CREATING" /\ crespto'[p] = crespto[p]
             \/ status'[p] = "COLLECTING"
          /\ \A q \in Prover : q # p => /\ status'[q] = status[q]
                                        /\ crespto'[q] = crespto[q]
      BY <1>1, <1>5 DEF TypeOK, SessionType, TimerType
    <2>4. StillElse(p) /\ reported' = reported
      BY <1>1, <2>2, <2>3 DEF StillElse, Still, report
    <2>. QED
      BY <1>1, <1>2, <1>5, <2>1, <2>2, <2>3, <2>4 DEF Takes, sess
  <1>. QED
    BY <1>3, <1>4, <1>5

\* A report is passed on, dropped or aggregated.
LEMMA UpReqReceived ==
  ASSUME Inv, Inv', NEW p \in Prover, p \notin crashed, NEW m \in net,
         m.destination = p, handleUpReq(p, m), Received(p)
  PROVE  Fades
  <1>1. /\ TypeOK /\ Sessions(p) /\ m.kind = "UPRQ"
        /\ UNCHANGED <<crespto, attest, crashed, period>>
    BY DEF Inv, handleUpReq, Received
  <1>2. m.source \in Prover /\ m.report \in Reports /\ m.treeID \in TreeId
        /\ m \in UpdateReq
    BY <1>1 DEF TypeOK, Message, CommitReq, CommitResp, CommitAck, UpdateReq
  <1>. DEFINE rest == net \ {m}
              cs == [csess[p] EXCEPT ![m.source] = Null]
              recs == aggreport[p] \cup m.report
              on == [m EXCEPT !.kind = "UPRQF", !.destination = Collector,
                              !.ttl = MaxDelay]
  <1>3. \/ /\ net' = rest \cup {on}
           /\ UNCHANGED <<status, sessions, report>>
        \/ /\ net' = rest
           /\ UNCHANGED <<status, sessions, report>>
        \/ IF size(cs) = 1
           THEN sendUpReq(p, pfirst[p], m.treeID, cs, recs, rest)
           ELSE /\ csess' = [csess EXCEPT ![p] = cs]
                /\ net' = rest
                /\ UNCHANGED <<status, pfirst, psecond, reported>>
    BY DEF handleUpReq
  <1>4. ~IsHandshake(on)
    BY <1>2 DEF IsHandshake, UpdateReq
  <1>5. rest \in SUBSET net
    OBVIOUS
  <1>6. CASE \/ net' = rest \cup {on} /\ UNCHANGED <<status, sessions, report>>
             \/ net' = rest /\ UNCHANGED <<status, sessions, report>>
    <2>. HIDE DEF rest, on
    <2>. QED
      BY <1>1, <1>4, <1>5, <1>6, StayFades
  <1>7. CASE size(cs) = 1 /\ sendUpReq(p, pfirst[p], m.treeID, cs, recs, rest)
    <2>1. /\ cs \in ChildMap /\ pfirst[p] \in Dev /\ recs \in Reports
      BY <1>1, <1>2, CloseChild, FS_Union DEF TypeOK, SessionType, ReportType, Reports
    <2>. HIDE DEF cs, recs, rest
    <2>. QED
      BY <1>1, <1>2, <1>5, <1>7, <2>1, SentFades
  <1>8. CASE /\ size(cs) # 1 /\ csess' = [csess EXCEPT ![p] = cs] /\ net' = rest
             /\ UNCHANGED <<status, pfirst, psecond, reported>>
    BY <1>1, <1>2, <1>8, CloseFades
  <1>. QED
    BY <1>3, <1>6, <1>7, <1>8

\* A frame is received.
LEMMA ReceiveStep ==
  ASSUME Inv, Inv', NEW p \in Prover, receive(p)
  PROVE  \/ Fades \/ Opens(p)
         \/ \E m \in net : Answers(p, m) \/ Takes(p, m)
  <1>1. PICK m \in net :
           /\ m.destination = p
           /\ \/ /\ p \in crashed
                 /\ net' = net \ {m}
                 /\ UNCHANGED <<status, sessions, report, crespto>>
              \/ /\ p \notin crashed
                 /\ \/ handleCommitReq(p, m)
                    \/ handleCommitAck(p, m)
                    \/ handleCommitResp(p, m)
                    \/ handleUpReq(p, m)
           /\ Received(p)
    BY DEF receive, Received
  <1>2. CASE p \in crashed
    BY <1>1, <1>2, StayFades DEF Received
  <1>3. CASE p \notin crashed
    BY <1>1, <1>3, CommitReqReceived, CommitAckReceived, CommitRespReceived,
       UpReqReceived
  <1>. QED
    BY <1>2, <1>3

\* Every step of the specification is of one of the five kinds.
LEMMA StepKinds ==
  ASSUME Inv, Inv', [Next]_vars
  PROVE  \/ Fades \/ Tick
         \/ \E p \in Prover : Opens(p)
         \/ \E p \in Prover, m \in net : Answers(p, m) \/ Takes(p, m)
  <1>1. CASE UNCHANGED vars \/ Over
    BY <1>1, StayFades DEF Over, vars, timers
  <1>2. CASE collect \/ overwrite
    BY <1>2, StayFades DEF collect, overwrite, timers
  <1>3. ASSUME NEW p \in Prover,
               \/ startAttestation(p) \/ checkSoftConfig(p) \/ mkTree(p)
               \/ handleCommitAckTimeOut(p) \/ handleCommitRespTimeOut(p)
               \/ handleUpdateTimeOut(p) \/ crash(p)
        PROVE  Fades \/ Opens(p)
    BY <1>3, StartStep, CheckStep, MkTreeStep, AckTimeOutStep, RespTimeOutStep,
       UpdateTimeOutStep, CrashStep
  <1>. QED
    BY <1>1, <1>2, <1>3, ReceiveStep DEF Next, Event

-----------------------------------------------------------------------------
\* The invariants together: Inv, agreement, and the timers pending.
TreeInv == Inv /\ Agree /\ Pending

\* The invariants hold at the start.
LEMMA TreeInvInit == Init => TreeInv
  <1>. SUFFICES ASSUME Init PROVE TreeInv
    OBVIOUS
  <1>1. Agree
    BY DEF Init, Agree, OneTree, SessionsAgree, Dev
  <1>2. Pending
    BY DEF Init, Pending, Armed, Working, Dev
  <1>. QED
    BY <1>1, <1>2, InitInv DEF TreeInv

\* They are inductive.
LEMMA TreeInvNext == TreeInv /\ [Next]_vars => TreeInv'
  <1>. SUFFICES ASSUME TreeInv, [Next]_vars PROVE TreeInv'
    OBVIOUS
  <1>1. Inv /\ Inv' /\ Agree /\ Pending
    BY NextInv DEF TreeInv
  <1>2. Agree'
    BY <1>1, StepKinds, AgreeFades, AgreeTick, AgreeOpens, AgreeAnswers, AgreeTakes
  <1>3. Pending'
    BY <1>1, StepKinds, PendingFades, PendingTick, PendingOpens, PendingAnswers,
       PendingTakes
  <1>. QED
    BY <1>1, <1>2, <1>3 DEF TreeInv

\* They hold in every reachable state.
THEOREM TreeInvCorrect == Spec => []TreeInv
  BY TreeInvInit, TreeInvNext, PTL DEF Spec

\* A parent and a child have the same tree id, that of the parent's own
\* session, and the child is one level below: whatever the delays, lost
\* handshakes and crashes, provers never wait on one another in a circle.
THEOREM SessionsAgreeCorrect == Spec => []SessionsAgree
  <1>1. TreeInv => SessionsAgree
    BY DEF TreeInv, Agree
  <1>. QED
    BY <1>1, TreeInvCorrect, PTL

\* With a period long enough, a prover has reported when its next one starts.
THEOREM ReportedInTimeCorrect ==
  ASSUME Budget
  PROVE  Spec => []ReportedInTime
  <1>1. Init => TreeInv /\ InTime
    <2>1. Init => InTime
      BY DEF Init, InTime, Dev
    <2>. QED
      BY <2>1, TreeInvInit
  <1>2. TreeInv /\ InTime /\ [Next]_vars => TreeInv' /\ InTime'
    <2>. SUFFICES ASSUME TreeInv, InTime, [Next]_vars PROVE TreeInv' /\ InTime'
      OBVIOUS
    <2>1. TreeInv'
      BY TreeInvNext
    <2>2. Inv /\ Inv' /\ Pending
      BY <2>1 DEF TreeInv
    <2>3. ASSUME NEW p \in Prover, NEW m \in net, Answers(p, m) PROVE InTime'
      BY <2>3 DEF Answers, StillElse, InTime
    <2>4. InTime'
      BY <2>2, <2>3, StepKinds, InTimeFades, InTimeTick, InTimeOpens, InTimeTakes
    <2>. QED
      BY <2>1, <2>4
  <1>3. TreeInv /\ InTime => ReportedInTime
    BY TimeIsEnough DEF TreeInv
  <1>. QED
    BY <1>1, <1>2, <1>3, PTL DEF Spec

\* When three frames take less than the two timeouts of a level, a parent that
\* is not a root waits longer for a child than the child waits for its own.
THEOREM TimeoutsNestedCorrect ==
  ASSUME 3 * MaxDelay < timeoutack + timeoutresp
  PROVE  Spec => []TimeoutsNested
  <1>1. Init => TreeInv /\ Nest
    <2>1. Init => Nest
      BY DEF Init, Nest, AckTimed, ChildTimed, TimeoutsNested, Dev
    <2>. QED
      BY <2>1, TreeInvInit
  <1>2. TreeInv /\ Nest /\ [Next]_vars => TreeInv' /\ Nest'
    <2>. SUFFICES ASSUME TreeInv, Nest, [Next]_vars PROVE TreeInv' /\ Nest'
      OBVIOUS
    <2>1. TreeInv'
      BY TreeInvNext
    <2>2. Inv /\ Inv' /\ Agree /\ Pending
      BY <2>1 DEF TreeInv
    <2>3. Nest'
      BY <2>2, StepKinds, NestFades, NestTick, NestOpens, NestAnswers, NestTakes
    <2>. QED
      BY <2>1, <2>3
  <1>3. Nest => TimeoutsNested
    BY DEF Nest
  <1>. QED
    BY <1>1, <1>2, <1>3, PTL DEF Spec
=============================================================================
