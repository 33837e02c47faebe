--------------------------- MODULE CarrierProofs ---------------------------
(***************************************************************************)
(* Proofs about Carrier.  The recursion of isChannelBusy is well founded:  *)
(* the walks along which the question goes give a solution of its          *)
(* equation, so that a prover finds the channel busy whenever another      *)
(* transmits at most two links away.                                       *)
(***************************************************************************)
EXTENDS Carrier, TLAPS

\* The walk w carries the question from d, where it came from gid, over k
\* links to a prover that transmits.
Asks(w, k, d, gid, stat) ==
    /\ w[0] = d
    /\ stat[w[k]] = "TRANSMITING"
    /\ \A i \in 1..k : w[i] \in Neighbours(w[i - 1])
    /\ k > 0 => w[1] # gid
    /\ \A i \in 2..k : w[i] # w[i - 2]

\* The answer that isChannelBusy gives, without its recursion.
Heard(far, d, gid, stat) ==
    \E k \in 0..far : \E w \in [0..k -> Prover] : Asks(w, k, d, gid, stat)

\* A prover hears itself, and what those hear whom it asks.
LEMMA HeardStep ==
  ASSUME NEW far \in Nat, NEW d \in Prover, NEW gid, NEW stat
  PROVE  Heard(far, d, gid, stat)
           <=> \/ stat[d] = "TRANSMITING"
               \/ /\ far # 0
                  /\ \E n \in Neighbours(d) \ {gid} : Heard(far - 1, n, d, stat)
  <1>1. ASSUME stat[d] = "TRANSMITING"
        PROVE  Heard(far, d, gid, stat)
    <2>. DEFINE w == [i \in 0..0 |-> d]
    <2>1. w \in [0..0 -> Prover] /\ w[0] = d
      OBVIOUS
    <2>2. Asks(w, 0, d, gid, stat)
      BY <1>1, <2>1 DEF Asks
    <2>. QED
      <3>. HIDE DEF w
      <3>1. 0 \in 0..far
        OBVIOUS
      <3>. QED
        BY <2>1, <2>2, <3>1 DEF Heard
  <1>2. ASSUME far # 0,
               NEW n \in Neighbours(d) \ {gid}, Heard(far - 1, n, d, stat)
        PROVE  Heard(far, d, gid, stat)
    <2>1. PICK k \in 0..(far - 1) : \E w \in [0..k -> Prover] : Asks(w, k, n, d, stat)
      BY <1>2 DEF Heard
    <2>2. PICK w \in [0..k -> Prover] : Asks(w, k, n, d, stat)
      BY <2>1
    <2>. DEFINE v == [i \in 0..(k + 1) |-> IF i = 0 THEN d ELSE w[i - 1]]
    <2>3. k \in Nat /\ k + 1 \in 0..far
      BY <1>2, <2>1
    <2>4. v \in [0..(k + 1) -> Prover]
      BY <2>2, <2>3
    <2>5. v[0] = d /\ \A i \in 1..(k + 1) : v[i] = w[i - 1]
      BY <2>3
    <2>6. v[1] = n
      BY <2>2, <2>3, <2>5 DEF Asks
    <2>7. \A i \in 1..(k + 1) : v[i] \in Neighbours(v[i - 1])
      <3>1. TAKE i \in 1..(k + 1)
      <3>2. CASE i = 1
        BY <1>2, <2>5, <2>6, <3>2
      <3>3. CASE i # 1
        <4>1. i - 1 \in 1..k /\ v[i - 1] = w[(i - 1) - 1] /\ v[i] = w[i - 1]
          BY <2>3, <2>5, <3>1, <3>3
        <4>. QED
          BY <2>2, <4>1 DEF Asks
      <3>. QED
        BY <3>2, <3>3
    <2>8. \A i \in 2..(k + 1) : v[i] # v[i - 2]
      <3>1. TAKE i \in 2..(k + 1)
      <3>2. CASE i = 2
        BY <2>2, <2>3, <2>5, <3>1, <3>2 DEF Asks
      <3>3. CASE i # 2
        <4>1. i - 1 \in 2..k /\ v[i - 2] = w[(i - 1) - 2] /\ v[i] = w[i - 1]
          BY <2>3, <2>5, <3>1, <3>3
        <4>. QED
          BY <2>2, <4>1 DEF Asks
      <3>. QED
        BY <3>2, <3>3
    <2>9. stat[v[k + 1]] = "TRANSMITING"
      BY <2>2, <2>3, <2>5 DEF Asks
    <2>10. Asks(v, k + 1, d, gid, stat)
      BY <1>2, <2>3, <2>5, <2>6, <2>7, <2>8, <2>9 DEF Asks
    <2>. QED
      BY <2>3, <2>4, <2>10 DEF Heard
  <1>3. ASSUME Heard(far, d, gid, stat), stat[d] # "TRANSMITING"
        PROVE  /\ far # 0
               /\ \E n \in Neighbours(d) \ {gid} : Heard(far - 1, n, d, stat)
    <2>1. PICK k \in 0..far : \E w \in [0..k -> Prover] : Asks(w, k, d, gid, stat)
      BY <1>3 DEF Heard
    <2>2. PICK w \in [0..k -> Prover] : Asks(w, k, d, gid, stat)
      BY <2>1
    <2>3. k > 0 /\ k \in Nat /\ far # 0 /\ k - 1 \in 0..(far - 1)
      BY <1>3, <2>1, <2>2 DEF Asks
    <2>. DEFINE v == [i \in 0..(k - 1) |-> w[i + 1]]
    <2>4. v \in [0..(k - 1) -> Prover] /\ \A i \in 0..(k - 1) : v[i] = w[i + 1]
      BY <2>2, <2>3
    <2>5. w[1] \in Neighbours(d) \ {gid}
      <3>1. 1 \in 1..k /\ 1 - 1 = 0
        BY <2>3
      <3>. QED
        BY <2>2, <2>3, <3>1 DEF Asks
    <2>6. v[0] = w[1] /\ stat[v[k - 1]] = "TRANSMITING"
      BY <2>2, <2>3, <2>4 DEF Asks
    <2>7. \A i \in 1..(k - 1) : v[i] \in Neighbours(v[i - 1])
      <3>1. TAKE i \in 1..(k - 1)
      <3>2. i + 1 \in 1..k /\ v[i] = w[i + 1] /\ v[i - 1] = w[(i + 1) - 1]
        BY <2>3, <2>4, <3>1
      <3>. QED
        BY <2>2, <3>2 DEF Asks
    <2>8. k - 1 > 0 => v[1] # d
      <3>1. SUFFICES ASSUME k - 1 > 0 PROVE v[1] # d
        OBVIOUS
      <3>2. 2 \in 2..k /\ v[1] = w[2] /\ 2 - 2 = 0
        BY <2>3, <2>4, <3>1
      <3>. QED
        BY <2>2, <3>2 DEF Asks
    <2>9. \A i \in 2..(k - 1) : v[i] # v[i - 2]
      <3>1. TAKE i \in 2..(k - 1)
      <3>2. i + 1 \in 2..k /\ v[i] = w[i + 1] /\ v[i - 2] = w[(i + 1) - 2]
        BY <2>3, <2>4, <3>1
      <3>. QED
        BY <2>2, <3>2 DEF Asks
    <2>10. Asks(v, k - 1, w[1], d, stat)
      BY <2>6, <2>7, <2>8, <2>9 DEF Asks
    <2>. QED
      BY <2>3, <2>4, <2>5, <2>10 DEF Heard
  <1>. QED
    BY <1>1, <1>2, <1>3

\* The equation that isChannelBusy defines busy by.
Answers(busy, stat) ==
    \A q \in Question :
       busy[q] = (\/ stat[q.at] = "TRANSMITING"
                  \/ /\ q.far # 0
                     /\ \E n \in Neighbours(q.at) \ {q.gid} :
                           busy[Ask(q.far - 1, n, q.at)])

\* The function that isChannelBusy defines by recursion exists and obeys its
\* equation: a prover asks itself, and then those at its other gates.
LEMMA BusyEquation ==
  ASSUME NEW p \in Prover, NEW stat
  PROVE  \E f : /\ Answers(f, stat)
                /\ isChannelBusy(p, stat) = f[Ask(drange, p, NoGate)]
  <1>. DEFINE heard == [q \in Question |-> Heard(q.far, q.at, q.gid, stat)]
              body(f) == [q \in Question |->
                            \/ stat[q.at] = "TRANSMITING"
                            \/ /\ q.far # 0
                               /\ \E n \in Neighbours(q.at) \ {q.gid} :
                                     f[Ask(q.far - 1, n, q.at)]]
              busy == CHOOSE f : f = body(f)
  <1>1. heard = body(heard)
    <2>1. ASSUME NEW q \in Question
          PROVE  Heard(q.far, q.at, q.gid, stat)
                   = (\/ stat[q.at] = "TRANSMITING"
                      \/ /\ q.far # 0
                         /\ \E n \in Neighbours(q.at) \ {q.gid} :
                               heard[Ask(q.far - 1, n, q.at)])
      <3>1. q.far \in Nat /\ q.at \in Prover
        BY CarrierAssumption DEF Question
      <3>2. ASSUME q.far # 0, NEW n \in Neighbours(q.at)
            PROVE  heard[Ask(q.far - 1, n, q.at)]
                     = Heard(q.far - 1, n, q.at, stat)
        <4>1. Ask(q.far - 1, n, q.at) \in Question
          BY CarrierAssumption, <3>2 DEF Question, Ask, Neighbours
        <4>. QED
          BY <4>1 DEF Ask
      <3>3. Heard(q.far, q.at, q.gid, stat) \in BOOLEAN
        BY DEF Heard
      <3>. HIDE DEF heard
      <3>4. Heard(q.far, q.at, q.gid, stat)
              <=> \/ stat[q.at] = "TRANSMITING"
                  \/ /\ q.far # 0
                     /\ \E n \in Neighbours(q.at) \ {q.gid} :
                           Heard(q.far - 1, n, q.at, stat)
        BY <3>1, HeardStep
      <3>. QED
        BY <3>2, <3>3, <3>4
    <2>. QED
      BY <2>1
  <1>2. busy = body(busy)
    BY <1>1
  <1>3. isChannelBusy(p, stat) = busy[Ask(drange, p, NoGate)]
    BY DEF isChannelBusy
  <1>. HIDE DEF busy
  <1>4. Answers(busy, stat)
    <2>1. \A q \in Question : busy[q] = body(busy)[q]
      BY <1>2
    <2>. QED
      BY <2>1 DEF Answers
  <1>. QED
    BY <1>3, <1>4

\* A prover finds the channel busy when another one transmits that is joined
\* to it by a link or by way of a third one.
LEMMA BusyNear ==
  ASSUME drange >= 2, NEW p \in Prover, NEW q \in Prover, p # q, NEW stat,
         stat[q] = "TRANSMITING",
         q \in Neighbours(p) \/ Neighbours(p) \cap Neighbours(q) # {}
  PROVE  isChannelBusy(p, stat)
  <1>1. PICK f : /\ Answers(f, stat)
                 /\ isChannelBusy(p, stat) = f[Ask(drange, p, NoGate)]
    BY BusyEquation
  <1>2. ASSUME NEW a \in Question, a.far # 0, NEW n \in Neighbours(a.at), n # a.gid
        PROVE  /\ Ask(a.far - 1, n, a.at) \in Question
               /\ f[Ask(a.far - 1, n, a.at)] => f[a]
    <2>1. a.far \in 1..drange /\ a.at \in Prover /\ n \in Prover
      BY CarrierAssumption, <1>2 DEF Question, Neighbours
    <2>2. Ask(a.far - 1, n, a.at) \in Question
      BY CarrierAssumption, <2>1 DEF Question, Ask
    <2>. QED
      BY <1>1, <1>2, <2>2 DEF Answers
  <1>3. ASSUME NEW a \in Question, stat[a.at] = "TRANSMITING"
        PROVE  f[a] = TRUE
    BY <1>1, <1>3 DEF Answers
  <1>. DEFINE a0 == Ask(drange, p, NoGate)
  <1>4. a0 \in Question /\ a0.far # 0 /\ a0.far = drange /\ a0.at = p /\ a0.gid = NoGate
    BY CarrierAssumption DEF Question, Ask
  <1>5. \A n \in Prover : n # NoGate
    BY CarrierAssumption DEF NoGate
  <1>6. CASE q \in Neighbours(p)
    <2>. DEFINE a1 == Ask(drange - 1, q, p)
    <2>1. a1 \in Question /\ (f[a1] => f[a0])
      BY <1>2, <1>4, <1>5, <1>6
    <2>2. a1.at = q
      BY DEF Ask
    <2>3. f[a1]
      BY <1>3, <2>1, <2>2
    <2>. QED
      BY <1>1, <2>1, <2>3
  <1>7. CASE Neighbours(p) \cap Neighbours(q) # {}
    <2>1. PICK c \in Neighbours(p) : c \in Neighbours(q)
      BY <1>7
    <2>2. c \in Prover /\ q \in Neighbours(c)
      <3>1. {q, c} = {c, q}
        OBVIOUS
      <3>. QED
        BY <2>1, <3>1 DEF Neighbours
    <2>. DEFINE a1 == Ask(drange - 1, c, p)
                a2 == Ask(drange - 1 - 1, q, c)
    <2>3. a1 \in Question /\ (f[a1] => f[a0])
      BY <1>2, <1>4, <1>5, <2>1, <2>2
    <2>4. a1.at = c /\ a1.gid = p /\ a1.far = drange - 1 /\ a1.far # 0
      BY CarrierAssumption DEF Ask
    <2>5. a2 \in Question /\ (f[a2] => f[a1])
      BY <1>2, <2>2, <2>3, <2>4
    <2>6. a2.at = q
      BY DEF Ask
    <2>7. f[a2]
      BY <1>3, <2>5, <2>6
    <2>. QED
      BY <1>1, <2>3, <2>5, <2>7
  <1>. QED
    BY <1>6, <1>7

-----------------------------------------------------------------------------
\* The types of the state.
CarrierTypeOK ==
    /\ txrxstat \in [Prover -> {"TRANSMITING", "DIDLE"}]
    /\ chanstat \in [Prover -> {"BUSY", "CIDLE"}]
    /\ msgqueue \in [Prover -> Nat]
    /\ todo \in [Prover -> Nat]

\* The inductive invariant: a question that goes two links far is enough.
CarrierInv ==
    /\ CarrierTypeOK
    /\ QueueAttended
    /\ drange >= 2 => NoCollision

\* Nobody near a prover that transmits does so too, for the states stat.
Quiet(stat) ==
    \A p, q \in Prover :
       p # q /\ stat[p] = "TRANSMITING" /\ stat[q] = "TRANSMITING"
       => q \notin Neighbours(p) /\ Neighbours(p) \cap Neighbours(q) = {}

\* The frames queued at the provers other than p are attended to.
Attended(p) ==
    \A q \in Prover \ {p} :
       msgqueue[q] > 0 => isTransmiting(q) \/ chanstat[q] = "BUSY"

\* What transmit leaves behind: the prover p starts only if it hears nobody,
\* and its frame is sent or waits for a scheduled message.
LEMMA TransmitStep ==
  ASSUME NEW p \in Prover, CarrierTypeOK, Attended(p),
         NEW stat \in [Prover -> {"TRANSMITING", "DIDLE"}],
         drange >= 2 => Quiet(stat),
         NEW chan \in [Prover -> {"BUSY", "CIDLE"}], NEW queued \in Nat,
         \A q \in Prover \ {p} : stat[q] = txrxstat[q] /\ chan[q] = chanstat[q],
         todo' \in [Prover -> Nat], links' = links,
         transmit(p, stat, chan, queued)
  PROVE  CarrierInv'
  <1>. DEFINE occ == stat[p] = "TRANSMITING" \/ chan[p] = "BUSY"
              sensed == ~occ /\ isChannelBusy(p, stat)
  <1>1. /\ msgqueue' = [msgqueue EXCEPT
                          ![p] = IF occ \/ sensed THEN queued + 1 ELSE queued]
        /\ chanstat' = IF sensed THEN [chan EXCEPT ![p] = "BUSY"] ELSE chan
        /\ txrxstat' = IF occ \/ sensed THEN stat
                       ELSE [stat EXCEPT ![p] = "TRANSMITING"]
    BY DEF transmit
  <1>2. \A q \in Prover : Neighbours(q)' = Neighbours(q)
    BY DEF Neighbours
  <1>3. \A q \in Prover :
           drange >= 2 /\ q # p /\ stat[q] = "TRANSMITING" /\ ~isChannelBusy(p, stat)
           => q \notin Neighbours(p) /\ Neighbours(p) \cap Neighbours(q) = {}
    BY BusyNear
  <1>4. \A q \in Prover : p \in Neighbours(q) => q \in Neighbours(p)
    <2>1. \A q : {p, q} = {q, p}
      OBVIOUS
    <2>. QED
      BY <2>1 DEF Neighbours
  <1>. HIDE DEF sensed
  <1>5. CarrierTypeOK'
    BY <1>1 DEF CarrierTypeOK
  <1>6. QueueAttended'
    BY <1>1 DEF CarrierTypeOK, Attended, QueueAttended, isTransmiting
  <1>7. ASSUME drange >= 2 PROVE NoCollision'
    <2>1. CASE occ \/ sensed
      BY <1>1, <1>2, <1>7, <2>1 DEF NoCollision, Quiet, isTransmiting
    <2>2. CASE ~occ /\ ~sensed
      <3>1. ~isChannelBusy(p, stat)
        BY <2>2 DEF sensed
      <3>2. txrxstat' = [stat EXCEPT ![p] = "TRANSMITING"]
        BY <1>1, <2>2
      <3>3. SUFFICES ASSUME NEW a \in Prover, NEW b \in Prover, a # b,
                            isTransmiting(a)', isTransmiting(b)'
                     PROVE  b \notin Neighbours(a) /\ Neighbours(a) \cap Neighbours(b) = {}
        BY <1>2 DEF NoCollision
      <3>4. (a = p \/ stat[a] = "TRANSMITING") /\ (b = p \/ stat[b] = "TRANSMITING")
        BY <3>2, <3>3 DEF isTransmiting
      <3>. QED
        BY <1>3, <1>4, <1>7, <3>1, <3>3, <3>4 DEF Quiet
    <2>. QED
      BY <2>1, <2>2
  <1>. QED
    BY <1>5, <1>6, <1>7 DEF CarrierInv

\* The front of the queue of p is taken, after its scheduled message has come.
LEMMA DrainStep ==
  ASSUME NEW p \in Prover, CarrierTypeOK, Attended(p),
         NEW stat \in [Prover -> {"TRANSMITING", "DIDLE"}],
         drange >= 2 => Quiet(stat),
         NEW chan \in [Prover -> {"BUSY", "CIDLE"}],
         \A q \in Prover \ {p} : stat[q] = txrxstat[q] /\ chan[q] = chanstat[q],
         todo' \in [Prover -> Nat], links' = links,
         drain(p, stat, chan)
  PROVE  CarrierInv'
  <1>1. CASE msgqueue[p] > 0
    <2>1. msgqueue[p] - 1 \in Nat /\ transmit(p, stat, chan, msgqueue[p] - 1)
      BY <1>1 DEF CarrierTypeOK, drain
    <2>. QED
      BY <2>1, TransmitStep
  <1>2. CASE ~(msgqueue[p] > 0)
    <2>1. txrxstat' = stat /\ chanstat' = chan /\ msgqueue' = msgqueue
      BY <1>2 DEF drain
    <2>2. CarrierTypeOK' /\ QueueAttended'
      BY <1>2, <2>1 DEF CarrierTypeOK, QueueAttended, Attended, isTransmiting
    <2>3. \A q \in Prover : Neighbours(q)' = Neighbours(q)
      BY DEF Neighbours
    <2>4. drange >= 2 => NoCollision'
      BY <2>1, <2>3 DEF NoCollision, Quiet, isTransmiting
    <2>. QED
      BY <2>2, <2>4 DEF CarrierInv
  <1>. QED
    BY <1>1, <1>2

\* A step of the system keeps the types and the two properties.
LEMMA CarrierStep ==
  ASSUME CarrierInv, [Next]_vars
  PROVE  CarrierInv'
  <1>1. ASSUME NEW p \in Prover, handOver(p)
        PROVE  CarrierInv'
    <2>1. todo' \in [Prover -> Nat] /\ links' = links
      BY <1>1 DEF handOver, CarrierInv, CarrierTypeOK
    <2>2. (drange >= 2 => Quiet(txrxstat)) /\ Attended(p)
      BY DEF CarrierInv, NoCollision, QueueAttended, Quiet, Attended, isTransmiting
    <2>3. transmit(p, txrxstat, chanstat, msgqueue[p])
      BY <1>1 DEF handOver
    <2>. QED
      BY <2>1, <2>2, <2>3, TransmitStep DEF CarrierInv, CarrierTypeOK
  <1>2. ASSUME NEW p \in Prover, handleTxDoneMsg(p)
        PROVE  CarrierInv'
    <2>. DEFINE stat == [txrxstat EXCEPT ![p] = "DIDLE"]
    <2>1. stat \in [Prover -> {"TRANSMITING", "DIDLE"}]
      BY DEF CarrierInv, CarrierTypeOK
    <2>2. \A q \in Prover \ {p} : stat[q] = txrxstat[q]
      BY DEF CarrierInv, CarrierTypeOK
    <2>3. (drange >= 2 => Quiet(stat)) /\ Attended(p)
      BY DEF CarrierInv, CarrierTypeOK, NoCollision, QueueAttended, Quiet, Attended, isTransmiting
    <2>4. drain(p, stat, chanstat) /\ todo' = todo /\ links' = links
      BY <1>2 DEF handleTxDoneMsg
    <2>. HIDE DEF stat
    <2>. QED
      BY <2>1, <2>2, <2>3, <2>4, DrainStep DEF CarrierInv, CarrierTypeOK
  <1>3. ASSUME NEW p \in Prover, handlePostponeDoneMsg(p)
        PROVE  CarrierInv'
    <2>. DEFINE chan == [chanstat EXCEPT ![p] = "CIDLE"]
    <2>1. chan \in [Prover -> {"BUSY", "CIDLE"}]
      BY DEF CarrierInv, CarrierTypeOK
    <2>2. \A q \in Prover \ {p} : chan[q] = chanstat[q]
      BY DEF CarrierInv, CarrierTypeOK
    <2>3. (drange >= 2 => Quiet(txrxstat)) /\ Attended(p)
      BY DEF CarrierInv, NoCollision, QueueAttended, Quiet, Attended, isTransmiting
    <2>4. drain(p, txrxstat, chan) /\ todo' = todo /\ links' = links
      BY <1>3 DEF handlePostponeDoneMsg
    <2>. HIDE DEF chan
    <2>. QED
      BY <2>1, <2>2, <2>3, <2>4, DrainStep DEF CarrierInv, CarrierTypeOK
  <1>4. CASE UNCHANGED vars
    BY <1>4 
    DEF vars, CarrierInv, CarrierTypeOK, NoCollision, QueueAttended, Neighbours,
        isTransmiting
  <1>. QED
    BY <1>1, <1>2, <1>3, <1>4 DEF Next, Handler, Over

\* The invariant holds throughout.
LEMMA CarrierInvariant == Spec => []CarrierInv
  <1>1. Init => CarrierInv
    BY CarrierAssumption
    DEF Init, CarrierInv, CarrierTypeOK, NoCollision, QueueAttended, isTransmiting
  <1>2. CarrierInv /\ [Next]_vars => CarrierInv'
    BY CarrierStep
  <1>. QED
    BY <1>1, <1>2, PTL DEF Spec

\* A frame never stays in the queue of a prover (msgqueue) without a TXDONE or
\* a postponement scheduled there that will take it up, on every network.
THEOREM QueueIsAttended == Spec => []QueueAttended
  <1>1. CarrierInv => QueueAttended
    BY DEF CarrierInv
  <1>. QED
    BY <1>1, CarrierInvariant, PTL

\* When isChannelBusy asks at least two links far (NEIGHBOR_DISTANCE is 2), no
\* two provers ever transmit at the same time that are joined by a link or to
\* the same prover, on every network and whatever the order of the messages.
THEOREM NobodyDisturbed ==
  ASSUME drange >= 2
  PROVE  Spec => []NoCollision
  <1>1. CarrierInv => NoCollision
    BY DEF CarrierInv
  <1>. QED
    BY <1>1, CarrierInvariant, PTL
=============================================================================
