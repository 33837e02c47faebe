----------------------------- MODULE LinkProofs -----------------------------
(***************************************************************************)
(* Proofs about Link.  HandleInv says that sending a frame, the part that  *)
(* most handlers share, keeps the invariant whatever radio it starts from; *)
(* every other lemma shows one handler to meet its assumptions.  The       *)
(* second part, HandleOnce and its users, follows each frame from place to *)
(* place in the same way.                                                  *)
(***************************************************************************)
EXTENDS Link, FiniteSetTheorems, TLAPS

\* A frame for a prover, and a report once it is redirected.
LEMMA FrameFacts ==
  ASSUME NEW m \in Frame
  PROVE  /\ m.id \in Nat
         /\ m.kind \in {"UPRQC", "UPRQF"} => m \in CollectorFrame
         /\ m.kind \notin {"UPRQC", "UPRQF"}
               => m \in ProverFrame /\ m.destination # Collector
         /\ m.kind = "UPRQ" => Redirected(m) \in CollectorFrame
         /\ m \in CollectorFrame => m.destination = Collector
  BY LinkAssumption DEF Frame, ProverFrame, CollectorFrame, Redirected

\* Queueing a frame on a free or a taken radio.
LEMMA QueuedFacts ==
  ASSUME NEW r \in Radio, NEW m \in Frame, Scheduled(r)
  PROVE  /\ queued(r, m) \in Radio
         /\ Scheduled(queued(r, m))
         /\ occupied(queued(r, m))
         /\ queued(r, m).pupmsg = r.pupmsg
         /\ queued(r, m).collbusy = r.collbusy
  <1>. DEFINE q == queued(r, m)
  <1>1. Append(r.msgqueue, m) \in Seq(Frame)
    BY DEF Radio
  <1>2. CASE occupied(r)
    <2>1. q = [r EXCEPT !.msgqueue = Append(r.msgqueue, m)]
      BY <1>2 DEF queued, Radio
    <2>2. q \in Radio
      BY <1>1, <2>1 DEF Radio
    <2>. QED
      BY <1>2, <2>1, <2>2 DEF Scheduled, occupied, Radio
  <1>3. CASE ~occupied(r)
    <2>1. q = [r EXCEPT !.msgqueue = Append(r.msgqueue, m), !.chanstat = "BUSY",
                        !.cbusy = TRUE]
      BY <1>3 DEF queued
    <2>2. q \in Radio
      BY <1>1, <2>1 DEF Radio
    <2>. QED
      BY <1>3, <2>1, <2>2 DEF Scheduled, occupied, Radio
  <1>. QED
    BY <1>2, <1>3

\* The frame only waits.
LEMMA WaitInv ==
  ASSUME LinkInv, NEW d \in Prover, NEW r \in Radio, Scheduled(r),
         NEW m \in Frame, NEW near, NEW a \in SUBSET air,
         r.pupmsg # NoMsg => r.collbusy,
         Wait(d, r, m, near, a),
         UNCHANGED <<procend, crashed>>,
         todo' \subseteq Load, done' \subseteq Nat, lost' \subseteq Nat
  PROVE  LinkInv'
  <1>1. TypeOK'
    BY QueuedFacts DEF LinkInv, TypeOK, Wait
  <1>2. RadioInv(d, radio'[d])
    BY QueuedFacts DEF LinkInv, TypeOK, Wait, RadioInv
  <1>3. \A e \in Prover \ {d} : radio'[e] = radio[e]
    BY DEF LinkInv, TypeOK, Wait
  <1>4. (\A e \in Prover \ crashed : RadioInv(e, radio[e]))'
    BY <1>2, <1>3 DEF LinkInv, RadioInv, occupied, Scheduled
  <1>5. Processing' /\ CollectorExclusive'
    BY DEF LinkInv, Processing, CollectorExclusive, Wait
  <1>. QED
    BY <1>1, <1>4, <1>5 DEF LinkInv

\* The radio d becomes s, with a postponed report or none, and no report
\* leaves for the collector.
LEMMA KeepInv ==
  ASSUME LinkInv, NEW d \in Prover, NEW s \in Radio,
         d \notin crashed' => RadioInv(d, s),
         radio' = [radio EXCEPT ![d] = s],
         air' \subseteq Frame,
         \A n \in air' : n.destination = Collector => n \in air,
         UNCHANGED <<procstat, procend>>,
         crashed' \subseteq Prover, crashed \subseteq crashed',
         todo' \subseteq Load, done' \subseteq Nat, lost' \subseteq Nat
  PROVE  LinkInv'
  <1>1. TypeOK'
    BY DEF LinkInv, TypeOK
  <1>2. radio'[d] = s /\ \A e \in Prover \ {d} : radio'[e] = radio[e]
    BY DEF LinkInv, TypeOK
  <1>3. (\A e \in Prover \ crashed : RadioInv(e, radio[e]))'
    BY <1>2 DEF LinkInv, RadioInv, occupied, Scheduled
  <1>4. Processing' /\ CollectorExclusive'
    BY DEF LinkInv, Processing, CollectorExclusive
  <1>. QED
    BY <1>1, <1>3, <1>4 DEF LinkInv

\* The radio once it transmits.
LEMMA TransmitFacts ==
  ASSUME LinkInv, NEW d \in Prover, NEW r \in Radio, Scheduled(r),
         NEW ms, NEW near, NEW a, Transmit(d, r, ms, near, a),
         r.pupmsg # NoMsg => r.collbusy
  PROVE  \E s \in Radio : /\ RadioInv(d, s)
                          /\ radio' = [radio EXCEPT ![d] = s]
  <1>. DEFINE s == [r EXCEPT !.txrxstat = "TRANSMITING", !.tx = TRUE, !.entx = TRUE]
  <1>1. s \in Radio /\ RadioInv(d, s)
    BY DEF Radio, Scheduled, RadioInv, occupied, Transmit
  <1>. QED
    BY <1>1 DEF Transmit

LEMMA SendProverInv ==
  ASSUME LinkInv, NEW d \in Prover, NEW r \in Radio, Scheduled(r),
         NEW m \in ProverFrame, NEW near, NEW a \in SUBSET air,
         r.pupmsg # NoMsg => r.collbusy,
         sendProver(d, r, m, near, a),
         UNCHANGED <<procend, crashed>>,
         todo' \subseteq Load, done' \subseteq Nat
  PROVE  LinkInv'
  <1>1. m \in Frame /\ m.destination # Collector
    BY LinkAssumption DEF Frame, ProverFrame
  <1>2. lost' \subseteq Nat
    BY DEF sendProver, LinkInv, TypeOK
  <1>3. CASE Wait(d, r, m, near, a)
    BY <1>1, <1>2, <1>3, WaitInv
  <1>4. CASE Transmit(d, r, {m}, near, a) /\ UNCHANGED procstat
    <2>1. PICK s \in Radio : RadioInv(d, s) /\ radio' = [radio EXCEPT ![d] = s]
      BY <1>4, TransmitFacts
    <2>2. air' = a \cup {m} /\ air \subseteq Frame /\ crashed \subseteq Prover
      BY <1>4 DEF Transmit, LinkInv, TypeOK
    <2>. QED
      BY <1>1, <1>2, <1>4, <2>1, <2>2, KeepInv
  <1>. QED
    BY <1>3, <1>4 DEF sendProver

LEMMA BroadcastInv ==
  ASSUME LinkInv, NEW d \in Prover, NEW r \in Radio, Scheduled(r),
         NEW m \in ProverFrame, NEW near \in Vicinity[d], NEW a \in SUBSET air,
         r.pupmsg # NoMsg => r.collbusy,
         sendProverBroadcast(d, r, m, near, a),
         UNCHANGED <<procend, crashed>>,
         todo' \subseteq Load, done' \subseteq Nat
  PROVE  LinkInv'
  <1>1. m \in Frame
    BY DEF Frame
  <1>2. lost' \subseteq Nat /\ air \subseteq Frame /\ crashed \subseteq Prover
    BY DEF sendProverBroadcast, LinkInv, TypeOK
  <1>3. CASE Wait(d, r, m, near, a)
    BY <1>1, <1>2, <1>3, WaitInv
  <1>. DEFINE ms == {[m EXCEPT !.destination = e] : e \in near}
  <1>4. CASE Transmit(d, r, ms, near, a) /\ UNCHANGED procstat
    <2>1. PICK s \in Radio : RadioInv(d, s) /\ radio' = [radio EXCEPT ![d] = s]
      BY <1>4, TransmitFacts
    <2>2. near \subseteq Prover
      BY LinkAssumption
    <2>3. \A n \in ms : n \in Frame /\ n.destination # Collector
      BY <2>2, LinkAssumption DEF Frame, ProverFrame
    <2>4. air' = a \cup ms
      BY <1>4 DEF Transmit
    <2>. QED
      BY <1>2, <1>4, <2>1, <2>3, <2>4, KeepInv
  <1>5. CASE /\ near = {} /\ radio' = [radio EXCEPT ![d] = r]
             /\ air' = a /\ UNCHANGED procstat
    <2>1. RadioInv(d, r)
      BY <1>5 DEF RadioInv
    <2>. QED
      BY <1>2, <1>5, <2>1, KeepInv
  <1>. QED
    BY <1>3, <1>4, <1>5 DEF sendProverBroadcast

\* The flag admits one report: it is clear only when none is on its way.
LEMMA FlagClear ==
  ASSUME LinkInv, procstat # "PBUSY"
  PROVE  ~procend /\ \A n \in air : n.destination # Collector
  BY DEF LinkInv, Processing, CollectorExclusive

\* Here the radio may have a postponed report with no collbusymsg: the one
\* that handlePostponeUpMsg tries again.
LEMMA SendCollectorInv ==
  ASSUME LinkInv, NEW d \in Prover, NEW r \in Radio, Scheduled(r),
         NEW m \in CollectorFrame, NEW near, NEW a \in SUBSET air,
         sendCollector(d, r, m, near, a),
         UNCHANGED <<procend, crashed>>,
         todo' \subseteq Load, done' \subseteq Nat
  PROVE  LinkInv'
  <1>. DEFINE s == [r EXCEPT !.pupmsg = NoMsg]
  <1>1. m \in Frame /\ m.destination = Collector /\ m # NoMsg
    BY LinkAssumption DEF Frame, CollectorFrame
  <1>2. air \subseteq Frame /\ crashed \subseteq Prover
    BY DEF LinkInv, TypeOK
  <1>3. lost' \subseteq Nat
    <2>1. \A n \in {r.pupmsg} \ {NoMsg, m} : n.id \in Nat
      BY DEF Radio, CollectorFrame
    <2>. QED
      BY <2>1 DEF sendCollector, LinkInv, TypeOK
  <1>4. s \in Radio /\ Scheduled(s) /\ s.pupmsg = NoMsg
    BY DEF Radio, Scheduled
  <1>5. CASE Wait(d, s, m, near, a)
    BY <1>1, <1>3, <1>4, <1>5, WaitInv
  <1>. DEFINE p == [s EXCEPT !.pupmsg = m, !.collbusy = TRUE]
  <1>6. CASE radio' = [radio EXCEPT ![d] = p] /\ air' = a /\ UNCHANGED procstat
    <2>1. p \in Radio /\ RadioInv(d, p)
      BY <1>1, <1>4 DEF Radio, RadioInv, Scheduled
    <2>. HIDE DEF p
    <2>. QED
      BY <1>2, <1>3, <1>6, <2>1, KeepInv
  <1>7. CASE /\ ~isCollectorBusy /\ Transmit(d, s, {m}, near, a)
             /\ procstat' = "PBUSY"
    <2>1. PICK t \in Radio : RadioInv(d, t) /\ radio' = [radio EXCEPT ![d] = t]
      BY <1>4, <1>7, TransmitFacts
    <2>2. air' = a \cup {m}
      BY <1>7 DEF Transmit
    <2>3. ~procend /\ \A n \in air : n.destination # Collector
      BY <1>7, FlagClear DEF isCollectorBusy
    <2>4. TypeOK'
      BY <1>1, <1>2, <1>3, <1>7, <2>1, <2>2 DEF LinkInv, TypeOK
    <2>5. radio'[d] = t /\ \A e \in Prover \ {d} : radio'[e] = radio[e]
      BY <2>1 DEF LinkInv, TypeOK
    <2>6. (\A e \in Prover \ crashed : RadioInv(e, radio[e]))'
      BY <2>1, <2>5 DEF LinkInv, RadioInv, occupied, Scheduled
    <2>7. Processing' /\ CollectorExclusive'
      BY <1>1, <1>7, <2>2, <2>3 DEF Processing, CollectorExclusive
    <2>. QED
      BY <2>4, <2>6, <2>7 DEF LinkInv
  <1>. QED
    BY <1>5, <1>6, <1>7 DEF sendCollector

\* Sending a frame of any kind.
LEMMA HandleInv ==
  ASSUME LinkInv, NEW d \in Prover, NEW r \in Radio, Scheduled(r),
         NEW m \in Frame, NEW near \in Vicinity[d], NEW a \in SUBSET air,
         r.pupmsg # NoMsg => r.collbusy \/ m \in CollectorFrame,
         handleMessage(d, r, m, near, a),
         UNCHANGED <<procend, crashed>>,
         todo' \subseteq Load, done' \subseteq Nat
  PROVE  LinkInv'
  <1>1. CASE m \in CollectorFrame
    <2>1. m.kind \in {"UPRQC", "UPRQF"}
      BY <1>1 DEF CollectorFrame
    <2>2. sendCollector(d, r, m, near, a)
      BY <2>1 DEF handleMessage
    <2>. QED
      BY <1>1, <2>2, SendCollectorInv
  <1>2. CASE m \notin CollectorFrame
    <2>1. m \in ProverFrame /\ m.kind \notin {"UPRQC", "UPRQF"}
      BY <1>2, FrameFacts DEF Frame
    <2>2. CASE sendProverBroadcast(d, r, m, near, a)
      BY <1>2, <2>1, <2>2, BroadcastInv
    <2>3. CASE sendProver(d, r, m, near, a)
      BY <1>2, <2>1, <2>3, SendProverInv
    <2>4. CASE m.kind = "UPRQ" /\ sendCollector(d, r, Redirected(m), near, a)
      <3>1. Redirected(m) \in CollectorFrame
        BY <2>4, FrameFacts
      <3>. QED
        BY <2>4, <3>1, SendCollectorInv
    <2>. QED
      BY <2>1, <2>2, <2>3, <2>4 DEF handleMessage
  <1>. QED
    BY <1>1, <1>2

-----------------------------------------------------------------------------
LEMMA HandOverInv ==
  ASSUME LinkInv, NEW d \in Prover, handOver(d)
  PROVE  LinkInv'
  <1>1. PICK m \in todo, near \in Vicinity[d] :
           todo' = todo \ {m} /\ handleMessage(d, radio[d], m, near, air)
    BY DEF handOver
  <1>2. /\ todo' \subseteq Load /\ done' \subseteq Nat /\ m \in Frame
        /\ radio[d] \in Radio /\ UNCHANGED <<procend, crashed>>
    BY <1>1, LinkAssumption DEF LinkInv, TypeOK, handOver
  <1>3. Scheduled(radio[d]) /\ (radio[d].pupmsg # NoMsg => radio[d].collbusy)
    BY DEF LinkInv, RadioInv, handOver, Alive
  <1>. QED
    BY <1>1, <1>2, <1>3, HandleInv

\* The front of the queue is tried on a radio r that has become free.
LEMMA DrainInv ==
  ASSUME LinkInv, NEW d \in Prover, NEW r \in Radio, Scheduled(r),
         r.pupmsg # NoMsg => r.collbusy,
         drain(d, r), UNCHANGED <<todo, procend, crashed, done>>
  PROVE  LinkInv'
  <1>1. /\ todo' \subseteq Load /\ done' \subseteq Nat /\ air \subseteq Frame
        /\ crashed \subseteq Prover /\ lost \subseteq Nat
    BY DEF LinkInv, TypeOK
  <1>2. CASE r.msgqueue # <<>>
    <2>1. Head(r.msgqueue) \in Frame /\ Tail(r.msgqueue) \in Seq(Frame)
      BY <1>2 DEF Radio
    <2>2. popped(r) \in Radio
      BY <2>1 DEF popped, Radio
    <2>3. /\ Scheduled(popped(r))
          /\ popped(r).pupmsg # NoMsg => popped(r).collbusy
      BY DEF popped, Radio, Scheduled
    <2>4. PICK near \in Vicinity[d] :
             handleMessage(d, popped(r), Head(r.msgqueue), near, air)
      BY <1>2 DEF drain
    <2>. QED
      BY <1>1, <2>1, <2>2, <2>3, <2>4, HandleInv
  <1>3. CASE r.msgqueue = <<>>
    <2>1. radio' = [radio EXCEPT ![d] = r] /\ UNCHANGED <<air, procstat, lost>>
      BY <1>3 DEF drain
    <2>2. RadioInv(d, r)
      BY <1>3 DEF RadioInv
    <2>. QED
      BY <1>1, <2>1, <2>2, KeepInv
  <1>. QED
    BY <1>2, <1>3

LEMMA TxDoneInv ==
  ASSUME LinkInv, NEW d \in Prover, handleTxDoneMsg(d)
  PROVE  LinkInv'
  <1>. DEFINE r == transmitted(radio[d])
  <1>1. radio[d] \in Radio /\ RadioInv(d, radio[d]) /\ ~radio[d].entx
    BY DEF LinkInv, TypeOK, handleTxDoneMsg, Alive
  <1>2. /\ r \in Radio /\ Scheduled(r)
        /\ r.pupmsg # NoMsg => r.collbusy
    BY <1>1 DEF transmitted, Radio, RadioInv, Scheduled
  <1>3. drain(d, r) /\ UNCHANGED <<todo, procend, crashed, done>>
    BY DEF handleTxDoneMsg
  <1>. HIDE DEF r
  <1>. QED
    BY <1>2, <1>3, DrainInv

LEMMA PostponeDoneInv ==
  ASSUME LinkInv, NEW d \in Prover, handlePostponeDoneMsg(d)
  PROVE  LinkInv'
  <1>. DEFINE r == [radio[d] EXCEPT !.cbusy = FALSE, !.chanstat = "CIDLE"]
  <1>1. radio[d] \in Radio /\ RadioInv(d, radio[d])
    BY DEF LinkInv, TypeOK, handlePostponeDoneMsg, Alive
  <1>2. /\ r \in Radio /\ Scheduled(r)
        /\ r.pupmsg # NoMsg => r.collbusy
    BY <1>1 DEF Radio, RadioInv, Scheduled
  <1>3. drain(d, r) /\ UNCHANGED <<todo, procend, crashed, done>>
    BY DEF handlePostponeDoneMsg
  <1>. HIDE DEF r
  <1>. QED
    BY <1>2, <1>3, DrainInv

LEMMA PostponeUpInv ==
  ASSUME LinkInv, NEW d \in Prover, handlePostponeUpMsg(d)
  PROVE  LinkInv'
  <1>. DEFINE r == [radio[d] EXCEPT !.collbusy = FALSE]
  <1>1. radio[d] \in Radio /\ RadioInv(d, radio[d])
    BY DEF LinkInv, TypeOK, handlePostponeUpMsg, Alive
  <1>2. /\ r \in Radio /\ Scheduled(r) /\ r.pupmsg = radio[d].pupmsg
        /\ r.msgqueue = radio[d].msgqueue /\ (occupied(r) <=> occupied(radio[d]))
    BY <1>1 DEF Radio, RadioInv, Scheduled, occupied
  <1>3. /\ todo' \subseteq Load /\ done' \subseteq Nat /\ air \subseteq Frame
        /\ crashed \subseteq Prover /\ lost \subseteq Nat
        /\ UNCHANGED <<procend, crashed>>
    BY DEF LinkInv, TypeOK, handlePostponeUpMsg
  <1>4. CASE r.pupmsg # NoMsg
    <2>1. PICK near \in Vicinity[d] : handleMessage(d, r, r.pupmsg, near, air)
      BY <1>4 DEF handlePostponeUpMsg
    <2>2. r.pupmsg \in CollectorFrame /\ r.pupmsg \in Frame
      BY <1>2, <1>4 DEF Radio, Frame
    <2>. HIDE DEF r
    <2>. QED
      BY <1>2, <1>3, <2>1, <2>2, HandleInv
  <1>5. CASE r.pupmsg = NoMsg
    <2>1. radio' = [radio EXCEPT ![d] = r] /\ UNCHANGED <<air, procstat, lost>>
      BY <1>5 DEF handlePostponeUpMsg
    <2>2. RadioInv(d, r)
      BY <1>1, <1>2, <1>5 DEF RadioInv
    <2>. HIDE DEF r
    <2>. QED
      BY <1>2, <1>3, <2>1, <2>2, KeepInv
  <1>. QED
    BY <1>4, <1>5

LEMMA DoneEnInv ==
  ASSUME LinkInv, NEW d \in Prover, handleDoneEnMsg(d)
  PROVE  LinkInv'
  <1>. DEFINE r == [radio[d] EXCEPT !.entx = FALSE]
  <1>1. radio[d] \in Radio /\ RadioInv(d, radio[d])
    BY DEF LinkInv, TypeOK, handleDoneEnMsg, Alive
  <1>2. r \in Radio /\ RadioInv(d, r)
    BY <1>1 DEF Radio, RadioInv, Scheduled, occupied
  <1>3. /\ todo' \subseteq Load /\ done' \subseteq Nat /\ air' \subseteq Frame
        /\ crashed' \subseteq Prover /\ lost' \subseteq Nat
        /\ UNCHANGED <<air, procstat, procend, crashed>>
        /\ radio' = [radio EXCEPT ![d] = r]
    BY DEF LinkInv, TypeOK, handleDoneEnMsg
  <1>. HIDE DEF r
  <1>. QED
    BY <1>2, <1>3, KeepInv

LEMMA CrashInv ==
  ASSUME LinkInv, NEW d \in Prover, crash(d)
  PROVE  LinkInv'
  <1>. DEFINE r == [radio[d] EXCEPT !.tx = FALSE, !.entx = FALSE, !.cbusy = FALSE,
                                    !.collbusy = FALSE]
  <1>1. radio[d] \in Radio
    BY DEF LinkInv, TypeOK
  <1>2. r \in Radio
    BY <1>1 DEF Radio
  <1>3. /\ todo' \subseteq Load /\ done' \subseteq Nat /\ air' \subseteq Frame
        /\ crashed' \subseteq Prover /\ lost' \subseteq Nat
        /\ crashed \subseteq crashed' /\ d \in crashed'
        /\ UNCHANGED <<air, procstat, procend>>
    BY DEF LinkInv, TypeOK, crash
  <1>4. radio' = [radio EXCEPT ![d] = r]
    BY <1>1 DEF crash, LinkInv, TypeOK
  <1>. HIDE DEF r
  <1>. QED
    BY <1>2, <1>3, <1>4, KeepInv

LEMMA ArriveInv ==
  ASSUME LinkInv, NEW d \in Prover, arrive(d)
  PROVE  LinkInv'
  <1>1. PICK m \in air :
           /\ m.destination = d
           /\ \/ /\ air' = air \ {m}
                 /\ done' = done \cup {m.id}
                 /\ UNCHANGED <<radio, procstat, lost>>
              \/ /\ m.kind = "UPRQ"
                 /\ d \notin crashed
                 /\ \E near \in Vicinity[d] :
                       sendCollector(d, radio[d], Redirected(m), near, air \ {m})
                 /\ UNCHANGED done
    BY DEF arrive
  <1>2. /\ m \in Frame /\ m.id \in Nat /\ air \subseteq Frame
        /\ todo' \subseteq Load /\ done \subseteq Nat /\ lost \subseteq Nat
        /\ crashed \subseteq Prover /\ UNCHANGED <<procend, crashed>>
        /\ radio[d] \in Radio /\ radio = [radio EXCEPT ![d] = radio[d]]
    BY FrameFacts DEF LinkInv, TypeOK, arrive
  <1>3. CASE /\ air' = air \ {m} /\ done' = done \cup {m.id}
             /\ UNCHANGED <<radio, procstat, lost>>
    <2>1. d \notin crashed => RadioInv(d, radio[d])
      BY DEF LinkInv
    <2>. QED
      BY <1>2, <1>3, <2>1, KeepInv
  <1>4. CASE /\ m.kind = "UPRQ" /\ d \notin crashed /\ UNCHANGED done
             /\ \E near \in Vicinity[d] :
                   sendCollector(d, radio[d], Redirected(m), near, air \ {m})
    <2>1. Redirected(m) \in CollectorFrame /\ Scheduled(radio[d])
      BY <1>2, <1>4, FrameFacts DEF LinkInv, RadioInv
    <2>2. PICK near \in Vicinity[d] :
             sendCollector(d, radio[d], Redirected(m), near, air \ {m})
      BY <1>4
    <2>. QED
      BY <1>2, <1>4, <2>1, <2>2, SendCollectorInv
  <1>. QED
    BY <1>1, <1>3, <1>4

\* A report that arrives finds procendmsg off and leaves no other behind.
LEMMA CollectInv ==
  ASSUME LinkInv, collect
  PROVE  LinkInv'
  <1>1. PICK m \in air : /\ m.destination = Collector
                         /\ air' = air \ {m}
                         /\ done' = done \cup {m.id}
    BY DEF collect
  <1>2. TypeOK'
    BY <1>1, FrameFacts DEF LinkInv, TypeOK, collect
  <1>3. procstat = "PBUSY" /\ \A n \in air' : n.destination # Collector
    BY <1>1 DEF LinkInv, CollectorExclusive
  <1>4. Processing' /\ CollectorExclusive'
    BY <1>3 DEF collect, Processing, CollectorExclusive
  <1>5. (\A e \in Prover \ crashed : RadioInv(e, radio[e]))'
    BY DEF LinkInv, collect, RadioInv, occupied, Scheduled
  <1>. QED
    BY <1>2, <1>4, <1>5 DEF LinkInv

LEMMA ProcDoneInv ==
  ASSUME LinkInv, handleProcDoneMsg
  PROVE  LinkInv'
  <1>1. TypeOK'
    BY DEF LinkInv, TypeOK, handleProcDoneMsg
  <1>2. Processing' /\ CollectorExclusive'
    BY DEF LinkInv, handleProcDoneMsg, Processing, CollectorExclusive
  <1>3. (\A e \in Prover \ crashed : RadioInv(e, radio[e]))'
    BY DEF LinkInv, handleProcDoneMsg, RadioInv, occupied, Scheduled
  <1>. QED
    BY <1>1, <1>2, <1>3 DEF LinkInv

-----------------------------------------------------------------------------
LEMMA LinkInitInv == Init => LinkInv
  <1>. SUFFICES ASSUME Init PROVE LinkInv
    OBVIOUS
  <1>1. IdleRadio \in Radio
    BY DEF IdleRadio, Radio
  <1>2. TypeOK
    BY <1>1 DEF Init, TypeOK
  <1>3. \A d \in Prover : RadioInv(d, radio[d])
    BY DEF Init, RadioInv, Scheduled, IdleRadio
  <1>. QED
    BY <1>2, <1>3 DEF Init, LinkInv, Processing, CollectorExclusive

LEMMA LinkNextInv == LinkInv /\ [Next]_vars => LinkInv'
  <1>. SUFFICES ASSUME LinkInv, [Next]_vars PROVE LinkInv'
    OBVIOUS
  <1>1. CASE UNCHANGED vars
    BY <1>1 DEF vars, LinkInv, TypeOK, RadioInv, Scheduled, occupied, Processing,
                CollectorExclusive
  <1>2. CASE Over
    BY <1>1, <1>2 DEF Over
  <1>3. CASE \E d \in Prover :
                \/ handOver(d) \/ handleTxDoneMsg(d) \/ handlePostponeDoneMsg(d)
                \/ handlePostponeUpMsg(d) \/ handleDoneEnMsg(d) \/ crash(d)
                \/ arrive(d)
    BY <1>3, HandOverInv, TxDoneInv, PostponeDoneInv, PostponeUpInv, DoneEnInv,
       CrashInv, ArriveInv
  <1>4. CASE collect
    BY <1>4, CollectInv
  <1>5. CASE handleProcDoneMsg
    BY <1>5, ProcDoneInv
  <1>. QED
    BY <1>1, <1>2, <1>3, <1>4, <1>5 DEF Next

\* The invariant of the radios and of the collector's flag holds in every
\* reachable state, for any provers, traffic and movement.
THEOREM LinkInvCorrect == Spec => []LinkInv
  BY LinkInitInv, LinkNextInv, PTL DEF Spec

\* One report at a time is on its way to the collector or processed by it,
\* although senders test and set its flag.
THEOREM CollectorExclusiveCorrect == Spec => []CollectorExclusive
  <1>1. LinkInv => CollectorExclusive
    BY DEF LinkInv
  <1>. QED
    BY <1>1, LinkInvCorrect, PTL

\* txmsg, entxmsg and cbusymsg are never scheduled while they are pending.
THEOREM NoTimerTwiceCorrect == Spec => []NoTimerTwice
  <1>1. LinkInv => NoTimerTwice
    BY DEF LinkInv, TypeOK, Radio, RadioInv, Scheduled, occupied, NoTimerTwice
  <1>. QED
    BY <1>1, LinkInvCorrect, PTL

\* A queue is never left without a self-message that leads to it, unless an
\* invitation went unheard.
THEOREM QueueServedCorrect == Spec => []QueueServed
  <1>1. LinkInv => QueueServed
    BY DEF LinkInv, TypeOK, Radio, RadioInv, Scheduled, occupied, QueueServed
  <1>. QED
    BY <1>1, LinkInvCorrect, PTL

-----------------------------------------------------------------------------
(***************************************************************************)
(* Every frame is in one place.  The places of a frame are described for   *)
(* any contents of todo, queues, pupmsgs, the air and the histories, so    *)
(* that a handler can be followed in two moves: the frame is taken from    *)
(* where it is, and put where it goes.                                     *)
(***************************************************************************)

\* Place (w, u, k) holds a frame with id i.
At(w, u, k, i, T, Q, P, A, D, L) ==
    \/ w = "todo" /\ k = 0 /\ u \in T /\ u.id = i
    \/ w = "msgqueue" /\ u \in Prover /\ k \in 1..Len(Q[u]) /\ Q[u][k].id = i
    \/ w = "pupmsg" /\ k = 0 /\ u \in Prover /\ P[u] # NoMsg /\ P[u].id = i
    \/ w = "air" /\ k = 0 /\ u \in A /\ u.id = i
    \/ w = "done" /\ k = 0 /\ u = i /\ i \in D
    \/ w = "lost" /\ k = 0 /\ u = i /\ i \in L

\* One place holds a frame with id i; no place does.
Once(i, T, Q, P, A, D, L) ==
    \E w, u, k : /\ At(w, u, k, i, T, Q, P, A, D, L)
                 /\ \A x, y, z : At(x, y, z, i, T, Q, P, A, D, L)
                                    => x = w /\ y = u /\ z = k

Gone(i, T, Q, P, A, D, L) ==
    \A w, u, k : ~At(w, u, k, i, T, Q, P, A, D, L)

\* A frame with id j has been taken from where it was.
Taken(i, j, T, Q, P, A, D, L) ==
    IF i = j THEN Gone(i, T, Q, P, A, D, L) ELSE Once(i, T, Q, P, A, D, L)

\* g is f but for x at d.
Becomes(f, g, d, x) == g[d] = x /\ \A e \in Prover \ {d} : g[e] = f[e]

\* A frame handed over is gone from where it was; the others stay.
LEMMA TakeTodo ==
  ASSUME NEW T, NEW Q, NEW P, NEW A, NEW D, NEW L, NEW i, NEW m \in T,
         Once(i, T, Q, P, A, D, L)
  PROVE  Taken(i, m.id, T \ {m}, Q, P, A, D, L)
  <1>1. ASSUME i # m.id
        PROVE  Once(i, T \ {m}, Q, P, A, D, L)
    <2>1. \A w, u, k : At(w, u, k, i, T \ {m}, Q, P, A, D, L)
                          <=> At(w, u, k, i, T, Q, P, A, D, L)
      BY <1>1 DEF At
    <2>. QED
      BY <2>1 DEF Once
  <1>2. ASSUME i = m.id
        PROVE  Gone(i, T \ {m}, Q, P, A, D, L)
    <2>1. At("todo", m, 0, i, T, Q, P, A, D, L)
      BY <1>2 DEF At
    <2>2. \A x, y, z : At(x, y, z, i, T, Q, P, A, D, L)
                          => x = "todo" /\ y = m /\ z = 0
      BY <2>1 DEF Once
    <2>3. \A x, y, z : At(x, y, z, i, T \ {m}, Q, P, A, D, L)
                          => /\ At(x, y, z, i, T, Q, P, A, D, L)
                             /\ x # "todo" \/ y # m
      BY DEF At
    <2>. QED
      BY <2>2, <2>3 DEF Gone
  <1>. QED
    BY <1>1, <1>2 DEF Taken

\* So is a frame that arrives or is passed on.
LEMMA TakeAir ==
  ASSUME NEW T, NEW Q, NEW P, NEW A, NEW D, NEW L, NEW i, NEW m \in A,
         Once(i, T, Q, P, A, D, L)
  PROVE  Taken(i, m.id, T, Q, P, A \ {m}, D, L)
  <1>1. ASSUME i # m.id
        PROVE  Once(i, T, Q, P, A \ {m}, D, L)
    <2>1. \A w, u, k : At(w, u, k, i, T, Q, P, A \ {m}, D, L)
                          <=> At(w, u, k, i, T, Q, P, A, D, L)
      BY <1>1 DEF At
    <2>. QED
      BY <2>1 DEF Once
  <1>2. ASSUME i = m.id
        PROVE  Gone(i, T, Q, P, A \ {m}, D, L)
    <2>1. At("air", m, 0, i, T, Q, P, A, D, L)
      BY <1>2 DEF At
    <2>2. \A x, y, z : At(x, y, z, i, T, Q, P, A, D, L)
                          => x = "air" /\ y = m /\ z = 0
      BY <2>1 DEF Once
    <2>3. \A x, y, z : At(x, y, z, i, T, Q, P, A \ {m}, D, L)
                          => /\ At(x, y, z, i, T, Q, P, A, D, L)
                             /\ x # "air" \/ y # m
      BY DEF At
    <2>. QED
      BY <2>2, <2>3 DEF Gone
  <1>. QED
    BY <1>1, <1>2 DEF Taken

\* A postponed report that is tried again or overwritten leaves pupmsg.
LEMMA TakePup ==
  ASSUME NEW T, NEW Q, NEW P, NEW A, NEW D, NEW L, NEW i, NEW d \in Prover, NEW R,
         P[d] # NoMsg, Becomes(P, R, d, NoMsg),
         Once(i, T, Q, P, A, D, L)
  PROVE  Taken(i, P[d].id, T, Q, R, A, D, L)
  <1>0. R[d] = NoMsg /\ \A e \in Prover \ {d} : R[e] = P[e]
    BY DEF Becomes
  <1>1. ASSUME i # P[d].id
        PROVE  Once(i, T, Q, R, A, D, L)
    <2>1. \A w, u, k : At(w, u, k, i, T, Q, R, A, D, L)
                          <=> At(w, u, k, i, T, Q, P, A, D, L)
      BY <1>0, <1>1 DEF At
    <2>. QED
      BY <2>1 DEF Once
  <1>2. ASSUME i = P[d].id
        PROVE  Gone(i, T, Q, R, A, D, L)
    <2>1. At("pupmsg", d, 0, i, T, Q, P, A, D, L)
      BY <1>2 DEF At
    <2>2. \A x, y, z : At(x, y, z, i, T, Q, P, A, D, L)
                          => x = "pupmsg" /\ y = d /\ z = 0
      BY <2>1 DEF Once
    <2>3. \A x, y, z : At(x, y, z, i, T, Q, R, A, D, L)
                          => /\ At(x, y, z, i, T, Q, P, A, D, L)
                             /\ x # "pupmsg" \/ y # d
      BY <1>0 DEF At
    <2>. QED
      BY <2>2, <2>3 DEF Gone
  <1>. QED
    BY <1>1, <1>2 DEF Taken

\* The front of a queue leaves it, and the frames behind it move up.
LEMMA TakeFront ==
  ASSUME NEW T, NEW Q, NEW P, NEW A, NEW D, NEW L, NEW i, NEW d \in Prover, NEW R,
         Q[d] \in Seq(Frame), Q[d] # <<>>, Becomes(Q, R, d, Tail(Q[d])),
         Once(i, T, Q, P, A, D, L)
  PROVE  Taken(i, Head(Q[d]).id, T, R, P, A, D, L)
  <1>0. /\ \A e \in Prover \ {d} : R[e] = Q[e]
        /\ Q[d] \in Seq(Frame) /\ Len(Q[d]) \in Nat \ {0} /\ Head(Q[d]) = Q[d][1]
        /\ Len(R[d]) = Len(Q[d]) - 1
        /\ \A j \in 1..Len(R[d]) : R[d][j] = Q[d][j + 1]
    BY DEF Becomes
  <1>1. \A x, y, z : At(x, y, z, i, T, R, P, A, D, L)
           => IF x = "msgqueue" /\ y = d
              THEN z \in Int /\ z + 1 # 1 /\ At(x, y, z + 1, i, T, Q, P, A, D, L)
              ELSE At(x, y, z, i, T, Q, P, A, D, L)
    BY <1>0 DEF At
  <1>2. ASSUME i # Head(Q[d]).id
        PROVE  Once(i, T, R, P, A, D, L)
    <2>1. PICK w, u, k : /\ At(w, u, k, i, T, Q, P, A, D, L)
                         /\ \A x, y, z : At(x, y, z, i, T, Q, P, A, D, L)
                                            => x = w /\ y = u /\ z = k
      BY DEF Once
    <2>2. CASE w = "msgqueue" /\ u = d
      <3>1. k \in 1..Len(Q[d]) /\ k # 1
        BY <1>0, <1>2, <2>1, <2>2 DEF At
      <3>2. At(w, u, k - 1, i, T, R, P, A, D, L)
        BY <1>0, <2>1, <2>2, <3>1 DEF At
      <3>3. \A x, y, z : At(x, y, z, i, T, R, P, A, D, L)
                            => x = w /\ y = u /\ z = k - 1
        BY <1>0, <1>1, <2>1, <2>2, <3>1
      <3>. QED
        BY <3>2, <3>3 DEF Once
    <2>3. CASE ~(w = "msgqueue" /\ u = d)
      <3>1. At(w, u, k, i, T, R, P, A, D, L)
        BY <1>0, <2>1, <2>3 DEF At
      <3>2. \A x, y, z : At(x, y, z, i, T, R, P, A, D, L)
                            => x = w /\ y = u /\ z = k
        BY <1>1, <2>1, <2>3
      <3>. QED
        BY <3>1, <3>2 DEF Once
    <2>. QED
      BY <2>2, <2>3
  <1>3. ASSUME i = Head(Q[d]).id
        PROVE  Gone(i, T, R, P, A, D, L)
    <2>1. At("msgqueue", d, 1, i, T, Q, P, A, D, L)
      BY <1>0, <1>3 DEF At
    <2>2. \A x, y, z : At(x, y, z, i, T, Q, P, A, D, L)
                          => x = "msgqueue" /\ y = d /\ z = 1
      BY <2>1 DEF Once
    <2>. QED
      BY <1>1, <2>2 DEF Gone
  <1>. QED
    BY <1>2, <1>3 DEF Taken

\* A frame that was nowhere is put at the end of a queue.
LEMMA PutQueue ==
  ASSUME NEW T, NEW Q, NEW P, NEW A, NEW D, NEW L, NEW i, NEW d \in Prover, NEW R,
         NEW m, Q[d] \in Seq(Frame), m \in Frame, Becomes(Q, R, d, Append(Q[d], m)),
         Taken(i, m.id, T, Q, P, A, D, L)
  PROVE  Once(i, T, R, P, A, D, L)
  <1>. DEFINE l == Len(Q[d]) + 1
  <1>1. /\ \A e \in Prover \ {d} : R[e] = Q[e]
        /\ Len(Q[d]) \in Nat /\ l = Len(Q[d]) + 1
        /\ Len(R[d]) = l /\ R[d][l] = m
        /\ \A j \in 1..Len(Q[d]) : R[d][j] = Q[d][j]
    BY DEF Becomes
  <1>. HIDE DEF l
  <1>2. \A x, y, z : At(x, y, z, i, T, R, P, A, D, L)
           <=> \/ At(x, y, z, i, T, Q, P, A, D, L)
               \/ i = m.id /\ x = "msgqueue" /\ y = d /\ z = l
    BY <1>1 DEF At
  <1>3. CASE i = m.id
    BY <1>2, <1>3 DEF Once, Gone, Taken
  <1>4. CASE i # m.id
    BY <1>2, <1>4 DEF Once, Taken
  <1>. QED
    BY <1>3, <1>4

\* A report that was nowhere is postponed.
LEMMA PutPup ==
  ASSUME NEW T, NEW Q, NEW P, NEW A, NEW D, NEW L, NEW i, NEW d \in Prover, NEW R,
         NEW m, P[d] = NoMsg, m # NoMsg, Becomes(P, R, d, m),
         Taken(i, m.id, T, Q, P, A, D, L)
  PROVE  Once(i, T, Q, R, A, D, L)
  <1>1. \A x, y, z : At(x, y, z, i, T, Q, R, A, D, L)
           <=> \/ At(x, y, z, i, T, Q, P, A, D, L)
               \/ i = m.id /\ x = "pupmsg" /\ y = d /\ z = 0
    BY DEF At, Becomes
  <1>2. CASE i = m.id
    BY <1>1, <1>2 DEF Once, Gone, Taken
  <1>3. CASE i # m.id
    BY <1>1, <1>3 DEF Once, Taken
  <1>. QED
    BY <1>2, <1>3

\* A frame that was nowhere leaves.
LEMMA PutAir ==
  ASSUME NEW T, NEW Q, NEW P, NEW A, NEW D, NEW L, NEW i, NEW m,
         Taken(i, m.id, T, Q, P, A, D, L)
  PROVE  Once(i, T, Q, P, A \cup {m}, D, L)
  <1>1. \A x, y, z : At(x, y, z, i, T, Q, P, A \cup {m}, D, L)
           <=> \/ At(x, y, z, i, T, Q, P, A, D, L)
               \/ i = m.id /\ x = "air" /\ y = m /\ z = 0
    BY DEF At
  <1>. QED
    BY <1>1 DEF Once, Gone, Taken

\* Copies of an invitation do not matter to other frames.
LEMMA PutOthers ==
  ASSUME NEW T, NEW Q, NEW P, NEW A, NEW D, NEW L, NEW i, NEW ms,
         \A m \in ms : m.id # i,
         Once(i, T, Q, P, A, D, L)
  PROVE  Once(i, T, Q, P, A \cup ms, D, L)
  <1>1. \A x, y, z : At(x, y, z, i, T, Q, P, A \cup ms, D, L)
           <=> At(x, y, z, i, T, Q, P, A, D, L)
    BY DEF At
  <1>. QED
    BY <1>1 DEF Once

\* A frame that was nowhere has arrived.
LEMMA PutDone ==
  ASSUME NEW T, NEW Q, NEW P, NEW A, NEW D, NEW L, NEW i, NEW j,
         Taken(i, j, T, Q, P, A, D, L)
  PROVE  Once(i, T, Q, P, A, D \cup {j}, L)
  <1>1. \A x, y, z : At(x, y, z, i, T, Q, P, A, D \cup {j}, L)
           <=> \/ At(x, y, z, i, T, Q, P, A, D, L)
               \/ i = j /\ x = "done" /\ y = i /\ z = 0
    BY DEF At
  <1>. QED
    BY <1>1 DEF Once, Gone, Taken

\* A report that was overwritten is lost, and another frame that is nowhere
\* stays so.
LEMMA PutLost ==
  ASSUME NEW T, NEW Q, NEW P, NEW A, NEW D, NEW L, NEW i, NEW j
  PROVE  /\ Taken(i, j, T, Q, P, A, D, L)
               => Once(i, T, Q, P, A, D, L \cup {j})
         /\ i # j /\ Gone(i, T, Q, P, A, D, L)
               => Gone(i, T, Q, P, A, D, L \cup {j})
  <1>1. \A x, y, z : At(x, y, z, i, T, Q, P, A, D, L \cup {j})
           <=> \/ At(x, y, z, i, T, Q, P, A, D, L)
               \/ i = j /\ x = "lost" /\ y = i /\ z = 0
    BY DEF At
  <1>. QED
    BY <1>1 DEF Once, Gone, Taken

-----------------------------------------------------------------------------
\* The queues and the postponed reports of the radios.
QueueOf(rad) == [d \in Prover |-> rad[d].msgqueue]
PupOf(rad) == [d \in Prover |-> rad[d].pupmsg]

\* The views change with the radio.
LEMMA ViewFacts ==
  ASSUME NEW rad \in [Prover -> Radio], NEW d \in Prover, NEW s, NEW rad2,
         rad2 = [rad EXCEPT ![d] = s]
  PROVE  /\ Becomes(QueueOf(rad), QueueOf(rad2), d, s.msgqueue)
         /\ Becomes(PupOf(rad), PupOf(rad2), d, s.pupmsg)
  BY DEF QueueOf, PupOf, Becomes

\* Only the queues and postponed reports of provers matter.
LEMMA ViewsOnly ==
  ASSUME NEW T, NEW Q, NEW P, NEW A, NEW D, NEW L, NEW i, NEW Q2, NEW P2,
         \A e \in Prover : Q2[e] = Q[e] /\ P2[e] = P[e]
  PROVE  /\ Once(i, T, Q, P, A, D, L) => Once(i, T, Q2, P2, A, D, L)
         /\ Gone(i, T, Q, P, A, D, L) => Gone(i, T, Q2, P2, A, D, L)
  <1>1. \A x, y, z : At(x, y, z, i, T, Q2, P2, A, D, L)
                        <=> At(x, y, z, i, T, Q, P, A, D, L)
    BY DEF At
  <1>. QED
    BY <1>1 DEF Once, Gone

\* The same views after the same change.
LEMMA SameViews ==
  ASSUME NEW f, NEW g, NEW h, NEW d \in Prover, NEW x,
         Becomes(f, g, d, x), Becomes(f, h, d, x)
  PROVE  \A e \in Prover : g[e] = h[e]
  BY DEF Becomes

\* Waiting puts the frame in the queue.
LEMMA WaitOnce ==
  ASSUME TypeOK, NEW d \in Prover, NEW r \in Radio, NEW m \in Frame, NEW near, NEW a,
         Wait(d, r, m, near, a),
         NEW i, NEW T, NEW Q, NEW P, NEW D, NEW L,
         Becomes(QueueOf(radio), Q, d, r.msgqueue),
         Becomes(PupOf(radio), P, d, r.pupmsg),
         Taken(i, m.id, T, Q, P, a, D, L)
  PROVE  Once(i, T, QueueOf(radio'), PupOf(radio'), air', D, L)
  <1>. DEFINE q == queued(r, m)
              R == PupOf(radio')
  <1>1. q.pupmsg = r.pupmsg /\ q.msgqueue = Append(r.msgqueue, m)
    BY DEF queued, Radio
  <1>2. radio \in [Prover -> Radio] /\ radio' = [radio EXCEPT ![d] = q] /\ air' = a
    BY DEF TypeOK, Wait
  <1>. HIDE DEF q
  <1>3. /\ Becomes(QueueOf(radio), QueueOf(radio'), d, Append(r.msgqueue, m))
        /\ Becomes(PupOf(radio), R, d, r.pupmsg)
    BY <1>1, <1>2, ViewFacts
  <1>4. Becomes(Q, QueueOf(radio'), d, Append(Q[d], m)) /\ Q[d] \in Seq(Frame)
    BY <1>3 DEF Becomes, Radio
  <1>5. Once(i, T, QueueOf(radio'), P, a, D, L)
    BY <1>4, PutQueue
  <1>6. \A e \in Prover : R[e] = P[e]
    BY <1>3, SameViews
  <1>. HIDE DEF R
  <1>7. Once(i, T, QueueOf(radio'), R, a, D, L)
    BY <1>5, <1>6, ViewsOnly
  <1>. QED
    BY <1>2, <1>7 DEF R

\* A radio whose queue and pupmsg stay as they are.
LEMMA KeptOnce ==
  ASSUME TypeOK, NEW d \in Prover, NEW s, radio' = [radio EXCEPT ![d] = s],
         NEW i, NEW T, NEW Q, NEW P, NEW A, NEW D, NEW L,
         Becomes(QueueOf(radio), Q, d, s.msgqueue),
         Becomes(PupOf(radio), P, d, s.pupmsg),
         Once(i, T, Q, P, A, D, L)
  PROVE  Once(i, T, QueueOf(radio'), PupOf(radio'), A, D, L)
  <1>. DEFINE R == PupOf(radio')
              U == QueueOf(radio')
  <1>1. /\ Becomes(QueueOf(radio), U, d, s.msgqueue)
        /\ Becomes(PupOf(radio), R, d, s.pupmsg)
    BY ViewFacts DEF TypeOK
  <1>2. \A e \in Prover : U[e] = Q[e] /\ R[e] = P[e]
    BY <1>1, SameViews
  <1>. HIDE DEF R, U
  <1>3. Once(i, T, U, R, A, D, L)
    BY <1>2, ViewsOnly
  <1>. QED
    BY <1>3 DEF R, U

\* Transmitting puts the frame on its way, or frames that do not matter.
LEMMA TransmitOnce ==
  ASSUME TypeOK, NEW d \in Prover, NEW r \in Radio, NEW ms, NEW near, NEW a,
         Transmit(d, r, ms, near, a),
         NEW i, NEW T, NEW Q, NEW P, NEW D, NEW L,
         Becomes(QueueOf(radio), Q, d, r.msgqueue),
         Becomes(PupOf(radio), P, d, r.pupmsg),
         Once(i, T, Q, P, a \cup ms, D, L)
  PROVE  Once(i, T, QueueOf(radio'), PupOf(radio'), air', D, L)
  <1>. DEFINE q == [r EXCEPT !.txrxstat = "TRANSMITING", !.tx = TRUE, !.entx = TRUE]
  <1>1. q.pupmsg = r.pupmsg /\ q.msgqueue = r.msgqueue
    BY DEF Radio
  <1>2. radio' = [radio EXCEPT ![d] = q] /\ air' = a \cup ms
    BY DEF Transmit
  <1>. HIDE DEF q
  <1>3. Once(i, T, QueueOf(radio'), PupOf(radio'), a \cup ms, D, L)
    BY <1>1, <1>2, KeptOnce
  <1>. QED
    BY <1>2, <1>3

\* A frame for a prover leaves or waits.
LEMMA SendProverOnce ==
  ASSUME TypeOK, NEW d \in Prover, NEW r \in Radio, NEW m \in Frame, NEW near, NEW a,
         sendProver(d, r, m, near, a),
         NEW i, NEW T, NEW Q, NEW P, NEW D,
         Becomes(QueueOf(radio), Q, d, r.msgqueue),
         Becomes(PupOf(radio), P, d, r.pupmsg),
         Taken(i, m.id, T, Q, P, a, D, lost)
  PROVE  Once(i, T, QueueOf(radio'), PupOf(radio'), air', D, lost')
  <1>1. lost' = lost
    BY DEF sendProver
  <1>2. CASE Wait(d, r, m, near, a)
    BY <1>1, <1>2, WaitOnce
  <1>3. CASE Transmit(d, r, {m}, near, a)
    BY <1>1, <1>3, PutAir, TransmitOnce
  <1>. QED
    BY <1>2, <1>3 DEF sendProver

\* An invitation is none of the frames followed here.
LEMMA BroadcastOnce ==
  ASSUME TypeOK, NEW d \in Prover, NEW r \in Radio, NEW m \in Frame, NEW near, NEW a,
         sendProverBroadcast(d, r, m, near, a),
         NEW i, NEW T, NEW Q, NEW P, NEW D,
         Becomes(QueueOf(radio), Q, d, r.msgqueue),
         Becomes(PupOf(radio), P, d, r.pupmsg),
         Taken(i, m.id, T, Q, P, a, D, lost), m.id # i
  PROVE  Once(i, T, QueueOf(radio'), PupOf(radio'), air', D, lost')
  <1>1. lost' = lost /\ Once(i, T, Q, P, a, D, lost)
    BY DEF sendProverBroadcast, Taken
  <1>2. CASE Wait(d, r, m, near, a)
    BY <1>1, <1>2, WaitOnce
  <1>3. CASE Transmit(d, r, {[m EXCEPT !.destination = e] : e \in near}, near, a)
    <2>. DEFINE ms == {[m EXCEPT !.destination = e] : e \in near}
    <2>1. \A n \in ms : n.id # i
      BY DEF Frame, ProverFrame, CollectorFrame
    <2>2. Transmit(d, r, ms, near, a)
      BY <1>3
    <2>. HIDE DEF ms
    <2>3. Once(i, T, Q, P, a \cup ms, D, lost)
      BY <1>1, <2>1, PutOthers
    <2>. QED
      BY <1>1, <2>2, <2>3, TransmitOnce
  <1>4. CASE radio' = [radio EXCEPT ![d] = r] /\ air' = a
    BY <1>1, <1>4, KeptOnce
  <1>. QED
    BY <1>2, <1>3, <1>4 DEF sendProverBroadcast

\* pupmsg is forgotten: a report that was in it is lost, unless it is the one
\* that is sent.  x is what pupmsg holds apart from that one.
LEMMA ForgetOnce ==
  ASSUME NEW c, NEW p, c # NoMsg, NEW d \in Prover,
         NEW i, NEW T, NEW Q, NEW P, NEW A, NEW D, NEW L, NEW R, NEW x,
         x = p \/ (x = NoMsg /\ p = c),
         P[d] = x, Becomes(P, R, d, NoMsg),
         Taken(i, c.id, T, Q, P, A, D, L)
  PROVE  Taken(i, c.id, T, Q, R, A, D, L \cup {n.id : n \in {p} \ {NoMsg, c}})
  <1>. DEFINE M == L \cup {n.id : n \in {p} \ {NoMsg, c}}
  <1>1. CASE x = NoMsg
    <2>1. M = L
      BY <1>1
    <2>2. \A e \in Prover : Q[e] = Q[e] /\ R[e] = P[e]
      BY <1>1 DEF Becomes
    <2>. HIDE DEF M
    <2>3. Taken(i, c.id, T, Q, R, A, D, M)
      BY <2>1, <2>2, ViewsOnly DEF Taken
    <2>. QED
      BY <2>3 DEF M
  <1>2. CASE x # NoMsg
    <2>1. P[d] = p /\ p # NoMsg
      BY <1>2
    <2>2. At("pupmsg", d, 0, p.id, T, Q, P, A, D, L)
      BY <2>1 DEF At
    <2>3. ASSUME i = c.id
          PROVE  i # p.id /\ Gone(i, T, Q, R, A, D, L)
      <3>1. Gone(i, T, Q, P, A, D, L)
        BY <2>3 DEF Taken
      <3>2. i # p.id
        BY <2>2, <3>1 DEF Gone
      <3>3. \A w, u, k : At(w, u, k, i, T, Q, R, A, D, L)
                            => At(w, u, k, i, T, Q, P, A, D, L)
        BY DEF At, Becomes
      <3>. QED
        BY <3>1, <3>2, <3>3 DEF Gone
    <2>4. ASSUME i # c.id
          PROVE  Taken(i, p.id, T, Q, R, A, D, L)
      BY <2>1, <2>4, TakePup DEF Taken
    <2>5. CASE p = c
      <3>1. M = L
        BY <2>5
      <3>. HIDE DEF M
      <3>2. Taken(i, c.id, T, Q, R, A, D, M)
        BY <2>3, <2>4, <2>5, <3>1 DEF Taken
      <3>. QED
        BY <3>2 DEF M
    <2>6. CASE p # c
      <3>1. M = L \cup {p.id}
        BY <2>1, <2>6
      <3>. HIDE DEF M
      <3>2. Taken(i, c.id, T, Q, R, A, D, M)
        BY <2>3, <2>4, <3>1, PutLost DEF Taken
      <3>. QED
        BY <3>2 DEF M
    <2>. QED
      BY <2>5, <2>6
  <1>. QED
    BY <1>1, <1>2

\* A report for the collector leaves, waits or is postponed; what was
\* postponed before is lost.
LEMMA SendCollectorOnce ==
  ASSUME TypeOK, NEW d \in Prover, NEW r \in Radio, NEW c \in CollectorFrame,
         NEW near, NEW a,
         sendCollector(d, r, c, near, a),
         NEW i, NEW T, NEW Q, NEW P, NEW D, NEW x,
         x = r.pupmsg \/ (x = NoMsg /\ r.pupmsg = c),
         Becomes(QueueOf(radio), Q, d, r.msgqueue),
         Becomes(PupOf(radio), P, d, x),
         Taken(i, c.id, T, Q, P, a, D, lost)
  PROVE  Once(i, T, QueueOf(radio'), PupOf(radio'), air', D, lost')
  <1>. DEFINE s == [r EXCEPT !.pupmsg = NoMsg]
              R == [e \in Prover |-> IF e = d THEN NoMsg ELSE radio[e].pupmsg]
  <1>1. /\ s \in Radio /\ s.msgqueue = r.msgqueue /\ s.pupmsg = NoMsg
        /\ c \in Frame /\ c # NoMsg
    BY LinkAssumption DEF Radio, Frame
  <1>2. Becomes(P, R, d, NoMsg) /\ Becomes(PupOf(radio), R, d, NoMsg) /\ P[d] = x
    BY DEF Becomes, PupOf
  <1>3. lost' = lost \cup {n.id : n \in {r.pupmsg} \ {NoMsg, c}}
    BY DEF sendCollector
  <1>. HIDE DEF R
  <1>4. Taken(i, c.id, T, Q, R, a, D, lost')
    BY <1>1, <1>2, <1>3, ForgetOnce
  <1>5. CASE Wait(d, s, c, near, a)
    <2>. HIDE DEF s
    <2>. QED
      BY <1>1, <1>2, <1>4, <1>5, WaitOnce
  <1>6. CASE radio' = [radio EXCEPT ![d] = [s EXCEPT !.pupmsg = c, !.collbusy = TRUE]]
             /\ air' = a
    <2>. DEFINE v == [s EXCEPT !.pupmsg = c, !.collbusy = TRUE]
                U == PupOf(radio')
    <2>1. v.pupmsg = c /\ v.msgqueue = r.msgqueue
      BY <1>1 DEF Radio
    <2>2. radio' = [radio EXCEPT ![d] = v] /\ air' = a
      BY <1>6
    <2>. HIDE DEF v, s
    <2>3. Becomes(PupOf(radio), U, d, c)
      BY <2>1, <2>2, ViewFacts DEF TypeOK
    <2>. HIDE DEF U
    <2>4. Becomes(R, U, d, c) /\ R[d] = NoMsg
      BY <1>2, <2>3 DEF Becomes
    <2>5. Once(i, T, Q, U, a, D, lost')
      BY <1>1, <1>4, <2>4, PutPup
    <2>6. Once(i, T, QueueOf(radio'), PupOf(radio'), a, D, lost')
      BY <2>1, <2>2, <2>3, <2>5, KeptOnce
    <2>. QED
      BY <2>2, <2>6
  <1>7. CASE Transmit(d, s, {c}, near, a)
    <2>. HIDE DEF s
    <2>1. Once(i, T, Q, R, a \cup {c}, D, lost')
      BY <1>4, PutAir
    <2>. QED
      BY <1>1, <1>2, <1>7, <2>1, TransmitOnce
  <1>. QED
    BY <1>5, <1>6, <1>7 DEF sendCollector

\* Sending a frame that has been taken from where it was puts it somewhere
\* else, and keeps the others where they are.
LEMMA HandleOnce ==
  ASSUME TypeOK, NEW d \in Prover, NEW r \in Radio, NEW m \in Frame, NEW near, NEW a,
         handleMessage(d, r, m, near, a),
         NEW i, NEW T, NEW Q, NEW P, NEW D, NEW x,
         x = r.pupmsg \/ (x = NoMsg /\ r.pupmsg = m),
         Becomes(QueueOf(radio), Q, d, r.msgqueue),
         Becomes(PupOf(radio), P, d, x),
         Taken(i, m.id, T, Q, P, a, D, lost), m.kind = "CMRQ" => m.id # i
  PROVE  Once(i, T, QueueOf(radio'), PupOf(radio'), air', D, lost')
  <1>1. m.kind \notin {"UPRQC", "UPRQF"} => x = r.pupmsg
    BY LinkAssumption DEF Radio, CollectorFrame, Frame
  <1>2. CASE m.kind = "CMRQ" /\ sendProverBroadcast(d, r, m, near, a)
    BY <1>1, <1>2, BroadcastOnce
  <1>3. CASE m.kind \in {"CMRP", "CMAK", "UPRQ"} /\ sendProver(d, r, m, near, a)
    BY <1>1, <1>3, SendProverOnce
  <1>4. CASE m.kind = "UPRQ" /\ sendCollector(d, r, Redirected(m), near, a)
    <2>1. m \in ProverFrame /\ Redirected(m) \in CollectorFrame
      BY <1>4, FrameFacts
    <2>2. Redirected(m).id = m.id
      BY <2>1 DEF Redirected, ProverFrame
    <2>3. PICK c \in CollectorFrame : c.id = m.id /\ sendCollector(d, r, c, near, a)
      BY <1>4, <2>1, <2>2
    <2>4. x = r.pupmsg /\ Taken(i, c.id, T, Q, P, a, D, lost)
      BY <1>1, <1>4, <2>3
    <2>. QED
      BY <2>3, <2>4, SendCollectorOnce
  <1>5. CASE m.kind \in {"UPRQC", "UPRQF"} /\ sendCollector(d, r, m, near, a)
    BY <1>5, FrameFacts, SendCollectorOnce
  <1>. QED
    BY <1>2, <1>3, <1>4, <1>5 DEF handleMessage

\* The ids of the frames that are no invitations.
Ids == {m.id : m \in Directed}

\* An invitation in a queue has an id of its own.
KindOK(q) == \A k \in 1..Len(q) : q[k].kind = "CMRQ" => q[k].id \notin Ids

\* Taking the front of a queue, or adding a frame to it.
LEMMA KindFacts ==
  ASSUME NEW q \in Seq(Frame), KindOK(q)
  PROVE  /\ q # <<>> => /\ KindOK(Tail(q)) /\ Head(q) \in Frame
                        /\ Head(q).kind = "CMRQ" => Head(q).id \notin Ids
         /\ \A m \in Frame : (m.kind = "CMRQ" => m.id \notin Ids)
                                => KindOK(Append(q, m))
  <1>1. ASSUME q # <<>>
        PROVE  /\ KindOK(Tail(q)) /\ Head(q) \in Frame
               /\ Head(q).kind = "CMRQ" => Head(q).id \notin Ids
    <2>1. /\ Len(q) \in Nat \ {0} /\ Head(q) = q[1] /\ Head(q) \in Frame
          /\ Len(Tail(q)) = Len(q) - 1
          /\ \A j \in 1..Len(Tail(q)) : Tail(q)[j] = q[j + 1]
      BY <1>1
    <2>2. 1 \in 1..Len(q) /\ \A j \in 1..Len(Tail(q)) : j + 1 \in 1..Len(q)
      BY <2>1
    <2>. HIDE DEF Ids
    <2>. QED
      BY <2>1, <2>2 DEF KindOK
  <1>2. ASSUME NEW m \in Frame, m.kind = "CMRQ" => m.id \notin Ids
        PROVE  KindOK(Append(q, m))
    <2>. DEFINE p == Append(q, m)
    <2>1. /\ Len(q) \in Nat /\ Len(p) = Len(q) + 1 /\ p[Len(q) + 1] = m
          /\ \A j \in 1..Len(q) : p[j] = q[j]
      OBVIOUS
    <2>. HIDE DEF p
    <2>2. KindOK(p)
      BY <1>2, <2>1 DEF KindOK
    <2>. QED
      BY <2>2 DEF p
  <1>. QED
    BY <1>1, <1>2

\* A redirected frame is no invitation.
LEMMA WaitKinds ==
  ASSUME NEW r \in Radio, KindOK(r.msgqueue), NEW m \in Frame,
         m.kind = "CMRQ" => m.id \notin Ids
  PROVE  KindOK(queued(r, m).msgqueue)
  <1>1. queued(r, m).msgqueue = Append(r.msgqueue, m) /\ r.msgqueue \in Seq(Frame)
    BY DEF queued, Radio
  <1>. QED
    BY <1>1, KindFacts

\* Whatever sendCollector does, the queue is that of r, or r's and the frame.
LEMMA CollectorKinds ==
  ASSUME TypeOK, NEW d \in Prover, NEW r \in Radio, NEW c \in CollectorFrame,
         NEW near, NEW a, sendCollector(d, r, c, near, a),
         KindOK(r.msgqueue),
         \A e \in Prover \ {d} : KindOK(radio[e].msgqueue)
  PROVE  \A e \in Prover : KindOK(radio'[e].msgqueue)
  <1>. DEFINE s == [r EXCEPT !.pupmsg = NoMsg]
  <1>1. /\ s \in Radio /\ s.msgqueue = r.msgqueue
        /\ c \in Frame /\ c.kind # "CMRQ"
    BY DEF Radio, Frame, CollectorFrame
  <1>2. KindOK(queued(s, c).msgqueue)
    BY <1>1, WaitKinds
  <1>3. PICK v : radio' = [radio EXCEPT ![d] = v] /\ KindOK(v.msgqueue)
    <2>1. CASE Wait(d, s, c, near, a)
      BY <1>2, <2>1 DEF Wait
    <2>2. CASE radio' = [radio EXCEPT ![d] = [s EXCEPT !.pupmsg = c, !.collbusy = TRUE]]
      <3>1. [s EXCEPT !.pupmsg = c, !.collbusy = TRUE].msgqueue = r.msgqueue
        BY <1>1 DEF Radio
      <3>. QED
        BY <2>2, <3>1
    <2>3. CASE Transmit(d, s, {c}, near, a)
      <3>1. [s EXCEPT !.txrxstat = "TRANSMITING", !.tx = TRUE, !.entx = TRUE].msgqueue
               = r.msgqueue
        BY <1>1 DEF Radio
      <3>. QED
        BY <2>3, <3>1 DEF Transmit
    <2>. QED
      BY <2>1, <2>2, <2>3 DEF sendCollector
  <1>. QED
    BY <1>3 DEF TypeOK

\* So for every other frame.
LEMMA HandleKinds ==
  ASSUME TypeOK, NEW d \in Prover, NEW r \in Radio, NEW m \in Frame, NEW near, NEW a,
         handleMessage(d, r, m, near, a),
         m.kind = "CMRQ" => m.id \notin Ids,
         KindOK(r.msgqueue),
         \A e \in Prover \ {d} : KindOK(radio[e].msgqueue)
  PROVE  \A e \in Prover : KindOK(radio'[e].msgqueue)
  <1>1. CASE \E c \in CollectorFrame : sendCollector(d, r, c, near, a)
    BY <1>1, CollectorKinds
  <1>2. CASE \/ Wait(d, r, m, near, a)
             \/ \E ms : Transmit(d, r, ms, near, a)
             \/ radio' = [radio EXCEPT ![d] = r]
    <2>1. CASE Wait(d, r, m, near, a)
      BY <2>1, WaitKinds DEF Wait, TypeOK
    <2>2. CASE \E ms : Transmit(d, r, ms, near, a)
      <3>1. [r EXCEPT !.txrxstat = "TRANSMITING", !.tx = TRUE, !.entx = TRUE].msgqueue
               = r.msgqueue
        BY DEF Radio
      <3>. QED
        BY <2>2, <3>1 DEF Transmit, TypeOK
    <2>3. CASE radio' = [radio EXCEPT ![d] = r]
      BY <2>3 DEF TypeOK
    <2>. QED
      BY <1>2, <2>1, <2>2, <2>3
  <1>3. m.kind \in {"UPRQC", "UPRQF"} => m \in CollectorFrame
    BY FrameFacts
  <1>4. m.kind = "UPRQ" => Redirected(m) \in CollectorFrame
    BY FrameFacts
  <1>5. CASE sendProver(d, r, m, near, a)
    BY <1>2, <1>5 DEF sendProver
  <1>6. CASE sendProverBroadcast(d, r, m, near, a)
    BY <1>2, <1>6 DEF sendProverBroadcast
  <1>. QED
    BY <1>1, <1>3, <1>4, <1>5, <1>6 DEF handleMessage

-----------------------------------------------------------------------------
\* Every frame that is no invitation is in one place, and no invitation in a
\* queue can be taken for it.
FrameInv ==
    /\ \A d \in Prover : KindOK(radio[d].msgqueue)
    /\ \A i \in Ids : Once(i, todo, QueueOf(radio), PupOf(radio), air, done, lost)

\* The radio d is as its views say.
LEMMA ViewOfSelf ==
  ASSUME NEW rad, NEW d \in Prover
  PROVE  /\ Becomes(QueueOf(rad), QueueOf(rad), d, rad[d].msgqueue)
         /\ Becomes(PupOf(rad), PupOf(rad), d, rad[d].pupmsg)
         /\ QueueOf(rad)[d] = rad[d].msgqueue
         /\ PupOf(rad)[d] = rad[d].pupmsg
  BY DEF QueueOf, PupOf, Becomes

\* Distinct frames of the protocol have distinct ids.
LEMMA LoadKinds ==
  ASSUME NEW m \in Load
  PROVE  m \in Frame /\ (m.kind = "CMRQ" => m.id \notin Ids)
  BY LinkAssumption DEF Ids, Directed

\* A radio that changes, except for its queue and pupmsg.
LEMMA IdleOnce ==
  ASSUME TypeOK, FrameInv, NEW d \in Prover, NEW s,
         radio' = [radio EXCEPT ![d] = s],
         s.msgqueue = radio[d].msgqueue, s.pupmsg = radio[d].pupmsg,
         UNCHANGED <<todo, air, done, lost>>
  PROVE  FrameInv'
  <1>1. \A e \in Prover : KindOK(radio'[e].msgqueue)
    BY DEF TypeOK, FrameInv
  <1>2. ASSUME NEW i \in Ids
        PROVE  Once(i, todo', QueueOf(radio'), PupOf(radio'), air', done', lost')
    <2>1. Once(i, todo, QueueOf(radio), PupOf(radio), air, done, lost)
      BY DEF FrameInv
    <2>2. /\ Becomes(QueueOf(radio), QueueOf(radio), d, s.msgqueue)
          /\ Becomes(PupOf(radio), PupOf(radio), d, s.pupmsg)
      BY ViewOfSelf
    <2>. QED
      BY <2>1, <2>2, KeptOnce
  <1>. QED
    BY <1>1, <1>2 DEF FrameInv

\* The frame goes from todo to where sending puts it.
LEMMA HandOverOnce ==
  ASSUME TypeOK, FrameInv, NEW d \in Prover, handOver(d)
  PROVE  FrameInv'
  <1>1. PICK m \in todo, near \in Vicinity[d] :
           /\ todo' = todo \ {m}
           /\ handleMessage(d, radio[d], m, near, air)
    BY DEF handOver
  <1>2. m \in Frame /\ (m.kind = "CMRQ" => m.id \notin Ids) /\ radio[d] \in Radio
    BY LoadKinds DEF TypeOK
  <1>3. done' = done
    BY DEF handOver
  <1>4. \A e \in Prover : KindOK(radio'[e].msgqueue)
    BY <1>1, <1>2, HandleKinds DEF FrameInv
  <1>5. ASSUME NEW i \in Ids
        PROVE  Once(i, todo', QueueOf(radio'), PupOf(radio'), air', done', lost')
    <2>. DEFINE r == radio[d]
                x == r.pupmsg
                Q == QueueOf(radio)
                P == PupOf(radio)
    <2>1. Becomes(QueueOf(radio), Q, d, r.msgqueue) /\ Becomes(PupOf(radio), P, d, x)
      BY ViewOfSelf
    <2>2. Taken(i, m.id, todo \ {m}, Q, P, air, done, lost)
      <3>1. Once(i, todo, Q, P, air, done, lost)
        BY DEF FrameInv
      <3>. HIDE DEF Q, P
      <3>. QED
        BY <3>1, TakeTodo
    <2>3. handleMessage(d, r, m, near, air) /\ r \in Radio /\ x = r.pupmsg
      BY <1>1, <1>2
    <2>. HIDE DEF r, x, Q, P
    <2>. QED
      BY <1>1, <1>2, <1>3, <2>1, <2>2, <2>3, HandleOnce
  <1>. QED
    BY <1>4, <1>5 DEF FrameInv

\* The front of the queue is sent, if there is one.
LEMMA DrainOnce ==
  ASSUME TypeOK, FrameInv, NEW d \in Prover, NEW r \in Radio,
         r.msgqueue = radio[d].msgqueue, r.pupmsg = radio[d].pupmsg,
         drain(d, r), UNCHANGED <<todo, done>>
  PROVE  FrameInv'
  <1>1. CASE r.msgqueue = <<>>
    BY <1>1, IdleOnce DEF drain
  <1>2. CASE r.msgqueue # <<>>
    <2>. DEFINE p == popped(r)
                m == Head(r.msgqueue)
    <2>1. PICK near \in Vicinity[d] : handleMessage(d, p, m, near, air)
      BY <1>2 DEF drain
    <2>2. r.msgqueue \in Seq(Frame) /\ KindOK(r.msgqueue)
      BY DEF Radio, FrameInv
    <2>3. KindOK(Tail(r.msgqueue)) /\ m \in Frame /\ (m.kind = "CMRQ" => m.id \notin Ids)
      BY <1>2, <2>2, KindFacts
    <2>4. p \in Radio /\ p.msgqueue = Tail(r.msgqueue) /\ p.pupmsg = r.pupmsg
      <3>1. Tail(r.msgqueue) \in Seq(Frame)
        BY <1>2, <2>2
      <3>. QED
        BY <3>1 DEF popped, Radio
    <2>. HIDE DEF p, m
    <2>5. \A e \in Prover : KindOK(radio'[e].msgqueue)
      BY <2>1, <2>3, <2>4, HandleKinds DEF FrameInv
    <2>6. ASSUME NEW i \in Ids
          PROVE  Once(i, todo', QueueOf(radio'), PupOf(radio'), air', done', lost')
      <3>. DEFINE Q == QueueOf(radio)
                  P == PupOf(radio)
                  R == [e \in Prover |-> IF e = d THEN p.msgqueue ELSE radio[e].msgqueue]
                  x == p.pupmsg
      <3>1. /\ Becomes(Q, R, d, p.msgqueue) /\ Becomes(P, P, d, x)
            /\ Q[d] = r.msgqueue
        BY <2>4, ViewOfSelf DEF Becomes, QueueOf
      <3>2. Taken(i, m.id, todo, R, P, air, done, lost)
        <4>1. Once(i, todo, Q, P, air, done, lost)
          BY DEF FrameInv
        <4>2. m = Head(r.msgqueue)
          BY DEF m
        <4>. HIDE DEF Q, P, R, x
        <4>. QED
          BY <1>2, <2>2, <2>4, <3>1, <4>1, <4>2, TakeFront
      <3>3. x = p.pupmsg
        OBVIOUS
      <3>. HIDE DEF R, x
      <3>. QED
        BY <2>1, <2>3, <2>4, <3>1, <3>2, <3>3, HandleOnce
    <2>. QED
      BY <2>5, <2>6 DEF FrameInv
  <1>. QED
    BY <1>1, <1>2

\* The end of a transmission.
LEMMA TxDoneOnce ==
  ASSUME TypeOK, FrameInv, NEW d \in Prover, handleTxDoneMsg(d)
  PROVE  FrameInv'
  <1>. DEFINE r == transmitted(radio[d])
  <1>1. radio[d] \in Radio
    BY DEF TypeOK
  <1>2. /\ r \in Radio /\ r.msgqueue = radio[d].msgqueue
        /\ r.pupmsg = radio[d].pupmsg
    BY <1>1 DEF transmitted, Radio
  <1>3. drain(d, r) /\ UNCHANGED <<todo, done>>
    BY DEF handleTxDoneMsg
  <1>. HIDE DEF r
  <1>. QED
    BY <1>2, <1>3, DrainOnce

\* The end of a pause.
LEMMA PostponeDoneOnce ==
  ASSUME TypeOK, FrameInv, NEW d \in Prover, handlePostponeDoneMsg(d)
  PROVE  FrameInv'
  <1>. DEFINE r == [radio[d] EXCEPT !.cbusy = FALSE, !.chanstat = "CIDLE"]
  <1>1. radio[d] \in Radio
    BY DEF TypeOK
  <1>2. /\ r \in Radio /\ r.msgqueue = radio[d].msgqueue
        /\ r.pupmsg = radio[d].pupmsg
    BY <1>1 DEF Radio
  <1>3. drain(d, r) /\ UNCHANGED <<todo, done>>
    BY DEF handlePostponeDoneMsg
  <1>. HIDE DEF r
  <1>. QED
    BY <1>2, <1>3, DrainOnce

\* The postponed report leaves pupmsg and is sent.
LEMMA PostponeUpOnce ==
  ASSUME TypeOK, FrameInv, NEW d \in Prover, handlePostponeUpMsg(d)
  PROVE  FrameInv'
  <1>. DEFINE r == [radio[d] EXCEPT !.collbusy = FALSE]
              m == r.pupmsg
  <1>1. radio[d] \in Radio
    BY DEF TypeOK
  <1>2. /\ r \in Radio /\ r.msgqueue = radio[d].msgqueue
        /\ r.pupmsg = radio[d].pupmsg
        /\ r.pupmsg \in CollectorFrame \cup {NoMsg}
    BY <1>1 DEF Radio
  <1>3. /\ UNCHANGED <<todo, done>>
        /\ IF m # NoMsg
           THEN \E near \in Vicinity[d] : handleMessage(d, r, m, near, air)
           ELSE radio' = [radio EXCEPT ![d] = r] /\ UNCHANGED <<air, lost>>
    BY DEF handlePostponeUpMsg
  <1>4. m = r.pupmsg
    OBVIOUS
  <1>. HIDE DEF r, m
  <1>5. CASE m = NoMsg
    BY <1>2, <1>3, <1>5, IdleOnce
  <1>6. CASE m # NoMsg
    <2>1. PICK near \in Vicinity[d] : handleMessage(d, r, m, near, air)
      BY <1>3, <1>6
    <2>2. m \in Frame /\ m.kind # "CMRQ"
      BY <1>2, <1>4, <1>6 DEF Frame, CollectorFrame
    <2>3. KindOK(r.msgqueue)
      BY <1>2 DEF FrameInv
    <2>4. \A e \in Prover : KindOK(radio'[e].msgqueue)
      BY <1>2, <2>1, <2>2, <2>3, HandleKinds DEF FrameInv
    <2>5. ASSUME NEW i \in Ids
          PROVE  Once(i, todo', QueueOf(radio'), PupOf(radio'), air', done', lost')
      <3>. DEFINE Q == QueueOf(radio)
                  P == PupOf(radio)
                  R == [e \in Prover |-> IF e = d THEN NoMsg ELSE radio[e].pupmsg]
      <3>1. /\ Becomes(Q, Q, d, r.msgqueue) /\ Becomes(P, R, d, NoMsg)
            /\ P[d] = m
        BY <1>2, <1>4, ViewOfSelf DEF Becomes, PupOf
      <3>2. Taken(i, m.id, todo, Q, R, air, done, lost)
        <4>1. Once(i, todo, Q, P, air, done, lost)
          BY DEF FrameInv
        <4>. HIDE DEF Q, P, R
        <4>. QED
          BY <1>6, <3>1, <4>1, TakePup
      <3>. HIDE DEF R
      <3>. QED
        BY <1>2, <1>3, <1>4, <2>1, <2>2, <3>1, <3>2, HandleOnce
    <2>. QED
      BY <2>4, <2>5 DEF FrameInv
  <1>. QED
    BY <1>5, <1>6

\* The energy event moves no frame.
LEMMA DoneEnOnce ==
  ASSUME TypeOK, FrameInv, NEW d \in Prover, handleDoneEnMsg(d)
  PROVE  FrameInv'
  <1>. DEFINE s == [radio[d] EXCEPT !.entx = FALSE]
  <1>1. radio[d] \in Radio
    BY DEF TypeOK
  <1>2. s.msgqueue = radio[d].msgqueue /\ s.pupmsg = radio[d].pupmsg
    BY <1>1 DEF Radio
  <1>3. radio' = [radio EXCEPT ![d] = s] /\ UNCHANGED <<todo, air, done, lost>>
    BY DEF handleDoneEnMsg, TypeOK
  <1>. HIDE DEF s
  <1>. QED
    BY <1>2, <1>3, IdleOnce

\* What a crashed prover holds stays with it.
LEMMA CrashOnce ==
  ASSUME TypeOK, FrameInv, NEW d \in Prover, crash(d)
  PROVE  FrameInv'
  <1>. DEFINE s == [radio[d] EXCEPT !.tx = FALSE, !.entx = FALSE, !.cbusy = FALSE,
                                    !.collbusy = FALSE]
  <1>1. radio[d] \in Radio
    BY DEF TypeOK
  <1>2. s.msgqueue = radio[d].msgqueue /\ s.pupmsg = radio[d].pupmsg
    BY <1>1 DEF Radio
  <1>3. radio' = [radio EXCEPT ![d] = s] /\ UNCHANGED <<todo, air, done, lost>>
    BY <1>1 DEF crash, TypeOK
  <1>. HIDE DEF s
  <1>. QED
    BY <1>2, <1>3, IdleOnce

\* A frame that is received is done with.
LEMMA ReceivedOnce ==
  ASSUME TypeOK, FrameInv, NEW m \in air, air' = air \ {m}, done' = done \cup {m.id},
         UNCHANGED <<todo, radio, lost>>
  PROVE  FrameInv'
  <1>1. \A e \in Prover : KindOK(radio'[e].msgqueue)
    BY DEF FrameInv
  <1>2. ASSUME NEW i \in Ids
        PROVE  Once(i, todo', QueueOf(radio'), PupOf(radio'), air', done', lost')
    <2>. DEFINE Q == QueueOf(radio)
                P == PupOf(radio)
    <2>1. Once(i, todo, Q, P, air, done, lost)
      BY DEF FrameInv
    <2>. HIDE DEF Q, P
    <2>2. Once(i, todo, Q, P, air \ {m}, done \cup {m.id}, lost)
      BY <2>1, TakeAir, PutDone
    <2>. QED
      BY <2>2 DEF Q, P
  <1>. QED
    BY <1>1, <1>2 DEF FrameInv

\* A frame that a prover receives is done with or goes on to the collector.
LEMMA ArriveOnce ==
  ASSUME TypeOK, FrameInv, NEW d \in Prover, arrive(d)
  PROVE  FrameInv'
  <1>1. PICK m \in air :
           \/ /\ air' = air \ {m}
              /\ done' = done \cup {m.id}
              /\ UNCHANGED <<radio, procstat, lost>>
           \/ /\ m.kind = "UPRQ"
              /\ \E near \in Vicinity[d] :
                    sendCollector(d, radio[d], Redirected(m), near, air \ {m})
              /\ UNCHANGED done
    BY DEF arrive
  <1>2. UNCHANGED todo
    BY DEF arrive
  <1>3. CASE /\ air' = air \ {m} /\ done' = done \cup {m.id}
             /\ UNCHANGED <<radio, procstat, lost>>
    BY <1>2, <1>3, ReceivedOnce
  <1>4. CASE /\ m.kind = "UPRQ" /\ UNCHANGED done
             /\ \E near \in Vicinity[d] :
                   sendCollector(d, radio[d], Redirected(m), near, air \ {m})
    <2>1. m \in ProverFrame /\ Redirected(m) \in CollectorFrame
      BY <1>4, FrameFacts DEF TypeOK
    <2>2. Redirected(m).id = m.id
      BY <2>1 DEF Redirected, ProverFrame
    <2>. DEFINE r == radio[d]
                a == air \ {m}
    <2>3. PICK c \in CollectorFrame, near \in Vicinity[d] :
             c.id = m.id /\ sendCollector(d, r, c, near, a)
      BY <1>4, <2>1, <2>2
    <2>4. r \in Radio /\ KindOK(r.msgqueue)
      BY DEF TypeOK, FrameInv
    <2>5. \A e \in Prover : KindOK(radio'[e].msgqueue)
      <3>. HIDE DEF r, a
      <3>. QED
        BY <2>3, <2>4, CollectorKinds DEF FrameInv
    <2>6. ASSUME NEW i \in Ids
          PROVE  Once(i, todo', QueueOf(radio'), PupOf(radio'), air', done', lost')
      <3>. DEFINE x == r.pupmsg
                  Q == QueueOf(radio)
                  P == PupOf(radio)
      <3>1. Becomes(QueueOf(radio), Q, d, r.msgqueue) /\ Becomes(PupOf(radio), P, d, x)
        BY ViewOfSelf
      <3>2. Taken(i, c.id, todo, Q, P, a, done, lost)
        <4>1. Once(i, todo, Q, P, air, done, lost)
          BY DEF FrameInv
        <4>. HIDE DEF Q, P
        <4>. QED
          BY <2>3, <4>1, TakeAir
      <3>3. x = r.pupmsg
        OBVIOUS
      <3>. HIDE DEF x, Q, P, r, a
      <3>. QED
        BY <1>2, <1>4, <2>3, <2>4, <3>1, <3>2, <3>3, SendCollectorOnce
    <2>. QED
      BY <2>5, <2>6 DEF FrameInv
  <1>. QED
    BY <1>1, <1>3, <1>4

\* At first every frame is in todo only.
LEMMA FrameInit == Init => FrameInv
  <1>. SUFFICES ASSUME Init PROVE FrameInv
    OBVIOUS
  <1>1. \A d \in Prover : radio[d].msgqueue = <<>> /\ radio[d].pupmsg = NoMsg
    BY DEF Init, IdleRadio
  <1>2. \A d \in Prover : KindOK(radio[d].msgqueue)
    BY <1>1 DEF KindOK
  <1>3. ASSUME NEW i \in Ids
        PROVE  Once(i, todo, QueueOf(radio), PupOf(radio), air, done, lost)
    <2>1. PICK m \in Load : m.id = i
      BY DEF Ids, Directed
    <2>2. \A n \in Load : n.id = i => n = m
      BY <2>1, LinkAssumption
    <2>. DEFINE Q == QueueOf(radio)
                P == PupOf(radio)
    <2>3. \A d \in Prover : Len(Q[d]) = 0 /\ P[d] = NoMsg
      BY <1>1 DEF QueueOf, PupOf
    <2>. HIDE DEF Q, P
    <2>4. todo = Load /\ air = {} /\ done = {} /\ lost = {}
      BY DEF Init
    <2>5. At("todo", m, 0, i, todo, Q, P, air, done, lost)
      BY <2>1, <2>4 DEF At
    <2>6. \A x, y, z : At(x, y, z, i, todo, Q, P, air, done, lost)
                          => x = "todo" /\ y = m /\ z = 0
      BY <2>2, <2>3, <2>4 DEF At
    <2>7. Once(i, todo, Q, P, air, done, lost)
      BY <2>5, <2>6 DEF Once
    <2>. QED
      BY <2>7 DEF Q, P
  <1>. QED
    BY <1>2, <1>3 DEF FrameInv

\* Every step keeps FrameInv.
LEMMA FrameNext == TypeOK /\ FrameInv /\ [Next]_vars => FrameInv'
  <1>. SUFFICES ASSUME TypeOK, FrameInv, [Next]_vars PROVE FrameInv'
    OBVIOUS
  <1>1. CASE UNCHANGED <<todo, radio, air, done, lost>>
    BY <1>1 DEF FrameInv
  <1>2. CASE UNCHANGED vars \/ Over \/ handleProcDoneMsg
    BY <1>1, <1>2 DEF Over, vars, handleProcDoneMsg
  <1>3. CASE \E d \in Prover :
                \/ handOver(d) \/ handleTxDoneMsg(d) \/ handlePostponeDoneMsg(d)
                \/ handlePostponeUpMsg(d) \/ handleDoneEnMsg(d) \/ crash(d)
                \/ arrive(d)
    BY <1>3, HandOverOnce, TxDoneOnce, PostponeDoneOnce, PostponeUpOnce, DoneEnOnce,
       CrashOnce, ArriveOnce
  <1>4. CASE collect
    BY <1>4, ReceivedOnce DEF collect
  <1>. QED
    BY <1>2, <1>3, <1>4 DEF Next

\* The places of the definition are those of FrameInv.
LEMMA OncePlace ==
  ASSUME NEW i, Once(i, todo, QueueOf(radio), PupOf(radio), air, done, lost),
         TypeOK
  PROVE  Cardinality(Places(i)) = 1
  <1>. DEFINE Q == QueueOf(radio)
              P == PupOf(radio)
  <1>0. \A u \in Prover : /\ Q[u] = radio[u].msgqueue /\ P[u] = radio[u].pupmsg
                          /\ DOMAIN radio[u].msgqueue = 1..Len(Q[u])
    BY DEF QueueOf, PupOf, TypeOK, Radio
  <1>. HIDE DEF Q, P
  <1>1. \A p : p \in Places(i)
           <=> \E w, u, k : p = <<w, u, k>> /\ At(w, u, k, i, todo, Q, P, air, done, lost)
    <2>. SUFFICES ASSUME NEW p
                  PROVE  p \in Places(i)
                           <=> \E w, u, k : /\ p = <<w, u, k>>
                                            /\ At(w, u, k, i, todo, Q, P, air, done, lost)
      OBVIOUS
    <2>1. p \in Places(i) <=>
             \/ \E m \in todo : m.id = i /\ p = <<"todo", m, 0>>
             \/ \E d \in Prover : \E k \in 1..Len(Q[d]) :
                    Q[d][k].id = i /\ p = <<"msgqueue", d, k>>
             \/ \E d \in Prover : P[d] # NoMsg /\ P[d].id = i /\ p = <<"pupmsg", d, 0>>
             \/ \E m \in air : m.id = i /\ p = <<"air", m, 0>>
             \/ i \in done /\ p = <<"done", i, 0>>
             \/ i \in lost /\ p = <<"lost", i, 0>>
      <3>1. p \in InTodo(i) <=> \E m \in todo : m.id = i /\ p = <<"todo", m, 0>>
        BY DEF InTodo
      <3>2. p \in InQueues(i) <=> \E d \in Prover : \E k \in 1..Len(Q[d]) :
                                     Q[d][k].id = i /\ p = <<"msgqueue", d, k>>
        <4>. DEFINE M(d) == {j \in DOMAIN radio[d].msgqueue :
                               radio[d].msgqueue[j].id = i}
        <4>1. \A d \in Prover : M(d) = {k \in 1..Len(Q[d]) : Q[d][k].id = i}
          BY <1>0
        <4>2. p \in InQueues(i)
                 <=> \E d \in Prover : \E k \in M(d) : p = <<"msgqueue", d, k>>
          BY DEF InQueues
        <4>. HIDE DEF M
        <4>. QED
          BY <4>1, <4>2
      <3>3. p \in InPupmsgs(i) <=> \E d \in Prover : /\ P[d] # NoMsg /\ P[d].id = i
                                                     /\ p = <<"pupmsg", d, 0>>
        BY <1>0 DEF InPupmsgs
      <3>4. p \in InAir(i) <=> \E m \in air : m.id = i /\ p = <<"air", m, 0>>
        BY DEF InAir
      <3>5. p \in InHistory(i) <=> \/ i \in done /\ p = <<"done", i, 0>>
                                   \/ i \in lost /\ p = <<"lost", i, 0>>
        BY DEF InHistory
      <3>. QED
        BY <3>1, <3>2, <3>3, <3>4, <3>5 DEF Places
    <2>. QED
      BY <2>1 DEF At
  <1>3. PICK w, u, k : /\ At(w, u, k, i, todo, Q, P, air, done, lost)
                       /\ \A x, y, z : At(x, y, z, i, todo, Q, P, air, done, lost)
                                          => x = w /\ y = u /\ z = k
    BY DEF Once, Q, P
  <1>4. Places(i) = {<<w, u, k>>}
    BY <1>1, <1>3
  <1>. QED
    BY <1>4, FS_Singleton

\* Contention, postponing, redirecting, passing on and crashes neither
\* duplicate a frame nor lose it without a trace, for any traffic.
THEOREM FrameOnceCorrect == Spec => []FrameOnce
  <1>1. LinkInv => TypeOK
    BY DEF LinkInv
  <1>2. TypeOK /\ FrameInv => FrameOnce
    BY OncePlace DEF FrameInv, FrameOnce, Ids
  <1>. QED
    BY <1>1, <1>2, LinkInvCorrect, FrameInit, FrameNext, PTL DEF Spec
=============================================================================
