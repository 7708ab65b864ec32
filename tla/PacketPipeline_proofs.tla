------------------------ MODULE PacketPipeline_proofs ------------------------
(***************************************************************************)
(* For any packets, workers and rules: the user is asked one question at a *)
(* time, no worker blocks on a verdict and a verdict is for a packet of    *)
(* the connection it was taken for.                                        *)
(*                                                                         *)
(* The argument rests on the thread of a queue, which waits for the        *)
(* verdict on one packet.  So at most one worker holds a packet of each    *)
(* queue, and between GetIsAsking and SetIsAsking this worker is alone     *)
(* with the flag.                                                          *)
(***************************************************************************)
EXTENDS PacketPipeline, TLAPS

Holds(w, q) == work[w].at \in HoldingAt /\ work[w].queue = q

\* The main loop has a packet that the main thread waits for, and no worker has another.
HandOK ==
    hand # NoPacket => Awaits("main", hand) /\ \A w \in Workers : ~Holds(w, "main")

OneHolder ==
    \A v, w \in Workers, q \in Queues : Holds(v, q) /\ Holds(w, q) => v = w

\* Only a worker that has pulled its packet out of the repeat queue holds one of it.
QueueOK ==
    \A w \in Workers :
      work[w].queue = "repeat" => work[w].at \in {"ask", "default", "verdict", "return"}

\* The worker that set the flag is the one to reset it.
FlagOK ==
    /\ \A w \in Workers :
         /\ work[w].at = "set" => ~isAsking
         /\ work[w].at \in {"requeue", "pull", "ask"} => work[w].asking
         /\ work[w].asking =>
              isAsking /\ work[w].at \in {"requeue", "pull", "ask", "default", "verdict", "return"}
    /\ \A v, w \in Workers : work[v].asking /\ work[w].asking => v = w

\* A worker owes the verdict to a packet of the connection it was given.
ConOK ==
    \A w \in Workers :
      work[w].at \in HoldingAt \cup {"pull"} =>
        work[w].pkt \in Packets /\ ConOf[work[w].pkt] = ConOf[work[w].con]

\* A packet is at hand wherever a thread or the main loop has one to pass on.
ThreadOK ==
    \A q \in Queues : thread[q].at \in {"offer", "wait"} => thread[q].pkt \in Packets

Parts == VerdictIsAwaited /\ HandOK /\ OneHolder /\ QueueOK /\ FlagOK /\ ConOK /\ ThreadOK

IInv == TypeOK /\ Parts

\* A worker that has its packet thinks about it: it moves on, or takes a decision.
Ponders(w) ==
    /\ work[w].at \in {"parse", "match", "check", "ask", "default"}
    /\ \E l \in {"match", "check", "default", "verdict"}, v \in Actions :
         /\ l \in {"match", "check"} => work[w].at \in {"parse", "match"}
         /\ Becomes(w, [work[w] EXCEPT !.at = l, !.verdict = v])
    /\ UNCHANGED <<queues, hand, isAsking>>

-----------------------------------------------------------------------------
(* Types *)

Positions == {"idle", "parse", "match", "check", "set", "requeue", "pull",
              "ask", "default", "verdict", "return", "report"}

Work == [at : Positions, con : Packets \cup {NoPacket}, pkt : Packets \cup {NoPacket},
         queue : Queues, asking : BOOLEAN, verdict : Actions]

Thread == [at : {"recv", "offer", "wait"}, pkt : Packets \cup {NoPacket}]

\* A worker whose record changes stays a worker.
LEMMA BecomesType ==
  ASSUME TypeOK, NEW w \in Workers, NEW r \in Work, Becomes(w, r)
  PROVE  work' \in [Workers -> Work]
  BY DEF TypeOK, Becomes, Work, Positions

\* So it does when it only moves.
LEMMA GotoType ==
  ASSUME TypeOK, NEW w \in Workers, NEW l \in Positions, Goto(w, l)
  PROVE  work' \in [Workers -> Work]
<1>1. [work[w] EXCEPT !.at = l] \in Work
  BY DEF TypeOK, Work, Positions
<1> QED BY <1>1, BecomesType DEF Goto

\* The same for a decision.
LEMMA DecideType ==
  ASSUME TypeOK, NEW w \in Workers, NEW a \in Actions, Decide(w, a)
  PROVE  work' \in [Workers -> Work]
<1>1. work[w] \in Work
  BY DEF TypeOK, Work, Positions
<1>2. [work[w] EXCEPT !.at = "verdict", !.verdict = a] \in Work
  BY <1>1 DEF Work, Positions
<1> QED BY <1>2, BecomesType DEF Decide

\* The records that the actions start from have their types.
LEMMA Records ==
  /\ Receiving \in Thread
  /\ Idle \in Work /\ [Idle EXCEPT !.at = "report"] \in Work
  BY DEF Receiving, Thread, Idle, Work, Positions, Queues, Actions

\* TypeOK, with the records by their names.
TypeParts ==
    /\ fate \in [Packets -> {"new", "held", "accepted", "dropped"}]
    /\ repeatQ \in Seq(Packets) /\ hand \in Packets \cup {NoPacket}
    /\ thread \in [Queues -> Thread] /\ work \in [Workers -> Work]
    /\ isAsking \in BOOLEAN /\ connected \in BOOLEAN
    /\ rules \in [Conns -> Actions \cup {"none"}]

\* It is TypeOK indeed.
LEMMA SameType == (TypeOK <=> TypeParts) /\ (TypeOK' <=> TypeParts')
  BY DEF TypeOK, TypeParts, Thread, Work, Positions

\* What a thread or a worker has at hand is a packet, or nothing.
LEMMA AtHand ==
  ASSUME TypeOK
  PROVE  /\ \A q \in Queues : thread[q].pkt \in Packets \cup {NoPacket}
         /\ \A w \in Workers : work[w].pkt \in Packets \cup {NoPacket}
  BY DEF TypeOK

\* The steps of the queues keep the types.
LEMMA QueueType ==
  ASSUME TypeOK, QueueStep \/ \E p \in Packets : ReceiveMain(p)
  PROVE  TypeOK'
<1> USE SameType DEF TypeParts
<1>1. ASSUME NEW p \in Packets, ReceiveMain(p) PROVE TypeOK'
  <2>1. [at |-> "offer", pkt |-> p] \in Thread
    BY DEF Thread
  <2> QED BY <1>1, <2>1 DEF ReceiveMain, shared
<1>2. CASE ReceiveRepeat
  <2>1. Tail(repeatQ) \in Seq(Packets) /\ Head(repeatQ) \in Packets
    BY <1>2 DEF ReceiveRepeat
  <2>2. [at |-> "offer", pkt |-> Head(repeatQ)] \in Thread
    BY <2>1 DEF Thread
  <2> QED BY <1>2, <2>1, <2>2 DEF ReceiveRepeat, shared
<1>3. CASE MainLoopTakes
  <2>1. thread["main"].pkt \in Packets \cup {NoPacket}
    BY AtHand DEF Queues
  <2>2. [at |-> "wait", pkt |-> thread["main"].pkt] \in Thread
    BY <2>1 DEF Thread
  <2> QED BY <1>3, <2>1, <2>2 DEF MainLoopTakes, shared
<1>4. ASSUME NEW q \in Queues, OfferTimesOut(q) PROVE TypeOK'
  BY <1>4, Records DEF OfferTimesOut, shared
<1> QED BY <1>1, <1>2, <1>3, <1>4 DEF QueueStep

\* The steps of a worker keep the types.
LEMMA WorkerType ==
  ASSUME IInv, NEW w \in Workers, TakePacket(w) \/ WorkerStep(w)
  PROVE  TypeOK'
<1> USE SameType DEF TypeParts, IInv
<1>0. work[w] \in Work
  BY DEF IInv
<1> DEFINE Moves == \E l \in Positions : Goto(w, l)
<1>1. Moves => work' \in [Workers -> Work]
  BY GotoType
<1>2. CASE TakePacket(w)
  <2>1. [Idle EXCEPT !.at = "parse", !.con = hand, !.pkt = hand] \in Work
    BY DEF Idle, Work, Positions, Queues, Actions
  <2> QED BY <1>2, <2>1, BecomesType DEF TakePacket, queues, shared
<1>3. CASE Parse(w)
  <2>1. work' \in [Workers -> Work]
    BY <1>1, <1>3, DecideType DEF Parse, Positions, Actions
  <2> QED BY <1>3, <2>1 DEF Parse, queues, shared
<1>4. CASE FindMatch(w)
  <2> DEFINE action == rules[ConOf[work[w].con]]
  <2>1. ConOf[work[w].con] \in Conns
    BY <1>4, PacketAssumption DEF FindMatch, Parts, ConOK, HoldingAt
  <2>2. action \in Actions \cup {"none"}
    BY <2>1
  <2>3. (action # "none" /\ Decide(w, action)) \/ Goto(w, "check") \/ Goto(w, "default")
    BY <1>4 DEF FindMatch
  <2>4. work' \in [Workers -> Work]
    <3> HIDE DEF action
    <3> QED BY <1>1, <2>2, <2>3, DecideType DEF Positions
  <2> QED BY <1>4, <2>4 DEF FindMatch, queues, shared
<1>5. CASE CheckAsking(w)
  <2>1. work' \in [Workers -> Work]
    BY <1>1, <1>5 DEF CheckAsking, Positions
  <2> QED BY <1>5, <2>1 DEF CheckAsking, queues, shared
<1>6. CASE SetAsking(w)
  <2>1. [work[w] EXCEPT !.at = "requeue", !.asking = TRUE] \in Work
    BY <1>0 DEF Work, Positions
  <2> QED BY <1>6, <2>1, BecomesType DEF SetAsking, queues
<1>7. CASE Requeue(w)
  <2>1. work' \in [Workers -> Work]
    BY <1>1, <1>7 DEF Requeue, Positions
  <2>2. work[w].pkt \in Packets
    BY <1>7 DEF IInv, Parts, ConOK, HoldingAt, Requeue
  <2>3. repeatQ' \in Seq(Packets)
    BY <1>7, <2>2 DEF Requeue
  <2>4. thread' \in [Queues -> Thread]
    BY <1>7, Records DEF Requeue
  <2> QED BY <1>7, <2>1, <2>3, <2>4 DEF Requeue, shared
<1>8. CASE Pull(w)
  <2>1. thread["repeat"].pkt \in Packets
    BY <1>8 DEF IInv, Parts, ThreadOK, Pull, Queues
  <2>2. [at |-> "wait", pkt |-> thread["repeat"].pkt] \in Thread
    BY <2>1 DEF Thread
  <2>3. [work[w] EXCEPT !.at = "ask", !.pkt = thread["repeat"].pkt, !.queue = "repeat"] \in Work
    BY <1>0, <2>1 DEF Work, Positions, Queues
  <2>4. work' \in [Workers -> Work]
    BY <1>1, <1>8, <2>3, BecomesType DEF Pull, Positions
  <2> QED BY <1>8, <2>2, <2>4 DEF Pull, shared
<1>9. CASE PullTimesOut(w) \/ AskFails(w)
  <2>1. work' \in [Workers -> Work]
    BY <1>1, <1>9 DEF PullTimesOut, AskFails, Positions
  <2> QED BY <1>9, <2>1 DEF PullTimesOut, AskFails, queues, shared
<1>10. ASSUME NEW action \in Actions, NEW enabled \in BOOLEAN, NEW kept \in BOOLEAN,
              AskAnswered(w, action, enabled, kept)
       PROVE  TypeOK'
  <2>1. work' \in [Workers -> Work]
    BY <1>1, <1>10, DecideType DEF AskAnswered, Positions
  <2> QED BY <1>10, <2>1 DEF AskAnswered, queues
<1>11. CASE ApplyDefaultAction(w)
  <2>1. work' \in [Workers -> Work]
    BY <1>11, DecideType, ActionAssumption DEF ApplyDefaultAction, DefaultAction
  <2> QED BY <1>11, <2>1 DEF ApplyDefaultAction, queues, shared
<1>12. CASE SetVerdict(w)
  <2>1. work' \in [Workers -> Work]
    BY <1>1, <1>12 DEF SetVerdict, Positions
  <2> QED BY <1>12, <2>1, Records DEF SetVerdict, shared, Outcome
<1>13. CASE Return(w)
  <2>1. work' \in [Workers -> Work]
    BY <1>13, Records, BecomesType DEF Return
  <2> QED BY <1>13, <2>1 DEF Return, queues
<1>14. CASE Report(w)
  <2>1. work' \in [Workers -> Work]
    BY <1>14, Records, BecomesType DEF Report
  <2> QED BY <1>14, <2>1 DEF Report, queues, shared
<1> QED BY <1>2, <1>3, <1>4, <1>5, <1>6, <1>7, <1>8, <1>9, <1>10, <1>11, <1>12, <1>13, <1>14
        DEF WorkerStep, AnswerStep

-----------------------------------------------------------------------------
(* Each step, on the rest of the invariant *)

\* Nobody holds a packet of a queue whose thread does not wait for a verdict.
LEMMA NobodyHolds ==
  ASSUME IInv, NEW q \in Queues, thread[q].at # "wait", NEW w \in Workers
  PROVE  ~Holds(w, q)
<1>1. SUFFICES ASSUME Holds(w, q) PROVE FALSE
  OBVIOUS
<1>2. thread[q] = [at |-> "wait", pkt |-> work[w].pkt]
  BY <1>1 DEF IInv, Parts, VerdictIsAwaited, Awaits, Holds
<1> QED BY <1>2

\* A thread that receives a packet held none before.
LEMMA ReceiveMainParts ==
  ASSUME IInv, TypeOK', NEW p \in Packets, ReceiveMain(p)
  PROVE  Parts'
<1> USE DEF IInv, Parts
<1>1. \A w \in Workers : ~Holds(w, "main")
  BY NobodyHolds DEF ReceiveMain, Receiving, Queues
<1>2. VerdictIsAwaited'
  BY <1>1 DEF TypeOK, VerdictIsAwaited, ReceiveMain, shared, Holds, Awaits
<1>3. HandOK'
  BY DEF HandOK, Awaits, ReceiveMain, Receiving
<1>4. OneHolder' /\ QueueOK' /\ FlagOK' /\ ConOK' /\ ThreadOK'
  BY DEF TypeOK, OneHolder, QueueOK, FlagOK, ConOK, ThreadOK, ReceiveMain, shared, Holds,
      HoldingAt, Queues
<1> QED BY <1>2, <1>3, <1>4

\* The same for the repeat queue.
LEMMA ReceiveRepeatParts ==
  ASSUME IInv, TypeOK', ReceiveRepeat
  PROVE  Parts'
<1> USE DEF IInv, Parts
<1>1. VerdictIsAwaited' /\ HandOK' /\ OneHolder' /\ QueueOK' /\ FlagOK' /\ ConOK' /\ ThreadOK'
  BY DEF TypeOK, VerdictIsAwaited, HandOK, OneHolder, QueueOK, FlagOK, ConOK, ThreadOK,
      ReceiveRepeat, Receiving, shared, HoldingAt, Awaits, Holds, Queues
<1> QED BY <1>1

\* Nobody holds a packet that is still on offer.
LEMMA OfferTimesOutParts ==
  ASSUME IInv, TypeOK', NEW q \in Queues, OfferTimesOut(q)
  PROVE  Parts'
<1> USE DEF IInv, Parts
<1>1. VerdictIsAwaited' /\ HandOK' /\ OneHolder' /\ QueueOK' /\ FlagOK' /\ ConOK' /\ ThreadOK'
  BY DEF TypeOK, VerdictIsAwaited, HandOK, OneHolder, QueueOK, FlagOK, ConOK, ThreadOK,
      OfferTimesOut, Receiving, shared, HoldingAt, Awaits, Holds, Queues
<1> QED BY <1>1

\* The packet that the main loop takes from the thread is nobody else's.
LEMMA MainLoopTakesParts ==
  ASSUME IInv, TypeOK', MainLoopTakes
  PROVE  Parts'
<1> USE DEF IInv, Parts
<1>1. \A w \in Workers : ~Holds(w, "main")
  BY NobodyHolds DEF MainLoopTakes, Queues
<1>2. thread'["main"] = [at |-> "wait", pkt |-> hand']
  BY DEF TypeOK, MainLoopTakes, Queues
<1>3. HandOK'
  BY <1>1, <1>2 DEF HandOK, Awaits, MainLoopTakes, shared, Holds, HoldingAt
<1>4. VerdictIsAwaited' /\ OneHolder' /\ QueueOK' /\ FlagOK' /\ ConOK' /\ ThreadOK'
  BY DEF TypeOK, VerdictIsAwaited, OneHolder, QueueOK, FlagOK, ConOK, ThreadOK,
      MainLoopTakes, shared, HoldingAt, Awaits, Holds, Queues
<1> QED BY <1>3, <1>4

\* The main loop passes on the only packet of the main queue.
LEMMA TakePacketParts ==
  ASSUME IInv, TypeOK', NEW w \in Workers, TakePacket(w)
  PROVE  Parts'
<1> USE DEF IInv, Parts
<1>1. VerdictIsAwaited'
  BY DEF TypeOK, VerdictIsAwaited, HandOK, TakePacket, Becomes, Idle, queues, shared,
      HoldingAt, Awaits, Holds
<1>2. OneHolder'
  BY DEF TypeOK, OneHolder, HandOK, TakePacket, Becomes, Idle, queues, shared, Holds,
      HoldingAt, Awaits
<1>3. HandOK' /\ QueueOK' /\ FlagOK' /\ ConOK' /\ ThreadOK'
  BY DEF TypeOK, HandOK, QueueOK, FlagOK, ConOK, ThreadOK, TakePacket, Becomes, Idle,
      queues, shared, Holds, HoldingAt, Awaits, Queues
<1> QED BY <1>1, <1>2, <1>3

\* A worker that thinks about its packet keeps holding it.
LEMMA PondersParts ==
  ASSUME IInv, TypeOK', NEW w \in Workers, Ponders(w)
  PROVE  Parts'
<1> USE DEF IInv, Parts
<1>1. PICK l \in {"match", "check", "default", "verdict"}, v \in Actions :
        /\ l \in {"match", "check"} => work[w].at \in {"parse", "match"}
        /\ work' = [work EXCEPT ![w] = [work[w] EXCEPT !.at = l, !.verdict = v]]
  BY DEF Ponders, Becomes
<1>2. VerdictIsAwaited' /\ HandOK' /\ OneHolder'
  BY <1>1 DEF TypeOK, VerdictIsAwaited, HandOK, OneHolder, Ponders, queues, Holds,
      HoldingAt, Awaits
<1>3. QueueOK' /\ FlagOK'
  BY <1>1 DEF TypeOK, QueueOK, FlagOK, Ponders, queues
<1>4. ConOK' /\ ThreadOK'
  BY <1>1 DEF TypeOK, ConOK, ThreadOK, Ponders, queues, HoldingAt
<1> QED BY <1>2, <1>3, <1>4

\* A worker goes on to set the flag only if it is not set.
LEMMA CheckAskingParts ==
  ASSUME IInv, TypeOK', NEW w \in Workers, CheckAsking(w)
  PROVE  Parts'
<1> USE DEF IInv, Parts
<1>1. PICK l \in {"default", "set"} :
        /\ Goto(w, l) /\ (l = "set" => ~isAsking)
        /\ work[w].at = "check" /\ UNCHANGED <<queues, hand, shared>>
  BY DEF CheckAsking
<1>2. VerdictIsAwaited' /\ HandOK' /\ OneHolder'
  BY <1>1 DEF TypeOK, VerdictIsAwaited, HandOK, OneHolder, Becomes, Goto, queues, shared,
      Holds, HoldingAt, Awaits
<1>3. FlagOK' /\ QueueOK'
  BY <1>1 DEF TypeOK, FlagOK, QueueOK, Becomes, Goto, queues, shared
<1>4. ConOK' /\ ThreadOK'
  BY <1>1 DEF TypeOK, ConOK, ThreadOK, Becomes, Goto, queues, shared, HoldingAt
<1> QED BY <1>2, <1>3, <1>4

\* No other worker has seen the flag unset: it would hold a packet of the main queue too.
LEMMA SetAskingParts ==
  ASSUME IInv, TypeOK', NEW w \in Workers, SetAsking(w)
  PROVE  Parts'
<1> USE DEF IInv, Parts
<1>1. FlagOK'
  BY DEF TypeOK, FlagOK, OneHolder, QueueOK, Queues, SetAsking, Becomes, queues, Holds,
      HoldingAt
<1>2. VerdictIsAwaited' /\ HandOK' /\ OneHolder' /\ QueueOK' /\ ConOK' /\ ThreadOK'
  BY DEF TypeOK, VerdictIsAwaited, HandOK, OneHolder, QueueOK, ConOK, ThreadOK,
      SetAsking, Becomes, queues, HoldingAt, Awaits, Holds, Queues
<1> QED BY <1>1, <1>2

\* The main thread is free, and nobody else waits for it.
LEMMA RequeueParts ==
  ASSUME IInv, TypeOK', NEW w \in Workers, Requeue(w)
  PROVE  Parts'
<1> USE DEF IInv, Parts
<1>1. Holds(w, "main")
  BY DEF TypeOK, QueueOK, Requeue, Holds, HoldingAt, Queues
<1>2. hand = NoPacket
  BY <1>1 DEF HandOK
<1>3. VerdictIsAwaited'
  <2> SUFFICES ASSUME NEW v \in Workers, work'[v].at \in HoldingAt
               PROVE  Awaits(work[v].queue, work[v].pkt)' /\ work'[v] = work[v]
    BY DEF VerdictIsAwaited
  <2>1. v # w /\ work'[v] = work[v]
    BY DEF TypeOK, Requeue, Becomes, Goto, HoldingAt
  <2>2. work[v].queue = "repeat"
    BY <1>1, <2>1 DEF TypeOK, OneHolder, Holds, Queues
  <2> QED BY <2>1, <2>2 DEF TypeOK, VerdictIsAwaited, Awaits, Requeue, Queues
<1>4. HandOK'
  BY <1>2 DEF HandOK, Requeue, shared
<1>5. OneHolder' /\ QueueOK' /\ FlagOK' /\ ConOK' /\ ThreadOK'
  BY DEF TypeOK, OneHolder, QueueOK, FlagOK, ConOK, ThreadOK, Requeue, Becomes, Goto,
      Receiving, shared, Holds, HoldingAt, Queues
<1> QED BY <1>3, <1>4, <1>5

\* A packet that was pulled out is held by the worker that pulled it, or by none.
LEMMA PullParts ==
  ASSUME IInv, TypeOK', NEW w \in Workers, Pull(w)
  PROVE  Parts'
<1> USE DEF IInv, Parts
<1> DEFINE p == thread["repeat"].pkt
<1>1. \A v \in Workers : ~Holds(v, "repeat")
  BY NobodyHolds DEF Pull, Queues
<1>2. p \in Packets /\ Awaits("repeat", p)' /\ thread'["main"] = thread["main"]
  BY DEF TypeOK, Pull, ThreadOK, Awaits, Queues
<1>3. work[w].at = "pull" /\ work[w].asking
  BY DEF Pull, FlagOK
<1>4. ThreadOK'
  BY DEF TypeOK, ThreadOK, Pull, Queues
<1>5. CASE Bytes[p] = Bytes[work[w].pkt]
  <2>1. ConOf[p] = ConOf[work[w].con]
    BY <1>2, <1>3, <1>5, PacketAssumption DEF ConOK
  <2>2. work' = [work EXCEPT ![w] = [work[w] EXCEPT !.at = "ask", !.pkt = p, !.queue = "repeat"]]
    BY <1>5 DEF Pull, Becomes
  <2>3. VerdictIsAwaited' /\ HandOK' /\ OneHolder'
    BY <1>1, <1>2, <1>3, <2>2
    DEF TypeOK, VerdictIsAwaited, HandOK, OneHolder, Pull, shared, Awaits, Holds,
        HoldingAt, Queues
  <2>4. QueueOK' /\ FlagOK'
    BY <1>3, <2>2 DEF TypeOK, QueueOK, FlagOK, Pull, shared
  <2>5. ConOK'
    BY <1>2, <2>1, <2>2 DEF TypeOK, ConOK, HoldingAt
  <2> QED BY <1>4, <2>3, <2>4, <2>5
<1>6. CASE Bytes[p] # Bytes[work[w].pkt]
  <2>1. work' = [work EXCEPT ![w] = [work[w] EXCEPT !.at = "return"]]
    BY <1>6 DEF Pull, Becomes, Goto
  <2>2. VerdictIsAwaited' /\ HandOK' /\ OneHolder'
    BY <1>1, <1>2, <1>3, <2>1
    DEF TypeOK, VerdictIsAwaited, HandOK, OneHolder, Pull, shared, Awaits, Holds,
        HoldingAt, Queues
  <2>3. QueueOK' /\ FlagOK' /\ ConOK'
    BY <1>3, <2>1 DEF TypeOK, QueueOK, FlagOK, ConOK, Pull, shared, HoldingAt
  <2> QED BY <1>4, <2>2, <2>3
<1> QED BY <1>5, <1>6

\* A worker that gives up holds nothing.
LEMMA PullTimesOutParts ==
  ASSUME IInv, TypeOK', NEW w \in Workers, PullTimesOut(w)
  PROVE  Parts'
<1> USE DEF IInv, Parts
<1>1. VerdictIsAwaited' /\ HandOK' /\ OneHolder' /\ QueueOK' /\ FlagOK' /\ ConOK' /\ ThreadOK'
  BY DEF TypeOK, VerdictIsAwaited, HandOK, OneHolder, QueueOK, FlagOK, ConOK, ThreadOK,
      PullTimesOut, Becomes, Goto, queues, shared, HoldingAt, Awaits, Holds, Queues
<1> QED BY <1>1

\* A verdict frees the thread that nobody else waits for.
LEMMA SetVerdictParts ==
  ASSUME IInv, TypeOK', NEW w \in Workers, SetVerdict(w)
  PROVE  Parts'
<1> USE DEF IInv, Parts
<1>1. VerdictIsAwaited'
  BY DEF TypeOK, VerdictIsAwaited, OneHolder, SetVerdict, Becomes, Goto, Receiving,
      shared, HoldingAt, Awaits, Holds
<1>2. HandOK' /\ OneHolder' /\ QueueOK' /\ FlagOK' /\ ConOK' /\ ThreadOK'
  BY DEF TypeOK, HandOK, OneHolder, QueueOK, FlagOK, ConOK, ThreadOK, SetVerdict,
      Becomes, Goto, Receiving, shared, Holds, HoldingAt, Awaits, Queues
<1> QED BY <1>1, <1>2

\* The flag is reset by the one that set it.
LEMMA ReturnParts ==
  ASSUME IInv, TypeOK', NEW w \in Workers, Return(w)
  PROVE  Parts'
<1> USE DEF IInv, Parts
<1>1. VerdictIsAwaited' /\ HandOK' /\ OneHolder' /\ QueueOK' /\ FlagOK' /\ ConOK' /\ ThreadOK'
  BY DEF TypeOK, VerdictIsAwaited, HandOK, OneHolder, QueueOK, FlagOK, ConOK, ThreadOK,
      Return, Becomes, Idle, queues, HoldingAt, Awaits, Holds, Queues
<1> QED BY <1>1

\* A worker that has reported holds nothing.
LEMMA ReportParts ==
  ASSUME IInv, TypeOK', NEW w \in Workers, Report(w)
  PROVE  Parts'
<1> USE DEF IInv, Parts
<1>1. VerdictIsAwaited' /\ HandOK' /\ OneHolder' /\ QueueOK' /\ FlagOK' /\ ConOK' /\ ThreadOK'
  BY DEF TypeOK, VerdictIsAwaited, HandOK, OneHolder, QueueOK, FlagOK, ConOK, ThreadOK,
      Report, Becomes, Idle, queues, shared, HoldingAt, Awaits, Holds, Queues
<1> QED BY <1>1

-----------------------------------------------------------------------------
(* The invariant and its theorems *)

\* The initial states have it.
LEMMA InitInv == Init => IInv
<1> SUFFICES ASSUME Init PROVE IInv
  OBVIOUS
<1>1. TypeOK
  <2>1. thread \in [Queues -> Thread] /\ work \in [Workers -> Work]
    BY Records DEF Init
  <2>2. repeatQ \in Seq(Packets) /\ hand \in Packets \cup {NoPacket}
    BY DEF Init
  <2>3. /\ fate \in [Packets -> {"new", "held", "accepted", "dropped"}]
        /\ isAsking \in BOOLEAN /\ connected \in BOOLEAN
        /\ rules \in [Conns -> Actions \cup {"none"}]
    BY DEF Init
  <2> QED BY <2>1, <2>2, <2>3, SameType DEF TypeParts
<1>2. Parts
  BY <1>1 DEF Init, Parts, VerdictIsAwaited, HandOK, OneHolder, QueueOK, FlagOK, ConOK,
      ThreadOK,
      Holds, HoldingAt, Idle, Receiving, Queues
<1> QED BY <1>1, <1>2 DEF IInv

\* Thinking is what the remaining steps of a worker do.
LEMMA ThinkingSteps ==
  ASSUME IInv, NEW w \in Workers
  PROVE  Parse(w) \/ FindMatch(w) \/ AnswerStep(w) \/ ApplyDefaultAction(w) => Ponders(w)
<1>1. work[w] \in Work /\ work[w].verdict \in Actions
  BY SameType DEF IInv, TypeParts, Work
<1>2. ASSUME NEW l
      PROVE  [work[w] EXCEPT !.at = l] = [work[w] EXCEPT !.at = l, !.verdict = work[w].verdict]
  BY <1>1 DEF Work
<1>3. ASSUME NEW l \in {"match", "check", "default"}, Goto(w, l)
      PROVE  \E v \in Actions : Becomes(w, [work[w] EXCEPT !.at = l, !.verdict = v])
  BY <1>1, <1>2, <1>3 DEF Goto
<1>4. ASSUME NEW a \in Actions, Decide(w, a), UNCHANGED <<queues, hand, isAsking>>,
             work[w].at \in {"parse", "match", "ask", "default"}
      PROVE  Ponders(w)
  BY <1>4 DEF Decide, Ponders
<1>5. ASSUME Goto(w, "match") \/ Goto(w, "check") \/ Goto(w, "default"),
             UNCHANGED <<queues, hand, isAsking>>, work[w].at \in {"parse", "match"}
      PROVE  Ponders(w)
  <2>1. PICK l \in {"match", "check", "default"} : Goto(w, l)
    BY <1>5
  <2>2. PICK v \in Actions : Becomes(w, [work[w] EXCEPT !.at = l, !.verdict = v])
    BY <1>3, <2>1
  <2> QED BY <1>5, <2>2 DEF Ponders
<1>6. ASSUME Parse(w) PROVE Ponders(w)
  <2>1. work[w].at = "parse" /\ UNCHANGED <<queues, hand, isAsking>>
    BY <1>6 DEF Parse, shared
  <2>2. CASE Decide(w, "allow")
    BY <1>4, <2>1, <2>2 DEF Actions
  <2>3. CASE Goto(w, "default")
    BY <1>5, <2>1, <2>3
  <2>4. CASE Goto(w, "match")
    BY <1>5, <2>1, <2>4
  <2> QED BY <1>6, <2>2, <2>3, <2>4 DEF Parse
<1>7. ASSUME FindMatch(w) PROVE Ponders(w)
  <2>1. ConOf[work[w].con] \in Conns
    BY <1>7, PacketAssumption DEF FindMatch, IInv, Parts, ConOK, HoldingAt
  <2>2. rules[ConOf[work[w].con]] \in Actions \cup {"none"}
    BY <2>1 DEF IInv, TypeOK
  <2>3. CASE rules[ConOf[work[w].con]] # "none"
    BY <1>4, <1>7, <2>2, <2>3 DEF FindMatch, shared
  <2>4. work[w].at = "match" /\ UNCHANGED <<queues, hand, isAsking>>
    BY <1>7 DEF FindMatch, shared
  <2>5. CASE Goto(w, "check")
    BY <1>5, <2>4, <2>5
  <2>6. CASE Goto(w, "default")
    BY <1>5, <2>4, <2>6
  <2> QED BY <1>7, <2>3, <2>5, <2>6 DEF FindMatch
<1>8. ASSUME AnswerStep(w) PROVE Ponders(w)
  <2>1. work[w].at = "ask" /\ UNCHANGED <<queues, hand, isAsking>>
    BY <1>8 DEF AnswerStep, AskFails, AskAnswered, shared
  <2>2. (\E action \in Actions : Decide(w, action)) \/ Goto(w, "default")
    BY <1>8 DEF AnswerStep, AskFails, AskAnswered
  <2>3. CASE Goto(w, "default")
    BY <1>3, <2>1, <2>3 DEF Ponders
  <2> QED BY <1>4, <2>1, <2>2, <2>3
<1>9. DefaultAction \in Actions
  BY ActionAssumption DEF DefaultAction
<1>10. ApplyDefaultAction(w) => Ponders(w)
  BY <1>4, <1>9 DEF ApplyDefaultAction, shared
<1> QED BY <1>6, <1>7, <1>8, <1>10

\* So every step keeps it.
LEMMA StepInv == IInv /\ [Next]_vars => IInv'
<1> SUFFICES ASSUME IInv, [Next]_vars PROVE IInv'
  OBVIOUS
<1>1. CASE QueueStep \/ \E p \in Packets : ReceiveMain(p)
  <2>1. TypeOK'
    BY <1>1, QueueType DEF IInv
  <2> QED BY <1>1, <2>1, ReceiveMainParts, ReceiveRepeatParts, OfferTimesOutParts,
             MainLoopTakesParts
          DEF IInv, QueueStep
<1>2. ASSUME NEW w \in Workers, TakePacket(w) \/ WorkerStep(w) PROVE IInv'
  <2>1. TypeOK'
    BY <1>2, WorkerType
  <2>2. Parts'
    BY <1>2, <2>1, TakePacketParts, PondersParts, ThinkingSteps, CheckAskingParts,
        SetAskingParts,
       RequeueParts, PullParts, PullTimesOutParts, SetVerdictParts, ReturnParts, ReportParts
       DEF WorkerStep
  <2> QED BY <2>1, <2>2 DEF IInv
<1>3. CASE \/ ConnectionChanges \/ UNCHANGED vars
           \/ \E c \in Conns, action \in Actions \cup {"none"} : RuleChanges(c, action)
  <2>1. /\ thread' = thread /\ work' = work /\ hand' = hand /\ isAsking' = isAsking
        /\ fate' = fate /\ repeatQ' = repeatQ
    BY <1>3 DEF ConnectionChanges, RuleChanges, vars, queues, shared
  <2>2. connected' \in BOOLEAN /\ rules' \in [Conns -> Actions \cup {"none"}]
    BY <1>3 DEF IInv, TypeOK, ConnectionChanges, RuleChanges, vars, shared
  <2>3. TypeOK'
    BY <2>1, <2>2 DEF IInv, TypeOK
  <2>4. Parts'
    BY <2>1 DEF IInv, Parts, VerdictIsAwaited, HandOK, OneHolder, QueueOK, FlagOK, ConOK,
        ThreadOK,
        Holds, Awaits
  <2> QED BY <2>3, <2>4 DEF IInv
<1> QED BY <1>1, <1>2, <1>3 DEF Next

\* The inductive invariant (main.go acceptOrDeny with netfilter/queue.go go_callback).
THEOREM PipelineInvariant == Spec => []IInv
  BY InitInv, StepInv, PTL DEF Spec

\* The threads of the queues, the main loop and the workers are of their types (main.go,
\* netfilter/queue.go).
THEOREM TypeCorrect == Spec => []TypeOK
<1>1. IInv => TypeOK
  BY DEF IInv
<1> QED BY <1>1, PipelineInvariant, PTL

\* At most one worker asks the user, although it checks the flag and sets it in two
\* critical sections (main.go:452-458).
THEOREM UserIsAskedOnce == Spec => []OneAsker
<1>1. IInv => OneAsker
  BY DEF IInv, Parts, TypeOK, OneHolder, QueueOK, FlagOK, OneAsker, AskingAt, Holds,
      HoldingAt, Queues
<1> QED BY <1>1, PipelineInvariant, PTL

\* No worker blocks on a verdict that the thread of the queue does not wait for
\* (netfilter/packet.go SetVerdict).
THEOREM VerdictsAreAwaited == Spec => []VerdictIsAwaited
<1>1. IInv => VerdictIsAwaited
  BY DEF IInv, Parts
<1> QED BY <1>1, PipelineInvariant, PTL

\* A verdict is given to a packet of the connection it was taken for, whatever packet the
\* repeat queue brings first (main.go:466-484).
THEOREM VerdictsReachTheirConnection == Spec => []VerdictIsForItsConnection
<1>1. IInv => VerdictIsForItsConnection
  BY DEF IInv, Parts, ConOK, HoldingAt, VerdictIsForItsConnection
<1> QED BY <1>1, PipelineInvariant, PTL

-----------------------------------------------------------------------------
(* No packet is lost *)

\* The places of the packets are in a sequence, where a packet has a position.
LEMMA RequeuedAt ==
  ASSUME TypeOK
  PROVE  /\ DOMAIN repeatQ = 1..Len(repeatQ) /\ Len(repeatQ) \in Nat
         /\ \A p \in Packets : p \in Requeued <=> \E i \in 1..Len(repeatQ) : repeatQ[i] = p
  BY DEF TypeOK, Requeued

\* A packet that is received was nowhere before.
LEMMA ReceiveMainOnce ==
  ASSUME IInv, HeldOnce, NEW p \in Packets, ReceiveMain(p)
  PROVE  HeldOnce'
<1>1. ~Has("main", p) /\ ~Has("repeat", p) /\ p \notin Requeued
  BY DEF HeldOnce, ReceiveMain, Queues
<1>2. repeatQ' = repeatQ /\ Requeued' = Requeued
  BY DEF ReceiveMain, Requeued
<1>3. /\ \A r \in Packets : fate'[r] = "held" <=> r = p \/ fate[r] = "held"
      /\ thread'["repeat"] = thread["repeat"]
      /\ thread'["main"] = [at |-> "offer", pkt |-> p]
  BY DEF IInv, TypeOK, ReceiveMain, Queues
<1>4. \A r \in Packets : Has("main", r)' <=> r = p
  BY <1>3 DEF Has
<1>5. \A r \in Packets : ~Has("main", r) /\ (Has("repeat", r)' <=> Has("repeat", r))
  BY <1>3 DEF Has, ReceiveMain, Receiving
<1> QED BY <1>1, <1>2, <1>3, <1>4, <1>5 DEF HeldOnce, Queues

\* The packet at the head of the repeat queue goes to the thread.
LEMMA ReceiveRepeatOnce ==
  ASSUME IInv, HeldOnce, ReceiveRepeat
  PROVE  HeldOnce'
<1> DEFINE h == Head(repeatQ)
<1>0. TypeOK /\ repeatQ \in Seq(Packets) /\ repeatQ # <<>> /\ repeatQ' = Tail(repeatQ)
  BY DEF IInv, TypeOK, ReceiveRepeat
<1>1. /\ Len(repeatQ) \in Nat \ {0} /\ h = repeatQ[1] /\ h \in Packets
      /\ DOMAIN repeatQ = 1..Len(repeatQ) /\ DOMAIN repeatQ' = 1..(Len(repeatQ) - 1)
      /\ \A i \in 1..(Len(repeatQ) - 1) : repeatQ'[i] = repeatQ[i + 1]
  BY <1>0
<1>2. \A i, j \in 1..Len(repeatQ) : repeatQ[i] = repeatQ[j] => i = j
  BY <1>1 DEF HeldOnce
<1>3. \A i, j \in DOMAIN repeatQ' : repeatQ'[i] = repeatQ'[j] => i = j
  BY <1>1, <1>2
<1>4. \A p \in Packets : p \in Requeued' <=> p \in Requeued /\ p # h
  <2>1. \A p \in Packets : p \in Requeued' <=> \E i \in 1..(Len(repeatQ) - 1) : repeatQ[i + 1] = p
    BY <1>1 DEF Requeued
  <2>2. \A p \in Packets : p \in Requeued <=> \E i \in 1..Len(repeatQ) : repeatQ[i] = p
    BY <1>0, RequeuedAt
  <2>3. ASSUME NEW i \in 1..Len(repeatQ), repeatQ[i] # h
        PROVE  i - 1 \in 1..(Len(repeatQ) - 1) /\ repeatQ[(i - 1) + 1] = repeatQ[i]
    BY <1>1, <2>3
  <2>4. \A i \in 1..(Len(repeatQ) - 1) : i + 1 \in 1..Len(repeatQ) /\ repeatQ[i + 1] # h
    BY <1>1, <1>2
  <2>5. ASSUME NEW p \in Packets, p \in Requeued, p # h PROVE p \in Requeued'
    BY <2>1, <2>2, <2>3, <2>5
  <2>6. ASSUME NEW p \in Packets, p \in Requeued' PROVE p \in Requeued /\ p # h
    BY <2>1, <2>2, <2>4, <2>6
  <2> QED BY <2>5, <2>6
<1>5. h \in Requeued
  BY <1>0, <1>1, RequeuedAt
<1>6. /\ fate' = fate /\ thread'["main"] = thread["main"]
      /\ thread'["repeat"] = [at |-> "offer", pkt |-> h]
      /\ thread["repeat"] = Receiving
  BY <1>0 DEF TypeOK, ReceiveRepeat, Queues
<1>7. \A p \in Packets : (Has("main", p)' <=> Has("main", p)) /\ (Has("repeat", p)' <=> p = h)
                          /\ ~Has("repeat", p)
  BY <1>6 DEF Has, Receiving
<1> QED BY <1>3, <1>4, <1>5, <1>6, <1>7 DEF HeldOnce, Queues

\* The packet on offer is accepted, and was nowhere else.
LEMMA OfferTimesOutOnce ==
  ASSUME IInv, HeldOnce, NEW q \in Queues, OfferTimesOut(q)
  PROVE  HeldOnce'
<1> DEFINE p == thread[q].pkt
<1>1. p \in Packets /\ Has(q, p)
  BY DEF IInv, Parts, ThreadOK, OfferTimesOut, Has
<1>2. /\ repeatQ' = repeatQ /\ Requeued' = Requeued
      /\ \A r \in Packets : fate'[r] = "held" <=> fate[r] = "held" /\ r # p
      /\ \A k \in Queues : thread'[k] = IF k = q THEN Receiving ELSE thread[k]
  BY <1>1 DEF IInv, TypeOK, OfferTimesOut, Requeued
<1>3. \A k \in Queues, r \in Packets : Has(k, r)' <=> Has(k, r) /\ k # q
  BY <1>2 DEF Has, Receiving
<1>4. \A r \in Packets : Has(q, r) <=> r = p
  BY <1>1 DEF Has
<1> QED BY <1>1, <1>2, <1>3, <1>4 DEF HeldOnce, Queues

\* A verdict is the same, for a packet that its thread waits with.
LEMMA SetVerdictOnce ==
  ASSUME IInv, HeldOnce, NEW w \in Workers, SetVerdict(w)
  PROVE  HeldOnce'
<1> DEFINE p == work[w].pkt
<1> DEFINE q == work[w].queue
<1>1. q \in Queues /\ p \in Packets /\ thread[q] = [at |-> "wait", pkt |-> p]
  BY DEF IInv, TypeOK, Parts, ConOK, HoldingAt, SetVerdict, Awaits
<1>2. /\ repeatQ' = repeatQ /\ Requeued' = Requeued
      /\ \A r \in Packets : fate'[r] = "held" <=> fate[r] = "held" /\ r # p
      /\ \A k \in Queues : thread'[k] = IF k = q THEN Receiving ELSE thread[k]
  BY <1>1 DEF IInv, TypeOK, SetVerdict, Requeued, Outcome
<1>3. \A k \in Queues, r \in Packets : Has(k, r)' <=> Has(k, r) /\ k # q
  BY <1>2 DEF Has, Receiving
<1>4. \A r \in Packets : Has(q, r) <=> r = p
  BY <1>1 DEF Has
<1> QED BY <1>1, <1>2, <1>3, <1>4 DEF HeldOnce, Queues

\* The packet that the main thread waited with goes to the end of the repeat queue.
LEMMA RequeueOnce ==
  ASSUME IInv, HeldOnce, NEW w \in Workers, Requeue(w)
  PROVE  HeldOnce'
<1> DEFINE p == work[w].pkt
<1> DEFINE n == Len(repeatQ)
<1>0. TypeOK /\ repeatQ \in Seq(Packets) /\ p \in Packets /\ repeatQ' = Append(repeatQ, p)
  BY DEF IInv, TypeOK, Parts, ConOK, HoldingAt, Requeue
<1>1. /\ n \in Nat /\ DOMAIN repeatQ = 1..n /\ DOMAIN repeatQ' = 1..(n + 1)
      /\ repeatQ'[n + 1] = p /\ \A i \in 1..n : repeatQ'[i] = repeatQ[i]
  BY <1>0
<1>2. Has("main", p) /\ \A r \in Packets : Has("main", r) <=> r = p
  BY DEF Has, Requeue, Awaits
<1>3. p \notin Requeued /\ ~Has("repeat", p)
  BY <1>0, <1>2 DEF HeldOnce
<1>4. \A i, j \in DOMAIN repeatQ' : repeatQ'[i] = repeatQ'[j] => i = j
  <2>1. \A i \in 1..n : repeatQ[i] # p
    BY <1>0, <1>3, RequeuedAt
  <2>2. \A i \in 1..(n + 1) : i \in 1..n \/ i = n + 1
    BY <1>1
  <2> QED BY <1>1, <2>1, <2>2 DEF HeldOnce
<1>5. \A r \in Packets : r \in Requeued' <=> r \in Requeued \/ r = p
  <2>1. \A i \in 1..n : i \in 1..(n + 1)
    BY <1>1
  <2>2. n + 1 \in 1..(n + 1) /\ \A i \in 1..(n + 1) : i \in 1..n \/ i = n + 1
    BY <1>1
  <2> QED BY <1>0, <1>1, <2>1, <2>2 DEF Requeued
<1>6. /\ fate' = fate /\ thread'["repeat"] = thread["repeat"] /\ thread'["main"] = Receiving
  BY <1>0 DEF TypeOK, Requeue, Queues
<1>7. \A r \in Packets : ~Has("main", r)' /\ (Has("repeat", r)' <=> Has("repeat", r))
  BY <1>6 DEF Has, Receiving
<1> QED BY <1>0, <1>2, <1>3, <1>4, <1>5, <1>6, <1>7 DEF HeldOnce, Queues

\* A packet that the main loop or a worker takes from a thread stays with the thread.
LEMMA TakenOnce ==
  ASSUME IInv, HeldOnce, MainLoopTakes \/ \E w \in Workers : Pull(w)
  PROVE  HeldOnce'
<1>1. PICK q \in Queues :
        /\ thread[q].at = "offer"
        /\ thread' = [thread EXCEPT ![q] = [at |-> "wait", pkt |-> thread[q].pkt]]
  <2>1. "main" \in Queues /\ "repeat" \in Queues
    BY DEF Queues
  <2>2. CASE MainLoopTakes
    BY <2>1, <2>2 DEF MainLoopTakes
  <2>3. CASE \E w \in Workers : Pull(w)
    BY <2>1, <2>3 DEF Pull
  <2> QED BY <2>2, <2>3
<1>2. fate' = fate /\ repeatQ' = repeatQ /\ Requeued' = Requeued
  <2>1. fate' = fate /\ repeatQ' = repeatQ
    BY DEF MainLoopTakes, Pull
  <2> QED BY <2>1 DEF Requeued
<1>3. \A k \in Queues, p \in Packets : Has(k, p)' <=> Has(k, p)
  BY <1>1 DEF IInv, TypeOK, Has
<1> QED BY <1>2, <1>3 DEF HeldOnce, Queues

\* The other steps leave the queues alone.
LEMMA QueuesUnchanged ==
  ASSUME IInv, [Next]_vars
  PROVE  \/ UNCHANGED queues
         \/ \E p \in Packets : ReceiveMain(p)
         \/ ReceiveRepeat \/ MainLoopTakes \/ \E q \in Queues : OfferTimesOut(q)
         \/ \E w \in Workers : Requeue(w) \/ Pull(w) \/ SetVerdict(w)
<1>1. ASSUME NEW w \in Workers, TakePacket(w) \/ WorkerStep(w)
      PROVE  UNCHANGED queues \/ Requeue(w) \/ Pull(w) \/ SetVerdict(w)
  <2>1. Parse(w) \/ FindMatch(w) \/ AnswerStep(w) \/ ApplyDefaultAction(w) => UNCHANGED queues
    BY ThinkingSteps DEF Ponders
  <2>2. TakePacket(w) \/ CheckAsking(w) \/ SetAsking(w) \/ PullTimesOut(w) \/ Return(w) \/ Report(w)
          => UNCHANGED queues
    BY DEF TakePacket, CheckAsking, SetAsking, PullTimesOut, Return, Report
  <2> QED BY <1>1, <2>1, <2>2 DEF WorkerStep
<1>2. ASSUME \/ ConnectionChanges \/ UNCHANGED vars
             \/ \E c \in Conns, action \in Actions \cup {"none"} : RuleChanges(c, action)
      PROVE  UNCHANGED queues
  BY <1>2 DEF ConnectionChanges, RuleChanges, vars
<1> QED BY <1>1, <1>2 DEF Next, QueueStep

\* Every step keeps the packets in their places.
LEMMA HeldOnceStep == IInv /\ HeldOnce /\ [Next]_vars => HeldOnce'
<1> SUFFICES ASSUME IInv, HeldOnce, [Next]_vars PROVE HeldOnce'
  OBVIOUS
<1>1. CASE UNCHANGED queues
  BY <1>1 DEF queues, HeldOnce, Requeued, Has
<1> QED BY <1>1, QueuesUnchanged, ReceiveMainOnce, ReceiveRepeatOnce, OfferTimesOutOnce,
          TakenOnce, RequeueOnce, SetVerdictOnce

\* The worker that has the packet of the main thread, and has still to decide.
Decider(w) == Holds(w, "main") /\ work[w].pkt = thread["main"].pkt

\* The packet of the main thread, by its owners.
LEMMA MainInHandByOwner ==
  MainInHand <=> (thread["main"].at = "wait" =>
                    hand = thread["main"].pkt \/ \E w \in Workers : Decider(w))
  BY DEF MainInHand, Decider, Holds

\* A worker keeps the packet until it gives the verdict or requeues it.
LEMMA DeciderStays ==
  ASSUME IInv, NEW w \in Workers, Decider(w), NEW v \in Workers, WorkerStep(v) \/ TakePacket(v)
  PROVE  Decider(w)' \/ thread'["main"].at # "wait"
<1> USE DEF IInv, TypeOK, Decider, Holds
<1>1. CASE UNCHANGED queues /\ v # w
  <2>1. work'[w] = work[w]
    BY <1>1 DEF WorkerStep, AnswerStep, TakePacket, Parse, FindMatch, CheckAsking, SetAsking,
           Requeue, Pull, PullTimesOut, AskFails, AskAnswered, ApplyDefaultAction, SetVerdict,
           Return, Report, Becomes, Goto, Decide
  <2> QED BY <1>1, <2>1 DEF queues
<1>2. CASE v = w
  <2>1. ASSUME Ponders(w) PROVE Decider(w)'
    <3>1. PICK l \in {"match", "check", "default", "verdict"}, a \in Actions :
            work' = [work EXCEPT ![w] = [work[w] EXCEPT !.at = l, !.verdict = a]]
      BY <2>1 DEF Ponders, Becomes
    <3>2. thread' = thread
      BY <2>1 DEF Ponders, queues
    <3> QED BY <3>1, <3>2 DEF HoldingAt
  <2>2. ASSUME CheckAsking(w) \/ SetAsking(w) PROVE Decider(w)'
    <3>1. thread' = thread
      BY <2>2 DEF CheckAsking, SetAsking, queues
    <3>2. CASE CheckAsking(w)
      <4>1. PICK l \in {"default", "set"} : Goto(w, l)
        BY <3>2 DEF CheckAsking
      <4> QED BY <3>1, <4>1 DEF Goto, Becomes, HoldingAt
    <3>3. CASE SetAsking(w)
      BY <3>1, <3>3 DEF SetAsking, Becomes, HoldingAt
    <3> QED BY <2>2, <3>2, <3>3
  <2>3. Requeue(w) \/ SetVerdict(w) => thread'["main"].at # "wait"
    BY DEF Requeue, SetVerdict, Receiving, Queues
  <2>4. ~(TakePacket(w) \/ Pull(w) \/ PullTimesOut(w) \/ Return(w) \/ Report(w))
    BY DEF TakePacket, Pull, PullTimesOut, Return, Report, HoldingAt
  <2> QED BY <1>2, <2>1, <2>2, <2>3, <2>4, ThinkingSteps DEF WorkerStep
<1>3. CASE (Requeue(v) \/ Pull(v) \/ SetVerdict(v)) /\ v # w
  <2>1. work'[w] = work[w]
    BY <1>3 DEF Requeue, Pull, SetVerdict, Becomes, Goto
  <2>2. thread'["main"] = thread["main"] \/ thread'["main"] = Receiving
    BY <1>3 DEF Requeue, Pull, SetVerdict, Queues
  <2> QED BY <2>1, <2>2 DEF Receiving
<1>4. UNCHANGED queues \/ Requeue(v) \/ Pull(v) \/ SetVerdict(v)
  <2>1. [Next]_vars
    BY DEF Next
  <2>2. TakePacket(v) \/ CheckAsking(v) \/ SetAsking(v) \/ PullTimesOut(v) \/ Return(v) \/ Report(v)
          => UNCHANGED queues
    BY DEF TakePacket, CheckAsking, SetAsking, PullTimesOut, Return, Report
  <2>3. Parse(v) \/ FindMatch(v) \/ AnswerStep(v) \/ ApplyDefaultAction(v) => UNCHANGED queues
    BY ThinkingSteps DEF Ponders
  <2> QED BY <2>2, <2>3 DEF WorkerStep
<1> QED BY <1>1, <1>2, <1>3, <1>4

\* Every step leaves the packet of the main thread in hand.
LEMMA MainInHandStep == IInv /\ MainInHand /\ [Next]_vars => MainInHand'
<1> SUFFICES ASSUME IInv, MainInHand, [Next]_vars, thread'["main"].at = "wait"
             PROVE  MainInHand'
  BY DEF MainInHand
<1> USE MainInHandByOwner
<1>1. ASSUME NEW v \in Workers, WorkerStep(v) \/ TakePacket(v) PROVE MainInHand'
  <2>1. ASSUME NEW w \in Workers, Decider(w) PROVE MainInHand'
    BY <1>1, <2>1, DeciderStays DEF MainInHand, Decider, Holds
  <2>2. CASE TakePacket(v)
    <3>1. CASE thread["main"].at = "wait" /\ hand = thread["main"].pkt
      <4>1. work'[v] = [Idle EXCEPT !.at = "parse", !.con = hand, !.pkt = hand]
        BY <2>2 DEF IInv, TypeOK, TakePacket, Becomes
      <4>2. Decider(v)'
        BY <2>2, <3>1, <4>1 DEF Decider, Holds, HoldingAt, Idle, TakePacket, queues
      <4> QED BY <4>2 DEF MainInHand, Decider, Holds
    <3> QED BY <2>1, <2>2, <3>1 DEF TakePacket, queues
  <2>3. CASE WorkerStep(v)
    <3>1. hand' = hand
      BY <2>3, ThinkingSteps DEF WorkerStep, Ponders, CheckAsking, SetAsking, Requeue, Pull,
         PullTimesOut, SetVerdict, Return, Report
    <3>2. thread'["main"] = thread["main"] \/ thread'["main"] = Receiving
      <4>1. UNCHANGED queues \/ Requeue(v) \/ Pull(v) \/ SetVerdict(v)
        BY <2>3, ThinkingSteps DEF WorkerStep, Ponders, CheckAsking, SetAsking, PullTimesOut,
           Return, Report
      <4> QED BY <4>1 DEF IInv, TypeOK, queues, Requeue, Pull, SetVerdict, Queues
    <3>3. thread'["main"] = thread["main"]
      BY <3>2 DEF Receiving
    <3> QED BY <2>1, <3>1, <3>3 DEF MainInHand, Decider, Holds
  <2> QED BY <1>1, <2>2, <2>3
<1>2. CASE MainLoopTakes
  BY <1>2 DEF IInv, TypeOK, MainLoopTakes, MainInHand, Queues
<1>3. CASE \E p \in Packets : ReceiveMain(p)
  BY <1>3 DEF IInv, TypeOK, ReceiveMain, Queues
<1>4. CASE \/ ReceiveRepeat \/ \E q \in Queues : OfferTimesOut(q)
           \/ ConnectionChanges \/ UNCHANGED vars
           \/ \E c \in Conns, action \in Actions \cup {"none"} : RuleChanges(c, action)
  <2>1. hand' = hand /\ work' = work
    BY <1>4 DEF ReceiveRepeat, OfferTimesOut, ConnectionChanges, RuleChanges, vars
  <2>2. thread'["main"] = thread["main"] \/ thread'["main"] = Receiving
    BY <1>4 DEF IInv, TypeOK, ReceiveRepeat, OfferTimesOut, ConnectionChanges, RuleChanges,
       vars, queues, Queues
  <2>3. thread'["main"] = thread["main"]
    BY <2>2 DEF Receiving
  <2> QED BY <2>1, <2>3 DEF MainInHand
<1> QED BY <1>1, <1>2, <1>3, <1>4 DEF Next, QueueStep

\* No packet that the kernel holds is lost or in two places, and the one that the main
\* thread waits with is always somebody's (netfilter/queue.go go_callback, main.go:466).
THEOREM PacketsAreKept == Spec => []NoPacketIsLost
<1>1. Init => HeldOnce /\ MainInHand
  BY DEF Init, HeldOnce, MainInHand, Requeued, Has, Receiving, Queues
<1>2. IInv /\ HeldOnce /\ MainInHand /\ [Next]_vars => HeldOnce' /\ MainInHand'
  BY HeldOnceStep, MainInHandStep
<1> QED BY <1>1, <1>2, PipelineInvariant, PTL DEF Spec, NoPacketIsLost

\* A packet gets one verdict, whether from a timeout, a worker or a worker that pulled it
\* out of the repeat queue: what was accepted or dropped stays so.
THEOREM VerdictsAreFinal == Spec => VerdictIsFinal
<1>1. IInv /\ HeldOnce /\ [Next]_vars =>
        [\A p \in Packets : fate[p] \in {"accepted", "dropped"} => fate'[p] = fate[p]]_vars
  <2> SUFFICES ASSUME IInv, HeldOnce, [Next]_vars, NEW p \in Packets,
                      fate[p] \in {"accepted", "dropped"}
               PROVE  fate'[p] = fate[p]
    OBVIOUS
  <2>1. ~Has("main", p) /\ ~Has("repeat", p)
    BY DEF HeldOnce, Queues
  <2>2. ASSUME NEW r \in Packets, ReceiveMain(r) PROVE fate'[p] = fate[p]
    BY <2>2 DEF IInv, TypeOK, ReceiveMain
  <2>3. ASSUME NEW q \in Queues, OfferTimesOut(q) PROVE fate'[p] = fate[p]
    BY <2>1, <2>3 DEF IInv, TypeOK, OfferTimesOut, Has, Queues
  <2>4. ASSUME NEW w \in Workers, SetVerdict(w) PROVE fate'[p] = fate[p]
    <3>1. thread[work[w].queue] = [at |-> "wait", pkt |-> work[w].pkt] /\ work[w].queue \in Queues
      BY <2>4 DEF IInv, TypeOK, SetVerdict, Awaits
    <3>2. work[w].pkt # p
      BY <2>1, <3>1 DEF Has, Queues
    <3> QED BY <2>4, <3>2 DEF IInv, TypeOK, SetVerdict
  <2>5. CASE \/ UNCHANGED queues \/ ReceiveRepeat \/ MainLoopTakes
             \/ \E w \in Workers : Requeue(w) \/ Pull(w)
    BY <2>5 DEF queues, ReceiveRepeat, MainLoopTakes, Requeue, Pull
  <2> QED BY <2>2, <2>3, <2>4, <2>5, QueuesUnchanged
<1>2. Spec => []HeldOnce
  BY PacketsAreKept, PTL DEF NoPacketIsLost
<1> QED BY <1>1, <1>2, PipelineInvariant, PTL DEF Spec, VerdictIsFinal

-----------------------------------------------------------------------------
(* A worker comes to the end of its packet *)

\* A step of a worker takes it to a place that is nearer to the end.
LEMMA WorkerNears ==
  ASSUME TypeOK, NEW w \in Workers, WorkerStep(w)
  PROVE  StepsLeft[work'[w].at] < StepsLeft[work[w].at]
<1>1. \A l \in Positions : Goto(w, l) => work'[w].at = l
  BY DEF TypeOK, Goto, Becomes
<1>2. \A v : Decide(w, v) => work'[w].at = "verdict"
  BY DEF TypeOK, Decide, Becomes
<1>3. CASE Parse(w) \/ FindMatch(w) \/ ApplyDefaultAction(w)
  <2>1. work[w].at \in {"parse", "match", "default"}
    BY <1>3 DEF Parse, FindMatch, ApplyDefaultAction
  <2>2. \/ work'[w].at = "verdict"
        \/ work[w].at # "default" /\ work'[w].at = "default"
        \/ work[w].at = "parse" /\ work'[w].at = "match"
        \/ work[w].at = "match" /\ work'[w].at = "check"
    BY <1>1, <1>2, <1>3 DEF Parse, FindMatch, ApplyDefaultAction, Positions
  <2> QED BY <2>1, <2>2 DEF StepsLeft
<1>4. CASE AnswerStep(w)
  <2>1. work[w].at = "ask" /\ work'[w].at \in {"default", "verdict"}
    BY <1>1, <1>2, <1>4 DEF AnswerStep, AskFails, AskAnswered, Positions
  <2> QED BY <2>1 DEF StepsLeft
<1>5. CASE CheckAsking(w)
  <2>1. work[w].at = "check" /\ work'[w].at \in {"default", "set"}
    BY <1>1, <1>5 DEF CheckAsking, Positions
  <2> QED BY <2>1 DEF StepsLeft
<1>6. CASE SetAsking(w)
  <2>1. work[w].at = "set" /\ work'[w].at = "requeue"
    BY <1>6 DEF TypeOK, SetAsking, Becomes
  <2> QED BY <2>1 DEF StepsLeft
<1>7. CASE Requeue(w)
  <2>1. work[w].at = "requeue" /\ work'[w].at = "pull"
    BY <1>1, <1>7 DEF Requeue, Positions
  <2> QED BY <2>1 DEF StepsLeft
<1>8. CASE Pull(w) \/ PullTimesOut(w)
  <2> DEFINE Asks == [work[w] EXCEPT !.at = "ask", !.pkt = thread["repeat"].pkt,
                                     !.queue = "repeat"]
  <2>1. Becomes(w, Asks) => work'[w].at = "ask"
    BY DEF TypeOK, Becomes
  <2>2. work[w].at = "pull" /\ (Becomes(w, Asks) \/ Goto(w, "return"))
    BY <1>8 DEF Pull, PullTimesOut
  <2>3. work[w].at = "pull" /\ work'[w].at \in {"ask", "return"}
    BY <1>1, <2>1, <2>2 DEF Positions
  <2> QED BY <2>3 DEF StepsLeft
<1>9. CASE SetVerdict(w)
  <2>1. work[w].at = "verdict" /\ work'[w].at = "return"
    BY <1>1, <1>9 DEF SetVerdict, Positions
  <2> QED BY <2>1 DEF StepsLeft
<1>10. CASE Return(w) \/ Report(w)
  <2>1. \/ work[w].at = "return" /\ work'[w].at = "report"
        \/ work[w].at = "report" /\ work'[w].at = "idle"
    BY <1>10 DEF TypeOK, Return, Report, Becomes, Idle
  <2> QED BY <2>1 DEF StepsLeft
<1> QED BY <1>3, <1>4, <1>5, <1>6, <1>7, <1>8, <1>9, <1>10 DEF WorkerStep

\* A worker's record changes by its own steps only.
LEMMA OthersKeepAway ==
  ASSUME TypeOK, NEW v \in Workers, TakePacket(v) \/ WorkerStep(v), NEW w \in Workers, w # v
  PROVE  work'[w] = work[w]
  BY DEF TypeOK, TakePacket, WorkerStep, AnswerStep, Parse, FindMatch, CheckAsking, SetAsking,
     Requeue, Pull, PullTimesOut, AskFails, AskAnswered, ApplyDefaultAction, SetVerdict, Return,
     Report, Decide, Goto, Becomes

\* From TakePacket a worker is at most eleven of its steps from the next packet: what
\* onPacket and acceptOrDeny do has no loop, and nobody else sets a worker back (main.go:400, 443).
THEOREM HandlingIsBounded == Spec => WorkersAdvance
<1>1. TypeOK /\ [Next]_vars =>
        [\A w \in Workers :
           /\ WorkerStep(w) => StepsLeft[work'[w].at] < StepsLeft[work[w].at]
           /\ work'[w] = work[w] \/ TakePacket(w) \/ WorkerStep(w)]_vars
  <2> SUFFICES ASSUME TypeOK, Next, NEW w \in Workers
               PROVE  /\ WorkerStep(w) => StepsLeft[work'[w].at] < StepsLeft[work[w].at]
                      /\ work'[w] = work[w] \/ TakePacket(w) \/ WorkerStep(w)
    OBVIOUS
  <2>1. WorkerStep(w) => StepsLeft[work'[w].at] < StepsLeft[work[w].at]
    BY WorkerNears
  <2>2. CASE \E v \in Workers : TakePacket(v) \/ WorkerStep(v)
    BY <2>1, <2>2, OthersKeepAway
  <2>3. CASE \/ QueueStep \/ ConnectionChanges \/ \E p \in Packets : ReceiveMain(p)
             \/ \E c \in Conns, action \in Actions \cup {"none"} : RuleChanges(c, action)
    BY <2>1, <2>3 DEF QueueStep, ConnectionChanges, ReceiveMain, RuleChanges, ReceiveRepeat,
       MainLoopTakes, OfferTimesOut
  <2> QED BY <2>2, <2>3 DEF Next
<1> QED BY <1>1, TypeCorrect, PTL DEF Spec, WorkersAdvance
=============================================================================
