--------------------------- MODULE PacketPipeline ---------------------------
(***************************************************************************)
(* How a packet gets its verdict (daemon/main.go and daemon/netfilter).    *)
(*                                                                         *)
(* Each of the two netfilter queues has one thread.  It receives a packet, *)
(* offers it on an unbuffered channel for a millisecond and then blocks    *)
(* until a worker gives the verdict, so a queue has one packet in the air. *)
(* The main loop hands the packets of the main queue to the workers.  A    *)
(* worker that finds no rule for a connection asks the user, unless        *)
(* somebody is already asking.  So as not to block the main queue while    *)
(* the user thinks, it first requeues the packet to the second queue, the  *)
(* repeat queue, and pulls it out of there again.                          *)
(*                                                                         *)
(* A step is what a goroutine does up to the next point where another one  *)
(* matters: a rendezvous on a channel, or an access to the state they      *)
(* share.  What FindFirstMatch finds for a connection is `rules', which    *)
(* the user may change at any time; FindFirstMatch and RuleLoader model    *)
(* how.  "reject" is "deny" here: it also kills the socket.  The shutdown  *)
(* of the daemon, which closes the channels, is left out.                  *)
(***************************************************************************)
EXTENDS Naturals, Sequences

CONSTANTS
    Packets,             \* packets that the kernel will queue
    Conns,               \* connections
    ConOf,               \* the connection of each packet
    Bytes,               \* the bytes of each packet
    Workers,             \* the packet workers
    ConnectedAction,     \* default action while the GUI is connected
    DisconnectedAction,  \* default action while it is not
    NoPacket             \* nothing at hand

Queues == {"main", "repeat"}

Actions == {"allow", "deny"}

ASSUME PacketAssumption ==
    /\ NoPacket \notin Packets
    /\ ConOf \in [Packets -> Conns]
    /\ \A p, q \in Packets : Bytes[p] = Bytes[q] => ConOf[p] = ConOf[q]

ASSUME ActionAssumption == ConnectedAction \in Actions /\ DisconnectedAction \in Actions

VARIABLES
    fate,       \* per packet: not seen yet, held by the daemon, accepted or dropped
    repeatQ,    \* the packets in the kernel's repeat queue
    thread,     \* per queue: what its thread does, and with which packet
    hand,       \* the packet that the main loop offers to the workers
    work,       \* per worker: what it does, with which packet
    isAsking,   \* Client.isAsking
    connected,  \* whether the GUI is connected
    rules       \* the action of the rule for each connection, "none" without a rule

queues == <<fate, repeatQ, thread>>
shared == <<isAsking, connected, rules>>
vars == <<queues, hand, work, shared>>

-----------------------------------------------------------------------------
(* Helpers *)

Receiving == [at |-> "recv", pkt |-> NoPacket]

\* con: the packet the worker was given; pkt: the one it must give a verdict on, which
\* it got through `queue'; asking: it has the deferred SetIsAsking(false) to run.
Idle == [at |-> "idle", con |-> NoPacket, pkt |-> NoPacket, queue |-> "main",
         asking |-> FALSE, verdict |-> "deny"]

Becomes(w, r) == work' = [work EXCEPT ![w] = r]

Goto(w, l) == Becomes(w, [work[w] EXCEPT !.at = l])

Decide(w, action) == Becomes(w, [work[w] EXCEPT !.at = "verdict", !.verdict = action])

\* The thread of a queue waits for the verdict on a packet.
Awaits(q, p) == thread[q] = [at |-> "wait", pkt |-> p]

\* Mutant: nothing is configured for a GUI that is not connected.
DefaultActionUnset == IF connected THEN ConnectedAction ELSE "none"

\* Client.DefaultAction
DefaultAction == IF connected THEN ConnectedAction ELSE DisconnectedAction

Outcome(action) == IF action = "allow" THEN "accepted" ELSE "dropped"

-----------------------------------------------------------------------------
(* The threads of the queues, and the main loop *)

\* recv and nfq_handle_packet: go_callback offers the packet on the queue's channel.
ReceiveMain(p) ==
    /\ thread["main"] = Receiving /\ fate[p] = "new"
    /\ fate' = [fate EXCEPT ![p] = "held"]
    /\ thread' = [thread EXCEPT !["main"] = [at |-> "offer", pkt |-> p]]
    /\ UNCHANGED <<repeatQ, hand, work, shared>>

ReceiveRepeat ==
    /\ thread["repeat"] = Receiving /\ repeatQ # <<>>
    /\ repeatQ' = Tail(repeatQ)
    /\ thread' = [thread EXCEPT !["repeat"] = [at |-> "offer", pkt |-> Head(repeatQ)]]
    /\ UNCHANGED <<fate, hand, work, shared>>

\* Nobody took the packet within a millisecond: the verdict is still the NF_ACCEPT that
\* go_callback begins with.
OfferTimesOut(q) ==
    /\ thread[q].at = "offer"
    /\ fate' = [fate EXCEPT ![thread[q].pkt] = "accepted"]
    /\ thread' = [thread EXCEPT ![q] = Receiving]
    /\ UNCHANGED <<repeatQ, hand, work, shared>>

MainLoopTakes ==
    /\ thread["main"].at = "offer" /\ hand = NoPacket
    /\ hand' = thread["main"].pkt
    /\ thread' = [thread EXCEPT !["main"] = [at |-> "wait", pkt |-> thread["main"].pkt]]
    /\ UNCHANGED <<fate, repeatQ, work, shared>>

-----------------------------------------------------------------------------
(* The workers: onPacket *)

TakePacket(w) ==
    /\ work[w].at = "idle" /\ hand # NoPacket
    /\ Becomes(w, [Idle EXCEPT !.at = "parse", !.con = hand, !.pkt = hand])
    /\ hand' = NoPacket
    /\ UNCHANGED <<queues, shared>>

\* Mutant: a connection whose process is unknown gets no verdict.
ParseAndForget(w) ==
    /\ work[w].at = "parse"
    /\ \/ Decide(w, "allow") \/ Goto(w, "return") \/ Goto(w, "match")
    /\ UNCHANGED <<queues, hand, shared>>

\* A DNS answer or a connection of the daemon itself, a connection that conman.Parse
\* makes nothing of, or one to look up.
Parse(w) ==
    /\ work[w].at = "parse"
    /\ \/ Decide(w, "allow") \/ Goto(w, "default") \/ Goto(w, "match")
    /\ UNCHANGED <<queues, hand, shared>>

\* acceptOrDeny: FindFirstMatch, and Connected when there is no rule.
FindMatch(w) ==
    LET action == rules[ConOf[work[w].con]] IN
    /\ work[w].at = "match"
    /\ \/ action # "none" /\ Decide(w, action)
       \/ action = "none" /\ connected /\ Goto(w, "check")
       \/ action = "none" /\ ~connected /\ Goto(w, "default")
    /\ UNCHANGED <<queues, hand, shared>>

\* GetIsAsking, a critical section of its own.
CheckAsking(w) ==
    /\ work[w].at = "check"
    /\ IF isAsking THEN Goto(w, "default") ELSE Goto(w, "set")
    /\ UNCHANGED <<queues, hand, shared>>

\* SetIsAsking(true), another one.
SetAsking(w) ==
    /\ work[w].at = "set"
    /\ isAsking' = TRUE
    /\ Becomes(w, [work[w] EXCEPT !.at = "requeue", !.asking = TRUE])
    /\ UNCHANGED <<queues, hand, connected, rules>>

\* SetRequeueVerdict: the main thread goes on, the kernel has the packet again.
Requeue(w) ==
    /\ work[w].at = "requeue" /\ Awaits("main", work[w].pkt)
    /\ thread' = [thread EXCEPT !["main"] = Receiving]
    /\ repeatQ' = Append(repeatQ, work[w].pkt)
    /\ Goto(w, "pull")
    /\ UNCHANGED <<fate, hand, shared>>

\* Mutant: the packet that was pulled out is not compared with the one put in.
PullAnything(w) ==
    /\ work[w].at = "pull" /\ thread["repeat"].at = "offer"
    /\ thread' = [thread EXCEPT !["repeat"] = [at |-> "wait", pkt |-> thread["repeat"].pkt]]
    /\ Becomes(w, [work[w] EXCEPT !.at = "ask", !.pkt = thread["repeat"].pkt, !.queue = "repeat"])
    /\ UNCHANGED <<fate, repeatQ, hand, shared>>

\* Mutant: the verdict goes to the packet that was put in, not to the one pulled out.
PullAndKeepOld(w) ==
    /\ work[w].at = "pull" /\ thread["repeat"].at = "offer"
    /\ thread' = [thread EXCEPT !["repeat"] = [at |-> "wait", pkt |-> thread["repeat"].pkt]]
    /\ Goto(w, IF Bytes[thread["repeat"].pkt] = Bytes[work[w].pkt] THEN "ask" ELSE "return")
    /\ UNCHANGED <<fate, repeatQ, hand, shared>>

\* The packet pulled out has other bytes than the one put in: acceptOrDeny returns and
\* gives it no verdict.
Pull(w) ==
    LET p == thread["repeat"].pkt IN
    /\ work[w].at = "pull" /\ thread["repeat"].at = "offer"
    /\ thread' = [thread EXCEPT !["repeat"] = [at |-> "wait", pkt |-> thread["repeat"].pkt]]
    /\ IF Bytes[p] = Bytes[work[w].pkt]
       THEN Becomes(w, [work[w] EXCEPT !.at = "ask", !.pkt = p, !.queue = "repeat"])
       ELSE Goto(w, "return")
    /\ UNCHANGED <<fate, repeatQ, hand, shared>>

\* Nothing came out within a second.
PullTimesOut(w) ==
    /\ work[w].at = "pull"
    /\ Goto(w, "return")
    /\ UNCHANGED <<queues, hand, shared>>

\* Client.Ask: no answer within two minutes, or none that is a rule.
AskFails(w) ==
    /\ work[w].at = "ask"
    /\ Goto(w, "default")
    /\ UNCHANGED <<queues, hand, shared>>

\* Client.Ask and Loader.Add.  A rule that lasts once is not kept, and one that is
\* disabled leaves the packet to the default action.
AskAnswered(w, action, enabled, kept) ==
    /\ work[w].at = "ask"
    /\ rules' = IF enabled /\ kept THEN [rules EXCEPT ![ConOf[work[w].con]] = action] ELSE rules
    /\ IF enabled THEN Decide(w, action) ELSE Goto(w, "default")
    /\ UNCHANGED <<queues, hand, isAsking, connected>>

\* applyDefaultAction.  It reads DefaultAction again only to tell deny from reject.
ApplyDefaultAction(w) ==
    /\ work[w].at = "default"
    /\ Decide(w, DefaultAction)
    /\ UNCHANGED <<queues, hand, shared>>

\* SetVerdict, once the thread that brought the packet listens: it blocks otherwise.
SetVerdict(w) ==
    LET q == work[w].queue
        p == work[w].pkt
    IN
    /\ work[w].at = "verdict" /\ Awaits(q, p)
    /\ fate' = [fate EXCEPT ![p] = Outcome(work[w].verdict)]
    /\ thread' = [thread EXCEPT ![q] = Receiving]
    /\ Goto(w, "return")
    /\ UNCHANGED <<repeatQ, hand, shared>>

\* Mutant: every worker resets the flag when acceptOrDeny returns.
ReturnAndReset(w) ==
    /\ work[w].at = "return"
    /\ isAsking' = FALSE
    /\ Becomes(w, [Idle EXCEPT !.at = "report"])
    /\ UNCHANGED <<queues, hand, connected, rules>>

\* Mutant: SetIsAsking(false) is not deferred.
ReturnStillAsking(w) ==
    /\ work[w].at = "return"
    /\ Becomes(w, [Idle EXCEPT !.at = "report"])
    /\ UNCHANGED <<queues, hand, shared>>

\* acceptOrDeny returns: the deferred SetIsAsking(false), if it was reached.
Return(w) ==
    /\ work[w].at = "return"
    /\ isAsking' = (isAsking /\ ~work[w].asking)
    /\ Becomes(w, [Idle EXCEPT !.at = "report"])
    /\ UNCHANGED <<queues, hand, connected, rules>>

\* OnConnectionEvent or OnDNSResponse, which wait for the statistics.
Report(w) ==
    /\ work[w].at = "report"
    /\ Becomes(w, Idle)
    /\ UNCHANGED <<queues, hand, shared>>

-----------------------------------------------------------------------------
(* The GUI connects and disconnects; rules come, change and expire *)

ConnectionChanges ==
    /\ connected' = ~connected
    /\ UNCHANGED <<queues, hand, work, isAsking, rules>>

RuleChanges(c, action) ==
    /\ rules' = [rules EXCEPT ![c] = action]
    /\ UNCHANGED <<queues, hand, work, isAsking, connected>>

-----------------------------------------------------------------------------

Init ==
    /\ fate = [p \in Packets |-> "new"]
    /\ repeatQ = <<>>
    /\ thread = [q \in Queues |-> Receiving]
    /\ hand = NoPacket
    /\ work = [w \in Workers |-> Idle]
    /\ isAsking = FALSE /\ connected \in BOOLEAN
    /\ rules = [c \in Conns |-> "none"]

AnswerStep(w) ==
    \/ AskFails(w)
    \/ \E action \in Actions, enabled, kept \in BOOLEAN : AskAnswered(w, action, enabled, kept)

WorkerStep(w) ==
    \/ Parse(w) \/ FindMatch(w) \/ CheckAsking(w) \/ SetAsking(w) \/ Requeue(w)
    \/ Pull(w) \/ PullTimesOut(w) \/ AnswerStep(w) \/ ApplyDefaultAction(w)
    \/ SetVerdict(w) \/ Return(w) \/ Report(w)

QueueStep == ReceiveRepeat \/ MainLoopTakes \/ \E q \in Queues : OfferTimesOut(q)

Next ==
    \/ \E p \in Packets : ReceiveMain(p)
    \/ QueueStep
    \/ \E w \in Workers : TakePacket(w) \/ WorkerStep(w)
    \/ ConnectionChanges
    \/ \E c \in Conns, action \in Actions \cup {"none"} : RuleChanges(c, action)

Spec == Init /\ [][Next]_vars

\* Goroutines and the threads of the queues are scheduled, and the two waits of a worker
\* that asks end by a timeout.
Fairness ==
    /\ WF_vars(QueueStep)
    /\ WF_vars(\E w \in Workers : TakePacket(w))
    /\ \A w \in Workers : WF_vars(WorkerStep(w))

FairSpec == Spec /\ Fairness

-----------------------------------------------------------------------------
(* Properties *)

\* Every variable has its type.
TypeOK ==
    /\ fate \in [Packets -> {"new", "held", "accepted", "dropped"}]
    /\ repeatQ \in Seq(Packets)
    /\ thread \in [Queues -> [at : {"recv", "offer", "wait"}, pkt : Packets \cup {NoPacket}]]
    /\ hand \in Packets \cup {NoPacket}
    /\ work \in [Workers -> [at : {"idle", "parse", "match", "check", "set", "requeue", "pull",
                                   "ask", "default", "verdict", "return", "report"},
                             con : Packets \cup {NoPacket}, pkt : Packets \cup {NoPacket},
                             queue : Queues, asking : BOOLEAN, verdict : Actions]]
    /\ isAsking \in BOOLEAN /\ connected \in BOOLEAN
    /\ rules \in [Conns -> Actions \cup {"none"}]

\* Where a worker owes a verdict, and where it has seen that nobody asks until it returns.
HoldingAt == {"parse", "match", "check", "set", "requeue", "ask", "default", "verdict"}

AskingAt == {"set", "requeue", "pull", "ask"}

\* The user has one question to answer at a time.  GetIsAsking and SetIsAsking are two
\* critical sections, and what keeps a second worker from slipping in between is only
\* that the main queue delivers no packet before the verdict on the last one.
OneAsker ==
    \A v, w \in Workers : work[v].at \in AskingAt /\ work[w].at \in AskingAt => v = w

\* A worker never blocks on the verdict it is going to give: from the moment it has the
\* packet, the thread that brought the packet waits for it, so no packet gets two
\* verdicts and none gets one that nobody hears.
VerdictIsAwaited ==
    \A w \in Workers : work[w].at \in HoldingAt => Awaits(work[w].queue, work[w].pkt)

\* What the user or a rule says about a connection is applied to a packet of this
\* connection, also after a timeout has left an older packet in the repeat queue.
VerdictIsForItsConnection ==
    \A w \in Workers : work[w].at \in {"ask", "default", "verdict"} =>
                         ConOf[work[w].pkt] = ConOf[work[w].con]

\* A thread has brought a packet out of its queue and has no verdict on it yet.
Has(q, p) == thread[q].at # "recv" /\ thread[q].pkt = p

Requeued == {repeatQ[i] : i \in DOMAIN repeatQ}

\* The daemon owes a verdict to the packets that the kernel holds for it, and each of them
\* is in one place: with one of the threads, or once in the repeat queue.
HeldOnce ==
    /\ \A p \in Packets :
         /\ fate[p] = "held" <=> p \in Requeued \/ \E q \in Queues : Has(q, p)
         /\ p \in Requeued => ~Has("main", p) /\ ~Has("repeat", p)
         /\ Has("main", p) => ~Has("repeat", p)
    /\ \A i, j \in DOMAIN repeatQ : repeatQ[i] = repeatQ[j] => i = j

\* The packet that the main thread waits with is in the hands of the main loop, or of a
\* worker that has still to decide about it.
MainInHand ==
    thread["main"].at = "wait" =>
      \/ hand = thread["main"].pkt
      \/ \E w \in Workers : /\ work[w].at \in HoldingAt /\ work[w].queue = "main"
                            /\ work[w].pkt = thread["main"].pkt

\* No packet is lost and none is there twice, on its way through two queues, the main loop
\* and the workers.  There is no MainInHand of the repeat queue: a packet that is pulled
\* out of it in the place of another is nobody's.
NoPacketIsLost == HeldOnce /\ MainInHand

\* A packet gets one verdict: what was accepted or dropped stays so.
VerdictIsFinal ==
    [][\A p \in Packets : fate[p] \in {"accepted", "dropped"} => fate'[p] = fate[p]]_vars

\* How many steps a worker has before it at most, by what it does.
StepsLeft ==
    [at \in {"idle", "parse", "match", "check", "set", "requeue", "pull", "ask", "default",
             "verdict", "return", "report"} |->
      CASE at = "parse"  -> 11 [] at = "match"   -> 10 [] at = "check"   -> 9
        [] at = "set"    -> 8  [] at = "requeue" -> 7  [] at = "pull"    -> 6
        [] at = "ask"    -> 5  [] at = "default" -> 4  [] at = "verdict" -> 3
        [] at = "return" -> 2  [] at = "report"  -> 1  [] at = "idle"    -> 0]

\* A worker goes through onPacket in a bounded number of steps of its own, whatever the
\* others do: it asks once, never begins again with its packet, and nobody else sets it back.
WorkersAdvance ==
    [][\A w \in Workers :
         /\ WorkerStep(w) => StepsLeft[work'[w].at] < StepsLeft[work[w].at]
         /\ work'[w] = work[w] \/ TakePacket(w) \/ WorkerStep(w)]_vars

\* The main queue does not stall: whatever the workers meet, the GUI that comes and goes
\* or the user who does not answer, a packet of the main queue gets a verdict.
MainQueueAdvances == thread["main"].at = "wait" ~> thread["main"].at = "recv"

\* The question ends, so that the user can be asked about other connections.
AskingEnds == isAsking ~> ~isAsking

\* "While the GUI is connected, deny by default everything until the user takes an
\* action" (ui/client.go:32): with the GUI connected a packet is accepted by the verdict
\* of a worker only.
DeniedUntilUserActs ==
    [][\A p \in Packets :
         connected /\ fate[p] = "held" /\ fate'[p] = "accepted" =>
           \E w \in Workers : work[w].at = "verdict" /\ work[w].pkt = p]_vars
=============================================================================
