------------------------------- MODULE Delivery -------------------------------
(***************************************************************************)
(* The delivery queue of one session                                       *)
(* (core/crates/aeroric-core/src/sessions/live/delivery/mod.rs): what      *)
(* waits to be sent into the session, who is sending what, and what is     *)
(* known of each message.  Nothing in the queue spans two sessions.        *)
(*                                                                         *)
(* `pump` holds no lock from its first line to its last.  It reads whether *)
(* the session is idle; picks an item under the store's lock; moves it to  *)
(* "sending" under the same lock taken again; notes it as in hand; and     *)
(* leaves the call of DeliveryHost::send to a thread of its own.  Each of  *)
(* these is a step here.  A job is one thread that is inside the queue's   *)
(* code: the driver's, which reports what the agent did, or a caller's (a  *)
(* request, a sender that came back, a timeout).                           *)
(***************************************************************************)
EXTENDS DeliveryItem, FiniteSets

CONSTANTS Items,      \* the messages
          Callers,    \* threads in the queue's code beside the driver's (bound)
          Driver,     \* the session driver's thread
          SameText,   \* does what the lookup searches for, a message's first 120
                      \* characters, occur in every other message?
          Setups      \* the instances: which driver the session has, which of
                      \* FeatureSet is exercised, and the bounds: messages, times
                      \* the user has each sent again, failed writes, host deaths

FeatureSet == Classes \cup {"stop", "close", "resume", "resend", "discard", "fails",
                            "rejects", "errors", "blocks", "quiet", "unreadable"}

ASSUME DeliveryAssumption ==
    /\ IsFiniteSet(Items) /\ IsFiniteSet(Callers) /\ Driver \notin Callers
    /\ SameText \in BOOLEAN
    /\ Setups \subseteq [agent : {"codex", "claude", "omp"}, features : SUBSET FeatureSet,
                         messages : Nat, asks : Nat, faults : Nat, crashes : Nat]

VARIABLES setup,      \* the instance, chosen at the start
          items,      \* the store in memory
          disk,       \* delivery.db
          jobs,       \* what each thread is in the middle of
          senders,    \* threads in or just out of DeliveryHost::send
          inHand,     \* in_hand
          diedInHand, \* died_in_hand
          noReceipt,  \* no_receipt
          held,       \* messages the driver holds
          turn,       \* "none", "begun": running, not announced yet; "running",
                      \* or "ending": over, not yet cleared
          owed,       \* outstanding: turns that Claude still owes
          session,    \* "open": its driver is registered; "closing": it is winding
                      \* up; or "none"
          handoff,    \* the next run of the session is to start with a handoff
          phase,      \* "up", "down", or "boot": the queue is being reopened
          copies,     \* history: how often each message reached the agent
          asks,       \* history: how often the user had it sent again
          faults, crashes

queueVars == <<inHand, diedInHand, noReceipt>>
storeVars == <<items, disk, faults>>
agentVars == <<held, turn, owed, session, copies>>
hostVars == <<handoff, phase, crashes, asks, setup>>
vars == <<storeVars, jobs, senders, queueVars, agentVars, hostVars>>

Threads == Callers \cup {Driver}

Agent == setup.agent
Features == setup.features

(* item: what the thread is at; todo: what it still has to lose; after:    *)
(* what follows the pump it is in - the status "settled" or "failed" that  *)
(* the driver reports next, or the pump that ends a report.                *)
Job == [pc : {"off", "recheck", "settled", "failed", "lose", "look", "idle", "pick",
              "send", "hand"},
        item : SUBSET Items, try : Nat, idle : BOOLEAN,
        todo : SUBSET Items, after : {"none", "settled", "failed", "pump"}]

Off == [pc |-> "off", item |-> {}, try |-> 0, idle |-> FALSE, todo |-> {},
        after |-> "none"]

Pumping == [Off EXCEPT !.pc = "idle"]

PumpingThen(status) == [Pumping EXCEPT !.after = status]

Losing(T, after) == [Off EXCEPT !.pc = "lose", !.todo = T, !.after = after]

(* "call": inside send; "ok", "quiet", "err": it returned Ok(true),         *)
(* Ok(false), Err; "lost", "took", "fail": what is left to record.         *)
Sender == [item : Items, try : Nat,
           pc : {"call", "ok", "quiet", "err", "lost", "took", "fail"}]

(* queued with the driver; written to the agent's input; read by the agent, *)
(* or by omp as a steer.  named: the driver gives receipts for it, which it *)
(* does not for the prompt a run starts with.                               *)
Held == [item : Items, try : Nat, named : BOOLEAN,
         stage : {"queued", "written", "read", "steered"}]

TypeOK ==
    /\ items \in [Items -> Delivery] /\ disk \in [Items -> Delivery]
    /\ jobs \in [Threads -> Job]
    /\ senders \subseteq Sender
    /\ inHand \subseteq Items /\ diedInHand \subseteq Items /\ noReceipt \subseteq Items
    /\ held \subseteq Held
    /\ turn \in {"none", "begun", "running", "ending"} /\ owed \in Nat
    /\ session \in {"none", "open", "closing"}
    /\ handoff \in BOOLEAN /\ phase \in {"up", "down", "boot"}
    /\ copies \in [Items -> Nat] /\ asks \in [Items -> Nat]
    /\ faults \in Nat /\ crashes \in Nat

Init ==
    /\ setup \in Setups
    /\ items = [i \in Items |-> AbsentDelivery] /\ disk = items
    /\ jobs = [th \in Threads |-> Off]
    /\ senders = {}
    /\ inHand = {} /\ diedInHand = {} /\ noReceipt = {}
    /\ held = {}
    /\ turn \in {"none", "running"}   \* the prompt a run starts with is not queued
    /\ owed = IF Agent = "claude" /\ turn = "running" THEN 1 ELSE 0
    /\ handoff = ("quiet" \in Features)
    /\ session \in IF turn = "running" THEN {"open"} ELSE {"none", "open"}
    /\ handoff => session = "none"
    /\ phase = "up"
    /\ copies = [i \in Items |-> 0] /\ asks = [i \in Items |-> 0]
    /\ faults = 0 /\ crashes = 0

-------------------------------------------------------------------------------
(* The store. *)

(* save, for every item that changed: memory moves, the row on disk may not. *)
Save(new) ==
    /\ items' = new
    /\ \/ /\ disk' = [i \in Items |-> IF new[i] # items[i] THEN new[i] ELSE disk[i]]
          /\ faults' = faults
       \/ /\ new # items /\ faults < setup.faults
          /\ disk' = disk
          /\ faults' = faults + 1

(* change *)
Change(i, e) == Save([items EXCEPT ![i] = Step(@, e)])

InState(s) == {i \in Items : items[i].state = s}

Out == InState("sending") \cup InState("accepted")

Do(th, job) == jobs' = [jobs EXCEPT ![th] = job]

Free(th) == jobs[th] = Off

(* A pump, or the loss of one message, is over. *)
Returned(job) ==
    IF job.todo # {} THEN Losing(job.todo, job.after)
    ELSE CASE job.after = "none" -> Off
           [] job.after = "pump" -> Pumping
           [] OTHER -> [Off EXCEPT !.pc = job.after]

-------------------------------------------------------------------------------
(* pump *)

(* idle: no turn is running, or no driver is registered. *)
Idle == turn = "none" \/ session # "open"

ReadIdle(th) ==
    /\ jobs[th].pc = "idle"
    /\ Do(th, [jobs[th] EXCEPT !.pc = "pick", !.idle = Idle])
    /\ UNCHANGED <<storeVars, senders, queueVars, agentVars, hostVars>>

(* May item i go, given what was read of the session? *)
MayGo(i, idle) == items[i].state = "waiting" /\ (idle \/ items[i].class = "steer")

(* The oldest item that may go, unless one is out already. *)
NextUp(idle) ==
    {i \in Items : /\ InState("sending") = {}
                   /\ MayGo(i, idle)
                   /\ \A j \in Items : MayGo(j, idle) => items[i].at <= items[j].at}

Pick(th) ==
    LET next == NextUp(jobs[th].idle)
    IN  /\ jobs[th].pc = "pick"
        /\ Do(th, IF next = {} THEN Returned(jobs[th])
                  ELSE [jobs[th] EXCEPT !.pc = "send", !.item = next])
        /\ UNCHANGED <<storeVars, senders, queueVars, agentVars, hostVars>>

(* change(Send), which also sets the watch on this attempt. *)
Send(th) ==
    /\ jobs[th].pc = "send"
    /\ \E i \in jobs[th].item :
        /\ Change(i, "send")
        /\ Do(th, IF Applies(items[i], "send")
                  THEN [jobs[th] EXCEPT !.pc = "hand", !.try = items[i].tries + 1]
                  ELSE Returned(jobs[th]))
    /\ UNCHANGED <<senders, queueVars, agentVars, hostVars>>

(* The item is in hand and its sender is on its way. *)
HandOver(th) ==
    /\ jobs[th].pc = "hand"
    /\ inHand' = inHand \cup jobs[th].item
    /\ senders' = senders \cup
            {[item |-> i, try |-> jobs[th].try, pc |-> "call"] : i \in jobs[th].item}
    /\ Do(th, Returned(jobs[th]))
    /\ UNCHANGED <<storeVars, diedInHand, noReceipt, agentVars, hostVars>>

PumpStep(th) == ReadIdle(th) \/ Pick(th) \/ Send(th) \/ HandOver(th)

-------------------------------------------------------------------------------
(* The sender's thread. *)

Becomes(s, pc) == senders' = (senders \ {s}) \cup {[s EXCEPT !.pc = pc]}

(* Does the message start a run together with a handoff?  The handoff is    *)
(* used up whether or not the run starts, and no receipt will come.         *)
Quiet(s) == handoff /\ session = "none" /\ items[s.item].class # "internal"

(* DeliveryHost::send gives the message to the driver, which it may have to *)
(* start.  A command that comes after Close is taken by nobody; the next    *)
(* driver is started when the one that is winding up is gone.               *)
SendReaches(s) ==
    /\ phase # "down" /\ s.pc = "call"
    /\ Becomes(s, IF Quiet(s) THEN "quiet" ELSE "ok")
    /\ handoff' = (handoff /\ ~Quiet(s))
    /\ \/ /\ session = "closing"
          /\ UNCHANGED <<held, session>>
       \/ /\ session # "closing"
          /\ held' = held \cup {[item |-> s.item, try |-> s.try, named |-> ~Quiet(s),
                                 stage |-> "queued"]}
          /\ session' = "open"
    /\ UNCHANGED <<storeVars, jobs, queueVars, turn, owed, copies, phase, crashes, asks, setup>>

SendErrs(s) ==
    /\ "errors" \in Features
    /\ s.pc = "call"
    /\ Becomes(s, "err")
    /\ handoff' = (handoff /\ ~Quiet(s))
    /\ UNCHANGED <<storeVars, jobs, queueVars, agentVars, phase, crashes, asks, setup>>

(* Faulty variant: a session that died meanwhile is not taken into account. *)
SendBack_IgnoresDeath(s) ==
    LET left == CASE s.pc = "err" -> {"fail"}
                  [] s.pc = "quiet" -> {"took"}
                  [] OTHER -> {}
    IN  /\ s.pc \in {"ok", "quiet", "err"}
        /\ inHand' = inHand \ {s.item}
        /\ diedInHand' = diedInHand \ {s.item}
        /\ senders' = (senders \ {s}) \cup {[s EXCEPT !.pc = pc] : pc \in left}
        /\ UNCHANGED <<storeVars, jobs, noReceipt, agentVars, hostVars>>

(* It returned: out of hand, and was its session reported dead meanwhile? *)
SendBack(s) ==
    LET left == CASE s.pc = "err" -> {"fail"}
                  [] s.pc # "err" /\ s.item \in diedInHand -> {"lost"}
                  [] s.pc = "quiet" /\ s.item \notin diedInHand -> {"took"}
                  [] OTHER -> {}
    IN  /\ s.pc \in {"ok", "quiet", "err"}
        /\ inHand' = inHand \ {s.item}
        /\ diedInHand' = diedInHand \ {s.item}
        /\ senders' = (senders \ {s}) \cup {[s EXCEPT !.pc = pc] : pc \in left}
        /\ UNCHANGED <<storeVars, jobs, noReceipt, agentVars, hostVars>>

SendSettles(s, c) ==
    /\ Free(c)
    /\ senders' = senders \ {s}
    /\ \/ /\ s.pc = "lost"
          /\ Do(c, Losing({s.item}, "none"))
          /\ UNCHANGED <<storeVars, noReceipt>>
       \/ /\ s.pc = "took"
          /\ noReceipt' = noReceipt \cup {s.item}
          /\ Change(s.item, "accepted")
          /\ Do(c, Pumping)
       \/ /\ s.pc = "fail"
          /\ \/ Change(s.item, "failed")
             \/ "blocks" \in Features /\ Change(s.item, "blocked")
          /\ noReceipt' = noReceipt
          /\ Do(c, Pumping)
    /\ UNCHANGED <<inHand, diedInHand, agentVars, hostVars>>

-------------------------------------------------------------------------------
(* Answers that do not come. *)

(* Faulty variant: the timeout is meant for messages the transport took. *)
Timeout_OfAccepted(i, c) ==
    /\ items[i].state = "accepted"
    /\ Free(c)
    /\ \A d \in Callers : i \notin jobs[d].todo
    /\ Do(c, Losing({i}, "none"))
    /\ UNCHANGED <<storeVars, senders, queueVars, agentVars, hostVars>>

(* watch: the timeout of the attempt that is out.  A watch set for an      *)
(* earlier attempt sees another attempt number and does nothing, so the    *)
(* one that can act is the one of the attempt that is out now.             *)
Timeout(i, c) ==
    /\ items[i].state = "sending"
    /\ Free(c)
    /\ \A d \in Callers : i \notin jobs[d].todo
    /\ Do(c, Losing({i}, "none"))
    /\ UNCHANGED <<storeVars, senders, queueVars, agentVars, hostVars>>

(* Faulty variant: what a dead session had in flight is said to have failed. *)
Lose_SaysFailed(th) ==
    LET job == jobs[th]
    IN  /\ job.pc = "lose"
        /\ \E i \in job.todo :
            /\ Change(i, "failed")
            /\ Do(th, [job EXCEPT !.pc = "idle", !.todo = @ \ {i}])
        /\ UNCHANGED <<senders, queueVars, agentVars, hostVars>>

(* Faulty variant: the queue moves on without looking for the message. *)
Lose_WithoutLookup(th) ==
    LET job == jobs[th]
    IN  /\ job.pc = "lose"
        /\ \E i \in job.todo :
            /\ Change(i, "lost")
            /\ Do(th, [job EXCEPT !.pc = "idle", !.todo = @ \ {i}])
        /\ UNCHANGED <<senders, queueVars, agentVars, hostVars>>

(* lose, and its place in the loop of session_failed. *)
Lose(th) ==
    LET job == jobs[th]
    IN  /\ job.pc = "lose"
        /\ \E i \in job.todo :
            /\ noReceipt' = IF job.after = "pump" THEN noReceipt \ {i} ELSE noReceipt
            /\ Change(i, "lost")
            /\ Do(th, IF Applies(items[i], "lost")
                      THEN [job EXCEPT !.pc = "look", !.item = {i}, !.todo = @ \ {i}]
                      ELSE Returned([job EXCEPT !.todo = @ \ {i}]))
        /\ UNCHANGED <<senders, inHand, diedInHand, agentVars, hostVars>>

(* recorded_in: does a user message in the agent's record contain the      *)
(* beginning of this one?  The record may also be unreadable.              *)
InRecord(i) == \E j \in Items : copies[j] > 0 /\ (j = i \/ SameText)

Lookup(i) ==
    \/ Change(i, IF InRecord(i) THEN "recorded" ELSE "unrecorded")
    \/ "unreadable" \in Features /\ Change(i, "unreadable")

(* check_record after a loss; the pump follows. *)
Look(th) ==
    /\ jobs[th].pc = "look"
    /\ \E i \in jobs[th].item : Lookup(i)
    /\ Do(th, [jobs[th] EXCEPT !.pc = "idle", !.item = {}])
    /\ UNCHANGED <<senders, queueVars, agentVars, hostVars>>

(* status: a turn that ended without a failure.  Codex clears its running  *)
(* turn only now, after the pump of its turnEnded.                         *)
Settled(th) ==
    /\ jobs[th].pc = "settled"
    /\ turn' = IF turn = "ending" THEN "none" ELSE turn
    /\ Do(th, Pumping)
    /\ UNCHANGED <<storeVars, senders, queueVars, held, owed, session, copies, hostVars>>

(* status: a failure.  session_failed takes what is out, leaves a message  *)
(* in hand to its own send, loses the others; then the pump.               *)
Failed(th) ==
    /\ jobs[th].pc = "failed"
    /\ turn' = IF turn = "ending" THEN "none" ELSE turn
    /\ diedInHand' = diedInHand \cup (Out \cap inHand)
    /\ Do(th, Returned([Off EXCEPT !.after = "pump",
                          !.todo = {i \in Out : i \notin inHand \/ i \in diedInHand}]))
    /\ UNCHANGED <<storeVars, senders, inHand, noReceipt, held, owed, session, copies, hostVars>>

JobStep(th) == PumpStep(th) \/ Lose(th) \/ Look(th) \/ Settled(th) \/ Failed(th)

-------------------------------------------------------------------------------
(* What the user and the rest of the host ask for. *)

Serving(c) == phase = "up" /\ Free(c)

(* next_created: after the last of those that are there. *)
AtEnd == {items[j].at + 1 : j \in {x \in Items : \A y \in Items : items[y].at <= items[x].at}}

(* enqueue: a failed message gets one more try, the new one goes to the end. *)
Enqueue(c, i, class) ==
    /\ Serving(c) /\ class \in Features
    /\ items[i].state = "absent"
    /\ Cardinality(Items \ InState("absent")) < setup.messages
    /\ \E at \in AtEnd :
         Save([[j \in Items |-> Step(items[j], "retry")] EXCEPT
                 ![i] = [AbsentDelivery EXCEPT !.state = "waiting", !.class = class,
                                               !.at = at]])
    /\ Do(c, Pumping)
    /\ UNCHANGED <<senders, queueVars, agentVars, hostVars>>

(* pause, the stop barrier. *)
Pause == Save([i \in Items |-> Step(items[i], "stop")])

Stop ==
    /\ phase = "up" /\ "stop" \in Features
    /\ Pause
    /\ UNCHANGED <<jobs, senders, queueVars, agentVars, hostVars>>

(* A cancel pauses the queue and takes the session's driver out of the     *)
(* registry; the status it reports pumps.                                  *)
Cancel(c) ==
    /\ Serving(c) /\ "close" \in Features /\ session = "open"
    /\ Pause
    /\ session' = "closing"
    /\ Do(c, Pumping)
    /\ UNCHANGED <<senders, queueVars, held, turn, owed, copies, hostVars>>

(* complete, reset and session.close do neither. *)
CloseSession ==
    /\ phase = "up" /\ "close" \in Features /\ session = "open"
    /\ session' = "closing"
    /\ UNCHANGED <<storeVars, jobs, senders, queueVars, held, turn, owed, copies, hostVars>>

(* act: resume, discard or resend one message. *)
Act(c, i, e) ==
    LET again == e # "discard"
    IN  /\ Serving(c) /\ e \in Features \cap {"resume", "discard", "resend"}
        /\ Applies(items[i], e)
        /\ again => asks[i] < setup.asks
        /\ Change(i, e)
        /\ asks' = IF again THEN [asks EXCEPT ![i] = @ + 1] ELSE asks
        /\ Do(c, IF again THEN Pumping ELSE Off)
        /\ UNCHANGED <<senders, queueVars, agentVars, handoff, phase, crashes, setup>>

Request ==
    \/ \E c \in Callers, i \in Items :
        \/ \E class \in Classes : Enqueue(c, i, class)
        \/ \E e \in {"resume", "discard", "resend"} : Act(c, i, e)
    \/ \E c \in Callers : Cancel(c)
    \/ Stop \/ CloseSession

-------------------------------------------------------------------------------
(* The driver, one thread that takes commands and what its agent says, and  *)
(* the agent.  Codex and omp answer a command and the thread waits for it;  *)
(* Claude's input is written and its echo comes when it comes.              *)

Waits == Agent # "claude"

DriverFree == phase = "up" /\ Free(Driver)

Asked == {h \in held : h.stage \in {"read", "steered"}}

(* After a turn of Claude's, the next one it owes begins before all else. *)
NextTurnDue == Agent = "claude" /\ turn = "none" /\ owed > 0

DriverTakes == DriverFree /\ ~NextTurnDue /\ (Waits => Asked = {})

(* A command can be the next; the prompt a run starts with comes first. *)
Ready(h) ==
    /\ DriverTakes /\ h.stage = "queued"
    /\ \A g \in held : g.stage = "queued" /\ ~g.named => g = h

Moves(h, stage) == held' = (held \ {h}) \cup {[h EXCEPT !.stage = stage]}

(* The driver's receipt for the message, and the pump it causes. *)
Receipt(d, h, e) == IF h.named THEN Step(d, e) ELSE d

Receipted(h, status) == IF h.named THEN PumpingThen(status)
                        ELSE Returned(PumpingThen(status))

Arrives(i) == copies' = [copies EXCEPT ![i] = @ + 1]

(* TurnStarted proves the messages accepted without a receipt to come. *)
Proved == InState("accepted") \cap noReceipt

Announced == [i \in Items |-> IF i \in Proved THEN Step(items[i], "turn_started") ELSE items[i]]

(* What TurnStarted leaves of the messages, in a step that begins a turn if *)
(* none is running.                                                         *)
AfterBeginTurn == IF turn = "none" THEN Announced ELSE items

BeginTurn ==
    /\ turn' = "running"
    /\ noReceipt' = IF turn = "none" THEN noReceipt \ Proved ELSE noReceipt

(* Claude: the message is written to its input, and that is all we know. *)
Writes(h) ==
    /\ Agent = "claude"
    /\ Ready(h)
    /\ Moves(h, "written")
    /\ Save([AfterBeginTurn EXCEPT ![h.item] = Receipt(@, h, "accepted")])
    /\ BeginTurn
    /\ owed' = owed + 1
    /\ UNCHANGED <<jobs, senders, inHand, diedInHand, session, copies, hostVars>>

(* The agent takes the message into its conversation.  omp's turn begins    *)
(* with the command, Codex's with the answer.                               *)
Reads(h) ==
    /\ IF Agent = "claude" THEN h.stage = "written" ELSE Ready(h)
    /\ Moves(h, IF Agent = "omp" /\ turn = "running" THEN "steered" ELSE "read")
    /\ Arrives(h.item)
    /\ IF Agent = "omp" THEN Save(AfterBeginTurn) /\ BeginTurn
       ELSE UNCHANGED <<storeVars, noReceipt, turn>>
    /\ UNCHANGED <<jobs, senders, inHand, diedInHand, owed, session, hostVars>>

(* Its answer, or its echo: delivered. *)
Answers(h) ==
    /\ DriverFree /\ ~NextTurnDue /\ h \in Asked
    /\ held' = held \ {h}
    /\ Save([items EXCEPT ![h.item] = Receipt(@, h, "delivered")])
    /\ turn' = IF Agent = "codex" /\ turn = "none" THEN "begun" ELSE turn
    /\ Do(Driver, Receipted(h, "none"))
    /\ UNCHANGED <<senders, queueVars, owed, session, copies, hostVars>>

(* Codex says that the turn it was asked for has started. *)
TurnStarted ==
    /\ DriverTakes /\ turn = "begun"
    /\ turn' = "running"
    /\ Save(Announced)
    /\ noReceipt' = noReceipt \ Proved
    /\ UNCHANGED <<jobs, senders, inHand, diedInHand, held, owed, session, copies, hostVars>>

(* Claude's next turn, for a message written during the last one. *)
NextTurn ==
    /\ DriverFree /\ NextTurnDue
    /\ Save(AfterBeginTurn)
    /\ BeginTurn
    /\ UNCHANGED <<jobs, senders, inHand, diedInHand, held, owed, session, copies, hostVars>>

(* The command is refused, or there is no process to take it: rejected, and *)
(* the session fails unless it was a steer of omp's.  A turn may have begun *)
(* for it: Claude's goes on, omp's is over.                                 *)
Rejects(h) ==
    /\ "rejects" \in Features
    /\ Ready(h)
    /\ held' = held \ {h}
    /\ \/ /\ Save([items EXCEPT ![h.item] = Receipt(@, h, "rejected")])
          /\ UNCHANGED <<noReceipt, turn>>
       \/ /\ Agent # "codex" /\ turn = "none"
          /\ Save([Announced EXCEPT ![h.item] = Receipt(@, h, "rejected")])
          /\ noReceipt' = noReceipt \ Proved
          /\ turn' = IF Agent = "claude" THEN "running" ELSE "none"
    /\ \/ Do(Driver, Receipted(h, "failed"))
       \/ Agent = "omp" /\ turn = "running" /\ Do(Driver, Receipted(h, "none"))
    /\ UNCHANGED <<senders, inHand, diedInHand, owed, session, copies, hostVars>>

(* The process goes away with a command unanswered.  Codex gives no receipt *)
(* for it.  omp takes it for a refusal, and a prompt's turn is over; that   *)
(* of a command omp never read is Rejects.                                  *)
Breaks(h) ==
    /\ "fails" \in Features
    /\ DriverFree
    /\ held' = held \ {h}
    /\ \/ /\ Agent = "codex"
          /\ h \in Asked \/ Ready(h)
          /\ Do(Driver, [Off EXCEPT !.pc = "failed"])
          /\ UNCHANGED <<storeVars, turn>>
       \/ /\ Agent = "omp" /\ h \in Asked
          /\ Save([items EXCEPT ![h.item] = Receipt(@, h, "rejected")])
          /\ IF h.stage = "steered" THEN turn' = turn /\ Do(Driver, Receipted(h, "none"))
             ELSE turn' = "none" /\ Do(Driver, Receipted(h, "failed"))
    /\ UNCHANGED <<senders, queueVars, owed, session, copies, hostVars>>

(* A turn ends, well or badly; the status follows. *)
EndsTurn(status) ==
    /\ status = "failed" => "fails" \in Features
    /\ DriverTakes /\ turn = "running"
    /\ turn' = IF Agent = "codex" THEN "ending" ELSE "none"
    /\ owed' = IF owed > 0 THEN owed - 1 ELSE 0
    /\ Do(Driver, PumpingThen(status))
    /\ UNCHANGED <<storeVars, senders, queueVars, held, session, copies, hostVars>>

(* The process is gone, or was ended while idle, and with it what it had    *)
(* not acknowledged.  Commands not taken yet will go to the next process.   *)
(* Only a turn that was running makes it a failure.                         *)
Exits ==
    /\ "fails" \in Features
    /\ DriverTakes
    /\ turn # "none" \/ Asked # {} \/ \E h \in held : h.stage = "written"
    /\ held' = {h \in held : h.stage = "queued"}
    /\ turn' = "none" /\ owed' = 0
    /\ Do(Driver, IF turn # "none" THEN PumpingThen("failed") ELSE Off)
    /\ UNCHANGED <<storeVars, senders, queueVars, session, copies, hostVars>>

(* Close comes up, after the commands before it: the turn that was running  *)
(* ends, and that is no failure.                                            *)
Closes ==
    /\ DriverTakes /\ session = "closing"
    /\ \A h \in held : h.stage # "queued"
    /\ held' = {} /\ turn' = "none" /\ owed' = 0 /\ session' = "none"
    /\ Do(Driver, IF turn # "none" THEN Pumping ELSE Off)
    /\ UNCHANGED <<storeVars, senders, queueVars, copies, hostVars>>

DriverEvent ==
    \/ \E h \in held :
        Writes(h) \/ Answers(h) \/ Rejects(h) \/ Breaks(h)
    \/ \E status \in {"settled", "failed"} : EndsTurn(status)
    \/ TurnStarted \/ NextTurn \/ Exits \/ Closes

-------------------------------------------------------------------------------
(* The host dies and comes back. *)

Crash ==
    /\ phase # "down" /\ crashes < setup.crashes
    /\ phase' = "down" /\ crashes' = crashes + 1
    /\ items' = disk
    /\ jobs' = [th \in Threads |-> Off]
    /\ senders' = {}
    /\ inHand' = {} /\ diedInHand' = {} /\ noReceipt' = {}
    /\ held' = {} /\ turn' = "none" /\ owed' = 0 /\ session' = "none"
    /\ UNCHANGED <<disk, faults, handoff, copies, asks, setup>>

(* Faulty variant: what was out goes back to the queue. *)
Reopened_Requeued(d) ==
    IF d.state \in {"sending", "accepted"} THEN [d EXCEPT !.state = "waiting"]
    ELSE IF d.class = "internal" THEN d ELSE Step(d, "restarted")

(* set_dir: what was out is unknown, the user's unsent messages wait for them. *)
Reopened(d) ==
    IF d.class = "internal" THEN Step(d, "cut_off") ELSE Step(Step(d, "cut_off"), "restarted")

Reopen ==
    /\ phase = "down"
    /\ phase' = "boot"
    /\ Save([i \in Items |-> Reopened(items[i])])
    /\ Do(Driver, [Off EXCEPT !.pc = "recheck",
                     !.todo = {i \in Items : /\ Reopened(items[i]).state = "unknown"
                                             /\ Reopened(items[i]).reason = "none"}])
    /\ UNCHANGED <<senders, queueVars, agentVars, handoff, crashes, asks, setup>>

(* Faulty variant: what waits is left to the next event of the session. *)
Recheck_WithoutPump ==
    LET job == jobs[Driver]
    IN  /\ job.pc = "recheck"
        /\ \/ /\ job.todo = {}
              /\ phase' = "up"
              /\ Do(Driver, Off)
              /\ UNCHANGED storeVars
           \/ \E i \in job.todo :
                /\ Lookup(i)
                /\ Do(Driver, [job EXCEPT !.todo = @ \ {i}])
                /\ phase' = phase
        /\ UNCHANGED <<senders, queueVars, agentVars, handoff, crashes, asks, setup>>

(* set_host: look up what was lost, then pump once if anything waits. *)
Recheck ==
    LET job == jobs[Driver]
    IN  /\ job.pc = "recheck"
        /\ \/ /\ job.todo = {}
              /\ phase' = "up"
              /\ Do(Driver, IF InState("waiting") # {} THEN Pumping ELSE Off)
              /\ UNCHANGED storeVars
           \/ \E i \in job.todo :
                /\ Lookup(i)
                /\ Do(Driver, [job EXCEPT !.todo = @ \ {i}])
                /\ phase' = phase
        /\ UNCHANGED <<senders, queueVars, agentVars, handoff, crashes, asks, setup>>

Next ==
    \/ Request
    \/ \E th \in Threads : JobStep(th)
    \/ \E s \in senders :
        \/ SendReaches(s)
        \/ SendErrs(s) \/ SendBack(s)
        \/ \E c \in Callers : SendSettles(s, c)
    \/ \E i \in Items, c \in Callers : Timeout(i, c)
    \/ \E h \in held : Reads(h)
    \/ DriverEvent
    \/ Crash \/ Reopen \/ Recheck

Spec == Init /\ [][Next]_vars

(* The queue's own threads run on: a job goes on, a sender that came back   *)
(* records what it learned, a timeout fires, a host that went down is       *)
(* started again.  Nothing is owed by the agent, by DeliveryHost::send or   *)
(* by the user.                                                             *)
Fairness ==
    /\ \A th \in Threads : WF_vars(JobStep(th))
    /\ WF_vars(\E s \in senders : SendBack(s))
    /\ SF_vars(\E s \in senders, c \in Callers : SendSettles(s, c))
    /\ SF_vars(\E i \in Items, c \in Callers : Timeout(i, c))
    /\ WF_vars(NextTurn)
    /\ WF_vars(Closes)
    /\ WF_vars(Reopen)
    /\ WF_vars(Recheck)

FairSpec == Spec /\ Fairness

-------------------------------------------------------------------------------
(* Properties. *)

(* A message reaches the agent once, and once more for each time the user   *)
(* had it sent again: whatever is lost, late, stopped, rejected or cut off  *)
(* by a restart, the queue never resends on its own what may have arrived.  *)
OneCopyUnlessAsked == \A i \in Items : copies[i] <= 1 + asks[i]

(* A message said to have failed, which the next one queued sends again     *)
(* without asking, is not with the agent.  (A failure that comes late can   *)
(* be booked on a second attempt the user asked for: see the README.)       *)
FailedDidNotArrive == setup.asks = 0 => \A i \in InState("failed") : copies[i] = 0

(* A message said to be delivered did reach the agent.  (Claude's turn is   *)
(* announced when its input is written, before it is read.)                 *)
DeliveredArrived ==
    Agent # "claude" => \A i \in InState("delivered") : copies[i] > 0

(* One message is out at a time. *)
OneSendingAtATime == Cardinality(InState("sending")) <= 1

(* What is not a steer goes out when no turn is running. *)
OthersWaitForTheTurn ==
    [][\A i \in Items : items[i].state = "waiting" /\ items'[i].state = "sending"
          => items[i].class = "steer" \/ Idle]_vars

(* Stop holds back what has not gone out: a paused message is not given to  *)
(* the driver.                                                              *)
PausedIsNotHandedOver ==
    [][\A s \in senders : SendReaches(s) => items[s.item].state # "paused"]_vars

(* A message does not stay out for ever: within its timeout it is answered  *)
(* or unknown, and the queue behind it moves.                               *)
SendingEnds ==
    \A i \in Items : items[i].state = "sending" ~> items[i].state # "sending"

(* A message that could go now goes: as long as the session is idle nothing *)
(* waits for ever.                                                          *)
IdleQueueMoves ==
    \A i \in Items : items[i].state = "waiting" /\ Idle
                        ~> items[i].state # "waiting" \/ ~Idle

(* A message whose answer was lost is looked for in the agent's record, if  *)
(* the host lives on.                                                       *)
NotLookedFor(i) == items[i].state = "unknown" /\ items[i].reason \in {"none", "lost"}

LostIsLookedFor ==
    \A i \in Items : setup.crashes = 0 /\ NotLookedFor(i) ~> ~NotLookedFor(i)

(* A message the transport took and whose session is gone is settled: it is *)
(* acknowledged, or unknown and looked for.                                 *)
AcceptedWithoutASession(i) == items[i].state = "accepted" /\ held = {} /\ Idle

AcceptedIsSettled ==
    \A i \in Items : AcceptedWithoutASession(i) ~> ~AcceptedWithoutASession(i)
===============================================================================
