----------------------------- MODULE Delegation -----------------------------
(***************************************************************************)
(* Delegations of one parent session (sessions/live/delegation/mod.rs):    *)
(* the parent's agent or the user hands work to child sessions; what a     *)
(* child answered comes back on a card, and the results the agent asked    *)
(* for go back to it together once none is running and it is idle.         *)
(*                                                                         *)
(* A delegation and its child session share a name.  The state of a card   *)
(* is changed under one lock; what runs outside it (start_child, the       *)
(* budget watch, a report, try_return's question whether the parent is     *)
(* idle) is a thread here, with a step for each time it takes the lock.    *)
(* The file and the log that publish writes are left out: nothing of what  *)
(* follows reads them before the host restarts.                            *)
(***************************************************************************)
EXTENDS TurnChecks, Contract

CONSTANTS ContractOf,   \* the contract of each delegation
          RoleOf,       \* the role it names, or NoRole
          Permission,   \* the parent's permission mode
          ClearsFirst,  \* the parent's driver clears its turn before it
                        \* announces the end (Claude, omp), or after it (Codex)
          MaxReworks,   \* redos of one delegation
          UserTurns,    \* turns the user begins in a child's own session
          Setups        \* the instances one run covers, see setup

ASSUME DelegationAssumption ==
    /\ ContractOf \in [Tasks -> Contracts] /\ RoleOf \in [Tasks -> Roles]
    /\ ClearsFirst \in BOOLEAN
    /\ MaxReworks \in Nat /\ UserTurns \in Nat
    /\ Setups \subseteq [ids : SUBSET Tasks, asked : SUBSET Tasks, turns : BOOLEAN,
                         parentTurns : BOOLEAN, reworks : 0..MaxReworks, returns : Nat \ {0}]

(* Delegations whose child may write the directory it shares.              *)
Writers == {d \in Tasks : Writes(ContractOf[d], RoleOf[d], Permission)}

VARIABLES setup,        \* chosen at the start and kept: the delegations there
                        \* are and those the agent asked for (Origin::Session;
                        \* the others are the user's, Origin::User), whether
                        \* their children and the parent take turns, how often
                        \* one is redone, how many try_return threads overlap
          card,         \* what the parent's list says of each delegation
          starting,     \* start_child: "no", "calling", "up" (the session is
                        \* live, the call has not returned), "returned"
          last,         \* Entry::last_text: the turn it is the text of, or 0
          watching,     \* budget watchers: the run each began with, and whether
                        \* it has found the run over budget
          reports,      \* threads about to take the lock in report
          fails,        \* threads about to take the lock in fail
          due,          \* threads about to take the lock in try_return; more
                        \* than setup.returns count as that many
          returns,      \* try_return threads that have chosen their cards
          pending,      \* State::pending_return has the parent
          parent,       \* the parent's turn: "idle", "active", "clearing"
                        \* (between its two steps at the end of a turn)
          told,         \* history: messages to the parent with this run's result
          dropped,      \* history: a thread took the parent out of pending_return
                        \* while a result it did not carry was unsent
          began         \* history: the child's turn before this run, 0 when
                        \* something of an earlier run was still under way

threads == <<starting, watching, fails>>
returning == <<due, returns, pending>>
history == <<told, dropped, began>>
vars == <<setup, turnVars, card, last, reports, threads, returning, parent, history>>

Open == {"starting", "running", "checking"}
Closed == {"reported", "failed", "stopped", "overBudget"}
IsOpen(d) == card[d].state \in Open
IsClosed(d) == card[d].state \in Closed

Cards == [state : Open \cup Closed \cup {"none"}, sent : BOOLEAN, reworks : 0..MaxReworks,
          awaiting : 0..MaxTurns, result : 0..MaxTurns]
NoCard == [state |-> "none", sent |-> FALSE, reworks |-> 0, awaiting |-> 0, result |-> 0]
Watchers == [run : 0..MaxReworks, over : BOOLEAN]
Slots == 1..setup.returns
NoReturn == [step |-> "none", ready |-> {}]
Returns == [step : {"none", "asking", "sending"}, ready : SUBSET Tasks]

TypeOK ==
    /\ setup \in Setups
    /\ TurnTypeOK
    /\ card \in [Tasks -> Cards]
    /\ starting \in [Tasks -> {"no", "calling", "up", "returned"}]
    /\ last \in [Tasks -> 0..MaxTurns]
    /\ watching \in [Tasks -> SUBSET Watchers]
    /\ reports \in [Tasks -> Nat] /\ fails \in [Tasks -> Nat]
    /\ due \in 0..setup.returns
    /\ returns \in [Slots -> Returns]
    /\ pending \in BOOLEAN
    /\ parent \in {"idle", "active", "clearing"}
    /\ told \in [Tasks -> Nat]
    /\ dropped \in BOOLEAN
    /\ began \in [Tasks -> 0..MaxTurns]

Init ==
    /\ setup \in Setups
    /\ TurnInit
    /\ card = [d \in Tasks |-> NoCard]
    /\ starting = [d \in Tasks |-> "no"]
    /\ last = [d \in Tasks |-> 0]
    /\ watching = [d \in Tasks |-> {}]
    /\ reports = [d \in Tasks |-> 0] /\ fails = [d \in Tasks |-> 0]
    /\ due = 0 /\ returns = [i \in Slots |-> NoReturn]
    /\ pending = FALSE
    /\ parent = "idle"
    /\ told = [d \in Tasks |-> 0]
    /\ dropped = FALSE
    /\ began = [d \in Tasks |-> 0]

-----------------------------------------------------------------------------
(* A thread calls try_return; where the agent asked for nothing it finds   *)
(* nothing and changes nothing.                                            *)
CallReturn == due' = IF setup.asked # {} /\ due < setup.returns THEN due + 1 ELSE due

SetState(d, s) == card' = [card EXCEPT ![d].state = s]

(* Nothing of the child is under way: no turn, no end of one, no report.   *)
Quiet(d) == phase[d] = "idle" /\ settling[d] = {} /\ reports[d] = 0

(* writers_beside: another session with a running turn that may write here. *)
(* The parent's own turn is not counted.                                   *)
WritersBeside == {d \in Writers : phase[d] = "active"}

(* start: refused when the contract breaks a rule, the directory is busy or *)
(* another writer of this parent is open; else the card is there and a     *)
(* thread creates the child.                                               *)
OpenWriters == {d \in Writers : IsOpen(d)}
Start(d) ==
    /\ d \in setup.ids
    /\ card[d].state = "none"
    /\ ~Refused(ContractOf[d], RoleOf[d], Permission)
    /\ d \in Writers => WritersBeside = {} /\ OpenWriters = {}
    /\ SetState(d, "starting")
    /\ starting' = [starting EXCEPT ![d] = "calling"]
    /\ UNCHANGED <<setup, turnVars, last, reports, fails, watching, returning, parent, history>>

(* The child's session is live; its first turn may begin before start_child *)
(* returns.                                                                *)
ChildUp(d) ==
    /\ starting[d] = "calling"
    /\ starting' = [starting EXCEPT ![d] = "up"]
    /\ UNCHANGED <<setup, turnVars, card, last, reports, fails, watching, returning, parent, history>>

(* watch: a watcher ends with its run.                                     *)
Watch(d, run) == watching' = [watching EXCEPT ![d] = @ \cup {[run |-> run, over |-> FALSE]}]

(* Variant: nobody watches the budget of a child that just started.        *)
StartReturnsOk_NoWatch(d) ==
    /\ starting[d] = "up"
    /\ starting' = [starting EXCEPT ![d] = "returned"]
    /\ IF card[d].state = "starting" THEN SetState(d, "running") ELSE UNCHANGED card
    /\ UNCHANGED <<setup, turnVars, last, reports, fails, watching, returning, parent, history>>

(* start_child returned the child: it runs, and its budget is watched,     *)
(* unless the card left Starting meanwhile.                                *)
StartReturnsOk(d) ==
    /\ starting[d] = "up"
    /\ starting' = [starting EXCEPT ![d] = "returned"]
    /\ IF card[d].state = "starting"
       THEN SetState(d, "running") /\ Watch(d, card[d].reworks)
       ELSE UNCHANGED <<card, watching>>
    /\ UNCHANGED <<setup, turnVars, last, reports, fails, returning, parent, history>>

(* start_child failed: whatever the card says by now, it says Failed next. *)
StartReturnsErr(d) ==
    /\ starting[d] \in {"calling", "up"} /\ turn[d] = 0
    /\ starting' = [starting EXCEPT ![d] = "returned"]
    /\ SetState(d, "failed")
    /\ CallReturn
    /\ UNCHANGED <<setup, turnVars, last, reports, fails, watching, returns, pending, parent, history>>

(* stop: the child is interrupted on a thread of its own.                  *)
Stop(d) ==
    /\ IsOpen(d)
    /\ SetState(d, "stopped")
    /\ CallReturn
    /\ UNCHANGED <<setup, turnVars, last, reports, threads, returns, pending, parent, history>>

(* send: the user sends one result now.                                    *)
Tell(ds) == told' = [d \in Tasks |-> IF d \in ds THEN told[d] + 1 ELSE told[d]]
Send(d) ==
    /\ IsClosed(d) /\ ~card[d].sent
    /\ card' = [card EXCEPT ![d].sent = TRUE]
    /\ Tell({d})
    /\ UNCHANGED <<setup, turnVars, last, reports, threads, returning, parent, dropped, began>>

(* Variant: the text of the run before stays.                              *)
Redo_KeepsText(d) ==
    /\ IsClosed(d) /\ card[d].reworks < setup.reworks
    /\ d \in Writers => WritersBeside \ {d} = {}
    /\ card' = [card EXCEPT ![d].state = "running", ![d].sent = FALSE, ![d].reworks = @ + 1]
    /\ Watch(d, card[d].reworks + 1)
    /\ told' = [told EXCEPT ![d] = 0]
    /\ began' = [began EXCEPT ![d] = IF Quiet(d) THEN turn[d] ELSE 0]
    /\ UNCHANGED <<setup, turnVars, last, reports, fails, starting, returning, parent, dropped>>

(* redo: a run of its own, with a watcher of its own.  The text of the run *)
(* before is dropped; awaiting_checks is not.                              *)
Redo(d) ==
    /\ IsClosed(d) /\ card[d].reworks < setup.reworks
    /\ d \in Writers => WritersBeside \ {d} = {}
    /\ card' = [card EXCEPT ![d].state = "running", ![d].sent = FALSE, ![d].reworks = @ + 1]
    /\ last' = [last EXCEPT ![d] = 0]
    /\ Watch(d, card[d].reworks + 1)
    /\ told' = [told EXCEPT ![d] = 0]
    /\ began' = [began EXCEPT ![d] = IF Quiet(d) THEN turn[d] ELSE 0]
    /\ UNCHANGED <<setup, turnVars, reports, fails, starting, returning, parent, dropped>>

(* The prompt of a redo fails, and with it the run, if it is open still.   *)
RedoFails(d) ==
    /\ card[d].reworks > 0 /\ turn[d] <= card[d].reworks
    /\ IsOpen(d)
    /\ SetState(d, "failed")
    /\ CallReturn
    /\ UNCHANGED <<setup, turnVars, last, reports, threads, returns, pending, parent, history>>

-----------------------------------------------------------------------------
(* The budget watch looks at the card under the lock.                      *)
WatchLooks(d, w) ==
    /\ w \in watching[d] /\ ~w.over
    /\ watching' = [watching EXCEPT ![d] = (@ \ {w}) \cup
           (IF IsOpen(d) /\ card[d].reworks = w.run THEN {[w EXCEPT !.over = TRUE]} ELSE {})]
    /\ UNCHANGED <<setup, turnVars, card, last, reports, fails, starting, returning, parent, history>>

(* It measured time and tokens without the lock; over budget, it takes the *)
(* lock again and sets the state without looking at it.                    *)
OverBudget(d, w) ==
    /\ w \in watching[d] /\ w.over
    /\ watching' = [watching EXCEPT ![d] = @ \ {w}]
    /\ SetState(d, "overBudget")
    /\ CallReturn
    /\ UNCHANGED <<setup, turnVars, last, reports, fails, starting, returns, pending, parent, history>>

-----------------------------------------------------------------------------
(* A turn of the child: its first message, a rework note, or a message of  *)
(* the user's in the child's own session.  State::text has the text of the *)
(* turn from its start until its end has reached Delegations.              *)
ChildTurnStarts(d) ==
    /\ setup.turns /\ starting[d] \in {"up", "returned"}
    /\ turn[d] <= card[d].reworks + UserTurns
    /\ TurnStarted(d)
    /\ UNCHANGED <<setup, card, last, reports, threads, returning, parent, history>>

ChildTurnEnds(d, reason) ==
    /\ TurnEnded(d, reason)
    /\ UNCHANGED <<setup, card, last, reports, threads, returning, parent, history>>

(* The end reaches Delegations: the text becomes the entry's last text     *)
(* while the run is under way.                                             *)
UnderWay(d) == card[d].state \in {"starting", "running"}
ChildTurnEndedHere(d) ==
    /\ TurnEndedAtSinks(d)
    /\ last' = [last EXCEPT ![d] = IF UnderWay(d) THEN turn[d] ELSE @]
    /\ UNCHANGED <<setup, card, reports, threads, returning, parent, history>>

(* Whether files changed makes no difference to the card's state.          *)
ChildDiff(d) ==
    /\ \E s \in settling[d] : NothingToCheck(d, s, TRUE) \/ StartChecks(d, s)
    /\ UNCHANGED <<setup, card, last, reports, threads, returning, parent, history>>

(* turn_settled: only while the run is under way, which is then Running.   *)
(* For a turn that did not complete the thread goes on to fail, for one    *)
(* without checks to report; checks are waited for.                        *)
SettledLate(d) ==
    /\ ~UnderWay(d)
    /\ UNCHANGED <<card, reports, fails, due>>

SettledFailed(d, s) ==
    /\ UnderWay(d) /\ s.reason # "completed"
    /\ SetState(d, "running")
    /\ fails' = [fails EXCEPT ![d] = @ + 1]
    /\ UNCHANGED <<reports, due>>

SettledChecking(d, s) ==
    /\ UnderWay(d) /\ s.reason = "completed" /\ s.checking
    /\ card' = [card EXCEPT ![d].state = "checking", ![d].awaiting = s.turn]
    /\ UNCHANGED <<reports, fails, due>>

SettledDone(d, s) ==
    /\ UnderWay(d) /\ s.reason = "completed" /\ ~s.checking
    /\ SetState(d, "running")
    /\ reports' = [reports EXCEPT ![d] = @ + 1]
    /\ UNCHANGED <<fails, due>>

TurnSettled(d, s) ==
    /\ Settled(d, s)
    /\ SettledLate(d) \/ SettledFailed(d, s) \/ SettledChecking(d, s) \/ SettledDone(d, s)
    /\ UNCHANGED <<setup, last, starting, watching, returns, pending, parent, history>>

(* fail, under a lock of its own: only a run that is open still.           *)
Fail(d) ==
    /\ fails[d] > 0
    /\ fails' = [fails EXCEPT ![d] = @ - 1]
    /\ IF IsOpen(d) THEN SetState(d, "failed") /\ CallReturn ELSE UNCHANGED <<card, due>>
    /\ UNCHANGED <<setup, turnVars, last, reports, starting, watching, returns, pending, parent, history>>

ChildCheckBegins(d) ==
    /\ \E c \in checks[d] : CheckBegins(d, c)
    /\ UNCHANGED <<setup, card, last, reports, threads, returning, parent, history>>

(* An autoCheck update that is not "running": the card that waits for it   *)
(* is reported, on a thread of its own.                                    *)
ChildChecked(d, c, verdict) ==
    /\ CheckReports(d, c, verdict)
    /\ reports' = [reports EXCEPT ![d] =
           IF card[d].state = "checking" /\ card[d].awaiting = c.turn THEN @ + 1 ELSE @]
    /\ UNCHANGED <<setup, card, last, threads, returning, parent, history>>

(* report: the text of the last turn, or what is still being collected when *)
(* the settling thread overtook the end; no look at the state.             *)
Collecting(d) == IF phase[d] = "idle" THEN 0 ELSE turn[d]
LastText(d) == IF last[d] = 0 THEN Collecting(d) ELSE last[d]
Report(d) ==
    /\ reports[d] > 0
    /\ reports' = [reports EXCEPT ![d] = @ - 1]
    /\ last' = [last EXCEPT ![d] = LastText(d)]
    /\ card' = [card EXCEPT ![d].state = "reported", ![d].awaiting = 0,
                            ![d].result = LastText(d)]
    /\ CallReturn
    /\ UNCHANGED <<setup, turnVars, threads, returns, pending, parent, history>>

-----------------------------------------------------------------------------
(* try_return under the lock for the first time: nothing goes back while   *)
(* one of the agent's delegations is open.                                 *)
Unsent == {d \in setup.asked : card[d].state # "none" /\ ~card[d].sent}
AnyOpen == \E d \in setup.asked : IsOpen(d)
(* Variant: the parent is not noted as waiting before it is asked.         *)
ReturnBegins_NotNoted ==
    /\ due > 0
    /\ due' = due - 1
    /\ \/ /\ AnyOpen \/ Unsent = {}
          /\ UNCHANGED returns
       \/ /\ ~AnyOpen /\ Unsent # {}
          /\ \E i \in Slots :
                /\ returns[i] = NoReturn
                /\ returns' = [returns EXCEPT ![i] = [step |-> "asking", ready |-> Unsent]]
    /\ UNCHANGED <<setup, turnVars, card, last, reports, threads, pending, parent, history>>

ReturnBegins ==
    /\ due > 0
    /\ due' = due - 1
    /\ \/ /\ AnyOpen
          /\ UNCHANGED <<returns, pending>>
       \/ /\ ~AnyOpen /\ Unsent = {}
          /\ pending' = FALSE
          /\ UNCHANGED returns
       \/ /\ ~AnyOpen /\ Unsent # {}
          /\ pending' = TRUE
          /\ \E i \in Slots :
                /\ returns[i] = NoReturn /\ \A j \in 1..(i - 1) : returns[j] # NoReturn
                /\ returns' = [returns EXCEPT ![i] = [step |-> "asking", ready |-> Unsent]]
    /\ UNCHANGED <<setup, turnVars, card, last, reports, threads, parent, history>>

(* host.idle, without the lock: the parent's turn is not active.           *)
ParentIdle == parent = "idle" \/ (parent = "clearing" /\ ClearsFirst)
ReturnAsks(i) ==
    /\ returns[i].step = "asking"
    /\ returns' = [returns EXCEPT ![i] =
           IF ParentIdle THEN [@ EXCEPT !.step = "sending"] ELSE NoReturn]
    /\ UNCHANGED <<setup, turnVars, card, last, reports, threads, due, pending, parent, history>>

(* Variants: the second look at one of the two conditions is left out.     *)
StillToSend_SentToo(ready) == {d \in ready : IsClosed(d)}
StillToSend_OpenToo(ready) == {d \in ready : ~card[d].sent}

(* The lock again: what is still unsent and closed goes in one message.    *)
StillToSend(ready) == {d \in ready : ~card[d].sent /\ IsClosed(d)}
ReturnSends(i) ==
    /\ returns[i].step = "sending"
    /\ returns' = [returns EXCEPT ![i] = NoReturn]
    /\ pending' = FALSE
    /\ LET ds == StillToSend(returns[i].ready) IN
       /\ card' = [d \in Tasks |-> [card[d] EXCEPT !.sent = @ \/ d \in ds]]
       /\ Tell(ds)
       /\ dropped' = (dropped \/ Unsent \ ds # {})
    /\ UNCHANGED <<setup, turnVars, last, reports, threads, due, parent, began>>

(* The parent's own turns.  Its end is two steps, in the driver's order:   *)
(* the turn is cleared, and it is announced; results that wait go then.    *)
ParentTurnStarts ==
    /\ setup.parentTurns /\ parent = "idle"
    /\ parent' = "active"
    /\ UNCHANGED <<setup, turnVars, card, last, reports, threads, returning, history>>

ParentAnnounced == IF pending THEN CallReturn ELSE UNCHANGED due
ParentTurnEnds ==
    /\ parent = "active"
    /\ parent' = "clearing"
    /\ IF ClearsFirst THEN UNCHANGED due ELSE ParentAnnounced
    /\ UNCHANGED <<setup, turnVars, card, last, reports, threads, returns, pending, history>>

ParentTurnEnded ==
    /\ parent = "clearing"
    /\ parent' = "idle"
    /\ IF ClearsFirst THEN ParentAnnounced ELSE UNCHANGED due
    /\ UNCHANGED <<setup, turnVars, card, last, reports, threads, returns, pending, history>>

-----------------------------------------------------------------------------
WatchingStep(d, run) ==
    \E w \in watching[d] : w.run = run /\ (WatchLooks(d, w) \/ OverBudget(d, w))
StartReturns(d) == StartReturnsOk(d) \/ StartReturnsErr(d)
SettlingStep(d) == ChildDiff(d) \/ \E s \in settling[d] : TurnSettled(d, s)
CheckingStep(d) ==
    ChildCheckBegins(d) \/ \E c \in checks[d], v \in Verdicts : ChildChecked(d, c, v)
ReturningStep(i) == ReturnAsks(i) \/ ReturnSends(i)

Next ==
    \/ \E d \in Tasks :
        \/ Start(d) \/ ChildUp(d) \/ StartReturns(d) \/ Stop(d) \/ Send(d) \/ Redo(d) \/ RedoFails(d)
        \/ \E run \in 0..MaxReworks : WatchingStep(d, run)
        \/ ChildTurnStarts(d) \/ ChildTurnEndedHere(d)
        \/ \E r \in Reasons : ChildTurnEnds(d, r)
        \/ SettlingStep(d) \/ CheckingStep(d) \/ Report(d) \/ Fail(d)
    \/ ReturnBegins
    \/ \E i \in Slots : ReturningStep(i)
    \/ ParentTurnStarts \/ ParentTurnEnds \/ ParentTurnEnded

Spec == Init /\ [][Next]_vars

(* Threads of the host run on; a start call returns; a driver in the       *)
(* middle of ending a turn gets on with it; a budget runs out.  No turn is *)
(* assumed to end.                                                         *)
Fairness ==
    /\ \A d \in Tasks :
        /\ WF_vars(ChildUp(d) \/ StartReturns(d))
        /\ \A run \in 0..MaxReworks : WF_vars(WatchingStep(d, run))
        /\ WF_vars(ChildTurnEndedHere(d)) /\ WF_vars(SettlingStep(d))
        /\ WF_vars(CheckingStep(d)) /\ WF_vars(Report(d)) /\ WF_vars(Fail(d))
    /\ WF_vars(ReturnBegins)
    /\ \A i \in 1..2 : WF_vars(i \in Slots /\ ReturningStep(i))
    /\ WF_vars(ParentTurnEnded)

FairSpec == Spec /\ Fairness

-----------------------------------------------------------------------------
(* The result of one run reaches the parent at most once, although several *)
(* threads may be returning results while the user sends one by hand       *)
(* (send, try_return).                                                     *)
ToldOnce == \A d \in Tasks : told[d] <= 1

(* What is marked as sent is the result of a run that has ended: no thread *)
(* that chose the cards before it asked whether the parent is idle sends a *)
(* card that was put back to work meanwhile (try_return's second look).    *)
SentIsClosed == \A d \in Tasks : card[d].sent => IsClosed(d)

(* The result a card reports is what its child said in this run and not in *)
(* the run before it, unless something of the child was still under way    *)
(* when it was sent back to work (redo clears last_text).                  *)
ResultIsThisRuns ==
    \A d \in Tasks : card[d].state = "reported" => card[d].result = 0 \/ card[d].result > began[d]

(* A delegation that nobody watches and that waits for checks whose verdict *)
(* went by before the card waited for it.                                  *)
MissedVerdict(d) ==
    /\ card[d].state = "checking"
    /\ watching[d] = {} /\ reports[d] = 0
    /\ \A c \in checks[d] : c.turn # card[d].awaiting

(* Every delegation ends: it reports, fails, is stopped or runs out of its *)
(* budget; the watch sees to it.  The one that may not is the one of       *)
(* MissedVerdict.                                                          *)
OpenEnds == \A d \in Tasks : IsOpen(d) ~> (~IsOpen(d) \/ MissedVerdict(d))

(* Results the agent asked for do not stay behind: all in and none running, *)
(* with the parent idle, they are sent, whatever order the end of the      *)
(* parent's turn and the threads of try_return come in.  Only a thread that *)
(* takes the parent out of pending_return for a later one (dropped) can    *)
(* leave one behind.                                                       *)
AllIn == Unsent # {} /\ ~AnyOpen
ResultsGoBack == (AllIn /\ parent = "idle") ~> (~(AllIn /\ parent = "idle") \/ dropped)

=============================================================================
