------------------------- MODULE Delegation_proofs --------------------------
(***************************************************************************)
(* What comes back from a delegation, for every set of delegations, every  *)
(* contract and every bound.                                               *)
(***************************************************************************)
EXTENDS Delegation, TLAPS

(* A card that is marked as sent is closed, and a run's result was told as *)
(* often as its card is marked.                                            *)
CardInv(d) ==
    /\ card[d].sent => IsClosed(d)
    /\ told[d] = IF card[d].sent THEN 1 ELSE 0

(* Texts are of turns after the run began: the one kept, the one being     *)
(* collected and the one reported.                                         *)
TextInv(d) ==
    /\ began[d] <= turn[d]
    /\ phase[d] # "idle" => began[d] < turn[d]
    /\ last[d] = 0 \/ began[d] < last[d]
    /\ card[d].state = "reported" => card[d].result = 0 \/ began[d] < card[d].result

IInv == TypeOK /\ \A d \in Tasks : CardInv(d) /\ TextInv(d)

-----------------------------------------------------------------------------
(* The tracker's steps keep its types.                                     *)
LEMMA CancelledTypes ==
    ASSUME TurnTypeOK, NEW t \in Tasks
    PROVE  Cancelled(t) \subseteq Checks
<1>1. \A c \in checks[t] : c \in Checks
    BY DEF TurnTypeOK
<1>2. \A c \in Checks : [c EXCEPT !.cancel = TRUE] \in Checks
    BY DEF Checks
<1> QED BY <1>1, <1>2 DEF Cancelled

LEMMA StartedTypes == ASSUME TurnTypeOK, NEW t \in Tasks, TurnStarted(t) PROVE TurnTypeOK'
<1>1. turn[t] + 1 \in 0..MaxTurns
    BY MaxTurnsAssumption DEF TurnTypeOK, TurnStarted
<1>2. Cancelled(t) \in SUBSET Checks
    BY CancelledTypes
<1> QED BY <1>1, <1>2, MaxTurnsAssumption DEF TurnTypeOK, TurnStarted

LEMMA EndedTypes ==
    ASSUME TurnTypeOK, NEW t \in Tasks, turn[t] > 0, NEW reason \in Reasons, TurnEnded(t, reason)
    PROVE  TurnTypeOK'
<1>1. [turn |-> turn[t], reason |-> reason, step |-> "diff", diff |-> FALSE,
       checking |-> FALSE] \in Settling
    BY MaxTurnsAssumption DEF TurnTypeOK, Settling, Turns
<1> QED BY <1>1 DEF TurnTypeOK, TurnEnded

LEMMA AtSinksTypes ==
    ASSUME TurnTypeOK, NEW t \in Tasks, TurnEndedAtSinks(t) PROVE TurnTypeOK'
  BY DEF TurnTypeOK, TurnEndedAtSinks

LEMMA NothingTypes ==
    ASSUME TurnTypeOK, NEW t \in Tasks, NEW s, NEW changed \in BOOLEAN, NothingToCheck(t, s, changed)
    PROVE  TurnTypeOK'
<1>1. s \in Settling
    BY DEF TurnTypeOK, NothingToCheck
<1>2. [s EXCEPT !.step = "hook", !.diff = changed] \in Settling
    BY <1>1 DEF Settling
<1> QED BY <1>2 DEF TurnTypeOK, NothingToCheck

LEMMA ChecksTypes ==
    ASSUME TurnTypeOK, NEW t \in Tasks, NEW s, StartChecks(t, s)
    PROVE  TurnTypeOK'
<1>1. s \in Settling
    BY DEF TurnTypeOK, StartChecks
<1>2. [s EXCEPT !.step = "hook", !.diff = TRUE, !.checking = TRUE] \in Settling
    BY <1>1 DEF Settling
<1>3. [turn |-> s.turn, step |-> "spawned", cancel |-> FALSE] \in Checks /\ s.turn \in 0..MaxTurns
    BY <1>1 DEF Settling, Checks, Turns
<1> QED BY <1>2, <1>3, CancelledTypes DEF TurnTypeOK, StartChecks

LEMMA SettledTypes ==
    ASSUME TurnTypeOK, NEW t \in Tasks, NEW s, Settled(t, s)
    PROVE  TurnTypeOK' /\ s \in Settling /\ s.turn \in 0..MaxTurns
<1>1. s \in Settling
    BY DEF TurnTypeOK, Settled
<1>2. s.turn \in 0..MaxTurns
    BY <1>1 DEF Settling, Turns
<1> QED BY <1>1, <1>2 DEF TurnTypeOK, Settled

LEMMA CheckTypes ==
    ASSUME TurnTypeOK, NEW t \in Tasks, NEW c
    PROVE  /\ CheckBegins(t, c) => TurnTypeOK'
           /\ \A v : CheckReports(t, c, v) => TurnTypeOK'
<1>1. ASSUME CheckBegins(t, c) PROVE TurnTypeOK'
    <2>1. [c EXCEPT !.step = "running"] \in Checks
        BY <1>1 DEF TurnTypeOK, CheckBegins, Checks
    <2> QED BY <1>1, <2>1 DEF TurnTypeOK, CheckBegins
<1>2. ASSUME NEW v, CheckReports(t, c, v) PROVE TurnTypeOK'
    BY <1>2, MaxTurnsAssumption DEF TurnTypeOK, CheckReports
<1> QED BY <1>1, <1>2

-----------------------------------------------------------------------------
(* Types of the rest.                                                      *)
LEMMA CallTypes == TypeOK /\ CallReturn => due' \in 0..setup.returns
  BY DelegationAssumption DEF TypeOK, CallReturn

LEMMA CardTypes ==
    ASSUME TypeOK, NEW d \in Tasks
    PROVE  /\ card[d] \in Cards
           /\ \A s \in Open \cup Closed : [card EXCEPT ![d].state = s] \in [Tasks -> Cards]
<1>1. card[d] \in Cards
    BY DEF TypeOK
<1>2. \A s \in Open \cup Closed : [card[d] EXCEPT !.state = s] \in Cards
    BY <1>1 DEF Cards
<1> QED BY <1>1, <1>2 DEF TypeOK

LEMMA TurnFrame == TurnTypeOK /\ UNCHANGED turnVars => TurnTypeOK'
  BY DEF TurnTypeOK, turnVars

LEMMA SetupTypes ==
    ASSUME TypeOK
    PROVE  /\ setup.ids \subseteq Tasks /\ setup.asked \subseteq Tasks
           /\ setup.returns \in Nat \ {0} /\ setup.reworks \in 0..MaxReworks
  BY DelegationAssumption DEF TypeOK

(* The operations on a card: start, stop, send, redo.                      *)
CardStep(d) ==
    \/ Start(d) \/ ChildUp(d) \/ StartReturnsOk(d) \/ StartReturnsErr(d)
    \/ Stop(d) \/ Send(d) \/ Redo(d) \/ RedoFails(d)
    \/ \E w \in watching[d] : WatchLooks(d, w) \/ OverBudget(d, w)

(* What the child's turns bring.                                           *)
ChildStep(d) ==
    \/ ChildTurnStarts(d) \/ ChildTurnEndedHere(d)
    \/ \E r \in Reasons : ChildTurnEnds(d, r)
    \/ ChildDiff(d) \/ \E s \in settling[d] : TurnSettled(d, s)
    \/ ChildCheckBegins(d) \/ \E c \in checks[d], v \in Verdicts : ChildChecked(d, c, v)
    \/ Report(d) \/ Fail(d)

(* The way back to the parent, and its turns.                              *)
ReturnStep ==
    \/ ReturnBegins \/ \E i \in Slots : ReturnAsks(i) \/ ReturnSends(i)
    \/ ParentTurnStarts \/ ParentTurnEnds \/ ParentTurnEnded

LEMMA NextSplit == Next => (\E d \in Tasks : CardStep(d) \/ ChildStep(d)) \/ ReturnStep
  BY DEF Next, CardStep, ChildStep, ReturnStep, WatchingStep, StartReturns, SettlingStep,
         CheckingStep, ReturningStep

LEMMA CardStepTypes == ASSUME TypeOK, NEW d \in Tasks, CardStep(d) PROVE TypeOK'
<1> USE DEF threads, returning, history, Open, Closed, Slots
<1>1. TurnTypeOK'
    <2>1. UNCHANGED turnVars
        BY DEF CardStep, Start, ChildUp, StartReturnsOk, StartReturnsErr, Stop, Send, Redo,
               RedoFails, WatchLooks, OverBudget
    <2> QED BY <2>1, TurnFrame DEF TypeOK
<1>2. CASE Start(d)
    BY <1>1, <1>2, CardTypes DEF Start, SetState, TypeOK
<1>3. CASE ChildUp(d)
    BY <1>1, <1>3 DEF ChildUp, TypeOK
<1>4. CASE StartReturnsOk(d)
    <2>1. card[d].reworks \in 0..MaxReworks
        BY CardTypes DEF Cards
    <2>2. [run |-> card[d].reworks, over |-> FALSE] \in Watchers
        BY <2>1 DEF Watchers
    <2>3. CASE SetState(d, "running") /\ Watch(d, card[d].reworks)
        <3>1. watching' \in [Tasks -> SUBSET Watchers]
            BY <2>2, <2>3 DEF Watch, TypeOK
        <3>2. card' \in [Tasks -> Cards]
            BY <2>3, CardTypes DEF SetState
        <3> QED BY <1>1, <1>4, <3>1, <3>2 DEF StartReturnsOk, TypeOK
    <2>4. CASE UNCHANGED <<card, watching>>
        BY <1>1, <1>4, <2>4 DEF StartReturnsOk, TypeOK
    <2> QED BY <1>4, <2>3, <2>4 DEF StartReturnsOk
<1>5. CASE StartReturnsErr(d)
    BY <1>1, <1>5, CardTypes, CallTypes DEF StartReturnsErr, SetState, TypeOK
<1>6. CASE Stop(d)
    BY <1>1, <1>6, CardTypes, CallTypes DEF Stop, SetState, TypeOK
<1>7. CASE Send(d)
    <2>1. [card[d] EXCEPT !.sent = TRUE] \in Cards
        BY CardTypes DEF Cards
    <2>2. card' \in [Tasks -> Cards] /\ told' \in [Tasks -> Nat]
        BY <1>7, <2>1 DEF Send, Tell, TypeOK
    <2> QED BY <1>1, <1>7, <2>2 DEF Send, TypeOK
<1>8. CASE Redo(d)
    <2>1. card[d] \in Cards /\ card[d].reworks < setup.reworks /\ setup.reworks \in 0..MaxReworks
        BY <1>8, CardTypes, SetupTypes DEF Redo
    <2>2. card[d].reworks \in 0..MaxReworks /\ MaxReworks \in Nat
        BY <2>1, DelegationAssumption DEF Cards
    <2>3. card[d].reworks + 1 \in 0..MaxReworks
        BY <2>1, <2>2
    <2>4. [card[d] EXCEPT !.state = "running", !.sent = FALSE, !.reworks = @ + 1] \in Cards
        BY <2>1, <2>3 DEF Cards
    <2>5. [run |-> card[d].reworks + 1, over |-> FALSE] \in Watchers
        BY <2>3 DEF Watchers
    <2>6. turn[d] \in 0..MaxTurns /\ 0 \in 0..MaxTurns
        BY MaxTurnsAssumption DEF TypeOK, TurnTypeOK
    <2>7. /\ card' \in [Tasks -> Cards] /\ watching' \in [Tasks -> SUBSET Watchers]
          /\ last' \in [Tasks -> 0..MaxTurns] /\ began' \in [Tasks -> 0..MaxTurns]
          /\ told' \in [Tasks -> Nat]
        BY <1>8, <2>4, <2>5, <2>6 DEF Redo, Watch, TypeOK
    <2> QED BY <1>1, <1>8, <2>7 DEF Redo, TypeOK
<1>9. CASE RedoFails(d)
    BY <1>1, <1>9, CardTypes, CallTypes DEF RedoFails, SetState, TypeOK
<1>10. ASSUME NEW w \in watching[d], WatchLooks(d, w) PROVE TypeOK'
    <2>1. w \in Watchers
        BY <1>10 DEF TypeOK
    <2>2. [w EXCEPT !.over = TRUE] \in Watchers
        BY <2>1 DEF Watchers
    <2>3. watching' \in [Tasks -> SUBSET Watchers]
        BY <1>10, <2>1, <2>2 DEF WatchLooks, TypeOK
    <2> QED BY <1>1, <1>10, <2>3 DEF WatchLooks, TypeOK
<1>11. ASSUME NEW w \in watching[d], OverBudget(d, w) PROVE TypeOK'
    <2>1. watching' \in [Tasks -> SUBSET Watchers]
        BY <1>11 DEF OverBudget, TypeOK
    <2> QED BY <1>1, <1>11, <2>1, CardTypes, CallTypes DEF OverBudget, SetState, TypeOK
<1> QED BY <1>2, <1>3, <1>4, <1>5, <1>6, <1>7, <1>8, <1>9, <1>10, <1>11 DEF CardStep

LEMMA ChildStepTypes ==
    ASSUME TypeOK, NEW d \in Tasks, phase[d] # "idle" => turn[d] > 0, ChildStep(d)
    PROVE  TypeOK'
<1> USE DEF threads, returning, history, Open, Closed, Slots
<1>1. turn[d] \in 0..MaxTurns /\ last[d] \in 0..MaxTurns /\ 0 \in 0..MaxTurns /\ TurnTypeOK
    BY MaxTurnsAssumption DEF TypeOK, TurnTypeOK
<1>2. CASE ChildTurnStarts(d)
    BY <1>1, <1>2, StartedTypes DEF ChildTurnStarts, TypeOK
<1>3. CASE ChildTurnEndedHere(d)
    <2>1. TurnTypeOK'
        BY <1>1, <1>3, AtSinksTypes DEF ChildTurnEndedHere
    <2>2. last' \in [Tasks -> 0..MaxTurns]
        BY <1>1, <1>3 DEF ChildTurnEndedHere, TypeOK
    <2> QED BY <1>3, <2>1, <2>2 DEF ChildTurnEndedHere, TypeOK
<1>4. ASSUME NEW r \in Reasons, ChildTurnEnds(d, r) PROVE TypeOK'
    <2>1. turn[d] > 0 BY <1>4 DEF ChildTurnEnds, TurnEnded
    <2> QED BY <1>1, <1>4, <2>1, EndedTypes DEF ChildTurnEnds, TypeOK
<1>5. CASE ChildDiff(d)
    <2>1. TurnTypeOK'
        BY <1>1, <1>5, NothingTypes, ChecksTypes DEF ChildDiff
    <2> QED BY <1>5, <2>1 DEF ChildDiff, TypeOK
<1>6. ASSUME NEW s \in settling[d], TurnSettled(d, s) PROVE TypeOK'
    <2>1. TurnTypeOK' /\ s.turn \in 0..MaxTurns
        BY <1>1, <1>6, SettledTypes DEF TurnSettled
    <2>2. UNCHANGED <<last, starting, watching, returns, pending, parent, history, setup>>
        BY <1>6 DEF TurnSettled
    <2>3. CASE SettledLate(d)
        BY <2>1, <2>2, <2>3 DEF SettledLate, TypeOK
    <2>4. CASE SettledFailed(d, s)
        <3>1. fails' \in [Tasks -> Nat]
            BY <2>4 DEF SettledFailed, TypeOK
        <3> QED BY <2>1, <2>2, <2>4, <3>1, CardTypes DEF SettledFailed, SetState, TypeOK
    <2>5. CASE SettledChecking(d, s)
        <3>1. [card[d] EXCEPT !.state = "checking", !.awaiting = s.turn] \in Cards
            BY <2>1, CardTypes DEF Cards
        <3>2. card' \in [Tasks -> Cards]
            BY <2>5, <3>1 DEF SettledChecking, TypeOK
        <3> QED BY <2>1, <2>2, <2>5, <3>2 DEF SettledChecking, TypeOK
    <2>6. CASE SettledDone(d, s)
        <3>1. reports' \in [Tasks -> Nat]
            BY <2>6 DEF SettledDone, TypeOK
        <3> QED BY <2>1, <2>2, <2>6, <3>1, CardTypes DEF SettledDone, SetState, TypeOK
    <2> QED BY <1>6, <2>3, <2>4, <2>5, <2>6 DEF TurnSettled
<1>7. CASE ChildCheckBegins(d)
    <2>1. TurnTypeOK'
        BY <1>1, <1>7, CheckTypes DEF ChildCheckBegins
    <2> QED BY <1>7, <2>1 DEF ChildCheckBegins, TypeOK
<1>8. ASSUME NEW c \in checks[d], NEW v \in Verdicts, ChildChecked(d, c, v) PROVE TypeOK'
    <2>1. TurnTypeOK'
        BY <1>1, <1>8, CheckTypes DEF ChildChecked
    <2>2. reports' \in [Tasks -> Nat]
        BY <1>8 DEF ChildChecked, TypeOK
    <2> QED BY <1>8, <2>1, <2>2 DEF ChildChecked, TypeOK
<1>9. CASE Report(d)
    <2>1. LastText(d) \in 0..MaxTurns
        BY <1>1 DEF LastText, Collecting
    <2>2. [card[d] EXCEPT !.state = "reported", !.awaiting = 0, !.result = LastText(d)] \in Cards
        BY <1>1, <2>1, CardTypes DEF Cards
    <2>3. card' \in [Tasks -> Cards] /\ last' \in [Tasks -> 0..MaxTurns]
        BY <1>9, <2>1, <2>2 DEF Report, TypeOK
    <2>4. reports' \in [Tasks -> Nat]
        BY <1>9 DEF Report, TypeOK
    <2>5. TurnTypeOK'
        BY <1>1, <1>9, TurnFrame DEF Report
    <2> QED BY <1>9, <2>3, <2>4, <2>5, CallTypes DEF Report, TypeOK
<1>10. CASE Fail(d)
    <2>1. fails' \in [Tasks -> Nat]
        BY <1>10 DEF Fail, TypeOK
    <2>2. card' \in [Tasks -> Cards] /\ due' \in 0..setup.returns
        <3>1. CASE SetState(d, "failed") /\ CallReturn
            BY <3>1, CardTypes, CallTypes DEF SetState
        <3>2. CASE UNCHANGED <<card, due>>
            BY <1>10, <3>2 DEF Fail, TypeOK
        <3> QED BY <1>10, <3>1, <3>2 DEF Fail
    <2>3. TurnTypeOK'
        BY <1>1, <1>10, TurnFrame DEF Fail
    <2> QED BY <1>10, <2>1, <2>2, <2>3 DEF Fail, TypeOK
<1> QED BY <1>2, <1>3, <1>4, <1>5, <1>6, <1>7, <1>8, <1>9, <1>10 DEF ChildStep

LEMMA ReturnStepTypes == ASSUME TypeOK, ReturnStep PROVE TypeOK'
<1> USE DEF threads, returning, history, Slots
<1>1. TurnTypeOK'
    <2>1. UNCHANGED turnVars
        BY DEF ReturnStep, ReturnBegins, ReturnAsks, ReturnSends, ParentTurnStarts,
               ParentTurnEnds, ParentTurnEnded
    <2> QED BY <2>1, TurnFrame DEF TypeOK
<1>2. NoReturn \in Returns
    BY DEF NoReturn, Returns
<1>3. CASE ReturnBegins
    <2>1. due' \in 0..setup.returns
        BY <1>3, SetupTypes DEF ReturnBegins, TypeOK
    <2>2. [step |-> "asking", ready |-> Unsent] \in Returns
        BY SetupTypes DEF Unsent, Returns
    <2>3. returns' \in [1..setup.returns -> Returns] /\ pending' \in BOOLEAN
        BY <1>3, <2>2 DEF ReturnBegins, TypeOK
    <2> QED BY <1>1, <1>3, <2>1, <2>3 DEF ReturnBegins, TypeOK
<1>4. ASSUME NEW i \in Slots, ReturnAsks(i) PROVE TypeOK'
    <2>1. returns[i] \in Returns
        BY DEF TypeOK
    <2>2. [returns[i] EXCEPT !.step = "sending"] \in Returns
        BY <2>1 DEF Returns
    <2>3. returns' \in [1..setup.returns -> Returns]
        BY <1>2, <1>4, <2>2 DEF ReturnAsks, TypeOK
    <2> QED BY <1>1, <1>4, <2>3 DEF ReturnAsks, TypeOK
<1>5. ASSUME NEW i \in Slots, ReturnSends(i) PROVE TypeOK'
    <2>1. returns' \in [1..setup.returns -> Returns]
        BY <1>2, <1>5 DEF ReturnSends, TypeOK
    <2>2. \A d \in Tasks : [card[d] EXCEPT !.sent = @ \/ d \in StillToSend(returns[i].ready)] \in Cards
        BY CardTypes DEF Cards
    <2>3. card' \in [Tasks -> Cards]
        BY <1>5, <2>2 DEF ReturnSends
    <2>4. told' \in [Tasks -> Nat]
        BY <1>5 DEF ReturnSends, Tell, TypeOK
    <2>5. dropped' \in BOOLEAN
        BY <1>5, Zenon DEF ReturnSends
    <2> QED BY <1>1, <1>5, <2>1, <2>3, <2>4, <2>5 DEF ReturnSends, TypeOK
<1>6. CASE ParentTurnStarts \/ ParentTurnEnds \/ ParentTurnEnded
    <2>1. due' \in 0..setup.returns
        BY <1>6, CallTypes DEF ParentTurnStarts, ParentTurnEnds, ParentTurnEnded, ParentAnnounced,
                             TypeOK
    <2> QED BY <1>1, <1>6, <2>1 DEF ParentTurnStarts, ParentTurnEnds, ParentTurnEnded, TypeOK
<1> QED BY <1>3, <1>4, <1>5, <1>6 DEF ReturnStep

-----------------------------------------------------------------------------
(* A step about one delegation leaves the others alone.                    *)
Same(e) ==
    /\ card'[e] = card[e] /\ told'[e] = told[e] /\ began'[e] = began[e]
    /\ last'[e] = last[e] /\ turn'[e] = turn[e] /\ phase'[e] = phase[e]

LEMMA SameKeeps ==
    ASSUME NEW e, CardInv(e), TextInv(e), Same(e) PROVE CardInv(e)' /\ TextInv(e)'
  BY DEF CardInv, TextInv, Same, IsClosed

LEMMA Elsewhere ==
    ASSUME TypeOK, NEW d \in Tasks, CardStep(d) \/ ChildStep(d), NEW e \in Tasks \ {d}
    PROVE  Same(e)
<1> USE DEF TypeOK, TurnTypeOK, Same, turnVars, history
<1>1. CASE CardStep(d)
    BY <1>1 DEF CardStep, Start, ChildUp, StartReturnsOk, StartReturnsErr, Stop, Send, Redo,
                RedoFails, WatchLooks, OverBudget, SetState, Tell
<1>2. CASE ChildStep(d)
    BY <1>2 DEF ChildStep, ChildTurnStarts, ChildTurnEndedHere, ChildTurnEnds, ChildDiff,
                TurnSettled, ChildCheckBegins, ChildChecked, Report, Fail, SettledLate, SettledFailed,
                SettledChecking, SettledDone, SetState, TurnStarted, TurnEnded, TurnEndedAtSinks,
                NothingToCheck, StartChecks, Settled, CheckBegins, CheckReports
<1> QED BY <1>1, <1>2

(* A card whose state moves to a closed one, or from an open one, and that *)
(* is otherwise as it was.                                                 *)
Moves(d) ==
    /\ card'[d].sent = card[d].sent /\ told'[d] = told[d]
    /\ card'[d].state = card[d].state \/ card'[d].state \in Closed \/ card[d].state \notin Closed

LEMMA MovesKeepCard == ASSUME NEW d, CardInv(d), Moves(d) PROVE CardInv(d)'
  BY DEF CardInv, Moves, IsClosed

LEMMA CardStepKeepsCard ==
    ASSUME TypeOK, NEW d \in Tasks, CardInv(d), CardStep(d)
    PROVE  CardInv(d)'
<1> USE DEF history
<1>1. card[d] \in Cards /\ card \in [Tasks -> Cards] /\ told \in [Tasks -> Nat]
    BY DEF TypeOK
<1>2. CASE \E s \in Open \cup Closed : SetState(d, s) /\ UNCHANGED told
                                   /\ (s \in Closed \/ card[d].state \notin Closed)
    <2>1. Moves(d)
        BY <1>1, <1>2 DEF SetState, Moves, Cards
    <2> QED BY <2>1, MovesKeepCard
<1>3. CASE UNCHANGED <<card, told>>
    <2>1. Moves(d)
        BY <1>3 DEF Moves
    <2> QED BY <2>1, MovesKeepCard
<1>4. CASE Send(d)
    BY <1>1, <1>4 DEF Send, Tell, CardInv, IsClosed, Cards
<1>5. CASE Redo(d)
    BY <1>1, <1>5 DEF Redo, CardInv, IsClosed, Cards
<1>6. Start(d) => SetState(d, "starting") /\ UNCHANGED told /\ card[d].state = "none"
    BY DEF Start
<1>7. StartReturnsOk(d) =>
        \/ SetState(d, "running") /\ UNCHANGED told /\ card[d].state = "starting"
        \/ UNCHANGED <<card, told>>
    BY DEF StartReturnsOk
<1>8. Stop(d) => SetState(d, "stopped") /\ UNCHANGED told
    BY DEF Stop
<1>9. StartReturnsErr(d) \/ RedoFails(d) => SetState(d, "failed") /\ UNCHANGED told
    BY DEF StartReturnsErr, RedoFails
<1>10. \A w : OverBudget(d, w) => SetState(d, "overBudget") /\ UNCHANGED told
    BY DEF OverBudget
<1>11. ChildUp(d) \/ (\E w : WatchLooks(d, w)) => UNCHANGED <<card, told>>
    BY DEF ChildUp, WatchLooks
<1> QED BY <1>2, <1>3, <1>4, <1>5, <1>6, <1>7, <1>8, <1>9, <1>10, <1>11 DEF CardStep, Open, Closed

LEMMA ChildStepKeepsCard ==
    ASSUME TypeOK, NEW d \in Tasks, CardInv(d), ChildStep(d)
    PROVE  CardInv(d)'
<1>1. card[d] \in Cards /\ card \in [Tasks -> Cards]
    BY DEF TypeOK
<1>2. UNCHANGED told
    BY DEF ChildStep, ChildTurnStarts, ChildTurnEndedHere, ChildTurnEnds, ChildDiff,
           TurnSettled, ChildCheckBegins, ChildChecked, Report, Fail, history
<1>3. ASSUME UNCHANGED card PROVE Moves(d)
    BY <1>2, <1>3 DEF Moves
<1>4. ASSUME Report(d) PROVE Moves(d)
    <2>1. card'[d] = [card[d] EXCEPT !.state = "reported", !.awaiting = 0, !.result = LastText(d)]
        BY <1>1, <1>4 DEF Report
    <2> QED BY <1>1, <1>2, <2>1 DEF Moves, Cards, Closed
<1>5. ASSUME NEW s \in settling[d], TurnSettled(d, s) PROVE Moves(d)
    <2>1. SettledLate(d) => UNCHANGED card
        BY DEF SettledLate
    <2>2. SettledFailed(d, s) => UnderWay(d) /\ card'[d] = [card[d] EXCEPT !.state = "running"]
        BY <1>1 DEF SettledFailed, SetState
    <2>3. SettledChecking(d, s) =>
             UnderWay(d) /\ card'[d] = [card[d] EXCEPT !.state = "checking", !.awaiting = s.turn]
        BY <1>1 DEF SettledChecking
    <2>4. SettledDone(d, s) => UnderWay(d) /\ card'[d] = [card[d] EXCEPT !.state = "running"]
        BY <1>1 DEF SettledDone, SetState
    <2>5. SettledLate(d) \/ SettledFailed(d, s) \/ SettledChecking(d, s) \/ SettledDone(d, s)
        BY <1>5 DEF TurnSettled
    <2> QED BY <1>1, <1>2, <1>3, <2>1, <2>2, <2>3, <2>4, <2>5 DEF Moves, Cards, Closed, UnderWay
<1>6. ASSUME Fail(d) PROVE Moves(d)
    BY <1>1, <1>2, <1>6 DEF Fail, SetState, Moves, Cards, Closed
<1>7. Moves(d)
    BY <1>3, <1>4, <1>5, <1>6 DEF ChildStep, ChildTurnStarts, ChildTurnEndedHere, ChildTurnEnds,
                            ChildDiff, ChildCheckBegins, ChildChecked
<1> QED BY <1>7, MovesKeepCard

LEMMA ReturnStepKeepsCard ==
    ASSUME TypeOK, NEW d \in Tasks, CardInv(d), ReturnStep
    PROVE  CardInv(d)'
<1>1. ASSUME NEW i \in Slots, ReturnSends(i) PROVE CardInv(d)'
    <2> DEFINE ds == StillToSend(returns[i].ready)
    <2>1. /\ card'[d] = [card[d] EXCEPT !.sent = @ \/ d \in ds]
          /\ told'[d] = IF d \in ds THEN told[d] + 1 ELSE told[d]
        BY <1>1 DEF ReturnSends, Tell
    <2>2. card[d] \in Cards
        BY DEF TypeOK
    <2>3. d \in ds => ~card[d].sent /\ IsClosed(d)
        BY DEF StillToSend
    <2>4. card'[d].state = card[d].state /\ card'[d].sent = (card[d].sent \/ d \in ds)
        BY <2>1, <2>2 DEF Cards
    <2>5. card[d].sent \in BOOLEAN
        BY <2>2 DEF Cards
    <2> HIDE DEF ds
    <2>6. CASE d \in ds
        <3>1. card'[d].sent
            BY <2>4, <2>6
        <3>2. told'[d] = 1
            BY <2>1, <2>3, <2>6 DEF CardInv
        <3> QED BY <2>3, <2>4, <2>6, <3>1, <3>2 DEF CardInv, IsClosed
    <2>7. CASE d \notin ds
        BY <2>1, <2>4, <2>5, <2>7 DEF CardInv, IsClosed
    <2> QED BY <2>6, <2>7
<1>2. ASSUME UNCHANGED <<card, told>> PROVE CardInv(d)'
    BY <1>2 DEF CardInv, IsClosed
<1> QED BY <1>1, <1>2 DEF ReturnStep, ReturnBegins, ReturnAsks, ParentTurnStarts, ParentTurnEnds,
                         ParentTurnEnded, history

(* Only redo moves the beginning of a run, and it forgets the run's text;  *)
(* a text is taken from the turn that runs or ends.                        *)
LEMMA CardStepKeepsText ==
    ASSUME TypeOK, NEW d \in Tasks, TextInv(d), CardStep(d)
    PROVE  TextInv(d)'
<1>1. /\ card[d] \in Cards /\ card \in [Tasks -> Cards] /\ began \in [Tasks -> 0..MaxTurns]
      /\ last \in [Tasks -> 0..MaxTurns] /\ turn[d] \in 0..MaxTurns
    BY DEF TypeOK, TurnTypeOK
<1>2. turn' = turn /\ phase' = phase
    BY DEF CardStep, Start, ChildUp, StartReturnsOk, StartReturnsErr, Stop, Send, Redo,
           RedoFails, WatchLooks, OverBudget, turnVars
<1>3. CASE Redo(d)
    <2>1. /\ card'[d].state = "running" /\ last'[d] = 0
          /\ began'[d] = IF Quiet(d) THEN turn[d] ELSE 0
        BY <1>1, <1>3 DEF Redo, Cards
    <2>2. began'[d] <= turn[d] /\ (phase[d] # "idle" => began'[d] < turn[d])
        BY <1>1, <2>1, MaxTurnsAssumption DEF Quiet, TextInv, TypeOK
    <2> QED BY <1>2, <2>1, <2>2 DEF TextInv
<1>4. ASSUME ~Redo(d) PROVE UNCHANGED <<last, began>>
    BY <1>4 DEF CardStep, Start, ChildUp, StartReturnsOk, StartReturnsErr, Stop, Send,
           RedoFails, WatchLooks, OverBudget, history
<1>5. ASSUME ~Redo(d)
      PROVE  card'[d].state = "reported" => card[d].state = "reported" /\ card'[d].result = card[d].result
    <2>1. ASSUME NEW s \in {"starting", "running", "failed", "stopped", "overBudget"}, SetState(d, s)
          PROVE  card'[d].state # "reported"
        BY <1>1, <2>1 DEF SetState, Cards
    <2>2. CASE Send(d)
        BY <1>1, <2>2 DEF Send, Cards
    <2> QED BY <1>5, <2>1, <2>2 DEF CardStep, Start, ChildUp, StartReturnsOk, StartReturnsErr, Stop,
           RedoFails, WatchLooks, OverBudget
<1>6. CASE ~Redo(d)
    BY <1>2, <1>4, <1>5, <1>6 DEF TextInv
<1> QED BY <1>3, <1>6

LEMMA ChildStepKeepsText ==
    ASSUME TypeOK, NEW d \in Tasks, TextInv(d), ChildStep(d)
    PROVE  TextInv(d)'
<1>1. /\ card[d] \in Cards /\ card \in [Tasks -> Cards] /\ began[d] \in Nat
      /\ last \in [Tasks -> 0..MaxTurns] /\ turn \in [Tasks -> 0..MaxTurns] /\ turn[d] \in Nat
      /\ phase \in [Tasks -> {"idle", "active", "ending"}]
    BY MaxTurnsAssumption DEF TypeOK, TurnTypeOK
<1>2. UNCHANGED began
    BY DEF ChildStep, ChildTurnStarts, ChildTurnEndedHere, ChildTurnEnds, ChildDiff,
           TurnSettled, ChildCheckBegins, ChildChecked, Report, Fail, history
<1>3. CASE ChildTurnStarts(d)
    <2>1. /\ turn'[d] = turn[d] + 1 /\ UNCHANGED <<last, card>>
        BY <1>1, <1>3 DEF ChildTurnStarts, TurnStarted
    <2> QED BY <1>1, <1>2, <2>1 DEF TextInv
<1>4. CASE ChildTurnEndedHere(d)
    <2>1. /\ phase[d] = "ending" /\ phase'[d] = "idle" /\ UNCHANGED <<turn, card>>
          /\ last'[d] \in {turn[d], last[d]}
        BY <1>1, <1>4 DEF ChildTurnEndedHere, TurnEndedAtSinks
    <2> QED BY <1>2, <2>1 DEF TextInv
<1>5. ASSUME NEW r, ChildTurnEnds(d, r) PROVE TextInv(d)'
    <2>1. phase[d] = "active" /\ UNCHANGED <<turn, card, last>>
        BY <1>5 DEF ChildTurnEnds, TurnEnded
    <2> QED BY <1>2, <2>1 DEF TextInv
<1>6. CASE Report(d)
    <2>1. LastText(d) = 0 \/ began[d] < LastText(d)
        BY DEF LastText, Collecting, TextInv
    <2>2. /\ UNCHANGED <<turn, phase>> /\ last'[d] = LastText(d)
          /\ card'[d].result = LastText(d)
        BY <1>1, <1>6 DEF Report, turnVars, Cards
    <2> QED BY <1>2, <2>1, <2>2 DEF TextInv
<1>7. CASE /\ UNCHANGED <<turn, phase, last>>
           /\ card'[d].state = "reported" => card'[d] = card[d]
    BY <1>2, <1>7 DEF TextInv
<1>8. ASSUME NEW s \in settling[d], TurnSettled(d, s)
      PROVE  /\ UNCHANGED <<turn, phase, last>>
             /\ card'[d].state = "reported" => card'[d] = card[d]
    <2>1. SettledLate(d) => UNCHANGED card
        BY DEF SettledLate
    <2>2. SettledFailed(d, s) => card'[d].state = "running"
        BY <1>1 DEF SettledFailed, SetState, Cards
    <2>3. SettledChecking(d, s) => card'[d].state = "checking"
        BY <1>1 DEF SettledChecking, Cards
    <2>4. SettledDone(d, s) => card'[d].state = "running"
        BY <1>1 DEF SettledDone, SetState, Cards
    <2> QED BY <1>8, <2>1, <2>2, <2>3, <2>4 DEF TurnSettled, Settled
<1>9. ChildDiff(d) \/ ChildCheckBegins(d) \/ (\E c, v : ChildChecked(d, c, v)) =>
        UNCHANGED <<turn, phase, last, card>>
    BY DEF ChildDiff, ChildCheckBegins, ChildChecked, NothingToCheck, StartChecks, CheckBegins,
           CheckReports
<1>10. Fail(d) => /\ UNCHANGED <<turn, phase, last>>
                  /\ card'[d].state = "reported" => card'[d] = card[d]
    BY <1>1 DEF Fail, SetState, turnVars, Cards
<1> QED BY <1>3, <1>4, <1>5, <1>6, <1>7, <1>8, <1>9, <1>10 DEF ChildStep

LEMMA ReturnStepKeepsText ==
    ASSUME TypeOK, NEW d \in Tasks, TextInv(d), ReturnStep
    PROVE  TextInv(d)'
<1>1. UNCHANGED <<turn, phase, last, began>>
    BY DEF ReturnStep, ReturnBegins, ReturnAsks, ReturnSends, ParentTurnStarts, ParentTurnEnds,
           ParentTurnEnded, turnVars, history
<1>2. card'[d].state = card[d].state /\ card'[d].result = card[d].result
    <2>1. ASSUME NEW i \in Slots, ReturnSends(i)
          PROVE  card'[d].state = card[d].state /\ card'[d].result = card[d].result
        <3>1. card[d] \in Cards
            BY DEF TypeOK
        <3> QED BY <2>1, <3>1 DEF ReturnSends, Cards
    <2> QED BY <2>1 DEF ReturnStep, ReturnBegins, ReturnAsks, ParentTurnStarts, ParentTurnEnds,
                        ParentTurnEnded
<1> QED BY <1>1, <1>2 DEF TextInv

-----------------------------------------------------------------------------
LEMMA InitHolds == Init => IInv
<1> SUFFICES ASSUME Init PROVE IInv
    OBVIOUS
<1>1. NoCard \in Cards /\ NoReturn \in Returns /\ ~NoCard.sent /\ NoCard.state = "none"
    BY MaxTurnsAssumption, DelegationAssumption DEF NoCard, Cards, NoReturn, Returns
<1>2. TurnTypeOK
    BY MaxTurnsAssumption DEF Init, TurnInit, TurnTypeOK
<1>3. setup \in Setups /\ setup.returns \in Nat
    BY DelegationAssumption DEF Init
<1>4. returns \in [Slots -> Returns] /\ due \in 0..setup.returns
    BY <1>1, <1>3 DEF Init
<1>5. /\ card \in [Tasks -> Cards] /\ watching \in [Tasks -> SUBSET Watchers]
      /\ starting \in [Tasks -> {"no", "calling", "up", "returned"}]
    BY <1>1 DEF Init
<1>6. /\ last \in [Tasks -> 0..MaxTurns] /\ began \in [Tasks -> 0..MaxTurns]
      /\ reports \in [Tasks -> Nat] /\ fails \in [Tasks -> Nat] /\ told \in [Tasks -> Nat]
    BY MaxTurnsAssumption DEF Init
<1>7. pending \in BOOLEAN /\ dropped \in BOOLEAN /\ parent \in {"idle", "active", "clearing"}
    BY DEF Init
<1>8. TypeOK
    BY <1>2, <1>3, <1>4, <1>5, <1>6, <1>7 DEF TypeOK
<1>9. \A d \in Tasks : CardInv(d) /\ TextInv(d)
    BY <1>1 DEF Init, TurnInit, CardInv, TextInv
<1> QED BY <1>8, <1>9 DEF IInv

LEMMA NextKeeps == IInv /\ [Next]_vars => IInv'
<1> SUFFICES ASSUME IInv, [Next]_vars PROVE IInv'
    OBVIOUS
<1> USE DEF IInv
<1>1. CASE UNCHANGED vars
    <2>1. TypeOK'
        BY <1>1, TurnFrame DEF vars, threads, returning, history, TypeOK, Slots
    <2>2. \A d \in Tasks : Same(d)
        BY <1>1 DEF vars, turnVars, history, Same
    <2> QED BY <2>1, <2>2, SameKeeps
<1>2. ASSUME NEW d \in Tasks, CardStep(d) \/ ChildStep(d) PROVE IInv'
    <2>1. phase[d] # "idle" => turn[d] > 0
        BY MaxTurnsAssumption DEF TextInv, TypeOK, TurnTypeOK
    <2>2. TypeOK'
        BY <1>2, <2>1, CardStepTypes, ChildStepTypes
    <2>3. CardInv(d)' /\ TextInv(d)'
        BY <1>2, CardStepKeepsCard, ChildStepKeepsCard, CardStepKeepsText, ChildStepKeepsText
    <2>4. \A e \in Tasks \ {d} : CardInv(e)' /\ TextInv(e)'
        BY <1>2, Elsewhere, SameKeeps
    <2> QED BY <2>2, <2>3, <2>4
<1>3. CASE ReturnStep
    BY <1>3, ReturnStepTypes, ReturnStepKeepsCard, ReturnStepKeepsText
<1> QED BY <1>1, <1>2, <1>3, NextSplit

(* Every reachable state is well typed, its cards agree with what was told *)
(* and its texts are of the run they are shown for.                        *)
THEOREM AlwaysIInv == Spec => []IInv
  BY InitHolds, NextKeeps, PTL DEF Spec

(* The result of a run reaches the parent once at most, however many       *)
(* threads are in try_return while the user sends it by hand.              *)
THEOREM AlwaysToldOnce == Spec => []ToldOnce
<1>1. IInv => ToldOnce
    BY DEF IInv, CardInv, ToldOnce
<1> QED BY <1>1, AlwaysIInv, PTL

(* No card is marked as sent while its child works: redo, try_return's     *)
(* second look and the lock on the cards see to it.                        *)
THEOREM AlwaysSentIsClosed == Spec => []SentIsClosed
<1>1. IInv => SentIsClosed
    BY DEF IInv, CardInv, SentIsClosed
<1> QED BY <1>1, AlwaysIInv, PTL

(* What a card reports was said after its run began.                       *)
THEOREM AlwaysResultIsThisRuns == Spec => []ResultIsThisRuns
<1>1. IInv => ResultIsThisRuns
    BY MaxTurnsAssumption DEF IInv, TextInv, ResultIsThisRuns, TypeOK, Cards
<1> QED BY <1>1, AlwaysIInv, PTL

-----------------------------------------------------------------------------
(* Permission decay, for every contract, role and parent mode.             *)

(* What a role wants, clamped, is a permission no higher than the parent's. *)
LEMMA LesserIsLess ==
    ASSUME NEW p, NEW mode
    PROVE  /\ Lesser(p, mode) \in Permissions
           /\ Rank(Lesser(p, mode)) <= ParentRank(mode)
  BY DEF Lesser, Permissions, Rank, ParentRank

(* The rule of Delegations::resolve: an accepted contract never gives the  *)
(* child more than its parent has, nor a read-only child the right to write. *)
THEOREM PermissionDecays ==
    \A mode : \A contract \in Contracts, role \in Roles : Decays(contract, role, mode)
<1> SUFFICES ASSUME NEW mode, NEW contract \in Contracts, NEW role \in Roles,
                    ~Refused(contract, role, mode)
             PROVE  LET p == PermissionOf(contract, role, mode) IN
                    /\ p \in Permissions
                    /\ Rank(p) <= ParentRank(mode)
                    /\ WorkspaceOf(contract, role) = "readOnly" => p = "plan"
    BY DEF Decays
<1>1. CASE contract.permission # "unset"
    <2>1. contract.permission \in Permissions /\ contract.permission # "other"
        BY <1>1 DEF Refused, Contracts
    <2>2. Rank(contract.permission) \in Nat /\ ParentRank(mode) \in Nat
        BY <2>1 DEF Rank, ParentRank, Permissions
    <2> QED BY <1>1, <2>1, <2>2 DEF Refused, PermissionOf
<1>2. CASE contract.permission = "unset" /\ WorkspaceOf(contract, role) = "readOnly"
    <2>1. PermissionOf(contract, role, mode) = "plan"
        BY <1>2 DEF PermissionOf
    <2>2. Rank("plan") = 0 /\ "plan" \in Permissions
        BY DEF Rank, Permissions
    <2>3. ParentRank(mode) \in Nat
        BY DEF ParentRank, Rank, Permissions
    <2> QED BY <2>1, <2>2, <2>3
<1>3. CASE contract.permission = "unset" /\ WorkspaceOf(contract, role) # "readOnly"
    <2>1. PermissionOf(contract, role, mode) = Lesser(role.permission, mode)
        BY <1>3 DEF PermissionOf
    <2> QED BY <1>3, <2>1, LesserIsLess
<1> QED BY <1>1, <1>2, <1>3
=============================================================================
