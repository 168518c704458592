--------------------------- MODULE Review_proofs ----------------------------
(***************************************************************************)
(* The review loop is never forgotten, for every bound on turns and rounds *)
(* and every race of the three threads of a turn with the reviewer's.      *)
(***************************************************************************)
EXTENDS Review, TLAPS

(* A loop that waits for the writer.  The two halves of an answer are put  *)
(* together as soon as both are there; the first is there when the turn is *)
(* over, and the second has still to come when the turn is ending.         *)
AnswerInv ==
    loop.state = "waitingCoder" =>
        /\ ~Resolvable(loop)
        /\ loop.replying /\ phase[Writer] = "idle" => loop.answered
        /\ loop.replying /\ phase[Writer] = "ending" /\ loop.answerDiff = "unset" =>
              settling[Writer] # {}

TurnInv == phase[Writer] # "idle" => turn[Writer] > 0

(* A reviewer that start_reviewer has not returned yet is known to nobody, *)
(* and its first turn is to come or running, or its verdict was missed;    *)
(* the loop and the prompts are of reviewers that are known.               *)
KnownInv ==
    /\ loop.reviewer \in registered \cup {0}
    /\ \A r \in Reviewers : prompting[r] > 0 => r \in registered
    /\ \A r \in starting : r \notin registered /\ (missed \/ asked[r] > 0 \/ r \in reviewing)

IInv == TypeOK /\ TurnInv /\ ReviewIsUnderWay /\ AnswerInv /\ AnswerIsUnderWay

(* What keeps a review going, and an answer.                               *)
Awaited(l) == \E c \in checks[Writer] : c.turn = l.awaiting
Told == acts["promptWriter"] > 0 \/ prompts > 0
Answering(l) == l.replying /\ (phase[Writer] # "idle" \/ settling[Writer] # {})

LEMMA Goals ==
    /\ ReviewIsUnderWay <=> (loop.state = "reviewing" /\ ~missed => ReviewerAtWork \/ Awaited(loop))
    /\ AnswerIsUnderWay <=> (loop.state = "waitingCoder" => Told \/ Answering(loop))
BY DEF ReviewIsUnderWay, AnswerIsUnderWay, Awaited, Told, Answering

-----------------------------------------------------------------------------
(* The tracker's steps: types, and that no check run is forgotten.         *)
ChecksKept == \A c \in checks[Writer] : \E e \in checks'[Writer] : e.turn = c.turn

LEMMA WriterIsTask == Writer \in Tasks
BY ReviewAssumption

LEMMA CancelledKeeps ==
    ASSUME TurnTypeOK
    PROVE  /\ Cancelled(Writer) \subseteq Checks
           /\ \A c \in checks[Writer] : \E e \in Cancelled(Writer) : e.turn = c.turn
<1>1. \A c \in checks[Writer] : c \in Checks
  BY WriterIsTask DEF TurnTypeOK
<1>2. \A c \in Checks : /\ [c EXCEPT !.cancel = TRUE] \in Checks
                        /\ [c EXCEPT !.cancel = TRUE].turn = c.turn
  BY DEF Checks
<1> QED BY <1>1, <1>2 DEF Cancelled

LEMMA StartedKeeps ==
    ASSUME TurnTypeOK, TurnStarted(Writer)
    PROVE  /\ TurnTypeOK' /\ ChecksKept /\ settling' = settling
           /\ phase'[Writer] = "active" /\ turn'[Writer] > 0
<1>1. turn[Writer] + 1 \in 0..MaxTurns /\ turn[Writer] + 1 > 0
  BY WriterIsTask, MaxTurnsAssumption DEF TurnTypeOK, TurnStarted
<1>2. checks' \in [Tasks -> SUBSET Checks] /\ checks'[Writer] = Cancelled(Writer)
  BY CancelledKeeps, WriterIsTask DEF TurnTypeOK, TurnStarted
<1>3. ChecksKept
  BY <1>2, CancelledKeeps DEF ChecksKept
<1> QED BY <1>1, <1>2, <1>3, WriterIsTask, MaxTurnsAssumption DEF TurnTypeOK, TurnStarted

LEMMA EndedKeeps ==
    ASSUME TurnTypeOK, TurnInv, NEW reason \in Reasons, TurnEnded(Writer, reason)
    PROVE  /\ TurnTypeOK' /\ checks' = checks /\ turn' = turn
           /\ phase[Writer] = "active" /\ phase'[Writer] = "ending" /\ settling'[Writer] # {}
<1>1. [turn |-> turn[Writer], reason |-> reason, step |-> "diff", diff |-> FALSE,
       checking |-> FALSE] \in Settling
  BY WriterIsTask, MaxTurnsAssumption DEF TurnTypeOK, TurnInv, TurnEnded, Settling, Turns
<1>2. Writer \in Tracked
  BY ReviewAssumption
<1> QED BY <1>1, <1>2, WriterIsTask DEF TurnTypeOK, TurnEnded

LEMMA DiffKeeps ==
    ASSUME TurnTypeOK, NEW s \in settling[Writer],
           StartChecks(Writer, s) \/ \E changed \in BOOLEAN : NothingToCheck(Writer, s, changed)
    PROVE  /\ TurnTypeOK' /\ ChecksKept /\ turn' = turn /\ phase' = phase
           /\ settling'[Writer] # {}
<1>1. s \in Settling
  BY WriterIsTask DEF TurnTypeOK
<1>2. CASE StartChecks(Writer, s)
  <2>1. [s EXCEPT !.step = "hook", !.diff = TRUE, !.checking = TRUE] \in Settling
    BY <1>1 DEF Settling
  <2>2. /\ [turn |-> s.turn, step |-> "spawned", cancel |-> FALSE] \in Checks
        /\ s.turn \in 0..MaxTurns
    BY <1>1 DEF Settling, Checks, Turns
  <2>3. /\ checks' \in [Tasks -> SUBSET Checks]
        /\ Cancelled(Writer) \subseteq checks'[Writer]
    BY <1>2, <2>2, CancelledKeeps, WriterIsTask DEF TurnTypeOK, StartChecks
  <2>4. ChecksKept
    BY <2>3, CancelledKeeps DEF ChecksKept
  <2> QED BY <1>2, <2>1, <2>2, <2>3, <2>4, WriterIsTask DEF TurnTypeOK, StartChecks
<1>3. ASSUME NEW changed \in BOOLEAN, NothingToCheck(Writer, s, changed)
      PROVE  /\ TurnTypeOK' /\ ChecksKept /\ turn' = turn /\ phase' = phase
             /\ settling'[Writer] # {}
  <2>1. [s EXCEPT !.step = "hook", !.diff = changed] \in Settling
    BY <1>1 DEF Settling
  <2> QED BY <1>3, <2>1, WriterIsTask DEF TurnTypeOK, NothingToCheck, ChecksKept
<1> QED BY <1>2, <1>3

LEMMA SettledKeeps ==
    ASSUME TurnTypeOK, NEW s \in settling[Writer], Settled(Writer, s)
    PROVE  TurnTypeOK' /\ UNCHANGED <<turn, phase, checks>> /\ s \in Settling /\ s.turn \in 1..MaxTurns
<1>1. s \in Settling
  BY WriterIsTask DEF TurnTypeOK
<1>2. s.turn \in 1..MaxTurns
  BY <1>1 DEF Settling, Turns
<1> QED BY <1>1, <1>2 DEF TurnTypeOK, Settled

LEMMA CheckKeeps ==
    ASSUME TurnTypeOK, NEW c \in checks[Writer]
    PROVE  /\ c \in Checks /\ c.turn \in 1..MaxTurns
           /\ CheckBegins(Writer, c) =>
                  TurnTypeOK' /\ ChecksKept /\ UNCHANGED <<turn, phase, settling>>
           /\ \A v : CheckReports(Writer, c, v) =>
                  /\ TurnTypeOK' /\ UNCHANGED <<turn, phase, settling>>
                  /\ \A e \in checks[Writer] : e.turn # c.turn => e \in checks'[Writer]
<1>1. c \in Checks
  BY WriterIsTask DEF TurnTypeOK
<1>2. c.turn \in 1..MaxTurns
  BY <1>1 DEF Checks, Turns
<1>3. ASSUME CheckBegins(Writer, c)
      PROVE  TurnTypeOK' /\ ChecksKept /\ UNCHANGED <<turn, phase, settling>>
  <2>1. [c EXCEPT !.step = "running"] \in Checks /\ [c EXCEPT !.step = "running"].turn = c.turn
    BY <1>1 DEF Checks
  <2>2. checks'[Writer] = (checks[Writer] \ {c}) \cup {[c EXCEPT !.step = "running"]}
    BY <1>3, WriterIsTask DEF TurnTypeOK, CheckBegins
  <2>3. ChecksKept
    BY <2>1, <2>2 DEF ChecksKept
  <2> QED BY <1>3, <2>1, <2>3, WriterIsTask DEF TurnTypeOK, CheckBegins
<1>4. ASSUME NEW v, CheckReports(Writer, c, v)
      PROVE  /\ TurnTypeOK' /\ UNCHANGED <<turn, phase, settling>>
             /\ \A e \in checks[Writer] : e.turn # c.turn => e \in checks'[Writer]
  BY <1>4, WriterIsTask, MaxTurnsAssumption DEF TurnTypeOK, CheckReports
<1> QED BY <1>1, <1>2, <1>3, <1>4

-----------------------------------------------------------------------------
(* The loop's card.                                                        *)
LEMMA LoopShapes ==
    ASSUME NEW l \in Loops
    PROVE  /\ \A s \in States : /\ [l EXCEPT !.state = s] \in Loops
                                /\ [l EXCEPT !.state = s].state = s
           /\ AnswerCleared(l) \in Loops
           /\ ToWriter(l) \in Loops /\ ToWriter(l).state = "waitingCoder"
           /\ ToWriter(l).replying = FALSE /\ ToWriter(l).answered = FALSE
<1>1. \A s \in States : [l EXCEPT !.state = s] \in Loops /\ [l EXCEPT !.state = s].state = s
  BY DEF Loops
<1>2. AnswerCleared(l) \in Loops
  BY DEF Loops, AnswerCleared
<1>3. /\ AnswerCleared(l).replying = FALSE /\ AnswerCleared(l).answered = FALSE
  BY DEF Loops, AnswerCleared
<1>4. ToWriter(l) \in Loops
  BY <1>2 DEF Loops, States, ToWriter
<1>5. /\ ToWriter(l).state = "waitingCoder"
      /\ ToWriter(l).replying = AnswerCleared(l).replying
      /\ ToWriter(l).answered = AnswerCleared(l).answered
  BY <1>2 DEF Loops, ToWriter
<1> QED BY <1>1, <1>2, <1>3, <1>4, <1>5

LEMMA OpenedShape ==
    ASSUME TypeOK, NEW t \in 0..MaxTurns, NEW same \in BOOLEAN
    PROVE  /\ Opened(t, same) \in Loops /\ Opened(t, same).state = "reviewing"
           /\ [Opened(t, same) EXCEPT !.awaiting = t] \in Loops
           /\ [Opened(t, same) EXCEPT !.awaiting = t].state = "reviewing"
           /\ [Opened(t, same) EXCEPT !.awaiting = t].awaiting = t
<1>1. NoLoop \in Loops
  BY ReviewAssumption, MaxTurnsAssumption DEF NoLoop, Loops, States
<1>2. loop.reviewer \in 0..MaxReviewers /\ 0 \in 0..MaxReviewers /\ 1 \in 0..MaxRounds
  BY ReviewAssumption DEF TypeOK, Loops
<1>3. Opened(t, same) \in Loops /\ Opened(t, same).state = "reviewing"
  BY <1>1, <1>2 DEF Opened, Loops, States
<1>4. /\ [Opened(t, same) EXCEPT !.awaiting = t] \in Loops
      /\ [Opened(t, same) EXCEPT !.awaiting = t].state = Opened(t, same).state
      /\ [Opened(t, same) EXCEPT !.awaiting = t].awaiting = t
  BY <1>3 DEF Loops
<1> QED BY <1>3, <1>4

LEMMA ReviewerNamed == \A l \in Loops : l.reviewer \in 0..MaxReviewers
  BY DEF Loops

LEMMA NextRoundShape ==
    ASSUME NEW l \in Loops, l.round < MaxRounds
    PROVE  /\ NextRound(l) \in Loops /\ NextRound(l).state = "reviewing"
           /\ l.answerChecking => NextRound(l).awaiting = l.answerTurn
<1>1. l.round + 1 \in 0..MaxRounds
  BY ReviewAssumption DEF Loops
<1>2. AnswerCleared(l) \in Loops /\ AnswerCleared(l).round = l.round
  BY DEF AnswerCleared, Loops
<1>3. l.answerTurn \in 0..MaxTurns /\ l.answerOf \in 0..MaxTurns
  BY DEF Loops
<1>4. NextRound(l) \in Loops
  <2>1. "reviewing" \in States
    BY DEF States
  <2> QED BY <1>1, <1>2, <1>3, <2>1 DEF NextRound, Loops
<1>5. NextRound(l).state = "reviewing" /\ (l.answerChecking => NextRound(l).awaiting = l.answerTurn)
  BY <1>2 DEF NextRound, Loops
<1> QED BY <1>4, <1>5

-----------------------------------------------------------------------------
(* The threads that run() spawns.                                          *)
ActTypes == acts \in [Kinds -> Nat] /\ prompting \in [Reviewers -> Nat]

LEMMA RunKeeps ==
    ASSUME TypeOK, NEW kind \in Kinds, Run(kind)
    PROVE  acts' \in [Kinds -> Nat] /\ acts'[kind] > 0 /\ \A k \in Kinds : acts'[k] >= acts[k]
BY DEF TypeOK, Run

(* The reviewer the loop names is at work, or a new one is being started.  *)
LEMMA ReviewActKeeps ==
    ASSUME TypeOK, NEW l, l.reviewer \in 0..MaxReviewers, ReviewAct(l), loop'.reviewer = l.reviewer
    PROVE  ActTypes' /\ ReviewerAtWork' /\ acts'["promptWriter"] = acts["promptWriter"]
<1>1. /\ acts \in [Kinds -> Nat] /\ prompting \in [Reviewers -> Nat]
      /\ "start" \in Kinds /\ "promptWriter" \in Kinds
  BY DEF TypeOK, Kinds
<1>2. CASE l.reviewer = 0
  <2>1. acts' = [acts EXCEPT !["start"] = @ + 1] /\ prompting' = prompting
    BY <1>2 DEF ReviewAct, Run
  <2>2. acts'["start"] > 0 /\ acts' \in [Kinds -> Nat] /\ acts'["promptWriter"] = acts["promptWriter"]
    BY <1>1, <2>1
  <2> QED BY <1>1, <1>2, <2>1, <2>2 DEF ReviewerAtWork, ActTypes
<1>3. CASE l.reviewer # 0
  <2>1. l.reviewer \in Reviewers
    BY <1>3, ReviewAssumption DEF Reviewers
  <2>2. prompting' = [prompting EXCEPT ![l.reviewer] = @ + 1] /\ acts' = acts
    BY <1>3 DEF ReviewAct
  <2>3. prompting' \in [Reviewers -> Nat] /\ prompting'[l.reviewer] > 0
    BY <1>1, <2>1, <2>2
  <2> QED BY <1>1, <1>3, <2>2, <2>3 DEF ReviewerAtWork, AtWork, ActTypes
<1> QED BY <1>2, <1>3

-----------------------------------------------------------------------------
(* How a step may leave the loop.                                          *)
RestTypes ==
    /\ lastDiff \in 0..MaxTurns /\ checksDone \in 0..MaxTurns
    /\ ActTypes /\ starting \subseteq Reviewers /\ registered \subseteq Reviewers
    /\ asked \in [Reviewers -> Nat] /\ reviewing \subseteq Reviewers /\ prompts \in Nat
    /\ missed \in BOOLEAN

LEMMA LeavesReviewing ==
    ASSUME TurnTypeOK', TurnInv', RestTypes', loop' \in Loops, loop'.state = "reviewing",
           missed' \/ ReviewerAtWork' \/ Awaited(loop)'
    PROVE  IInv'
<1>1. TypeOK'
  BY DEF TypeOK, RestTypes, ActTypes
<1>2. ReviewIsUnderWay'
  BY DEF ReviewIsUnderWay, Awaited
<1>3. AnswerInv' /\ AnswerIsUnderWay'
  BY DEF AnswerInv, AnswerIsUnderWay
<1> QED BY <1>1, <1>2, <1>3 DEF IInv

LEMMA LeavesDone ==
    ASSUME TurnTypeOK', TurnInv', RestTypes', loop' \in Loops,
           loop'.state \notin {"reviewing", "waitingCoder"}
    PROVE  IInv'
BY DEF TypeOK, RestTypes, ActTypes, ReviewIsUnderWay, AnswerInv, AnswerIsUnderWay, IInv

LEMMA LeavesWaiting ==
    ASSUME TurnTypeOK', TurnInv', RestTypes', loop' \in Loops, loop'.state = "waitingCoder",
           AnswerInv', Told' \/ Answering(loop)'
    PROVE  IInv'
<1>1. TypeOK'
  BY DEF TypeOK, RestTypes, ActTypes
<1>2. ReviewIsUnderWay'
  BY DEF ReviewIsUnderWay
<1>3. AnswerIsUnderWay'
  BY DEF AnswerIsUnderWay, Told, Answering
<1> QED BY <1>1, <1>2, <1>3 DEF IInv

(* Findings have just been sent.                                           *)
LEMMA LeavesTold ==
    ASSUME TypeOK, TurnTypeOK', TurnInv', RestTypes', loop' = ToWriter(loop),
           acts'["promptWriter"] > 0
    PROVE  IInv'
<1>1. loop' \in Loops /\ loop'.state = "waitingCoder" /\ ~loop'.replying /\ ~loop'.answered
  BY LoopShapes DEF TypeOK
<1>2. AnswerInv'
  BY <1>1 DEF AnswerInv, Resolvable
<1>3. Told'
  BY DEF Told
<1> QED BY <1>1, <1>2, <1>3, LeavesWaiting

(* The loop is where it was.                                               *)
LEMMA Stays ==
    ASSUME IInv, TurnTypeOK', TurnInv', RestTypes', loop' \in Loops,
           loop'.state = loop.state, loop'.replying = loop.replying,
           loop'.answered = loop.answered, loop'.answerDiff = loop.answerDiff,
           phase' = phase, missed => missed',
           loop.state = "reviewing" /\ ReviewerAtWork => ReviewerAtWork' \/ missed',
           loop.state = "reviewing" /\ Awaited(loop) => ReviewerAtWork' \/ Awaited(loop)',
           Told => Told', Answers /\ settling[Writer] # {} => settling'[Writer] # {}
    PROVE  IInv'
<1>1. CASE loop.state = "reviewing"
  <2>1. missed \/ ReviewerAtWork \/ Awaited(loop)
    BY <1>1, Goals DEF IInv
  <2> QED BY <1>1, <2>1, LeavesReviewing
<1>2. CASE loop.state = "waitingCoder"
  <2>1. Told \/ Answering(loop)
    BY <1>2, Goals DEF IInv
  <2>2. Told' \/ Answering(loop)'
    BY <2>1, <1>2 DEF Answering, Answers
  <2>3. AnswerInv'
    BY <1>2 DEF IInv, AnswerInv, Resolvable, Answers
  <2> QED BY <1>2, <2>2, <2>3, LeavesWaiting
<1>3. CASE loop.state \notin {"reviewing", "waitingCoder"}
  BY <1>3, LeavesDone
<1> QED BY <1>1, <1>2, <1>3

-----------------------------------------------------------------------------
(* The user's calls.                                                       *)
LEMMA TurnsFrame ==
    ASSUME IInv, UNCHANGED turnVars
    PROVE  TurnTypeOK' /\ TurnInv' /\ UNCHANGED <<turn, phase, settling, checks>>
BY DEF IInv, TypeOK, TurnTypeOK, TurnInv, turnVars

LEMMA UserStep ==
    ASSUME IInv, (\E same \in BOOLEAN : Request(same)) \/ Send \/ Retry
    PROVE  IInv'
<1>1. TypeOK /\ TurnTypeOK' /\ TurnInv' /\ loop \in Loops
  BY TurnsFrame DEF IInv, TypeOK, Request, Send, Retry
<1>2. UNCHANGED <<lastDiff, checksDone, starting, registered, asked, reviewing, prompts, missed>>
  BY DEF Request, Send, Retry, sessionVars
<1>3. ActTypes' => RestTypes'
  BY <1>1, <1>2 DEF TypeOK, RestTypes
<1>4. ASSUME NEW same \in BOOLEAN, Request(same) PROVE IInv'
  <2> DEFINE l == Opened(lastDiff, same)
  <2>1. l \in Loops /\ l.state = "reviewing"
    BY <1>1, OpenedShape DEF TypeOK
  <2>2. loop' = l /\ ReviewAct(l)
    BY <1>4 DEF Request
  <2> HIDE DEF l
  <2>3. ActTypes' /\ ReviewerAtWork'
    BY <1>1, <2>1, <2>2, ReviewerNamed, ReviewActKeeps
  <2> QED BY <1>1, <1>3, <2>1, <2>2, <2>3, LeavesReviewing
<1>5. CASE Send
  <2>1. acts' \in [Kinds -> Nat] /\ acts'["promptWriter"] > 0
    BY <1>1, <1>5, RunKeeps DEF Send, Kinds
  <2>2. ActTypes'
    BY <1>1, <1>5, <2>1 DEF Send, ActTypes, TypeOK
  <2> QED BY <1>1, <1>3, <1>5, <2>1, <2>2, LeavesTold DEF Send
<1>6. CASE Retry
  <2>1. AnswerCleared(loop) \in Loops /\ AnswerCleared(loop).reviewer = loop.reviewer
    BY <1>1 DEF AnswerCleared, Loops
  <2>2. loop' \in Loops /\ loop'.state = "reviewing" /\ loop'.reviewer = loop.reviewer
    BY <2>1, <1>6 DEF Retry, Loops, States
  <2>3. ActTypes' /\ ReviewerAtWork'
    BY <1>1, <1>6, <2>2, ReviewerNamed, ReviewActKeeps DEF Retry
  <2> QED BY <1>1, <1>3, <2>2, <2>3, LeavesReviewing
<1> QED BY <1>4, <1>5, <1>6

-----------------------------------------------------------------------------
(* resolve with both halves of an answer: the loop is over, or the next    *)
(* round has a reviewer or checks to wait for.                             *)
LEMMA ResolveKeeps ==
    ASSUME TypeOK, NEW l \in Loops, Resolvable(l), Resolve(l),
           TurnTypeOK', TurnInv', UNCHANGED checks,
           ActTypes' /\ missed' \in BOOLEAN => RestTypes'
    PROVE  IInv'
<1>1. \/ Decided(l).state \in {"escalated", "settled"} /\ Decided(l) \in Loops
      \/ Decided(l) = NextRound(l) /\ l.round < MaxRounds
  <2>1. /\ [l EXCEPT !.state = "escalated"] \in Loops
        /\ [l EXCEPT !.state = "escalated"].state = "escalated"
    BY DEF Loops, States
  <2>2. /\ [l EXCEPT !.state = "settled"] \in Loops
        /\ [l EXCEPT !.state = "settled"].state = "settled"
    BY DEF Loops, States
  <2>3. l.round \in Nat /\ MaxRounds \in Nat
    BY ReviewAssumption DEF Loops
  <2>4. \/ Decided(l) = [l EXCEPT !.state = "escalated"]
        \/ Decided(l) = [l EXCEPT !.state = "settled"]
        \/ Decided(l) = NextRound(l) /\ l.round < MaxRounds
    BY <2>3 DEF Decided
  <2>5. CASE Decided(l) = [l EXCEPT !.state = "escalated"]
    BY <2>1, <2>5
  <2>6. CASE Decided(l) = [l EXCEPT !.state = "settled"]
    BY <2>2, <2>6
  <2> QED BY <2>4, <2>5, <2>6
<1>2. loop' = Decided(l)
  BY DEF Resolve
<1>3. CASE Decided(l).state \in {"escalated", "settled"} /\ Decided(l) \in Loops
  <2>1. UNCHANGED <<acts, prompting, missed>>
    BY <1>3 DEF Resolve, actVars
  <2> QED BY <1>2, <1>3, <2>1, LeavesDone DEF TypeOK, ActTypes
<1>4. CASE Decided(l) = NextRound(l) /\ l.round < MaxRounds
  <2>1. /\ loop' \in Loops /\ loop'.state = "reviewing"
        /\ l.answerChecking => loop'.awaiting = l.answerTurn
    BY <1>2, <1>4, NextRoundShape
  <2>2. CASE l.answerChecking
    <3>1. /\ UNCHANGED <<acts, prompting>>
          /\ missed' = (missed \/ \A c \in checks[Writer] : c.turn # l.answerTurn)
      BY <1>2, <2>1, <2>2 DEF Resolve, actVars
    <3>2. RestTypes'
      BY <3>1 DEF TypeOK, ActTypes
    <3>3. missed' \/ Awaited(loop)'
      BY <3>1, <2>1, <2>2 DEF Awaited
    <3> QED BY <2>1, <3>2, <3>3, LeavesReviewing
  <2>3. CASE ~l.answerChecking
    <3>1. ReviewAct(Decided(l)) /\ missed' = missed
      BY <1>2, <2>1, <2>3 DEF Resolve
    <3>2. ActTypes' /\ ReviewerAtWork'
      BY <1>2, <2>1, <3>1, ReviewerNamed, ReviewActKeeps
    <3> QED BY <2>1, <3>1, <3>2, LeavesReviewing DEF TypeOK
  <2> QED BY <2>2, <2>3
<1> QED BY <1>1, <1>3, <1>4

LEMMA ResolveWaits ==
    ASSUME NEW l, ~Resolvable(l), Resolve(l)
    PROVE  loop' = l /\ UNCHANGED <<actVars, missed>>
BY DEF Resolve, Decided

-----------------------------------------------------------------------------
(* The writer's turns.                                                     *)
LEMMA WriterTurnStartsStep ==
    ASSUME IInv, WriterTurnStarts
    PROVE  IInv'
<1>1. /\ TypeOK /\ TurnTypeOK' /\ ChecksKept /\ settling' = settling
      /\ phase'[Writer] = "active" /\ turn'[Writer] > 0
  BY StartedKeeps DEF IInv, TypeOK, WriterTurnStarts
<1>2. RestTypes' /\ TurnInv' /\ UNCHANGED <<acts, prompting, asked, reviewing, missed>>
  BY <1>1 DEF WriterTurnStarts, TypeOK, RestTypes, ActTypes, actVars, TurnInv
<1>3. CASE loop.state = "waitingCoder"
  <2>1. /\ loop' \in Loops /\ loop'.state = "waitingCoder" /\ loop'.replying
        /\ loop'.answered = loop.answered /\ loop'.answerDiff = loop.answerDiff
    BY <1>1, <1>3 DEF WriterTurnStarts, TypeOK, Loops
  <2>2. AnswerInv'
    BY <1>1, <1>3, <2>1 DEF IInv, AnswerInv, Resolvable
  <2>3. Answering(loop)'
    BY <1>1, <2>1 DEF Answering
  <2> QED BY <1>1, <1>2, <2>1, <2>2, <2>3, LeavesWaiting
<1>4. CASE loop.state = "reviewing"
  <2>1. loop' = loop
    BY <1>4 DEF WriterTurnStarts
  <2>2. missed \/ ReviewerAtWork \/ Awaited(loop)
    BY <1>4, Goals DEF IInv
  <2>3. missed' \/ ReviewerAtWork' \/ Awaited(loop)'
    BY <1>1, <1>2, <2>1, <2>2 DEF ReviewerAtWork, AtWork, Awaited, ChecksKept
  <2> QED BY <1>1, <1>2, <1>4, <2>1, <2>3, LeavesReviewing DEF TypeOK
<1>5. CASE loop.state \notin {"waitingCoder", "reviewing"}
  BY <1>1, <1>2, <1>5, LeavesDone DEF WriterTurnStarts, TypeOK
<1> QED BY <1>3, <1>4, <1>5

LEMMA WriterTurnEndsStep ==
    ASSUME IInv, NEW reason \in Reasons, WriterTurnEnds(reason)
    PROVE  IInv'
<1>1. /\ TypeOK /\ TurnTypeOK' /\ checks' = checks /\ turn' = turn
      /\ phase[Writer] = "active" /\ phase'[Writer] = "ending" /\ settling'[Writer] # {}
  BY EndedKeeps DEF IInv, TypeOK, WriterTurnEnds
<1>2. UNCHANGED <<loop, lastDiff, checksDone, acts, prompting, starting, registered, asked, reviewing,
                prompts, missed>>
  BY DEF WriterTurnEnds, reviewerVars, actVars, sessionVars
<1>3. RestTypes' /\ TurnInv' /\ loop' \in Loops
  BY <1>1, <1>2 DEF IInv, TypeOK, RestTypes, ActTypes, TurnInv
<1>4. CASE loop.state = "waitingCoder"
  <2>1. AnswerInv'
    BY <1>1, <1>2, <1>4 DEF IInv, AnswerInv, Resolvable
  <2>2. Told \/ Answering(loop)
    BY <1>4, Goals DEF IInv
  <2>3. Told' \/ Answering(loop)'
    BY <1>1, <1>2, <2>2 DEF Told, Answering
  <2> QED BY <1>1, <1>2, <1>3, <1>4, <2>1, <2>3, LeavesWaiting
<1>5. CASE loop.state = "reviewing"
  <2>1. missed \/ ReviewerAtWork \/ Awaited(loop)
    BY <1>5, Goals DEF IInv
  <2>2. missed' \/ ReviewerAtWork' \/ Awaited(loop)'
    BY <1>1, <1>2, <2>1 DEF ReviewerAtWork, AtWork, Awaited
  <2> QED BY <1>1, <1>2, <1>3, <1>5, <2>2, LeavesReviewing
<1>6. CASE loop.state \notin {"waitingCoder", "reviewing"}
  BY <1>1, <1>2, <1>3, <1>6, LeavesDone
<1> QED BY <1>4, <1>5, <1>6

(* The end of the turn at the sinks: if the turn is the answer its second  *)
(* half is there or the settling thread has still to bring it.             *)
LEMMA AnswerReadStep ==
    ASSUME IInv, NEW d \in {"ask", "adopt", "reject"}, AnswerRead(d)
    PROVE  IInv'
<1>1. /\ TypeOK /\ TurnTypeOK' /\ TurnInv' /\ UNCHANGED <<turn, settling, checks>>
      /\ phase[Writer] = "ending" /\ phase'[Writer] = "idle"
  BY WriterIsTask DEF IInv, TypeOK, TurnTypeOK, TurnInv, AnswerRead, TurnEndedAtSinks
<1>2. /\ UNCHANGED <<lastDiff, checksDone, starting, registered, asked, reviewing, prompts>>
      /\ ActTypes' /\ missed' \in BOOLEAN => RestTypes'
  BY <1>1 DEF AnswerRead, TypeOK, RestTypes, sessionVars
<1>3. CASE loop.state = "waitingCoder" /\ loop.replying /\ ~loop.answered
  <2> DEFINE l == [loop EXCEPT !.answered = TRUE, !.answerTurn = turn[Writer], !.decision = d]
  <2>1. l \in Loops
    BY <1>1, WriterIsTask DEF TypeOK, TurnTypeOK, Loops
  <2>2. /\ l.state = "waitingCoder" /\ l.replying = loop.replying /\ l.answered
        /\ l.answerDiff = loop.answerDiff
    BY <1>1, <1>3 DEF TypeOK, Loops
  <2>3. Resolve(l)
    BY <1>3 DEF AnswerRead
  <2> HIDE DEF l
  <2>4. CASE Resolvable(l)
    BY <1>1, <1>2, <2>1, <2>3, <2>4, ResolveKeeps
  <2>5. CASE ~Resolvable(l)
    <3>1. loop' = l /\ UNCHANGED <<actVars, missed>>
      BY <2>3, <2>5, ResolveWaits
    <3>2. l.answerDiff = "unset"
      BY <2>2, <2>5 DEF Resolvable
    <3>3. settling[Writer] # {}
      BY <1>1, <1>3, <2>2, <3>2 DEF IInv, AnswerInv
    <3>4. AnswerInv' /\ Answering(loop)'
      BY <1>1, <1>3, <2>2, <2>5, <3>1, <3>3 DEF AnswerInv, Resolvable, Answering
    <3>5. RestTypes'
      BY <1>1, <1>2, <3>1 DEF TypeOK, ActTypes, actVars
    <3> QED BY <1>1, <2>1, <2>2, <3>1, <3>4, <3>5, LeavesWaiting
  <2> QED BY <2>4, <2>5
<1>4. CASE ~(loop.state = "waitingCoder" /\ loop.replying /\ ~loop.answered)
  <2>1. UNCHANGED <<loop, actVars, missed>> /\ RestTypes' /\ loop' \in Loops
    BY <1>1, <1>2, <1>4 DEF AnswerRead, TypeOK, ActTypes, actVars
  <2>2. CASE loop.state = "waitingCoder"
    <3>1. loop.replying => loop.answered /\ settling[Writer] # {}
      BY <1>1, <1>4, <2>2 DEF IInv, AnswerInv, Resolvable
    <3>2. AnswerInv'
      BY <1>1, <2>1, <2>2, <3>1 DEF IInv, AnswerInv, Resolvable
    <3>3. Told \/ Answering(loop)
      BY <2>2, Goals DEF IInv
    <3>4. Told' \/ Answering(loop)'
      BY <1>1, <1>2, <2>1, <3>1, <3>3 DEF Told, Answering, actVars
    <3> QED BY <1>1, <2>1, <2>2, <3>2, <3>4, LeavesWaiting
  <2>3. CASE loop.state = "reviewing"
    <3>1. missed \/ ReviewerAtWork \/ Awaited(loop)
      BY <2>3, Goals DEF IInv
    <3>2. missed' \/ ReviewerAtWork' \/ Awaited(loop)'
      BY <1>1, <1>2, <2>1, <3>1 DEF ReviewerAtWork, AtWork, Awaited, actVars
    <3> QED BY <1>1, <2>1, <2>3, <3>2, LeavesReviewing
  <2>4. CASE loop.state \notin {"waitingCoder", "reviewing"}
    BY <1>1, <2>1, <2>4, LeavesDone
  <2> QED BY <2>2, <2>3, <2>4
<1> QED BY <1>3, <1>4

LEMMA WriterDiffStep ==
    ASSUME IInv, WriterDiff
    PROVE  IInv'
<1>1. /\ TypeOK /\ TurnTypeOK' /\ ChecksKept /\ turn' = turn /\ phase' = phase
      /\ settling'[Writer] # {}
  BY DiffKeeps DEF IInv, TypeOK, WriterDiff
<1>2. UNCHANGED <<loop, lastDiff, checksDone, acts, prompting, starting, registered, asked, reviewing,
                prompts, missed>>
  BY DEF WriterDiff, reviewerVars, actVars, sessionVars
<1>3. TurnInv' /\ RestTypes' /\ loop' \in Loops
  BY <1>1, <1>2 DEF IInv, TypeOK, TurnInv, RestTypes, ActTypes
<1>4. (ReviewerAtWork => ReviewerAtWork') /\ (Told => Told') /\ (Awaited(loop) => Awaited(loop)')
  BY <1>1, <1>2 DEF ReviewerAtWork, AtWork, Told, Awaited, ChecksKept
<1> QED BY <1>1, <1>2, <1>3, <1>4, Stays

(* turn_settled: the second half of an answer, the turn that opens a loop, *)
(* or neither.                                                             *)
LEMMA TurnSettledStep ==
    ASSUME IInv, NEW s \in settling[Writer], TurnSettled(s)
    PROVE  IInv'
<1>1. /\ TypeOK /\ TurnTypeOK' /\ UNCHANGED <<turn, phase, checks>>
      /\ s \in Settling /\ s.turn \in 1..MaxTurns /\ s.turn \in 0..MaxTurns
  BY SettledKeeps, MaxTurnsAssumption DEF IInv, TypeOK, TurnSettled
<1>2. /\ UNCHANGED <<checksDone, starting, registered, asked, reviewing, prompts>>
      /\ lastDiff' \in 0..MaxTurns
      /\ ActTypes' /\ missed' \in BOOLEAN => RestTypes'
  BY <1>1 DEF TurnSettled, TypeOK, RestTypes, sessionVars
<1>3. TurnInv'
  BY <1>1 DEF IInv, TurnInv
<1>4. CASE SettledAnswer(s)
  <2>1. PICK diff \in {"some", "none"} : diff = IF s.diff THEN "some" ELSE "none"
    OBVIOUS
  <2> DEFINE l == [loop EXCEPT !.answerDiff = diff, !.answerOf = s.turn,
                               !.answerChecking = s.checking]
  <2>2. l \in Loops
    BY <1>1 DEF TypeOK, Loops, Settling
  <2>3. /\ l.state = "waitingCoder" /\ l.replying /\ l.answered = loop.answered
        /\ l.answerDiff # "unset"
    BY <1>1, <1>4 DEF TypeOK, Loops, SettledAnswer, Answers
  <2>4. Resolve(l)
    BY <1>4, <2>1 DEF SettledAnswer
  <2> HIDE DEF l
  <2>5. CASE Resolvable(l)
    BY <1>1, <1>2, <1>3, <2>2, <2>4, <2>5, ResolveKeeps
  <2>6. CASE ~Resolvable(l)
    <3>1. loop' = l /\ UNCHANGED <<actVars, missed>>
      BY <2>4, <2>6, ResolveWaits
    <3>2. ~loop.answered
      BY <2>3, <2>6 DEF Resolvable
    <3>3. phase[Writer] # "idle"
      BY <1>4, <3>2 DEF IInv, AnswerInv, SettledAnswer, Answers
    <3>4. AnswerInv' /\ Answering(loop)'
      BY <1>1, <2>3, <2>6, <3>1, <3>3 DEF AnswerInv, Answering
    <3>5. RestTypes'
      BY <1>1, <1>2, <3>1 DEF TypeOK, ActTypes, actVars
    <3> QED BY <1>1, <1>3, <2>2, <2>3, <3>1, <3>4, <3>5, LeavesWaiting
  <2> QED BY <2>5, <2>6
<1>5. ASSUME NEW same \in BOOLEAN, SettledOpens(s, same) PROVE IInv'
  <2> DEFINE l == Opened(s.turn, same)
  <2>1. missed' = (missed \/ Unheard(s)) /\ missed' \in BOOLEAN
    BY <1>5 DEF SettledOpens
  <2>2. CASE MustWait(s)
    <3>1. loop' = [l EXCEPT !.awaiting = s.turn] /\ UNCHANGED <<acts, prompting>>
      BY <1>5, <2>2 DEF SettledOpens, actVars
    <3>2. loop' \in Loops /\ loop'.state = "reviewing" /\ loop'.awaiting = s.turn
      BY <1>1, <3>1, OpenedShape
    <3>3. missed' \/ Awaited(loop)'
      BY <1>1, <2>1, <2>2, <3>2 DEF MustWait, Unheard, Awaited
    <3>4. RestTypes'
      BY <1>1, <1>2, <2>1, <3>1 DEF TypeOK, ActTypes
    <3> QED BY <1>1, <1>3, <3>2, <3>3, <3>4, LeavesReviewing
  <2>3. CASE ~MustWait(s)
    <3>1. loop' = l /\ ReviewAct(l)
      BY <1>5, <2>3 DEF SettledOpens
    <3>2. l \in Loops /\ l.state = "reviewing"
      BY <1>1, OpenedShape
    <3> HIDE DEF l
    <3>3. ActTypes' /\ ReviewerAtWork'
      BY <1>1, <3>1, <3>2, ReviewerNamed, ReviewActKeeps
    <3> QED BY <1>1, <1>2, <1>3, <2>1, <3>1, <3>2, <3>3, LeavesReviewing
  <2> QED BY <2>2, <2>3
<1>6. CASE SettledIgnored
  <2>1. UNCHANGED <<loop, acts, prompting, missed>> /\ ~Answers
    BY <1>6 DEF SettledIgnored, actVars
  <2>2. RestTypes' /\ loop' \in Loops
    BY <1>1, <1>2, <2>1 DEF TypeOK, ActTypes
  <2>3. (ReviewerAtWork => ReviewerAtWork') /\ (Told => Told') /\ (Awaited(loop) => Awaited(loop)')
    BY <1>1, <1>2, <2>1 DEF ReviewerAtWork, AtWork, Told, Awaited
  <2> QED BY <1>1, <1>3, <2>1, <2>2, <2>3, Stays
<1> QED BY <1>4, <1>5, <1>6 DEF TurnSettled

-----------------------------------------------------------------------------
(* The checks.                                                             *)
LEMMA WriterCheckBeginsStep ==
    ASSUME IInv, WriterCheckBegins
    PROVE  IInv'
<1>1. TypeOK /\ TurnTypeOK' /\ ChecksKept /\ UNCHANGED <<turn, phase, settling>>
  BY CheckKeeps DEF IInv, TypeOK, WriterCheckBegins
<1>2. UNCHANGED <<loop, lastDiff, checksDone, acts, prompting, starting, registered, asked, reviewing,
                prompts, missed>>
  BY DEF WriterCheckBegins, reviewerVars, actVars, sessionVars
<1>3. TurnInv' /\ RestTypes' /\ loop' \in Loops
  BY <1>1, <1>2 DEF IInv, TypeOK, TurnInv, RestTypes, ActTypes
<1>4. (ReviewerAtWork => ReviewerAtWork') /\ (Told => Told') /\ (Awaited(loop) => Awaited(loop)')
  BY <1>1, <1>2 DEF ReviewerAtWork, AtWork, Told, Awaited, ChecksKept
<1> QED BY <1>1, <1>2, <1>3, <1>4, Stays

(* A verdict that is waited for has the turn reviewed.                     *)
LEMMA CheckedStep ==
    ASSUME IInv, NEW c \in checks[Writer], NEW v \in Verdicts, Checked(c, v)
    PROVE  IInv'
<1>1. /\ TypeOK /\ TurnTypeOK' /\ UNCHANGED <<turn, phase, settling>>
      /\ \A e \in checks[Writer] : e.turn # c.turn => e \in checks'[Writer]
      /\ c.turn \in 0..MaxTurns
  BY CheckKeeps, MaxTurnsAssumption DEF IInv, TypeOK, Checked
<1>2. /\ UNCHANGED <<lastDiff, starting, registered, asked, reviewing, prompts, missed>>
      /\ checksDone' = c.turn
  BY DEF Checked, sessionVars
<1>3. TurnInv' /\ (ActTypes' => RestTypes')
  BY <1>1, <1>2 DEF IInv, TypeOK, TurnInv, RestTypes, ActTypes
<1>4. CASE loop.awaiting = c.turn
  <2>1. /\ loop' \in Loops /\ loop'.state = loop.state /\ loop'.replying = loop.replying
        /\ loop'.answered = loop.answered /\ loop'.answerDiff = loop.answerDiff
        /\ loop'.reviewer = loop.reviewer /\ loop \in Loops
    BY <1>1, <1>4, MaxTurnsAssumption DEF Checked, TypeOK, Loops
  <2>2. ReviewAct(loop)
    BY <1>4 DEF Checked
  <2>3. ActTypes' /\ ReviewerAtWork'
    BY <1>1, <2>1, <2>2, ReviewerNamed, ReviewActKeeps
  <2>4. Told => Told'
    BY <1>1, <1>2, <2>1, <2>2, ReviewerNamed, ReviewActKeeps DEF Told
  <2> QED BY <1>1, <1>2, <1>3, <2>1, <2>3, <2>4, Stays
<1>5. CASE loop.awaiting # c.turn
  <2>1. UNCHANGED <<loop, acts, prompting>>
    BY <1>5 DEF Checked, actVars
  <2>2. RestTypes' /\ loop' \in Loops
    BY <1>1, <1>3, <2>1 DEF TypeOK, ActTypes
  <2>3. (ReviewerAtWork => ReviewerAtWork') /\ (Told => Told') /\ (Awaited(loop) => Awaited(loop)')
    BY <1>1, <1>2, <1>5, <2>1 DEF ReviewerAtWork, AtWork, Told, Awaited
  <2> QED BY <1>1, <1>2, <1>3, <2>1, <2>2, <2>3, Stays
<1> QED BY <1>4, <1>5

-----------------------------------------------------------------------------
(* The reviewer.                                                           *)
LEMMA ReviewerBeginsStep ==
    ASSUME IInv, NEW r \in Reviewers, ReviewerBegins(r)
    PROVE  IInv'
<1>1. TypeOK /\ TurnTypeOK' /\ TurnInv' /\ UNCHANGED <<phase, settling, checks>>
  BY TurnsFrame DEF IInv, ReviewerBegins
<1>2. /\ acts["start"] \in Nat /\ acts["start"] > 0
      /\ acts' = [acts EXCEPT !["start"] = @ - 1]
      /\ starting' = starting \cup {r} /\ asked' = [asked EXCEPT ![r] = @ + 1]
      /\ UNCHANGED <<loop, lastDiff, checksDone, prompting, registered, reviewing, prompts, missed>>
  BY <1>1 DEF ReviewerBegins, TypeOK, Kinds
<1>3. acts' \in [Kinds -> Nat] /\ acts'["promptWriter"] = acts["promptWriter"]
  BY <1>1, <1>2 DEF TypeOK, Kinds
<1>4. /\ asked' \in [Reviewers -> Nat] /\ asked'[r] > 0
      /\ \A q \in Reviewers : asked[q] > 0 => asked'[q] > 0
  BY <1>1, <1>2 DEF TypeOK
<1>5. RestTypes' /\ loop' \in Loops
  BY <1>1, <1>2, <1>3, <1>4 DEF TypeOK, RestTypes, ActTypes
<1>6. loop.reviewer # 0 => loop.reviewer \in Reviewers
  BY <1>1, ReviewerNamed, ReviewAssumption DEF TypeOK, Reviewers
<1>7. (ReviewerAtWork => ReviewerAtWork') /\ (Told => Told') /\ (Awaited(loop) => Awaited(loop)')
  BY <1>1, <1>2, <1>3, <1>4, <1>6 DEF ReviewerAtWork, AtWork, Told, Awaited
<1> QED BY <1>1, <1>2, <1>5, <1>7, Stays

(* The loop names the reviewer whose start returned, and that one is at    *)
(* work, or its verdict was missed.                                        *)
LEMMA StartReturnsOkStep ==
    ASSUME IInv, KnownInv, NEW r \in Reviewers, StartReturnsOk(r)
    PROVE  IInv'
<1>1. TypeOK /\ TurnTypeOK' /\ TurnInv' /\ UNCHANGED <<phase, settling, checks>>
  BY TurnsFrame DEF IInv, StartReturnsOk
<1>2. /\ r \in starting /\ starting' = starting \ {r}
      /\ registered' = registered \cup {r} /\ loop' = [loop EXCEPT !.reviewer = r]
      /\ UNCHANGED <<lastDiff, checksDone, acts, prompting, asked, reviewing, prompts, missed>>
  BY DEF StartReturnsOk, actVars
<1>3. RestTypes'
  BY <1>1, <1>2 DEF TypeOK, RestTypes, ActTypes
<1>4. /\ loop' \in Loops /\ loop'.state = loop.state /\ loop'.replying = loop.replying
      /\ loop'.answered = loop.answered /\ loop'.answerDiff = loop.answerDiff
      /\ loop'.awaiting = loop.awaiting /\ loop'.reviewer = r /\ r # 0
  <2>1. r \in 0..MaxReviewers /\ r # 0
    BY ReviewAssumption DEF Reviewers
  <2> QED BY <1>1, <1>2, <2>1 DEF TypeOK, Loops
<1>5. ReviewerAtWork' \/ missed'
  BY <1>2, <1>4 DEF KnownInv, ReviewerAtWork, AtWork
<1>6. (Told => Told') /\ (Awaited(loop) => Awaited(loop)')
  BY <1>1, <1>2, <1>4 DEF Told, Awaited
<1> QED BY <1>1, <1>2, <1>3, <1>4, <1>5, <1>6, Stays

(* A prompt or a start that fails fails the loop with it.                  *)
LEMMA Fails ==
    ASSUME TypeOK, TurnTypeOK', TurnInv', RestTypes', loop' = [loop EXCEPT !.state = "failed"]
    PROVE  IInv'
<1>1. loop' \in Loops /\ loop'.state = "failed"
  BY DEF TypeOK, Loops, States
<1> QED BY <1>1, LeavesDone

LEMMA StartReturnsErrStep ==
    ASSUME IInv, StartReturnsErr
    PROVE  IInv'
<1>1. TypeOK /\ TurnTypeOK' /\ TurnInv'
  BY TurnsFrame DEF IInv, StartReturnsErr
<1>2. RestTypes'
  BY <1>1 DEF StartReturnsErr, TypeOK, RestTypes, ActTypes, sessionVars, Kinds
<1> QED BY <1>1, <1>2, Fails DEF StartReturnsErr

LEMMA PromptReviewerStep ==
    ASSUME IInv, NEW r \in Reviewers, PromptReviewer(r)
    PROVE  IInv'
<1>1. TypeOK /\ TurnTypeOK' /\ TurnInv' /\ UNCHANGED <<phase, settling, checks>>
  BY TurnsFrame DEF IInv, PromptReviewer
<1>2. /\ prompting[r] > 0 /\ prompting' = [prompting EXCEPT ![r] = @ - 1]
      /\ registered' = registered \cup {r}
      /\ UNCHANGED <<lastDiff, checksDone, acts, starting, reviewing, prompts, missed>>
  BY DEF PromptReviewer
<1>3. /\ prompting' \in [Reviewers -> Nat]
      /\ \A q \in Reviewers \ {r} : prompting'[q] = prompting[q]
  BY <1>1, <1>2 DEF TypeOK
<1>4. asked' \in [Reviewers -> Nat] => RestTypes'
  BY <1>1, <1>2, <1>3 DEF TypeOK, RestTypes, ActTypes
<1>5. CASE asked' = [asked EXCEPT ![r] = @ + 1] /\ UNCHANGED loop
  <2>1. /\ asked' \in [Reviewers -> Nat] /\ loop' \in Loops
        /\ asked'[r] > 0 /\ \A q \in Reviewers \ {r} : asked'[q] = asked[q]
    BY <1>1, <1>5 DEF TypeOK
  <2>2. loop.reviewer # 0 => loop.reviewer \in Reviewers
    BY <1>1, ReviewerNamed, ReviewAssumption DEF TypeOK, Reviewers
  <2>3. \A q \in Reviewers : AtWork(q) => AtWork(q)'
    BY <1>2, <1>3, <2>1 DEF AtWork
  <2>4. ReviewerAtWork => ReviewerAtWork'
    BY <1>2, <1>5, <2>2, <2>3 DEF ReviewerAtWork
  <2>5. (Told => Told') /\ (Awaited(loop) => Awaited(loop)')
    BY <1>1, <1>2, <1>5 DEF Told, Awaited
  <2> QED BY <1>1, <1>2, <1>4, <1>5, <2>1, <2>4, <2>5, Stays
<1>6. CASE loop' = [loop EXCEPT !.state = "failed"] /\ UNCHANGED asked
  BY <1>1, <1>4, <1>6, Fails DEF TypeOK
<1> QED BY <1>5, <1>6 DEF PromptReviewer

LEMMA PromptWriterStep ==
    ASSUME IInv, PromptWriter
    PROVE  IInv'
<1>1. TypeOK /\ TurnTypeOK' /\ TurnInv' /\ UNCHANGED <<phase, settling, checks>>
  BY TurnsFrame DEF IInv, PromptWriter
<1>2. /\ acts["promptWriter"] > 0 /\ acts' = [acts EXCEPT !["promptWriter"] = @ - 1]
      /\ UNCHANGED <<lastDiff, checksDone, prompting, starting, registered, asked, reviewing, missed>>
  BY DEF PromptWriter
<1>3. acts' \in [Kinds -> Nat] /\ acts'["start"] = acts["start"]
  BY <1>1, <1>2 DEF TypeOK, Kinds
<1>4. prompts' \in Nat => RestTypes'
  BY <1>1, <1>2, <1>3 DEF TypeOK, RestTypes, ActTypes
<1>5. CASE prompts' = prompts + 1 /\ UNCHANGED loop
  <2>1. prompts \in Nat /\ prompts' \in Nat /\ loop' \in Loops
    BY <1>1, <1>5 DEF TypeOK
  <2>2. (ReviewerAtWork => ReviewerAtWork') /\ Told' /\ (Awaited(loop) => Awaited(loop)')
    BY <1>1, <1>2, <1>3, <1>5, <2>1 DEF ReviewerAtWork, AtWork, Told, Awaited
  <2> QED BY <1>1, <1>2, <1>4, <1>5, <2>1, <2>2, Stays
<1>6. CASE loop' = [loop EXCEPT !.state = "failed"] /\ UNCHANGED prompts
  BY <1>1, <1>4, <1>6, Fails DEF TypeOK
<1> QED BY <1>5, <1>6 DEF PromptWriter

LEMMA ReviewerTurnStartsStep ==
    ASSUME IInv, NEW r \in Reviewers, ReviewerTurnStarts(r)
    PROVE  IInv'
<1>1. TypeOK /\ TurnTypeOK' /\ TurnInv' /\ UNCHANGED <<phase, settling, checks>>
  BY TurnsFrame DEF IInv, ReviewerTurnStarts
<1>2. /\ asked[r] > 0 /\ asked' = [asked EXCEPT ![r] = @ - 1] /\ reviewing' = reviewing \cup {r}
      /\ UNCHANGED <<loop, lastDiff, checksDone, acts, prompting, starting, registered, prompts, missed>>
  BY DEF ReviewerTurnStarts, actVars
<1>3. asked' \in [Reviewers -> Nat] /\ \A q \in Reviewers \ {r} : asked'[q] = asked[q]
  BY <1>1, <1>2 DEF TypeOK
<1>4. RestTypes' /\ loop' \in Loops
  BY <1>1, <1>2, <1>3 DEF TypeOK, RestTypes, ActTypes
<1>5. loop.reviewer # 0 => loop.reviewer \in Reviewers
  BY <1>1, ReviewerNamed, ReviewAssumption DEF TypeOK, Reviewers
<1>6. \A q \in Reviewers : AtWork(q) => AtWork(q)'
  BY <1>2, <1>3 DEF AtWork
<1>7. (ReviewerAtWork => ReviewerAtWork') /\ (Told => Told') /\ (Awaited(loop) => Awaited(loop)')
  BY <1>1, <1>2, <1>5, <1>6 DEF ReviewerAtWork, Told, Awaited
<1> QED BY <1>1, <1>2, <1>4, <1>7, Stays

(* The reviewer's verdict ends the review; one that is not known as a      *)
(* reviewer's is missed; one the loop does not name leaves the named one   *)
(* at work.                                                                *)
LEMMA ReviewerTurnEndsStep ==
    ASSUME IInv, NEW r \in Reviewers, NEW v \in {"bad", "pass", "findings"}, NEW p \in BOOLEAN,
           ReviewerTurnEnds(r, v, p)
    PROVE  IInv'
<1>1. TypeOK /\ TurnTypeOK' /\ TurnInv' /\ UNCHANGED <<phase, settling, checks>>
  BY TurnsFrame DEF IInv, ReviewerTurnEnds
<1>2. /\ reviewing' = reviewing \ {r}
      /\ UNCHANGED <<lastDiff, checksDone, prompting, starting, registered, asked, prompts>>
      /\ acts' \in [Kinds -> Nat] /\ missed' \in BOOLEAN => RestTypes'
  BY <1>1 DEF ReviewerTurnEnds, TypeOK, RestTypes, ActTypes
<1>3. CASE Heard(r)
  <2>1. /\ loop' = Reviewed(v, p) /\ missed' = missed
        /\ IF loop'.state = "waitingCoder" THEN Run("promptWriter") ELSE UNCHANGED acts
    BY <1>3 DEF ReviewerTurnEnds
  <2>2. CASE Reviewed(v, p) = ToWriter(loop)
    <3>1. loop' = ToWriter(loop) /\ loop'.state = "waitingCoder"
      BY <1>1, <2>1, <2>2, LoopShapes DEF TypeOK
    <3>2. acts' \in [Kinds -> Nat] /\ acts'["promptWriter"] > 0
      BY <1>1, <2>1, <3>1, RunKeeps DEF Kinds
    <3> QED BY <1>1, <1>2, <2>1, <3>1, <3>2, LeavesTold DEF TypeOK
  <2>3. ASSUME NEW s \in {"failed", "passed", "waitingSend"},
               Reviewed(v, p) = [loop EXCEPT !.state = s]
        PROVE  IInv'
    <3>1. [loop EXCEPT !.state = s] \in Loops /\ [loop EXCEPT !.state = s].state = s
      BY <1>1 DEF TypeOK, Loops, States
    <3>2. loop' \in Loops /\ loop'.state \notin {"reviewing", "waitingCoder"}
      BY <2>1, <2>3, <3>1
    <3>3. acts' = acts
      BY <2>1, <3>2
    <3> QED BY <1>1, <1>2, <2>1, <3>2, <3>3, LeavesDone DEF TypeOK
  <2> QED BY <2>2, <2>3 DEF Reviewed
<1>4. CASE ~Heard(r)
  <2>1. UNCHANGED <<loop, acts>> /\ missed' = (missed \/ r \notin registered)
    BY <1>4 DEF ReviewerTurnEnds
  <2>2. missed' \in BOOLEAN /\ RestTypes' /\ loop' \in Loops
    BY <1>1, <1>2, <2>1 DEF TypeOK
  <2>3. (Told => Told') /\ (Awaited(loop) => Awaited(loop)')
    BY <1>1, <1>2, <2>1 DEF Told, Awaited
  <2>4. ASSUME loop.state = "reviewing", ReviewerAtWork, ~missed' PROVE ReviewerAtWork'
    <3>1. loop.reviewer # 0 /\ loop.reviewer # r
      BY <1>4, <2>1, <2>4 DEF Heard
    <3> QED BY <1>2, <2>1, <2>4, <3>1 DEF ReviewerAtWork, AtWork
  <2> QED BY <1>1, <2>1, <2>2, <2>3, <2>4, Stays
<1> QED BY <1>3, <1>4

-----------------------------------------------------------------------------
(* Who is known: only run and a prompt change the reviewers.               *)
LEMMA KnownFrame ==
    ASSUME KnownInv, UNCHANGED <<prompting, starting, registered, asked, reviewing>>,
           loop'.reviewer \in {0, loop.reviewer}, missed => missed'
    PROVE  KnownInv'
BY DEF KnownInv

LEMMA KnownAct ==
    ASSUME TypeOK, KnownInv, NEW l, ReviewAct(l), l.reviewer \in {0, loop.reviewer},
           loop'.reviewer \in {0, loop.reviewer}, missed => missed',
           UNCHANGED <<starting, registered, asked, reviewing>>
    PROVE  KnownInv'
<1>1. CASE l.reviewer = 0
  BY <1>1, KnownFrame DEF ReviewAct
<1>2. CASE l.reviewer # 0
  <2>1. l.reviewer \in registered
    BY <1>2 DEF KnownInv
  <2>2. prompting' = [prompting EXCEPT ![l.reviewer] = @ + 1] /\ prompting \in [Reviewers -> Nat]
    BY <1>2 DEF ReviewAct, TypeOK
  <2>3. \A q \in Reviewers : prompting'[q] > 0 => q \in registered
    BY <2>1, <2>2 DEF KnownInv
  <2> QED BY <2>3 DEF KnownInv
<1> QED BY <1>1, <1>2

(* A loop that is opened, resolved or moved on names the reviewer it did,  *)
(* or none.                                                                *)
LEMMA SameReviewer ==
    ASSUME NEW l \in Loops
    PROVE  /\ AnswerCleared(l).reviewer = l.reviewer /\ ToWriter(l).reviewer = l.reviewer
           /\ Decided(l).reviewer = l.reviewer
           /\ \A s : [l EXCEPT !.state = s].reviewer = l.reviewer
<1>1. AnswerCleared(l) \in Loops /\ AnswerCleared(l).reviewer = l.reviewer
  BY DEF AnswerCleared, Loops
<1>2. ToWriter(l).reviewer = l.reviewer
  BY <1>1 DEF ToWriter, Loops
<1>3. NextRound(l).reviewer = l.reviewer
  BY <1>1 DEF NextRound, Loops
<1>4. \A s : [l EXCEPT !.state = s].reviewer = l.reviewer
  BY DEF Loops
<1>5. Decided(l).reviewer = l.reviewer
  BY <1>3, <1>4 DEF Decided
<1> QED BY <1>1, <1>2, <1>4, <1>5

LEMMA OpenedReviewer ==
    \A t, same : Opened(t, same).reviewer \in {0, loop.reviewer}
  BY DEF Opened, NoLoop

LEMMA KnownResolve ==
    ASSUME TypeOK, KnownInv, NEW l \in Loops, l.reviewer = loop.reviewer, Resolve(l),
           UNCHANGED <<starting, registered, asked, reviewing>>
    PROVE  KnownInv'
<1>1. loop' = Decided(l) /\ loop'.reviewer = loop.reviewer /\ (missed => missed')
  BY SameReviewer DEF Resolve
<1>2. \/ ReviewAct(Decided(l))
      \/ UNCHANGED prompting
  BY DEF Resolve, actVars
<1> QED BY <1>1, <1>2, KnownAct, KnownFrame

LEMMA KnownWriter ==
    ASSUME TypeOK, KnownInv,
           \/ WriterTurnStarts \/ \E d \in {"ask", "adopt", "reject"} : AnswerRead(d)
           \/ \E s \in settling[Writer] : TurnSettled(s)
           \/ \E c \in checks[Writer], v \in Verdicts : Checked(c, v)
    PROVE  KnownInv'
<1>1. loop \in Loops /\ UNCHANGED <<starting, registered, asked, reviewing>>
  BY DEF TypeOK, WriterTurnStarts, AnswerRead, TurnSettled, Checked, sessionVars
<1>2. CASE WriterTurnStarts
  BY <1>1, <1>2, KnownFrame DEF WriterTurnStarts, actVars, Loops
<1>3. ASSUME NEW d \in {"ask", "adopt", "reject"}, AnswerRead(d) PROVE KnownInv'
  <2> DEFINE l == [loop EXCEPT !.answered = TRUE, !.answerTurn = turn[Writer], !.decision = d]
  <2>1. l \in Loops /\ l.reviewer = loop.reviewer
    BY <1>1, WriterIsTask DEF TypeOK, TurnTypeOK, Loops
  <2>2. Resolve(l) \/ UNCHANGED <<loop, actVars, missed>>
    BY <1>3 DEF AnswerRead
  <2> HIDE DEF l
  <2> QED BY <1>1, <2>1, <2>2, KnownResolve, KnownFrame DEF actVars
<1>4. ASSUME NEW s \in settling[Writer], TurnSettled(s) PROVE KnownInv'
  <2>1. CASE SettledAnswer(s)
    <3>1. PICK diff \in {"some", "none"} : diff = IF s.diff THEN "some" ELSE "none"
      OBVIOUS
    <3> DEFINE l == [loop EXCEPT !.answerDiff = diff, !.answerOf = s.turn,
                                 !.answerChecking = s.checking]
    <3>2. s \in Settling /\ s.turn \in 0..MaxTurns
      BY <1>4, SettledKeeps DEF TypeOK, TurnSettled
    <3>3. l \in Loops /\ l.reviewer = loop.reviewer
      BY <1>1, <3>2 DEF Loops, Settling
    <3>4. Resolve(l)
      BY <2>1, <3>1 DEF SettledAnswer
    <3> HIDE DEF l
    <3> QED BY <1>1, <3>3, <3>4, KnownResolve
  <2>2. ASSUME NEW same \in BOOLEAN, SettledOpens(s, same) PROVE KnownInv'
    <3> DEFINE l == Opened(s.turn, same)
    <3>1. l.reviewer \in {0, loop.reviewer} /\ [l EXCEPT !.awaiting = s.turn].reviewer = l.reviewer
      BY OpenedReviewer DEF Opened, NoLoop
    <3>2. missed => missed'
      BY <2>2 DEF SettledOpens
    <3>3. \/ loop' = [l EXCEPT !.awaiting = s.turn] /\ UNCHANGED actVars
          \/ loop' = l /\ ReviewAct(l)
      BY <2>2 DEF SettledOpens
    <3> HIDE DEF l
    <3> QED BY <1>1, <3>1, <3>2, <3>3, KnownAct, KnownFrame DEF actVars
  <2>3. CASE SettledIgnored
    BY <1>1, <2>3, KnownFrame DEF SettledIgnored, actVars
  <2> QED BY <1>4, <2>1, <2>2, <2>3 DEF TurnSettled
<1>5. ASSUME NEW c \in checks[Writer], NEW v \in Verdicts, Checked(c, v) PROVE KnownInv'
  <2>1. [loop EXCEPT !.awaiting = 0].reviewer = loop.reviewer
    BY <1>1 DEF Loops
  <2>2. missed' = missed
    BY <1>5 DEF Checked
  <2>3. \/ loop' = [loop EXCEPT !.awaiting = 0] /\ ReviewAct(loop)
        \/ UNCHANGED <<loop, actVars>>
    BY <1>5 DEF Checked
  <2> QED BY <1>1, <2>1, <2>2, <2>3, KnownAct, KnownFrame DEF actVars
<1> QED BY <1>2, <1>3, <1>4, <1>5

LEMMA KnownUser ==
    ASSUME TypeOK, KnownInv, (\E same \in BOOLEAN : Request(same)) \/ Send \/ Retry
    PROVE  KnownInv'
<1>1. loop \in Loops /\ UNCHANGED <<starting, registered, asked, reviewing, missed>>
  BY DEF TypeOK, Request, Send, Retry, sessionVars
<1>2. ASSUME NEW same \in BOOLEAN, Request(same) PROVE KnownInv'
  BY <1>1, <1>2, OpenedReviewer, KnownAct DEF Request
<1>3. CASE Send
  BY <1>1, <1>3, SameReviewer, KnownFrame DEF Send
<1>4. CASE Retry
  <2>1. loop'.reviewer = loop.reviewer
    BY <1>1, <1>4, LoopShapes, SameReviewer DEF Retry, Loops
  <2> QED BY <1>1, <1>4, <2>1, KnownAct DEF Retry
<1> QED BY <1>2, <1>3, <1>4

LEMMA KnownReviewer ==
    ASSUME TypeOK, KnownInv, NEW r \in Reviewers,
           \/ ReviewerBegins(r) \/ StartReturnsOk(r) \/ PromptReviewer(r) \/ ReviewerTurnStarts(r)
           \/ \E v \in {"bad", "pass", "findings"}, p \in BOOLEAN : ReviewerTurnEnds(r, v, p)
    PROVE  KnownInv'
<1>1. /\ loop \in Loops /\ asked \in [Reviewers -> Nat] /\ prompting \in [Reviewers -> Nat]
      /\ starting \subseteq Reviewers
  BY DEF TypeOK
<1>2. CASE ReviewerBegins(r)
  BY <1>1, <1>2 DEF ReviewerBegins, KnownInv, Fresh
<1>3. CASE StartReturnsOk(r)
  <2>1. loop'.reviewer = r
    BY <1>1, <1>3 DEF StartReturnsOk, Loops
  <2> QED BY <1>1, <1>3, <2>1 DEF StartReturnsOk, KnownInv, actVars
<1>4. CASE PromptReviewer(r)
  <2>1. loop'.reviewer = loop.reviewer
    <3>1. loop' = [loop EXCEPT !.state = "failed"] \/ loop' = loop
      BY <1>4 DEF PromptReviewer
    <3> QED BY <1>1, <3>1 DEF Loops
  <2>2. r \in registered /\ registered' = registered
    BY <1>4 DEF PromptReviewer, KnownInv
  <2>3. \A q \in Reviewers : asked[q] > 0 => asked'[q] > 0
    BY <1>1, <1>4 DEF PromptReviewer
  <2>4. \A q \in Reviewers : prompting'[q] > 0 => q \in registered
    BY <1>1, <1>4, <2>2 DEF PromptReviewer, KnownInv
  <2>5. UNCHANGED <<starting, reviewing, missed>>
    BY <1>4 DEF PromptReviewer
  <2> QED BY <1>1, <2>1, <2>2, <2>3, <2>4, <2>5 DEF KnownInv
<1>5. CASE ReviewerTurnStarts(r)
  BY <1>1, <1>5 DEF ReviewerTurnStarts, KnownInv, actVars
<1>6. ASSUME NEW v \in {"bad", "pass", "findings"}, NEW p \in BOOLEAN, ReviewerTurnEnds(r, v, p)
      PROVE  KnownInv'
  <2>1. Reviewed(v, p).reviewer = loop.reviewer
    BY <1>1, SameReviewer DEF Reviewed
  <2>2. /\ loop'.reviewer = loop.reviewer /\ (missed => missed')
        /\ r \notin registered => missed'
        /\ UNCHANGED <<prompting, starting, registered, asked>> /\ reviewing' = reviewing \ {r}
    BY <1>6, <2>1 DEF ReviewerTurnEnds, Heard
  <2> QED BY <1>1, <2>2 DEF KnownInv
<1> QED BY <1>2, <1>3, <1>4, <1>5, <1>6

LEMMA KnownKeeps ==
    ASSUME TypeOK, KnownInv, [Next]_vars
    PROVE  KnownInv'
<1>1. CASE \/ UNCHANGED vars \/ WriterDiff \/ WriterCheckBegins
           \/ \E r \in Reasons : WriterTurnEnds(r)
  BY <1>1, KnownFrame DEF vars, reviewerVars, actVars, sessionVars, WriterDiff, WriterCheckBegins,
                          WriterTurnEnds
<1>2. CASE StartReturnsErr \/ PromptWriter
  <2>1. /\ loop'.reviewer = loop.reviewer
        /\ UNCHANGED <<prompting, starting, registered, asked, reviewing, missed>>
    <3>1. loop' = [loop EXCEPT !.state = "failed"] \/ loop' = loop
      BY <1>2 DEF StartReturnsErr, PromptWriter
    <3>2. loop'.reviewer = loop.reviewer
      BY <3>1 DEF TypeOK, Loops
    <3> QED BY <1>2, <3>2 DEF StartReturnsErr, PromptWriter, sessionVars
  <2> QED BY <2>1, KnownFrame
<1> QED BY <1>1, <1>2, KnownUser, KnownWriter, KnownReviewer DEF Next

-----------------------------------------------------------------------------
LEMMA InitIInv == Init => IInv /\ KnownInv
<1> SUFFICES ASSUME Init
             PROVE  IInv /\ KnownInv
  OBVIOUS
<1>1. TurnTypeOK
  BY MaxTurnsAssumption DEF Init, TurnInit, TurnTypeOK
<1>2. NoLoop \in Loops
  BY ReviewAssumption, MaxTurnsAssumption DEF NoLoop, Loops, States
<1>3. TypeOK
  <2>1. acts \in [Kinds -> Nat] /\ 0 \in 0..MaxTurns
    BY MaxTurnsAssumption DEF Init
  <2>2. loop \in Loops /\ lastDiff \in 0..MaxTurns /\ checksDone \in 0..MaxTurns
    BY <1>2, <2>1 DEF Init
  <2>3. registered \subseteq Reviewers /\ starting \subseteq Reviewers /\ reviewing \subseteq Reviewers
    BY DEF Init
  <2>4. /\ asked \in [Reviewers -> Nat] /\ prompting \in [Reviewers -> Nat]
        /\ prompts \in Nat /\ missed \in BOOLEAN
    BY DEF Init
  <2> QED BY <1>1, <2>1, <2>2, <2>3, <2>4 DEF TypeOK
<1>4. loop.state = "none"
  BY DEF Init, NoLoop
<1>5. TurnInv
  BY WriterIsTask DEF Init, TurnInit, TurnInv
<1>6. KnownInv
  BY DEF Init, NoLoop, KnownInv
<1> QED BY <1>3, <1>4, <1>5, <1>6 DEF IInv, ReviewIsUnderWay, AnswerInv, AnswerIsUnderWay

LEMMA NextIInv == IInv /\ KnownInv /\ [Next]_vars => (IInv /\ KnownInv)'
<1> SUFFICES ASSUME IInv, KnownInv, [Next]_vars
             PROVE  IInv'
  BY KnownKeeps DEF IInv
<1>1. CASE UNCHANGED vars
  <2>1. /\ TurnTypeOK' /\ TurnInv' /\ UNCHANGED <<phase, settling, checks>>
    BY <1>1, TurnsFrame DEF vars
  <2>2. UNCHANGED <<loop, lastDiff, checksDone, acts, prompting, starting, registered, asked, reviewing,
                prompts, missed>>
    BY <1>1 DEF vars, reviewerVars, actVars, sessionVars
  <2>3. RestTypes' /\ loop' \in Loops
    BY <2>2 DEF IInv, TypeOK, RestTypes, ActTypes
  <2>4. (ReviewerAtWork => ReviewerAtWork') /\ (Told => Told') /\ (Awaited(loop) => Awaited(loop)')
    BY <2>1, <2>2 DEF ReviewerAtWork, AtWork, Told, Awaited
  <2> QED BY <2>1, <2>2, <2>3, <2>4, Stays
<1>2. CASE Next
  BY <1>2, UserStep, WriterTurnStartsStep, WriterTurnEndsStep, AnswerReadStep, WriterDiffStep,
     TurnSettledStep, WriterCheckBeginsStep, CheckedStep, ReviewerBeginsStep,
     StartReturnsOkStep, StartReturnsErrStep, PromptReviewerStep, PromptWriterStep,
     ReviewerTurnStartsStep, ReviewerTurnEndsStep
  DEF Next
<1> QED BY <1>1, <1>2

(* The inductive invariant of the review loop.                             *)
THEOREM AlwaysIInv == Spec => [](IInv /\ KnownInv)
BY InitIInv, NextIInv, PTL DEF Spec

(* A loop that is reviewing has a reviewer at work, one on its way, or a   *)
(* check run that will report, unless a verdict went by unheard: whichever *)
(* of turn_settled, resolve and the verdict of the checks came first.      *)
THEOREM AlwaysReviewIsUnderWay == Spec => []ReviewIsUnderWay
<1>1. IInv => ReviewIsUnderWay
  BY DEF IInv
<1> QED BY <1>1, AlwaysIInv, PTL

(* A loop that waits for the writer is never left waiting: the findings    *)
(* are on their way, or the answering turn runs, or the thread that        *)
(* settles it has still to call turn_settled.                              *)
THEOREM AlwaysAnswerIsUnderWay == Spec => []AnswerIsUnderWay
<1>1. IInv => AnswerIsUnderWay
  BY DEF IInv
<1> QED BY <1>1, AlwaysIInv, PTL
=============================================================================
