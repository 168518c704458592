------------------------------- MODULE Review -------------------------------
(***************************************************************************)
(* The review loop of one session (sessions/live/review/mod.rs): a turn    *)
(* that changed files is read by a reviewer, a second session; findings go *)
(* to the writer, whose answering turn is read and may open another round. *)
(*                                                                         *)
(* Two things must be known before an answer is decided: what the turn     *)
(* said, which comes down the sinks, and what it changed, which the        *)
(* settling thread brings; either may be first.  The acts (start or prompt *)
(* the reviewer, prompt the writer) run on threads.  The file publish      *)
(* writes, and a restart that reads it, are left out.                      *)
(***************************************************************************)
EXTENDS TurnChecks

CONSTANTS Writer,        \* the session under review, which is not remote
          MaxRounds,     \* MAX_ROUNDS
          MaxReviewers   \* reviewer sessions in a behaviour

ASSUME ReviewAssumption ==
    /\ Tasks = {Writer} /\ Tracked = {Writer}
    /\ MaxRounds \in Nat \ {0} /\ MaxReviewers \in Nat

Reviewers == 1..MaxReviewers

VARIABLES loop,        \* the loop's card and its bookkeeping
          lastDiff,    \* the latest turn with a diff, or 0
          checksDone,  \* the turn of the last finished check run, or 0
          acts,        \* how many threads of each kind run() has spawned
          prompting,   \* those that are to prompt each reviewer
          starting,    \* reviewers begun whose start_reviewer has not returned
          registered,  \* State::reviewers
          asked,       \* prompts a reviewer has not begun a turn with
          reviewing,   \* reviewers whose turn is running
          prompts,     \* messages the writer has not begun a turn with
          missed       \* history: a verdict the loop waited for went by unheard

actVars == <<acts, prompting>>
sessionVars == <<starting, registered, asked, reviewing, prompts>>
reviewerVars == <<actVars, sessionVars>>
vars == <<turnVars, loop, lastDiff, checksDone, reviewerVars, missed>>

States == {"none", "reviewing", "waitingSend", "waitingCoder", "passed", "settled",
           "escalated", "failed"}
IsOpen == loop.state \in {"reviewing", "waitingSend", "waitingCoder"}
Kinds == {"start", "promptWriter"}

(* turn: the turn under review; diff: the turn the reviewed diff is of;    *)
(* reviewer: reviewer_task_id, 0 for None; awaiting: awaiting_checks;      *)
(* answerDiff: "unset", or whether the answering turn changed files;       *)
(* answerOf (history): the turn that answerDiff came from.                 *)
Loops == [state : States, round : 0..MaxRounds, turn : 0..MaxTurns, diff : 0..MaxTurns,
          reviewer : 0..MaxReviewers, awaiting : 0..MaxTurns, replying : BOOLEAN,
          answered : BOOLEAN, answerDiff : {"unset", "none", "some"},
          answerOf : 0..MaxTurns, answerChecking : BOOLEAN, answerTurn : 0..MaxTurns,
          decision : {"unset", "ask", "adopt", "reject"}]
NoLoop == [state |-> "none", round |-> 0, turn |-> 0, diff |-> 0, reviewer |-> 0,
           awaiting |-> 0, replying |-> FALSE, answered |-> FALSE, answerDiff |-> "unset",
           answerOf |-> 0, answerChecking |-> FALSE, answerTurn |-> 0, decision |-> "unset"]

TypeOK ==
    /\ TurnTypeOK
    /\ loop \in Loops
    /\ lastDiff \in 0..MaxTurns /\ checksDone \in 0..MaxTurns
    /\ acts \in [Kinds -> Nat] /\ prompting \in [Reviewers -> Nat]
    /\ starting \subseteq Reviewers /\ registered \subseteq Reviewers
    /\ asked \in [Reviewers -> Nat] /\ reviewing \subseteq Reviewers /\ prompts \in Nat
    /\ missed \in BOOLEAN

Init ==
    /\ TurnInit
    /\ loop = NoLoop
    /\ lastDiff = 0 /\ checksDone = 0
    /\ acts = [k \in Kinds |-> 0] /\ prompting = [r \in Reviewers |-> 0]
    /\ starting = {} /\ registered = {}
    /\ asked = [r \in Reviewers |-> 0] /\ reviewing = {} /\ prompts = 0
    /\ missed = FALSE

-----------------------------------------------------------------------------
Run(kind) == acts' = [acts EXCEPT ![kind] = @ + 1]

(* review_act: a reviewer that is known is prompted, else one is started.  *)
ReviewAct(l) ==
    IF l.reviewer = 0
    THEN Run("start") /\ UNCHANGED prompting
    ELSE prompting' = [prompting EXCEPT ![l.reviewer] = @ + 1] /\ UNCHANGED acts

(* open: a new loop at round 1; an earlier loop's reviewer is used again   *)
(* if the choice of the reviewer is the same.                              *)
Opened(t, same) ==
    [NoLoop EXCEPT !.state = "reviewing", !.round = 1, !.turn = t, !.diff = t,
                   !.reviewer = IF same THEN loop.reviewer ELSE 0]

(* What an answer leaves behind when a round begins or findings are sent.  *)
AnswerCleared(l) ==
    [l EXCEPT !.replying = FALSE, !.answered = FALSE, !.answerDiff = "unset"]

(* request: review the last changed turn now.                              *)
Request(same) ==
    /\ ~IsOpen /\ lastDiff > 0
    /\ loop' = Opened(lastDiff, same)
    /\ ReviewAct(Opened(lastDiff, same))
    /\ UNCHANGED <<turnVars, lastDiff, checksDone, sessionVars, missed>>

(* to_writer: the findings go to the writer, who is to answer.             *)
ToWriter(l) == [AnswerCleared(l) EXCEPT !.state = "waitingCoder"]

(* send: findings a paused loop held back.                                 *)
Send ==
    /\ loop.state = "waitingSend"
    /\ loop' = ToWriter(loop)
    /\ Run("promptWriter")
    /\ UNCHANGED <<turnVars, lastDiff, checksDone, prompting, sessionVars, missed>>

(* retry: the round again.                                                 *)
Retry ==
    /\ loop.state = "failed"
    /\ loop' = [AnswerCleared(loop) EXCEPT !.state = "reviewing", !.decision = "unset"]
    /\ ReviewAct(loop)
    /\ UNCHANGED <<turnVars, lastDiff, checksDone, sessionVars, missed>>

-----------------------------------------------------------------------------
(* resolve, once the answer is read and its diff known.                    *)
Resolvable(l) == l.answered /\ l.answerDiff # "unset"
NextRound(l) ==
    [AnswerCleared(l) EXCEPT !.state = "reviewing", !.round = @ + 1, !.turn = l.answerTurn,
                             !.diff = l.answerOf, !.decision = "unset",
                             !.awaiting = IF l.answerChecking THEN l.answerTurn ELSE @]
Decided(l) ==
    IF ~Resolvable(l) THEN l
    ELSE IF l.decision = "ask" THEN [l EXCEPT !.state = "escalated"]
    ELSE IF l.answerDiff = "none" \/ l.decision # "adopt" THEN [l EXCEPT !.state = "settled"]
    ELSE IF l.round >= MaxRounds THEN [l EXCEPT !.state = "escalated"]
    ELSE NextRound(l)

(* resolve's act, and whether the checks it will wait for have reported.   *)
Resolve(l) ==
    LET next == Decided(l) IN
    /\ loop' = next
    /\ IF Resolvable(l) /\ next.state = "reviewing"
       THEN IF l.answerChecking
            THEN /\ UNCHANGED actVars
                 /\ missed' = (missed \/ \A c \in checks[Writer] : c.turn # l.answerTurn)
            ELSE ReviewAct(next) /\ UNCHANGED missed
       ELSE UNCHANGED <<actVars, missed>>

(* Any turn of the writer's that starts while its answer is awaited counts *)
(* as the answer.                                                          *)
WriterTurnStarts ==
    /\ TurnStarted(Writer)
    /\ prompts' \in {prompts, IF prompts > 0 THEN prompts - 1 ELSE prompts}
    /\ loop' = IF loop.state = "waitingCoder" THEN [loop EXCEPT !.replying = TRUE] ELSE loop
    /\ UNCHANGED <<lastDiff, checksDone, actVars, starting, registered, asked, reviewing, missed>>

WriterTurnEnds(reason) ==
    /\ TurnEnded(Writer, reason)
    /\ UNCHANGED <<loop, lastDiff, checksDone, reviewerVars, missed>>

(* The end of the writer's turn at the sinks: its answers are read.        *)
AnswerRead(decision) ==
    /\ TurnEndedAtSinks(Writer)
    /\ IF loop.state = "waitingCoder" /\ loop.replying /\ ~loop.answered
       THEN Resolve([loop EXCEPT !.answered = TRUE, !.answerTurn = turn[Writer],
                                 !.decision = decision])
       ELSE UNCHANGED <<loop, actVars, missed>>
    /\ UNCHANGED <<lastDiff, checksDone, sessionVars>>

WriterDiff ==
    /\ \E s \in settling[Writer] :
        StartChecks(Writer, s) \/ \E changed \in BOOLEAN : NothingToCheck(Writer, s, changed)
    /\ UNCHANGED <<loop, lastDiff, checksDone, reviewerVars, missed>>

(* turn_settled: the answer's diff, or the turn that opens a loop; checks  *)
(* that run are waited for unless they have reported already.              *)
Answers == loop.state = "waitingCoder" /\ loop.replying
SettledAnswer_NotResolved(s) ==
    /\ Answers
    /\ loop' = [loop EXCEPT !.answerDiff = IF s.diff THEN "some" ELSE "none",
                            !.answerOf = s.turn, !.answerChecking = s.checking]
    /\ UNCHANGED <<actVars, missed>>
SettledAnswer(s) ==
    /\ Answers
    /\ Resolve([loop EXCEPT !.answerDiff = IF s.diff THEN "some" ELSE "none",
                            !.answerOf = s.turn, !.answerChecking = s.checking])

MustWait_IgnoresDone(s) == s.checking
MustWait(s) == s.checking /\ checksDone # s.turn
Unheard(s) == s.checking /\ checksDone # s.turn /\ \A c \in checks[Writer] : c.turn # s.turn
SettledOpens(s, same) ==
    /\ ~IsOpen /\ s.diff /\ s.reason = "completed"
    /\ IF MustWait(s)
       THEN loop' = [Opened(s.turn, same) EXCEPT !.awaiting = s.turn] /\ UNCHANGED actVars
       ELSE loop' = Opened(s.turn, same) /\ ReviewAct(Opened(s.turn, same))
    /\ missed' = (missed \/ Unheard(s))

(* The loop is off, open already, or the turn is none to review.           *)
SettledIgnored ==
    /\ ~Answers
    /\ UNCHANGED <<loop, actVars, missed>>

TurnSettled(s) ==
    /\ Settled(Writer, s)
    /\ lastDiff' = IF s.diff THEN s.turn ELSE lastDiff
    /\ SettledAnswer(s) \/ (\E same \in BOOLEAN : SettledOpens(s, same)) \/ SettledIgnored
    /\ UNCHANGED <<checksDone, sessionVars>>

WriterCheckBegins ==
    /\ \E c \in checks[Writer] : CheckBegins(Writer, c)
    /\ UNCHANGED <<loop, lastDiff, checksDone, reviewerVars, missed>>

(* A verdict of the checks: remembered, and the loop that waits for it has *)
(* the turn reviewed.                                                      *)
Checked(c, verdict) ==
    /\ CheckReports(Writer, c, verdict)
    /\ checksDone' = c.turn
    /\ IF loop.awaiting = c.turn
       THEN loop' = [loop EXCEPT !.awaiting = 0] /\ ReviewAct(loop)
       ELSE UNCHANGED <<loop, actVars>>
    /\ UNCHANGED <<lastDiff, sessionVars, missed>>

-----------------------------------------------------------------------------
(* run: start_reviewer has the new session begin before it returns, and the *)
(* session is known as a reviewer only then.                               *)
Fresh == Reviewers \ (starting \cup registered)
ReviewerBegins(r) ==
    /\ acts["start"] > 0
    /\ r \in Fresh /\ \A q \in Fresh : r <= q
    /\ acts' = [acts EXCEPT !["start"] = @ - 1]
    /\ starting' = starting \cup {r}
    /\ asked' = [asked EXCEPT ![r] = @ + 1]
    /\ UNCHANGED <<turnVars, loop, lastDiff, checksDone, prompting, registered, reviewing, prompts,
                   missed>>

(* It is the reviewer of the loop there is by now, whichever asked for it. *)
StartReturnsOk(r) ==
    /\ r \in starting
    /\ starting' = starting \ {r}
    /\ registered' = registered \cup {r}
    /\ loop' = [loop EXCEPT !.reviewer = r]
    /\ UNCHANGED <<turnVars, lastDiff, checksDone, actVars, asked, reviewing, prompts, missed>>

StartReturnsErr ==
    /\ acts["start"] > 0
    /\ acts' = [acts EXCEPT !["start"] = @ - 1]
    /\ loop' = [loop EXCEPT !.state = "failed"]
    /\ UNCHANGED <<turnVars, lastDiff, checksDone, prompting, sessionVars, missed>>

(* A prompt is taken, or fails and with it the loop, whatever it is at.    *)
PromptReviewer(r) ==
    /\ prompting[r] > 0
    /\ prompting' = [prompting EXCEPT ![r] = @ - 1]
    /\ registered' = registered \cup {r}
    /\ \/ asked' = [asked EXCEPT ![r] = @ + 1] /\ UNCHANGED loop
       \/ loop' = [loop EXCEPT !.state = "failed"] /\ UNCHANGED asked
    /\ UNCHANGED <<turnVars, lastDiff, checksDone, acts, starting, reviewing, prompts, missed>>

PromptWriter ==
    /\ acts["promptWriter"] > 0
    /\ acts' = [acts EXCEPT !["promptWriter"] = @ - 1]
    /\ \/ prompts' = prompts + 1 /\ UNCHANGED loop
       \/ loop' = [loop EXCEPT !.state = "failed"] /\ UNCHANGED prompts
    /\ UNCHANGED <<turnVars, lastDiff, checksDone, prompting, starting, registered, asked, reviewing,
                   missed>>

ReviewerTurnStarts(r) ==
    /\ asked[r] > 0 /\ r \notin reviewing
    /\ asked' = [asked EXCEPT ![r] = @ - 1]
    /\ reviewing' = reviewing \cup {r}
    /\ UNCHANGED <<turnVars, loop, lastDiff, checksDone, actVars, starting, registered, prompts,
                   missed>>

(* reviewed: the verdict of the reviewer's turn, while the loop is         *)
(* reviewing; "bad": the turn failed or said nothing readable.             *)
Reviewed(verdict, paused) ==
    IF verdict = "bad" THEN [loop EXCEPT !.state = "failed"]
    ELSE IF verdict = "pass" THEN [loop EXCEPT !.state = "passed"]
    ELSE IF paused THEN [loop EXCEPT !.state = "waitingSend"]
    ELSE ToWriter(loop)

(* A verdict counts when the session is known as a reviewer, and not when  *)
(* the loop names another one: a changed choice replaced it.               *)
Heard(r) == r \in registered /\ loop.state = "reviewing" /\ loop.reviewer \in {0, r}
ReviewerTurnEnds(r, verdict, paused) ==
    /\ r \in reviewing
    /\ reviewing' = reviewing \ {r}
    /\ IF Heard(r)
       THEN /\ loop' = Reviewed(verdict, paused)
            /\ IF loop'.state = "waitingCoder" THEN Run("promptWriter") ELSE UNCHANGED acts
            /\ UNCHANGED missed
       ELSE /\ UNCHANGED <<loop, acts>>
            /\ missed' = (missed \/ r \notin registered)
    /\ UNCHANGED <<turnVars, lastDiff, checksDone, prompting, starting, registered, asked, prompts>>

-----------------------------------------------------------------------------
Next ==
    \/ (\E same \in BOOLEAN : Request(same)) \/ Send \/ Retry
    \/ WriterTurnStarts \/ \E r \in Reasons : WriterTurnEnds(r)
    \/ \E d \in {"ask", "adopt", "reject"} : AnswerRead(d)
    \/ WriterDiff \/ \E s \in settling[Writer] : TurnSettled(s)
    \/ WriterCheckBegins \/ \E c \in checks[Writer], v \in Verdicts : Checked(c, v)
    \/ StartReturnsErr \/ PromptWriter
    \/ \E r \in Reviewers :
        \/ ReviewerBegins(r) \/ StartReturnsOk(r) \/ PromptReviewer(r) \/ ReviewerTurnStarts(r)
        \/ \E v \in {"bad", "pass", "findings"}, p \in BOOLEAN : ReviewerTurnEnds(r, v, p)

Spec == Init /\ [][Next]_vars

-----------------------------------------------------------------------------
(* A loop that is reviewing is never forgotten: the reviewer whose verdict *)
(* will count is at work or about to be, or a check run it waits for has   *)
(* still to report, whichever of turn_settled and the verdict came first   *)
(* and however often the choice of the reviewer changed.  A loop that      *)
(* names no reviewer hears whoever is at work (reviewed).  The code does   *)
(* miss three (missed): a verdict on a later round's turn that came before *)
(* resolve, one that the next turn's verdict replaced in checks_done, and  *)
(* the verdict of a reviewer that ended before start_reviewer returned.    *)
AtWork(r) == prompting[r] > 0 \/ asked[r] > 0 \/ r \in reviewing
ReviewerAtWork ==
    \/ loop.reviewer = 0 /\ (acts["start"] > 0 \/ \E r \in Reviewers : AtWork(r))
    \/ loop.reviewer # 0 /\ AtWork(loop.reviewer)
ReviewIsUnderWay ==
    loop.state = "reviewing" /\ ~missed =>
        ReviewerAtWork \/ \E c \in checks[Writer] : c.turn = loop.awaiting

(* A loop that waits for the writer is answered: the findings are on their *)
(* way, or the turn that answers is running, or its two halves are being   *)
(* put together.                                                           *)
AnswerIsUnderWay ==
    loop.state = "waitingCoder" =>
        \/ acts["promptWriter"] > 0 \/ prompts > 0
        \/ loop.replying /\ (phase[Writer] # "idle" \/ settling[Writer] # {})

(* The diff a later round is given is what the answering turn changed      *)
(* (answer_diff: "What the answering turn changed").                       *)
DiffIsTheTurns == loop.state = "reviewing" => loop.diff = loop.turn

=============================================================================
