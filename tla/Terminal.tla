------------------------------ MODULE Terminal ------------------------------
(***************************************************************************)
(* What a run prints, on its way to a window and to a phone.               *)
(*                                                                         *)
(* A run's reader thread publishes what it reads to the TerminalService    *)
(* (terminal/pty.rs), which keeps the last Window bytes of each run.  The  *)
(* desktop's poll loop asks terminal.plan_replay for what follows its      *)
(* cursor and draws the answer; the remote server has a forwarder per      *)
(* subscription, which reads the same bytes and sends them as frames.      *)
(*                                                                         *)
(* A byte is its position in the run's output, 0 for the first.  Nothing   *)
(* in the program calls mark_finished, so no stream is ever retired and    *)
(* evict_finished_locked finds nothing to evict: neither is an action.     *)
(***************************************************************************)
EXTENDS Naturals, Sequences, FiniteSets

CONSTANTS Runs,          \* the runs of one host life, one per task
          Window,        \* bytes a stream keeps
          ReadMax,       \* bytes the reader thread reads at once
          ChunkMax,      \* bytes of one answer, and of a snapshot
          FrameMax,      \* bytes of one frame after the snapshot
          MaxBytes,      \* bytes a run prints (bound)
          Setups         \* the instances: the runs there are, the limit of live
                         \* streams, how often the user shows a terminal and how
                         \* often the phone subscribes (bounds)

ASSUME SizeAssumption ==
    /\ {Window, ReadMax, ChunkMax, FrameMax} \subseteq Nat \ {0} /\ MaxBytes \in Nat
    /\ Setups \subseteq [runs : SUBSET Runs, cap : Nat, attaches : Nat, subs : Nat]

VARIABLES setup,         \* the instance, TERMINAL_MAX_LIVE_STREAMS in it
          up,            \* the host is still in its first life
          registered,    \* the runs in the registry
          printed,       \* bytes each run's reader has read
          held,          \* bytes read and not yet in the stream
          reading,       \* the runs whose reader thread is still there
          streams,       \* TerminalService::streams
          refused,       \* the runs whose publish was refused
          poll,          \* the desktop's poll loop
          late,          \* answers received by loops that were then cancelled
          view,          \* the renderer of the shown terminal
          forwarders,    \* the phone's forwarders, an aborted one included
          sent           \* the frames' bytes since the latest SnapshotStart

hostVars == <<setup, up, registered, printed, held, reading, streams, refused>>
windowVars == <<poll, late, view>>
phoneVars == <<forwarders, sent>>
vars == <<hostVars, windowVars, phoneVars>>

Bytes == 0..MaxBytes
Stream == [retained : Seq(Bytes), from : Bytes, next : Bytes]
Answer == [run : Runs, kind : {"seamless", "reset"}, from : Bytes, bytes : Seq(Bytes),
           reason : {"none", "compacted", "cursorBeyondStream", "notStarted", "evicted"}]
Forwarder == [sub : Nat, run : Runs, stage : {"start", "loop", "asleep"},
              offset : Bytes, line : Bytes, aborted : BOOLEAN]
Streaming == DOMAIN streams

Init ==
    /\ setup \in Setups /\ up = TRUE
    /\ registered = {} /\ reading = {} /\ refused = {}
    /\ printed = [r \in Runs |-> 0] /\ held = [r \in Runs |-> 0]
    /\ streams = [r \in {} |-> 0]
    /\ poll = [run |-> {}, cursor |-> 0, tail |-> {}, shown |-> 0]
    /\ late = {} /\ view = [bytes |-> <<>>, mixed |-> FALSE]
    /\ forwarders = {} /\ sent = [sub |-> 0, bytes |-> <<>>, mixed |-> FALSE]

-----------------------------------------------------------------------------
(* The run and its reader thread *)

(* spawn_pty registered the run and its reader thread reads. *)
Launch(r) ==
    /\ up /\ r \notin registered /\ printed[r] = 0 /\ r \notin reading
    /\ registered' = registered \cup {r} /\ reading' = reading \cup {r}
    /\ UNCHANGED <<setup, up, printed, held, streams, refused, windowVars, phoneVars>>

(* Bytes of what the run prints are in the thread's buffer. *)
Read(r, n) ==
    /\ r \in reading /\ held[r] = 0 /\ printed[r] + n <= MaxBytes
    /\ printed' = [printed EXCEPT ![r] = @ + n] /\ held' = [held EXCEPT ![r] = n]
    /\ UNCHANGED <<setup, up, registered, reading, streams, refused, windowVars, phoneVars>>

(* publish of a run without a stream: one is made, unless the limit is met *)
(* by streams of any age; the buffer is then dropped.                      *)
OpenStream(r) ==
    /\ held[r] > 0 /\ r \notin Streaming
    /\ IF Cardinality(Streaming) >= setup.cap
         THEN /\ refused' = refused \cup {r} /\ held' = [held EXCEPT ![r] = 0]
              /\ UNCHANGED streams
         ELSE /\ streams' = [s \in Streaming \cup {r} |->
                               IF s = r THEN [retained |-> <<>>, from |-> 0, next |-> 0]
                                        ELSE streams[s]]
              /\ UNCHANGED <<refused, held>>
    /\ UNCHANGED <<setup, up, registered, printed, reading, windowVars, phoneVars>>

(* ByteStream::append: the oldest bytes beyond the window go. *)
Appended(s, bytes) ==
    LET all == s.retained \o bytes
        drop == IF Len(all) > Window THEN Len(all) - Window ELSE 0
    IN  [retained |-> SubSeq(all, drop + 1, Len(all)),
         from |-> s.from + drop, next |-> s.next + Len(bytes)]

(* The rest of publish, under the stream's own lock. *)
PublishAppends(r) ==
    /\ held[r] > 0 /\ r \in Streaming
    /\ streams' = [streams EXCEPT
          ![r] = Appended(@, [k \in 1..held[r] |-> printed[r] - held[r] + k - 1])]
    /\ held' = [held EXCEPT ![r] = 0]
    /\ UNCHANGED <<setup, up, registered, printed, reading, refused, windowVars, phoneVars>>

(* The process ended: the exit thread takes it off the registry, and the   *)
(* reader thread, whose read now returns 0, ends.                          *)
Deregister(r) ==
    /\ r \in registered /\ registered' = registered \ {r}
    /\ UNCHANGED <<setup, up, printed, held, reading, streams, refused, windowVars, phoneVars>>

ReaderEnds(r) ==
    /\ r \in reading /\ r \notin registered /\ held[r] = 0
    /\ reading' = reading \ {r}
    /\ UNCHANGED <<setup, up, registered, printed, held, streams, refused, windowVars, phoneVars>>

(* The host dies and another takes over: its streams, runs and forwarders  *)
(* are gone; the window asks the new host on its next turn round the loop. *)
Restart ==
    /\ up /\ up' = FALSE
    /\ registered' = {} /\ reading' = {} /\ held' = [r \in Runs |-> 0]
    /\ streams' = [r \in {} |-> 0] /\ forwarders' = {}
    /\ UNCHANGED <<setup, printed, refused, windowVars, sent>>

-----------------------------------------------------------------------------
(* Reading a stream *)

(* ByteStream::read_from for an offset that is not past the end. *)
ReadFrom(s, offset, max) ==
    LET start == IF offset < s.from THEN 0 ELSE offset - s.from
        last == IF start + max <= Len(s.retained) THEN start + max ELSE Len(s.retained)
    IN  [offset |-> IF offset < s.from THEN s.from ELSE offset,
         bytes |-> SubSeq(s.retained, start + 1, last), gap |-> offset < s.from]

(* plan_replay for a byte cursor, and classify_unknown_stream: the run is  *)
(* on the registry or else its task's record is on disk.                   *)
PlanReplay(r, cursor) ==
    IF r \notin Streaming
      THEN [run |-> r, kind |-> "reset", from |-> 0, bytes |-> <<>>,
            reason |-> IF r \in registered THEN "notStarted" ELSE "evicted"]
    ELSE IF cursor > streams[r].next
      THEN [run |-> r, kind |-> "reset", from |-> streams[r].next, bytes |-> <<>>,
            reason |-> "cursorBeyondStream"]
      ELSE LET c == ReadFrom(streams[r], cursor, ChunkMax)
           IN  [run |-> r, kind |-> IF c.gap THEN "reset" ELSE "seamless",
                from |-> c.offset, bytes |-> c.bytes,
                reason |-> IF c.gap THEN "compacted" ELSE "none"]

\* After a reset the loop asks from the beginning.
ResumeAfter_ResetToZero(t) == IF t.kind = "reset" THEN 0 ELSE t.from + Len(t.bytes)

(* ReplayPlan::resume_after *)
ResumeAfter(t) == t.from + Len(t.bytes)

-----------------------------------------------------------------------------
(* The window *)

(* attachTerminal cancels the loop there is and starts one of its own.  A  *)
(* loop that waits for an answer gives up; one whose answer was handed to  *)
(* it already goes on to draw it.                                          *)
Attach(r) ==
    /\ poll.shown < setup.attaches
    /\ late' = late \cup poll.tail
    /\ poll' = [run |-> {r}, cursor |-> 0, tail |-> {}, shown |-> poll.shown + 1]
    /\ view' = [bytes |-> <<>>, mixed |-> FALSE]
    /\ UNCHANGED <<hostVars, phoneVars>>

PollAsks ==
    /\ poll.tail = {}
    /\ \E r \in poll.run : poll' = [poll EXCEPT !.tail = {PlanReplay(r, poll.cursor)}]
    /\ UNCHANGED <<hostVars, late, view, phoneVars>>

(* TerminalCoordinator::ingest and TerminalStore::applyTail *)
Drawn(bytes, t) ==
    CASE t.kind = "seamless" -> bytes \o t.bytes
      [] t.reason = "notStarted" -> bytes
      [] OTHER -> t.bytes

PollDraws ==
    \E t \in poll.tail :
        /\ view' = [view EXCEPT !.bytes = Drawn(@, t)]
        /\ poll' = [poll EXCEPT !.tail = {}, !.cursor = ResumeAfter(t)]
        /\ UNCHANGED <<hostVars, late, phoneVars>>

(* A cancelled loop draws its answer into the coordinator it finds, which  *)
(* is the one of the terminal that is shown now.                           *)
LateDraws(t) ==
    /\ late' = late \ {t}
    /\ view' = [bytes |-> Drawn(view.bytes, t), mixed |-> TRUE]
    /\ UNCHANGED <<hostVars, poll, phoneVars>>

-----------------------------------------------------------------------------
(* The phone *)

Sends(f, bytes) ==
    sent' = [sent EXCEPT !.bytes = @ \o bytes, !.mixed = @ \/ f.sub # sent.sub]

(* Subscribe: the forwarder of the same stream id is aborted, which takes  *)
(* effect where it next waits.  The new one is a task of its own, which    *)
(* looks the run up when it starts.                                        *)
Subscribe(r) ==
    LET n == sent.sub + 1
    IN  /\ up /\ sent.sub < setup.subs
        /\ sent' = [sub |-> n, bytes |-> <<>>, mixed |-> FALSE]
        /\ forwarders' =
             {[f EXCEPT !.aborted = TRUE] : f \in {g \in forwarders : g.stage = "loop"}}
             \cup {[sub |-> n, run |-> r, stage |-> "start", offset |-> 0, line |-> 0,
                    aborted |-> FALSE]}
        /\ UNCHANGED <<hostVars, windowVars>>

Unsubscribe ==
    /\ \E f \in forwarders : ~f.aborted
    /\ forwarders' = {[f EXCEPT !.aborted = TRUE] : f \in {g \in forwarders : g.stage = "loop"}}
    /\ UNCHANGED <<hostVars, windowVars, sent>>

(* The snapshot: one chunk from offset 0.  Only the run that is registered *)
(* now is ever read; where there is none the snapshot is empty and all.    *)
Snapshot(f) ==
    /\ f.stage = "start"
    /\ IF f.run \notin registered THEN forwarders' = forwarders \ {f} /\ UNCHANGED sent ELSE
       LET c == IF f.run \in Streaming THEN ReadFrom(streams[f.run], 0, ChunkMax)
                ELSE [offset |-> 0, bytes |-> <<>>, gap |-> FALSE]
       IN  /\ Sends(f, c.bytes)
           /\ forwarders' = (forwarders \ {f}) \cup
                {[f EXCEPT !.stage = "loop", !.offset = Len(c.bytes), !.line = c.offset]}
    /\ UNCHANGED <<hostVars, windowVars>>

\* The loop counts a whole chunk although fewer bytes were there.
NextOffset_WholeChunk(offset, n) == offset + ChunkMax

(* Where the loop stands after a chunk of n bytes. *)
NextOffset(offset, n) == offset + n

(* The loop: send what is there, sleep when nothing is, end when there is  *)
(* no such stream.  The gap of a chunk is not looked at.                   *)
Forward(f) ==
    LET known == f.run \in Streaming
        c == IF known /\ f.offset <= streams[f.run].next
               THEN ReadFrom(streams[f.run], f.offset, FrameMax)
               ELSE [offset |-> 0, bytes |-> <<>>, gap |-> FALSE]
    IN  /\ f.stage = "loop"
        /\ Sends(f, c.bytes)
        /\ forwarders' = (forwarders \ {f}) \cup
             (IF ~known \/ (c.bytes = <<>> /\ f.aborted) THEN {}
              ELSE IF c.bytes = <<>> THEN {[f EXCEPT !.stage = "asleep"]}
              ELSE {[f EXCEPT !.offset = NextOffset(@, Len(c.bytes)),
                              !.line = IF c.gap THEN c.offset ELSE @]})
        /\ UNCHANGED <<hostVars, windowVars>>

Wakes(f) ==
    /\ f.stage = "asleep"
    /\ forwarders' = (forwarders \ {f}) \cup {[f EXCEPT !.stage = "loop"]}
    /\ UNCHANGED <<hostVars, windowVars, sent>>

-----------------------------------------------------------------------------
ReaderSteps(r) == OpenStream(r) \/ PublishAppends(r) \/ ReaderEnds(r)
Forwards == \E f \in forwarders : Snapshot(f) \/ Forward(f) \/ Wakes(f)

Next ==
    \/ \E r \in setup.runs :
          \/ Launch(r) \/ (\E n \in 1..ReadMax : Read(r, n)) \/ Deregister(r)
          \/ OpenStream(r) \/ PublishAppends(r) \/ ReaderEnds(r)
          \/ Attach(r) \/ Subscribe(r)
    \/ Restart \/ PollAsks \/ PollDraws \/ Unsubscribe
    \/ \E t \in late : LateDraws(t)
    \/ \E f \in forwarders : Snapshot(f) \/ Forward(f) \/ Wakes(f)

Spec == Init /\ [][Next]_vars

(* The reader thread ends with its process; the poll loop and the          *)
(* forwarders are loops with a timer.  Nothing makes a run print or end.   *)
FairSpec ==
    /\ Spec
    /\ \A r \in Runs : WF_vars(ReaderSteps(r))
    /\ WF_vars(PollAsks) /\ WF_vars(PollDraws)
    /\ WF_vars(Forwards)

-----------------------------------------------------------------------------
TypeOK ==
    /\ setup \in Setups /\ up \in BOOLEAN
    /\ registered \subseteq Runs /\ reading \subseteq Runs /\ refused \subseteq Runs
    /\ printed \in [Runs -> Bytes] /\ held \in [Runs -> 0..ReadMax]
    /\ Streaming \subseteq Runs /\ \A r \in Streaming : streams[r] \in Stream
    /\ poll.run \subseteq Runs /\ poll.cursor \in Bytes
    /\ poll.tail \cup late \subseteq Answer /\ view.bytes \in Seq(Bytes)
    /\ forwarders \subseteq Forwarder

(* The window shows one unbroken piece of the run's output, and it ends    *)
(* where the loop goes on: plan_replay's answers neither repeat a byte nor *)
(* skip one, whatever the stream dropped in between and whatever the host  *)
(* lost; a screen that begins later was cleared first.  (Where a cancelled *)
(* loop drew into the view, see the README.)                               *)
ViewIsOnePiece ==
    ~view.mixed =>
        view.bytes = [k \in 1..Len(view.bytes) |-> poll.cursor - Len(view.bytes) + k - 1]

(* The bytes a forwarder has left behind were sent, or were dropped by the *)
(* stream before the forwarder could read them: counting by chunk length   *)
(* from a line it does not follow never makes it jump over kept bytes.     *)
PhoneMissesOnlyDropped ==
    \A f \in forwarders : ~f.aborted /\ ~sent.mixed =>
        \A b \in 0..(f.offset - 1) :
            b < f.line \/ \E k \in DOMAIN sent.bytes : sent.bytes[k] = b

(* The run printed all it will, and its stream is kept. *)
Settled(r) == r \in Streaming /\ r \notin registered /\ r \notin reading

(* A window that stays on a run whose output is over shows the end of it:  *)
(* a reset, an answer of nothing or a full chunk never leaves the loop     *)
(* behind for good.                                                        *)
WindowCatchesUp ==
    \A r \in Runs : (Settled(r) /\ r \in poll.run) ~>
        (r \notin poll.run \/ ~up \/ poll.cursor = printed[r])

(* While a forwarder reads the run, the run's last byte gets sent, in each *)
(* subscription: sleeping, waking and reading again loses no wake-up.      *)
Forwarded(r) == \E f \in forwarders : f.run = r /\ ~f.aborted
PhoneGetsTheEnd ==
    \A r \in Runs : (Settled(r) /\ Forwarded(r)) ~>
        (~Forwarded(r) \/ \E k \in DOMAIN sent.bytes : sent.bytes[k] = printed[r] - 1)

(* stream.rs of a chunk with a gap: the caller has to clear the view and   *)
(* must not pretend that it follows on.  What a subscription sends is one  *)
(* unbroken piece.                                                         *)
PhoneIsOnePiece ==
    ~sent.mixed => \A k \in 1..(Len(sent.bytes) - 1) : sent.bytes[k + 1] = sent.bytes[k] + 1

(* pty.rs of TERMINAL_MAX_LIVE_STREAMS: the limit is on the streams being  *)
(* written at the same time.                                               *)
RefusedOnlyWhileManyWrite ==
    [][\A r \in refused' \ refused : Cardinality(reading \cap Streaming) >= setup.cap]_vars
=============================================================================
