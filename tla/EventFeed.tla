----------------------------- MODULE EventFeed ------------------------------
(***************************************************************************)
(* How a task's status reaches the desktop: the host's ring of events      *)
(* (events/log.rs), events.since, and the desktop's status pump with the   *)
(* task list it reads beside it (LiveSessions.swift, AppServices.swift).   *)
(*                                                                         *)
(* A status is a number: the task's n-th.  The thread that observed it     *)
(* wrote it to the task's row first and appends the event afterwards,      *)
(* outside TaskService's locks; the log calls its observer after it let    *)
(* go of its own lock.  The desktop's requests are answered in any order.  *)
(***************************************************************************)
EXTENDS Integers, Sequences, FiniteSets

CONSTANTS Tasks,         \* the tasks
          MaxEntries,    \* events the ring holds
          Setups         \* the instances: whether the log has an observer, and
                         \* the statuses per task, connections of the desktop and
                         \* lives of the host in a behaviour (bounds)

ASSUME FeedAssumption ==
    /\ MaxEntries \in Nat \ {0} /\ IsFiniteSet(Tasks)
    /\ Setups \subseteq [tasks : SUBSET Tasks, observer : BOOLEAN, statuses : Nat,
                        conns : Nat, lives : Nat]

VARIABLES setup,         \* the instance
          life,          \* which host process serves
          rows,          \* the tasks' rows: the latest status
          announcing,    \* statuses observed and not yet appended
          log,           \* EventLog::inner
          notifying,     \* events appended whose observer call is still to come
          observed,      \* the events the observer saw, in order
          conn,          \* which connection the desktop has
          cursor,        \* statusCursor: {} for nil, else {n}
          batch,         \* the answer the pump has in hand
          late,          \* answers pumps had in hand when they were cancelled
          lists,         \* refreshWorkspace calls that have not ended
          shown,         \* the sidebar
          base,          \* the pump's cursor after its first read or a reset
          applied,       \* the events the pump applied since, in order
          crossed        \* a cancelled pump wrote the cursor of its successor

hostVars == <<life, rows, announcing, log, notifying, observed>>
pumpVars == <<cursor, batch, late, base, applied, crossed>>
vars == <<setup, hostVars, conn, pumpVars, lists, shown>>

EmptyLog == [next_seq |-> 0, entries |-> <<>>, evicted |-> 0]
Event == [seq : Nat, task : Tasks, status : Nat]
Batch == [after : Nat, events : Seq(Event), latest : Nat, reset : BOOLEAN]
List == [conn : Nat, why : {"start", "reset"}, rows : SUBSET [Tasks -> Nat]]

Init ==
    /\ setup \in Setups /\ life = 1 /\ conn = 1
    /\ rows = [t \in Tasks |-> 0] /\ shown = rows
    /\ announcing = {} /\ log = EmptyLog /\ notifying = {} /\ observed = <<>>
    /\ cursor = {} /\ batch = {} /\ late = {} /\ base = 0 /\ applied = <<>>
    /\ crossed = FALSE
    /\ lists = {[conn |-> 1, why |-> "start", rows |-> {}]}

-----------------------------------------------------------------------------
(* The host *)

(* TaskService::observe admitted a status and persisted the row. *)
Observe(t) ==
    /\ rows[t] < setup.statuses
    /\ rows' = [rows EXCEPT ![t] = @ + 1]
    /\ announcing' = announcing \cup {[task |-> t, status |-> rows[t] + 1]}
    /\ UNCHANGED <<setup, life, log, notifying, observed, conn, pumpVars, lists, shown>>

\* What was pushed out is not counted (the hole of remote/event_log.rs).
Pushed_Uncounted(l, e) ==
    [next_seq |-> l.next_seq + 1,
     entries |-> Append(IF Len(l.entries) >= MaxEntries THEN Tail(l.entries) ELSE l.entries, e),
     evicted |-> l.evicted]

\* The ring takes one event more than it has room for.
Pushed_OneOver(l, e) ==
    LET full == Len(l.entries) > MaxEntries
    IN  [next_seq |-> l.next_seq + 1,
         entries |-> Append(IF full THEN Tail(l.entries) ELSE l.entries, e),
         evicted |-> IF full THEN l.evicted + 1 ELSE l.evicted]

(* The critical section of EventLog::append. *)
Pushed(l, e) ==
    LET full == Len(l.entries) >= MaxEntries
    IN  [next_seq |-> l.next_seq + 1,
         entries |-> Append(IF full THEN Tail(l.entries) ELSE l.entries, e),
         evicted |-> IF full THEN l.evicted + 1 ELSE l.evicted]

LogAppend(a) ==
    LET e == [seq |-> log.next_seq + 1, task |-> a.task, status |-> a.status]
    IN  /\ announcing' = announcing \ {a}
        /\ log' = Pushed(log, e)
        /\ notifying' = IF setup.observer THEN notifying \cup {e} ELSE notifying
        /\ UNCHANGED <<setup, life, rows, observed, conn, pumpVars, lists, shown>>

(* The end of append: the observer is called, outside the lock. *)
Notify(e) ==
    /\ notifying' = notifying \ {e} /\ observed' = Append(observed, e.seq)
    /\ UNCHANGED <<setup, life, rows, announcing, log, conn, pumpVars, lists, shown>>

(* The filter of since: the entries after a sequence number, in order.     *)
EntriesAfter(entries, after) ==
    LET kept == {k \in DOMAIN entries : entries[k].seq > after}
        place(k) == Cardinality({i \in kept : i <= k})
    IN  [j \in 1..Cardinality(kept) |-> entries[CHOOSE k \in kept : place(k) = j]]

\* A client that is ahead is told that it is right.
Since_EchoesCursor(after) ==
    LET none == [after |-> after, events |-> <<>>, latest |-> log.next_seq, reset |-> FALSE]
    IN  IF after >= log.next_seq THEN [none EXCEPT !.latest = after]
        ELSE IF after + 1 < log.evicted + 1 THEN [none EXCEPT !.reset = TRUE]
        ELSE [none EXCEPT !.events = EntriesAfter(log.entries, after)]

(* EventLog::since *)
Since(after) ==
    LET none == [after |-> after, events |-> <<>>, latest |-> log.next_seq, reset |-> FALSE]
    IN  IF after >= log.next_seq THEN none
        ELSE IF after + 1 < log.evicted + 1 THEN [none EXCEPT !.reset = TRUE]
        ELSE [none EXCEPT !.events = EntriesAfter(log.entries, after)]

-----------------------------------------------------------------------------
(* The desktop *)

Cursor == IF cursor = {} THEN 0 ELSE CHOOSE n \in cursor : TRUE
PumpWaits == \E l \in lists : l.conn = conn /\ l.why = "reset"

(* pumpStatusOnce asks, and the host's answer is in its hand. *)
PumpAsks ==
    /\ batch = {} /\ ~PumpWaits
    /\ batch' = {Since(Cursor)}
    /\ UNCHANGED <<setup, hostVars, conn, cursor, late, base, applied, crossed, lists, shown>>

(* applyStatus, for the events of a batch in order. *)
Shown(events) ==
    [t \in Tasks |-> LET mine == {k \in DOMAIN events : events[k].task = t}
                     IN  IF mine = {} THEN shown[t]
                         ELSE events[CHOOSE k \in mine : \A j \in mine : j <= k].status]

(* The rest of pumpStatusOnce: the first answer, and one that says reset,  *)
(* only set the cursor; a reset reads the list and waits for it.           *)
Handle(b) ==
    /\ cursor' = {b.latest}
    /\ IF cursor = {} \/ b.reset
         THEN /\ base' = b.latest /\ applied' = <<>> /\ UNCHANGED shown
              /\ lists' = IF b.reset
                            THEN lists \cup {[conn |-> conn, why |-> "reset", rows |-> {}]}
                            ELSE lists
         ELSE /\ shown' = Shown(b.events)
              /\ applied' = applied \o [k \in DOMAIN b.events |-> b.events[k].seq]
              /\ UNCHANGED <<base, lists>>

PumpHandles ==
    \E b \in batch :
        /\ Handle(b) /\ batch' = {}
        /\ UNCHANGED <<setup, hostVars, conn, late, crossed>>

(* A cancelled pump does not look whether it is: it handles what it has.   *)
LateHandles(b) ==
    /\ Handle(b) /\ late' = late \ {b} /\ crossed' = TRUE
    /\ UNCHANGED <<setup, hostVars, conn, batch>>

(* refreshWorkspace: the host reads the rows, then the sidebar takes them. *)
ListReads(l) ==
    /\ l.rows = {} /\ l.conn = conn
    /\ lists' = (lists \ {l}) \cup {[l EXCEPT !.rows = {rows}]}
    /\ UNCHANGED <<setup, hostVars, conn, pumpVars, shown>>

(* task.list fails: the sidebar keeps what it has, and nothing asks again. *)
ListFails(l) ==
    /\ l.rows = {} /\ lists' = lists \ {l}
    /\ UNCHANGED <<setup, hostVars, conn, pumpVars, shown>>

\* A list only adds tasks the sidebar has not got.
ListShows_NewTasksOnly(l) ==
    /\ l.rows # {} /\ lists' = lists \ {l}
    /\ UNCHANGED <<setup, hostVars, conn, pumpVars, shown>>

ListShows(l) ==
    /\ shown' \in l.rows
    /\ lists' = lists \ {l}
    /\ UNCHANGED <<setup, hostVars, conn, pumpVars>>

(* connectionReady: the pump starts anew and the list is read.  Requests   *)
(* of the old connection fail; answers already in hand stay.               *)
Reconnect ==
    /\ conn < setup.conns /\ conn' = conn + 1
    /\ cursor' = {} /\ base' = 0 /\ applied' = <<>> /\ crossed' = FALSE
    /\ late' = late \cup batch /\ batch' = {}
    /\ lists' = {l \in lists : l.rows # {}} \cup {[conn |-> conn + 1, why |-> "start", rows |-> {}]}

ConnectionLost ==
    /\ Reconnect /\ UNCHANGED <<setup, hostVars, shown>>

(* The host dies: the log, and what was not announced, die with it.        *)
HostRestarts ==
    /\ life < setup.lives /\ life' = life + 1
    /\ Reconnect
    /\ log' = EmptyLog /\ announcing' = {} /\ notifying' = {} /\ observed' = <<>>
    /\ UNCHANGED <<setup, rows, shown>>

-----------------------------------------------------------------------------
Next ==
    \/ \E t \in setup.tasks : Observe(t)
    \/ \E a \in announcing : LogAppend(a)
    \/ \E e \in notifying : Notify(e)
    \/ PumpAsks \/ PumpHandles
    \/ \E b \in late : LateHandles(b)
    \/ \E l \in lists : ListReads(l) \/ ListFails(l) \/ ListShows(l)
    \/ ConnectionLost \/ HostRestarts

Spec == Init /\ [][Next]_vars

(* The pump is a loop with a timer; a request on a live connection is      *)
(* answered or fails, and its caller goes on; a thread that observed a     *)
(* status appends it.                                                      *)
FairSpec ==
    /\ Spec
    /\ WF_vars(PumpAsks) /\ WF_vars(PumpHandles)
    /\ WF_vars(\E a \in announcing : LogAppend(a))
    /\ WF_vars(\E l \in lists : ListReads(l) \/ ListShows(l))

-----------------------------------------------------------------------------
TypeOK ==
    /\ rows \in [Tasks -> Nat] /\ shown \in [Tasks -> Nat]
    /\ announcing \subseteq [task : Tasks, status : Nat]
    /\ log \in [next_seq : Nat, entries : Seq(Event), evicted : Nat]
    /\ Len(log.entries) <= MaxEntries
    /\ notifying \subseteq Event /\ observed \in Seq(Nat)
    /\ cursor \in SUBSET Nat /\ Cardinality(cursor) <= 1 /\ base \in Nat
    /\ batch \cup late \subseteq Batch /\ lists \subseteq List
    /\ applied \in Seq(Nat) /\ crossed \in BOOLEAN

(* The pump applies every event of the host's log once and in the log's    *)
(* order, from where its first read or its last reset left the cursor: the *)
(* ring's window, a lost connection and a host that starts counting again  *)
(* leave no gap.  (Where a cancelled pump wrote the cursor, see README.)   *)
PumpIsGapless ==
    ~crossed => applied = [k \in 1..(Cursor - base) |-> base + k]

(* When the list read for a reset is shown, no event the reset passed over *)
(* is newer than the sidebar: the rows were written before their events.   *)
ResetIsRepaired ==
    [][\A l \in lists \ lists' : l.why = "reset" /\ l.rows # {} /\ l.conn = conn =>
          \A k \in DOMAIN log.entries :
              log.entries[k].seq <= base /\ ~crossed =>
                  shown'[log.entries[k].task] >= log.entries[k].status]_vars

(* A pump that is behind the log does not stay behind: no reset, wait for  *)
(* a list or host that counts from the beginning again stops it for good.  *)
Behind == Cursor # log.next_seq
PumpReachesTheEnd == Behind ~> ~Behind

(* LiveSessions.swift, pumpStatusOnce: "First read only sets the cursor:   *)
(* the snapshot already came from task.list."  When all is announced, read *)
(* and handled, the sidebar shows the rows.                                *)
Quiet == announcing = {} /\ lists = {} /\ batch = {} /\ late = {} /\ cursor = {log.next_seq}
ShownIsCurrent == Quiet /\ life = 1 => shown = rows

(* log.rs of EventObserver: "the observer sees the same order of seq as    *)
(* the ring".                                                              *)
ObserverInOrder == \A j, k \in DOMAIN observed : j < k => observed[j] < observed[k]
=============================================================================
