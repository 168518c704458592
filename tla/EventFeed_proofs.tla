-------------------------- MODULE EventFeed_proofs --------------------------
(***************************************************************************)
(* The pump's reading of the event log, for every ring, every number of    *)
(* statuses, connections and lives of the host.                            *)
(***************************************************************************)
EXTENDS EventFeed, FiniteSetTheorems, SequenceTheorems, WellFoundedInduction, TLAPS

(* The ring holds the events evicted+1 .. next_seq, none of them newer     *)
(* than its task's row: the row was written before the event.              *)
RingInv ==
    /\ Len(log.entries) = log.next_seq - log.evicted
    /\ \A k \in DOMAIN log.entries :
          /\ log.entries[k].seq = log.evicted + k
          /\ log.entries[k].status <= rows[log.entries[k].task]
    /\ \A a \in announcing : a.status <= rows[a.task]

(* The pump is not ahead of the log, has applied what lies between base    *)
(* and its cursor, and an answer in its hand goes on from the cursor.      *)
PumpInv ==
    ~crossed =>
        /\ base <= Cursor /\ Cursor <= log.next_seq
        /\ applied = [k \in 1..(Cursor - base) |-> base + k]
        /\ \A b \in batch :
              /\ b.latest <= log.next_seq
              /\ cursor # {} /\ ~b.reset =>
                    /\ Cursor <= b.latest /\ Len(b.events) = b.latest - Cursor
                    /\ \A k \in DOMAIN b.events : b.events[k].seq = Cursor + k

(* A list that was read for a reset is not older than an event the reset   *)
(* passed over, and the pump waits for it with empty hands.                *)
ListInv ==
    /\ \A l \in lists : l.conn <= conn
    /\ ~crossed =>
          /\ batch # {} => ~PumpWaits
          /\ \A l \in lists : l.why = "reset" /\ l.conn = conn =>
                \A r \in l.rows, k \in DOMAIN log.entries :
                    log.entries[k].seq <= base =>
                        r[log.entries[k].task] >= log.entries[k].status

Types ==
    /\ TypeOK
    /\ setup \in Setups /\ conn \in Nat
    /\ cursor = {} \/ \E n \in cursor : cursor = {n}

IInv == Types /\ RingInv /\ PumpInv /\ ListInv

-----------------------------------------------------------------------------
(* The cursor and the answers of the log *)

LEMMA OneChoice == ASSUME NEW n PROVE (CHOOSE m \in {n} : TRUE) = n
  OBVIOUS

LEMMA CursorIs ==
    /\ cursor = {} => Cursor = 0
    /\ \A n : cursor = {n} => Cursor = n
  BY OneChoice DEF Cursor

LEMMA CursorType == ASSUME Types PROVE Cursor \in Nat
<1>1. cursor \in SUBSET Nat
    BY DEF Types, TypeOK
<1>2. ASSUME NEW n \in cursor, cursor = {n} PROVE Cursor \in Nat
    BY <1>1, <1>2, CursorIs
<1> QED BY <1>2, CursorIs DEF Types

LEMMA LogTypes ==
    ASSUME TypeOK
    PROVE  /\ log.next_seq \in Nat /\ log.evicted \in Nat /\ log.entries \in Seq(Event)
           /\ \A k \in DOMAIN log.entries : log.entries[k] \in Event
  BY DEF TypeOK

LEMMA IntervalSize ==
    ASSUME NEW a \in Int, NEW b \in Int, ~(a > b)
    PROVE  Cardinality(a..b) = b - a + 1
  BY FS_Interval

(* Of a ring without holes, since keeps what follows the cursor.           *)
LEMMA EntriesAfterIs ==
    ASSUME Types, RingInv, NEW after \in Nat, log.evicted <= after, after < log.next_seq
    PROVE  /\ EntriesAfter(log.entries, after) \in Seq(Event)
           /\ Len(EntriesAfter(log.entries, after)) = log.next_seq - after
           /\ \A j \in 1..(log.next_seq - after) :
                 EntriesAfter(log.entries, after)[j].seq = after + j
<1> DEFINE es == log.entries
           m == after - log.evicted
           kept == {k \in DOMAIN es : es[k].seq > after}
           place(k) == Cardinality({i \in kept : i <= k})
<1>1. m \in Nat /\ m < Len(es) /\ Len(es) \in Nat /\ DOMAIN es = 1..Len(es)
    BY LogTypes DEF Types, RingInv
<1>2. kept = (m + 1)..Len(es)
    BY <1>1, LogTypes DEF Types, RingInv
<1> HIDE DEF m
<1>3. Cardinality(kept) = Len(es) - m
    <2>1. Cardinality((m + 1)..Len(es)) = Len(es) - (m + 1) + 1
        <3>1. m + 1 \in Int /\ Len(es) \in Int /\ ~(m + 1 > Len(es))
            BY <1>1
        <3> QED BY <3>1, IntervalSize
    <2>2. Cardinality(kept) = Cardinality((m + 1)..Len(es))
        BY <1>2
    <2> QED BY <1>1, <2>1, <2>2
<1>4. \A k \in kept : place(k) = k - m
    <2> TAKE k \in kept
    <2>1. {i \in kept : i <= k} = (m + 1)..k
        BY <1>1, <1>2
    <2>2. k \in Int /\ m + 1 <= k
        BY <1>1, <1>2
    <2>3. Cardinality((m + 1)..k) = k - m
        <3>1. m + 1 \in Int /\ k \in Int /\ ~(m + 1 > k)
            BY <1>1, <2>2
        <3>2. Cardinality((m + 1)..k) = k - (m + 1) + 1
            BY <3>1, IntervalSize
        <3> QED BY <1>1, <2>2, <3>2
    <2> QED BY <2>1, <2>3
<1>5. \A j \in 1..(Len(es) - m) : (CHOOSE k \in kept : place(k) = j) = m + j
    <2> HIDE DEF place, kept
    <2> TAKE j \in 1..(Len(es) - m)
    <2>1. m + j \in kept /\ place(m + j) = j
        BY <1>1, <1>2, <1>4
    <2>2. \A k \in kept : place(k) = j => k = m + j
        BY <1>1, <1>2, <1>4
    <2> QED BY <2>1, <2>2
<1>6. EntriesAfter(es, after) = [j \in 1..(Len(es) - m) |-> es[m + j]]
    <2>1. EntriesAfter(es, after) =
             [j \in 1..Cardinality(kept) |-> es[CHOOSE k \in kept : place(k) = j]]
        BY DEF EntriesAfter
    <2> HIDE DEF place, kept
    <2> QED BY <1>3, <1>5, <2>1
<1>7. \A j \in 1..(Len(es) - m) : es[m + j] \in Event /\ es[m + j].seq = after + j
    <2> TAKE j \in 1..(Len(es) - m)
    <2>1. m + j \in DOMAIN es
        BY <1>1
    <2>2. es[m + j] \in Event /\ es[m + j].seq = log.evicted + (m + j)
        BY <2>1, LogTypes DEF Types, RingInv
    <2>3. log.evicted + (m + j) = after + j
        BY LogTypes DEF m, Types
    <2> QED BY <2>2, <2>3
<1>8. Len(es) - m = log.next_seq - after /\ Len(es) - m \in Nat
    BY <1>1, LogTypes DEF Types, RingInv, m
<1> QED BY <1>6, <1>7, <1>8

(* What an answer says; it has no gap when the cursor is not ahead.        *)
LEMMA SinceIs ==
    ASSUME Types, RingInv, NEW after \in Nat
    PROVE  /\ Since(after) \in Batch
           /\ Since(after).latest = log.next_seq
           /\ after <= log.next_seq /\ ~Since(after).reset =>
                 /\ Len(Since(after).events) = log.next_seq - after
                 /\ \A k \in DOMAIN Since(after).events : Since(after).events[k].seq = after + k
<1>1. log.next_seq \in Nat /\ log.evicted \in Nat /\ <<>> \in Seq(Event)
    BY LogTypes DEF Types
<1>2. CASE after >= log.next_seq
    <2>1. Since(after) = [after |-> after, events |-> <<>>, latest |-> log.next_seq, reset |-> FALSE]
        BY <1>2 DEF Since
    <2> QED BY <1>1, <1>2, <2>1 DEF Batch
<1>3. CASE after < log.next_seq /\ after < log.evicted
    <2>1. ~(after >= log.next_seq) /\ after + 1 < log.evicted + 1
        BY <1>1, <1>3
    <2>2. Since(after) = [after |-> after, events |-> <<>>, latest |-> log.next_seq, reset |-> TRUE]
        BY <2>1 DEF Since
    <2> QED BY <1>1, <2>2 DEF Batch
<1>4. CASE after < log.next_seq /\ after >= log.evicted
    <2> DEFINE es == EntriesAfter(log.entries, after)
    <2>1. Since(after) = [after |-> after, events |-> es, latest |-> log.next_seq, reset |-> FALSE]
        <3>1. ~(after >= log.next_seq) /\ ~(after + 1 < log.evicted + 1)
            BY <1>1, <1>4
        <3> QED BY <3>1 DEF Since
    <2>2. es \in Seq(Event) /\ Len(es) = log.next_seq - after
        BY <1>1, <1>4, EntriesAfterIs
    <2>3. \A j \in 1..(log.next_seq - after) : es[j].seq = after + j
        BY <1>1, <1>4, EntriesAfterIs
    <2> HIDE DEF es
    <2> QED BY <1>1, <2>1, <2>2, <2>3 DEF Batch
<1> QED BY <1>1, <1>2, <1>3, <1>4

(* The ring after an append: one event more at its end, the oldest gone    *)
(* when it was full.                                                       *)
LEMMA PushedIs ==
    ASSUME Types, RingInv, NEW e \in Event, e.seq = log.next_seq + 1
    PROVE  LET p == Pushed(log, e)
           IN  /\ p \in [next_seq : Nat, entries : Seq(Event), evicted : Nat]
               /\ p.next_seq = log.next_seq + 1
               /\ Len(p.entries) <= MaxEntries /\ Len(p.entries) = p.next_seq - p.evicted
               /\ \A k \in DOMAIN p.entries :
                     /\ p.entries[k].seq = p.evicted + k
                     /\ \/ p.entries[k] = e
                        \/ \E j \in DOMAIN log.entries : p.entries[k] = log.entries[j]
<1> DEFINE es == log.entries
           l == Pushed(log, e)
<1>1. /\ log.next_seq \in Nat /\ log.evicted \in Nat /\ es \in Seq(Event) /\ MaxEntries \in Nat \ {0}
      /\ Len(es) <= MaxEntries /\ Len(es) = log.next_seq - log.evicted
      /\ \A k \in 1..Len(es) : es[k].seq = log.evicted + k
    <2>1. Len(es) <= MaxEntries /\ TypeOK
        BY DEF Types, TypeOK
    <2>2. es \in Seq(Event) /\ log.next_seq \in Nat /\ log.evicted \in Nat
        BY <2>1, LogTypes
    <2>3. DOMAIN es = 1..Len(es)
        BY <2>2
    <2> QED BY <2>1, <2>2, <2>3, FeedAssumption DEF RingInv
<1>2. CASE Len(es) >= MaxEntries
    <2>1. l = [next_seq |-> log.next_seq + 1, entries |-> Append(Tail(es), e),
               evicted |-> log.evicted + 1]
        BY <1>2 DEF Pushed
    <2>2. Tail(es) \in Seq(Event) /\ Len(Tail(es)) = Len(es) - 1
          /\ \A k \in 1..(Len(es) - 1) : Tail(es)[k] = es[k + 1]
        BY <1>1, <1>2
    <2>3. /\ Append(Tail(es), e) \in Seq(Event) /\ Len(Append(Tail(es), e)) = Len(es)
          /\ \A k \in 1..(Len(es) - 1) : Append(Tail(es), e)[k] = es[k + 1]
          /\ Append(Tail(es), e)[Len(es)] = e
        BY <1>1, <2>2
    <2> HIDE DEF l
    <2>4. /\ l \in [next_seq : Nat, entries : Seq(Event), evicted : Nat]
          /\ l.next_seq = log.next_seq + 1
          /\ Len(l.entries) <= MaxEntries /\ Len(l.entries) = l.next_seq - l.evicted
        BY <1>1, <2>1, <2>3
    <2>5. ASSUME NEW k \in DOMAIN l.entries
          PROVE  /\ l.entries[k].seq = l.evicted + k
                 /\ l.entries[k] = e \/ \E j \in DOMAIN es : l.entries[k] = es[j]
        <3>1. k \in 1..Len(es)
            BY <2>1, <2>3
        <3>2. CASE k = Len(es)
            BY <1>1, <2>1, <2>3, <3>2
        <3>3. CASE k \in 1..(Len(es) - 1)
            <4>1. l.entries[k] = es[k + 1] /\ k + 1 \in 1..Len(es)
                BY <1>1, <2>1, <2>3, <3>3
            <4>2. es[k + 1].seq = log.evicted + (k + 1) /\ DOMAIN es = 1..Len(es)
                BY <1>1, <4>1
            <4>3. l.evicted = log.evicted + 1
                BY <2>1
            <4>4. log.evicted \in Nat /\ k \in Int
                BY <1>1, <3>3
            <4>5. log.evicted + (k + 1) = l.evicted + k
                BY <4>3, <4>4
            <4> QED BY <4>1, <4>2, <4>5
        <3> QED BY <1>1, <3>1, <3>2, <3>3
    <2> QED BY <2>4, <2>5 DEF l
<1>3. CASE Len(es) < MaxEntries
    <2>1. l = [next_seq |-> log.next_seq + 1, entries |-> Append(es, e), evicted |-> log.evicted]
        <3>1. ~(Len(es) >= MaxEntries)
            BY <1>1, <1>3
        <3> QED BY <3>1 DEF Pushed
    <2>2. /\ Append(es, e) \in Seq(Event) /\ Len(Append(es, e)) = Len(es) + 1
          /\ \A k \in 1..Len(es) : Append(es, e)[k] = es[k]
          /\ Append(es, e)[Len(es) + 1] = e
        BY <1>1
    <2> HIDE DEF l
    <2>3. /\ l \in [next_seq : Nat, entries : Seq(Event), evicted : Nat]
          /\ l.next_seq = log.next_seq + 1
          /\ Len(l.entries) <= MaxEntries /\ Len(l.entries) = l.next_seq - l.evicted
        BY <1>1, <1>3, <2>1, <2>2
    <2>4. ASSUME NEW k \in DOMAIN l.entries
          PROVE  /\ l.entries[k].seq = l.evicted + k
                 /\ l.entries[k] = e \/ \E j \in DOMAIN es : l.entries[k] = es[j]
        <3>1. k \in 1..(Len(es) + 1)
            BY <2>1, <2>2
        <3>2. CASE k = Len(es) + 1
            BY <1>1, <2>1, <2>2, <3>2
        <3>3. CASE k \in 1..Len(es)
            BY <1>1, <2>1, <2>2, <3>3
        <3> QED BY <1>1, <3>1, <3>2, <3>3
    <2> QED BY <2>3, <2>4 DEF l
<1> QED BY <1>1, <1>2, <1>3

-----------------------------------------------------------------------------
(* The types *)

(* A batch has a last event of each task it names.                         *)
LEMMA LastOf ==
    ASSUME NEW n \in Nat, NEW S \in SUBSET (1..n), S # {}
    PROVE  \E k \in S : \A j \in S : j <= k
<1> DEFINE T == {n - k : k \in S}
           R == OpToRel(<, Nat)
<1>1. T \subseteq Nat /\ T # {}
    <2>1. \A k \in S : n - k \in Nat
        OBVIOUS
    <2> QED BY <2>1
<1>2. IsWellFoundedOn(R, Nat)
    BY NatLessThanWellFounded
<1>3. \A x, y \in Nat : x < y => <<x, y>> \in R
    BY DEF OpToRel
<1> HIDE DEF R
<1>4. PICK x \in T : \A y \in T : ~(<<y, x>> \in R)
    BY <1>1, <1>2, WFMin
<1>5. PICK k \in S : x = n - k
    OBVIOUS
<1>6. ASSUME NEW j \in S PROVE j <= k
    <2>1. n - j \in T
        OBVIOUS
    <2>2. ~(n - j < x)
        BY <1>1, <1>3, <1>4, <2>1
    <2> QED BY <1>5, <2>2
<1> QED BY <1>6

LEMMA ShownTypes ==
    ASSUME Types, NEW events \in Seq(Event) PROVE Shown(events) \in [Tasks -> Nat]
<1>1. ASSUME NEW t \in Tasks PROVE Shown(events)[t] \in Nat
    <2> DEFINE mine == {k \in DOMAIN events : events[k].task = t}
    <2>1. CASE mine = {}
        BY <2>1 DEF Shown, Types, TypeOK
    <2>2. CASE mine # {}
        <3> DEFINE last == CHOOSE k \in mine : \A j \in mine : j <= k
        <3>1. \E k \in mine : \A j \in mine : j <= k
            <4>1. DOMAIN events = 1..Len(events) /\ Len(events) \in Nat
                OBVIOUS
            <4>2. mine \in SUBSET (1..Len(events))
                BY <4>1
            <4> HIDE DEF mine
            <4> QED BY <2>2, <4>1, <4>2, LastOf
        <3>2. last \in mine
            BY <3>1
        <3>3. Shown(events)[t] = events[last].status
            BY <2>2 DEF Shown
        <3> HIDE DEF last
        <3>4. events[last] \in Event
            BY <3>2
        <3> QED BY <3>3, <3>4 DEF Event
    <2> QED BY <2>1, <2>2
<1> QED BY <1>1 DEF Shown

LEMMA AtMostOne == ASSUME NEW S, S = {} \/ \E n \in S : S = {n} PROVE Cardinality(S) <= 1
<1>1. ASSUME NEW n, S = {n} PROVE Cardinality(S) <= 1
    <2>1. Cardinality({n}) = 1
        BY FS_Singleton
    <2> QED BY <1>1, <2>1
<1>2. CASE S = {}
    BY <1>2, FS_EmptySet
<1> QED BY <1>1, <1>2

LEMMA HandleTypes ==
    ASSUME Types, NEW b \in Batch, Handle(b)
    PROVE  /\ cursor' = {b.latest} /\ b.latest \in Nat /\ cursor' \in SUBSET Nat
           /\ Cardinality(cursor') <= 1
           /\ shown' \in [Tasks -> Nat] /\ base' \in Nat /\ applied' \in Seq(Nat)
           /\ lists' \subseteq List /\ lists \subseteq lists'
<1>1. b.latest \in Nat /\ b.events \in Seq(Event) /\ cursor' = {b.latest}
    BY DEF Batch, Handle
<1>2. Cardinality(cursor') <= 1
    BY <1>1, AtMostOne
<1>3. CASE cursor = {} \/ b.reset
    <2>1. base' = b.latest /\ applied' = <<>> /\ shown' = shown
        BY <1>3 DEF Handle
    <2>2. [conn |-> conn, why |-> "reset", rows |-> {}] \in List
        BY DEF Types, List
    <2>3. lists' \subseteq List /\ lists \subseteq lists'
        BY <1>3, <2>2 DEF Handle, Types, TypeOK
    <2>4. shown \in [Tasks -> Nat]
        BY DEF Types, TypeOK
    <2> QED BY <1>1, <1>2, <2>1, <2>3, <2>4
<1>4. CASE ~(cursor = {} \/ b.reset)
    <2>1. /\ shown' = Shown(b.events) /\ UNCHANGED <<base, lists>>
          /\ applied' = applied \o [k \in DOMAIN b.events |-> b.events[k].seq]
        BY <1>4 DEF Handle
    <2>2. [k \in DOMAIN b.events |-> b.events[k].seq] \in Seq(Nat)
        <3>1. DOMAIN b.events = 1..Len(b.events) /\ Len(b.events) \in Nat
            BY <1>1
        <3>2. \A k \in 1..Len(b.events) : b.events[k] \in Event
            BY <1>1
        <3>3. \A k \in 1..Len(b.events) : b.events[k].seq \in Nat
            BY <3>2 DEF Event
        <3> QED BY <3>1, <3>3
    <2>3. applied \in Seq(Nat) /\ base \in Nat /\ lists \subseteq List
        BY DEF Types, TypeOK
    <2>4. applied' \in Seq(Nat)
        BY <2>1, <2>2, <2>3
    <2> QED BY <1>1, <1>2, <2>1, <2>3, <2>4, ShownTypes
<1> QED BY <1>3, <1>4

LEMMA ReconnectTypes ==
    ASSUME Types, Reconnect
    PROVE  /\ conn' = conn + 1 /\ cursor' = {} /\ base' = 0 /\ applied' = <<>>
           /\ Cardinality(cursor') <= 1 /\ applied' \in Seq(Nat) /\ conn' \in Nat
           /\ crossed' = FALSE /\ batch' = {} /\ late' \subseteq Batch /\ lists' \subseteq List
<1>1. [conn |-> conn + 1, why |-> "start", rows |-> {}] \in List
    BY DEF Types, List
<1>2. batch \subseteq Batch /\ late \subseteq Batch /\ lists \subseteq List
    BY DEF Types, TypeOK
<1>3. Cardinality(cursor') <= 1
    BY AtMostOne DEF Reconnect
<1>4. lists' \subseteq List
    BY <1>1, <1>2 DEF Reconnect
<1>5. late' \subseteq Batch
    BY <1>2 DEF Reconnect
<1> QED BY <1>3, <1>4, <1>5 DEF Reconnect, Types

LEMMA AppendTypes ==
    ASSUME Types, NEW a \in announcing
    PROVE  [seq |-> log.next_seq + 1, task |-> a.task, status |-> a.status] \in Event
<1>1. a \in [task : Tasks, status : Nat] /\ log.next_seq + 1 \in Nat
    BY LogTypes DEF Types, TypeOK
<1> QED BY <1>1 DEF Event

LEMMA TypesKept == ASSUME Types, RingInv, [Next]_vars PROVE Types'
<1> USE DEF hostVars, pumpVars
<1>1. CASE UNCHANGED vars
    BY <1>1 DEF vars, Types, TypeOK, List
<1>2. ASSUME NEW t \in setup.tasks, Observe(t) PROVE Types'
    <2>1. t \in Tasks
        BY FeedAssumption DEF Types
    <2>2. rows \in [Tasks -> Nat] /\ rows[t] + 1 \in Nat
        BY <2>1 DEF Types, TypeOK
    <2>3. rows' \in [Tasks -> Nat] /\ announcing' \subseteq [task : Tasks, status : Nat]
        BY <1>2, <2>1, <2>2 DEF Observe, Types, TypeOK
    <2> QED BY <1>2, <2>3 DEF Observe, Types, TypeOK
<1>3. ASSUME NEW a \in announcing, LogAppend(a) PROVE Types'
    <2> DEFINE e == [seq |-> log.next_seq + 1, task |-> a.task, status |-> a.status]
    <2>1. e \in Event /\ e.seq = log.next_seq + 1
        BY AppendTypes
    <2>2. /\ log' = Pushed(log, e) /\ announcing' = announcing \ {a}
          /\ notifying' \in {notifying, notifying \cup {e}}
        BY <1>3 DEF LogAppend
    <2> HIDE DEF e
    <2>3. log' \in [next_seq : Nat, entries : Seq(Event), evicted : Nat]
          /\ Len(log'.entries) <= MaxEntries
        BY <2>1, <2>2, PushedIs
    <2>4. notifying' \subseteq Event /\ announcing' \subseteq [task : Tasks, status : Nat]
        BY <2>1, <2>2 DEF Types, TypeOK
    <2> QED BY <1>3, <2>3, <2>4 DEF LogAppend, Types, TypeOK
<1>4. ASSUME NEW e \in notifying, Notify(e) PROVE Types'
    <2>1. e.seq \in Nat /\ observed \in Seq(Nat)
        BY DEF Types, TypeOK, Event
    <2>2. observed' \in Seq(Nat) /\ notifying' \subseteq Event
        BY <1>4, <2>1 DEF Notify, Types, TypeOK
    <2> QED BY <1>4, <2>2 DEF Notify, Types, TypeOK
<1>5. CASE PumpAsks
    <2>1. Since(Cursor) \in Batch
        BY CursorType, SinceIs
    <2>2. batch' \cup late' \subseteq Batch
        BY <1>5, <2>1 DEF PumpAsks, Types, TypeOK
    <2> QED BY <1>5, <2>2 DEF PumpAsks, Types, TypeOK
<1>6. CASE PumpHandles
    <2>1. PICK b \in batch : Handle(b) /\ batch' = {} /\ UNCHANGED <<setup, hostVars, conn, late, crossed>>
        BY <1>6 DEF PumpHandles
    <2>2. b \in Batch
        BY DEF Types, TypeOK
    <2>3. batch' \cup late' \subseteq Batch
        BY <2>1 DEF Types, TypeOK
    <2> QED BY <2>1, <2>2, <2>3, HandleTypes DEF Types, TypeOK
<1>7. ASSUME NEW b \in late, LateHandles(b) PROVE Types'
    <2>1. Handle(b) /\ b \in Batch
        BY <1>7 DEF LateHandles, Types, TypeOK
    <2>2. batch' \cup late' \subseteq Batch
        BY <1>7 DEF LateHandles, Types, TypeOK
    <2> QED BY <1>7, <2>1, <2>2, HandleTypes DEF LateHandles, Types, TypeOK
<1>8. ASSUME NEW l \in lists, ListReads(l) PROVE Types'
    <2>1. l \in List /\ {rows} \subseteq [Tasks -> Nat]
        BY DEF Types, TypeOK
    <2>2. [l EXCEPT !.rows = {rows}] \in List
        BY <2>1 DEF List
    <2>3. lists' \subseteq List
        BY <1>8, <2>2 DEF ListReads, Types, TypeOK
    <2> QED BY <1>8, <2>3 DEF ListReads, Types, TypeOK
<1>9. ASSUME NEW l \in lists, ListShows(l) PROVE Types'
    <2>1. l.rows \subseteq [Tasks -> Nat]
        BY DEF Types, TypeOK, List
    <2>2. shown' \in [Tasks -> Nat] /\ lists' \subseteq List
        BY <1>9, <2>1 DEF ListShows, Types, TypeOK
    <2> QED BY <1>9, <2>2 DEF ListShows, Types, TypeOK
<1>10. ASSUME NEW l \in lists, ListFails(l) PROVE Types'
    BY <1>10 DEF ListFails, Types, TypeOK
<1>11. CASE ConnectionLost
    <2>1. batch' \cup late' \subseteq Batch /\ cursor' \in SUBSET Nat /\ conn' \in Nat /\ base' \in Nat
        BY <1>11, ReconnectTypes DEF ConnectionLost
    <2> QED BY <1>11, <2>1, ReconnectTypes DEF ConnectionLost, Types, TypeOK
<1>12. CASE HostRestarts
    <2>1. batch' \cup late' \subseteq Batch /\ cursor' \in SUBSET Nat /\ conn' \in Nat /\ base' \in Nat
        BY <1>12, ReconnectTypes DEF HostRestarts
    <2>2. /\ log' \in [next_seq : Nat, entries : Seq(Event), evicted : Nat]
          /\ Len(log'.entries) <= MaxEntries
          /\ announcing' = {} /\ notifying' = {} /\ observed' = <<>>
        BY <1>12, FeedAssumption DEF HostRestarts, EmptyLog
    <2> QED BY <1>12, <2>1, <2>2, ReconnectTypes DEF HostRestarts, Types, TypeOK
<1> QED BY <1>1, <1>2, <1>3, <1>4, <1>5, <1>6, <1>7, <1>8, <1>9, <1>10, <1>11, <1>12 DEF Next

-----------------------------------------------------------------------------
(* The ring *)

LEMMA RingKept == ASSUME Types, RingInv, [Next]_vars PROVE RingInv'
<1> USE DEF hostVars, pumpVars
<1>1. CASE UNCHANGED <<log, rows, announcing>>
    BY <1>1 DEF RingInv
<1>2. ASSUME NEW t \in setup.tasks, Observe(t) PROVE RingInv'
    <2>1. t \in Tasks /\ rows \in [Tasks -> Nat]
        BY FeedAssumption DEF Types, TypeOK
    <2>2. \A u \in Tasks : rows'[u] \in Nat /\ rows[u] <= rows'[u]
        BY <1>2, <2>1 DEF Observe
    <2>3. UNCHANGED log
        BY <1>2 DEF Observe
    <2>4. ASSUME NEW k \in DOMAIN log.entries
          PROVE  log.entries[k].status <= rows'[log.entries[k].task]
        <3>1. log.entries[k].task \in Tasks /\ log.entries[k].status \in Nat
            BY LogTypes DEF Types, Event
        <3>2. log.entries[k].status <= rows[log.entries[k].task]
            BY DEF RingInv
        <3> QED BY <2>1, <2>2, <3>1, <3>2
    <2>5. ASSUME NEW a \in announcing' PROVE a.status <= rows'[a.task]
        <3>1. CASE a \in announcing
            <4>1. a.status <= rows[a.task] /\ a.task \in Tasks /\ a.status \in Nat
                BY <3>1 DEF RingInv, Types, TypeOK
            <4> QED BY <2>1, <2>2, <4>1
        <3>2. CASE a = [task |-> t, status |-> rows[t] + 1]
            BY <1>2, <2>1, <3>2 DEF Observe
        <3> QED BY <1>2, <3>1, <3>2 DEF Observe
    <2> QED BY <2>3, <2>4, <2>5 DEF RingInv
<1>3. ASSUME NEW a \in announcing, LogAppend(a) PROVE RingInv'
    <2> DEFINE e == [seq |-> log.next_seq + 1, task |-> a.task, status |-> a.status]
    <2>1. e \in Event /\ e.seq = log.next_seq + 1
        BY AppendTypes
    <2>2. log' = Pushed(log, e) /\ announcing' = announcing \ {a} /\ UNCHANGED rows
        BY <1>3 DEF LogAppend
    <2>3. e.status <= rows[e.task]
        BY DEF RingInv
    <2> HIDE DEF e
    <2>4. /\ Len(log'.entries) = log'.next_seq - log'.evicted
          /\ \A k \in DOMAIN log'.entries :
                /\ log'.entries[k].seq = log'.evicted + k
                /\ \/ log'.entries[k] = e
                   \/ \E j \in DOMAIN log.entries : log'.entries[k] = log.entries[j]
        BY <2>1, <2>2, PushedIs
    <2>5. \A k \in DOMAIN log'.entries : log'.entries[k].status <= rows'[log'.entries[k].task]
        BY <2>2, <2>3, <2>4 DEF RingInv
    <2> QED BY <2>2, <2>4, <2>5 DEF RingInv
<1>4. CASE HostRestarts
    BY <1>4 DEF HostRestarts, EmptyLog, RingInv
<1> QED BY <1>1, <1>2, <1>3, <1>4 DEF Next, vars, Notify, PumpAsks, PumpHandles, LateHandles,
                                     ListReads, ListFails, ListShows, ConnectionLost

(* The log only grows, except when the host starts anew.                   *)
LEMMA LogGrows ==
    ASSUME Types, RingInv, NEW a \in announcing, LogAppend(a)
    PROVE  /\ log'.next_seq = log.next_seq + 1
           /\ \A k \in DOMAIN log'.entries :
                 \/ log'.entries[k].seq = log.next_seq + 1
                 \/ \E j \in DOMAIN log.entries : log'.entries[k] = log.entries[j]
<1> DEFINE e == [seq |-> log.next_seq + 1, task |-> a.task, status |-> a.status]
<1>1. e \in Event /\ e.seq = log.next_seq + 1
    BY AppendTypes
<1>2. log' = Pushed(log, e)
    BY DEF LogAppend
<1> HIDE DEF e
<1> QED BY <1>1, <1>2, PushedIs

-----------------------------------------------------------------------------
(* The pump *)

LEMMA PumpStands ==
    ASSUME Types, Types', PumpInv, UNCHANGED <<cursor, batch, base, applied, crossed>>,
           log.next_seq <= log'.next_seq
    PROVE  PumpInv'
<1>1. Cursor' = Cursor
    BY DEF Cursor
<1>2. log.next_seq \in Nat /\ log'.next_seq \in Nat /\ Cursor \in Nat
    BY CursorType DEF Types, TypeOK
<1>3. \A b \in batch : b.latest \in Nat
    BY DEF Types, TypeOK, Batch
<1> QED BY <1>1, <1>2, <1>3 DEF PumpInv

(* The sequence numbers after x, up to y.                                  *)
Run(x, y) == [k \in 1..(y - x) |-> x + k]

LEMMA RunIs ==
    ASSUME NEW x \in Nat, NEW y \in Nat, x <= y
    PROVE  /\ Run(x, y) \in Seq(Nat) /\ Len(Run(x, y)) = y - x
           /\ \A k \in 1..(y - x) : Run(x, y)[k] = x + k
<1>1. y - x \in Nat /\ \A k \in 1..(y - x) : x + k \in Nat
    OBVIOUS
<1>2. Run(x, y) \in [1..(y - x) -> Nat]
    BY <1>1 DEF Run
<1> QED BY <1>1, <1>2, IsASeq, LenProperties DEF Run

LEMMA RunsJoin ==
    ASSUME NEW x \in Nat, NEW y \in Nat, NEW z \in Nat, x <= y, y <= z
    PROVE  Run(x, y) \o Run(y, z) = Run(x, z)
<1> DEFINE u == Run(x, y)
           v == Run(y, z)
           w == Run(x, z)
<1>1. x <= z
    OBVIOUS
<1>2. /\ u \in Seq(Nat) /\ v \in Seq(Nat) /\ w \in Seq(Nat)
      /\ Len(u) = y - x /\ Len(v) = z - y /\ Len(w) = z - x
    BY <1>1, RunIs
<1>3. /\ \A k \in 1..(y - x) : u[k] = x + k
      /\ \A k \in 1..(z - y) : v[k] = y + k
      /\ \A k \in 1..(z - x) : w[k] = x + k
    BY <1>1, RunIs
<1> HIDE DEF u, v, w
<1>4. /\ u \o v \in Seq(Nat) /\ Len(u \o v) = Len(u) + Len(v)
      /\ \A k \in 1..(Len(u) + Len(v)) : (u \o v)[k] = IF k <= Len(u) THEN u[k] ELSE v[k - Len(u)]
    BY <1>2, ConcatProperties
<1>5. Len(u \o v) = Len(w)
    BY <1>2, <1>4
<1>6. ASSUME NEW k \in 1..Len(w) PROVE (u \o v)[k] = w[k]
    <2>1. k \in 1..(Len(u) + Len(v)) /\ w[k] = x + k
        BY <1>2, <1>3
    <2>2. CASE k <= Len(u)
        <3>1. u[k] = x + k
            BY <1>2, <1>3, <2>1, <2>2
        <3> QED BY <1>4, <2>1, <2>2, <3>1
    <2>3. CASE ~(k <= Len(u))
        <3>1. k - Len(u) \in 1..(z - y) /\ y + (k - Len(u)) = x + k
            BY <1>2, <2>1, <2>3
        <3>2. v[k - Len(u)] = x + k
            BY <1>3, <3>1
        <3> QED BY <1>4, <2>1, <2>3, <3>2
    <2> QED BY <2>2, <2>3
<1>7. u \o v = w
    BY <1>2, <1>4, <1>5, <1>6, SeqEqual
<1> QED BY <1>7 DEF u, v, w

(* An answer in hand is applied behind what was applied before.            *)
LEMMA HandleGoesOn ==
    ASSUME Types, PumpInv, NEW b \in batch, Handle(b), ~crossed
    PROVE  /\ base' <= Cursor' /\ Cursor' <= log.next_seq
           /\ applied' = [k \in 1..(Cursor' - base') |-> base' + k]
<1>1. b \in Batch /\ b.latest \in Nat /\ base \in Nat /\ log.next_seq \in Nat /\ applied \in Seq(Nat)
    BY DEF Types, TypeOK, Batch
<1>2. b.latest <= log.next_seq
    BY DEF PumpInv
<1>3. Cursor' = b.latest
    BY OneChoice DEF Handle, Cursor
<1>4. CASE cursor = {} \/ b.reset
    <2>1. base' = b.latest /\ applied' = <<>>
        BY <1>4 DEF Handle
    <2>2. applied' = [k \in 1..(Cursor' - base') |-> base' + k]
        BY <1>1, <1>3, <2>1
    <2> QED BY <1>1, <1>2, <1>3, <2>1, <2>2
<1>5. CASE ~(cursor = {} \/ b.reset)
    <2> DEFINE seqs == [k \in DOMAIN b.events |-> b.events[k].seq]
               c == Cursor
    <2>1. base' = base /\ applied' = applied \o seqs
        BY <1>5 DEF Handle
    <2>2. /\ base <= c /\ c <= b.latest /\ Len(b.events) = b.latest - c
          /\ \A k \in DOMAIN b.events : b.events[k].seq = c + k
          /\ applied = [k \in 1..(c - base) |-> base + k]
        BY <1>5 DEF PumpInv
    <2>3. c \in Nat
        BY CursorType
    <2> HIDE DEF c
    <2>4. seqs = [k \in 1..(b.latest - c) |-> c + k]
        BY <1>1, <2>2 DEF Batch
    <2>5. b.latest - c \in Nat /\ c - base \in Nat
        BY <1>1, <2>2, <2>3
    <2>6. applied \o seqs = [k \in 1..(b.latest - base) |-> base + k]
        <3>1. applied = Run(base, c)
            BY <2>2 DEF Run
        <3>2. seqs = Run(c, b.latest)
            BY <2>4 DEF Run
        <3>3. Run(base, c) \o Run(c, b.latest) = Run(base, b.latest)
            BY <1>1, <2>2, <2>3, RunsJoin
        <3> QED BY <3>1, <3>2, <3>3 DEF Run
    <2>7. base <= b.latest
        BY <1>1, <2>2, <2>3
    <2>8. applied' = [k \in 1..(Cursor' - base') |-> base' + k]
        BY <1>3, <2>1, <2>6
    <2> QED BY <1>2, <1>3, <2>1, <2>7, <2>8
<1> QED BY <1>4, <1>5

LEMMA PumpKept == ASSUME IInv, [Next]_vars PROVE PumpInv'
<1> USE DEF IInv
<1> USE DEF hostVars, pumpVars
<1>1. Types'
    BY TypesKept
<1>2. log.next_seq \in Nat
    BY DEF Types, TypeOK
<1>3. CASE UNCHANGED <<cursor, batch, base, applied, crossed, log>>
    BY <1>1, <1>2, <1>3, PumpStands
<1>4. ASSUME NEW a \in announcing, LogAppend(a) PROVE PumpInv'
    BY <1>1, <1>2, <1>4, LogGrows, PumpStands DEF LogAppend
<1>5. CASE PumpAsks
    <2> DEFINE b == Since(Cursor)
    <2>1. batch' = {b} /\ UNCHANGED <<cursor, base, applied, crossed, log>> /\ Cursor' = Cursor
        BY <1>5 DEF PumpAsks, Cursor
    <2>2. /\ b.latest = log.next_seq
          /\ Cursor <= log.next_seq /\ ~b.reset =>
                /\ Len(b.events) = log.next_seq - Cursor
                /\ \A k \in DOMAIN b.events : b.events[k].seq = Cursor + k
        BY CursorType, SinceIs
    <2> HIDE DEF b
    <2> QED BY <1>2, <2>1, <2>2 DEF PumpInv
<1>6. CASE PumpHandles
    <2>1. PICK b \in batch : Handle(b) /\ batch' = {} /\ UNCHANGED <<log, crossed>>
        BY <1>6 DEF PumpHandles
    <2> QED BY <2>1, HandleGoesOn DEF PumpInv
<1>7. ASSUME NEW b \in late, LateHandles(b) PROVE PumpInv'
    BY <1>7 DEF LateHandles, PumpInv
<1>8. ASSUME Reconnect, log'.next_seq \in Nat PROVE PumpInv'
    <2>1. Cursor' = 0 /\ base' = 0 /\ applied' = <<>> /\ batch' = {}
        BY <1>8 DEF Reconnect, Cursor
    <2>2. applied' = [k \in 1..(Cursor' - base') |-> base' + k]
        BY <2>1
    <2> QED BY <1>8, <2>1, <2>2 DEF PumpInv
<1>9. ConnectionLost \/ HostRestarts => Reconnect
    BY DEF ConnectionLost, HostRestarts
<1>10. log'.next_seq \in Nat
    BY <1>1 DEF Types, TypeOK
<1> QED BY <1>3, <1>4, <1>5, <1>6, <1>7, <1>8, <1>9, <1>10
        DEF Next, vars, Observe, Notify, ListReads, ListFails, ListShows

-----------------------------------------------------------------------------
(* The lists *)

(* What a list says is no less than the events of the ring up to base.     *)
Covers(r) == \A k \in DOMAIN log.entries :
    log.entries[k].seq <= base => r[log.entries[k].task] >= log.entries[k].status

LEMMA ListInvIs ==
    ListInv <=> /\ \A l \in lists : l.conn <= conn
                /\ ~crossed =>
                      /\ batch # {} => ~PumpWaits
                      /\ \A l \in lists : l.why = "reset" /\ l.conn = conn => \A r \in l.rows : Covers(r)
  BY DEF ListInv, Covers

(* A list that is read now covers all events there are.                    *)
LEMMA RowsCover == ASSUME Types, RingInv PROVE Covers(rows)
<1>1. ASSUME NEW k \in DOMAIN log.entries
      PROVE  rows[log.entries[k].task] >= log.entries[k].status
    <2>1. log.entries[k].task \in Tasks /\ log.entries[k].status \in Nat
        BY LogTypes DEF Types, Event
    <2>2. rows[log.entries[k].task] \in Nat
        BY <2>1 DEF Types, TypeOK
    <2> QED BY <2>1, <2>2 DEF RingInv
<1> QED BY <1>1 DEF Covers

(* An event that is appended lies behind base.                             *)
LEMMA AppendKeepsCover ==
    ASSUME IInv, ~crossed, NEW a \in announcing, LogAppend(a), NEW r, Covers(r)
    PROVE  Covers(r)'
<1>1. base \in Nat /\ log.next_seq \in Nat /\ Cursor \in Nat
    BY CursorType DEF IInv, Types, TypeOK
<1>2. base <= log.next_seq
    BY <1>1 DEF IInv, PumpInv
<1>3. UNCHANGED base
    BY DEF LogAppend, pumpVars
<1>4. ASSUME NEW k \in DOMAIN log'.entries, log'.entries[k].seq <= base
      PROVE  r[log'.entries[k].task] >= log'.entries[k].status
    <2>1. log'.entries[k].seq # log.next_seq + 1
        BY <1>1, <1>2, <1>4
    <2>2. \E j \in DOMAIN log.entries : log'.entries[k] = log.entries[j]
        BY <2>1, LogGrows DEF IInv
    <2> QED BY <1>4, <2>2 DEF Covers
<1> QED BY <1>3, <1>4 DEF Covers

LEMMA ReconnectLists ==
    ASSUME Types, ListInv, Reconnect
    PROVE  ListInv'
<1>1. conn \in Nat /\ conn' = conn + 1 /\ batch' = {}
    BY DEF Types, Reconnect
<1>2. ASSUME NEW l \in lists'
      PROVE  /\ l.conn <= conn'
             /\ l.why = "reset" => l.conn # conn'
    <2>1. CASE l \in lists
        <3>1. l.conn \in Nat /\ l.conn <= conn
            BY <2>1 DEF Types, TypeOK, List, ListInv
        <3> QED BY <1>1, <3>1
    <2>2. CASE l = [conn |-> conn + 1, why |-> "start", rows |-> {}]
        BY <1>1, <2>2
    <2> QED BY <2>1, <2>2 DEF Reconnect
<1> QED BY <1>1, <1>2 DEF ListInv

LEMMA ListKept == ASSUME IInv, [Next]_vars PROVE ListInv'
<1> USE DEF hostVars, pumpVars
<1> DEFINE Waiting(l) == l.why = "reset" /\ l.conn = conn
<1>1. /\ \A l \in lists : l.conn <= conn
      /\ ~crossed => /\ batch # {} => \A l \in lists : ~Waiting(l)
                     /\ \A l \in lists : Waiting(l) => \A r \in l.rows : Covers(r)
    BY ListInvIs DEF IInv, PumpWaits
<1>2. ASSUME UNCHANGED <<lists, conn, crossed, batch, log, base>> PROVE ListInv'
    BY <1>2 DEF IInv, ListInv, PumpWaits
<1>3. ASSUME NEW a \in announcing, LogAppend(a) PROVE ListInv'
    <2>1. UNCHANGED <<lists, conn, crossed, batch>>
        BY <1>3 DEF LogAppend
    <2>2. ~crossed => \A r : Covers(r) => Covers(r)'
        BY <1>3, AppendKeepsCover
    <2>3. PumpWaits' = PumpWaits
        BY <2>1 DEF PumpWaits
    <2> QED BY <1>1, <2>1, <2>2, <2>3, ListInvIs DEF IInv, ListInv, Covers
<1>4. CASE PumpAsks
    <2>1. UNCHANGED <<lists, conn, crossed, log, base>> /\ ~PumpWaits
        BY <1>4 DEF PumpAsks
    <2> QED BY <2>1 DEF IInv, ListInv, PumpWaits
<1>5. CASE PumpHandles
    <2>1. PICK b \in batch : Handle(b) /\ batch' = {} /\ UNCHANGED <<conn, crossed, log>>
        BY <1>5 DEF PumpHandles
    <2>2. ASSUME NEW l \in lists'
          PROVE  l.conn <= conn /\ (~crossed /\ Waiting(l) => l.rows = {})
        <3>1. l \in lists \/ l = [conn |-> conn, why |-> "reset", rows |-> {}]
            BY <2>1 DEF Handle
        <3> QED BY <1>1, <2>1, <3>1 DEF IInv, Types
    <2> QED BY <2>1, <2>2 DEF ListInv
<1>6. ASSUME NEW b \in late, LateHandles(b) PROVE ListInv'
    <2>1. crossed' /\ conn' = conn
        BY <1>6 DEF LateHandles
    <2>2. ASSUME NEW l \in lists' PROVE l.conn <= conn
        <3>1. l \in lists \/ l = [conn |-> conn, why |-> "reset", rows |-> {}]
            BY <1>6 DEF LateHandles, Handle
        <3> QED BY <1>1, <3>1 DEF IInv, Types
    <2> QED BY <2>1, <2>2 DEF ListInv
<1>7. ASSUME NEW l \in lists, ListReads(l) PROVE ListInv'
    <2> DEFINE n == [l EXCEPT !.rows = {rows}]
    <2>1. UNCHANGED <<conn, crossed, batch, log, base>> /\ lists' = (lists \ {l}) \cup {n}
        BY <1>7 DEF ListReads
    <2>2. l \in List
        BY DEF IInv, Types, TypeOK
    <2>3. n.conn = l.conn /\ n.why = l.why /\ n.rows = {rows}
        BY <2>2 DEF List
    <2>4. Covers(rows)
        BY RowsCover DEF IInv
    <2> HIDE DEF n
    <2>5. /\ \A m \in lists' : m.conn <= conn
          /\ ~crossed => /\ batch # {} => \A m \in lists' : ~Waiting(m)
                         /\ \A m \in lists' : Waiting(m) => \A r \in m.rows : Covers(r)
        BY <1>1, <2>1, <2>3, <2>4
    <2>6. \A r : Covers(r)' <=> Covers(r)
        BY <2>1 DEF Covers
    <2> QED BY <2>1, <2>5, <2>6 DEF ListInv, PumpWaits, Covers
<1>8. ASSUME NEW l \in lists, ListShows(l) PROVE ListInv'
    <2>1. UNCHANGED <<conn, crossed, batch, log, base>> /\ lists' = lists \ {l}
        BY <1>8 DEF ListShows
    <2> QED BY <2>1 DEF IInv, ListInv, PumpWaits
<1>9. ASSUME NEW l \in lists, ListFails(l) PROVE ListInv'
    <2>1. UNCHANGED <<conn, crossed, batch, log, base>> /\ lists' = lists \ {l}
        BY <1>9 DEF ListFails
    <2> QED BY <2>1 DEF IInv, ListInv, PumpWaits
<1>10. ConnectionLost \/ HostRestarts => Reconnect
    BY DEF ConnectionLost, HostRestarts
<1> QED BY <1>2, <1>3, <1>4, <1>5, <1>6, <1>7, <1>8, <1>9, <1>10, ReconnectLists
        DEF IInv, Next, vars, Observe, Notify

-----------------------------------------------------------------------------
LEMMA InitHolds == Init => IInv
<1> SUFFICES ASSUME Init PROVE IInv
    OBVIOUS
<1>1. [conn |-> 1, why |-> "start", rows |-> {}] \in List
    BY DEF List
<1>2. Cardinality(cursor) <= 1
    BY AtMostOne DEF Init
<1>3. log \in [next_seq : Nat, entries : Seq(Event), evicted : Nat] /\ Len(log.entries) <= MaxEntries
    BY FeedAssumption DEF Init, EmptyLog
<1>4. Types
    <2>1. rows \in [Tasks -> Nat] /\ shown \in [Tasks -> Nat]
        BY DEF Init
    <2>2. observed \in Seq(Nat) /\ applied \in Seq(Nat)
        BY DEF Init
    <2>3. cursor \in SUBSET Nat /\ crossed \in BOOLEAN
        BY DEF Init
    <2>4. lists \subseteq List /\ batch \cup late \subseteq Batch /\ notifying \subseteq Event
          /\ announcing \subseteq [task : Tasks, status : Nat]
        BY <1>1 DEF Init
    <2> QED BY <1>2, <1>3, <2>1, <2>2, <2>3, <2>4 DEF Init, Types, TypeOK
<1>5. RingInv
    BY DEF Init, EmptyLog, RingInv
<1>6. Cursor = 0
    BY CursorIs DEF Init
<1>7. PumpInv
    <2>1. applied = [k \in 1..(Cursor - base) |-> base + k]
        BY <1>6 DEF Init
    <2> QED BY <1>6, <2>1 DEF Init, EmptyLog, PumpInv
<1>8. ListInv
    BY DEF Init, ListInv
<1> QED BY <1>4, <1>5, <1>7, <1>8 DEF IInv

LEMMA NextKeeps == IInv /\ [Next]_vars => IInv'
  BY TypesKept, RingKept, PumpKept, ListKept DEF IInv

(* Every reachable state is well typed; the ring, the pump and the lists   *)
(* are as the three parts of IInv say.                                     *)
THEOREM AlwaysIInv == Spec => []IInv
  BY InitHolds, NextKeeps, PTL DEF Spec

(* The ring never holds more than it may, and every answer, list and       *)
(* cursor has its type.                                                    *)
THEOREM AlwaysTypeOK == Spec => []TypeOK
<1>1. IInv => TypeOK
    BY DEF IInv, Types
<1> QED BY <1>1, AlwaysIInv, PTL

(* The pump applies every event of the log once and in order, from where   *)
(* its first read or its last reset left the cursor: for a ring of any     *)
(* size, any number of lost connections and of lives of the host.          *)
THEOREM AlwaysPumpIsGapless == Spec => []PumpIsGapless
<1>1. IInv => PumpIsGapless
    BY DEF IInv, PumpInv, PumpIsGapless
<1> QED BY <1>1, AlwaysIInv, PTL

(* Whatever interleaves between a reset, the reading of its list and the   *)
(* showing of it, the sidebar is then no older than an event the reset     *)
(* passed over.                                                            *)
THEOREM AlwaysResetIsRepaired == Spec => ResetIsRepaired
<1> DEFINE Repaired ==
        \A l \in lists \ lists' : l.why = "reset" /\ l.rows # {} /\ l.conn = conn =>
            \A k \in DOMAIN log.entries :
                log.entries[k].seq <= base /\ ~crossed =>
                    shown'[log.entries[k].task] >= log.entries[k].status
<1>1. ASSUME IInv, [Next]_vars PROVE Repaired
    <2> USE DEF hostVars, pumpVars
    <2>1. ASSUME NEW l \in lists, ListShows(l) PROVE Repaired
        <3>1. lists \ lists' = {l} /\ shown' \in l.rows
            BY <2>1 DEF ListShows
        <3>2. l.why = "reset" /\ l.conn = conn /\ ~crossed => \A r \in l.rows : Covers(r)
            BY <1>1, ListInvIs DEF IInv
        <3> QED BY <3>1, <3>2 DEF Covers
    <2>2. ASSUME \A l \in lists \ lists' : l.rows = {} PROVE Repaired
        BY <2>2
    <2>3. ASSUME NEW l \in lists, ListReads(l) PROVE Repaired
        <3>1. \A m \in lists \ lists' : m = l
            BY <2>3 DEF ListReads
        <3>2. l.rows = {}
            BY <2>3 DEF ListReads
        <3> QED BY <2>2, <3>1, <3>2
    <2>4. ASSUME NEW l \in lists, ListFails(l) PROVE Repaired
        <3>1. lists \ lists' = {l} /\ l.rows = {}
            BY <2>4 DEF ListFails
        <3> QED BY <2>2, <3>1
    <2>5. ASSUME Reconnect PROVE Repaired
        <3>1. \A l \in lists \ lists' : l.rows = {}
            BY <2>5 DEF Reconnect
        <3> QED BY <2>2, <3>1
    <2>6. ASSUME NEW b, Handle(b) PROVE Repaired
        <3>1. lists \ lists' = {}
            BY <2>6 DEF Handle
        <3> QED BY <2>2, <3>1
    <2>7. ASSUME UNCHANGED lists PROVE Repaired
        BY <2>7
    <2>8. PumpHandles => \E b : Handle(b)
        BY DEF PumpHandles
    <2>9. \A b : LateHandles(b) => Handle(b)
        BY DEF LateHandles
    <2> HIDE DEF Repaired
    <2> QED BY <1>1, <2>1, <2>3, <2>4, <2>5, <2>6, <2>7, <2>8, <2>9
            DEF Next, vars, Observe, LogAppend, Notify, PumpAsks, ConnectionLost, HostRestarts
<1>2. IInv /\ [Next]_vars => [Repaired]_vars
    BY <1>1
<1> QED BY <1>2, AlwaysIInv, PTL DEF Spec, ResetIsRepaired
=============================================================================
