--------------------------- MODULE Delivery_proofs --------------------------
(***************************************************************************)
(* The queue sends nothing twice unless it is asked to, and calls nothing  *)
(* delivered that did not arrive, for every set of messages, of threads    *)
(* and of bounds.                                                          *)
(*                                                                         *)
(* Each way in which a message may still arrive is counted: a pump that is *)
(* about to hand it over, a sender that calls, the driver's queue.  What   *)
(* arrived and what may arrive is at most what the user asked for, and one *)
(* more once the message has gone out.  A failure that has still to be     *)
(* booked counts with them: when it is booked the message is where it was  *)
(* before it went out, and may be tried again.                             *)
(***************************************************************************)
EXTENDS Delivery, FiniteSetTheorems, TLAPS

(* Two things the queue cannot make up for: a row that was not written     *)
(* before the host died, and an agent whose death passes for a refusal.    *)
NoRowIsStale == faults = 0 \/ crashes = 0
RefusalIsTrue == ~(Agent = "omp" /\ "fails" \in Features)
Sound == NoRowIsStale /\ RefusalIsTrue

(* Where the attempts at sending message i are.                            *)
Handing(i) == {th \in Threads : jobs[th].pc = "hand" /\ i \in jobs[th].item}
Calling(i) == {s \in senders : s.item = i /\ s.pc \in {"call", "err", "fail"}}
Unread(i) == {h \in held : h.item = i /\ h.stage \in {"queued", "written"}}
Attempts(i) == Cardinality(Handing(i)) + Cardinality(Calling(i)) + Cardinality(Unread(i))

(* The attempt that is out, was out, or is paused.                         *)
Spent(d) == IF d.state \in {"absent", "waiting", "failed"} THEN 0 ELSE 1
Counted(i) == copies[i] + Attempts(i) <= asks[i] + Spent(items[i])

(* A message has a place of its own in the queue, so a pump takes one.     *)
PlacesDiffer ==
    /\ \A i \in Items : items[i].state # "absent" => items[i].at > 0
    /\ \A i, j \in Items : i # j => items[i].at # items[j].at \/ items[i].at = 0
TakesOne(job) == job.pc \in {"send", "hand"} => \E i \in Items : job.item = {i}

IInv ==
    /\ TypeOK /\ setup \in Setups
    /\ IsFiniteSet(held) /\ IsFiniteSet(senders)
    /\ \A i \in Items : asks[i] <= setup.asks
    /\ faults = 0 => disk = items
    /\ Sound => /\ PlacesDiffer
                /\ \A th \in Threads : TakesOne(jobs[th])
                /\ \A i \in Items : Counted(i)

-----------------------------------------------------------------------------
(* Counting.                                                               *)
LEMMA Fewer ==
    ASSUME NEW A, IsFiniteSet(A), NEW B, B \subseteq A
    PROVE  /\ IsFiniteSet(B) /\ Cardinality(A) \in Nat /\ Cardinality(B) \in Nat
           /\ Cardinality(B) <= Cardinality(A)
BY FS_Subset, FS_CardinalityType

LEMMA OneLess ==
    ASSUME NEW A, IsFiniteSet(A), NEW x \in A, NEW B, B \subseteq A \ {x}
    PROVE  /\ IsFiniteSet(B) /\ Cardinality(A) \in Nat /\ Cardinality(B) \in Nat
           /\ Cardinality(B) + 1 <= Cardinality(A)
<1>1. IsFiniteSet(A \ {x}) /\ Cardinality(A \ {x}) = Cardinality(A) - 1
  BY FS_RemoveElement
<1>2. Cardinality(A) \in Nat /\ Cardinality(A \ {x}) \in Nat
  BY <1>1, FS_CardinalityType
<1> QED BY <1>1, <1>2, Fewer

LEMMA OneMore ==
    ASSUME NEW A, IsFiniteSet(A), NEW y, NEW B, B \subseteq A \cup {y}
    PROVE  /\ IsFiniteSet(B) /\ Cardinality(A) \in Nat /\ Cardinality(B) \in Nat
           /\ Cardinality(B) <= Cardinality(A) + 1
<1>1. /\ IsFiniteSet(A \cup {y})
      /\ Cardinality(A \cup {y}) = Cardinality(A) \/ Cardinality(A \cup {y}) = Cardinality(A) + 1
  BY FS_AddElement
<1>2. Cardinality(A) \in Nat /\ Cardinality(A \cup {y}) \in Nat
  BY <1>1, FS_CardinalityType
<1>3. Cardinality(B) <= Cardinality(A \cup {y}) /\ IsFiniteSet(B) /\ Cardinality(B) \in Nat
  BY <1>1, Fewer
<1> QED BY <1>1, <1>2, <1>3

LEMMA Swapped ==
    ASSUME NEW A, IsFiniteSet(A), NEW x \in A, NEW y, NEW B, B \subseteq (A \ {x}) \cup {y}
    PROVE  /\ IsFiniteSet(B) /\ Cardinality(A) \in Nat /\ Cardinality(B) \in Nat
           /\ Cardinality(B) <= Cardinality(A)
<1>1. /\ IsFiniteSet(A \ {x}) /\ Cardinality(A \ {x}) \in Nat /\ Cardinality(A) \in Nat
      /\ Cardinality(A \ {x}) + 1 <= Cardinality(A)
  BY OneLess
<1>2. /\ IsFiniteSet(B) /\ Cardinality(B) \in Nat
      /\ Cardinality(B) <= Cardinality(A \ {x}) + 1
  BY <1>1, OneMore
<1> QED BY <1>1, <1>2

LEMMA Places ==
    ASSUME IsFiniteSet(held), IsFiniteSet(senders), NEW i
    PROVE  /\ IsFiniteSet(Handing(i)) /\ IsFiniteSet(Calling(i)) /\ IsFiniteSet(Unread(i))
           /\ Cardinality(Handing(i)) \in Nat /\ Cardinality(Calling(i)) \in Nat
           /\ Cardinality(Unread(i)) \in Nat
<1>1. IsFiniteSet(Threads)
  BY FS_AddElement, DeliveryAssumption DEF Threads
<1> QED BY <1>1, Fewer DEF Handing, Calling, Unread

-----------------------------------------------------------------------------
(* How a step leaves each part of the state.                               *)
StoreFine ==
    /\ items' \in [Items -> Delivery] /\ disk' \in [Items -> Delivery]
    /\ faults' \in Nat /\ faults' >= faults
    /\ faults' = 0 => disk' = items'
Onward(d, e) ==
    /\ e.at = d.at /\ (e.state = "absent" <=> d.state = "absent")
    /\ Spent(e) >= Spent(d)
ItemsFine == \A i \in Items : Onward(items[i], items'[i])
JobsTyped ==
    /\ jobs' \in [Threads -> Job]
    /\ Sound => \A x \in Threads : TakesOne(jobs'[x])
JobsFine == JobsTyped /\ \A i \in Items : Handing(i)' \subseteq Handing(i)
SendersTyped == senders' \subseteq Sender /\ IsFiniteSet(senders')
NotMore(b, a) == b \in Nat /\ b <= a
SendersFine ==
    SendersTyped /\ \A i \in Items : NotMore(Cardinality(Calling(i)'), Cardinality(Calling(i)))
HeldTyped == held' \subseteq Held /\ IsFiniteSet(held')
HeldFine ==
    HeldTyped /\ \A i \in Items : NotMore(Cardinality(Unread(i)'), Cardinality(Unread(i)))
QueueTypes == inHand \subseteq Items /\ diedInHand \subseteq Items /\ noReceipt \subseteq Items
AgentTypes ==
    /\ turn \in {"none", "begun", "running", "ending"} /\ owed \in Nat
    /\ session \in {"none", "open", "closing"}
HostTypes ==
    /\ handoff \in BOOLEAN /\ phase \in {"up", "down", "boot"} /\ crashes \in Nat
Kept == /\ QueueTypes' /\ AgentTypes' /\ HostTypes'
        /\ setup' = setup /\ crashes' >= crashes

LEMMA StaysSound ==
    ASSUME IInv, StoreFine, Kept, Sound'
    PROVE  Sound
<1>1. faults \in Nat /\ crashes \in Nat /\ crashes' \in Nat
  BY DEF IInv, TypeOK, Kept, HostTypes
<1>2. NoRowIsStale
  BY <1>1 DEF Sound, NoRowIsStale, StoreFine, Kept
<1>3. RefusalIsTrue
  BY DEF Sound, RefusalIsTrue, Agent, Features, Kept
<1> QED BY <1>2, <1>3 DEF Sound

(* A step that changes what is counted.                                    *)
LEMMA Counts ==
    ASSUME IInv, StoreFine, JobsTyped, SendersTyped, HeldTyped, Kept,
           Sound /\ Sound' => PlacesDiffer',
           copies' \in [Items -> Nat], asks' \in [Items -> Nat],
           \A i \in Items : asks'[i] <= setup.asks,
           Sound /\ Sound' => \A i \in Items : Counted(i)'
    PROVE  IInv'
<1>1. TypeOK'
  BY DEF IInv, TypeOK, StoreFine, JobsTyped, SendersTyped, HeldTyped, Kept, QueueTypes,
         AgentTypes, HostTypes
<1>2. Sound' => Sound
  BY StaysSound
<1>3. /\ setup' \in Setups /\ IsFiniteSet(held') /\ IsFiniteSet(senders')
      /\ \A i \in Items : asks'[i] <= setup'.asks
      /\ faults' = 0 => disk' = items'
  BY DEF IInv, Kept, StoreFine, SendersTyped, HeldTyped
<1>4. Sound' => /\ PlacesDiffer'
                /\ \A th \in Threads : TakesOne(jobs'[th])
                /\ \A i \in Items : Counted(i)'
  BY <1>2 DEF JobsTyped
<1> QED BY <1>1, <1>3, <1>4 DEF IInv

SamePlaces ==
    \A i \in Items : /\ items'[i].at = items[i].at
                     /\ items'[i].state = "absent" <=> items[i].state = "absent"

LEMMA PlacesKept ==
    ASSUME IInv, ItemsFine \/ SamePlaces
    PROVE  Sound => PlacesDiffer'
<1>1. SamePlaces
  BY DEF ItemsFine, Onward, SamePlaces
<1> QED BY <1>1 DEF IInv, SamePlaces, PlacesDiffer

(* One item's count.                                                       *)
LEMMA Tally ==
    ASSUME IInv, Sound, NEW i \in Items,
           copies'[i] \in Nat, asks'[i] \in Nat, Attempts(i)' \in Nat,
           copies'[i] + Attempts(i)' + asks[i] + Spent(items[i])
              <= copies[i] + Attempts(i) + asks'[i] + Spent(items'[i])
    PROVE  Counted(i)'
<1>1. copies[i] + Attempts(i) <= asks[i] + Spent(items[i])
  BY DEF IInv, Counted
<1>2. copies[i] \in Nat /\ asks[i] \in Nat
  BY DEF IInv, TypeOK
<1>3. Spent(items[i]) \in Nat /\ Spent(items'[i]) \in Nat
  BY DEF Spent
<1>4. Attempts(i) \in Nat
  BY Places DEF IInv, Attempts
<1> QED BY <1>1, <1>2, <1>3, <1>4 DEF Counted

LEMMA CountKept ==
    ASSUME IInv, Sound, NEW i \in Items, Onward(items[i], items'[i]),
           copies'[i] = copies[i], asks'[i] = asks[i],
           Handing(i)' \subseteq Handing(i),
           NotMore(Cardinality(Calling(i)'), Cardinality(Calling(i))),
           NotMore(Cardinality(Unread(i)'), Cardinality(Unread(i)))
    PROVE  Counted(i)'
<1>1. copies[i] \in Nat /\ asks[i] \in Nat
  BY DEF IInv, TypeOK
<1>2. Spent(items[i]) \in Nat /\ Spent(items'[i]) \in Nat /\ Spent(items'[i]) >= Spent(items[i])
  BY DEF Onward, Spent
<1>3. /\ IsFiniteSet(Handing(i)) /\ Cardinality(Handing(i)) \in Nat
      /\ Cardinality(Calling(i)) \in Nat /\ Cardinality(Unread(i)) \in Nat
  BY Places DEF IInv
<1>4. NotMore(Cardinality(Handing(i)'), Cardinality(Handing(i)))
  BY <1>3, Fewer DEF NotMore
<1>5. Attempts(i)' \in Nat /\ Attempts(i) \in Nat /\ Attempts(i)' <= Attempts(i)
  BY <1>3, <1>4 DEF NotMore, Attempts
<1> QED BY <1>1, <1>2, <1>5, Tally

(* A step that adds no attempt.                                            *)
LEMMA Plain ==
    ASSUME IInv, StoreFine, ItemsFine, JobsFine, SendersFine, HeldFine, Kept,
           UNCHANGED <<copies, asks>>
    PROVE  IInv'
<1>1. Sound => \A i \in Items : Counted(i)'
  BY CountKept DEF ItemsFine, JobsFine, SendersFine, HeldFine
<1>2. copies' \in [Items -> Nat] /\ asks' \in [Items -> Nat]
      /\ \A i \in Items : asks'[i] <= setup.asks
  BY DEF IInv, TypeOK
<1> QED BY <1>1, <1>2, Counts, PlacesKept DEF JobsFine, SendersFine, HeldFine

-----------------------------------------------------------------------------
(* The item's state machine.  An event but the five takes no message back  *)
(* to where it can be sent.                                                *)
Events == {"send", "accepted", "delivered", "rejected", "turn_started", "failed", "blocked",
           "lost", "cut_off", "recorded", "unrecorded", "unreadable", "stop", "restarted",
           "resume", "discard", "resend", "retry"}
BackEvents == {"rejected", "failed", "blocked", "resume", "resend"}

LEMMA RuleFacts ==
    ASSUME NEW e \in Events
    PROVE  /\ Rules[e].from \subseteq States /\ Rules[e].to \in States
           /\ Rules[e].why \in Reasons \cup {"same"}
           /\ e \notin BackEvents => \/ Rules[e].to \notin {"waiting", "failed"}
                                     \/ Rules[e].from = {"failed"}
BY DEF Events, BackEvents, Rules, Rule, States, Reasons

LEMMA StepTypes ==
    ASSUME NEW d \in Delivery, NEW e \in Events
    PROVE  /\ Step(d, e) \in Delivery /\ Step(d, e).at = d.at
           /\ Step(d, e).state = "absent" <=> d.state = "absent"
           /\ Step(d, e).state = IF Applies(d, e) THEN Rules[e].to ELSE d.state
           /\ e \notin BackEvents => Onward(d, Step(d, e))
<1>1. CASE ~Applies(d, e)
  BY <1>1 DEF Step, Onward, Spent
<1>2. CASE Applies(d, e)
  <2>1. PICK n : n = Step(d, e)
    OBVIOUS
  <2>2. /\ d.state \in Rules[e].from /\ Rules[e].from \subseteq States /\ Rules[e].to \in States
        /\ Rules[e].why \in Reasons \cup {"same"}
    BY <1>2, RuleFacts DEF Applies
  <2>3. n \in Delivery /\ n.state = Rules[e].to /\ n.at = d.at
    <3>1. /\ d.tries \in Nat /\ d.reason \in Reasons /\ d.blocked \in BOOLEAN
          /\ d.class \in Classes /\ d.at \in Nat
      BY DEF Delivery
    <3>2. (IF e = "send" THEN d.tries + 1 ELSE d.tries) \in Nat
      BY <3>1
    <3>3. (IF Rules[e].why = "same" THEN d.reason ELSE Rules[e].why) \in Reasons
      BY <2>2, <3>1
    <3>4. (IF e \in {"failed", "blocked", "resend"} THEN e = "blocked" ELSE d.blocked)
            \in BOOLEAN
      <4>1. CASE e \in {"failed", "blocked", "resend"}
        BY <4>1, Zenon
      <4>2. CASE e \notin {"failed", "blocked", "resend"}
        BY <3>1, <4>2, Zenon
      <4> QED BY <4>1, <4>2
    <3>5. PICK tries, reason, blocked :
            /\ tries = IF e = "send" THEN d.tries + 1 ELSE d.tries
            /\ reason = IF Rules[e].why = "same" THEN d.reason ELSE Rules[e].why
            /\ blocked = IF e \in {"failed", "blocked", "resend"} THEN e = "blocked" ELSE d.blocked
      OBVIOUS
    <3>6. n = [d EXCEPT !.state = Rules[e].to, !.tries = tries, !.reason = reason,
                        !.blocked = blocked]
      BY <1>2, <2>1, <3>5 DEF Step
    <3>7. tries \in Nat /\ reason \in Reasons /\ blocked \in BOOLEAN
      BY <3>2, <3>3, <3>4, <3>5
    <3> QED BY <2>2, <3>6, <3>7 DEF Delivery
  <2>4. d.state # "absent" /\ n.state # "absent"
    BY <2>2, <2>3 DEF States
  <2>5. e \notin BackEvents => Onward(d, n)
    <3>1. CASE Rules[e].to \notin {"waiting", "failed"}
      BY <2>3, <2>4, <3>1 DEF Onward, Spent
    <3>2. CASE Rules[e].from = {"failed"}
      BY <2>2, <2>3, <2>4, <3>2 DEF Onward, Spent
    <3> QED BY <3>1, <3>2, RuleFacts
  <2> QED BY <2>1, <2>3, <2>4, <2>5, <1>2
<1> QED BY <1>1, <1>2

LEMMA OnwardTwice ==
    ASSUME NEW a, NEW b, NEW c, Onward(a, b), Onward(b, c)
    PROVE  Onward(a, c)
BY DEF Onward, Spent

LEMMA OnwardSelf == \A d : Onward(d, d)
BY DEF Onward, Spent

-----------------------------------------------------------------------------
(* The store.                                                              *)
LEMMA SaveFine ==
    ASSUME IInv, NEW new \in [Items -> Delivery], Save(new)
    PROVE  StoreFine /\ items' = new
<1>1. items \in [Items -> Delivery] /\ disk \in [Items -> Delivery] /\ faults \in Nat
  BY DEF IInv, TypeOK
<1>2. items' = new
  BY DEF Save
<1>3. CASE /\ disk' = [i \in Items |-> IF new[i] # items[i] THEN new[i] ELSE disk[i]]
           /\ faults' = faults
  <2>1. disk' \in [Items -> Delivery]
    BY <1>1, <1>3
  <2>2. ASSUME faults' = 0
        PROVE  disk' = items'
    <3>1. disk = items
      BY <1>3, <2>2 DEF IInv
    <3>2. \A i \in Items : disk'[i] = new[i]
      BY <1>3, <3>1
    <3> QED BY <1>2, <2>1, <3>2
  <2> QED BY <1>1, <1>2, <1>3, <2>1, <2>2 DEF StoreFine
<1>4. CASE disk' = disk /\ faults' = faults + 1
  BY <1>1, <1>2, <1>4 DEF StoreFine
<1> QED BY <1>3, <1>4 DEF Save

LEMMA ChangeTypes ==
    ASSUME IInv, NEW i \in Items, NEW e \in Events, Change(i, e)
    PROVE  /\ StoreFine /\ items'[i] = Step(items[i], e)
           /\ \A j \in Items \ {i} : items'[j] = items[j]
           /\ SamePlaces
           /\ e \notin BackEvents => ItemsFine
<1>1. items \in [Items -> Delivery] /\ items[i] \in Delivery
  BY DEF IInv, TypeOK
<1> DEFINE new == [items EXCEPT ![i] = Step(items[i], e)]
<1>2. new \in [Items -> Delivery]
  BY <1>1, StepTypes
<1>3. Save(new)
  BY DEF Change
<1>4. StoreFine /\ items' = new
  BY <1>2, <1>3, SaveFine
<1>5. items'[i] = Step(items[i], e) /\ \A j \in Items \ {i} : items'[j] = items[j]
  BY <1>1, <1>4
<1>6. ASSUME e \notin BackEvents
      PROVE  ItemsFine
  <2>1. Onward(items[i], Step(items[i], e))
    BY <1>1, <1>6, StepTypes
  <2> QED BY <1>5, <2>1, OnwardSelf DEF ItemsFine
<1>7. SamePlaces
  BY <1>1, <1>5, StepTypes DEF SamePlaces
<1> QED BY <1>4, <1>5, <1>6, <1>7

LEMMA StoreKept ==
    ASSUME IInv, UNCHANGED storeVars
    PROVE  StoreFine /\ ItemsFine
BY OnwardSelf DEF IInv, TypeOK, storeVars, StoreFine, ItemsFine

-----------------------------------------------------------------------------
(* The threads.                                                            *)
Resting(job) == job \in Job /\ job.pc \notin {"send", "hand"}

LEMMA JobShapes ==
    /\ Resting(Off) /\ Resting(Pumping)
    /\ \A status \in {"none", "settled", "failed", "pump"} : Resting(PumpingThen(status))
    /\ \A T \in SUBSET Items : \A after \in {"none", "settled", "failed", "pump"} :
          Resting(Losing(T, after))
    /\ \A T \in SUBSET Items : Resting([Off EXCEPT !.pc = "recheck", !.todo = T])
    /\ Resting([Off EXCEPT !.pc = "failed"])
<1>1. Resting(Off)
  BY DEF Resting, Off, Job
<1>2. Resting(Pumping)
  BY DEF Resting, Off, Job, Pumping
<1>3. \A status \in {"none", "settled", "failed", "pump"} : Resting(PumpingThen(status))
  BY <1>2 DEF Resting, PumpingThen, Job
<1>4. \A T \in SUBSET Items : \A after \in {"none", "settled", "failed", "pump"} :
          Resting(Losing(T, after))
  BY <1>1 DEF Resting, Losing, Job
<1>5. \A T \in SUBSET Items : Resting([Off EXCEPT !.pc = "recheck", !.todo = T])
  BY <1>1 DEF Resting, Job
<1>6. Resting([Off EXCEPT !.pc = "failed"])
  BY <1>1 DEF Resting, Job
<1> QED BY <1>1, <1>2, <1>3, <1>4, <1>5, <1>6

LEMMA ReturnedShape ==
    ASSUME NEW job \in Job
    PROVE  Resting(Returned(job))
<1>1. job.todo \in SUBSET Items /\ job.after \in {"none", "settled", "failed", "pump"}
  BY DEF Job
<1>2. Resting([Off EXCEPT !.pc = "settled"]) /\ Resting([Off EXCEPT !.pc = "failed"])
  BY DEF Resting, Off, Job
<1>3. CASE job.todo # {}
  BY <1>1, <1>3, JobShapes DEF Returned
<1>4. CASE job.todo = {} /\ job.after \in {"none", "pump"}
  BY <1>4, JobShapes DEF Returned
<1>5. CASE job.todo = {} /\ job.after = "settled"
  BY <1>2, <1>5 DEF Returned
<1>6. CASE job.todo = {} /\ job.after = "failed"
  BY <1>2, <1>6 DEF Returned
<1> QED BY <1>1, <1>3, <1>4, <1>5, <1>6

LEMMA DoFine ==
    ASSUME IInv, NEW th \in Threads, NEW job, Resting(job), Do(th, job)
    PROVE  JobsFine
<1>1. jobs \in [Threads -> Job] /\ job \in Job /\ job.pc \notin {"send", "hand"}
  BY DEF IInv, TypeOK, Resting
<1>2. /\ jobs' \in [Threads -> Job] /\ jobs'[th] = job
      /\ \A x \in Threads \ {th} : jobs'[x] = jobs[x]
  BY <1>1 DEF Do
<1>3. Sound => \A x \in Threads : TakesOne(jobs'[x])
  BY <1>1, <1>2 DEF IInv, TakesOne
<1>4. \A i \in Items : Handing(i)' \subseteq Handing(i)
  BY <1>1, <1>2 DEF Handing, Threads
<1> QED BY <1>2, <1>3, <1>4 DEF JobsFine, JobsTyped

LEMMA JobsKept ==
    ASSUME IInv, UNCHANGED jobs
    PROVE  JobsFine
BY DEF IInv, TypeOK, JobsFine, JobsTyped, Handing

LEMMA SendersKept ==
    ASSUME IInv, senders' \subseteq senders
    PROVE  SendersFine
<1>1. IsFiniteSet(senders')
  BY Fewer DEF IInv
<1>2. senders' \subseteq Sender
  BY DEF IInv, TypeOK
<1>3. ASSUME NEW i \in Items
      PROVE  NotMore(Cardinality(Calling(i)'), Cardinality(Calling(i)))
  <2>1. IsFiniteSet(Calling(i)) /\ Calling(i)' \subseteq Calling(i)
    BY Places DEF IInv, Calling
  <2> QED BY <2>1, Fewer DEF NotMore
<1> QED BY <1>1, <1>2, <1>3 DEF SendersFine, SendersTyped

LEMMA HeldKept ==
    ASSUME IInv, held' \subseteq held
    PROVE  HeldFine
<1>1. IsFiniteSet(held')
  BY Fewer DEF IInv
<1>2. held' \subseteq Held
  BY DEF IInv, TypeOK
<1>3. ASSUME NEW i \in Items
      PROVE  NotMore(Cardinality(Unread(i)'), Cardinality(Unread(i)))
  <2>1. IsFiniteSet(Unread(i)) /\ Unread(i)' \subseteq Unread(i)
    BY Places DEF IInv, Unread
  <2> QED BY <2>1, Fewer DEF NotMore
<1> QED BY <1>1, <1>2, <1>3 DEF HeldFine, HeldTyped

LEMMA HostKept ==
    ASSUME IInv, UNCHANGED <<handoff, phase, crashes, setup>>, QueueTypes', AgentTypes'
    PROVE  Kept
BY DEF IInv, TypeOK, Kept, HostTypes

LEMMA QueueKept ==
    ASSUME IInv
    PROVE  /\ UNCHANGED queueVars => QueueTypes'
           /\ UNCHANGED <<turn, owed, session>> => AgentTypes'
           /\ UNCHANGED agentVars => AgentTypes' /\ held' = held /\ copies' = copies
           /\ UNCHANGED hostVars => UNCHANGED <<handoff, phase, crashes, setup, asks>>
BY DEF IInv, TypeOK, queueVars, agentVars, hostVars, QueueTypes, AgentTypes

LEMMA SaveOnward ==
    ASSUME IInv, NEW new \in [Items -> Delivery], Save(new),
           \A i \in Items : Onward(items[i], new[i])
    PROVE  StoreFine /\ ItemsFine
BY SaveFine DEF ItemsFine

LEMMA ItemTypes ==
    ASSUME IInv
    PROVE  /\ items \in [Items -> Delivery] /\ \A i \in Items : items[i] \in Delivery
           /\ jobs \in [Threads -> Job] /\ \A th \in Threads : jobs[th] \in Job
           /\ Driver \in Threads /\ Callers \subseteq Threads
BY DEF IInv, TypeOK, Threads

(* A step of the threads and of the store that adds no attempt.            *)
LEMMA Inside ==
    ASSUME IInv, StoreFine, ItemsFine, JobsFine,
           UNCHANGED <<senders, queueVars, agentVars, hostVars>>
    PROVE  IInv'
<1>1. SendersFine
  BY SendersKept
<1>2. /\ QueueTypes' /\ AgentTypes' /\ held' = held /\ copies' = copies
      /\ UNCHANGED <<handoff, phase, crashes, setup, asks>>
  BY QueueKept
<1>3. HeldFine /\ Kept
  BY <1>2, HeldKept, HostKept
<1> QED BY <1>1, <1>2, <1>3, Plain

-----------------------------------------------------------------------------
(* The steps of a pump.                                                    *)
LEMMA ReadIdleKeeps ==
    ASSUME IInv, NEW th \in Threads, ReadIdle(th)
    PROVE  IInv'
<1>1. PICK idle \in BOOLEAN : idle = Idle
  BY DEF Idle
<1>2. jobs[th] \in Job
  BY ItemTypes
<1>3. Resting([jobs[th] EXCEPT !.pc = "pick", !.idle = idle])
  BY <1>2 DEF Resting, Job
<1>4. JobsFine
  BY <1>1, <1>3, DoFine DEF ReadIdle
<1> QED BY <1>4, StoreKept, Inside DEF ReadIdle

(* Under PlacesDiffer the oldest message that may go is one.               *)
LEMMA NextUpIsOne ==
    ASSUME IInv, PlacesDiffer, NEW idle, NextUp(idle) # {}
    PROVE  \E i \in Items : NextUp(idle) = {i}
<1>1. PICK i \in Items : i \in NextUp(idle)
  BY DEF NextUp
<1>2. ASSUME NEW j \in NextUp(idle)
      PROVE  j = i
  <2>1. j \in Items /\ MayGo(i, idle) /\ MayGo(j, idle)
    BY <1>1, <1>2 DEF NextUp
  <2>2. items[i].at <= items[j].at /\ items[j].at <= items[i].at
    BY <1>1, <1>2, <2>1 DEF NextUp
  <2>3. items[i].at \in Nat /\ items[j].at \in Nat
    BY <2>1, ItemTypes DEF Delivery
  <2>4. items[i].at = items[j].at
    BY <2>2, <2>3
  <2>5. items[i].at > 0
    BY <1>1, <2>1 DEF PlacesDiffer, MayGo
  <2> QED BY <1>1, <2>1, <2>3, <2>4, <2>5 DEF PlacesDiffer
<1> QED BY <1>1, <1>2

LEMMA PickKeeps ==
    ASSUME IInv, NEW th \in Threads, Pick(th)
    PROVE  IInv'
<1>1. PICK next : next = NextUp(jobs[th].idle)
  OBVIOUS
<1>2. jobs[th] \in Job /\ next \subseteq Items
  BY <1>1, ItemTypes DEF NextUp
<1>3. CASE next = {}
  <2>1. JobsFine
    BY <1>1, <1>2, <1>3, ReturnedShape, DoFine DEF Pick
  <2> QED BY <2>1, StoreKept, Inside DEF Pick
<1>4. CASE next # {}
  <2>1. PICK job : job = [jobs[th] EXCEPT !.pc = "send", !.item = next]
    OBVIOUS
  <2>2. job \in Job /\ job.pc = "send" /\ job.item = next
    BY <1>2, <2>1 DEF Job
  <2>3. Do(th, job)
    BY <1>1, <1>4, <2>1 DEF Pick
  <2>4. /\ jobs' \in [Threads -> Job] /\ jobs'[th] = job
        /\ \A x \in Threads \ {th} : jobs'[x] = jobs[x]
    BY <2>2, <2>3, ItemTypes DEF Do
  <2>5. Sound => \E i \in Items : next = {i}
    BY <1>1, <1>4, NextUpIsOne DEF IInv
  <2>6. Sound => \A x \in Threads : TakesOne(jobs'[x])
    BY <2>2, <2>4, <2>5 DEF IInv, TakesOne
  <2>7. \A i \in Items : Handing(i)' \subseteq Handing(i)
    BY <2>2, <2>4 DEF Handing, Threads
  <2>8. JobsFine
    BY <2>4, <2>6, <2>7 DEF JobsFine, JobsTyped
  <2> QED BY <2>8, StoreKept, Inside DEF Pick
<1> QED BY <1>3, <1>4

(* The message goes out: its one attempt is with the pump.                 *)
LEMMA SendKeeps ==
    ASSUME IInv, NEW th \in Threads, Send(th)
    PROVE  IInv'
<1>1. PICK i \in jobs[th].item :
        /\ Change(i, "send")
        /\ Do(th, IF Applies(items[i], "send")
                  THEN [jobs[th] EXCEPT !.pc = "hand", !.try = items[i].tries + 1]
                  ELSE Returned(jobs[th]))
  BY DEF Send
<1>2. jobs[th] \in Job /\ jobs[th].pc = "send" /\ i \in Items /\ items[i] \in Delivery
  BY ItemTypes DEF Send, Job
<1>3. /\ StoreFine /\ ItemsFine /\ items'[i] = Step(items[i], "send")
      /\ \A j \in Items \ {i} : items'[j] = items[j]
  BY <1>1, <1>2, ChangeTypes DEF Events, BackEvents
<1>4. CASE ~Applies(items[i], "send")
  <2>1. JobsFine
    BY <1>1, <1>2, <1>4, ReturnedShape, DoFine
  <2> QED BY <1>3, <2>1, Inside DEF Send
<1>5. CASE Applies(items[i], "send")
  <2>1. PICK job : job = [jobs[th] EXCEPT !.pc = "hand", !.try = items[i].tries + 1]
    OBVIOUS
  <2>2. items[i].tries + 1 \in Nat
    BY <1>2 DEF Delivery
  <2>3. job \in Job /\ job.pc = "hand" /\ job.item = jobs[th].item
    BY <1>2, <2>1, <2>2 DEF Job
  <2>4. Do(th, job)
    BY <1>1, <1>5, <2>1
  <2>5. /\ jobs' \in [Threads -> Job] /\ jobs'[th] = job
        /\ \A x \in Threads \ {th} : jobs'[x] = jobs[x]
    BY <2>3, <2>4, ItemTypes DEF Do
  <2>6. Sound => jobs[th].item = {i}
    BY <1>1, <1>2 DEF IInv, TakesOne
  <2>7. Sound => \A x \in Threads : TakesOne(jobs'[x])
    BY <1>2, <2>3, <2>5, <2>6 DEF IInv, TakesOne
  <2>8. JobsTyped
    BY <2>5, <2>7 DEF JobsTyped
  <2>9. /\ QueueTypes' /\ AgentTypes' /\ held' = held /\ copies' = copies /\ senders' = senders
        /\ UNCHANGED <<handoff, phase, crashes, setup, asks>>
    BY QueueKept DEF Send
  <2>10. SendersFine /\ HeldFine /\ Kept
    BY <2>9, SendersKept, HeldKept, HostKept
  <2>11. ASSUME Sound, NEW j \in Items
         PROVE  Counted(j)'
    <3>1. CASE j # i
      <4>1. Handing(j)' \subseteq Handing(j)
        BY <2>3, <2>5, <2>6, <2>11, <3>1 DEF Handing, Threads
      <4> QED BY <1>3, <2>9, <2>10, <2>11, <4>1, CountKept
                 DEF ItemsFine, SendersFine, HeldFine
    <3>2. CASE j = i
      <4>1. Handing(i)' \subseteq Handing(i) \cup {th}
        BY <2>5 DEF Handing, Threads
      <4>2. /\ IsFiniteSet(Handing(i)) /\ IsFiniteSet(Calling(i)) /\ IsFiniteSet(Unread(i))
        BY Places DEF IInv
      <4>3. /\ Cardinality(Handing(i)) \in Nat /\ Cardinality(Calling(i)) \in Nat
            /\ Cardinality(Unread(i)) \in Nat
        BY Places DEF IInv
      <4>4. NotMore(Cardinality(Handing(i)'), Cardinality(Handing(i)) + 1)
        BY <4>1, <4>2, OneMore DEF NotMore
      <4>5. Attempts(i)' \in Nat /\ Attempts(i) \in Nat /\ Attempts(i)' <= Attempts(i) + 1
        BY <1>2, <2>10, <4>3, <4>4 DEF SendersFine, HeldFine, NotMore, Attempts
      <4>6. items[i].state = "waiting" /\ items'[i].state = "sending"
        <5>1. Rules["send"].from = {"waiting"} /\ Rules["send"].to = "sending"
          BY DEF Rules, Rule
        <5>2. items'[i].state = IF Applies(items[i], "send") THEN Rules["send"].to
                                ELSE items[i].state
          BY <1>2, <1>3, StepTypes DEF Events
        <5> QED BY <1>5, <5>1, <5>2 DEF Applies
      <4>7. Spent(items[i]) = 0 /\ Spent(items'[i]) = 1
        BY <4>6 DEF Spent
      <4>8. copies'[i] \in Nat /\ asks'[i] \in Nat
        BY <1>2, <2>9 DEF IInv, TypeOK
      <4> QED BY <1>2, <2>9, <2>11, <3>2, <4>5, <4>7, <4>8, Tally
    <3> QED BY <3>1, <3>2
  <2>12. /\ copies' \in [Items -> Nat] /\ asks' \in [Items -> Nat]
         /\ \A j \in Items : asks'[j] <= setup.asks
    BY <2>9 DEF IInv, TypeOK
  <2> QED BY <1>3, <2>8, <2>10, <2>11, <2>12, Counts, PlacesKept DEF SendersFine, HeldFine
<1> QED BY <1>4, <1>5

LEMMA HandOverKeeps ==
    ASSUME IInv, NEW th \in Threads, HandOver(th)
    PROVE  IInv'
<1>1. jobs[th] \in Job /\ jobs[th].pc = "hand" /\ jobs[th].item \subseteq Items
      /\ jobs[th].try \in Nat
  BY ItemTypes DEF HandOver, Job
<1>2. PICK take, try : take = jobs[th].item /\ try = jobs[th].try
  OBVIOUS
<1> DEFINE new == {[item |-> i, try |-> try, pc |-> "call"] : i \in take}
<1>3. new \subseteq Sender /\ IsFiniteSet(new)
  <2>1. IsFiniteSet(take)
    BY <1>1, <1>2, Fewer, DeliveryAssumption
  <2>2. [i \in take |-> [item |-> i, try |-> try, pc |-> "call"]] \in Surjection(take, new)
    BY DEF Surjection
  <2>3. IsFiniteSet(new)
    BY <2>1, <2>2, FS_Surjection
  <2>4. new \subseteq Sender
    BY <1>1, <1>2 DEF Sender
  <2> QED BY <2>3, <2>4
<1>4. senders' = senders \cup new /\ inHand' = inHand \cup take
  BY <1>2 DEF HandOver
<1>5. SendersTyped
  <2>1. IsFiniteSet(senders) /\ senders \subseteq Sender
    BY DEF IInv, TypeOK
  <2> HIDE DEF new
  <2>2. IsFiniteSet(senders \cup new)
    BY <1>3, <2>1, FS_Union
  <2> QED BY <1>3, <1>4, <2>1, <2>2 DEF SendersTyped
<1>6. JobsFine
  BY <1>1, ReturnedShape, DoFine DEF HandOver
<1>7. StoreFine /\ ItemsFine
  BY StoreKept DEF HandOver
<1>8. /\ AgentTypes' /\ held' = held /\ copies' = copies
      /\ UNCHANGED <<handoff, phase, crashes, setup, asks>>
  BY QueueKept DEF HandOver
<1>9. QueueTypes'
  BY <1>1, <1>2, <1>4 DEF IInv, TypeOK, QueueTypes, HandOver
<1>10. HeldFine /\ Kept
  BY <1>8, <1>9, HeldKept, HostKept
<1>11. ASSUME Sound, NEW j \in Items
       PROVE  Counted(j)'
  <2>1. PICK i \in Items : take = {i}
    BY <1>1, <1>2, <1>11 DEF IInv, TakesOne
  <2>2. CASE j # i
    <3>1. Calling(j)' = Calling(j)
      BY <1>4, <2>1, <2>2 DEF Calling
    <3>2. Cardinality(Calling(j)) \in Nat
      BY Places DEF IInv
    <3>3. NotMore(Cardinality(Calling(j)'), Cardinality(Calling(j)))
      BY <3>1, <3>2 DEF NotMore
    <3> QED BY <1>6, <1>7, <1>8, <1>10, <1>11, <3>3, CountKept DEF ItemsFine, JobsFine, HeldFine
  <2>3. CASE j = i
    <3>1. th \in Handing(i) /\ Handing(i)' \subseteq Handing(i) \ {th}
      <4>1. th \in Handing(i)
        BY <1>1, <1>2, <2>1 DEF Handing
      <4>2. jobs' = [jobs EXCEPT ![th] = Returned(jobs[th])]
        BY DEF HandOver, Do
      <4>3. jobs'[th].pc # "hand"
        BY <1>1, <4>2, ReturnedShape, ItemTypes DEF Resting
      <4>4. th \notin Handing(i)'
        BY <4>3 DEF Handing
      <4> QED BY <1>6, <4>1, <4>4 DEF JobsFine
    <3>2. /\ IsFiniteSet(Handing(i)) /\ IsFiniteSet(Calling(i))
          /\ Cardinality(Handing(i)) \in Nat /\ Cardinality(Calling(i)) \in Nat
          /\ Cardinality(Unread(i)) \in Nat
      BY Places DEF IInv
    <3>3. NotMore(Cardinality(Handing(i)') + 1, Cardinality(Handing(i)))
          /\ Cardinality(Handing(i)') \in Nat
      BY <3>1, <3>2, OneLess DEF NotMore
    <3>4. Calling(i)' \subseteq Calling(i) \cup {[item |-> i, try |-> try, pc |-> "call"]}
      BY <1>4, <2>1 DEF Calling
    <3>5. NotMore(Cardinality(Calling(i)'), Cardinality(Calling(i)) + 1)
      BY <3>2, <3>4, OneMore DEF NotMore
    <3>6. Attempts(i)' \in Nat /\ Attempts(i) \in Nat /\ Attempts(i)' <= Attempts(i)
      BY <1>10, <3>2, <3>3, <3>5 DEF HeldFine, NotMore, Attempts
    <3>7. copies'[i] \in Nat /\ asks'[i] \in Nat /\ copies'[i] = copies[i] /\ asks'[i] = asks[i]
      BY <1>8 DEF IInv, TypeOK
    <3>8. Spent(items'[i]) >= Spent(items[i]) /\ Spent(items'[i]) \in Nat /\ Spent(items[i]) \in Nat
      BY <1>7 DEF ItemsFine, Onward, Spent
    <3> QED BY <1>11, <2>3, <3>6, <3>7, <3>8, Tally
  <2> QED BY <2>2, <2>3
<1>12. /\ copies' \in [Items -> Nat] /\ asks' \in [Items -> Nat]
       /\ \A j \in Items : asks'[j] <= setup.asks
  BY <1>8 DEF IInv, TypeOK
<1> QED BY <1>5, <1>6, <1>7, <1>10, <1>11, <1>12, Counts, PlacesKept DEF JobsFine, HeldFine

-----------------------------------------------------------------------------
(* The steps of a sender.                                                  *)
Counting == {"call", "err", "fail"}

LEMMA SenderMoves ==
    ASSUME IInv, NEW s \in senders, NEW pc \in {"ok", "quiet", "err", "lost", "took", "fail"},
           senders' \subseteq (senders \ {s}) \cup {[s EXCEPT !.pc = pc]},
           pc \in Counting => s.pc \in Counting
    PROVE  /\ SendersFine
           /\ \A i \in Items \ {s.item} : Calling(i)' \subseteq Calling(i)
           /\ pc \notin Counting => Calling(s.item)' \subseteq Calling(s.item) \ {s}
<1>1. s \in Sender /\ senders \subseteq Sender /\ IsFiniteSet(senders)
  BY DEF IInv, TypeOK
<1>2. PICK t : t = [s EXCEPT !.pc = pc]
  OBVIOUS
<1>3. t \in Sender /\ t.item = s.item /\ t.pc = pc
  BY <1>1, <1>2 DEF Sender
<1>4. senders' \subseteq (senders \ {s}) \cup {t}
  BY <1>2
<1>5. SendersTyped
  BY <1>1, <1>3, <1>4, Swapped DEF SendersTyped
<1>6. \A i \in Items \ {s.item} : Calling(i)' \subseteq Calling(i)
  BY <1>3, <1>4 DEF Calling
<1>7. pc \notin Counting => Calling(s.item)' \subseteq Calling(s.item) \ {s}
  BY <1>3, <1>4 DEF Calling, Counting
<1>8. ASSUME NEW i \in Items
      PROVE  NotMore(Cardinality(Calling(i)'), Cardinality(Calling(i)))
  <2>1. IsFiniteSet(Calling(i))
    BY Places DEF IInv
  <2>2. CASE i # s.item \/ pc \notin Counting
    <3>1. Calling(i)' \subseteq Calling(i)
      BY <1>6, <1>7, <2>2
    <3> QED BY <2>1, <3>1, Fewer DEF NotMore
  <2>3. CASE i = s.item /\ pc \in Counting
    <3>1. s \in Calling(i) /\ Calling(i)' \subseteq (Calling(i) \ {s}) \cup {t}
      BY <1>4, <2>3 DEF Calling, Counting
    <3>2. /\ Cardinality(Calling(i)') \in Nat
          /\ Cardinality(Calling(i)') <= Cardinality(Calling(i))
      <4>1. PICK A, B : A = Calling(i) /\ B = Calling(i)'
        OBVIOUS
      <4>2. IsFiniteSet(A) /\ s \in A /\ B \subseteq (A \ {s}) \cup {t}
        BY <2>1, <3>1, <4>1
      <4>3. Cardinality(B) \in Nat /\ Cardinality(B) <= Cardinality(A)
        BY <4>2, Swapped
      <4> QED BY <4>1, <4>3
    <3> QED BY <3>2 DEF NotMore
  <2> QED BY <2>2, <2>3
<1> QED BY <1>5, <1>6, <1>7, <1>8 DEF SendersFine

LEMMA SendErrsKeeps ==
    ASSUME IInv, NEW s \in senders, SendErrs(s)
    PROVE  IInv'
<1>1. SendersFine
  BY SenderMoves DEF SendErrs, Becomes, Counting
<1>2. StoreFine /\ ItemsFine /\ JobsFine
  BY StoreKept, JobsKept DEF SendErrs
<1>3. QueueTypes' /\ AgentTypes' /\ held' = held /\ copies' = copies /\ asks' = asks
  BY QueueKept DEF SendErrs
<1>4. handoff' \in BOOLEAN
  BY DEF SendErrs, Quiet
<1>5. Kept
  BY <1>3, <1>4 DEF IInv, TypeOK, Kept, HostTypes, SendErrs
<1> QED BY <1>1, <1>2, <1>3, <1>5, HeldKept, Plain

LEMMA SendBackKeeps ==
    ASSUME IInv, NEW s \in senders, SendBack(s)
    PROVE  IInv'
<1>1. SendersFine
  <2>1. PICK left \in SUBSET {"fail", "lost", "took"} :
          /\ left = CASE s.pc = "err" -> {"fail"}
                      [] s.pc # "err" /\ s.item \in diedInHand -> {"lost"}
                      [] s.pc = "quiet" /\ s.item \notin diedInHand -> {"took"}
                      [] OTHER -> {}
          /\ senders' = (senders \ {s}) \cup {[s EXCEPT !.pc = pc] : pc \in left}
    <3>1. CASE s.pc = "err"
      BY <3>1 DEF SendBack
    <3>2. CASE s.pc # "err" /\ s.item \in diedInHand
      BY <3>2 DEF SendBack
    <3>3. CASE s.pc = "quiet" /\ s.item \notin diedInHand
      BY <3>3 DEF SendBack
    <3>4. CASE s.pc = "ok" /\ s.item \notin diedInHand
      BY <3>4 DEF SendBack
    <3> QED BY <3>1, <3>2, <3>3, <3>4 DEF SendBack
  <2>2. CASE s.pc = "err"
    BY <2>1, <2>2, SenderMoves DEF Counting
  <2>3. CASE s.pc # "err" /\ s.item \in diedInHand
    BY <2>1, <2>3, SenderMoves DEF Counting
  <2>4. CASE s.pc # "err" /\ s.item \notin diedInHand
    BY <2>1, <2>4, SenderMoves DEF Counting
  <2> QED BY <2>2, <2>3, <2>4
<1>2. StoreFine /\ ItemsFine /\ JobsFine
  BY StoreKept, JobsKept DEF SendBack
<1>3. /\ AgentTypes' /\ held' = held /\ copies' = copies
      /\ UNCHANGED <<handoff, phase, crashes, setup, asks>>
  BY QueueKept DEF SendBack
<1>4. QueueTypes'
  BY DEF IInv, TypeOK, QueueTypes, SendBack
<1> QED BY <1>1, <1>2, <1>3, <1>4, HeldKept, HostKept, Plain

LEMMA SendReachesKeeps ==
    ASSUME IInv, NEW s \in senders, SendReaches(s)
    PROVE  IInv'
<1>1. s \in Sender /\ s.item \in Items /\ s.try \in Nat /\ s.pc = "call"
  BY DEF IInv, TypeOK, Sender, SendReaches
<1>2. PICK quiet \in BOOLEAN : quiet = Quiet(s)
  BY DEF Quiet
<1>3. PICK pc \in {"ok", "quiet"} : senders' = (senders \ {s}) \cup {[s EXCEPT !.pc = pc]}
  BY <1>2 DEF SendReaches, Becomes
<1>4. /\ SendersFine
      /\ \A i \in Items \ {s.item} : Calling(i)' \subseteq Calling(i)
      /\ Calling(s.item)' \subseteq Calling(s.item) \ {s}
  BY <1>3, SenderMoves DEF Counting
<1>5. StoreFine /\ ItemsFine /\ JobsFine
  BY StoreKept, JobsKept DEF SendReaches
<1>6. /\ handoff' \in BOOLEAN
      /\ UNCHANGED <<queueVars, turn, owed, copies, phase, crashes, asks, setup>>
  BY DEF SendReaches, Quiet
<1>7. CASE UNCHANGED <<held, session>>
  <2>1. Kept
    BY <1>6, <1>7, QueueKept DEF IInv, TypeOK, Kept, HostTypes
  <2> QED BY <1>4, <1>5, <1>6, <1>7, <2>1, HeldKept, Plain
<1>8. CASE session # "closing"
  <2>1. PICK g : g = [item |-> s.item, try |-> s.try, named |-> ~quiet, stage |-> "queued"]
    OBVIOUS
  <2>2. g \in Held /\ g.item = s.item
    BY <1>1, <1>2, <2>1 DEF Held
  <2>3. held' = held \cup {g} /\ session' = "open"
    BY <1>2, <1>8, <2>1 DEF SendReaches
  <2>4. HeldTyped
    <3>1. IsFiniteSet(held \cup {g})
      BY FS_AddElement DEF IInv
    <3> QED BY <2>2, <2>3, <3>1 DEF HeldTyped, IInv, TypeOK
  <2>5. QueueTypes' /\ AgentTypes'
    BY <1>6, <2>3, QueueKept DEF AgentTypes, IInv, TypeOK
  <2>6. Kept
    BY <1>6, <2>5 DEF IInv, TypeOK, Kept, HostTypes
  <2>7. ASSUME Sound, NEW i \in Items
        PROVE  Counted(i)'
    <3>1. /\ IsFiniteSet(Calling(i)) /\ IsFiniteSet(Unread(i)) /\ IsFiniteSet(Handing(i))
          /\ Cardinality(Handing(i)) \in Nat /\ Cardinality(Calling(i)) \in Nat
          /\ Cardinality(Unread(i)) \in Nat
      BY Places DEF IInv
    <3>2. CASE i # s.item
      <4>1. Unread(i)' = Unread(i)
        BY <2>2, <2>3, <3>2 DEF Unread
      <4>2. NotMore(Cardinality(Unread(i)'), Cardinality(Unread(i)))
        BY <3>1, <4>1 DEF NotMore
      <4> QED BY <1>4, <1>5, <1>6, <2>7, <4>2, CountKept DEF ItemsFine, JobsFine, SendersFine
    <3>3. CASE i = s.item
      <4>1. s \in Calling(i) /\ Calling(i)' \subseteq Calling(i) \ {s}
        BY <1>1, <1>4, <3>3 DEF Calling
      <4>2. Cardinality(Calling(i)') \in Nat /\ Cardinality(Calling(i)') + 1 <= Cardinality(Calling(i))
        BY <3>1, <4>1, OneLess
      <4>3. Unread(i)' \subseteq Unread(i) \cup {g}
        BY <2>3 DEF Unread
      <4>4. Cardinality(Unread(i)') \in Nat /\ Cardinality(Unread(i)') <= Cardinality(Unread(i)) + 1
        BY <3>1, <4>3, OneMore
      <4>5. Cardinality(Handing(i)') \in Nat /\ Cardinality(Handing(i)') <= Cardinality(Handing(i))
        BY <1>5, <3>1, Fewer DEF JobsFine
      <4>6. Attempts(i)' \in Nat /\ Attempts(i) \in Nat /\ Attempts(i)' <= Attempts(i)
        BY <3>1, <4>2, <4>4, <4>5 DEF Attempts
      <4>7. copies'[i] \in Nat /\ asks'[i] \in Nat /\ copies'[i] = copies[i] /\ asks'[i] = asks[i]
        BY <1>6 DEF IInv, TypeOK
      <4>8. /\ Spent(items'[i]) >= Spent(items[i])
            /\ Spent(items'[i]) \in Nat /\ Spent(items[i]) \in Nat
        BY <1>5 DEF ItemsFine, Onward, Spent
      <4> QED BY <2>7, <4>6, <4>7, <4>8, Tally
    <3> QED BY <3>2, <3>3
  <2>8. /\ copies' \in [Items -> Nat] /\ asks' \in [Items -> Nat]
        /\ \A j \in Items : asks'[j] <= setup.asks
    BY <1>6 DEF IInv, TypeOK
  <2> QED BY <1>4, <1>5, <2>4, <2>6, <2>7, <2>8, Counts, PlacesKept DEF JobsFine, SendersFine
<1> QED BY <1>7, <1>8 DEF SendReaches

(* A message that goes back to where it can be sent, when an attempt at it *)
(* is over or the user asked once more.                                    *)
LEMMA GoesBack ==
    ASSUME IInv, NEW i \in Items, NEW asked \in {0, 1},
           StoreFine, SamePlaces, JobsFine, SendersFine, HeldFine, Kept,
           \A j \in Items \ {i} : Onward(items[j], items'[j]),
           copies' = copies, asks' = [asks EXCEPT ![i] = @ + asked],
           asks[i] + asked <= setup.asks,
           Attempts(i)' + 1 <= Attempts(i) + asked
    PROVE  IInv'
<1>1. asks \in [Items -> Nat] /\ copies \in [Items -> Nat]
  BY DEF IInv, TypeOK
<1>2. /\ asks' \in [Items -> Nat] /\ asks'[i] = asks[i] + asked
      /\ \A j \in Items \ {i} : asks'[j] = asks[j]
  BY <1>1
<1>3. \A j \in Items : asks'[j] <= setup.asks
  BY <1>2 DEF IInv
<1>4. ASSUME Sound, NEW j \in Items
      PROVE  Counted(j)'
  <2>1. CASE j # i
    BY <1>2, <1>4, <2>1, CountKept DEF JobsFine, SendersFine, HeldFine
  <2>2. CASE j = i
    <3>1. Spent(items[i]) \in Nat /\ Spent(items'[i]) \in Nat /\ Spent(items[i]) <= 1
      BY DEF Spent
    <3>2. /\ IsFiniteSet(Handing(i)) /\ Cardinality(Handing(i)) \in Nat
          /\ Cardinality(Calling(i)) \in Nat /\ Cardinality(Unread(i)) \in Nat
      BY Places DEF IInv
    <3>3. Cardinality(Handing(i)') \in Nat
      BY <3>2, Fewer DEF JobsFine
    <3>4. Attempts(i)' \in Nat /\ Attempts(i) \in Nat
      BY <3>2, <3>3 DEF SendersFine, HeldFine, NotMore, Attempts
    <3>5. copies'[i] \in Nat /\ asks'[i] \in Nat /\ asks[i] \in Nat
      BY <1>1, <1>2
    <3> QED BY <1>2, <1>4, <2>2, <3>1, <3>4, <3>5, Tally
  <2> QED BY <2>1, <2>2
<1> QED BY <1>1, <1>2, <1>3, <1>4, Counts, PlacesKept DEF JobsFine, SendersFine, HeldFine

LEMMA AttemptEnds ==
    ASSUME IInv, NEW i \in Items,
           StoreFine, SamePlaces, JobsFine, SendersFine, HeldFine, Kept,
           \A j \in Items \ {i} : Onward(items[j], items'[j]),
           UNCHANGED <<copies, asks>>, Attempts(i)' + 1 <= Attempts(i)
    PROVE  IInv'
<1>1. PICK none \in {0, 1} : none = 0
  OBVIOUS
<1>2. asks \in [Items -> Nat] /\ asks[i] \in Nat /\ asks[i] <= setup.asks
  BY DEF IInv, TypeOK
<1>3. asks' = [asks EXCEPT ![i] = @ + none] /\ asks[i] + none <= setup.asks
  BY <1>1, <1>2
<1>4. Attempts(i) \in Nat
  BY Places DEF IInv, Attempts
<1>5. Attempts(i)' + 1 <= Attempts(i) + none
  BY <1>1, <1>4
<1> QED BY <1>3, <1>5, GoesBack

LEMMA SendSettlesKeeps ==
    ASSUME IInv, NEW s \in senders, NEW c \in Callers, SendSettles(s, c)
    PROVE  IInv'
<1>1. s \in Sender /\ s.item \in Items /\ c \in Threads
  BY ItemTypes DEF IInv, TypeOK, Sender
<1>2. senders' = senders \ {s}
  BY DEF SendSettles
<1>3. SendersFine
  BY <1>2, SendersKept
<1>4. /\ AgentTypes' /\ held' = held /\ copies' = copies
      /\ UNCHANGED <<inHand, diedInHand, handoff, phase, crashes, setup, asks>>
  BY QueueKept DEF SendSettles
<1>5. HeldFine
  BY <1>4, HeldKept
<1>6. CASE s.pc = "lost"
  <2>1. Do(c, Losing({s.item}, "none")) /\ UNCHANGED <<storeVars, noReceipt>>
    BY <1>6 DEF SendSettles
  <2>2. StoreFine /\ ItemsFine
    BY <2>1, StoreKept
  <2>3. {s.item} \in SUBSET Items
    BY <1>1
  <2>4. JobsFine
    BY <1>1, <2>1, <2>3, JobShapes, DoFine
  <2>5. QueueTypes'
    BY <1>4, <2>1 DEF QueueTypes, IInv, TypeOK
  <2> QED BY <1>3, <1>4, <1>5, <2>2, <2>4, <2>5, HostKept, Plain
<1>7. CASE s.pc = "took"
  <2>1. /\ noReceipt' = noReceipt \cup {s.item} /\ Change(s.item, "accepted")
        /\ Do(c, Pumping)
    BY <1>7 DEF SendSettles
  <2>2. StoreFine /\ ItemsFine
    BY <1>1, <2>1, ChangeTypes DEF Events, BackEvents
  <2>3. JobsFine
    BY <1>1, <2>1, JobShapes, DoFine
  <2>4. QueueTypes'
    BY <1>1, <1>4, <2>1 DEF QueueTypes, IInv, TypeOK
  <2> QED BY <1>3, <1>4, <1>5, <2>2, <2>3, <2>4, HostKept, Plain
<1>8. CASE s.pc = "fail"
  <2>1. PICK e \in {"failed", "blocked"} : Change(s.item, e)
    BY <1>8 DEF SendSettles
  <2>2. noReceipt' = noReceipt /\ Do(c, Pumping)
    BY <1>8 DEF SendSettles
  <2>3. /\ StoreFine /\ SamePlaces
        /\ \A j \in Items \ {s.item} : items'[j] = items[j]
    BY <1>1, <2>1, ChangeTypes DEF Events
  <2>4. JobsFine
    BY <1>1, <2>2, JobShapes, DoFine
  <2>5. QueueTypes'
    BY <1>4, <2>2 DEF QueueTypes, IInv, TypeOK
  <2>6. PICK i \in Items : i = s.item
    BY <1>1
  <2>7. Attempts(i)' + 1 <= Attempts(i)
    <3>1. /\ IsFiniteSet(Calling(i)) /\ IsFiniteSet(Handing(i))
          /\ Cardinality(Handing(i)) \in Nat /\ Cardinality(Calling(i)) \in Nat
          /\ Cardinality(Unread(i)) \in Nat
      BY Places DEF IInv
    <3>2. s \in Calling(i) /\ Calling(i)' \subseteq Calling(i) \ {s}
      BY <1>2, <1>8, <2>6 DEF Calling
    <3>3. Cardinality(Calling(i)') \in Nat /\ Cardinality(Calling(i)') + 1 <= Cardinality(Calling(i))
      BY <3>1, <3>2, OneLess
    <3>4. Cardinality(Handing(i)') \in Nat /\ Cardinality(Handing(i)') <= Cardinality(Handing(i))
      BY <2>4, <3>1, Fewer DEF JobsFine
    <3> QED BY <1>5, <3>1, <3>3, <3>4 DEF HeldFine, NotMore, Attempts
  <2>8. \A j \in Items \ {i} : Onward(items[j], items'[j])
    BY <2>3, <2>6, OnwardSelf
  <2>9. Kept
    BY <1>4, <2>5, HostKept
  <2> QED BY <1>3, <1>4, <1>5, <2>3, <2>4, <2>7, <2>8, <2>9, AttemptEnds
<1> QED BY <1>6, <1>7, <1>8 DEF SendSettles

-----------------------------------------------------------------------------
(* What is lost, and the statuses the driver reports.                      *)
LEMMA TimeoutKeeps ==
    ASSUME IInv, NEW i \in Items, NEW c \in Callers, Timeout(i, c)
    PROVE  IInv'
<1>1. c \in Threads /\ {i} \in SUBSET Items
  BY ItemTypes
<1>2. JobsFine
  BY <1>1, JobShapes, DoFine DEF Timeout
<1> QED BY <1>2, StoreKept, Inside DEF Timeout

LEMMA LoseKeeps ==
    ASSUME IInv, NEW th \in Threads, Lose(th)
    PROVE  IInv'
<1>1. PICK i \in jobs[th].todo :
        /\ noReceipt' = IF jobs[th].after = "pump" THEN noReceipt \ {i} ELSE noReceipt
        /\ Change(i, "lost")
        /\ Do(th, IF Applies(items[i], "lost")
                  THEN [jobs[th] EXCEPT !.pc = "look", !.item = {i}, !.todo = @ \ {i}]
                  ELSE Returned([jobs[th] EXCEPT !.todo = @ \ {i}]))
  BY DEF Lose
<1>2. jobs[th] \in Job /\ i \in Items
  BY ItemTypes DEF Job
<1>3. StoreFine /\ ItemsFine
  BY <1>1, <1>2, ChangeTypes DEF Events, BackEvents
<1>4. Resting([jobs[th] EXCEPT !.pc = "look", !.item = {i}, !.todo = @ \ {i}])
  BY <1>2 DEF Resting, Job
<1>5. [jobs[th] EXCEPT !.todo = @ \ {i}] \in Job
  BY <1>2 DEF Job
<1>6. JobsFine
  <2>1. CASE Applies(items[i], "lost")
    BY <1>1, <1>4, <2>1, DoFine
  <2>2. CASE ~Applies(items[i], "lost")
    <3>1. PICK job \in Job : job = [jobs[th] EXCEPT !.todo = @ \ {i}]
      BY <1>5
    <3>2. Do(th, Returned(job))
      BY <1>1, <2>2, <3>1
    <3> QED BY <3>2, ReturnedShape, DoFine
  <2> QED BY <2>1, <2>2
<1>7. /\ AgentTypes' /\ held' = held /\ copies' = copies /\ senders' = senders
      /\ UNCHANGED <<handoff, phase, crashes, setup, asks>>
  BY QueueKept DEF Lose
<1>8. QueueTypes'
  <2>1. noReceipt' \subseteq noReceipt
    BY <1>1
  <2> QED BY <2>1 DEF IInv, TypeOK, QueueTypes, Lose
<1> QED BY <1>3, <1>6, <1>7, <1>8, SendersKept, HeldKept, HostKept, Plain

LEMMA LookupFine ==
    ASSUME IInv, NEW i \in Items, Lookup(i)
    PROVE  StoreFine /\ ItemsFine
<1>1. PICK e \in {"recorded", "unrecorded", "unreadable"} : Change(i, e)
  BY DEF Lookup
<1> QED BY <1>1, ChangeTypes DEF Events, BackEvents

LEMMA LookKeeps ==
    ASSUME IInv, NEW th \in Threads, Look(th)
    PROVE  IInv'
<1>1. PICK i \in jobs[th].item : Lookup(i)
  BY DEF Look
<1>2. jobs[th] \in Job /\ i \in Items
  BY ItemTypes DEF Job
<1>3. StoreFine /\ ItemsFine
  BY <1>1, <1>2, LookupFine
<1>4. Resting([jobs[th] EXCEPT !.pc = "idle", !.item = {}])
  BY <1>2 DEF Resting, Job
<1>5. JobsFine
  BY <1>4, DoFine DEF Look
<1> QED BY <1>3, <1>5, Inside DEF Look

LEMMA SettledKeeps ==
    ASSUME IInv, NEW th \in Threads, Settled(th)
    PROVE  IInv'
<1>1. JobsFine
  BY JobShapes, DoFine DEF Settled
<1>2. /\ QueueTypes' /\ UNCHANGED <<handoff, phase, crashes, setup, asks, copies>>
      /\ UNCHANGED <<senders, held>>
  BY QueueKept DEF Settled
<1>3. AgentTypes'
  BY DEF IInv, TypeOK, AgentTypes, Settled
<1>4. StoreFine /\ ItemsFine
  BY StoreKept DEF Settled
<1> QED BY <1>1, <1>2, <1>3, <1>4, SendersKept, HeldKept, HostKept, Plain

LEMMA FailedKeeps ==
    ASSUME IInv, NEW th \in Threads, Failed(th)
    PROVE  IInv'
<1>1. PICK lose \in SUBSET Items : lose = {i \in Out : i \notin inHand \/ i \in diedInHand}
  BY DEF Out, InState
<1>2. PICK job : job = [Off EXCEPT !.after = "pump", !.todo = lose]
  OBVIOUS
<1>3. job \in Job
  BY <1>2 DEF Off, Job
<1>4. Do(th, Returned(job))
  BY <1>1, <1>2 DEF Failed
<1>5. JobsFine
  BY <1>3, <1>4, ReturnedShape, DoFine
<1>6. UNCHANGED <<handoff, phase, crashes, setup, asks, copies, senders, held>>
  BY QueueKept DEF Failed
<1>7. AgentTypes'
  BY DEF IInv, TypeOK, AgentTypes, Failed
<1>8. QueueTypes'
  BY DEF IInv, TypeOK, QueueTypes, Failed, Out, InState
<1>9. StoreFine /\ ItemsFine
  BY StoreKept DEF Failed
<1> QED BY <1>5, <1>6, <1>7, <1>8, <1>9, SendersKept, HeldKept, HostKept, Plain

LEMMA JobStepKeeps ==
    ASSUME IInv, NEW th \in Threads, JobStep(th)
    PROVE  IInv'
BY ReadIdleKeeps, PickKeeps, SendKeeps, HandOverKeeps, LoseKeeps, LookKeeps, SettledKeeps,
   FailedKeeps DEF JobStep, PumpStep

-----------------------------------------------------------------------------
(* Requests.                                                               *)

(* An event that all the messages get, or some of them.                    *)
LEMMA ManyStep ==
    ASSUME IInv, NEW e \in Events, NEW S \in SUBSET Items
    PROVE  /\ [i \in Items |-> IF i \in S THEN Step(items[i], e) ELSE items[i]]
                 \in [Items -> Delivery]
           /\ \A i \in Items : e \notin BackEvents =>
                 Onward(items[i], IF i \in S THEN Step(items[i], e) ELSE items[i])
<1>1. ASSUME NEW i \in Items
      PROVE  /\ Step(items[i], e) \in Delivery /\ items[i] \in Delivery
             /\ e \notin BackEvents => Onward(items[i], Step(items[i], e))
             /\ Onward(items[i], items[i])
  BY ItemTypes, StepTypes, OnwardSelf
<1>2. \A i \in Items : e \notin BackEvents =>
                 Onward(items[i], IF i \in S THEN Step(items[i], e) ELSE items[i])
  BY <1>1
<1> QED BY <1>1, <1>2

LEMMA PauseFine ==
    ASSUME IInv, Pause
    PROVE  StoreFine /\ ItemsFine
<1> DEFINE new == [i \in Items |-> Step(items[i], "stop")]
<1>1. ASSUME NEW i \in Items
      PROVE  Step(items[i], "stop") \in Delivery /\ Onward(items[i], Step(items[i], "stop"))
  BY ItemTypes, StepTypes DEF Events, BackEvents
<1>2. new \in [Items -> Delivery] /\ \A i \in Items : Onward(items[i], new[i])
  BY <1>1
<1>3. Save(new)
  BY DEF Pause
<1> QED BY <1>2, <1>3, SaveOnward

LEMMA StopKeeps ==
    ASSUME IInv, Stop
    PROVE  IInv'
BY PauseFine, JobsKept, Inside DEF Stop

LEMMA CancelKeeps ==
    ASSUME IInv, NEW c \in Callers, Cancel(c)
    PROVE  IInv'
<1>1. StoreFine /\ ItemsFine /\ c \in Threads
  BY PauseFine, ItemTypes DEF Cancel
<1>2. JobsFine
  BY <1>1, JobShapes, DoFine DEF Cancel
<1>3. /\ QueueTypes' /\ UNCHANGED <<handoff, phase, crashes, setup, asks, copies, senders, held>>
  BY QueueKept DEF Cancel
<1>4. AgentTypes'
  BY DEF IInv, TypeOK, AgentTypes, Cancel
<1> QED BY <1>1, <1>2, <1>3, <1>4, SendersKept, HeldKept, HostKept, Plain

LEMMA CloseSessionKeeps ==
    ASSUME IInv, CloseSession
    PROVE  IInv'
<1>1. StoreFine /\ ItemsFine /\ JobsFine
  BY StoreKept, JobsKept DEF CloseSession
<1>2. /\ QueueTypes' /\ UNCHANGED <<handoff, phase, crashes, setup, asks, copies, senders, held>>
  BY QueueKept DEF CloseSession
<1>3. AgentTypes'
  BY DEF IInv, TypeOK, AgentTypes, CloseSession
<1> QED BY <1>1, <1>2, <1>3, SendersKept, HeldKept, HostKept, Plain

LEMMA ActKeeps ==
    ASSUME IInv, NEW c \in Callers, NEW i \in Items, NEW e \in {"resume", "discard", "resend"},
           Act(c, i, e)
    PROVE  IInv'
<1>1. /\ Change(i, e) /\ c \in Threads /\ senders' = senders
      /\ Do(c, IF e # "discard" THEN Pumping ELSE Off)
  BY ItemTypes DEF Act
<1>2. JobsFine
  BY <1>1, JobShapes, DoFine
<1>3. /\ QueueTypes' /\ AgentTypes' /\ held' = held /\ copies' = copies
      /\ UNCHANGED <<handoff, phase, crashes, setup>>
  BY QueueKept DEF Act
<1>4. SendersFine /\ HeldFine /\ Kept
  BY <1>1, <1>3, SendersKept, HeldKept, HostKept
<1>5. CASE e = "discard"
  <2>1. StoreFine /\ ItemsFine
    BY <1>1, <1>5, ChangeTypes DEF Events, BackEvents
  <2>2. asks' = asks
    BY <1>5 DEF Act
  <2> QED BY <1>2, <1>3, <1>4, <2>1, <2>2, Plain
<1>6. CASE e # "discard"
  <2>1. /\ StoreFine /\ SamePlaces
        /\ \A j \in Items \ {i} : items'[j] = items[j]
    BY <1>1, ChangeTypes DEF Events
  <2>2. PICK one \in {0, 1} : one = 1
    OBVIOUS
  <2>3. asks' = [asks EXCEPT ![i] = @ + one] /\ asks[i] < setup.asks
    BY <1>6, <2>2 DEF Act
  <2>4. asks[i] \in Nat /\ setup.asks \in Nat
    BY DeliveryAssumption DEF IInv, TypeOK
  <2>5. asks[i] + one <= setup.asks
    BY <2>2, <2>3, <2>4
  <2>6. Attempts(i)' + 1 <= Attempts(i) + one
    <3>1. /\ IsFiniteSet(Handing(i)) /\ Cardinality(Handing(i)) \in Nat
          /\ Cardinality(Calling(i)) \in Nat /\ Cardinality(Unread(i)) \in Nat
      BY Places DEF IInv
    <3>2. Cardinality(Handing(i)') \in Nat /\ Cardinality(Handing(i)') <= Cardinality(Handing(i))
      BY <1>2, <3>1, Fewer DEF JobsFine
    <3> QED BY <1>4, <2>2, <3>1, <3>2 DEF SendersFine, HeldFine, NotMore, Attempts
  <2>7. \A j \in Items \ {i} : Onward(items[j], items'[j])
    BY <2>1, OnwardSelf
  <2> QED BY <1>2, <1>3, <1>4, <2>1, <2>3, <2>5, <2>6, <2>7, GoesBack
<1> QED BY <1>5, <1>6

(* A new message goes behind all the others.                               *)
LEMMA EnqueueKeeps ==
    ASSUME IInv, NEW c \in Callers, NEW i \in Items, NEW class \in Classes,
           Enqueue(c, i, class)
    PROVE  IInv'
<1>1. PICK at \in AtEnd :
        Save([[j \in Items |-> Step(items[j], "retry")] EXCEPT
                ![i] = [AbsentDelivery EXCEPT !.state = "waiting", !.class = class, !.at = at]])
  BY DEF Enqueue
<1>2. \A j \in Items : items[j] \in Delivery /\ items[j].at \in Nat
  BY ItemTypes DEF Delivery
<1>3. at \in Nat /\ \A j \in Items : items[j].at < at
  <2>1. PICK x \in Items : at = items[x].at + 1 /\ \A y \in Items : items[y].at <= items[x].at
    BY DEF AtEnd
  <2> QED BY <1>2, <2>1
<1>4. PICK d : d = [AbsentDelivery EXCEPT !.state = "waiting", !.class = class, !.at = at]
  OBVIOUS
<1>5. d \in Delivery /\ d.state = "waiting" /\ d.at = at
  BY <1>3, <1>4 DEF AbsentDelivery, Delivery, States, Reasons
<1>6. ASSUME NEW j \in Items
      PROVE  /\ Step(items[j], "retry") \in Delivery
             /\ Onward(items[j], Step(items[j], "retry"))
  BY <1>2, StepTypes DEF Events, BackEvents
<1> DEFINE new == [[j \in Items |-> Step(items[j], "retry")] EXCEPT ![i] = d]
<1>7. /\ new \in [Items -> Delivery] /\ new[i] = d
      /\ \A j \in Items \ {i} : new[j] = Step(items[j], "retry")
  BY <1>5, <1>6
<1>8. Save(new)
  BY <1>1, <1>4
<1> HIDE DEF new
<1>9. StoreFine /\ items' = new
  BY <1>7, <1>8, SaveFine
<1>10. \A j \in Items \ {i} : Onward(items[j], items'[j])
  BY <1>6, <1>7, <1>9
<1>11. JobsFine
  BY ItemTypes, JobShapes, DoFine DEF Enqueue
<1>12. /\ QueueTypes' /\ AgentTypes' /\ held' = held /\ copies' = copies /\ senders' = senders
       /\ UNCHANGED <<handoff, phase, crashes, setup, asks>>
  BY QueueKept DEF Enqueue
<1>13. SendersFine /\ HeldFine /\ Kept
  BY <1>12, SendersKept, HeldKept, HostKept
<1>14. ASSUME Sound
       PROVE  PlacesDiffer'
  <2>1. PlacesDiffer
    BY <1>14 DEF IInv
  <2>2. \A j \in Items \ {i} : /\ items'[j].at = items[j].at
                               /\ items'[j].state = "absent" <=> items[j].state = "absent"
    BY <1>10 DEF Onward
  <2>3. items'[i].at = at /\ items'[i].at > 0
    <3>1. items[i].at \in Nat /\ items[i].at < at
      BY <1>2, <1>3
    <3> QED BY <1>3, <1>5, <1>7, <1>9, <3>1
  <2>4. \A j \in Items : items'[j].state # "absent" => items'[j].at > 0
    BY <2>1, <2>2, <2>3 DEF PlacesDiffer
  <2>5. ASSUME NEW x \in Items, NEW y \in Items, x # y
        PROVE  items'[x].at # items'[y].at \/ items'[x].at = 0
    <3>1. CASE x = i
      BY <1>2, <1>3, <2>2, <2>3, <2>5, <3>1
    <3>2. CASE y = i
      BY <1>2, <1>3, <2>2, <2>3, <2>5, <3>2
    <3>3. CASE x # i /\ y # i
      BY <2>1, <2>2, <2>5, <3>3 DEF PlacesDiffer
    <3> QED BY <3>1, <3>2, <3>3
  <2> QED BY <2>4, <2>5 DEF PlacesDiffer
<1>15. ASSUME Sound, NEW j \in Items
       PROVE  Counted(j)'
  <2>1. /\ NotMore(Cardinality(Calling(j)'), Cardinality(Calling(j)))
        /\ NotMore(Cardinality(Unread(j)'), Cardinality(Unread(j)))
        /\ Handing(j)' \subseteq Handing(j)
    BY <1>11, <1>13 DEF JobsFine, SendersFine, HeldFine
  <2>2. CASE j # i
    BY <1>10, <1>12, <1>15, <2>1, <2>2, CountKept
  <2>3. CASE j = i
    <3>1. Spent(items[i]) = 0 /\ Spent(items'[i]) = 0
      BY <1>5, <1>7, <1>9 DEF Spent, Enqueue
    <3>2. copies'[i] \in Nat /\ asks'[i] \in Nat /\ copies'[i] = copies[i] /\ asks'[i] = asks[i]
      BY <1>12 DEF IInv, TypeOK
    <3>3. /\ IsFiniteSet(Handing(i)) /\ Cardinality(Handing(i)) \in Nat
          /\ Cardinality(Calling(i)) \in Nat /\ Cardinality(Unread(i)) \in Nat
      BY Places DEF IInv
    <3>4. Cardinality(Handing(i)') \in Nat /\ Cardinality(Handing(i)') <= Cardinality(Handing(i))
      BY <2>1, <2>3, <3>3, Fewer
    <3>5. Attempts(i)' \in Nat /\ Attempts(i) \in Nat /\ Attempts(i)' <= Attempts(i)
      BY <2>1, <2>3, <3>3, <3>4 DEF NotMore, Attempts
    <3> QED BY <1>15, <2>3, <3>1, <3>2, <3>5, Tally
  <2> QED BY <2>2, <2>3
<1>16. /\ copies' \in [Items -> Nat] /\ asks' \in [Items -> Nat]
       /\ \A j \in Items : asks'[j] <= setup.asks
  BY <1>12 DEF IInv, TypeOK
<1> QED BY <1>9, <1>11, <1>13, <1>14, <1>15, <1>16, Counts DEF JobsFine, SendersFine, HeldFine

LEMMA RequestKeeps ==
    ASSUME IInv, Request
    PROVE  IInv'
BY EnqueueKeeps, ActKeeps, CancelKeeps, StopKeeps, CloseSessionKeeps DEF Request

-----------------------------------------------------------------------------
(* The driver.                                                             *)
LEMMA AnnouncedFine ==
    ASSUME IInv
    PROVE  /\ Announced \in [Items -> Delivery]
           /\ \A i \in Items : Onward(items[i], Announced[i])
           /\ AfterBeginTurn \in [Items -> Delivery]
           /\ \A i \in Items : Onward(items[i], AfterBeginTurn[i])
<1>1. PICK S \in SUBSET Items : S = Proved
  BY DEF Proved, InState
<1>2. Announced = [i \in Items |-> IF i \in S THEN Step(items[i], "turn_started") ELSE items[i]]
  BY <1>1 DEF Announced
<1>3. /\ Announced \in [Items -> Delivery]
      /\ \A i \in Items : Onward(items[i], Announced[i])
  BY <1>2, ManyStep DEF Events, BackEvents
<1>4. items \in [Items -> Delivery] /\ \A i \in Items : Onward(items[i], items[i])
  BY ItemTypes, OnwardSelf
<1> QED BY <1>3, <1>4 DEF AfterBeginTurn

(* A receipt for the message the driver held, after an announcement or not. *)
LEMMA ReceiptFine ==
    ASSUME IInv, NEW h \in held, NEW e \in Events, NEW base \in [Items -> Delivery],
           \A i \in Items : Onward(items[i], base[i]),
           Save([base EXCEPT ![h.item] = Receipt(@, h, e)])
    PROVE  /\ StoreFine /\ SamePlaces
           /\ \A j \in Items \ {h.item} : Onward(items[j], items'[j])
           /\ e \notin BackEvents => ItemsFine
<1>1. PICK i \in Items : i = h.item
  BY DEF IInv, TypeOK, Held
<1>2. PICK d : d = Receipt(base[i], h, e)
  OBVIOUS
<1>3. /\ d \in Delivery /\ d.at = base[i].at /\ (d.state = "absent" <=> base[i].state = "absent")
      /\ e \notin BackEvents => Onward(base[i], d)
  <2>1. CASE h.named
    BY <1>2, <2>1, StepTypes DEF Receipt
  <2>2. CASE ~h.named
    BY <1>2, <2>2, OnwardSelf DEF Receipt
  <2> QED BY <2>1, <2>2
<1>4. PICK new : new = [base EXCEPT ![i] = d]
  OBVIOUS
<1>5. new \in [Items -> Delivery] /\ new[i] = d /\ \A j \in Items \ {i} : new[j] = base[j]
  BY <1>3, <1>4
<1>6. Save(new)
  BY <1>1, <1>2, <1>4
<1>7. StoreFine /\ items' = new
  BY <1>5, <1>6, SaveFine
<1>8. \A j \in Items \ {i} : Onward(items[j], items'[j])
  BY <1>5, <1>7
<1>9. Onward(items[i], base[i])
  OBVIOUS
<1>10. SamePlaces
  BY <1>3, <1>5, <1>7, <1>8, <1>9 DEF SamePlaces, Onward
<1>11. e \notin BackEvents => ItemsFine
  BY <1>3, <1>5, <1>7, <1>8, <1>9, OnwardTwice DEF ItemsFine
<1> QED BY <1>1, <1>7, <1>8, <1>10, <1>11

LEMMA ReceiptedShape ==
    ASSUME NEW h, NEW status \in {"none", "failed"}
    PROVE  Resting(Receipted(h, status))
<1>1. Resting(PumpingThen(status)) /\ PumpingThen(status) \in Job
  BY JobShapes DEF Resting
<1> QED BY <1>1, ReturnedShape DEF Receipted

(* A message the driver held is taken, or moves on.                        *)
LEMMA HeldMoves ==
    ASSUME IInv, NEW h \in held, NEW stage \in {"written", "read", "steered"},
           held' \subseteq (held \ {h}) \cup {[h EXCEPT !.stage = stage]},
           stage = "written" => h.stage = "queued"
    PROVE  /\ HeldFine
           /\ stage # "written" => Unread(h.item)' \subseteq Unread(h.item) \ {h}
<1>1. h \in Held /\ held \subseteq Held /\ IsFiniteSet(held)
  BY DEF IInv, TypeOK
<1>2. PICK g : g = [h EXCEPT !.stage = stage]
  OBVIOUS
<1>3. g \in Held /\ g.item = h.item /\ g.stage = stage
  BY <1>1, <1>2 DEF Held
<1>4. held' \subseteq (held \ {h}) \cup {g}
  BY <1>2
<1>5. HeldTyped
  BY <1>1, <1>3, <1>4, Swapped DEF HeldTyped
<1>6. \A i \in Items \ {h.item} : Unread(i)' \subseteq Unread(i)
  BY <1>3, <1>4 DEF Unread
<1>7. stage # "written" => Unread(h.item)' \subseteq Unread(h.item) \ {h}
  BY <1>3, <1>4 DEF Unread
<1>8. ASSUME NEW i \in Items
      PROVE  NotMore(Cardinality(Unread(i)'), Cardinality(Unread(i)))
  <2>1. IsFiniteSet(Unread(i))
    BY Places DEF IInv
  <2>2. CASE i # h.item \/ stage # "written"
    <3>1. Unread(i)' \subseteq Unread(i)
      BY <1>6, <1>7, <2>2
    <3> QED BY <2>1, <3>1, Fewer DEF NotMore
  <2>3. CASE i = h.item /\ stage = "written"
    <3>1. h \in Unread(i) /\ Unread(i)' \subseteq (Unread(i) \ {h}) \cup {g}
      BY <1>4, <2>3 DEF Unread
    <3>2. /\ Cardinality(Unread(i)') \in Nat
          /\ Cardinality(Unread(i)') <= Cardinality(Unread(i))
      <4>1. PICK A, B : A = Unread(i) /\ B = Unread(i)'
        OBVIOUS
      <4>2. IsFiniteSet(A) /\ h \in A /\ B \subseteq (A \ {h}) \cup {g}
        BY <2>1, <3>1, <4>1
      <4>3. Cardinality(B) \in Nat /\ Cardinality(B) <= Cardinality(A)
        BY <4>2, Swapped
      <4> QED BY <4>1, <4>3
    <3> QED BY <3>2 DEF NotMore
  <2> QED BY <2>2, <2>3
<1> QED BY <1>5, <1>7, <1>8 DEF HeldFine

LEMMA WritesKeeps ==
    ASSUME IInv, NEW h \in held, Writes(h)
    PROVE  IInv'
<1>1. HeldFine
  BY HeldMoves DEF Writes, Moves, Ready
<1>2. StoreFine /\ ItemsFine
  BY AnnouncedFine, ReceiptFine DEF Writes, Events, BackEvents
<1>3. JobsFine /\ SendersFine
  BY JobsKept, SendersKept DEF Writes
<1>4. /\ turn' = "running" /\ noReceipt' \subseteq noReceipt
      /\ UNCHANGED <<inHand, diedInHand, session, copies, handoff, phase, crashes, asks, setup>>
      /\ owed' = owed + 1
  BY DEF Writes, BeginTurn, hostVars
<1>5. QueueTypes' /\ AgentTypes'
  BY <1>4 DEF IInv, TypeOK, QueueTypes, AgentTypes
<1> QED BY <1>1, <1>2, <1>3, <1>4, <1>5, HostKept, Plain

LEMMA ReadsKeeps ==
    ASSUME IInv, NEW h \in held, Reads(h)
    PROVE  IInv'
<1>1. PICK i \in Items : i = h.item
  BY DEF IInv, TypeOK, Held
<1>2. HeldFine /\ Unread(i)' \subseteq Unread(i) \ {h}
  BY <1>1, HeldMoves DEF Reads, Moves
<1>3. h \in Unread(i)
  BY <1>1 DEF Reads, Ready, Unread
<1>4. StoreFine /\ ItemsFine
  <2>1. CASE Agent = "omp"
    BY <2>1, AnnouncedFine, SaveOnward DEF Reads
  <2>2. CASE Agent # "omp"
    BY <2>2, StoreKept DEF Reads
  <2> QED BY <2>1, <2>2
<1>5. JobsFine /\ SendersFine
  BY JobsKept, SendersKept DEF Reads
<1>6. /\ turn' = "running" \/ turn' = turn
      /\ noReceipt' \subseteq noReceipt
      /\ UNCHANGED <<inHand, diedInHand, session, owed, handoff, phase, crashes, asks, setup>>
      /\ copies' = [copies EXCEPT ![i] = @ + 1]
  BY <1>1 DEF Reads, BeginTurn, hostVars, Arrives
<1>7. QueueTypes' /\ AgentTypes'
  BY <1>6 DEF IInv, TypeOK, QueueTypes, AgentTypes
<1>8. Kept
  BY <1>6, <1>7, HostKept
<1>9. /\ copies \in [Items -> Nat] /\ copies' \in [Items -> Nat] /\ copies'[i] = copies[i] + 1
      /\ \A j \in Items \ {i} : copies'[j] = copies[j]
  BY <1>6 DEF IInv, TypeOK
<1>10. ASSUME Sound, NEW j \in Items
       PROVE  Counted(j)'
  <2>1. /\ NotMore(Cardinality(Calling(j)'), Cardinality(Calling(j)))
        /\ NotMore(Cardinality(Unread(j)'), Cardinality(Unread(j)))
        /\ Handing(j)' \subseteq Handing(j)
    BY <1>2, <1>5 DEF JobsFine, SendersFine, HeldFine
  <2>2. CASE j # i
    BY <1>4, <1>6, <1>9, <1>10, <2>1, <2>2, CountKept DEF ItemsFine
  <2>3. CASE j = i
    <3>1. /\ IsFiniteSet(Handing(i)) /\ IsFiniteSet(Unread(i))
          /\ Cardinality(Handing(i)) \in Nat
          /\ Cardinality(Calling(i)) \in Nat /\ Cardinality(Unread(i)) \in Nat
      BY Places DEF IInv
    <3>2. Cardinality(Handing(i)') \in Nat /\ Cardinality(Handing(i)') <= Cardinality(Handing(i))
      BY <2>1, <2>3, <3>1, Fewer
    <3>3. Cardinality(Unread(i)') \in Nat /\ Cardinality(Unread(i)') + 1 <= Cardinality(Unread(i))
      BY <1>2, <1>3, <3>1, OneLess
    <3>4. Attempts(i)' \in Nat /\ Attempts(i) \in Nat /\ Attempts(i)' + 1 <= Attempts(i)
      BY <2>1, <2>3, <3>1, <3>2, <3>3 DEF NotMore, Attempts
    <3>5. copies[i] \in Nat /\ copies'[i] \in Nat /\ asks'[i] \in Nat /\ asks'[i] = asks[i]
      BY <1>6, <1>9 DEF IInv, TypeOK
    <3>6. /\ Spent(items'[i]) >= Spent(items[i])
          /\ Spent(items'[i]) \in Nat /\ Spent(items[i]) \in Nat
      BY <1>4 DEF ItemsFine, Onward, Spent
    <3> QED BY <1>9, <1>10, <2>3, <3>4, <3>5, <3>6, Tally
  <2> QED BY <2>2, <2>3
<1>11. asks' \in [Items -> Nat] /\ \A j \in Items : asks'[j] <= setup.asks
  BY <1>6 DEF IInv, TypeOK
<1> QED BY <1>2, <1>4, <1>5, <1>8, <1>9, <1>10, <1>11, Counts, PlacesKept
           DEF JobsFine, SendersFine, HeldFine

LEMMA AnswersKeeps ==
    ASSUME IInv, NEW h \in held, Answers(h)
    PROVE  IInv'
<1>1. HeldFine
  BY HeldKept DEF Answers
<1>2. StoreFine /\ ItemsFine
  BY ItemTypes, OnwardSelf, ReceiptFine DEF Answers, Events, BackEvents
<1>3. JobsFine /\ SendersFine
  BY ItemTypes, ReceiptedShape, DoFine, SendersKept DEF Answers
<1>4. QueueTypes' /\ UNCHANGED <<owed, session, copies, handoff, phase, crashes, asks, setup>>
  BY QueueKept DEF Answers
<1>5. AgentTypes'
  BY <1>4 DEF IInv, TypeOK, AgentTypes, Answers
<1> QED BY <1>1, <1>2, <1>3, <1>4, <1>5, HostKept, Plain

LEMMA TurnStartedKeeps ==
    ASSUME IInv, TurnStarted
    PROVE  IInv'
<1>1. StoreFine /\ ItemsFine
  BY AnnouncedFine, SaveOnward DEF TurnStarted
<1>2. JobsFine /\ SendersFine /\ HeldFine
  BY JobsKept, SendersKept, HeldKept DEF TurnStarted
<1>3. /\ UNCHANGED <<owed, session, copies, handoff, phase, crashes, asks, setup>>
      /\ UNCHANGED <<inHand, diedInHand>> /\ noReceipt' \subseteq noReceipt /\ turn' = "running"
  BY DEF TurnStarted, hostVars
<1>4. QueueTypes' /\ AgentTypes'
  BY <1>3 DEF IInv, TypeOK, QueueTypes, AgentTypes
<1> QED BY <1>1, <1>2, <1>3, <1>4, HostKept, Plain

LEMMA NextTurnKeeps ==
    ASSUME IInv, NextTurn
    PROVE  IInv'
<1>1. StoreFine /\ ItemsFine
  BY AnnouncedFine, SaveOnward DEF NextTurn
<1>2. JobsFine /\ SendersFine /\ HeldFine
  BY JobsKept, SendersKept, HeldKept DEF NextTurn
<1>3. /\ UNCHANGED <<owed, session, copies, handoff, phase, crashes, asks, setup>>
      /\ UNCHANGED <<inHand, diedInHand>> /\ noReceipt' \subseteq noReceipt /\ turn' = "running"
  BY DEF NextTurn, BeginTurn, hostVars
<1>4. QueueTypes' /\ AgentTypes'
  BY <1>3 DEF IInv, TypeOK, QueueTypes, AgentTypes
<1> QED BY <1>1, <1>2, <1>3, <1>4, HostKept, Plain

LEMMA RejectsKeeps ==
    ASSUME IInv, NEW h \in held, Rejects(h)
    PROVE  IInv'
<1>1. PICK i \in Items : i = h.item
  BY DEF IInv, TypeOK, Held
<1>2. held' = held \ {h}
  BY DEF Rejects
<1>3. HeldFine
  BY <1>2, HeldKept
<1>4. /\ StoreFine /\ SamePlaces
      /\ \A j \in Items \ {i} : Onward(items[j], items'[j])
  <2>1. CASE Save([items EXCEPT ![h.item] = Receipt(@, h, "rejected")])
    BY <1>1, <2>1, ItemTypes, OnwardSelf, ReceiptFine DEF Events
  <2>2. CASE Save([Announced EXCEPT ![h.item] = Receipt(@, h, "rejected")])
    BY <1>1, <2>2, AnnouncedFine, ReceiptFine DEF Events
  <2> QED BY <2>1, <2>2 DEF Rejects
<1>5. JobsFine /\ SendersFine
  <2>1. JobsFine
    BY ItemTypes, ReceiptedShape, DoFine DEF Rejects
  <2>2. SendersFine
    BY SendersKept DEF Rejects
  <2> QED BY <2>1, <2>2
<1>6. /\ UNCHANGED <<owed, session, copies, handoff, phase, crashes, asks, setup>>
      /\ UNCHANGED <<inHand, diedInHand>> /\ noReceipt' \subseteq noReceipt
      /\ turn' \in {turn, "none", "running"}
  BY DEF Rejects, hostVars
<1>7. QueueTypes' /\ AgentTypes'
  BY <1>6 DEF IInv, TypeOK, QueueTypes, AgentTypes
<1>8. Kept
  BY <1>6, <1>7, HostKept
<1>9. Attempts(i)' + 1 <= Attempts(i)
  <2>1. /\ IsFiniteSet(Unread(i)) /\ IsFiniteSet(Handing(i))
        /\ Cardinality(Handing(i)) \in Nat /\ Cardinality(Calling(i)) \in Nat
        /\ Cardinality(Unread(i)) \in Nat
    BY Places DEF IInv
  <2>2. h \in Unread(i) /\ Unread(i)' \subseteq Unread(i) \ {h}
    BY <1>1, <1>2 DEF Unread, Rejects, Ready
  <2>3. Cardinality(Unread(i)') \in Nat /\ Cardinality(Unread(i)') + 1 <= Cardinality(Unread(i))
    BY <2>1, <2>2, OneLess
  <2>4. Cardinality(Handing(i)') \in Nat /\ Cardinality(Handing(i)') <= Cardinality(Handing(i))
    BY <1>5, <2>1, Fewer DEF JobsFine
  <2> QED BY <1>5, <2>1, <2>3, <2>4 DEF SendersFine, NotMore, Attempts
<1> QED BY <1>3, <1>4, <1>5, <1>6, <1>8, <1>9, AttemptEnds

LEMMA BreaksKeeps ==
    ASSUME IInv, NEW h \in held, Breaks(h)
    PROVE  IInv'
<1>1. HeldFine /\ SendersFine
  BY HeldKept, SendersKept DEF Breaks
<1>2. /\ QueueTypes' /\ turn' \in {turn, "none"}
      /\ UNCHANGED <<owed, session, copies, handoff, phase, crashes, asks, setup>>
  BY QueueKept DEF Breaks
<1>3. AgentTypes'
  BY <1>2 DEF IInv, TypeOK, AgentTypes
<1>4. Kept
  BY <1>2, <1>3, HostKept
<1>5. CASE Agent = "codex"
  <2>1. Do(Driver, [Off EXCEPT !.pc = "failed"]) /\ UNCHANGED storeVars
    BY <1>5 DEF Breaks
  <2>2. JobsFine /\ StoreFine /\ ItemsFine
    BY <2>1, ItemTypes, JobShapes, DoFine, StoreKept
  <2> QED BY <1>1, <1>2, <1>4, <2>2, Plain
<1>6. CASE Agent = "omp"
  <2>1. ~Sound
    BY <1>6 DEF Sound, RefusalIsTrue, Breaks
  <2>2. StoreFine
    BY <1>6, ItemTypes, OnwardSelf, ReceiptFine DEF Breaks, Events
  <2>3. JobsFine
    BY <1>6, ItemTypes, ReceiptedShape, DoFine DEF Breaks
  <2>4. /\ copies' \in [Items -> Nat] /\ asks' \in [Items -> Nat]
        /\ \A j \in Items : asks'[j] <= setup.asks
    BY <1>2 DEF IInv, TypeOK
  <2> QED BY <1>1, <1>4, <2>1, <2>2, <2>3, <2>4, Counts DEF JobsFine, SendersFine, HeldFine
<1> QED BY <1>5, <1>6 DEF Breaks

LEMMA EndsTurnKeeps ==
    ASSUME IInv, NEW status \in {"settled", "failed"}, EndsTurn(status)
    PROVE  IInv'
<1>1. StoreFine /\ ItemsFine
  BY StoreKept DEF EndsTurn
<1>2. JobsFine
  BY ItemTypes, JobShapes, DoFine DEF EndsTurn
<1>3. SendersFine /\ HeldFine
  BY SendersKept, HeldKept DEF EndsTurn
<1>4. QueueTypes' /\ UNCHANGED <<session, copies, handoff, phase, crashes, asks, setup>>
  BY QueueKept DEF EndsTurn
<1>5. AgentTypes'
  BY <1>4 DEF IInv, TypeOK, AgentTypes, EndsTurn
<1> QED BY <1>1, <1>2, <1>3, <1>4, <1>5, HostKept, Plain

LEMMA ExitsKeeps ==
    ASSUME IInv, Exits
    PROVE  IInv'
<1>1. StoreFine /\ ItemsFine
  BY StoreKept DEF Exits
<1>2. JobsFine
  BY ItemTypes, JobShapes, DoFine DEF Exits
<1>3. SendersFine /\ HeldFine
  BY SendersKept, HeldKept DEF Exits
<1>4. QueueTypes' /\ UNCHANGED <<session, copies, handoff, phase, crashes, asks, setup>>
  BY QueueKept DEF Exits
<1>5. AgentTypes'
  BY <1>4 DEF IInv, TypeOK, AgentTypes, Exits
<1> QED BY <1>1, <1>2, <1>3, <1>4, <1>5, HostKept, Plain

LEMMA ClosesKeeps ==
    ASSUME IInv, Closes
    PROVE  IInv'
<1>1. StoreFine /\ ItemsFine
  BY StoreKept DEF Closes
<1>2. JobsFine
  BY ItemTypes, JobShapes, DoFine DEF Closes
<1>3. SendersFine /\ HeldFine
  BY SendersKept, HeldKept DEF Closes
<1>4. QueueTypes' /\ UNCHANGED <<copies, handoff, phase, crashes, asks, setup>>
  BY QueueKept DEF Closes
<1>5. AgentTypes'
  BY DEF AgentTypes, Closes
<1> QED BY <1>1, <1>2, <1>3, <1>4, <1>5, HostKept, Plain

LEMMA DriverEventKeeps ==
    ASSUME IInv, DriverEvent
    PROVE  IInv'
BY WritesKeeps, AnswersKeeps, RejectsKeeps, BreaksKeeps, EndsTurnKeeps, TurnStartedKeeps,
   NextTurnKeeps, ExitsKeeps, ClosesKeeps DEF DriverEvent

-----------------------------------------------------------------------------
(* The host.                                                               *)

(* Nothing of an attempt outlives the host but what the row says of it.    *)
LEMMA CrashKeeps ==
    ASSUME IInv, Crash
    PROVE  IInv'
<1>1. StoreFine
  BY DEF IInv, TypeOK, StoreFine, Crash
<1>2. /\ jobs' = [th \in Threads |-> Off] /\ senders' = {} /\ held' = {}
      /\ UNCHANGED <<copies, asks, setup, handoff>>
  BY DEF Crash
<1>3. JobsTyped
  BY <1>2, JobShapes DEF JobsTyped, Resting, TakesOne
<1>4. SendersTyped /\ HeldTyped
  BY <1>2, FS_EmptySet DEF SendersTyped, HeldTyped
<1>5. QueueTypes' /\ AgentTypes'
  BY DEF QueueTypes, AgentTypes, Crash
<1>6. crashes \in Nat /\ crashes' = crashes + 1
  BY DEF IInv, TypeOK, Crash
<1>7. Kept
  BY <1>2, <1>5, <1>6 DEF IInv, TypeOK, Kept, HostTypes, Crash
<1>8. ASSUME Sound'
      PROVE  items' = items
  <2>1. faults' = 0
    BY <1>6, <1>8 DEF Sound, NoRowIsStale
  <2> QED BY <2>1 DEF IInv, Crash
<1>9. ASSUME Sound, Sound'
      PROVE  PlacesDiffer'
  BY <1>8, <1>9 DEF IInv, PlacesDiffer
<1>10. ASSUME Sound, Sound', NEW i \in Items
       PROVE  Counted(i)'
  <2>1. Handing(i)' \subseteq Handing(i) /\ Calling(i)' \subseteq Calling(i)
        /\ Unread(i)' \subseteq Unread(i)
    <3>1. \A th \in Threads : jobs'[th].pc # "hand"
      BY <1>2, JobShapes DEF Resting
    <3> QED BY <1>2, <3>1 DEF Handing, Calling, Unread, Threads
  <2>2. IsFiniteSet(Calling(i)) /\ IsFiniteSet(Unread(i))
    BY Places DEF IInv
  <2>3. /\ NotMore(Cardinality(Calling(i)'), Cardinality(Calling(i)))
        /\ NotMore(Cardinality(Unread(i)'), Cardinality(Unread(i)))
    BY <2>1, <2>2, Fewer DEF NotMore
  <2>4. Onward(items[i], items'[i])
    BY <1>8, <1>10, OnwardSelf
  <2> QED BY <1>2, <1>10, <2>1, <2>3, <2>4, CountKept
<1>11. /\ copies' \in [Items -> Nat] /\ asks' \in [Items -> Nat]
       /\ \A j \in Items : asks'[j] <= setup.asks
  BY <1>2 DEF IInv, TypeOK
<1> QED BY <1>1, <1>3, <1>4, <1>7, <1>9, <1>10, <1>11, Counts

LEMMA ReopenKeeps ==
    ASSUME IInv, Reopen
    PROVE  IInv'
<1>1. ASSUME NEW d \in Delivery
      PROVE  Reopened(d) \in Delivery /\ Onward(d, Reopened(d))
  <2>1. PICK e : e = Step(d, "cut_off")
    OBVIOUS
  <2>2. e \in Delivery /\ Onward(d, e)
    BY <1>1, <2>1, StepTypes DEF Events, BackEvents
  <2>3. Step(e, "restarted") \in Delivery /\ Onward(e, Step(e, "restarted"))
    BY <2>2, StepTypes DEF Events, BackEvents
  <2>4. Onward(d, Step(e, "restarted"))
    BY <2>2, <2>3, OnwardTwice
  <2> QED BY <2>1, <2>2, <2>3, <2>4 DEF Reopened
<1> DEFINE new == [i \in Items |-> Reopened(items[i])]
<1>2. new \in [Items -> Delivery] /\ \A i \in Items : Onward(items[i], new[i])
  BY <1>1, ItemTypes
<1>3. Save(new)
  BY DEF Reopen
<1>4. StoreFine /\ ItemsFine
  BY <1>2, <1>3, SaveOnward
<1>5. PICK T \in SUBSET Items : Do(Driver, [Off EXCEPT !.pc = "recheck", !.todo = T])
  BY DEF Reopen
<1>6. JobsFine
  BY <1>5, ItemTypes, JobShapes, DoFine
<1>7. /\ QueueTypes' /\ AgentTypes' /\ held' = held /\ copies' = copies
      /\ senders' = senders /\ phase' = "boot"
      /\ UNCHANGED <<handoff, crashes, asks, setup>>
  BY QueueKept DEF Reopen
<1>8. Kept
  BY <1>7 DEF IInv, TypeOK, Kept, HostTypes
<1> QED BY <1>4, <1>6, <1>7, <1>8, SendersKept, HeldKept, Plain

LEMMA RecheckKeeps ==
    ASSUME IInv, Recheck
    PROVE  IInv'
<1>1. /\ QueueTypes' /\ AgentTypes' /\ held' = held /\ copies' = copies
      /\ senders' = senders /\ phase' \in {phase, "up"}
      /\ UNCHANGED <<handoff, crashes, asks, setup>>
  BY QueueKept DEF Recheck
<1>2. Kept
  BY <1>1 DEF IInv, TypeOK, Kept, HostTypes
<1>3. JobsFine /\ StoreFine /\ ItemsFine
  <2>1. CASE /\ Do(Driver, IF InState("waiting") # {} THEN Pumping ELSE Off)
             /\ UNCHANGED storeVars
    BY <2>1, ItemTypes, JobShapes, DoFine, StoreKept
  <2>2. CASE \E i \in jobs[Driver].todo :
                /\ Lookup(i)
                /\ Do(Driver, [jobs[Driver] EXCEPT !.todo = @ \ {i}])
    <3>1. PICK i \in jobs[Driver].todo :
                /\ Lookup(i)
                /\ Do(Driver, [jobs[Driver] EXCEPT !.todo = @ \ {i}])
      BY <2>2
    <3>2. jobs[Driver] \in Job /\ i \in Items /\ jobs[Driver].pc = "recheck"
      BY ItemTypes DEF Job, Recheck
    <3>3. Resting([jobs[Driver] EXCEPT !.todo = @ \ {i}])
      BY <3>2 DEF Resting, Job
    <3> QED BY <3>1, <3>2, <3>3, LookupFine, ItemTypes, DoFine
  <2> QED BY <2>1, <2>2 DEF Recheck
<1> QED BY <1>1, <1>2, <1>3, SendersKept, HeldKept, Plain

-----------------------------------------------------------------------------
LEMMA InitIInv == Init => IInv
<1> SUFFICES ASSUME Init PROVE IInv
  OBVIOUS
<1>1. TypeOK
  <2>1. AbsentDelivery \in Delivery
    BY DEF AbsentDelivery, Delivery, Classes, Reasons
  <2>2. items \in [Items -> Delivery] /\ disk \in [Items -> Delivery]
    BY <2>1 DEF Init
  <2>3. jobs \in [Threads -> Job]
    BY JobShapes DEF Init, Resting
  <2>4. handoff \in BOOLEAN
    BY DEF Init
  <2>5. owed \in Nat /\ turn \in {"none", "begun", "running", "ending"}
    BY DEF Init
  <2>6. session \in {"none", "open", "closing"}
    BY DEF Init
  <2> QED BY <2>2, <2>3, <2>4, <2>5, <2>6 DEF Init, TypeOK
<1>2. setup \in Setups /\ setup.asks \in Nat
  BY DeliveryAssumption DEF Init
<1>3. IsFiniteSet(held) /\ IsFiniteSet(senders)
  BY FS_EmptySet DEF Init
<1>4. \A i \in Items : asks[i] <= setup.asks
  BY <1>2 DEF Init
<1>5. disk = items
  BY DEF Init
<1>6. PlacesDiffer
  BY DEF Init, PlacesDiffer, AbsentDelivery
<1>7. \A th \in Threads : jobs[th].pc \notin {"send", "hand"}
  BY JobShapes DEF Init, Resting
<1>8. ASSUME NEW i \in Items
      PROVE  Counted(i)
  <2>1. Handing(i) = {} /\ Calling(i) = {} /\ Unread(i) = {}
    BY <1>7 DEF Handing, Calling, Unread, Init
  <2>2. Attempts(i) = 0
    BY <2>1, FS_EmptySet DEF Attempts
  <2>3. copies[i] = 0 /\ asks[i] = 0 /\ Spent(items[i]) \in Nat
    BY DEF Init, Spent
  <2> QED BY <2>2, <2>3 DEF Counted
<1> QED BY <1>1, <1>2, <1>3, <1>4, <1>5, <1>6, <1>7, <1>8 DEF IInv, TakesOne

LEMMA NextIInv == IInv /\ [Next]_vars => IInv'
<1> SUFFICES ASSUME IInv, [Next]_vars PROVE IInv'
  OBVIOUS
<1>1. CASE Request
  BY <1>1, RequestKeeps
<1>2. ASSUME NEW th \in Threads, JobStep(th) PROVE IInv'
  BY <1>2, JobStepKeeps
<1>3. ASSUME NEW s \in senders,
             \/ SendReaches(s) \/ SendErrs(s) \/ SendBack(s)
             \/ \E c \in Callers : SendSettles(s, c)
      PROVE  IInv'
  BY <1>3, SendReachesKeeps, SendErrsKeeps, SendBackKeeps, SendSettlesKeeps
<1>4. ASSUME NEW i \in Items, NEW c \in Callers, Timeout(i, c) PROVE IInv'
  BY <1>4, TimeoutKeeps
<1>5. ASSUME NEW h \in held, Reads(h) PROVE IInv'
  BY <1>5, ReadsKeeps
<1>6. CASE DriverEvent
  BY <1>6, DriverEventKeeps
<1>7. CASE Crash \/ Reopen \/ Recheck
  BY <1>7, CrashKeeps, ReopenKeeps, RecheckKeeps
<1>8. CASE UNCHANGED vars
  <2>1. /\ UNCHANGED <<storeVars, jobs, senders, queueVars, agentVars, hostVars>>
    BY <1>8 DEF vars
  <2> QED BY <2>1, StoreKept, JobsKept, Inside
<1> QED BY <1>1, <1>2, <1>3, <1>4, <1>5, <1>6, <1>7, <1>8 DEF Next

(* The inductive invariant: in every reachable state the attempts at each   *)
(* message (in the pumps of delivery/mod.rs, in its senders' threads, in    *)
(* the driver's queue) and the copies that arrived are paid for.            *)
THEOREM AlwaysIInv == Spec => []IInv
BY InitIInv, NextIInv, PTL DEF Spec

(* The store, the threads of the queue, the driver's commands and the       *)
(* counters keep their shape, whatever is lost, refused or cut off.         *)
THEOREM AlwaysTypeOK == Spec => []TypeOK
<1>1. IInv => TypeOK
  BY DEF IInv
<1> QED BY <1>1, AlwaysIInv, PTL

(* The queue never sends on its own what may have arrived (`pump`, `lose`,  *)
(* `settle` and the retry of `enqueue`), as long as no row failed to be     *)
(* written before the host died and omp does not take its process's death   *)
(* for a refusal.                                                           *)
THEOREM AlwaysOneCopyUnlessAsked == Spec => [](Sound => OneCopyUnlessAsked)
<1>1. IInv => (Sound => OneCopyUnlessAsked)
  <2> SUFFICES ASSUME IInv, Sound, NEW i \in Items
               PROVE  copies[i] <= 1 + asks[i]
    BY DEF OneCopyUnlessAsked
  <2>1. copies[i] + Attempts(i) <= asks[i] + Spent(items[i])
    BY DEF IInv, Counted
  <2>2. copies[i] \in Nat /\ asks[i] \in Nat
    BY DEF IInv, TypeOK
  <2>3. Attempts(i) \in Nat
    BY Places DEF IInv, Attempts
  <2>4. Spent(items[i]) \in {0, 1}
    BY DEF Spent
  <2> QED BY <2>1, <2>2, <2>3, <2>4
<1> QED BY <1>1, AlwaysIInv, PTL

(* What the queue calls failed, and sends again with the next message, is   *)
(* not with the agent, under the same two conditions.                       *)
THEOREM AlwaysFailedDidNotArrive == Spec => [](Sound => FailedDidNotArrive)
<1>1. IInv => (Sound => FailedDidNotArrive)
  <2> SUFFICES ASSUME IInv, Sound, setup.asks = 0, NEW i \in InState("failed")
               PROVE  copies[i] = 0
    BY DEF FailedDidNotArrive
  <2>1. i \in Items /\ items[i].state = "failed"
    BY DEF InState
  <2>2. copies[i] + Attempts(i) <= asks[i] + Spent(items[i]) /\ asks[i] <= 0
    BY <2>1 DEF IInv, Counted
  <2>3. copies[i] \in Nat /\ asks[i] \in Nat
    BY <2>1 DEF IInv, TypeOK
  <2>4. Attempts(i) \in Nat
    BY Places DEF IInv, Attempts
  <2>5. Spent(items[i]) = 0
    BY <2>1 DEF Spent
  <2> QED BY <2>2, <2>3, <2>4, <2>5
<1> QED BY <1>1, AlwaysIInv, PTL

-----------------------------------------------------------------------------
(* Where no run starts with a handoff every message has its receipt, and    *)
(* the turn of another proves nothing.  What is said to be delivered, in    *)
(* memory or on disk, was read.                                             *)
HasReceipts ==
    ~handoff /\ noReceipt = {} /\ \A s \in senders : s.pc \notin {"quiet", "took"}
StoreTrue ==
    \A i \in Items : items[i].state = "delivered" \/ disk[i].state = "delivered" => copies[i] > 0
ReadIsThere == \A h \in held : h.stage \in {"read", "steered"} => copies[h.item] > 0
Plainly == "quiet" \notin Features
Truth == HasReceipts /\ StoreTrue /\ ReadIsThere
ArrivedInv == Plainly => Truth

Proofs == {"delivered", "turn_started", "recorded"}

LEMMA OnlyProofs ==
    ASSUME NEW d \in Delivery, NEW e \in Events \ Proofs, Step(d, e).state = "delivered"
    PROVE  d.state = "delivered"
<1>1. Rules[e].to # "delivered"
  BY DEF Events, Proofs, Rules, Rule
<1> QED BY <1>1, StepTypes

LEMMA SavedTrue ==
    ASSUME IInv, StoreTrue, NEW new \in [Items -> Delivery], Save(new),
           copies' \in [Items -> Nat], \A i \in Items : copies'[i] >= copies[i],
           \A i \in Items : new[i].state = "delivered" => copies'[i] > 0
    PROVE  StoreTrue'
<1>1. copies \in [Items -> Nat]
  BY DEF IInv, TypeOK
<1> SUFFICES ASSUME NEW i \in Items, items'[i].state = "delivered" \/ disk'[i].state = "delivered"
             PROVE  copies'[i] > 0
  BY DEF StoreTrue
<1>2. items'[i] = new[i] /\ disk'[i] \in {new[i], disk[i]}
  BY DEF Save
<1>3. disk[i].state = "delivered" => copies[i] > 0
  BY DEF StoreTrue
<1> QED BY <1>1, <1>2, <1>3

LEMMA ChangedTrue ==
    ASSUME IInv, StoreTrue, NEW i \in Items, NEW e \in Events, Change(i, e),
           UNCHANGED copies, e \in Proofs => copies[i] > 0
    PROVE  StoreTrue'
<1>1. items \in [Items -> Delivery] /\ items[i] \in Delivery /\ copies \in [Items -> Nat]
  BY DEF IInv, TypeOK
<1> DEFINE new == [items EXCEPT ![i] = Step(items[i], e)]
<1>2. new \in [Items -> Delivery] /\ new[i] = Step(items[i], e)
      /\ \A j \in Items \ {i} : new[j] = items[j]
  BY <1>1, StepTypes
<1>3. Save(new)
  BY DEF Change
<1> HIDE DEF new
<1>4. ASSUME NEW j \in Items, new[j].state = "delivered"
      PROVE  copies'[j] > 0
  <2>1. CASE j = i /\ e \in Proofs
    BY <2>1
  <2>2. CASE j # i \/ e \notin Proofs
    <3>1. items[j].state = "delivered"
      BY <1>1, <1>2, <1>4, <2>2, OnlyProofs
    <3> QED BY <3>1 DEF StoreTrue
  <2> QED BY <2>1, <2>2
<1> QED BY <1>1, <1>2, <1>3, <1>4, SavedTrue

(* A step that reads nothing.                                               *)
LEMMA HeldTrue ==
    ASSUME ReadIsThere, UNCHANGED copies,
           \A h \in held' : h.stage \in {"read", "steered"} => h \in held
    PROVE  ReadIsThere'
BY DEF ReadIsThere

LEMMA SendersTrue ==
    ASSUME HasReceipts, handoff' => handoff, noReceipt' \subseteq noReceipt,
           \A s \in senders' : s \in senders \/ s.pc \notin {"quiet", "took"}
    PROVE  HasReceipts'
BY DEF HasReceipts

(* The steps of the threads and of the requests.                            *)
LEMMA StillTrue ==
    ASSUME IInv, Truth, StoreTrue', UNCHANGED <<held, handoff, copies>>,
           noReceipt' \subseteq noReceipt, senders' \subseteq senders
    PROVE  Truth'
BY HeldTrue, SendersTrue DEF Truth

LEMMA SameStore ==
    ASSUME StoreTrue, UNCHANGED <<storeVars, copies>>
    PROVE  StoreTrue'
BY DEF StoreTrue, storeVars

LEMMA PumpTrue ==
    ASSUME IInv, Truth, NEW th \in Threads, PumpStep(th)
    PROVE  Truth'
<1>1. CASE ReadIdle(th) \/ Pick(th)
  <2>1. UNCHANGED <<storeVars, senders, held, handoff, copies, noReceipt>>
    BY <1>1 DEF ReadIdle, Pick, queueVars, agentVars, hostVars
  <2> QED BY <2>1, SameStore, StillTrue DEF Truth
<1>2. CASE Send(th)
  <2>1. UNCHANGED <<senders, held, handoff, copies, noReceipt>>
    BY <1>2 DEF Send, queueVars, agentVars, hostVars
  <2>2. PICK i \in jobs[th].item : Change(i, "send")
    BY <1>2 DEF Send
  <2>3. i \in Items
    BY ItemTypes DEF Job
  <2>4. StoreTrue'
    BY <2>1, <2>2, <2>3, ChangedTrue DEF Truth, Events, Proofs
  <2> QED BY <2>1, <2>4, StillTrue
<1>3. CASE HandOver(th)
  <2>1. UNCHANGED <<storeVars, held, handoff, copies, noReceipt>>
    BY <1>3 DEF HandOver, agentVars, hostVars
  <2>2. \A s \in senders' : s \in senders \/ s.pc = "call"
    BY <1>3 DEF HandOver
  <2>3. HasReceipts' /\ ReadIsThere'
    BY <2>1, <2>2, SendersTrue, HeldTrue DEF Truth
  <2> QED BY <2>1, <2>3, SameStore DEF Truth
<1> QED BY <1>1, <1>2, <1>3 DEF PumpStep

(* The record holds the text of a message that arrived.                     *)
LEMMA LookupTrue ==
    ASSUME ~SameText, IInv, StoreTrue, NEW i \in Items, Lookup(i), UNCHANGED copies
    PROVE  StoreTrue'
<1>1. InRecord(i) => copies[i] > 0
  BY DEF InRecord
<1>2. CASE Change(i, "unreadable")
  BY <1>2, ChangedTrue DEF Events, Proofs
<1>3. CASE InRecord(i) /\ Change(i, "recorded")
  BY <1>1, <1>3, ChangedTrue DEF Events
<1>4. CASE Change(i, "unrecorded")
  BY <1>4, ChangedTrue DEF Events, Proofs
<1> QED BY <1>2, <1>3, <1>4 DEF Lookup

LEMMA JobTrue ==
    ASSUME ~SameText, IInv, Truth, NEW th \in Threads, JobStep(th)
    PROVE  Truth'
<1>1. CASE Lose(th)
  <2>1. UNCHANGED <<senders, held, handoff, copies>>
    BY <1>1 DEF Lose, agentVars, hostVars
  <2>2. PICK i \in jobs[th].todo : Change(i, "lost") /\ noReceipt' \subseteq noReceipt
    BY <1>1 DEF Lose
  <2>3. i \in Items
    BY ItemTypes DEF Job
  <2>4. StoreTrue'
    BY <2>1, <2>2, <2>3, ChangedTrue DEF Truth, Events, Proofs
  <2> QED BY <2>1, <2>2, <2>4, StillTrue
<1>2. CASE Look(th)
  <2>1. UNCHANGED <<senders, held, handoff, copies, noReceipt>>
    BY <1>2 DEF Look, queueVars, agentVars, hostVars
  <2>2. PICK i \in jobs[th].item : Lookup(i)
    BY <1>2 DEF Look
  <2>3. i \in Items
    BY ItemTypes DEF Job
  <2>4. StoreTrue'
    BY <2>1, <2>2, <2>3, LookupTrue DEF Truth
  <2> QED BY <2>1, <2>4, StillTrue
<1>3. CASE Settled(th) \/ Failed(th)
  <2>1. UNCHANGED <<storeVars, senders, held, handoff, copies, noReceipt>>
    BY <1>3 DEF Settled, Failed, queueVars, hostVars
  <2> QED BY <2>1, SameStore, StillTrue DEF Truth
<1> QED BY <1>1, <1>2, <1>3, PumpTrue DEF JobStep

LEMMA SenderTrue ==
    ASSUME IInv, Truth, NEW s \in senders,
           \/ SendReaches(s) \/ SendErrs(s) \/ SendBack(s)
           \/ \E c \in Callers : SendSettles(s, c)
    PROVE  Truth'
<1>1. s \in Sender /\ s.item \in Items /\ ~Quiet(s) /\ s.pc \notin {"quiet", "took"}
  BY DEF IInv, TypeOK, Sender, Truth, HasReceipts, Quiet
<1>2. ASSUME NEW pc \in {"ok", "err", "lost", "fail"}
      PROVE  [s EXCEPT !.pc = pc].pc = pc
  BY <1>1 DEF Sender
<1>3. CASE SendReaches(s)
  <2>1. UNCHANGED <<storeVars, copies, noReceipt>> /\ (handoff' => handoff)
    BY <1>3 DEF SendReaches, queueVars, Truth, HasReceipts
  <2>2. \A t \in senders' : t \in senders \/ t.pc = "ok"
    BY <1>1, <1>2, <1>3 DEF SendReaches, Becomes
  <2>3. \A h \in held' : h \in held \/ h.stage = "queued"
    BY <1>3 DEF SendReaches
  <2>4. HasReceipts' /\ ReadIsThere'
    BY <2>1, <2>2, <2>3, SendersTrue, HeldTrue DEF Truth
  <2> QED BY <2>1, <2>4, SameStore DEF Truth
<1>4. CASE SendErrs(s)
  <2>1. UNCHANGED <<storeVars, copies, noReceipt, held>> /\ (handoff' => handoff)
    BY <1>4 DEF SendErrs, queueVars, agentVars, Truth, HasReceipts
  <2>2. \A t \in senders' : t \in senders \/ t.pc = "err"
    BY <1>2, <1>4 DEF SendErrs, Becomes
  <2>3. HasReceipts' /\ ReadIsThere'
    BY <2>1, <2>2, SendersTrue, HeldTrue DEF Truth
  <2> QED BY <2>1, <2>3, SameStore DEF Truth
<1>5. CASE SendBack(s)
  <2>1. UNCHANGED <<storeVars, copies, noReceipt, held, handoff>>
    BY <1>5 DEF SendBack, agentVars, hostVars
  <2>2. \A t \in senders' : t \in senders \/ t.pc \in {"fail", "lost"}
    <3>1. CASE s.pc = "err"
      BY <1>2, <1>5, <3>1 DEF SendBack
    <3>2. CASE s.pc = "ok" /\ s.item \in diedInHand
      BY <1>2, <1>5, <3>2 DEF SendBack
    <3>3. CASE s.pc = "ok" /\ s.item \notin diedInHand
      BY <1>5, <3>3 DEF SendBack
    <3> QED BY <1>1, <1>5, <3>1, <3>2, <3>3 DEF SendBack
  <2>3. HasReceipts' /\ ReadIsThere'
    BY <2>1, <2>2, SendersTrue, HeldTrue DEF Truth
  <2> QED BY <2>1, <2>3, SameStore DEF Truth
<1>6. ASSUME NEW c \in Callers, SendSettles(s, c)
      PROVE  Truth'
  <2>1. UNCHANGED <<copies, held, handoff>> /\ senders' \subseteq senders
    BY <1>6 DEF SendSettles, agentVars, hostVars
  <2>2. noReceipt' = noReceipt
    BY <1>1, <1>6 DEF SendSettles
  <2>3. \/ UNCHANGED storeVars
        \/ Change(s.item, "failed") \/ Change(s.item, "blocked")
    BY <1>1, <1>6 DEF SendSettles
  <2>4. StoreTrue'
    BY <1>1, <2>1, <2>3, SameStore, ChangedTrue DEF Truth, Events, Proofs
  <2> QED BY <2>1, <2>2, <2>4, StillTrue
<1> QED BY <1>3, <1>4, <1>5, <1>6

(* Many rows in one save.                                                   *)
LEMMA ManyTrue ==
    ASSUME IInv, StoreTrue, NEW new \in [Items -> Delivery], Save(new), UNCHANGED copies,
           \A j \in Items : new[j].state = "delivered" => items[j].state = "delivered"
    PROVE  StoreTrue'
<1>1. copies \in [Items -> Nat]
  BY DEF IInv, TypeOK
<1>2. \A j \in Items : new[j].state = "delivered" => copies[j] > 0
  BY DEF StoreTrue
<1> QED BY <1>1, <1>2, SavedTrue

LEMMA PauseTrue ==
    ASSUME IInv, StoreTrue, Pause, UNCHANGED copies
    PROVE  StoreTrue'
<1> DEFINE new == [i \in Items |-> Step(items[i], "stop")]
<1>1. \A j \in Items : new[j] \in Delivery
                       /\ (new[j].state = "delivered" => items[j].state = "delivered")
  BY ItemTypes, StepTypes, OnlyProofs DEF Events, Proofs
<1>2. new \in [Items -> Delivery] /\ Save(new)
  BY <1>1 DEF Pause
<1> HIDE DEF new
<1> QED BY <1>1, <1>2, ManyTrue

LEMMA RequestTrue ==
    ASSUME IInv, Truth, Request
    PROVE  Truth'
<1>1. UNCHANGED <<senders, held, handoff, copies, noReceipt>>
  BY DEF Request, Enqueue, Act, Cancel, Stop, CloseSession, queueVars, agentVars, hostVars
<1>2. ASSUME NEW c \in Callers, NEW i \in Items, NEW class \in Classes, Enqueue(c, i, class)
      PROVE  StoreTrue'
  <2>1. PICK at \in AtEnd :
          Save([[j \in Items |-> Step(items[j], "retry")] EXCEPT
                  ![i] = [AbsentDelivery EXCEPT !.state = "waiting", !.class = class, !.at = at]])
    BY <1>2 DEF Enqueue
  <2>2. at \in Nat
    BY ItemTypes DEF AtEnd, Delivery
  <2>3. PICK d : d = [AbsentDelivery EXCEPT !.state = "waiting", !.class = class, !.at = at]
    OBVIOUS
  <2>4. d \in Delivery /\ d.state = "waiting"
    BY <2>2, <2>3 DEF AbsentDelivery, Delivery, States, Reasons
  <2> DEFINE new == [[j \in Items |-> Step(items[j], "retry")] EXCEPT ![i] = d]
  <2>5. \A j \in Items : /\ Step(items[j], "retry") \in Delivery
                         /\ Step(items[j], "retry").state = "delivered"
                                => items[j].state = "delivered"
    BY ItemTypes, StepTypes, OnlyProofs DEF Events, Proofs
  <2>6. new \in [Items -> Delivery] /\ Save(new)
    BY <2>1, <2>3, <2>4, <2>5
  <2>7. \A j \in Items : new[j].state = "delivered" => items[j].state = "delivered"
    BY <2>4, <2>5
  <2> HIDE DEF new
  <2> QED BY <1>1, <2>6, <2>7, ManyTrue DEF Truth
<1>3. ASSUME NEW c \in Callers, NEW i \in Items, NEW e \in {"resume", "discard", "resend"},
             Act(c, i, e)
      PROVE  StoreTrue'
  BY <1>1, <1>3, ChangedTrue DEF Act, Truth, Events, Proofs
<1>4. ASSUME (\E c \in Callers : Cancel(c)) \/ Stop
      PROVE  StoreTrue'
  BY <1>1, <1>4, PauseTrue DEF Cancel, Stop, Truth
<1>5. CASE CloseSession
  BY <1>1, <1>5, SameStore, StillTrue DEF CloseSession, Truth
<1> QED BY <1>1, <1>2, <1>3, <1>4, <1>5, StillTrue DEF Request

-----------------------------------------------------------------------------
(* The driver and the agent.                                                *)
LEMMA NothingToProve ==
    ASSUME IInv, HasReceipts
    PROVE  Proved = {} /\ Announced = items /\ AfterBeginTurn = items
<1>1. Proved = {}
  BY DEF Proved, HasReceipts
<1>2. items \in [Items -> Delivery]
  BY DEF IInv, TypeOK
<1>3. Announced = items
  BY <1>1, <1>2 DEF Announced
<1> QED BY <1>1, <1>3 DEF AfterBeginTurn

LEMMA SaveItself ==
    ASSUME IInv, StoreTrue, Save(items), UNCHANGED copies
    PROVE  StoreTrue'
BY ItemTypes, ManyTrue

(* The row of one message moves, by a receipt if it is named.               *)
LEMMA ReceiptTrue ==
    ASSUME IInv, StoreTrue, NEW h \in held, NEW e \in Events,
           Save([items EXCEPT ![h.item] = Receipt(@, h, e)]), UNCHANGED copies,
           e \in Proofs => copies[h.item] > 0
    PROVE  StoreTrue'
<1>1. h.item \in Items
  BY DEF IInv, TypeOK, Held
<1>2. CASE h.named
  <2>1. Change(h.item, e)
    BY <1>2 DEF Change, Receipt
  <2> QED BY <1>1, <2>1, ChangedTrue
<1>3. CASE ~h.named
  <2>1. [items EXCEPT ![h.item] = Receipt(@, h, e)] = items
    BY <1>1, <1>3, ItemTypes DEF Receipt
  <2> QED BY <2>1, SaveItself
<1> QED BY <1>2, <1>3

LEMMA ReadsTrue ==
    ASSUME IInv, Truth, NEW h \in held, Reads(h)
    PROVE  Truth'
<1>1. h \in Held /\ h.item \in Items /\ held \subseteq Held
  BY DEF IInv, TypeOK, Held
<1>2. /\ copies \in [Items -> Nat] /\ copies' \in [Items -> Nat] /\ copies'[h.item] > 0
      /\ \A i \in Items : copies'[i] >= copies[i]
  <2>1. copies \in [Items -> Nat] /\ copies' = [copies EXCEPT ![h.item] = copies[h.item] + 1]
    BY DEF IInv, TypeOK, Reads, Arrives
  <2>2. copies[h.item] \in Nat
    BY <1>1, <2>1
  <2> QED BY <1>1, <2>1, <2>2
<1>3. UNCHANGED <<senders, handoff>> /\ noReceipt' \subseteq noReceipt
  BY DEF Reads, BeginTurn, hostVars
<1>4. HasReceipts'
  BY <1>3, SendersTrue DEF Truth
<1>5. StoreTrue'
  <2>1. CASE Agent = "omp"
    <3>1. Save(items)
      BY <2>1, NothingToProve DEF Reads, Truth
    <3>2. \A i \in Items : items[i].state = "delivered" => copies'[i] > 0
      BY <1>2 DEF Truth, StoreTrue
    <3> QED BY <1>2, <3>1, <3>2, ItemTypes, SavedTrue DEF Truth
  <2>2. CASE Agent # "omp"
    <3>1. UNCHANGED <<items, disk>>
      BY <2>2 DEF Reads, storeVars
    <3> QED BY <1>2, <3>1 DEF Truth, StoreTrue
  <2> QED BY <2>1, <2>2
<1>6. ReadIsThere'
  <2>1. PICK stage \in {"read", "steered"} : held' = (held \ {h}) \cup {[h EXCEPT !.stage = stage]}
    BY DEF Reads, Moves
  <2>2. [h EXCEPT !.stage = stage].item = h.item
    BY <1>1 DEF Held
  <2>3. \A g \in held : g.item \in Items
    BY <1>1 DEF Held
  <2>4. ASSUME NEW g \in held', g.stage \in {"read", "steered"}
        PROVE  copies'[g.item] > 0
    <3>1. CASE g \in held
      <4>1. g.item \in Items /\ copies[g.item] > 0
        BY <2>3, <2>4, <3>1 DEF Truth, ReadIsThere
      <4> QED BY <1>2, <4>1
    <3>2. CASE g = [h EXCEPT !.stage = stage]
      BY <1>2, <2>2, <3>2
    <3> QED BY <2>1, <3>1, <3>2
  <2> QED BY <2>4 DEF ReadIsThere
<1> QED BY <1>4, <1>5, <1>6 DEF Truth

LEMMA DriverTrue ==
    ASSUME IInv, Truth, DriverEvent
    PROVE  Truth'
<1>1. ASSUME NEW h \in held, Writes(h)
      PROVE  Truth'
  <2>1. UNCHANGED <<senders, handoff, copies>> /\ noReceipt' \subseteq noReceipt
    BY <1>1 DEF Writes, BeginTurn, hostVars
  <2>2. Save([items EXCEPT ![h.item] = Receipt(@, h, "accepted")])
    BY <1>1, NothingToProve DEF Writes, Truth
  <2>3. StoreTrue'
    BY <2>1, <2>2, ReceiptTrue DEF Truth, Events, Proofs
  <2>4. h \in Held /\ held' = (held \ {h}) \cup {[h EXCEPT !.stage = "written"]}
    BY <1>1 DEF IInv, TypeOK, Writes, Moves
  <2>5. \A g \in held' : g \in held \/ g.stage = "written"
    BY <2>4 DEF Held
  <2>6. HasReceipts' /\ ReadIsThere'
    BY <2>1, <2>5, SendersTrue, HeldTrue DEF Truth
  <2> QED BY <2>3, <2>6 DEF Truth
<1>2. ASSUME NEW h \in held, Answers(h) \/ Rejects(h) \/ Breaks(h)
      PROVE  Truth'
  <2>1. UNCHANGED <<senders, handoff, copies>> /\ noReceipt' \subseteq noReceipt /\ held' \subseteq held
    BY <1>2 DEF Answers, Rejects, Breaks, queueVars, hostVars
  <2>2. CASE Answers(h)
    <3>1. copies[h.item] > 0
      BY <2>2 DEF Answers, Asked, Truth, ReadIsThere
    <3>2. Save([items EXCEPT ![h.item] = Receipt(@, h, "delivered")])
      BY <2>2 DEF Answers
    <3>3. StoreTrue'
      BY <2>1, <3>1, <3>2, ReceiptTrue DEF Truth, Events
    <3>4. HasReceipts' /\ ReadIsThere'
      BY <2>1, SendersTrue, HeldTrue DEF Truth
    <3> QED BY <3>3, <3>4 DEF Truth
  <2>3. CASE Rejects(h) \/ Breaks(h)
    <3>1. \/ UNCHANGED storeVars
          \/ Save([items EXCEPT ![h.item] = Receipt(@, h, "rejected")])
      BY <2>3, NothingToProve DEF Rejects, Breaks, Truth
    <3>2. StoreTrue'
      BY <2>1, <3>1, SameStore, ReceiptTrue DEF Truth, Events, Proofs
    <3>3. HasReceipts' /\ ReadIsThere'
      BY <2>1, SendersTrue, HeldTrue DEF Truth
    <3> QED BY <3>2, <3>3 DEF Truth
  <2> QED BY <1>2, <2>2, <2>3
<1>3. ASSUME \/ \E status \in {"settled", "failed"} : EndsTurn(status)
             \/ Exits \/ Closes
      PROVE  Truth'
  <2>1. UNCHANGED <<storeVars, senders, handoff, copies, noReceipt>> /\ held' \subseteq held
    BY <1>3 DEF EndsTurn, Exits, Closes, queueVars, hostVars
  <2>2. HasReceipts' /\ ReadIsThere'
    BY <2>1, SendersTrue, HeldTrue DEF Truth
  <2> QED BY <2>1, <2>2, SameStore DEF Truth
<1>4. CASE TurnStarted \/ NextTurn
  <2>1. UNCHANGED <<senders, held, handoff, copies>> /\ noReceipt' \subseteq noReceipt
    BY <1>4 DEF TurnStarted, NextTurn, BeginTurn, hostVars
  <2>2. Save(items)
    BY <1>4, NothingToProve DEF TurnStarted, NextTurn, Truth
  <2>3. StoreTrue'
    BY <2>1, <2>2, SaveItself DEF Truth
  <2> QED BY <2>1, <2>3, StillTrue
<1> QED BY <1>1, <1>2, <1>3, <1>4 DEF DriverEvent

LEMMA HostTrue ==
    ASSUME ~SameText, IInv, Truth, Crash \/ Reopen \/ Recheck
    PROVE  Truth'
<1>1. CASE Crash
  <2>1. /\ items' = disk /\ disk' = disk /\ copies' = copies /\ handoff' = handoff
        /\ senders' = {} /\ held' = {} /\ noReceipt' = {}
    BY <1>1 DEF Crash
  <2> QED BY <2>1 DEF Truth, HasReceipts, StoreTrue, ReadIsThere
<1>2. CASE Reopen
  <2>1. UNCHANGED <<senders, held, handoff, copies, noReceipt>>
    BY <1>2 DEF Reopen, queueVars, agentVars
  <2> DEFINE new == [i \in Items |-> Reopened(items[i])]
  <2>2. ASSUME NEW d \in Delivery
        PROVE  /\ Reopened(d) \in Delivery
               /\ Reopened(d).state = "delivered" => d.state = "delivered"
    <3>1. PICK e : e = Step(d, "cut_off")
      OBVIOUS
    <3>2. e \in Delivery /\ (e.state = "delivered" => d.state = "delivered")
      BY <2>2, <3>1, StepTypes, OnlyProofs DEF Events, Proofs
    <3>3. /\ Step(e, "restarted") \in Delivery
          /\ Step(e, "restarted").state = "delivered" => e.state = "delivered"
      BY <3>2, StepTypes, OnlyProofs DEF Events, Proofs
    <3> QED BY <3>1, <3>2, <3>3 DEF Reopened
  <2>3. new \in [Items -> Delivery] /\ Save(new)
    BY <1>2, <2>2, ItemTypes DEF Reopen
  <2>4. \A j \in Items : new[j].state = "delivered" => items[j].state = "delivered"
    BY <2>2, ItemTypes
  <2> HIDE DEF new
  <2>5. StoreTrue'
    BY <2>1, <2>3, <2>4, ManyTrue DEF Truth
  <2> QED BY <2>1, <2>5, StillTrue
<1>3. CASE Recheck
  <2>1. UNCHANGED <<senders, held, handoff, copies, noReceipt>>
    BY <1>3 DEF Recheck, queueVars, agentVars
  <2>2. StoreTrue'
    <3>1. CASE UNCHANGED storeVars
      BY <2>1, <3>1, SameStore DEF Truth
    <3>2. CASE \E i \in jobs[Driver].todo : Lookup(i)
      <4>1. PICK i \in jobs[Driver].todo : Lookup(i)
        BY <3>2
      <4>2. i \in Items
        BY ItemTypes DEF Job
      <4> QED BY <2>1, <4>1, <4>2, LookupTrue DEF Truth
    <3> QED BY <1>3, <3>1, <3>2 DEF Recheck
  <2> QED BY <2>1, <2>2, StillTrue
<1> QED BY <1>1, <1>2, <1>3

LEMMA NextArrived ==
    ASSUME ~SameText
    PROVE  IInv /\ ArrivedInv /\ [Next]_vars => ArrivedInv'
<1> SUFFICES ASSUME IInv, ArrivedInv, [Next]_vars, Plainly'
             PROVE  Truth'
  BY DEF ArrivedInv
<1>1. setup' = setup
  BY DEF Next, vars, hostVars, Request, Enqueue, Act, Cancel, Stop, CloseSession, JobStep, PumpStep,
         ReadIdle, Pick, Send, HandOver, Lose, Look, Settled, Failed, SendReaches, SendErrs,
         SendBack, SendSettles, Timeout, Reads, DriverEvent, Writes, Answers, Rejects, Breaks,
         EndsTurn, TurnStarted, NextTurn, Exits, Closes, Crash, Reopen, Recheck
<1>2. Truth
  BY <1>1 DEF ArrivedInv, Plainly, Features
<1>3. ASSUME \/ \E i \in Items, c \in Callers : Timeout(i, c)
             \/ UNCHANGED vars
      PROVE  Truth'
  <2>1. UNCHANGED <<storeVars, senders, held, handoff, copies, noReceipt>>
    BY <1>3 DEF Timeout, vars, queueVars, agentVars, hostVars
  <2> QED BY <1>2, <2>1, SameStore, StillTrue DEF Truth
<1> QED BY <1>2, <1>3, RequestTrue, JobTrue, SenderTrue, ReadsTrue, DriverTrue, HostTrue DEF Next

(* What the queue calls delivered the agent has read, whatever is lost,     *)
(* refused, stopped, sent again or cut off: a receipt, or the agent's own   *)
(* record, says so.  It needs the two limits of `no_receipt` and of the     *)
(* lookup taken away: no run starts with a handoff, whose prompt gets no    *)
(* receipt, and no two messages hold the same text.                         *)
THEOREM AlwaysDeliveredArrived ==
    ASSUME ~SameText
    PROVE  Spec => [](Plainly => DeliveredArrived)
<1>1. Init => ArrivedInv
  <2> SUFFICES ASSUME Init, Plainly PROVE Truth
    BY DEF ArrivedInv
  <2>1. ~handoff
    BY DEF Init, Plainly
  <2>2. noReceipt = {} /\ senders = {} /\ held = {}
    BY DEF Init
  <2>3. \A i \in Items : items[i].state = "absent" /\ disk[i].state = "absent"
    BY DEF Init, AbsentDelivery
  <2> QED BY <2>1, <2>2, <2>3 DEF Truth, HasReceipts, StoreTrue, ReadIsThere
<1>2. IInv /\ ArrivedInv /\ [Next]_vars => ArrivedInv'
  BY NextArrived
<1>3. ArrivedInv => (Plainly => DeliveredArrived)
  BY DEF ArrivedInv, Truth, StoreTrue, DeliveredArrived, InState
<1> QED BY <1>1, <1>2, <1>3, AlwaysIInv, PTL DEF Spec
=============================================================================
