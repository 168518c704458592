------------------------ MODULE Submissions_proofs --------------------------
(***************************************************************************)
(* One writer, and one execution per submission, for every set of hosts    *)
(* and identities and every bound.                                         *)
(***************************************************************************)
EXTENDS Submissions, TLAPS

(* What the lease rests on: a file is locked by one host; while a host     *)
(* takes the lease the path leads to the file it locked, and so the file   *)
(* it notes is that one, unless the path was cleared meanwhile.            *)
LeaseInv ==
    /\ lockFile <= files
    /\ \A h \in Hosts : host[h].locked <= files /\ (host[h].stage = "down" <=> host[h].locked = 0)
    /\ \A g, h \in Hosts : g # h /\ host[g].locked = host[h].locked => host[g].locked = 0
    /\ ~raced => \A h \in Hosts :
          /\ host[h].stage \in {"locked", "hinted"} => lockFile = host[h].locked
          /\ host[h].stage = "up" => host[h].identity = host[h].locked

(* As long as nobody removes the lock file, every host that is not down    *)
(* has locked the one file there is.                                       *)
Untouched == spent["removals"] = 0
OneFile ==
    Untouched => ~raced /\ \A h \in Hosts : host[h].stage # "down" => host[h].locked = lockFile

(* A job belongs to a host that is up and is about one identity.           *)
JobInv ==
    \A h \in Hosts :
        /\ job[h].stage = "none" => job[h] = NoJob
        /\ host[h].stage # "up" => job[h] = NoJob
        /\ job[h].stage # "none" => \E i \in Ids : job[h].id = {i}

(* What is on disk while a submission is between its steps: what was       *)
(* loaded is still there, and the pending receipt lies on disk before      *)
(* execute has run and until its result is written.                        *)
JobReceipt(h, i) ==
    /\ \A j \in Ids \ {i} :
          job[h].stage \in {"pending", "execute", "accepted", "unknown"} =>
              job[h].seen[j] = receipts[j]
    /\ job[h].stage = "pending" => receipts[i] = "none"
    /\ job[h].stage = "execute" => receipts[i] = "pending" /\ runs[i] = 0
    /\ job[h].stage \in {"accepted", "unknown"} => receipts[i] = "pending"
    /\ job[h].stage = "accepted" => i \in begun

ReceiptInv ==
    Untouched =>
        /\ \A i \in Ids : /\ runs[i] <= 1
                          /\ receipts[i] = "accepted" => i \in begun
                          /\ receipts[i] \in {"none", "rejected"} => runs[i] = 0
        /\ \A h \in Hosts : \A i \in job[h].id : JobReceipt(h, i)

IInv == TypeOK /\ LeaseInv /\ OneFile /\ JobInv /\ ReceiptInv

-----------------------------------------------------------------------------
(* A bound that is used up is one of the five counters.                    *)
LEMMA SpendCounts ==
    ASSUME TypeOK, NEW c \in Costs, Spend(c)
    PROVE  /\ spent' \in [Costs -> Nat]
           /\ c = "removals" => spent'["removals"] # 0
           /\ c # "removals" => spent'["removals"] = spent["removals"]
  BY DEF TypeOK, Costs, Spend

LEMMA NoJobIsAJob == NoJob \in Jobs /\ NoJob.id = {} /\ NoJob.stage = "none" /\ Down \in Leases
  BY DEF NoJob, Jobs, States, Down, Leases

-----------------------------------------------------------------------------
(* Types, one step per group of actions.                                   *)
LeaseStep ==
    \/ \E h \in Hosts : Lock(h) \/ WriteHint(h) \/ NoteIdentity(h) \/ HostDies(h)
    \/ LockFileRemoved
JobStep ==
    \E h \in Hosts : \/ Load(h) \/ PersistFirst(h) \/ Execute(h) \/ PersistLast(h)
                     \/ \E i \in Ids : Accept(h, i)
PageStep ==
    \/ \E h \in Hosts : Check(h)
    \/ Send \/ Repeat \/ AnswerLost \/ \E a \in answers : Answered(a)
    \/ \E i \in Ids : Edit(i) \/ Quit(i)

LEMMA NextSplit == TypeOK /\ Next => LeaseStep \/ JobStep \/ PageStep
<1>1. ASSUME TypeOK PROVE setup.hosts \subseteq Hosts /\ setup.ids \subseteq Ids
    BY <1>1, SubmissionAssumption DEF TypeOK
<1> QED BY <1>1 DEF Next, LeaseStep, JobStep, PageStep

LEMMA LeaseTypes == TypeOK /\ LeaseStep => TypeOK'
<1> SUFFICES ASSUME TypeOK, LeaseStep PROVE TypeOK'
    OBVIOUS
<1>1. ASSUME NEW h \in Hosts, Lock(h) PROVE TypeOK'
    BY <1>1 DEF TypeOK, Lock, draftVars, Leases
<1>2. ASSUME NEW h \in Hosts, WriteHint(h) PROVE TypeOK'
    BY <1>2 DEF TypeOK, WriteHint, draftVars, Leases
<1>3. ASSUME NEW h \in Hosts, NoteIdentity(h) PROVE TypeOK'
    BY <1>3 DEF TypeOK, NoteIdentity, draftVars, Leases
<1>4. ASSUME NEW h \in Hosts, HostDies(h) PROVE TypeOK'
    <2>1. spent' \in [Costs -> Nat]
        BY <1>4, SpendCounts DEF HostDies, Costs
    <2> QED BY <1>4, <2>1, NoJobIsAJob DEF TypeOK, HostDies, draftVars
<1>5. ASSUME LockFileRemoved PROVE TypeOK'
    <2>1. spent' \in [Costs -> Nat]
        BY <1>5, SpendCounts DEF LockFileRemoved, Costs
    <2> QED BY <1>5, <2>1 DEF TypeOK, LockFileRemoved, draftVars
<1> QED BY <1>1, <1>2, <1>3, <1>4, <1>5 DEF LeaseStep

(* An answer is about the identity of the job it ends.                     *)
LEMMA AnswerTypes ==
    ASSUME TypeOK, NEW h \in Hosts, NEW kind \in States \cup {"error"}, Answer(h, kind)
    PROVE  /\ job' \in [Hosts -> Jobs]
           /\ answers' \subseteq [id : Ids, kind : States \cup {"error"}]
<1>1. job[h].id \subseteq Ids
    BY DEF TypeOK, Jobs
<1>2. {[id |-> i, kind |-> kind] : i \in job[h].id} \subseteq [id : Ids, kind : States \cup {"error"}]
    BY <1>1
<1> QED BY <1>2, NoJobIsAJob DEF TypeOK, Answer

LEMMA StageTypes ==
    ASSUME TypeOK, NEW h \in Hosts, NEW to \in {"execute", "accepted", "unknown"}
    PROVE  [job[h] EXCEPT !.stage = to] \in Jobs
  BY DEF TypeOK, Jobs

LEMMA PersistTypes ==
    ASSUME TypeOK, NEW h \in Hosts, NEW state \in States,
           NEW from, NEW to \in {"none", "execute"},
           Persist(h, state, [from |-> from, to |-> to])
    PROVE  TypeOK'
<1> DEFINE after == [from |-> from, to |-> to]
<1>1. CASE StillHeld(h) /\ UNCHANGED spent
           /\ receipts' = [i \in Ids |-> IF i \in job[h].id THEN state ELSE job[h].seen[i]]
           /\ IF after.to = "none" THEN Answer(h, state)
              ELSE Goes(h, after.to) /\ UNCHANGED answers
    <2>1. receipts' \in [Ids -> States]
        BY <1>1 DEF TypeOK, Jobs
    <2>2. /\ job' \in [Hosts -> Jobs]
          /\ answers' \subseteq [id : Ids, kind : States \cup {"error"}]
        <3>1. CASE to = "none" BY <1>1, <3>1, AnswerTypes
        <3>2. CASE to = "execute"
            <4>1. after.to = "execute" BY <3>2
            <4>2. job' = [job EXCEPT ![h] = [@ EXCEPT !.stage = "execute"]] /\ UNCHANGED answers
                BY <1>1, <4>1 DEF Goes
            <4>3. [job[h] EXCEPT !.stage = "execute"] \in Jobs
                BY StageTypes
            <4> QED BY <4>2, <4>3 DEF TypeOK
        <3> QED BY <3>1, <3>2
    <2> QED BY <1>1, <2>1, <2>2 DEF Persist, TypeOK, leaseVars, draftVars
<1>2. CASE Answer(h, "error") /\ UNCHANGED <<receipts, spent>>
    BY <1>2, AnswerTypes DEF Persist, TypeOK, leaseVars, draftVars
<1>3. CASE Spend("faults") /\ Answer(h, "error") /\ UNCHANGED receipts
    <2>1. spent' \in [Costs -> Nat]
        BY <1>3, SpendCounts DEF Costs
    <2> QED BY <1>3, <2>1, AnswerTypes DEF Persist, TypeOK, leaseVars, draftVars
<1> QED BY <1>1, <1>2, <1>3 DEF Persist

LEMMA JobTypes == TypeOK /\ JobStep => TypeOK'
<1> SUFFICES ASSUME TypeOK, JobStep PROVE TypeOK'
    OBVIOUS
<1>1. ASSUME NEW h \in Hosts, NEW i \in Ids, Accept(h, i) PROVE TypeOK'
    <2>1. PICK valid \in BOOLEAN :
             job' = [job EXCEPT ![h] = [NoJob EXCEPT !.stage = "gate", !.id = {i}, !.valid = valid]]
        BY <1>1 DEF Accept
    <2>2. [NoJob EXCEPT !.stage = "gate", !.id = {i}, !.valid = valid] \in Jobs
        BY DEF NoJob, Jobs, States
    <2> QED BY <1>1, <2>1, <2>2 DEF TypeOK, Accept, leaseVars, draftVars
<1>2. ASSUME NEW h \in Hosts, Load(h) PROVE TypeOK'
    <2>1. PICK i \in job[h].id :
             /\ IF ~StillHeld(h) THEN Answer(h, "error")
                ELSE IF Known(receipts[i]) THEN Answer(h, receipts[i])
                ELSE /\ job' = [job EXCEPT ![h].stage = "pending", ![h].seen = receipts]
                     /\ UNCHANGED answers
             /\ UNCHANGED <<setup, leaseVars, receipts, runs, begun, draftVars, wire, spent>>
        BY <1>2 DEF Load
    <2>2. i \in Ids /\ receipts[i] \in States
        BY DEF TypeOK, Jobs
    <2>3. /\ job' \in [Hosts -> Jobs]
          /\ answers' \subseteq [id : Ids, kind : States \cup {"error"}]
        <3>1. CASE \E kind \in States \cup {"error"} : Answer(h, kind)
            BY <3>1, AnswerTypes
        <3>2. CASE /\ job' = [job EXCEPT ![h].stage = "pending", ![h].seen = receipts]
                   /\ UNCHANGED answers
            <4>1. [job[h] EXCEPT !.stage = "pending", !.seen = receipts] \in Jobs
                BY DEF TypeOK, Jobs
            <4> QED BY <3>2, <4>1 DEF TypeOK
        <3> QED BY <2>1, <2>2, <3>1, <3>2
    <2> QED BY <2>1, <2>3 DEF TypeOK, leaseVars, draftVars
<1>3. ASSUME NEW h \in Hosts, PersistFirst(h) PROVE TypeOK'
    BY <1>3, PersistTypes DEF PersistFirst, States
<1>4. ASSUME NEW h \in Hosts, Execute(h) PROVE TypeOK'
    <2>1. PICK i \in job[h].id :
             /\ runs' = [runs EXCEPT ![i] = @ + 1]
             /\ \/ begun' = begun \cup {i} /\ Goes(h, "accepted")
                \/ UNCHANGED begun /\ Goes(h, "unknown")
             /\ UNCHANGED <<setup, leaseVars, receipts, draftVars, wire, answers, spent>>
        BY <1>4 DEF Execute
    <2>2. i \in Ids
        BY DEF TypeOK, Jobs
    <2>3. \A to \in {"accepted", "unknown"} : [job[h] EXCEPT !.stage = to] \in Jobs
        BY StageTypes
    <2>4. job' \in [Hosts -> Jobs]
        BY <2>1, <2>3 DEF TypeOK, Goes
    <2> QED BY <2>1, <2>2, <2>4 DEF TypeOK, leaseVars, draftVars
<1>5. ASSUME NEW h \in Hosts, PersistLast(h) PROVE TypeOK'
    BY <1>5, PersistTypes DEF PersistLast, States
<1> QED BY <1>1, <1>2, <1>3, <1>4, <1>5 DEF JobStep

(* A step of the page leaves the hosts and their receipts alone.           *)
LEMMA PageSteps ==
    ASSUME TypeOK, PageStep
    PROVE  /\ TypeOK'
           /\ UNCHANGED <<leaseVars, receipts, job, runs, begun>>
           /\ spent'["removals"] = spent["removals"]
<1> USE DEF leaseVars, draftVars
<1>1. ASSUME NEW h \in Hosts, Check(h)
      PROVE  TypeOK' /\ UNCHANGED <<leaseVars, receipts, job, runs, begun, spent>>
    <2>1. AfterAnswer(receipts[draft.id]) \in {"editing", "sending", "failed", "unknown", "done"}
        BY DEF AfterAnswer
    <2> QED BY <1>1, <2>1 DEF Check, Becomes, TypeOK
<1>2. ASSUME Send PROVE TypeOK' /\ UNCHANGED <<leaseVars, receipts, job, runs, begun, spent>>
    BY <1>2 DEF Send, Becomes, TypeOK
<1>3. ASSUME Repeat PROVE TypeOK' /\ UNCHANGED <<leaseVars, receipts, job, runs, begun>>
                          /\ spent'["removals"] = spent["removals"]
    <2>1. spent' \in [Costs -> Nat] /\ spent'["removals"] = spent["removals"]
        BY <1>3, SpendCounts DEF Repeat, Costs
    <2> QED BY <1>3, <2>1 DEF Repeat, TypeOK
<1>4. ASSUME AnswerLost
      PROVE  TypeOK' /\ UNCHANGED <<leaseVars, receipts, job, runs, begun, spent>>
    BY <1>4 DEF AnswerLost, Becomes, TypeOK
<1>5. ASSUME NEW a \in answers, Answered(a)
      PROVE  TypeOK' /\ UNCHANGED <<leaseVars, receipts, job, runs, begun, spent>>
    <2>1. AfterAnswer(a.kind) \in {"editing", "sending", "failed", "unknown", "done"}
        BY DEF AfterAnswer
    <2> QED BY <1>5, <2>1 DEF Answered, Becomes, TypeOK
<1>6. ASSUME NEW i \in Ids, Edit(i)
      PROVE  TypeOK' /\ UNCHANGED <<leaseVars, receipts, job, runs, begun, spent>>
    BY <1>6 DEF Edit, Renews, TypeOK
<1>7. ASSUME NEW i \in Ids, Quit(i)
      PROVE  TypeOK' /\ UNCHANGED <<leaseVars, receipts, job, runs, begun>>
             /\ spent'["removals"] = spent["removals"]
    <2>1. spent' \in [Costs -> Nat] /\ spent'["removals"] = spent["removals"]
        BY <1>7, SpendCounts DEF Quit, Costs
    <2> QED BY <1>7, <2>1 DEF Quit, Renews, Becomes, TypeOK
<1> QED BY <1>1, <1>2, <1>3, <1>4, <1>5, <1>6, <1>7 DEF PageStep

-----------------------------------------------------------------------------
(* The lease.  A lock is taken on a file nobody has locked; a file that is *)
(* made has a number of its own.                                           *)
LEMMA LockKeepsLease ==
    ASSUME TypeOK, LeaseInv, OneFile, NEW h \in Hosts, Lock(h)
    PROVE  LeaseInv' /\ OneFile'
<1> DEFINE f == IF lockFile = 0 THEN files + 1 ELSE lockFile
<1>1. /\ f \in Nat /\ f # 0 /\ lockFile' = f /\ f <= files' /\ files <= files' /\ files' \in Nat
      /\ \A g \in Hosts : host[g].locked # f
      /\ UNCHANGED <<raced, spent>>
    BY DEF Lock, TypeOK, LeaseInv
<1>2. /\ host[h].stage = "down"
      /\ \A g \in Hosts \ {h} : host'[g] = host[g]
      /\ host'[h] = [stage |-> "locked", locked |-> f, identity |-> 0]
    BY DEF Lock, TypeOK
<1>3. \A g \in Hosts : host[g].locked \in Nat /\ host[g].locked <= files
    BY DEF TypeOK, Leases, LeaseInv
<1>4. host'[h].stage = "locked" /\ host'[h].locked = f
    BY <1>2
<1>5. ASSUME NEW g \in Hosts \ {h}, host[g].stage # "down", host[g].locked = lockFile
      PROVE  lockFile' = lockFile
    BY <1>1, <1>5 DEF LeaseInv
<1> HIDE DEF f
<1>6. lockFile' <= files'
    BY <1>1
<1>7. \A g \in Hosts : host'[g].locked <= files' /\ (host'[g].stage = "down" <=> host'[g].locked = 0)
    BY <1>1, <1>2, <1>3, <1>4, SMTT(30) DEF LeaseInv, TypeOK
<1>8. \A g, k \in Hosts : g # k /\ host'[g].locked = host'[k].locked => host'[g].locked = 0
    BY <1>1, <1>2, <1>4 DEF LeaseInv
<1>9. ~raced' => \A g \in Hosts :
          /\ host'[g].stage \in {"locked", "hinted"} => lockFile' = host'[g].locked
          /\ host'[g].stage = "up" => host'[g].identity = host'[g].locked
    <2> SUFFICES ASSUME ~raced, NEW g \in Hosts
                 PROVE  /\ host'[g].stage \in {"locked", "hinted"} => lockFile' = host'[g].locked
                        /\ host'[g].stage = "up" => host'[g].identity = host'[g].locked
        BY <1>1
    <2>1. CASE g = h
        BY <2>1, <1>1, <1>4
    <2>2. CASE g # h
        BY <2>2, <1>2, <1>5 DEF LeaseInv
    <2> QED BY <2>1, <2>2
<1>10. OneFile'
    <2> SUFFICES ASSUME Untouched, NEW g \in Hosts, host'[g].stage # "down"
                 PROVE  ~raced /\ host'[g].locked = lockFile'
        BY <1>1 DEF OneFile, Untouched
    <2>1. ~raced
        BY DEF OneFile
    <2>2. CASE g = h
        BY <2>1, <2>2, <1>1, <1>4
    <2>3. CASE g # h
        BY <2>1, <2>3, <1>2, <1>5 DEF OneFile
    <2> QED BY <2>2, <2>3
<1> QED BY <1>6, <1>7, <1>8, <1>9, <1>10 DEF LeaseInv

LEMMA HintKeepsLease ==
    ASSUME TypeOK, LeaseInv, OneFile, NEW h \in Hosts, WriteHint(h)
    PROVE  LeaseInv' /\ OneFile'
<1>1. /\ lockFile' <= files' /\ files <= files' /\ files' \in Nat /\ UNCHANGED <<raced, spent>>
      /\ lockFile # 0 => lockFile' = lockFile
    BY DEF WriteHint, TypeOK, LeaseInv
<1>2. /\ host[h].stage = "locked"
      /\ \A g \in Hosts : /\ host'[g].locked = host[g].locked
                          /\ host'[g].identity = host[g].identity
                          /\ g # h => host'[g].stage = host[g].stage
      /\ host'[h].stage = "hinted"
    BY DEF WriteHint, TypeOK, Leases
<1>3. ~raced => lockFile = host[h].locked /\ lockFile # 0
    BY <1>2 DEF LeaseInv
<1>4. \A g \in Hosts : host[g].locked \in Nat /\ host[g].locked <= files
    BY DEF TypeOK, Leases, LeaseInv
<1>5. \A g \in Hosts : host'[g].locked <= files' /\ (host'[g].stage = "down" <=> host'[g].locked = 0)
    BY <1>1, <1>2, <1>4 DEF LeaseInv, TypeOK
<1>6. \A g, k \in Hosts : g # k /\ host'[g].locked = host'[k].locked => host'[g].locked = 0
    BY <1>2 DEF LeaseInv
<1>7. ~raced' => \A g \in Hosts :
          /\ host'[g].stage \in {"locked", "hinted"} => lockFile' = host'[g].locked
          /\ host'[g].stage = "up" => host'[g].identity = host'[g].locked
    BY <1>1, <1>2, <1>3 DEF LeaseInv
<1>8. OneFile'
    BY <1>1, <1>2, <1>3 DEF OneFile, Untouched
<1> QED BY <1>1, <1>5, <1>6, <1>7, <1>8 DEF LeaseInv

LEMMA IdentityKeepsLease ==
    ASSUME TypeOK, LeaseInv, OneFile, NEW h \in Hosts, NoteIdentity(h)
    PROVE  LeaseInv' /\ OneFile'
<1>1. UNCHANGED <<lockFile, files, raced, spent>>
    BY DEF NoteIdentity
<1>2. /\ host[h].stage = "hinted"
      /\ \A g \in Hosts : /\ host'[g].locked = host[g].locked
                          /\ g # h => host'[g].stage = host[g].stage
                          /\ g # h => host'[g].identity = host[g].identity
      /\ host'[h].stage = "up" /\ host'[h].identity = lockFile
    BY DEF NoteIdentity, TypeOK, Leases
<1>3. \A g \in Hosts : host'[g].locked <= files' /\ (host'[g].stage = "down" <=> host'[g].locked = 0)
    BY <1>1, <1>2 DEF LeaseInv
<1>4. \A g, k \in Hosts : g # k /\ host'[g].locked = host'[k].locked => host'[g].locked = 0
    BY <1>2 DEF LeaseInv
<1>5. ~raced' => \A g \in Hosts :
          /\ host'[g].stage \in {"locked", "hinted"} => lockFile' = host'[g].locked
          /\ host'[g].stage = "up" => host'[g].identity = host'[g].locked
    BY <1>1, <1>2 DEF LeaseInv
<1>6. OneFile'
    BY <1>1, <1>2 DEF OneFile, Untouched
<1> QED BY <1>1, <1>3, <1>4, <1>5, <1>6 DEF LeaseInv

LEMMA DeathKeepsLease ==
    ASSUME TypeOK, LeaseInv, OneFile, NEW h \in Hosts, HostDies(h)
    PROVE  LeaseInv' /\ OneFile'
<1>1. UNCHANGED <<lockFile, files, raced>> /\ spent'["removals"] = spent["removals"]
    BY SpendCounts DEF HostDies, Costs
<1>2. /\ \A g \in Hosts \ {h} : host'[g] = host[g]
      /\ host'[h].stage = "down" /\ host'[h].locked = 0
    BY DEF HostDies, Down, TypeOK
<1>3. files \in Nat BY DEF TypeOK
<1>4. \A g \in Hosts : host'[g].locked <= files' /\ (host'[g].stage = "down" <=> host'[g].locked = 0)
    BY <1>1, <1>2, <1>3 DEF LeaseInv
<1>5. \A g, k \in Hosts : g # k /\ host'[g].locked = host'[k].locked => host'[g].locked = 0
    BY <1>2 DEF LeaseInv
<1>6. ~raced' => \A g \in Hosts :
          /\ host'[g].stage \in {"locked", "hinted"} => lockFile' = host'[g].locked
          /\ host'[g].stage = "up" => host'[g].identity = host'[g].locked
    BY <1>1, <1>2 DEF LeaseInv
<1>7. OneFile'
    BY <1>1, <1>2 DEF OneFile, Untouched
<1> QED BY <1>1, <1>4, <1>5, <1>6, <1>7 DEF LeaseInv

LEMMA RemovalKeepsLease ==
    ASSUME TypeOK, LeaseInv, OneFile, LockFileRemoved
    PROVE  LeaseInv' /\ OneFile' /\ ~Untouched'
<1>1. /\ lockFile' = 0 /\ UNCHANGED <<files, host>>
      /\ raced' = (raced \/ Acquiring # {})
      /\ spent'["removals"] # 0
    BY SpendCounts DEF LockFileRemoved, Costs
<1>2. lockFile' <= files' /\ files \in Nat
    BY <1>1 DEF TypeOK
<1>3. ~raced' => ~raced /\ \A g \in Hosts : host[g].stage \notin {"locked", "hinted"}
    BY <1>1 DEF Acquiring
<1> QED BY <1>1, <1>2, <1>3 DEF LeaseInv, OneFile, Untouched

(* Two hosts whose leases pass the check are one.                          *)
LEMMA LeaseGivesOneWriter == TypeOK /\ LeaseInv => OneWriter
<1> SUFFICES ASSUME LeaseInv, ~raced, NEW g \in Hosts, NEW h \in Hosts,
                    StillHeld(g), StillHeld(h)
             PROVE  g = h
    BY DEF OneWriter
<1>1. host[g].identity = host[g].locked /\ host[h].identity = host[h].locked
    BY DEF LeaseInv, StillHeld
<1> QED BY <1>1 DEF LeaseInv, StillHeld

(* While the lock file is left in place one host at most is not down.      *)
LEMMA OnlyOneHost ==
    ASSUME LeaseInv, OneFile, Untouched, NEW g \in Hosts, NEW h \in Hosts,
           host[g].stage # "down", host[h].stage # "down"
    PROVE  g = h
<1>1. host[g].locked = lockFile /\ host[h].locked = lockFile /\ host[g].locked # 0
    BY DEF OneFile, LeaseInv
<1> QED BY <1>1 DEF LeaseInv
-----------------------------------------------------------------------------
(* The receipts.                                                           *)

(* No lease step touches a job but that of a host that dies.               *)
LEMMA LeaseKeepsJobs ==
    ASSUME IInv, LeaseStep
    PROVE  JobInv' /\ ReceiptInv'
<1> USE DEF IInv
<1>1. UNCHANGED <<receipts, runs, begun>> /\ (Untouched' => Untouched)
    <2>1. CASE LockFileRemoved
        BY <2>1, RemovalKeepsLease DEF LockFileRemoved
    <2>2. ASSUME NEW h \in Hosts, HostDies(h)
          PROVE  UNCHANGED <<receipts, runs, begun>> /\ spent'["removals"] = spent["removals"]
        BY <2>2, SpendCounts DEF HostDies, Costs
    <2> QED BY <2>1, <2>2 DEF LeaseStep, Lock, WriteHint, NoteIdentity, Untouched
<1>2. \A g \in Hosts : \/ job'[g] = NoJob
                       \/ job'[g] = job[g] /\ (host'[g].stage # "up" => host[g].stage # "up")
    <2>1. ASSUME NEW h \in Hosts, NEW g \in Hosts, Lock(h) \/ WriteHint(h) \/ NoteIdentity(h)
          PROVE  job'[g] = job[g] /\ (host'[g].stage # "up" => host[g].stage # "up")
        BY <2>1 DEF Lock, WriteHint, NoteIdentity, TypeOK, Leases
    <2>2. ASSUME NEW h \in Hosts, NEW g \in Hosts, HostDies(h)
          PROVE  \/ job'[g] = NoJob
                 \/ job'[g] = job[g] /\ host'[g] = host[g]
        BY <2>2 DEF HostDies, TypeOK
    <2>3. CASE LockFileRemoved
        BY <2>3 DEF LockFileRemoved
    <2> QED BY <2>1, <2>2, <2>3 DEF LeaseStep
<1>3. JobInv'
    BY <1>2, NoJobIsAJob DEF JobInv
<1>4. ReceiptInv'
    <2> SUFFICES ASSUME Untouched'
                 PROVE  /\ \A i \in Ids : /\ runs[i] <= 1
                                          /\ receipts[i] = "accepted" => i \in begun
                                          /\ receipts[i] \in {"none", "rejected"} => runs[i] = 0
                        /\ \A h \in Hosts : \A i \in job'[h].id : JobReceipt(h, i)'
        BY <1>1 DEF ReceiptInv
    <2>1. Untouched
        BY <1>1
    <2>2. ASSUME NEW h \in Hosts, NEW i \in job'[h].id PROVE JobReceipt(h, i)'
        BY <1>1, <1>2, <2>1, <2>2, NoJobIsAJob DEF ReceiptInv, JobReceipt
    <2> QED BY <2>1, <2>2 DEF ReceiptInv
<1> QED BY <1>3, <1>4

(* The steps of a submission leave the lease alone.                        *)
LEMMA JobFrame ==
    ASSUME TypeOK, JobStep
    PROVE  UNCHANGED leaseVars /\ spent'["removals"] = spent["removals"]
<1>1. ASSUME NEW h \in Hosts, NEW state, NEW after, Persist(h, state, after)
      PROVE  UNCHANGED leaseVars /\ spent'["removals"] = spent["removals"]
    BY <1>1, SpendCounts DEF Persist, Costs
<1> QED BY <1>1 DEF JobStep, Accept, Load, PersistFirst, Execute, PersistLast

(* What persist does to the receipts: the file is what was loaded, and     *)
(* what was loaded is what is there but for this one receipt.              *)
PersistMoves(h, i, state, from, to) ==
    /\ job[h].id = {i} /\ host[h].stage = "up" /\ job[h].stage = from
    /\ UNCHANGED <<runs, begun>>
    /\ \/ /\ Untouched => receipts' = [receipts EXCEPT ![i] = state]
          /\ job' = [job EXCEPT ![h] = IF to = "none" THEN NoJob ELSE [@ EXCEPT !.stage = to]]
       \/ /\ UNCHANGED receipts
          /\ job' = [job EXCEPT ![h] = NoJob]

LEMMA PersistEffect ==
    ASSUME IInv, NEW h \in Hosts, NEW state, NEW to,
           NEW from \in {"pending", "accepted", "unknown"},
           Persist(h, state, [from |-> from, to |-> to])
    PROVE  \E i \in Ids : PersistMoves(h, i, state, from, to)
<1> USE DEF IInv
<1>1. job[h].stage = from /\ UNCHANGED <<runs, begun>>
    BY DEF Persist
<1>2. PICK i \in Ids : job[h].id = {i}
    BY <1>1 DEF JobInv
<1>3. host[h].stage = "up"
    BY <1>1, NoJobIsAJob DEF JobInv
<1>4. ASSUME receipts' = [k \in Ids |-> IF k \in job[h].id THEN state ELSE job[h].seen[k]],
             Untouched
      PROVE  receipts' = [receipts EXCEPT ![i] = state]
    <2>1. \A k \in Ids \ {i} : job[h].seen[k] = receipts[k]
        BY <1>1, <1>2, <1>4 DEF ReceiptInv, JobReceipt
    <2>2. \A k \in Ids : (IF k \in job[h].id THEN state ELSE job[h].seen[k])
                            = [receipts EXCEPT ![i] = state][k]
        BY <1>2, <2>1 DEF TypeOK
    <2> QED BY <1>4, <2>2 DEF TypeOK
<1>5. \/ /\ receipts' = [k \in Ids |-> IF k \in job[h].id THEN state ELSE job[h].seen[k]]
         /\ job' = [job EXCEPT ![h] = IF to = "none" THEN NoJob ELSE [@ EXCEPT !.stage = to]]
      \/ /\ UNCHANGED receipts
         /\ job' = [job EXCEPT ![h] = NoJob]
    BY DEF Persist, Answer, Goes
<1> QED BY <1>1, <1>2, <1>3, <1>4, <1>5 DEF PersistMoves
(* What each step of a submission keeps: it is a step of a host that is up, *)
(* its job stays one about one identity or ends, the receipts stay true of *)
(* the runs, and a receipt that is settled stays.                          *)
Moved(i) ==
    \/ receipts'[i] = receipts[i]
    \/ receipts[i] = "none"
    \/ receipts[i] = "pending" /\ receipts'[i] \in {"accepted", "unknown"}

TrueOf(i) ==
    /\ runs[i] <= 1
    /\ receipts[i] = "accepted" => i \in begun
    /\ receipts[i] \in {"none", "rejected"} => runs[i] = 0

GoodStep(h) ==
    /\ host[h].stage = "up"
    /\ \A g \in Hosts \ {h} : job'[g] = job[g]
    /\ job'[h] = NoJob \/ (job'[h].stage # "none" /\ \E i \in Ids : job'[h].id = {i})
    /\ Untouched => /\ \A i \in Ids : TrueOf(i)' /\ Moved(i)
                    /\ \A i \in job'[h].id : JobReceipt(h, i)'

LEMMA AcceptIsGood ==
    ASSUME IInv, NEW h \in Hosts, NEW i \in Ids, Accept(h, i)
    PROVE  GoodStep(h)
<1> USE DEF IInv
<1>1. PICK valid \in BOOLEAN :
         job' = [job EXCEPT ![h] = [NoJob EXCEPT !.stage = "gate", !.id = {i}, !.valid = valid]]
    BY DEF Accept
<1>2. /\ job'[h].stage = "gate" /\ job'[h].id = {i}
      /\ \A g \in Hosts \ {h} : job'[g] = job[g]
    BY <1>1 DEF TypeOK, NoJob
<1>3. UNCHANGED <<receipts, runs, begun>> /\ host[h].stage = "up"
    BY DEF Accept
<1> QED BY <1>2, <1>3 DEF GoodStep, ReceiptInv, TrueOf, Moved, JobReceipt

LEMMA LoadIsGood ==
    ASSUME IInv, NEW h \in Hosts, Load(h)
    PROVE  GoodStep(h)
<1> USE DEF IInv
<1>1. PICK i \in job[h].id :
         /\ job[h].stage = "gate"
         /\ \/ job' = [job EXCEPT ![h] = NoJob]
            \/ /\ receipts[i] = "none"
               /\ job' = [job EXCEPT ![h].stage = "pending", ![h].seen = receipts]
    BY DEF Load, Answer, Known
<1>2. UNCHANGED <<receipts, runs, begun>>
    BY DEF Load
<1>3. host[h].stage = "up" /\ i \in Ids /\ job[h].id = {i}
    BY <1>1, NoJobIsAJob DEF JobInv
<1>4. CASE job' = [job EXCEPT ![h] = NoJob]
    BY <1>2, <1>3, <1>4, NoJobIsAJob DEF GoodStep, ReceiptInv, TrueOf, Moved, TypeOK
<1>5. CASE receipts[i] = "none" /\ job' = [job EXCEPT ![h].stage = "pending", ![h].seen = receipts]
    <2>1. /\ job'[h].stage = "pending" /\ job'[h].seen = receipts /\ job'[h].id = {i}
          /\ \A g \in Hosts \ {h} : job'[g] = job[g]
        BY <1>3, <1>5 DEF TypeOK, Jobs
    <2> QED BY <1>2, <1>3, <1>5, <2>1 DEF GoodStep, ReceiptInv, TrueOf, Moved, JobReceipt
<1> QED BY <1>1, <1>4, <1>5

LEMMA FirstIsGood ==
    ASSUME IInv, NEW h \in Hosts, PersistFirst(h)
    PROVE  GoodStep(h)
<1> USE DEF IInv
<1>1. PICK i \in Ids, state \in {"pending", "rejected"}, to \in {"none", "execute"} :
         /\ PersistMoves(h, i, state, "pending", to)
         /\ state = "rejected" <=> to = "none"
    <2>1. CASE job[h].valid
        BY <2>1, PersistEffect DEF PersistFirst
    <2>2. CASE ~job[h].valid
        BY <2>2, PersistEffect DEF PersistFirst
    <2> QED BY <2>1, <2>2
<1>2. /\ host[h].stage = "up" /\ job[h].id = {i} /\ job[h].stage = "pending"
      /\ UNCHANGED <<runs, begun>>
      /\ Untouched => receipts[i] = "none" /\ runs[i] = 0
                      /\ \A j \in Ids \ {i} : job[h].seen[j] = receipts[j]
    BY <1>1 DEF PersistMoves, ReceiptInv, JobReceipt
<1>3. CASE UNCHANGED receipts /\ job' = [job EXCEPT ![h] = NoJob]
    BY <1>2, <1>3, NoJobIsAJob DEF GoodStep, ReceiptInv, TrueOf, Moved, TypeOK
<1>4. CASE /\ Untouched => receipts' = [receipts EXCEPT ![i] = state]
           /\ job' = [job EXCEPT ![h] = IF to = "none" THEN NoJob ELSE [@ EXCEPT !.stage = to]]
    <2>1. /\ \A g \in Hosts \ {h} : job'[g] = job[g]
          /\ to = "none" => job'[h] = NoJob
          /\ to = "execute" => /\ job'[h].stage = "execute" /\ job'[h].id = {i}
                               /\ job'[h].seen = job[h].seen
        BY <1>2, <1>4 DEF TypeOK, Jobs
    <2>2. Untouched => receipts'[i] = state /\ \A j \in Ids \ {i} : receipts'[j] = receipts[j]
        BY <1>4 DEF TypeOK
    <2>3. ASSUME Untouched, NEW j \in Ids PROVE TrueOf(j)' /\ Moved(j)
        BY <1>1, <1>2, <2>2, <2>3 DEF ReceiptInv, TrueOf, Moved
    <2>4. ASSUME Untouched, NEW j \in job'[h].id PROVE JobReceipt(h, j)'
        BY <1>1, <1>2, <2>1, <2>2, <2>4, NoJobIsAJob DEF JobReceipt
    <2> QED BY <1>2, <2>1, <2>3, <2>4 DEF GoodStep
<1> QED BY <1>1, <1>3, <1>4 DEF PersistMoves

LEMMA ExecuteIsGood ==
    ASSUME IInv, NEW h \in Hosts, Execute(h)
    PROVE  GoodStep(h)
<1> USE DEF IInv
<1>1. PICK i \in job[h].id :
         /\ job[h].stage = "execute"
         /\ runs' = [runs EXCEPT ![i] = @ + 1]
         /\ \/ begun' = begun \cup {i} /\ Goes(h, "accepted")
            \/ UNCHANGED begun /\ Goes(h, "unknown")
         /\ UNCHANGED receipts
    BY DEF Execute
<1>2. host[h].stage = "up" /\ i \in Ids /\ job[h].id = {i}
    BY <1>1, NoJobIsAJob DEF JobInv
<1>3. Untouched => /\ receipts[i] = "pending" /\ runs[i] = 0
                   /\ \A j \in Ids \ {i} : job[h].seen[j] = receipts[j]
    BY <1>1 DEF ReceiptInv, JobReceipt
<1>4. /\ \A g \in Hosts \ {h} : job'[g] = job[g]
      /\ job'[h].id = {i} /\ job'[h].seen = job[h].seen
      /\ \/ job'[h].stage = "accepted" /\ i \in begun'
         \/ job'[h].stage = "unknown"
      /\ begun \subseteq begun'
    BY <1>1, <1>2 DEF Goes, TypeOK, Jobs
<1>5. ASSUME Untouched, NEW j \in Ids PROVE TrueOf(j)' /\ Moved(j)
    <2>1. runs'[j] = IF j = i THEN runs[j] + 1 ELSE runs[j]
        BY <1>1, <1>2 DEF TypeOK
    <2> QED BY <1>1, <1>3, <1>4, <1>5, <2>1 DEF ReceiptInv, TrueOf, Moved
<1>6. ASSUME Untouched, NEW j \in job'[h].id PROVE JobReceipt(h, j)'
    BY <1>1, <1>3, <1>4, <1>6 DEF JobReceipt
<1> QED BY <1>2, <1>4, <1>5, <1>6 DEF GoodStep

LEMMA LastIsGood ==
    ASSUME IInv, NEW h \in Hosts, PersistLast(h)
    PROVE  GoodStep(h)
<1> USE DEF IInv
<1>1. PICK i \in Ids, state \in {"accepted", "unknown"} : PersistMoves(h, i, state, state, "none")
    BY PersistEffect DEF PersistLast
<1>2. /\ host[h].stage = "up" /\ job[h].id = {i} /\ job[h].stage = state
      /\ job' = [job EXCEPT ![h] = NoJob]
      /\ UNCHANGED <<runs, begun>>
      /\ Untouched => \/ UNCHANGED receipts
                      \/ receipts' = [receipts EXCEPT ![i] = state]
    BY <1>1 DEF PersistMoves
<1>3. Untouched => receipts[i] = "pending" /\ (state = "accepted" => i \in begun)
    BY <1>2 DEF ReceiptInv, JobReceipt
<1>4. ASSUME Untouched, NEW j \in Ids PROVE TrueOf(j)' /\ Moved(j)
    BY <1>2, <1>3, <1>4 DEF ReceiptInv, TrueOf, Moved, TypeOK
<1>5. job'[h] = NoJob /\ \A g \in Hosts \ {h} : job'[g] = job[g]
    BY <1>2 DEF TypeOK
<1> QED BY <1>2, <1>4, <1>5, NoJobIsAJob DEF GoodStep

LEMMA JobStepIsGood ==
    ASSUME IInv, JobStep
    PROVE  \E h \in Hosts : GoodStep(h)
  BY AcceptIsGood, LoadIsGood, FirstIsGood, ExecuteIsGood, LastIsGood DEF JobStep

LEMMA JobStepKeeps ==
    ASSUME IInv, JobStep
    PROVE  LeaseInv' /\ OneFile' /\ JobInv' /\ ReceiptInv'
<1> USE DEF IInv
<1>1. UNCHANGED leaseVars /\ (Untouched' <=> Untouched)
    BY JobFrame DEF Untouched
<1>2. PICK h \in Hosts : GoodStep(h)
    BY JobStepIsGood
<1>3. LeaseInv' /\ OneFile'
    BY <1>1 DEF LeaseInv, OneFile, leaseVars
<1>4. JobInv'
    BY <1>1, <1>2, NoJobIsAJob DEF JobInv, GoodStep, leaseVars
<1>5. ReceiptInv'
    <2> SUFFICES ASSUME Untouched
                 PROVE  /\ \A i \in Ids : TrueOf(i)'
                        /\ \A g \in Hosts : \A i \in job'[g].id : JobReceipt(g, i)'
        BY <1>1 DEF ReceiptInv, TrueOf
    <2>1. ASSUME NEW g \in Hosts \ {h} PROVE job'[g].id = {}
        <3>1. host[g].stage = "down"
            BY <1>2, <2>1, OnlyOneHost DEF GoodStep
        <3> QED BY <1>2, <3>1, NoJobIsAJob DEF JobInv, GoodStep
    <2> QED BY <1>2, <2>1 DEF GoodStep
<1> QED BY <1>3, <1>4, <1>5

-----------------------------------------------------------------------------
LEMMA InitHolds == Init => IInv
<1> SUFFICES ASSUME Init PROVE IInv
    OBVIOUS
<1>1. PICK i \in setup.ids : draft = [state |-> "editing", id |-> i] /\ used = {i}
    BY DEF Init
<1>2. setup \in Setups /\ i \in Ids
    BY SubmissionAssumption DEF Init
<1>3. TypeOK
    BY <1>1, <1>2, NoJobIsAJob DEF Init, TypeOK, States, Costs
<1>4. LeaseInv /\ OneFile
    BY DEF Init, LeaseInv, OneFile, Down
<1>5. JobInv /\ ReceiptInv
    BY NoJobIsAJob DEF Init, JobInv, ReceiptInv
<1> QED BY <1>3, <1>4, <1>5 DEF IInv

LEMMA NextKeeps == IInv /\ [Next]_vars => IInv'
<1> SUFFICES ASSUME IInv, [Next]_vars PROVE IInv'
    OBVIOUS
<1> USE DEF IInv
<1>1. CASE UNCHANGED vars
    BY <1>1 DEF vars, leaseVars, draftVars, TypeOK, LeaseInv, OneFile, Untouched, JobInv,
                ReceiptInv, JobReceipt
<1>2. CASE LeaseStep
    BY <1>2, LeaseTypes, LeaseKeepsJobs, LockKeepsLease, HintKeepsLease, IdentityKeepsLease,
       DeathKeepsLease, RemovalKeepsLease DEF LeaseStep
<1>3. CASE JobStep
    BY <1>3, JobTypes, JobStepKeeps
<1>4. CASE PageStep
    BY <1>4, PageSteps DEF leaseVars, LeaseInv, OneFile, Untouched, JobInv, ReceiptInv, JobReceipt
<1> QED BY <1>1, <1>2, <1>3, <1>4, NextSplit

(* Every reachable state is well typed and has the lease, job and receipt  *)
(* parts of the invariant.                                                 *)
THEOREM AlwaysIInv == Spec => []IInv
  BY InitHolds, NextKeeps, PTL DEF Spec

(* Of two hosts whose leases pass verify_still_held one is the other,      *)
(* unless the lock file was removed while a host took the lease.           *)
THEOREM AlwaysOneWriter == Spec => []OneWriter
<1>1. IInv => OneWriter
    BY LeaseGivesOneWriter DEF IInv
<1> QED BY <1>1, AlwaysIInv, PTL

(* submit executes an identity once, whatever dies, fails or is repeated.  *)
THEOREM AlwaysRunsOnce == Spec => []RunsOnce
<1>1. IInv => RunsOnce
    BY DEF IInv, ReceiptInv, RunsOnce, Untouched
<1> QED BY <1>1, AlwaysIInv, PTL

(* What a receipt says happened did happen, and what it excludes did not.  *)
THEOREM ReceiptsAreTrue == Spec => []ReceiptIsTrue
<1>1. IInv => ReceiptIsTrue
    BY DEF IInv, ReceiptInv, ReceiptIsTrue, Untouched
<1> QED BY <1>1, AlwaysIInv, PTL

(* A receipt on disk is never lost or changed but for the pending one,     *)
(* which is settled by the result of its run.                              *)
THEOREM ReceiptsAlwaysStay == Spec => ReceiptsStay
<1> DEFINE Stay == spent'["removals"] = 0 =>
         \A i \in Ids : receipts[i] # "none" /\ receipts'[i] # receipts[i] =>
             receipts[i] = "pending" /\ receipts'[i] \in {"accepted", "unknown"}
<1>1. IInv /\ [Next]_vars => [Stay]_vars
    <2> SUFFICES ASSUME IInv, Next PROVE Stay
        BY DEF Stay
    <2>1. TypeOK BY DEF IInv
    <2>2. CASE LeaseStep
        BY <2>2 DEF LeaseStep, Lock, WriteHint, NoteIdentity, HostDies, LockFileRemoved
    <2>3. CASE PageStep
        BY <2>1, <2>3, PageSteps
    <2>4. CASE JobStep
        BY <2>1, <2>4, JobFrame, JobStepIsGood DEF GoodStep, Moved, Untouched
    <2> QED BY <2>1, <2>2, <2>3, <2>4, NextSplit
<1> QED BY <1>1, AlwaysIInv, PTL DEF Spec, ReceiptsStay
-----------------------------------------------------------------------------
(* The page.  An identity is dead when it never ran and never will: it was *)
(* refused, or nothing of it is under way.                                 *)
Dead(i) ==
    /\ runs[i] = 0
    /\ receipts[i] = "rejected" \/ (i \notin wire /\ \A h \in Hosts : i \notin job[h].id)

(* All of the page's identities are dead but the one it has, and that one  *)
(* too when the page can be sent; nothing is known of an identity the page *)
(* never had; an answer that says refused is right.                        *)
PageInv ==
    /\ draft.id \in used
    /\ \A i \in Ids \ used : /\ i \notin wire /\ \A h \in Hosts : i \notin job[h].id
                             /\ \A a \in answers : a.id # i
    /\ Untouched =>
          /\ \A i \in Ids \ used : runs[i] = 0
          /\ \A i \in used : i # draft.id \/ draft.state \in {"editing", "failed"} => Dead(i)
          /\ \A a \in answers : a.kind = "rejected" => receipts[a.id] = "rejected"

(* What a step of a submission does to the page's world: it takes requests *)
(* off the wire, and it runs and answers what it has in hand.              *)
OwnBusiness(h) ==
    /\ wire' \subseteq wire /\ UNCHANGED draftVars
    /\ \A g \in Hosts : job'[g].id \subseteq job[g].id \cup wire
    /\ \A i \in Ids : runs'[i] = runs[i] \/ i \in job[h].id
    /\ \A a \in answers' :
          \/ a \in answers
          \/ /\ a.id \in job[h].id
             /\ Untouched /\ a.kind = "rejected" => receipts'[a.id] = "rejected"

LEMMA AnswerIsOwn ==
    ASSUME TypeOK, NEW h \in Hosts, NEW kind, Answer(h, kind),
           Untouched /\ kind = "rejected" => \A i \in job[h].id : receipts'[i] = "rejected"
    PROVE  /\ \A g \in Hosts : job'[g].id \subseteq job[g].id \cup wire
           /\ \A a \in answers' :
                 \/ a \in answers
                 \/ /\ a.id \in job[h].id
                    /\ Untouched /\ a.kind = "rejected" => receipts'[a.id] = "rejected"
<1>1. \A g \in Hosts : job'[g].id \subseteq job[g].id
    BY NoJobIsAJob DEF Answer, TypeOK
<1>2. \A a \in answers' : a \in answers \/ \E i \in job[h].id : a = [id |-> i, kind |-> kind]
    BY DEF Answer
<1> QED BY <1>1, <1>2

LEMMA GoesIsOwn ==
    ASSUME TypeOK, NEW h \in Hosts, NEW to, Goes(h, to)
    PROVE  \A g \in Hosts : job'[g].id \subseteq job[g].id \cup wire
<1>1. \A g \in Hosts : job'[g].id = job[g].id
    BY DEF Goes, TypeOK, Jobs
<1> QED BY <1>1

LEMMA PersistIsOwn ==
    ASSUME TypeOK, NEW h \in Hosts, NEW state \in States, NEW from, NEW to,
           Persist(h, state, [from |-> from, to |-> to])
    PROVE  OwnBusiness(h)
<1>1. wire' \subseteq wire /\ UNCHANGED <<draftVars, runs>>
    BY DEF Persist
<1>2. CASE \E kind : Answer(h, kind)
               /\ (kind = "rejected" => \A i \in job[h].id : receipts'[i] = "rejected")
    BY <1>1, <1>2, AnswerIsOwn DEF OwnBusiness
<1>3. CASE \E stage : Goes(h, stage) /\ UNCHANGED answers
    BY <1>1, <1>3, GoesIsOwn DEF OwnBusiness
<1>4. job[h].id \subseteq Ids
    BY DEF TypeOK, Jobs
<1>5. ASSUME receipts' = [i \in Ids |-> IF i \in job[h].id THEN state ELSE job[h].seen[i]]
      PROVE  \A i \in job[h].id : receipts'[i] = state
    BY <1>4, <1>5
<1> QED BY <1>2, <1>3, <1>5 DEF Persist

LEMMA JobStepIsOwn ==
    ASSUME IInv, JobStep
    PROVE  \E h \in Hosts : OwnBusiness(h)
<1> USE DEF IInv
<1>1. ASSUME NEW h \in Hosts, NEW i \in Ids, Accept(h, i) PROVE OwnBusiness(h)
    <2>1. PICK valid \in BOOLEAN :
             job' = [job EXCEPT ![h] = [NoJob EXCEPT !.stage = "gate", !.id = {i}, !.valid = valid]]
        BY <1>1 DEF Accept
    <2>2. job'[h].id = {i} /\ \A g \in Hosts \ {h} : job'[g] = job[g]
        BY <2>1 DEF TypeOK, NoJob
    <2>3. i \in wire /\ wire' \subseteq wire /\ UNCHANGED <<draftVars, runs, answers>>
        BY <1>1 DEF Accept
    <2> QED BY <2>2, <2>3 DEF OwnBusiness
<1>2. ASSUME NEW h \in Hosts, Load(h) PROVE OwnBusiness(h)
    <2>1. PICK i \in job[h].id :
             \/ Answer(h, "error")
             \/ Answer(h, receipts[i])
             \/ /\ job' = [job EXCEPT ![h].stage = "pending", ![h].seen = receipts]
                /\ UNCHANGED answers
        BY <1>2 DEF Load
    <2>2. wire' \subseteq wire /\ UNCHANGED <<draftVars, runs, receipts>>
        BY <1>2 DEF Load
    <2>3. CASE Answer(h, "error")
        BY <2>2, <2>3, AnswerIsOwn DEF OwnBusiness
    <2>4. CASE Answer(h, receipts[i])
        <3>1. job[h].id = {i}
            BY <2>1, NoJobIsAJob DEF JobInv
        <3> QED BY <2>2, <2>4, <3>1, AnswerIsOwn DEF OwnBusiness
    <2>5. CASE /\ job' = [job EXCEPT ![h].stage = "pending", ![h].seen = receipts]
               /\ UNCHANGED answers
        <3>1. \A g \in Hosts : job'[g].id = job[g].id
            BY <2>5 DEF TypeOK, Jobs
        <3> QED BY <2>2, <2>5, <3>1 DEF OwnBusiness
    <2> QED BY <2>1, <2>3, <2>4, <2>5
<1>3. ASSUME NEW h \in Hosts, PersistFirst(h) PROVE OwnBusiness(h)
    BY <1>3, PersistIsOwn DEF PersistFirst, States
<1>4. ASSUME NEW h \in Hosts, Execute(h) PROVE OwnBusiness(h)
    <2>1. PICK i \in job[h].id :
             /\ runs' = [runs EXCEPT ![i] = @ + 1]
             /\ Goes(h, "accepted") \/ Goes(h, "unknown")
             /\ UNCHANGED <<draftVars, wire, answers>>
        BY <1>4 DEF Execute
    <2> QED BY <2>1, GoesIsOwn DEF OwnBusiness, TypeOK
<1>5. ASSUME NEW h \in Hosts, PersistLast(h) PROVE OwnBusiness(h)
    BY <1>5, PersistIsOwn DEF PersistLast, States
<1> QED BY <1>1, <1>2, <1>3, <1>4, <1>5 DEF JobStep

LEMMA JobStepKeepsPage ==
    ASSUME IInv, PageInv, JobStep
    PROVE  PageInv'
<1>1. PICK h \in Hosts : OwnBusiness(h)
    BY JobStepIsOwn
<1>2. /\ wire' \subseteq wire /\ draft' = draft /\ used' = used
      /\ \A g \in Hosts : \A i \in job'[g].id : i \in job[g].id \/ i \in wire
    BY <1>1 DEF OwnBusiness, draftVars
<1>3. Untouched' <=> Untouched
    BY JobFrame DEF Untouched, IInv
<1>4. Untouched => \A i \in Ids : TrueOf(i)' /\ Moved(i)
    BY JobStepIsGood DEF GoodStep
<1>5. \A i \in Ids : runs'[i] = runs[i] \/ i \in job[h].id
    BY <1>1 DEF OwnBusiness
<1>6. ASSUME Untouched, NEW i \in Ids, Dead(i) PROVE Dead(i)'
    <2>1. CASE receipts[i] = "rejected"
        <3>1. receipts'[i] = "rejected" /\ runs'[i] = 0
            BY <1>4, <1>6, <2>1 DEF TrueOf, Moved
        <3> QED BY <3>1 DEF Dead
    <2>2. CASE i \notin wire /\ \A g \in Hosts : i \notin job[g].id
        BY <1>2, <1>5, <1>6, <2>2 DEF Dead
    <2> QED BY <1>6, <2>1, <2>2 DEF Dead
<1>7. ASSUME NEW i \in Ids \ used
      PROVE  /\ i \notin wire' /\ \A g \in Hosts : i \notin job'[g].id
             /\ \A a \in answers' : a.id # i
             /\ Untouched => runs'[i] = 0
    BY <1>1, <1>2, <1>5 DEF PageInv, OwnBusiness
<1>8. ASSUME Untouched, NEW a \in answers', a.kind = "rejected" PROVE receipts'[a.id] = "rejected"
    <2>1. CASE a \in answers
        <3>1. receipts[a.id] = "rejected" /\ a.id \in Ids
            BY <1>8, <2>1 DEF PageInv, IInv, TypeOK
        <3> QED BY <1>4, <1>8, <3>1 DEF Moved
    <2>2. CASE a \notin answers
        BY <1>1, <1>8, <2>2 DEF OwnBusiness
    <2> QED BY <2>1, <2>2
<1>9. used \subseteq Ids
    BY DEF IInv, TypeOK
<1>10. /\ draft'.id \in used'
       /\ Untouched' => \A i \in used' :
             i # draft'.id \/ draft'.state \in {"editing", "failed"} => Dead(i)'
    BY <1>2, <1>3, <1>6, <1>9 DEF PageInv
<1> QED BY <1>2, <1>3, <1>7, <1>8, <1>10 DEF PageInv

(* A step of the lease ends the job of a host that dies, and touches       *)
(* nothing else the page knows of.                                         *)
LEMMA LeaseStepKeepsPage ==
    ASSUME IInv, PageInv, LeaseStep
    PROVE  PageInv'
<1> USE DEF IInv
<1>1. UNCHANGED <<receipts, runs, draft, used, wire, answers>>
    BY DEF LeaseStep, Lock, WriteHint, NoteIdentity, HostDies, LockFileRemoved, draftVars
<1>2. \A g \in Hosts : job'[g].id \subseteq job[g].id
    <2>1. ASSUME NEW h \in Hosts, HostDies(h) PROVE \A g \in Hosts : job'[g].id \subseteq job[g].id
        BY <2>1, NoJobIsAJob DEF HostDies, TypeOK
    <2> QED BY <2>1 DEF LeaseStep, Lock, WriteHint, NoteIdentity, LockFileRemoved
<1>3. Untouched' => Untouched
    <2>1. ASSUME LockFileRemoved PROVE spent'["removals"] # 0
        BY <2>1, SpendCounts DEF LockFileRemoved, Costs
    <2>2. ASSUME NEW h \in Hosts, HostDies(h) PROVE spent'["removals"] = spent["removals"]
        BY <2>2, SpendCounts DEF HostDies, Costs
    <2> QED BY <2>1, <2>2 DEF LeaseStep, Lock, WriteHint, NoteIdentity, Untouched
<1>4. ASSUME NEW i, Dead(i) PROVE Dead(i)'
    BY <1>1, <1>2, <1>4 DEF Dead
<1> QED BY <1>1, <1>2, <1>3, <1>4 DEF PageInv

(* A page that turns to one that can be sent was told so by a receipt.     *)
LEMMA PageStepKeepsPage ==
    ASSUME IInv, PageInv, PageStep
    PROVE  PageInv'
<1> USE DEF IInv
<1>1. UNCHANGED <<receipts, job, runs>> /\ (Untouched' <=> Untouched)
    BY PageSteps DEF Untouched
<1>2. draft \in [state : {"editing", "sending", "failed", "unknown", "done"}, id : Ids]
      /\ used \subseteq Ids
    BY DEF TypeOK
<1>3. ASSUME NEW state, Becomes(state), wire' = wire, answers' \subseteq answers,
             Untouched /\ state = "failed" => Dead(draft.id),
             state \in {"sending", "failed", "unknown", "done"}
      PROVE  PageInv'
    <2>1. draft'.id = draft.id /\ draft'.state = state /\ used' = used
        BY <1>2, <1>3 DEF Becomes
    <2>2. \A i : Dead(i)' <=> Dead(i)
        BY <1>1, <1>3 DEF Dead
    <2> QED BY <1>1, <1>3, <2>1, <2>2 DEF PageInv
<1>4. ASSUME NEW i \in Ids, i \in Fresh, Renews(i), Kept, UNCHANGED <<wire, answers>>
      PROVE  PageInv'
    <2>1. draft'.id = i /\ used' = used \cup {i} /\ i \notin used
        BY <1>4 DEF Renews, Fresh
    <2>2. \A j : Dead(j)' <=> Dead(j)
        BY <1>1, <1>4 DEF Dead
    <2>3. Untouched => Dead(i) /\ \A j \in used : Dead(j)
        BY <1>4, <2>1 DEF PageInv, Kept, Dead
    <2> QED BY <1>1, <1>4, <2>1, <2>2, <2>3 DEF PageInv
<1>5. ASSUME NEW state \in {"sending", "unknown"}, draft'.state = state, draft'.id = draft.id,
             used' = used, wire' = wire \cup {draft.id}, UNCHANGED answers
      PROVE  PageInv'
    <2>1. \A j \in used : j # draft.id /\ Dead(j) => Dead(j)'
        BY <1>1, <1>5 DEF Dead
    <2> QED BY <1>1, <1>5, <2>1 DEF PageInv
<1>6. ASSUME NEW h \in Hosts, Check(h) PROVE PageInv'
    <2>1. receipts[draft.id] = "rejected" /\ Untouched => Dead(draft.id)
        BY <1>2 DEF ReceiptInv, Dead
    <2>2. /\ AfterAnswer(receipts[draft.id]) \in {"failed", "unknown", "done"}
          /\ AfterAnswer(receipts[draft.id]) = "failed" => receipts[draft.id] = "rejected"
        BY DEF AfterAnswer
    <2> QED BY <1>3, <1>6, <2>1, <2>2 DEF Check
<1>7. ASSUME NEW a \in answers, Answered(a) PROVE PageInv'
    <2>1. CASE draft.state = "sending" /\ a.id = draft.id
        <3>1. a.kind = "rejected" /\ Untouched => Dead(draft.id)
            BY <1>2, <2>1 DEF PageInv, ReceiptInv, Dead
        <3>2. /\ AfterAnswer(a.kind) \in {"failed", "unknown", "done"}
              /\ AfterAnswer(a.kind) = "failed" => a.kind = "rejected"
            BY DEF AfterAnswer
        <3>3. Becomes(AfterAnswer(a.kind)) /\ wire' = wire /\ answers' \subseteq answers
            BY <1>7, <2>1 DEF Answered
        <3> QED BY <1>3, <3>1, <3>2, <3>3
    <2>2. CASE ~(draft.state = "sending" /\ a.id = draft.id)
        <3>1. UNCHANGED <<draft, used, wire>> /\ answers' \subseteq answers
            BY <1>7, <2>2 DEF Answered, draftVars
        <3>2. \A i : Dead(i)' <=> Dead(i)
            BY <1>1, <3>1 DEF Dead
        <3> QED BY <1>1, <3>1, <3>2 DEF PageInv
    <2> QED BY <2>1, <2>2
<1>8. ASSUME Send PROVE PageInv'
    <2>1. CASE Becomes("sending") /\ wire' = wire \cup {draft.id}
        <3>1. draft'.state = "sending" /\ draft'.id = draft.id /\ used' = used
            BY <1>2, <2>1 DEF Becomes
        <3> QED BY <1>5, <1>8, <2>1, <3>1 DEF Send
    <2>2. CASE Becomes("failed") /\ UNCHANGED wire
        <3>1. Untouched => Dead(draft.id)
            BY <1>8 DEF Send, PageInv
        <3> QED BY <1>3, <1>8, <2>2, <3>1 DEF Send
    <2> QED BY <1>8, <2>1, <2>2 DEF Send
<1>9. ASSUME Repeat PROVE PageInv'
    BY <1>5, <1>9 DEF Repeat, draftVars
<1>10. ASSUME AnswerLost PROVE PageInv'
    BY <1>3, <1>10 DEF AnswerLost
<1>11. ASSUME NEW i \in Ids, Edit(i) PROVE PageInv'
    BY <1>4, <1>11 DEF Edit, Kept
<1>12. ASSUME NEW i \in Ids, Quit(i) PROVE PageInv'
    BY <1>3, <1>4, <1>12 DEF Quit
<1> QED BY <1>6, <1>7, <1>8, <1>9, <1>10, <1>11, <1>12 DEF PageStep

(* Every reachable state has the page's part of the invariant too.         *)
THEOREM AlwaysPageInv == Spec => []PageInv
<1>1. ASSUME Init PROVE PageInv
    <2>1. PICK i \in setup.ids : draft = [state |-> "editing", id |-> i] /\ used = {i}
        BY <1>1 DEF Init
    <2>2. i \in Ids
        BY <1>1, SubmissionAssumption DEF Init
    <2>3. \A j \in Ids : Dead(j)
        BY <1>1, NoJobIsAJob DEF Init, Dead
    <2>4. \A j \in Ids, h \in Hosts : j \notin job[h].id /\ runs[j] = 0
        BY <1>1, NoJobIsAJob DEF Init
    <2> QED BY <1>1, <2>1, <2>2, <2>3, <2>4 DEF Init, PageInv, Dead
<1>2. IInv /\ PageInv /\ [Next]_vars => PageInv'
    <2> SUFFICES ASSUME IInv, PageInv, [Next]_vars PROVE PageInv'
        OBVIOUS
    <2>1. CASE UNCHANGED vars
        BY <2>1 DEF vars, draftVars, PageInv, Dead, Untouched
    <2> QED BY <2>1, NextSplit, JobStepKeepsPage, LeaseStepKeepsPage, PageStepKeepsPage DEF IInv
<1> QED BY <1>1, <1>2, AlwaysIInv, PTL DEF Spec

(* What the user wrote becomes one task at most: an identity the page gave *)
(* up never ran and never will, and only the one it has can.               *)
THEOREM AlwaysOneTaskPerPage == Spec => []OneTaskPerPage
<1>1. IInv /\ PageInv => OneTaskPerPage
    <2> SUFFICES ASSUME IInv, PageInv, Untouched
                 PROVE  /\ \A i, j \in Ids : runs[i] > 0 /\ runs[j] > 0 => i = j
                        /\ draft.state \in {"editing", "failed"} => \A i \in used : runs[i] = 0
        BY DEF OneTaskPerPage, Untouched
    <2>1. \A i \in Ids : i # draft.id => runs[i] = 0
        BY DEF PageInv, Dead
    <2>2. draft.state \in {"editing", "failed"} => \A i \in used : runs[i] = 0
        BY DEF PageInv, Dead
    <2> QED BY <2>1, <2>2
<1> QED BY <1>1, AlwaysIInv, AlwaysPageInv, PTL
=============================================================================
