------------------------ MODULE NotebookSync_proofs -------------------------
(***************************************************************************)
(* That synchronising loses no edit, for every number of devices and of    *)
(* rounds at once, wherever rounds are cut short, and that it brings no    *)
(* deleted note back.                                                      *)
(***************************************************************************)
EXTENDS NotebookSync, FiniteSetTheorems, TLAPS

(* A content that may disappear from the cloud folder or a device: it is   *)
(* kept elsewhere, the user let go of it, or it came in a window of        *)
(* exposure.                                                               *)
SafeSet == saved \cup copies \cup gone \cup exposed \cup {0}
Safe(v) == v \in SafeSet
Held(v, d) == Safe(v) \/ v = local[d]
There(v) == Safe(v) \/ v = remote

Choice == [kind : Kinds, local : Nat, remote : Nat]
Actions == {"none", "upload", "download", "deleteRemote", "deleteLocal", "conflict", "fork"}
Steps == {"off", "list", "tombstone", "plan", "verify", "read", "head", "put", "delete", "get",
          "verifyAgain", "write", "trash", "fork", "baseline", "clearBaseline", "addTombstone",
          "clearDecision"}
Round == [pc : Steps, action : Actions, scan : Nat, list : Nat, base : Nat, bytes : Nat,
          choice : SUBSET Choice]

Types ==
    /\ setup \in Setups
    /\ local \in [Devices -> Nat] /\ remote \in Nat /\ base \in [Devices -> Nat]
    /\ tomb \in [Devices -> SUBSET Nat] /\ decided \in [Devices -> SUBSET Choice]
    /\ asked \in [Devices -> SUBSET [local : Nat, remote : Nat]]
    /\ round \in [Rounds -> Round]
    /\ written \in Nat

(* What a device believes to be synchronised is here and in the cloud, or  *)
(* safe; what it believes to be deleted is here or safe.                   *)
StoreInv(d) ==
    /\ Held(base[d], d) /\ There(base[d])
    /\ \A x \in tomb[d] : Held(x, d)

(* A round that carries out the user's decision: it is the one about what  *)
(* the round found.                                                        *)
ChoiceInv(r) ==
    /\ r.pc = "list" => r.choice = {}
    /\ \A c \in r.choice : c.local = r.scan /\ c.remote = r.list
    /\ r.action = "fork" => r.choice # {}
    /\ r.pc = "fork" => r.action = "fork"
    /\ r.pc = "verify" => r.action # "none"
    /\ r.pc = "read" => r.action = "upload"
    /\ r.pc \in {"head", "put"} => r.action \in {"upload", "deleteRemote"}

(* And what it writes over in the cloud folder the user decided against,   *)
(* or it has been copied: a fork keeps both.                               *)
DecisionInv(r) ==
    r.choice # {} /\ r.action \in {"upload", "deleteRemote"} =>
        Safe(r.list) \/ \E c \in r.choice : c.kind = "keepLocal"

(* One that does not: what it is about to write over is safe, or will be   *)
(* when it finds the note as its plan takes it to be.                      *)
PlanInv(r, d) ==
    /\ r.pc = "verify" =>
          CASE r.action = "upload" -> r.list = r.scan \/ Held(r.list, d)
            [] r.action = "deleteRemote" -> r.scan = 0 /\ Held(r.list, d)
            [] r.action = "download" -> There(r.scan)
            [] OTHER -> TRUE
    /\ r.pc = "read" => Held(r.list, d)
    /\ r.pc = "get" => There(r.scan)
    /\ r.pc \in {"head", "put"} /\ r.action # "deleteRemote" => Safe(r.list) \/ r.list = r.bytes
    /\ r.pc \in {"head", "delete"} /\ r.action = "deleteRemote" => Safe(r.list)
    /\ r.pc \in {"verifyAgain", "write"} => Safe(r.scan) \/ r.scan = r.bytes

(* What a round has in hand, and what it saw when it last looked.          *)
CarryInv(r, d) ==
    /\ Held(r.base, d)
    /\ r.pc \in {"head", "put"} /\ r.action # "deleteRemote" => Held(r.bytes, d)
    /\ r.pc \in {"verifyAgain", "write"} => There(r.bytes)
    /\ r.pc = "baseline" => Held(r.bytes, d) /\ There(r.bytes)
    /\ r.pc \in {"put", "delete"} => Safe(remote) \/ remote = r.list
    /\ r.pc = "put" => r.action # "deleteRemote"
    /\ r.pc = "delete" => r.action = "deleteRemote"
    /\ r.pc = "write" => Safe(local[d]) \/ local[d] = r.scan

RoundInv(r, d) ==
    /\ ChoiceInv(r) /\ DecisionInv(r) /\ CarryInv(r, d)
    /\ r.choice = {} => PlanInv(r, d)

NothingLost ==
    \A n \in 1..written : There(n) \/ \E d \in Active : n = local[d]

IInv ==
    /\ Types /\ NothingLost
    /\ \A d \in Devices : StoreInv(d)
    /\ \A t \in Rounds : RoundInv(round[t], Dev(t))

(* A step keeps what is safe, and what it takes from a device or from the  *)
(* cloud folder becomes safe.                                              *)
Grows == SafeSet \subseteq SafeSet'
LocalKept(d) == local'[d] = local[d] \/ local[d] \in SafeSet'
RemoteKept == remote' = remote \/ remote \in SafeSet'
Kept == Grows /\ RemoteKept /\ \A d \in Devices : LocalKept(d)

(* What comes into the window of the round r of the device d is exposed.   *)
Window(r, d) ==
    /\ r.pc \in {"put", "delete"} => remote' = remote \/ remote' \in SafeSet'
    /\ r.pc = "write" => local'[d] = local[d] \/ local'[d] \in SafeSet'

Quiet == UNCHANGED <<setup, local, remote, saved, copies, gone, exposed, written>>

StoreTypes ==
    /\ local \in [Devices -> Nat] /\ remote \in Nat /\ base \in [Devices -> Nat]
    /\ tomb \in [Devices -> SUBSET Nat] /\ decided \in [Devices -> SUBSET Choice]
    /\ asked \in [Devices -> SUBSET [local : Nat, remote : Nat]]

-----------------------------------------------------------------------------
(* The rounds of an instance are rounds of devices.                        *)
LEMMA Members ==
    ASSUME Types
    PROVE  /\ setup.rounds \subseteq Rounds
           /\ setup.start \in {0, 1}
           /\ setup.kinds \subseteq Kinds
           /\ \A t \in Rounds : Dev(t) \in Devices
           /\ Active \subseteq Devices
<1>1. setup \in [rounds : SUBSET Rounds, edits : Nat, deletes : Nat, decisions : Nat,
                 cuts : Nat, expiries : Nat, blinds : Nat, start : {0, 1},
                 kinds : SUBSET Kinds]
  BY SyncAssumption DEF Types, Kinds
<1>2. setup.rounds \subseteq Rounds /\ setup.start \in {0, 1} /\ setup.kinds \subseteq Kinds
  BY <1>1
<1>3. \A t \in Rounds : Dev(t) \in Devices
  BY SyncAssumption DEF Dev
<1> QED BY <1>2, <1>3 DEF Active

(* What diff.rs's plan acts on: what is uploaded over is the baseline or   *)
(* the same content, what is deleted there was deleted here, and what is   *)
(* downloaded over is the baseline.                                        *)
LEMMA PlanFacts ==
    ASSUME NEW l \in Nat, NEW r \in Nat, NEW b \in Nat, NEW k \in SUBSET Nat
    PROVE  LET a == ActionFor(l, r, b, k)
           IN  /\ a \in Actions \ {"fork"}
               /\ a = "upload" => r = 0 \/ r = l \/ r = b
               /\ a = "deleteRemote" => l = 0 /\ (r \in k \/ r = b)
               /\ a = "download" => l = 0 \/ l = b
<1>1. CASE l = 0 /\ r = 0
  BY <1>1 DEF ActionFor, Actions
<1>2. CASE l # 0 /\ r = 0
  <2>1. CASE b = 0  BY <1>2, <2>1 DEF ActionFor, Actions
  <2>2. CASE b # 0  BY <1>2, <2>2 DEF ActionFor, Actions
  <2> QED BY <2>1, <2>2
<1>3. CASE l # 0 /\ r # 0
  <2>1. CASE b = 0  BY <1>3, <2>1 DEF ActionFor, Actions
  <2>2. CASE b # 0  BY <1>3, <2>2 DEF ActionFor, Actions
  <2> QED BY <2>1, <2>2
<1>4. CASE l = 0 /\ r # 0
  <2>1. CASE k = {}  BY <1>4, <2>1 DEF ActionFor, Actions
  <2>2. CASE k # {}  BY <1>4, <2>2 DEF ActionFor, Actions
  <2> QED BY <2>1, <2>2
<1> QED BY <1>1, <1>2, <1>3, <1>4

(* A thread that runs no round.                                            *)
LEMMA IdleFits ==
    ASSUME NEW d
    PROVE  Idle \in Round /\ RoundInv(Idle, d)
<1>1. Idle \in Round
  BY DEF Idle, Round, Steps, Actions
<1>2. ChoiceInv(Idle) /\ DecisionInv(Idle)
  BY DEF Idle, ChoiceInv, DecisionInv
<1>3. CarryInv(Idle, d)
  BY DEF Idle, CarryInv, Held, Safe, SafeSet
<1>4. PlanInv(Idle, d)
  BY DEF Idle, PlanInv
<1> QED BY <1>1, <1>2, <1>3, <1>4 DEF RoundInv

-----------------------------------------------------------------------------
(* What a round was right to count on it is right to count on after a step *)
(* of somebody else.                                                       *)
LEMMA Frame ==
    ASSUME NEW r, NEW d \in Devices, RoundInv(r, d), Kept, Window(r, d)
    PROVE  RoundInv(r, d)'
<1>1. /\ \A v : Safe(v) => Safe(v)'
      /\ \A v : Held(v, d) => Held(v, d)'
      /\ \A v : There(v) => There(v)'
  BY DEF Kept, Grows, LocalKept, RemoteKept, Safe, Held, There
<1>2. ChoiceInv(r)' /\ DecisionInv(r)'
  BY <1>1 DEF RoundInv, ChoiceInv, DecisionInv
<1>3. CarryInv(r, d)'
  <2>1. r.pc \in {"put", "delete"} => (Safe(remote) \/ remote = r.list)'
    BY <1>1 DEF RoundInv, CarryInv, Window, Safe
  <2>2. r.pc = "write" => (Safe(local[d]) \/ local[d] = r.scan)'
    BY <1>1 DEF RoundInv, CarryInv, Window, Safe
  <2> QED BY <1>1, <2>1, <2>2 DEF RoundInv, CarryInv
<1>4. r.choice = {} => PlanInv(r, d)'
  BY <1>1 DEF RoundInv, PlanInv
<1> QED BY <1>2, <1>3, <1>4 DEF RoundInv

(* The step of a round: everybody else is as in Frame.                     *)
LEMMA RoundMoves ==
    ASSUME IInv, NEW t \in Rounds, NEW n \in Round,
           round' = [round EXCEPT ![t] = n],
           UNCHANGED <<setup, written>>, StoreTypes', Kept,
           \A u \in Rounds \ {t} : Window(round[u], Dev(u)),
           RoundInv(n, Dev(t))', \A d \in Devices : StoreInv(d)'
    PROVE  IInv'
<1>1. round \in [Rounds -> Round]
  BY DEF IInv, Types
<1>2. Types'
  BY <1>1 DEF IInv, Types, StoreTypes
<1>3. ASSUME NEW u \in Rounds
      PROVE  RoundInv(round[u], Dev(u))'
  <2>1. CASE u = t
    <3>1. round'[u] = n
      BY <2>1, <1>1
    <3> QED BY <3>1, <2>1 DEF Dev
  <2>2. CASE u # t
    <3>1. round'[u] = round[u]
      BY <2>2, <1>1
    <3>2. PICK r : r = round[u]
      OBVIOUS
    <3>3. RoundInv(r, Dev(u))'
      BY <3>2, <2>2, Frame, Members DEF IInv, Dev
    <3>4. r = round'[u]
      BY <3>1, <3>2
    <3> QED BY <3>3, <3>4 DEF Dev
  <2> QED BY <2>1, <2>2
<1>4. NothingLost'
  <2>1. Active' = Active /\ Active \subseteq Devices
    BY Members DEF Active, IInv
  <2> QED BY <2>1 DEF IInv, NothingLost, Kept, Grows, LocalKept, RemoteKept, There, Safe
<1> QED BY <1>2, <1>3, <1>4 DEF IInv

(* The step of a round that touches no note.                               *)
LEMMA RoundMovesQuietly ==
    ASSUME IInv, NEW t \in Rounds, NEW n \in Round,
           round' = [round EXCEPT ![t] = n], Quiet, StoreTypes',
           RoundInv(n, Dev(t)), \A d \in Devices : StoreInv(d)'
    PROVE  IInv'
<1>1. Kept /\ \A u \in Rounds : Window(round[u], Dev(u)) /\ Window(n, Dev(u))
  BY DEF Quiet, Kept, Grows, LocalKept, RemoteKept, SafeSet, Window
<1>2. RoundInv(n, Dev(t))'
  BY <1>1, Frame, Members DEF IInv, Dev
<1> QED BY <1>1, <1>2, RoundMoves DEF Quiet

(* A step that changes notes keeps what devices remember of them.          *)
LEMMA StoreFrame ==
    ASSUME IInv, Kept, UNCHANGED <<base, tomb>>
    PROVE  \A d \in Devices : StoreInv(d)'
BY DEF IInv, Kept, Grows, LocalKept, RemoteKept, StoreInv, Held, There, Safe

(* The step of a round that touches no note, nor what the device remembers. *)
LEMMA RoundLooks ==
    ASSUME IInv, NEW t \in Rounds, NEW n \in Round,
           round' = [round EXCEPT ![t] = n], Quiet,
           UNCHANGED <<base, tomb, decided>>,
           asked' \in [Devices -> SUBSET [local : Nat, remote : Nat]],
           RoundInv(n, Dev(t))
    PROVE  IInv'
<1>1. StoreTypes'
  BY DEF IInv, Types, StoreTypes, Quiet
<1>2. \A d \in Devices : StoreInv(d)'
  BY DEF IInv, Quiet, StoreInv, Held, There, Safe, SafeSet
<1> QED BY <1>1, <1>2, RoundMovesQuietly

(* What goes on where a round is at the next step.                         *)
LEMMA RoundTypes ==
    ASSUME Types, NEW t \in Rounds
    PROVE  /\ round[t] \in Round
           /\ \A pc \in Steps : [round[t] EXCEPT !.pc = pc] \in Round
           /\ \A pc : Goes(t, pc) => round' = [round EXCEPT ![t] = [round[t] EXCEPT !.pc = pc]]
           /\ Ends(t) => round' = [round EXCEPT ![t] = Idle]
BY DEF Types, Round, Goes, Ends

(* A round that ends early, as a check of its own, a failed call or the    *)
(* host's death would have it.                                             *)
LEMMA RoundEnds ==
    ASSUME IInv, NEW t \in Rounds, Ends(t), Quiet, UNCHANGED <<base, tomb, decided>>,
           asked' \in [Devices -> SUBSET [local : Nat, remote : Nat]]
    PROVE  IInv'
BY IdleFits, RoundTypes, RoundLooks DEF IInv

-----------------------------------------------------------------------------
(* Up to the plan.                                                         *)
LEMMA ScanStep ==
    ASSUME IInv, NEW t \in Rounds, Scan(t)
    PROVE  IInv'
<1>1. Types /\ Dev(t) \in Devices
  BY Members DEF IInv
<1> DEFINE n == [Idle EXCEPT !.pc = "list", !.scan = local[Dev(t)]]
<1>2. n \in Round
  BY <1>1, IdleFits DEF Types, Round, Steps
<1>3. RoundInv(n, Dev(t))
  <2>1. /\ n.pc = "list" /\ n.action = "none" /\ n.choice = {} /\ n.base = 0
    BY DEF Idle
  <2> HIDE DEF n
  <2> QED BY <2>1 DEF RoundInv, ChoiceInv, DecisionInv, CarryInv, PlanInv, Held, Safe, SafeSet
<1>4. Quiet /\ UNCHANGED <<base, tomb, decided, asked>> /\ round' = [round EXCEPT ![t] = n]
  BY DEF Scan, vault, store, history, Quiet
<1> HIDE DEF n
<1> QED BY <1>1, <1>2, <1>3, <1>4, RoundLooks DEF Types

LEMMA ListStep ==
    ASSUME IInv, NEW t \in Rounds, List(t)
    PROVE  IInv'
<1>1. /\ Types /\ Dev(t) \in Devices /\ round[t] \in Round
      /\ RoundInv(round[t], Dev(t)) /\ round[t].pc = "list"
  BY RoundTypes, Members DEF IInv, List, At
<1> DEFINE n == [round[t] EXCEPT !.pc = "tombstone", !.list = remote]
<1>2. n \in Round
  BY <1>1 DEF Types, Round, Steps
<1>3. RoundInv(n, Dev(t))
  <2>1. /\ n.pc = "tombstone" /\ n.action = round[t].action /\ n.choice = {}
        /\ n.base = round[t].base
    BY <1>1 DEF Round, RoundInv, ChoiceInv
  <2> HIDE DEF n
  <2> QED BY <1>1, <2>1 DEF RoundInv, ChoiceInv, DecisionInv, CarryInv, PlanInv
<1>4. round' = [round EXCEPT ![t] = n]
  BY <1>1 DEF List, Types, Round
<1>5. Quiet /\ UNCHANGED <<base, tomb, decided, asked>>
  BY DEF List, vault, store, history, Quiet
<1> HIDE DEF n
<1> QED BY <1>1, <1>2, <1>3, <1>4, <1>5, RoundLooks DEF Types

(* Only the tombstone changes, and no round reads it before it plans.      *)
LEMMA ExpireStep ==
    ASSUME IInv, NEW t \in Rounds, Expire(t)
    PROVE  IInv'
<1>1. Types /\ Dev(t) \in Devices
  BY Members DEF IInv
<1>2. Quiet /\ UNCHANGED <<base, decided, asked, round>>
  BY DEF Expire, vault, history, Quiet
<1>3. tomb' \in [Devices -> SUBSET Nat] /\ \A d \in Devices : tomb'[d] \subseteq tomb[d]
  BY <1>1 DEF Expire, Types
<1>4. \A d \in Devices : StoreInv(d)'
  BY <1>2, <1>3 DEF IInv, Quiet, StoreInv, Held, There, Safe, SafeSet
<1>5. StoreTypes'
  BY <1>2, <1>3 DEF IInv, Types, StoreTypes, Quiet
<1>6. round[t] \in Round /\ round' = [round EXCEPT ![t] = round[t]]
  BY <1>1, <1>2 DEF Types
<1> QED BY <1>2, <1>4, <1>5, <1>6, RoundMovesQuietly DEF IInv

(* A round that goes on to a step at which nothing is asked of it.         *)
LEMMA PlainStep ==
    ASSUME NEW r \in Round, NEW d, RoundInv(r, d),
           NEW pc \in {"plan", "trash", "clearBaseline", "addTombstone", "clearDecision"}
    PROVE  RoundInv([r EXCEPT !.pc = pc], d)
<1>1. PICK n : n = [r EXCEPT !.pc = pc]
  OBVIOUS
<1>2. /\ n.pc = pc /\ n.action = r.action /\ n.choice = r.choice /\ n.base = r.base
      /\ n.scan = r.scan /\ n.list = r.list
  BY <1>1 DEF Round
<1>3. RoundInv(n, d)
  BY <1>2 DEF RoundInv, ChoiceInv, DecisionInv, CarryInv, PlanInv
<1> QED BY <1>1, <1>3

LEMMA WriteTombstonesStep ==
    ASSUME IInv, NEW t \in Rounds, WriteTombstones(t)
    PROVE  IInv'
<1>1. /\ Types /\ Dev(t) \in Devices /\ round[t] \in Round
      /\ RoundInv(round[t], Dev(t)) /\ round[t].pc = "tombstone"
  BY RoundTypes, Members DEF IInv, WriteTombstones, At
<1>2. /\ Quiet /\ UNCHANGED <<decided, asked>>
      /\ round' = [round EXCEPT ![t] = [round[t] EXCEPT !.pc = "plan"]]
  BY <1>1, RoundTypes DEF WriteTombstones, vault, history, Quiet
<1>3. [round[t] EXCEPT !.pc = "plan"] \in Round
  BY <1>1, RoundTypes DEF Steps
<1>4. RoundInv([round[t] EXCEPT !.pc = "plan"], Dev(t))
  BY <1>1, PlainStep
<1>5. StoreTypes'
  BY <1>1, <1>2 DEF WriteTombstones, Types, StoreTypes, Quiet
<1>6. ASSUME NEW d \in Devices
      PROVE  StoreInv(d)'
  <2>1. StoreInv(d) /\ Held(0, d) /\ There(0)
    BY DEF IInv, Held, There, Safe, SafeSet
  <2>2. /\ base'[d] \in {base[d], 0}
        /\ \A x \in tomb'[d] : x \in tomb[d] \cup {base[d]}
    BY <1>1 DEF WriteTombstones, Types
  <2>3. /\ Held(base'[d], d) /\ There(base'[d])
        /\ \A x \in tomb'[d] : Held(x, d)
    BY <2>1, <2>2 DEF StoreInv
  <2> QED BY <2>3, <1>2 DEF StoreInv, Quiet, Held, There, Safe, SafeSet
<1> QED BY <1>2, <1>3, <1>4, <1>5, <1>6, RoundMovesQuietly

LEMMA PlanStep ==
    ASSUME IInv, NEW t \in Rounds, Plan(t)
    PROVE  IInv'
<1>1. /\ Types /\ Dev(t) \in Devices /\ round[t] \in Round
      /\ RoundInv(round[t], Dev(t)) /\ round[t].pc = "plan"
  BY RoundTypes, Members DEF IInv, Plan, At
<1>2. Quiet /\ UNCHANGED <<base, tomb, decided, asked>>
  BY DEF Plan, vault, store, history, Quiet
<1>3. PICK action : action = ActionFor(round[t].scan, round[t].list, base[Dev(t)], tomb[Dev(t)])
  OBVIOUS
<1>4. CASE action = "none"
  <2>1. Ends(t)
    BY <1>3, <1>4 DEF Plan, Ends
  <2> QED BY <2>1, <1>1, <1>2, RoundEnds DEF Types
<1>5. CASE action # "none"
  <2> DEFINE choice == IF action = "conflict"
                       THEN DecidedFor(decided[Dev(t)], round[t].scan, round[t].list) ELSE {}
             n == [round[t] EXCEPT !.pc = "verify", !.action = action, !.base = base[Dev(t)],
                                   !.choice = choice]
  <2>1. round' = [round EXCEPT ![t] = n]
    BY <1>3, <1>5 DEF Plan
  <2>2. /\ action \in Actions \ {"fork"}
        /\ action = "upload" => round[t].list \in {0, round[t].scan, base[Dev(t)]}
        /\ action = "deleteRemote" => /\ round[t].scan = 0
                                      /\ round[t].list \in tomb[Dev(t)] \cup {base[Dev(t)]}
        /\ action = "download" => round[t].scan \in {0, base[Dev(t)]}
    <3>1. /\ round[t].scan \in Nat /\ round[t].list \in Nat
          /\ base[Dev(t)] \in Nat /\ tomb[Dev(t)] \in SUBSET Nat
      BY <1>1 DEF Types, Round
    <3> QED BY <3>1, <1>3, PlanFacts
  <2>3. /\ choice \in SUBSET Choice
        /\ \A c \in choice : c.local = round[t].scan /\ c.remote = round[t].list
    BY <1>1 DEF Types, DecidedFor
  <2>4. n \in Round
    BY <2>2, <2>3, <1>1 DEF Types, Round, Steps
  <2>5. /\ n.pc = "verify" /\ n.action = action /\ n.base = base[Dev(t)]
        /\ n.choice = choice /\ n.scan = round[t].scan /\ n.list = round[t].list
    BY <1>1 DEF Round
  <2> HIDE DEF n, choice
  <2>6. ChoiceInv(n) /\ DecisionInv(n)
    <3>1. choice # {} => action = "conflict"
      BY DEF choice
    <3> QED BY <2>2, <2>3, <2>5, <3>1, <1>5 DEF ChoiceInv, DecisionInv
  <2>7. StoreInv(Dev(t)) /\ Held(0, Dev(t)) /\ There(0)
    BY <1>1 DEF IInv, Held, There, Safe, SafeSet
  <2>8. CarryInv(n, Dev(t))
    BY <2>5, <2>7 DEF CarryInv, StoreInv
  <2>9. PlanInv(n, Dev(t))
    <3>1. action = "upload" => n.list = n.scan \/ Held(n.list, Dev(t))
      BY <2>2, <2>5, <2>7 DEF StoreInv
    <3>2. action = "deleteRemote" => n.scan = 0 /\ Held(n.list, Dev(t))
      BY <2>2, <2>5, <2>7 DEF StoreInv
    <3>3. action = "download" => There(n.scan)
      BY <2>2, <2>5, <2>7 DEF StoreInv
    <3> QED BY <3>1, <3>2, <3>3, <2>5 DEF PlanInv
  <2> QED BY <2>1, <2>4, <2>6, <2>8, <2>9, <1>1, <1>2, RoundLooks DEF RoundInv, Types
<1> QED BY <1>4, <1>5

-----------------------------------------------------------------------------
(* Carrying the plan out.                                                  *)

(* verify: what the plan took the note for is what it is.                  *)
LEMMA VerifyStep ==
    ASSUME IInv, NEW t \in Rounds, Verify(t)
    PROVE  IInv'
<1>1. /\ Types /\ Dev(t) \in Devices /\ round[t] \in Round
      /\ RoundInv(round[t], Dev(t)) /\ round[t].pc = "verify"
  BY RoundTypes, Members DEF IInv, Verify, At
<1>2. Quiet /\ UNCHANGED <<base, tomb, decided>>
  BY DEF Verify, vault, store, history, Quiet
<1> DEFINE r == round[t]
           d == Dev(t)
<1>3. CASE Ends(t) /\ asked' = asked
  BY <1>1, <1>2, <1>3, RoundEnds DEF Types
<1>4. CASE Ends(t) /\ asked' = [asked EXCEPT ![d] = {[local |-> r.scan, remote |-> r.list]}]
  <2>1. asked' \in [Devices -> SUBSET [local : Nat, remote : Nat]]
    BY <1>1, <1>4 DEF Types, Round
  <2> QED BY <2>1, <1>2, <1>4, RoundEnds
<1>5. ASSUME NEW c \in r.choice, round' = [round EXCEPT ![t].action = Carried(r, c.kind)],
             asked' = asked
      PROVE  IInv'
  <2> DEFINE n == [r EXCEPT !.action = Carried(r, c.kind)]
  <2>1. Carried(r, c.kind) \in Actions \ {"none"}
    BY DEF Carried, Actions
  <2>2. n \in Round /\ round' = [round EXCEPT ![t] = n]
    BY <1>1, <1>5, <2>1 DEF Round, Types
  <2>3. /\ n.pc = "verify" /\ n.action # "none" /\ n.choice # {} /\ n.choice = r.choice
        /\ n.base = r.base /\ n.scan = r.scan /\ n.list = r.list
        /\ n.action = Carried(r, c.kind)
    BY <1>1, <2>1 DEF Round
  <2> HIDE DEF n
  <2>4. DecisionInv(n)
    <3>1. n.action \in {"upload", "deleteRemote"} => c.kind = "keepLocal"
      BY <2>3 DEF Carried
    <3> QED BY <3>1, <2>3, <1>5 DEF DecisionInv
  <2>5. RoundInv(n, d)
    BY <1>1, <2>3, <2>4 DEF RoundInv, ChoiceInv, CarryInv
  <2> QED BY <2>2, <2>5, <1>1, <1>2, <1>5, RoundLooks DEF Types
<1>6. ASSUME Verified(t) \/ (local[d] = 0 /\ r.action = "deleteLocal"),
             r.action # "conflict", Goes(t, FirstStep[r.action]), asked' = asked
      PROVE  IInv'
  <2> DEFINE n == [r EXCEPT !.pc = FirstStep[r.action]]
  <2>1. r.action \in {"upload", "download", "deleteRemote", "deleteLocal", "fork"}
    BY <1>1, <1>6 DEF Round, Actions, RoundInv, ChoiceInv
  <2>2. FirstStep[r.action] \in Steps
    BY <2>1 DEF FirstStep, Steps
  <2>3. n \in Round /\ round' = [round EXCEPT ![t] = n]
    BY <1>1, <1>6, <2>2, RoundTypes
  <2>4. /\ n.pc = FirstStep[r.action] /\ n.action = r.action /\ n.choice = r.choice
        /\ n.base = r.base /\ n.scan = r.scan /\ n.list = r.list
    BY <1>1 DEF Round
  <2> HIDE DEF n
  <2>5. /\ r.action = "upload" => n.pc = "read"
        /\ r.action = "download" => n.pc = "get"
        /\ r.action = "deleteRemote" => n.pc = "head"
        /\ r.action = "deleteLocal" => n.pc = "trash"
        /\ r.action = "fork" => n.pc = "fork"
    BY <2>4 DEF FirstStep
  <2>6. ChoiceInv(n) /\ DecisionInv(n)
    BY <2>1, <2>4, <2>5, <1>1 DEF ChoiceInv, DecisionInv, RoundInv
  <2>7. CarryInv(n, d)
    BY <2>1, <2>4, <2>5, <1>1 DEF CarryInv, RoundInv
  <2>8. n.choice = {} => PlanInv(n, d)
    <3> SUFFICES ASSUME r.choice = {}
                 PROVE  PlanInv(n, d)
      BY <2>4
    <3>1. PlanInv(r, d)
      BY <1>1 DEF RoundInv
    <3>2. CASE r.action = "upload"
      BY <3>1, <3>2, <2>4, <2>5, <1>1, <1>6 DEF PlanInv, Verified, Held
    <3>3. CASE r.action = "download"
      BY <3>1, <3>3, <2>4, <2>5, <1>1 DEF PlanInv
    <3>4. CASE r.action = "deleteRemote"
      <4>1. r.scan = 0 /\ Held(r.list, d) /\ local[d] = 0
        BY <3>1, <3>4, <1>1, <1>6 DEF PlanInv, Verified
      <4>2. Safe(r.list)
        BY <4>1 DEF Held, Safe, SafeSet
      <4> QED BY <4>2, <3>4, <2>4, <2>5 DEF PlanInv
    <3>5. CASE r.action \in {"deleteLocal", "fork"}
      BY <3>5, <2>4, <2>5 DEF PlanInv
    <3> QED BY <2>1, <3>2, <3>3, <3>4, <3>5
  <2> QED BY <2>3, <2>6, <2>7, <2>8, <1>1, <1>2, <1>6, RoundLooks DEF RoundInv, Types
<1> QED BY <1>3, <1>4, <1>5, <1>6 DEF Verify

LEMMA ReadStep ==
    ASSUME IInv, NEW t \in Rounds, Read(t)
    PROVE  IInv'
<1>1. /\ Types /\ Dev(t) \in Devices /\ round[t] \in Round
      /\ RoundInv(round[t], Dev(t)) /\ round[t].pc = "read"
  BY RoundTypes, Members DEF IInv, Read, At
<1>2. Quiet /\ UNCHANGED <<base, tomb, decided, asked>>
  BY DEF Read, vault, store, history, Quiet
<1>3. CASE local[Dev(t)] = 0
  BY <1>1, <1>2, <1>3, RoundEnds DEF Read, Types
<1>4. CASE local[Dev(t)] # 0
  <2> DEFINE n == [round[t] EXCEPT !.pc = "head", !.bytes = local[Dev(t)]]
  <2>1. round' = [round EXCEPT ![t] = n]
    BY <1>1, <1>4 DEF Read, Types, Round
  <2>2. n \in Round
    BY <1>1 DEF Types, Round, Steps
  <2>3. /\ n.pc = "head" /\ n.action = round[t].action /\ n.choice = round[t].choice
        /\ n.base = round[t].base /\ n.scan = round[t].scan /\ n.list = round[t].list
        /\ n.bytes = local[Dev(t)]
    BY <1>1 DEF Round
  <2> HIDE DEF n
  <2>4. RoundInv(n, Dev(t))
    BY <1>1, <2>3 DEF RoundInv, ChoiceInv, DecisionInv, CarryInv, PlanInv, Held
  <2> QED BY <2>1, <2>2, <2>4, <1>1, <1>2, RoundLooks DEF Types
<1> QED BY <1>3, <1>4

(* remote_identity_drifted: the cloud folder is as it was listed.          *)
LEMMA HeadStep ==
    ASSUME IInv, NEW t \in Rounds, Head(t)
    PROVE  IInv'
<1>1. /\ Types /\ Dev(t) \in Devices /\ round[t] \in Round
      /\ RoundInv(round[t], Dev(t)) /\ round[t].pc = "head"
  BY RoundTypes, Members DEF IInv, Head, At
<1>2. Quiet /\ UNCHANGED <<base, tomb, decided, asked>>
  BY DEF Head, vault, store, history, Quiet
<1>3. CASE remote # round[t].list
  BY <1>1, <1>2, <1>3, RoundEnds DEF Head, LooksAgain, Types
<1>4. CASE remote = round[t].list
  <2>1. PICK pc \in {"delete", "put"} :
            /\ Goes(t, pc)
            /\ pc = "delete" <=> round[t].action = "deleteRemote"
    BY <1>4 DEF Head, LooksAgain
  <2> DEFINE n == [round[t] EXCEPT !.pc = pc]
  <2>2. n \in Round /\ round' = [round EXCEPT ![t] = n]
    BY <2>1, <1>1, RoundTypes DEF Steps
  <2>3. /\ n.pc = pc /\ n.action = round[t].action /\ n.choice = round[t].choice
        /\ n.base = round[t].base /\ n.scan = round[t].scan /\ n.list = round[t].list
        /\ n.bytes = round[t].bytes
    BY <1>1 DEF Round
  <2> HIDE DEF n
  <2>4. RoundInv(n, Dev(t))
    BY <1>1, <1>4, <2>1, <2>3 DEF RoundInv, ChoiceInv, DecisionInv, CarryInv, PlanInv
  <2> QED BY <2>2, <2>4, <1>1, <1>2, RoundLooks DEF Types
<1> QED BY <1>3, <1>4

(* A listing that fails exposes what lies there to the write that follows. *)
LEMMA HeadFailsStep ==
    ASSUME IInv, NEW t \in Rounds, HeadFails(t)
    PROVE  IInv'
<1>1. /\ Types /\ Dev(t) \in Devices /\ round[t] \in Round
      /\ RoundInv(round[t], Dev(t)) /\ round[t].pc = "head"
  BY RoundTypes, Members DEF IInv, HeadFails, At
<1> DEFINE d == Dev(t)
<1>2. UNCHANGED <<setup, local, remote, saved, copies, gone, written, base, tomb, decided, asked>>
  BY DEF HeadFails, vault, store, history
<1>3. CASE round[t].list # 0
  <2>1. Quiet /\ Ends(t)
    BY <1>2, <1>3 DEF HeadFails, LooksAgain, Quiet
  <2> QED BY <2>1, <1>1, <1>2, RoundEnds DEF Types
<1>4. CASE round[t].list = 0
  <2>1. PICK pc \in {"delete", "put"} :
            /\ Goes(t, pc)
            /\ pc = "delete" <=> round[t].action = "deleteRemote"
    BY <1>4 DEF HeadFails, LooksAgain
  <2>2. PICK r : r = round[t]
    OBVIOUS
  <2>3. PICK n : n = [r EXCEPT !.pc = pc]
    OBVIOUS
  <2>4. n \in Round /\ round' = [round EXCEPT ![t] = n]
    BY <2>1, <2>2, <2>3, <1>1, RoundTypes DEF Steps
  <2>5. /\ n.pc = pc /\ n.action = r.action /\ n.choice = r.choice
        /\ n.base = r.base /\ n.scan = r.scan /\ n.list = r.list /\ n.bytes = r.bytes
    BY <2>2, <2>3, <1>1 DEF Round
  <2>6. exposed' = exposed \cup Content(remote)
    BY <1>4 DEF HeadFails
  <2>7. /\ Kept /\ Window(r, d) /\ \A u \in Rounds : Window(round[u], Dev(u))
        /\ remote' \in SafeSet'
    BY <1>2, <2>6 DEF Kept, Grows, LocalKept, RemoteKept, SafeSet, Window, Content
  <2>8. RoundInv(r, d)'
    BY <2>2, <2>7, <1>1, Frame
  <2>9. RoundInv(n, d)'
    BY <2>1, <2>2, <2>5, <2>7, <2>8, <1>1
       DEF RoundInv, ChoiceInv, DecisionInv, CarryInv, PlanInv, Safe
  <2>10. StoreTypes'
    BY <1>1, <1>2 DEF StoreTypes, Types
  <2> QED BY <2>4, <2>7, <2>9, <2>10, <1>2, StoreFrame, RoundMoves
<1> QED BY <1>3, <1>4

LEMMA GetStep ==
    ASSUME IInv, NEW t \in Rounds, Get(t)
    PROVE  IInv'
<1>1. /\ Types /\ Dev(t) \in Devices /\ round[t] \in Round
      /\ RoundInv(round[t], Dev(t)) /\ round[t].pc = "get"
  BY RoundTypes, Members DEF IInv, Get, At
<1>2. Quiet /\ UNCHANGED <<base, tomb, decided, asked>>
  BY DEF Get, vault, store, history, Quiet
<1>3. CASE remote = 0
  BY <1>1, <1>2, <1>3, RoundEnds DEF Get, Types
<1>4. CASE remote # 0
  <2> DEFINE n == [round[t] EXCEPT !.pc = "verifyAgain", !.bytes = remote]
  <2>1. round' = [round EXCEPT ![t] = n]
    BY <1>1, <1>4 DEF Get, Types, Round
  <2>2. n \in Round
    BY <1>1 DEF Types, Round, Steps
  <2>3. /\ n.pc = "verifyAgain" /\ n.action = round[t].action /\ n.choice = round[t].choice
        /\ n.base = round[t].base /\ n.scan = round[t].scan /\ n.list = round[t].list
        /\ n.bytes = remote
    BY <1>1 DEF Round
  <2> HIDE DEF n
  <2>4. RoundInv(n, Dev(t))
    BY <1>1, <2>3 DEF RoundInv, ChoiceInv, DecisionInv, CarryInv, PlanInv, There
  <2> QED BY <2>1, <2>2, <2>4, <1>1, <1>2, RoundLooks DEF Types
<1> QED BY <1>3, <1>4

LEMMA VerifyAgainStep ==
    ASSUME IInv, NEW t \in Rounds, VerifyAgain(t)
    PROVE  IInv'
<1>1. /\ Types /\ Dev(t) \in Devices /\ round[t] \in Round
      /\ RoundInv(round[t], Dev(t)) /\ round[t].pc = "verifyAgain"
  BY RoundTypes, Members DEF IInv, VerifyAgain, At
<1>2. Quiet /\ UNCHANGED <<base, tomb, decided, asked>>
  BY DEF VerifyAgain, vault, store, history, Quiet
<1>3. CASE ~Verified(t)
  BY <1>1, <1>2, <1>3, RoundEnds DEF VerifyAgain, Types
<1>4. CASE Verified(t)
  <2> DEFINE n == [round[t] EXCEPT !.pc = "write"]
  <2>1. n \in Round /\ round' = [round EXCEPT ![t] = n]
    BY <1>4, <1>1, RoundTypes DEF VerifyAgain, Steps
  <2>2. /\ n.pc = "write" /\ n.action = round[t].action /\ n.choice = round[t].choice
        /\ n.base = round[t].base /\ n.scan = round[t].scan /\ n.list = round[t].list
        /\ n.bytes = round[t].bytes
    BY <1>1 DEF Round
  <2> HIDE DEF n
  <2>3. RoundInv(n, Dev(t))
    BY <1>1, <1>4, <2>2 DEF RoundInv, ChoiceInv, DecisionInv, CarryInv, PlanInv, Verified
  <2> QED BY <2>1, <2>3, <1>1, <1>2, RoundLooks DEF Types
<1> QED BY <1>3, <1>4

-----------------------------------------------------------------------------
(* The writes.                                                             *)

(* The cloud folder's content v goes in: what was there is safe, by the    *)
(* plan, by a fork or because the user decided against it, and v is        *)
(* exposed if somebody has looked already.                                 *)
LEMMA RemoteChanges ==
    ASSUME IInv, NEW t \in Rounds, NEW v \in Nat, RemoteBecomes(t, v),
           UNCHANGED <<local, saved, copies>>,
           round[t].pc \in {"put", "delete"},
           round[t].choice = {} => Safe(round[t].list) \/ round[t].list = v
    PROVE  Kept /\ \A u \in Rounds \ {t} : Window(round[u], Dev(u))
<1>1. RoundInv(round[t], Dev(t))
  BY DEF IInv
<1>2. Grows
  BY DEF Grows, SafeSet, RemoteBecomes
<1>3. Safe(remote) \/ remote = round[t].list
  BY <1>1 DEF RoundInv, CarryInv
<1>4. ASSUME round[t].choice = {}
      PROVE  Kept
  BY <1>2, <1>3, <1>4 DEF Kept, RemoteKept, LocalKept, RemoteBecomes, Grows, Safe
<1>5. ASSUME round[t].choice # {}
      PROVE  Kept
  <2>1. Safe(round[t].list) \/ \E c \in round[t].choice : c.kind = "keepLocal"
    <3>1. round[t].action \in {"upload", "deleteRemote"}
      BY <1>1 DEF RoundInv, ChoiceInv, CarryInv
    <3> QED BY <1>1, <1>5, <3>1 DEF RoundInv, DecisionInv
  <2>2. \A c \in round[t].choice : c.remote = round[t].list
    BY <1>1 DEF RoundInv, ChoiceInv
  <2>3. round[t].list \in SafeSet'
    <3>1. CASE Safe(round[t].list)
      BY <3>1, <1>2 DEF Safe, Grows
    <3>2. ASSUME NEW c \in round[t].choice, c.kind = "keepLocal"
          PROVE  round[t].list \in SafeSet'
      BY <3>2, <2>2 DEF RemoteBecomes, SafeSet
    <3> QED BY <3>1, <3>2, <2>1
  <2> QED BY <1>2, <1>3, <2>3 DEF Kept, RemoteKept, LocalKept, Grows, Safe
<1>6. ASSUME NEW u \in Rounds \ {t}
      PROVE  Window(round[u], Dev(u))
  <2>1. CASE round[u].pc \in {"put", "delete"}
    <3>1. exposed' = exposed \cup Content(v) /\ remote' = v
      BY <2>1 DEF RemoteBecomes
    <3>2. v \in SafeSet'
      BY <3>1 DEF SafeSet, Content
    <3> QED BY <3>1, <3>2, <2>1 DEF Window
  <2>2. CASE round[u].pc \notin {"put", "delete"}
    BY <2>2 DEF Window
  <2> QED BY <2>1, <2>2
<1> QED BY <1>4, <1>5, <1>6

LEMMA PutStep ==
    ASSUME IInv, NEW t \in Rounds, Put(t)
    PROVE  IInv'
<1>1. /\ Types /\ Dev(t) \in Devices /\ round[t] \in Round
      /\ RoundInv(round[t], Dev(t)) /\ round[t].pc = "put"
  BY RoundTypes, Members DEF IInv, Put, At
<1>0. PICK n : n = [round[t] EXCEPT !.pc = "baseline"]
  OBVIOUS
<1>2. n \in Round /\ round' = [round EXCEPT ![t] = n]
  BY <1>0, <1>1, RoundTypes DEF Put, Steps
<1>3. /\ n.pc = "baseline" /\ n.action = round[t].action /\ n.choice = round[t].choice
      /\ n.base = round[t].base /\ n.scan = round[t].scan /\ n.list = round[t].list
      /\ n.bytes = round[t].bytes
  BY <1>0, <1>1 DEF Round
<1>4. round[t].bytes \in Nat /\ RemoteBecomes(t, round[t].bytes)
  BY <1>1 DEF Put, Round
<1>5. UNCHANGED <<setup, local, saved, copies, base, tomb, decided, asked, written>>
  BY DEF Put, vault, store
<1>6. round[t].choice = {} => Safe(round[t].list) \/ round[t].list = round[t].bytes
  BY <1>1 DEF RoundInv, PlanInv, CarryInv
<1>7. Kept /\ \A u \in Rounds \ {t} : Window(round[u], Dev(u))
  BY <1>1, <1>4, <1>5, <1>6, RemoteChanges
<1>8. RoundInv(n, Dev(t))'
  <2>1. Held(n.bytes, Dev(t)) /\ Held(n.base, Dev(t))
    BY <1>1, <1>3 DEF RoundInv, CarryInv
  <2>2. Held(n.bytes, Dev(t))' /\ Held(n.base, Dev(t))'
    BY <2>1, <1>7, <1>1 DEF Kept, Grows, LocalKept, Held, Safe, Dev
  <2>3. There(n.bytes)'
    BY <1>3, <1>4 DEF RemoteBecomes, There
  <2>4. CarryInv(n, Dev(t))'
    BY <2>2, <2>3, <1>3 DEF CarryInv
  <2>5. ChoiceInv(n)' /\ DecisionInv(n)'
    BY <1>1, <1>3, <1>7 DEF RoundInv, ChoiceInv, DecisionInv, Kept, Grows, Safe
  <2>6. PlanInv(n, Dev(t))'
    BY <1>3 DEF PlanInv
  <2> QED BY <2>4, <2>5, <2>6 DEF RoundInv
<1>9. StoreTypes'
  BY <1>1, <1>4, <1>5 DEF StoreTypes, Types, RemoteBecomes
<1> QED BY <1>2, <1>5, <1>7, <1>8, <1>9, StoreFrame, RoundMoves

LEMMA DeleteRemoteStep ==
    ASSUME IInv, NEW t \in Rounds, DeleteRemote(t)
    PROVE  IInv'
<1>1. /\ Types /\ Dev(t) \in Devices /\ round[t] \in Round
      /\ RoundInv(round[t], Dev(t)) /\ round[t].pc = "delete"
  BY RoundTypes, Members DEF IInv, DeleteRemote, At
<1>0. PICK n : n = [round[t] EXCEPT !.pc = "clearBaseline"]
  OBVIOUS
<1>2. n \in Round /\ round' = [round EXCEPT ![t] = n]
  BY <1>0, <1>1, RoundTypes DEF DeleteRemote, Steps
<1>3. RoundInv(n, Dev(t)) /\ n.pc = "clearBaseline"
  BY <1>0, <1>1, PlainStep DEF Round
<1>4. RemoteBecomes(t, 0)
  BY DEF DeleteRemote
<1>5. UNCHANGED <<setup, local, saved, copies, base, tomb, decided, asked, written>>
  BY DEF DeleteRemote, vault, store
<1>6. round[t].choice = {} => Safe(round[t].list)
  BY <1>1 DEF RoundInv, PlanInv, CarryInv
<1>7. Kept /\ \A u \in Rounds \ {t} : Window(round[u], Dev(u))
  BY <1>1, <1>4, <1>5, <1>6, RemoteChanges
<1>8. RoundInv(n, Dev(t))'
  BY <1>1, <1>3, <1>7, Frame DEF Window
<1>9. StoreTypes'
  BY <1>1, <1>4, <1>5 DEF StoreTypes, Types, RemoteBecomes
<1> QED BY <1>2, <1>5, <1>7, <1>8, <1>9, StoreFrame, RoundMoves

LEMMA WriteStep ==
    ASSUME IInv, NEW t \in Rounds, Write(t)
    PROVE  IInv'
<1>1. /\ Types /\ Dev(t) \in Devices /\ round[t] \in Round
      /\ RoundInv(round[t], Dev(t)) /\ round[t].pc = "write"
  BY RoundTypes, Members DEF IInv, Write, At
<1> DEFINE d == Dev(t)
<1>0. PICK n : n = [round[t] EXCEPT !.pc = "baseline"]
  OBVIOUS
<1>2. n \in Round /\ round' = [round EXCEPT ![t] = n]
  BY <1>0, <1>1, RoundTypes DEF Write, Steps
<1>3. /\ n.pc = "baseline" /\ n.action = round[t].action /\ n.choice = round[t].choice
      /\ n.base = round[t].base /\ n.scan = round[t].scan /\ n.list = round[t].list
      /\ n.bytes = round[t].bytes
  BY <1>0, <1>1 DEF Round
<1>4. /\ UNCHANGED <<setup, remote, saved, copies, base, tomb, decided, asked, written>>
      /\ local' = [local EXCEPT ![d] = round[t].bytes]
      /\ gone' = gone \cup {c.local : c \in round[t].choice}
      /\ exposed \subseteq exposed'
      /\ AboutToWrite(d, {t}) => round[t].bytes \in exposed'
  BY DEF Write, store
<1>5. Grows
  BY <1>4 DEF Grows, SafeSet
<1>6. local'[d] = round[t].bytes /\ \A e \in Devices \ {d} : local'[e] = local[e]
  BY <1>1, <1>4 DEF Types
<1>7. LocalKept(d)
  <2>1. Safe(local[d]) \/ local[d] = round[t].scan
    BY <1>1 DEF RoundInv, CarryInv
  <2>2. CASE round[t].choice = {}
    <3>1. Safe(round[t].scan) \/ round[t].scan = round[t].bytes
      BY <1>1, <2>2 DEF RoundInv, PlanInv
    <3> QED BY <2>1, <3>1, <1>5, <1>6 DEF LocalKept, Grows, Safe
  <2>3. CASE round[t].choice # {}
    <3>1. PICK c \in round[t].choice : TRUE
      BY <2>3
    <3>2. c.local = round[t].scan
      BY <1>1 DEF RoundInv, ChoiceInv
    <3>3. round[t].scan \in SafeSet'
      BY <3>1, <3>2, <1>4 DEF SafeSet
    <3> QED BY <2>1, <3>3, <1>5 DEF LocalKept, Grows, Safe
  <2> QED BY <2>2, <2>3
<1>8. Kept
  BY <1>4, <1>5, <1>6, <1>7 DEF Kept, LocalKept, RemoteKept
<1>9. ASSUME NEW u \in Rounds \ {t}
      PROVE  Window(round[u], Dev(u))
  <2>1. CASE Dev(u) = d /\ round[u].pc = "write"
    <3>1. round[t].bytes \in SafeSet'
      BY <2>1, <1>4 DEF AboutToWrite, At, SafeSet
    <3> QED BY <2>1, <3>1, <1>6 DEF Window
  <2>2. CASE Dev(u) # d
    <3>1. local'[Dev(u)] = local[Dev(u)]
      BY <2>2, <1>6, <1>1, Members
    <3> QED BY <3>1, <1>4 DEF Window
  <2>3. CASE round[u].pc # "write"
    BY <2>3, <1>4 DEF Window
  <2> QED BY <2>1, <2>2, <2>3
<1>10. RoundInv(n, d)'
  <2>1. There(n.bytes) /\ Held(n.base, d)
    BY <1>1, <1>3 DEF RoundInv, CarryInv
  <2>2. There(n.bytes)' /\ Held(n.base, d)'
    BY <2>1, <1>8, <1>1 DEF Kept, Grows, LocalKept, RemoteKept, Held, There, Safe, Dev
  <2>3. Held(n.bytes, d)'
    BY <1>3, <1>6 DEF Held, Dev
  <2>4. CarryInv(n, d)'
    BY <2>2, <2>3, <1>3 DEF CarryInv, Dev
  <2>5. ChoiceInv(n)' /\ DecisionInv(n)'
    BY <1>1, <1>3, <1>8 DEF RoundInv, ChoiceInv, DecisionInv, Kept, Grows, Safe
  <2>6. PlanInv(n, d)'
    BY <1>3 DEF PlanInv
  <2> QED BY <2>4, <2>5, <2>6 DEF RoundInv
<1>11. StoreTypes'
  <2>1. round[t].bytes \in Nat
    BY <1>1 DEF Round
  <2> QED BY <2>1, <1>1, <1>4 DEF StoreTypes, Types
<1> QED BY <1>2, <1>4, <1>8, <1>9, <1>10, <1>11, StoreFrame, RoundMoves

(* What goes to the trash is saved.                                        *)
LEMMA TrashStep ==
    ASSUME IInv, NEW t \in Rounds, Trash(t)
    PROVE  IInv'
<1>1. /\ Types /\ Dev(t) \in Devices /\ round[t] \in Round
      /\ RoundInv(round[t], Dev(t)) /\ round[t].pc = "trash"
  BY RoundTypes, Members DEF IInv, Trash, At
<1> DEFINE d == Dev(t)
<1>2. PICK n \in Round : /\ round' = [round EXCEPT ![t] = n] /\ RoundInv(n, d)
                         /\ n.pc \in {"off", "addTombstone"}
  <2>1. CASE local[d] = 0
    <3>1. Idle \in Round /\ RoundInv(Idle, d) /\ Idle.pc = "off"
      BY IdleFits DEF Idle
    <3> QED BY <2>1, <3>1 DEF Trash, Ends
  <2>2. CASE local[d] # 0
    <3>1. PICK n : n = [round[t] EXCEPT !.pc = "addTombstone"]
      OBVIOUS
    <3>2. n \in Round /\ n.pc = "addTombstone"
      BY <3>1, <1>1 DEF Round, Steps
    <3>3. RoundInv(n, d)
      BY <3>1, <1>1, PlainStep
    <3>4. round' = [round EXCEPT ![t] = n]
      BY <3>1, <2>2, <1>1, RoundTypes DEF Trash
    <3> QED BY <3>2, <3>3, <3>4
  <2> QED BY <2>1, <2>2
<1>3. /\ UNCHANGED <<setup, remote, copies, base, tomb, decided, asked, gone, exposed, written>>
      /\ local' = [local EXCEPT ![d] = 0] /\ saved' = saved \cup Content(local[d])
  BY DEF Trash, store, history
<1>4. local'[d] = 0 /\ \A e \in Devices \ {d} : local'[e] = local[e]
  BY <1>1, <1>3 DEF Types
<1>5. Grows /\ 0 \in SafeSet' /\ local[d] \in SafeSet'
  BY <1>3 DEF Grows, SafeSet, Content
<1>6. Kept
  BY <1>3, <1>4, <1>5 DEF Kept, LocalKept, RemoteKept
<1>7. \A u \in Rounds : Window(round[u], Dev(u))
  BY <1>3, <1>4, <1>5, <1>1, Members DEF Window
<1>8. RoundInv(n, d)'
  BY <1>1, <1>2, <1>6, Frame DEF Window
<1>9. StoreTypes'
  BY <1>1, <1>3 DEF StoreTypes, Types
<1> QED BY <1>2, <1>3, <1>6, <1>7, <1>8, <1>9, StoreFrame, RoundMoves

(* What is forked is copied, and the upload that follows has the decision  *)
(* with it.                                                                *)
LEMMA ForkStep ==
    ASSUME IInv, NEW t \in Rounds, Fork(t)
    PROVE  IInv'
<1>1. /\ Types /\ Dev(t) \in Devices /\ round[t] \in Round
      /\ RoundInv(round[t], Dev(t)) /\ round[t].pc = "fork"
  BY RoundTypes, Members DEF IInv, Fork, At
<1> DEFINE d == Dev(t)
<1>2. UNCHANGED <<setup, local, remote, saved, base, tomb, decided, asked, gone, written>>
  BY DEF Fork, store, history
<1>3. CASE remote = 0
  <2>1. Quiet /\ Ends(t)
    BY <1>2, <1>3 DEF Fork, Quiet
  <2> QED BY <2>1, <1>1, <1>2, RoundEnds DEF Types
<1>4. CASE remote # 0
  <2>1. PICK n : n = [round[t] EXCEPT !.pc = "verify", !.action = "upload"]
    OBVIOUS
  <2>2. /\ n \in Round
        /\ n.pc = "verify" /\ n.action = "upload" /\ n.choice = round[t].choice
        /\ n.base = round[t].base /\ n.scan = round[t].scan /\ n.list = round[t].list
    BY <2>1, <1>1 DEF Round, Steps, Actions
  <2>3. n.choice # {}
    BY <2>2, <1>1 DEF RoundInv, ChoiceInv
  <2>4. round' = [round EXCEPT ![t] = n]
    BY <2>1, <1>4, <1>1 DEF Fork, Types, Round
  <2>5. PICK under :
          /\ copies' = (copies \ under) \cup {remote}
          /\ exposed' = exposed \cup ((under \cup Content(round[t].list)) \ {remote})
    BY <1>4 DEF Fork
  <2>6. Grows /\ round[t].list \in SafeSet'
    BY <2>5, <1>2 DEF Grows, SafeSet, Content
  <2>7. Kept /\ \A u \in Rounds : Window(round[u], Dev(u))
    BY <2>6, <1>2 DEF Kept, LocalKept, RemoteKept, Window
  <2>8. Safe(n.list)' /\ Held(n.base, d)'
    BY <1>1, <1>2, <2>2, <2>6 DEF RoundInv, CarryInv, Grows, Safe, Held, Dev
  <2>9. RoundInv(n, d)'
    BY <2>2, <2>3, <2>8, <1>1 DEF RoundInv, ChoiceInv, DecisionInv, CarryInv, Dev
  <2>10. StoreTypes'
    BY <1>1, <1>2 DEF StoreTypes, Types
  <2> QED BY <1>2, <2>2, <2>4, <2>7, <2>9, <2>10, StoreFrame, RoundMoves
<1> QED BY <1>3, <1>4

-----------------------------------------------------------------------------
(* What the device notes when it is done.                                  *)

LEMMA FinishesFits ==
    ASSUME IInv, NEW t \in Rounds, Finishes(t)
    PROVE  \E n \in Round : round' = [round EXCEPT ![t] = n] /\ RoundInv(n, Dev(t))
<1>1. Types /\ round[t] \in Round /\ RoundInv(round[t], Dev(t))
  BY RoundTypes DEF IInv
<1>2. CASE Ends(t)
  BY <1>2, IdleFits DEF Ends
<1>3. CASE Goes(t, "clearDecision")
  <2>1. [round[t] EXCEPT !.pc = "clearDecision"] \in Round
    BY <1>1, RoundTypes DEF Steps
  <2>2. RoundInv([round[t] EXCEPT !.pc = "clearDecision"], Dev(t))
    BY <1>1, PlainStep
  <2> QED BY <2>1, <2>2, <1>1, <1>3, RoundTypes
<1> QED BY <1>2, <1>3 DEF Finishes

(* A device that notes another baseline and other tombstones, of contents  *)
(* that are where it takes them to be.                                     *)
LEMMA Notes ==
    ASSUME IInv, NEW t \in Rounds, NEW n \in Round,
           round' = [round EXCEPT ![t] = n], RoundInv(n, Dev(t)),
           Quiet, UNCHANGED <<decided, asked>>,
           NEW b \in Nat, base' = [base EXCEPT ![Dev(t)] = b],
           Held(b, Dev(t)), There(b),
           NEW k \in SUBSET Nat, tomb' = [tomb EXCEPT ![Dev(t)] = k],
           \A x \in k : Held(x, Dev(t))
    PROVE  IInv'
<1>1. Types /\ Dev(t) \in Devices
  BY Members DEF IInv
<1>2. StoreTypes'
  BY <1>1 DEF StoreTypes, Types, Quiet
<1>3. ASSUME NEW d \in Devices
      PROVE  StoreInv(d)'
  <2>1. StoreInv(d)
    BY DEF IInv
  <2>2. /\ Held(base'[d], d) /\ There(base'[d])
        /\ \A x \in tomb'[d] : Held(x, d)
    BY <2>1, <1>1 DEF StoreInv, Types
  <2> QED BY <2>2 DEF StoreInv, Quiet, Held, There, Safe, SafeSet
<1> QED BY <1>2, <1>3, RoundMovesQuietly

LEMMA SetBaselineStep ==
    ASSUME IInv, NEW t \in Rounds, SetBaseline(t)
    PROVE  IInv'
<1>1. /\ Types /\ Dev(t) \in Devices /\ round[t] \in Round
      /\ RoundInv(round[t], Dev(t)) /\ round[t].pc = "baseline"
  BY RoundTypes, Members DEF IInv, SetBaseline, At
<1>2. PICK n \in Round : round' = [round EXCEPT ![t] = n] /\ RoundInv(n, Dev(t))
  BY FinishesFits DEF SetBaseline
<1>3. /\ Quiet /\ UNCHANGED <<decided, asked>>
      /\ base' = [base EXCEPT ![Dev(t)] = round[t].bytes]
      /\ tomb' = [tomb EXCEPT ![Dev(t)] = {}]
  BY DEF SetBaseline, vault, history, Quiet
<1>4. /\ round[t].bytes \in Nat
      /\ Held(round[t].bytes, Dev(t)) /\ There(round[t].bytes)
  BY <1>1 DEF Round, RoundInv, CarryInv
<1>5. PICK none \in SUBSET Nat : none = {}
  OBVIOUS
<1>6. \A x \in none : Held(x, Dev(t))
  BY <1>5
<1>7. tomb' = [tomb EXCEPT ![Dev(t)] = none]
  BY <1>3, <1>5
<1> QED BY <1>2, <1>3, <1>4, <1>6, <1>7, Notes

LEMMA ClearBaselineStep ==
    ASSUME IInv, NEW t \in Rounds, ClearBaseline(t)
    PROVE  IInv'
<1>1. /\ Types /\ Dev(t) \in Devices /\ round[t] \in Round
      /\ RoundInv(round[t], Dev(t)) /\ round[t].pc = "clearBaseline"
  BY RoundTypes, Members DEF IInv, ClearBaseline, At
<1>2. PICK n \in Round : round' = [round EXCEPT ![t] = n] /\ RoundInv(n, Dev(t))
  BY FinishesFits DEF ClearBaseline
<1>3. /\ Quiet /\ UNCHANGED <<decided, asked>>
      /\ base' = [base EXCEPT ![Dev(t)] = 0]
      /\ tomb' = [tomb EXCEPT ![Dev(t)] = tomb[Dev(t)]]
  BY <1>1 DEF ClearBaseline, vault, history, Quiet, Types
<1>4. Held(0, Dev(t)) /\ There(0)
  BY DEF Held, There, Safe, SafeSet
<1>5. tomb[Dev(t)] \in SUBSET Nat /\ \A x \in tomb[Dev(t)] : Held(x, Dev(t))
  BY <1>1 DEF Types, IInv, StoreInv
<1> QED BY <1>2, <1>3, <1>4, <1>5, Notes

LEMMA AddTombstoneStep ==
    ASSUME IInv, NEW t \in Rounds, AddTombstone(t)
    PROVE  IInv'
<1>1. /\ Types /\ Dev(t) \in Devices /\ round[t] \in Round
      /\ RoundInv(round[t], Dev(t)) /\ round[t].pc = "addTombstone"
  BY RoundTypes, Members DEF IInv, AddTombstone, At
<1>2. PICK n \in Round : round' = [round EXCEPT ![t] = n] /\ RoundInv(n, Dev(t))
  BY FinishesFits DEF AddTombstone
<1>3. /\ Quiet /\ UNCHANGED <<decided, asked>>
      /\ base' = [base EXCEPT ![Dev(t)] = 0]
      /\ tomb' = [tomb EXCEPT ![Dev(t)] = {round[t].base}]
  BY DEF AddTombstone, vault, history, Quiet
<1>4. Held(0, Dev(t)) /\ There(0)
  BY DEF Held, There, Safe, SafeSet
<1>5. {round[t].base} \in SUBSET Nat /\ \A x \in {round[t].base} : Held(x, Dev(t))
  BY <1>1 DEF Round, RoundInv, CarryInv
<1> QED BY <1>2, <1>3, <1>4, <1>5, Notes

LEMMA ClearDecisionStep ==
    ASSUME IInv, NEW t \in Rounds, ClearDecision(t)
    PROVE  IInv'
<1>1. Types /\ Dev(t) \in Devices
  BY Members DEF IInv
<1>2. /\ Quiet /\ UNCHANGED <<base, tomb, asked>> /\ Ends(t)
      /\ decided' = [decided EXCEPT ![Dev(t)] = {}]
  BY DEF ClearDecision, vault, history, Quiet
<1>3. StoreTypes'
  BY <1>1, <1>2 DEF StoreTypes, Types, Quiet
<1>4. \A d \in Devices : StoreInv(d)'
  BY <1>2 DEF IInv, Quiet, StoreInv, Held, There, Safe, SafeSet
<1>5. Idle \in Round /\ RoundInv(Idle, Dev(t)) /\ round' = [round EXCEPT ![t] = Idle]
  BY <1>2, IdleFits DEF Ends
<1> QED BY <1>2, <1>3, <1>4, <1>5, RoundMovesQuietly

(* A round, or the host with it, stops where it is.                        *)
LEMMA CutShortStep ==
    ASSUME IInv, NEW t \in Rounds, CutShort(t)
    PROVE  IInv'
<1>1. Ends(t) /\ Quiet /\ UNCHANGED <<base, tomb, decided, asked>>
  BY DEF CutShort, vault, store, history, Quiet
<1> QED BY <1>1, RoundEnds DEF IInv, Types

-----------------------------------------------------------------------------
(* The user.                                                               *)

(* A step of the user's, which moves no round.                             *)
LEMMA UserMoves ==
    ASSUME IInv, UNCHANGED <<setup, round, base, tomb>>, StoreTypes', Kept,
           \A u \in Rounds : Window(round[u], Dev(u)),
           written' \in Nat, NothingLost'
    PROVE  IInv'
<1>1. Types'
  BY DEF IInv, Types, StoreTypes
<1>2. ASSUME NEW u \in Rounds
      PROVE  RoundInv(round[u], Dev(u))'
  <2>1. PICK r : r = round[u]
    OBVIOUS
  <2>2. RoundInv(r, Dev(u))'
    BY <2>1, Frame, Members DEF IInv, Dev
  <2>3. r = round'[u]
    BY <2>1
  <2> QED BY <2>2, <2>3 DEF Dev
<1> QED BY <1>1, <1>2, StoreFrame DEF IInv

LEMMA StillThere ==
    ASSUME IInv, Kept, UNCHANGED setup
    PROVE  \A n \in 1..written : There(n)' \/ \E d \in Active' : n = local'[d]
<1>1. Active' = Active /\ Active \subseteq Devices
  BY Members DEF Active, IInv
<1> QED BY <1>1 DEF IInv, NothingLost, Kept, Grows, LocalKept, RemoteKept, There, Safe

LEMMA EditStep ==
    ASSUME IInv, NEW d \in Active, Edit(d)
    PROVE  IInv'
<1>1. Types /\ d \in Devices
  BY Members DEF IInv
<1>2. /\ UNCHANGED <<setup, remote, base, tomb, decided, asked, round, saved, copies>>
      /\ written' = written + 1 /\ local' = [local EXCEPT ![d] = written + 1]
      /\ gone' = gone \cup Content(local[d]) /\ exposed \subseteq exposed'
      /\ AboutToWrite(d, {}) => written + 1 \in exposed'
  BY DEF Edit, store
<1>3. local'[d] = written + 1 /\ \A e \in Devices \ {d} : local'[e] = local[e]
  BY <1>1, <1>2 DEF Types
<1>4. Kept
  BY <1>2, <1>3 DEF Kept, Grows, SafeSet, LocalKept, RemoteKept, Content
<1>5. ASSUME NEW u \in Rounds
      PROVE  Window(round[u], Dev(u))
  <2>1. CASE Dev(u) = d /\ round[u].pc = "write"
    <3>1. written + 1 \in SafeSet'
      BY <2>1, <1>2 DEF AboutToWrite, At, SafeSet
    <3> QED BY <2>1, <3>1, <1>3 DEF Window
  <2>2. CASE Dev(u) # d
    <3>1. local'[Dev(u)] = local[Dev(u)]
      BY <2>2, <1>3, <1>1, Members
    <3> QED BY <3>1, <1>2 DEF Window
  <2>3. CASE round[u].pc # "write"
    BY <2>3, <1>2 DEF Window
  <2> QED BY <2>1, <2>2, <2>3
<1>6. written \in Nat /\ written' \in Nat
  BY <1>1, <1>2 DEF Types
<1>7. NothingLost'
  <2>1. ASSUME NEW n \in 1..written'
        PROVE  There(n)' \/ \E e \in Active' : n = local'[e]
    <3>1. CASE n \in 1..written
      BY <3>1, <1>2, <1>4, StillThere
    <3>2. CASE n = written + 1
      <4>1. d \in Active' /\ n = local'[d]
        BY <3>2, <1>2, <1>3 DEF Active
      <4> QED BY <4>1
    <3> QED BY <3>1, <3>2, <1>2, <1>6
  <2> QED BY <2>1 DEF NothingLost
<1>8. StoreTypes'
  BY <1>1, <1>2, <1>6 DEF StoreTypes, Types
<1> QED BY <1>2, <1>4, <1>5, <1>6, <1>7, <1>8, UserMoves

LEMMA DeleteNoteStep ==
    ASSUME IInv, NEW d \in Active, DeleteNote(d)
    PROVE  IInv'
<1>1. Types /\ d \in Devices
  BY Members DEF IInv
<1>2. /\ UNCHANGED <<setup, remote, base, tomb, decided, asked, round, saved, copies, written,
                  exposed>>
      /\ local' = [local EXCEPT ![d] = 0] /\ gone' = gone \cup {local[d]}
  BY DEF DeleteNote, store
<1>3. local'[d] = 0 /\ \A e \in Devices \ {d} : local'[e] = local[e]
  BY <1>1, <1>2 DEF Types
<1>4. Kept /\ 0 \in SafeSet'
  BY <1>2, <1>3 DEF Kept, Grows, SafeSet, LocalKept, RemoteKept
<1>5. \A u \in Rounds : Window(round[u], Dev(u))
  BY <1>1, <1>2, <1>3, <1>4, Members DEF Window
<1>6. NothingLost'
  BY <1>2, <1>4, StillThere DEF NothingLost
<1>7. StoreTypes' /\ written' \in Nat
  BY <1>1, <1>2 DEF StoreTypes, Types
<1> QED BY <1>2, <1>4, <1>5, <1>6, <1>7, UserMoves

LEMMA ResolveStep ==
    ASSUME IInv, NEW d \in Active, Resolve(d)
    PROVE  IInv'
<1>1. Types /\ d \in Devices
  BY Members DEF IInv
<1>2. Quiet /\ UNCHANGED <<base, tomb, asked, round>>
  BY DEF Resolve, vault, history, Quiet
<1>3. decided' \in [Devices -> SUBSET Choice]
  <2>1. CASE decided' = [decided EXCEPT ![d] = {}]
    BY <2>1, <1>1 DEF Types
  <2>2. ASSUME NEW q \in asked[d], NEW kind \in Kinds,
               decided' = [decided EXCEPT ![d] =
                   {[kind |-> kind, local |-> q.local, remote |-> q.remote]}]
        PROVE  decided' \in [Devices -> SUBSET Choice]
    <3>1. q \in [local : Nat, remote : Nat]
      BY <1>1 DEF Types
    <3>2. [kind |-> kind, local |-> q.local, remote |-> q.remote] \in Choice
      BY <3>1 DEF Choice
    <3> QED BY <3>2, <2>2, <1>1 DEF Types
  <2>3. setup.kinds \subseteq Kinds
    BY <1>1, Members
  <2> QED BY <2>1, <2>2, <2>3 DEF Resolve
<1>4. Kept /\ \A u \in Rounds : Window(round[u], Dev(u))
  BY <1>2 DEF Quiet, Kept, Grows, LocalKept, RemoteKept, SafeSet, Window
<1>5. NothingLost'
  BY <1>2, <1>4, StillThere DEF NothingLost, Quiet
<1>6. StoreTypes' /\ written' \in Nat
  BY <1>1, <1>2, <1>3 DEF StoreTypes, Types, Quiet
<1> QED BY <1>2, <1>4, <1>5, <1>6, UserMoves DEF Quiet

-----------------------------------------------------------------------------
LEMMA InitIInv == Init => IInv
<1> SUFFICES ASSUME Init
             PROVE  IInv
  OBVIOUS
<1>1. setup \in Setups /\ setup.start \in {0, 1}
  <2>1. setup \in [rounds : SUBSET Rounds, edits : Nat, deletes : Nat, decisions : Nat,
                   cuts : Nat, expiries : Nat, blinds : Nat, start : {0, 1},
                   kinds : SUBSET {"keepLocal", "keepRemote", "fork"}]
    BY SyncAssumption DEF Init
  <2> QED BY <2>1 DEF Init
<1>2. round = [t \in Rounds |-> Idle] /\ Idle \in Round
  BY IdleFits DEF Init
<1>3. Types
  BY <1>1, <1>2 DEF Init, Types
<1>4. NothingLost
  BY <1>1 DEF Init, NothingLost, There, Safe, SafeSet
<1>5. \A d \in Devices : StoreInv(d)
  BY DEF Init, StoreInv, Held, There
<1>6. \A t \in Rounds : RoundInv(round[t], Dev(t))
  BY <1>2, IdleFits
<1> QED BY <1>3, <1>4, <1>5, <1>6 DEF IInv

(* Every step of a round, of the user and of the host's death keeps the    *)
(* invariant.                                                              *)
LEMMA NextIInv == IInv /\ [Next]_vars => IInv'
<1> SUFFICES ASSUME IInv, [Next]_vars
             PROVE  IInv'
  OBVIOUS
<1>1. CASE UNCHANGED vars
  <2>1. Quiet /\ UNCHANGED <<base, tomb, decided, asked, round>>
    BY <1>1 DEF vars, vault, store, history, Quiet
  <2>2. Kept /\ \A u \in Rounds : Window(round[u], Dev(u))
    BY <2>1 DEF Quiet, Kept, Grows, LocalKept, RemoteKept, SafeSet, Window
  <2>3. NothingLost'
    BY <2>1, <2>2, StillThere DEF NothingLost, Quiet
  <2>4. StoreTypes' /\ written' \in Nat
    BY <2>1 DEF IInv, StoreTypes, Types, Quiet
  <2> QED BY <2>1, <2>2, <2>3, <2>4, UserMoves DEF Quiet
<1>2. ASSUME NEW t \in setup.rounds,
             RoundStep(t) \/ HeadFails(t) \/ Expire(t) \/ CutShort(t)
      PROVE  IInv'
  <2>1. t \in Rounds
    BY Members DEF IInv
  <2> QED BY <1>2, <2>1, ScanStep, ListStep, ExpireStep, WriteTombstonesStep, PlanStep,
             VerifyStep, ReadStep, HeadStep, HeadFailsStep, PutStep, DeleteRemoteStep,
             GetStep, VerifyAgainStep, WriteStep, TrashStep, ForkStep, SetBaselineStep,
             ClearBaselineStep, AddTombstoneStep, ClearDecisionStep, CutShortStep
          DEF RoundStep
<1>3. ASSUME NEW d \in Active, Edit(d) \/ DeleteNote(d) \/ Resolve(d)
      PROVE  IInv'
  BY <1>3, EditStep, DeleteNoteStep, ResolveStep
<1> QED BY <1>1, <1>2, <1>3 DEF Next

(* The inductive invariant of synchronising.                               *)
THEOREM AlwaysIInv == Spec => []IInv
BY InitIInv, NextIInv, PTL DEF Spec

(* However many devices and rounds there are, in whatever order their      *)
(* steps come and wherever they are cut short, engine.rs loses nothing the *)
(* user wrote: it is in the cloud folder, on a device, in a trash or a     *)
(* forked copy, or the user let go of it, or it is exposed.  Exposed are a *)
(* content that comes between a round's last look at the file and its      *)
(* write, one in the cloud folder when that look failed (entry_at), an     *)
(* earlier copy at the path of a fork, and what a fork was decided about   *)
(* when something else was there to be copied.  A fork lets go of nothing. *)
THEOREM AlwaysNoEditLost == Spec => []NoEditLost
<1>1. IInv => NoEditLost
  <2> SUFFICES ASSUME IInv, NEW n \in 1..written
               PROVE  n \in Present \cup gone \cup exposed
    BY DEF NoEditLost
  <2>1. n # 0
    BY DEF IInv, Types
  <2>2. There(n) \/ \E d \in Active : n = local[d]
    BY DEF IInv, NothingLost
  <2>3. CASE There(n)
    BY <2>1, <2>3 DEF There, Safe, SafeSet, Present, Content
  <2>4. ASSUME NEW d \in Active, n = local[d]
        PROVE  n \in Present
    BY <2>1, <2>4 DEF Present, Content
  <2> QED BY <2>2, <2>3, <2>4
<1> QED BY <1>1, AlwaysIInv, PTL

-----------------------------------------------------------------------------
(* That a deleted note stays deleted.  A device whose rounds come one at a  *)
(* time and which once had the note has a baseline or a tombstone of it, so *)
(* a round that finds no note there plans no download.                      *)

(* The user's next content is a new one.                                    *)
NumberInv ==
    /\ spent \in [Costs -> Nat] /\ deleted \in [Devices -> SUBSET Nat]
    /\ remote <= written
    /\ \A d \in Devices : local[d] <= written /\ \A v \in deleted[d] : v # 0 /\ v <= written
    /\ \A t \in Rounds : round[t].bytes <= written

(* A path has a baseline or a tombstone in the store, not both.             *)
RowInv == \A d \in Devices : base[d] = 0 \/ tomb[d] = {}

(* What a round does at each step, with or without a decision.              *)
StageInv(r) ==
    /\ r.action = "deleteRemote" => r.scan = 0
    /\ r.pc \in {"delete", "clearBaseline"} => r.action = "deleteRemote"
    /\ r.pc \in {"get", "verifyAgain", "write"} => r.action = "download"
    /\ r.pc \in {"put", "baseline", "verifyAgain", "write"} => r.bytes # 0
    /\ r.pc = "head" /\ r.action # "deleteRemote" => r.bytes # 0

(* The round r, of a device with baseline b and tombstone k, where the      *)
(* contents D were deleted and x tombstones expired.                        *)
Planned == Steps \ {"off", "list", "tombstone", "clearDecision"}
Heard(r, b, k, D, x) ==
    /\ r.pc \in Planned /\ r.scan = 0 => b = 0
    /\ x = 0 => /\ D # {} => b # 0 \/ k # {}
                /\ /\ r.pc \in Planned \ {"plan"} /\ r.action = "download"
                   /\ r.scan = 0 /\ r.choice = {}
                   => D = {}

Sole(t) == \A u \in setup.rounds : Dev(u) = Dev(t) => u = t

HeardInv(t) ==
    Sole(t) => Heard(round[t], base[Dev(t)], tomb[Dev(t)], deleted[Dev(t)], spent.expiries)

DeletionInv ==
    /\ NumberInv /\ RowInv
    /\ \A t \in Rounds : StageInv(round[t])
    /\ \A t \in setup.rounds : HeardInv(t)

(* The plan of a round that found no note.                                  *)
LEMMA PlanOfNothing ==
    ASSUME NEW l \in Nat, NEW r \in Nat, NEW b \in Nat, NEW k \in SUBSET Nat
    PROVE  /\ ActionFor(l, r, b, k) = "deleteRemote" => l = 0
           /\ ActionFor(l, r, b, k) = "download" /\ l = 0 => k = {}
<1>1. ActionFor(l, r, b, k) = "deleteRemote" => l = 0
  BY PlanFacts
<1>2. CASE l = 0 /\ r = 0
  BY <1>1, <1>2 DEF ActionFor
<1>3. CASE l = 0 /\ r # 0 /\ k # {}
  BY <1>1, <1>3 DEF ActionFor
<1> QED BY <1>1, <1>2, <1>3

(* A round that goes on with its action, and one that ends.                 *)
LEMMA HeardOn ==
    ASSUME NEW r, NEW n, NEW b, NEW k, NEW D, NEW x, Heard(r, b, k, D, x),
           \/ n.pc \notin Planned
           \/ /\ r.pc \in Planned \ {"plan"} /\ n.scan = r.scan
              /\ \/ n.choice # {} \/ n.action # "download"
                 \/ n.choice = r.choice /\ n.action = r.action
    PROVE  Heard(n, b, k, D, x)
BY DEF Heard

LEMMA IdleStage == StageInv(Idle) /\ Idle.pc \notin Planned /\ Idle.bytes = 0
BY DEF Idle, StageInv, Planned

(* The step of a round: the rounds of the same device are this one.         *)
LEMMA RoundHeard ==
    ASSUME IInv, IInv', DeletionInv, NEW t \in setup.rounds,
           \A u \in Rounds \ {t} : round'[u] = round[u],
           UNCHANGED <<setup, deleted, written>>,
           spent' \in [Costs -> Nat], spent'.expiries = 0 => spent.expiries = 0,
           remote' <= written, \A d \in Devices : local'[d] <= written,
           round'[t].bytes <= written,
           \A d \in Devices \ {Dev(t)} : base'[d] = base[d] /\ tomb'[d] = tomb[d],
           base'[Dev(t)] = 0 \/ tomb'[Dev(t)] = {},
           StageInv(round'[t]),
           Sole(t) => Heard(round'[t], base'[Dev(t)], tomb'[Dev(t)], deleted[Dev(t)],
                            spent'.expiries)
    PROVE  DeletionInv'
<1>1. setup.rounds \subseteq Rounds /\ \A u \in Rounds : Dev(u) \in Devices
  BY Members DEF IInv
<1>2. NumberInv'
  BY DEF DeletionInv, NumberInv
<1>3. RowInv'
  BY DEF DeletionInv, RowInv
<1>4. ASSUME NEW u \in Rounds
      PROVE  StageInv(round'[u])
  BY DEF DeletionInv
<1>5. ASSUME NEW u \in setup.rounds, Sole(u)
      PROVE  Heard(round'[u], base'[Dev(u)], tomb'[Dev(u)], deleted'[Dev(u)], spent'.expiries)
  <2>1. CASE u = t
    BY <1>5, <2>1
  <2>2. CASE u # t
    <3>1. Dev(u) # Dev(t) /\ u \in Rounds /\ Dev(u) \in Devices
      BY <1>1, <1>5, <2>2 DEF Sole
    <3>2. Heard(round[u], base[Dev(u)], tomb[Dev(u)], deleted[Dev(u)], spent.expiries)
      BY <1>5 DEF DeletionInv, HeardInv
    <3>3. /\ round'[u] = round[u] /\ base'[Dev(u)] = base[Dev(u)] /\ tomb'[Dev(u)] = tomb[Dev(u)]
          /\ deleted'[Dev(u)] = deleted[Dev(u)]
      BY <2>2, <3>1
    <3> QED BY <3>2, <3>3 DEF Heard
  <2> QED BY <2>1, <2>2
<1>6. \A u \in setup.rounds : HeardInv(u)'
  <2> SUFFICES ASSUME NEW u \in setup.rounds, Sole(u)'
               PROVE  Heard(round'[u], base'[Dev(u)], tomb'[Dev(u)], deleted'[Dev(u)],
                            spent'.expiries)
    BY DEF HeardInv, Dev
  <2>1. Sole(u)
    BY DEF Sole, Dev
  <2> QED BY <1>5, <2>1
<1> QED BY <1>2, <1>3, <1>4, <1>6 DEF DeletionInv

(* A step that leaves the store alone.                                      *)
LEMMA RoundHeardOn ==
    ASSUME IInv, IInv', DeletionInv, NEW t \in setup.rounds,
           \A u \in Rounds \ {t} : round'[u] = round[u],
           UNCHANGED <<setup, deleted, written, base, tomb>>,
           spent' \in [Costs -> Nat], spent'.expiries = spent.expiries,
           remote' <= written, \A d \in Devices : local'[d] <= written,
           round'[t].bytes <= written, StageInv(round'[t]),
           \/ round'[t].pc \notin Planned
           \/ /\ round[t].pc \in Planned \ {"plan"} /\ round'[t].scan = round[t].scan
              /\ \/ round'[t].choice # {} \/ round'[t].action # "download"
                 \/ round'[t].choice = round[t].choice /\ round'[t].action = round[t].action
    PROVE  DeletionInv'
<1>1. ASSUME Sole(t)
      PROVE  Heard(round'[t], base[Dev(t)], tomb[Dev(t)], deleted[Dev(t)], spent.expiries)
  <2>1. Heard(round[t], base[Dev(t)], tomb[Dev(t)], deleted[Dev(t)], spent.expiries)
    BY <1>1 DEF DeletionInv, HeardInv
  <2>2. PICK r, n : r = round[t] /\ n = round'[t]
    OBVIOUS
  <2>3. \/ n.pc \notin Planned
        \/ /\ r.pc \in Planned \ {"plan"} /\ n.scan = r.scan
           /\ \/ n.choice # {} \/ n.action # "download"
              \/ n.choice = r.choice /\ n.action = r.action
    BY <2>2
  <2>4. Heard(n, base[Dev(t)], tomb[Dev(t)], deleted[Dev(t)], spent.expiries)
    BY <2>1, <2>2, <2>3, HeardOn
  <2> QED BY <2>2, <2>4
<1>2. base[Dev(t)] = 0 \/ tomb[Dev(t)] = {}
  BY Members DEF DeletionInv, RowInv, IInv
<1>3. Dev(t) \in Devices
  BY Members DEF IInv
<1> QED BY <1>1, <1>2, <1>3, RoundHeard

LEMMA Facts ==
    ASSUME IInv, DeletionInv, NEW t \in setup.rounds
    PROVE  /\ t \in Rounds /\ Dev(t) \in Devices /\ round \in [Rounds -> Round] /\ round[t] \in Round
           /\ StageInv(round[t]) /\ round[t].bytes <= written /\ written \in Nat
           /\ remote <= written /\ remote \in Nat
           /\ \A d \in Devices : local[d] <= written /\ local[d] \in Nat
           /\ spent \in [Costs -> Nat]
BY Members DEF IInv, Types, DeletionInv, NumberInv

-----------------------------------------------------------------------------
(* The steps that end a round or take it on without a look at the store.    *)
LEMMA EndsHeard ==
    ASSUME IInv, IInv', DeletionInv, NEW t \in setup.rounds, Ends(t),
           UNCHANGED <<setup, deleted, written, base, tomb, remote>>,
           spent' \in [Costs -> Nat], spent'.expiries = spent.expiries,
           \A d \in Devices : local'[d] <= written
    PROVE  DeletionInv'
<1>1. round'[t] = Idle /\ \A u \in Rounds \ {t} : round'[u] = round[u]
  BY Facts DEF Ends
<1> QED BY <1>1, Facts, IdleStage, RoundHeardOn

LEMMA GoesHeard ==
    ASSUME IInv, IInv', DeletionInv, NEW t \in setup.rounds, NEW pc \in Steps, Goes(t, pc),
           UNCHANGED <<setup, deleted, written, base, tomb>>,
           spent' \in [Costs -> Nat], spent'.expiries = spent.expiries,
           remote' <= written, \A d \in Devices : local'[d] <= written,
           \/ pc \notin Planned
           \/ round[t].pc \in Planned \ {"plan"},
           pc \in {"delete", "clearBaseline"} => round[t].action = "deleteRemote",
           pc \in {"get", "verifyAgain", "write"} => round[t].action = "download",
           pc \in {"put", "baseline", "verifyAgain", "write"} => round[t].bytes # 0,
           pc = "head" /\ round[t].action # "deleteRemote" => round[t].bytes # 0
    PROVE  DeletionInv'
<1>1. /\ \A u \in Rounds \ {t} : round'[u] = round[u]
      /\ round'[t].pc = pc /\ round'[t].action = round[t].action /\ round'[t].scan = round[t].scan
      /\ round'[t].bytes = round[t].bytes /\ round'[t].choice = round[t].choice
  BY Facts DEF Goes, Round
<1>2. StageInv(round'[t])
  BY <1>1, Facts DEF StageInv
<1> QED BY <1>1, <1>2, Facts, RoundHeardOn

LEMMA LooksHeard ==
    ASSUME IInv, IInv', DeletionInv, NEW t \in setup.rounds,
           Scan(t) \/ List(t) \/ Read(t) \/ Head(t) \/ HeadFails(t) \/ Get(t)
           \/ VerifyAgain(t) \/ CutShort(t)
    PROVE  DeletionInv'
<1>1. UNCHANGED <<setup, deleted, written, base, tomb, remote, local>>
  BY DEF Scan, List, Read, Head, HeadFails, Get, VerifyAgain, CutShort, vault, store, history
<1>2. CASE Scan(t)
  <2>1. /\ \A u \in Rounds \ {t} : round'[u] = round[u]
        /\ round'[t].pc = "list" /\ round'[t].action = "none" /\ round'[t].bytes = 0
    BY <1>2, Facts DEF Scan, Idle
  <2>2. StageInv(round'[t]) /\ round'[t].pc \notin Planned
    BY <2>1 DEF StageInv, Planned
  <2> QED BY <1>1, <1>2, <2>1, <2>2, Facts, RoundHeardOn DEF Scan
<1>3. CASE List(t)
  <2>1. /\ \A u \in Rounds \ {t} : round'[u] = round[u]
        /\ round'[t].pc = "tombstone" /\ round'[t].action = round[t].action
        /\ round'[t].scan = round[t].scan /\ round'[t].bytes = round[t].bytes
    BY <1>3, Facts DEF List, Round
  <2>2. StageInv(round'[t]) /\ round'[t].pc \notin Planned
    BY <2>1, Facts DEF StageInv, Planned
  <2> QED BY <1>1, <1>3, <2>1, <2>2, Facts, RoundHeardOn DEF List
<1>4. CASE Ends(t) /\ spent' = spent
  BY <1>1, <1>4, Facts, EndsHeard
<1>5. CASE Read(t) /\ local[Dev(t)] # 0
  <2>1. /\ \A u \in Rounds \ {t} : round'[u] = round[u]
        /\ round'[t].pc = "head" /\ round'[t].bytes = local[Dev(t)]
        /\ round'[t].action = round[t].action /\ round'[t].scan = round[t].scan
        /\ round'[t].choice = round[t].choice
    BY <1>5, Facts DEF Read, Round
  <2>2. round[t].pc = "read" /\ "read" \in Planned \ {"plan"}
    BY <1>5 DEF Read, At, Planned, Steps
  <2>3. StageInv(round'[t])
    BY <1>5, <2>1, Facts DEF StageInv
  <2> QED BY <1>1, <1>5, <2>1, <2>2, <2>3, Facts, RoundHeardOn DEF Read
<1>6. CASE Get(t) /\ remote # 0
  <2>1. /\ \A u \in Rounds \ {t} : round'[u] = round[u]
        /\ round'[t].pc = "verifyAgain" /\ round'[t].bytes = remote
        /\ round'[t].action = round[t].action /\ round'[t].scan = round[t].scan
        /\ round'[t].choice = round[t].choice
    BY <1>6, Facts DEF Get, Round
  <2>2. round[t].pc = "get" /\ "get" \in Planned \ {"plan"}
    BY <1>6 DEF Get, At, Planned, Steps
  <2>3. StageInv(round'[t])
    BY <1>6, <2>1, <2>2, Facts DEF StageInv
  <2> QED BY <1>1, <1>6, <2>1, <2>2, <2>3, Facts, RoundHeardOn DEF Get
<1>7. CASE Head(t) \/ HeadFails(t)
  <2>1. spent' \in [Costs -> Nat] /\ spent'.expiries = spent.expiries
    <3>1. spent' = spent \/ spent' = [spent EXCEPT !["blinds"] = @ + 1]
      BY <1>7 DEF Head, HeadFails, Spend
    <3> QED BY <3>1, Facts DEF Costs
  <2>2. CASE Ends(t)
    BY <1>1, <2>1, <2>2, Facts, EndsHeard
  <2>3. CASE ~Ends(t)
    <3>1. PICK pc \in {"delete", "put"} :
            Goes(t, pc) /\ (pc = "delete" <=> round[t].action = "deleteRemote")
      BY <1>7, <2>3 DEF Head, HeadFails, LooksAgain
    <3>2. round[t].pc = "head" /\ "head" \in Planned \ {"plan"} /\ pc \in Steps
      BY <1>7 DEF Head, HeadFails, At, Planned, Steps
    <3>3. /\ pc = "delete" => round[t].action = "deleteRemote"
          /\ pc = "put" => round[t].bytes # 0
      BY <3>1, <3>2, Facts DEF StageInv
    <3> QED BY <1>1, <2>1, <3>1, <3>2, <3>3, Facts, GoesHeard
  <2> QED BY <2>2, <2>3
<1>8. CASE VerifyAgain(t) /\ ~Ends(t)
  <2>1. Goes(t, "write")
    BY <1>8 DEF VerifyAgain
  <2>2. /\ round[t].pc = "verifyAgain" /\ "verifyAgain" \in Planned \ {"plan"}
        /\ "write" \in Steps
    BY <1>8 DEF VerifyAgain, At, Planned, Steps
  <2>3. round[t].action = "download" /\ round[t].bytes # 0
    BY <2>2, Facts DEF StageInv
  <2> QED BY <1>1, <1>8, <2>1, <2>2, <2>3, Facts, GoesHeard DEF VerifyAgain
<1>9. CASE CutShort(t)
  <2>1. spent' = [spent EXCEPT !["cuts"] = @ + 1]
    BY <1>9 DEF CutShort, Spend
  <2>2. spent' \in [Costs -> Nat] /\ spent'.expiries = spent.expiries
    BY <2>1, Facts DEF Costs
  <2> QED BY <1>1, <1>9, <2>2, Facts, EndsHeard DEF CutShort
<1>10. /\ Read(t) => (Ends(t) \/ local[Dev(t)] # 0) /\ spent' = spent
       /\ Get(t) => (Ends(t) \/ remote # 0) /\ spent' = spent
       /\ VerifyAgain(t) => spent' = spent
  BY DEF Read, Get, VerifyAgain
<1> QED BY <1>2, <1>3, <1>4, <1>5, <1>6, <1>7, <1>8, <1>9, <1>10

(* The two steps in which a round decides what to do.                       *)
LEMMA ExpireHeard ==
    ASSUME IInv, IInv', DeletionInv, NEW t \in setup.rounds, Expire(t)
    PROVE  DeletionInv'
<1>1. UNCHANGED <<setup, deleted, written, base, remote, local, round>>
      /\ round[t].pc = "tombstone" /\ "tombstone" \notin Planned
  BY DEF Expire, vault, history, At, Planned
<1>2. tomb' = [tomb EXCEPT ![Dev(t)] = {}] /\ spent' = [spent EXCEPT !["expiries"] = @ + 1]
  BY DEF Expire, Spend
<1>3. spent' \in [Costs -> Nat] /\ spent'.expiries # 0
  <2>1. "expiries" \in Costs /\ spent["expiries"] \in Nat /\ spent["expiries"] + 1 # 0
    BY Facts DEF Costs
  <2> QED BY <1>2, <2>1, Facts
<1>4. /\ tomb'[Dev(t)] = {}
      /\ \A d \in Devices \ {Dev(t)} : base'[d] = base[d] /\ tomb'[d] = tomb[d]
  BY <1>1, <1>2, Facts DEF IInv, Types
<1>5. Heard(round'[t], base'[Dev(t)], tomb'[Dev(t)], deleted[Dev(t)], spent'.expiries)
  BY <1>1, <1>3 DEF Heard
<1> QED BY <1>1, <1>3, <1>4, <1>5, Facts, RoundHeard

LEMMA TombstonesHeard ==
    ASSUME IInv, IInv', DeletionInv, NEW t \in setup.rounds, WriteTombstones(t)
    PROVE  DeletionInv'
<1> DEFINE d == Dev(t)
           due == base[d] # 0 /\ round[t].scan = 0 /\ tomb[d] = {}
<1>1. UNCHANGED <<setup, deleted, written, remote, local, spent>> /\ round[t].pc = "tombstone"
  BY DEF WriteTombstones, vault, history, At
<1>2. /\ \A u \in Rounds \ {t} : round'[u] = round[u]
      /\ round'[t].pc = "plan" /\ round'[t].action = round[t].action
      /\ round'[t].scan = round[t].scan /\ round'[t].bytes = round[t].bytes
  BY Facts DEF WriteTombstones, Goes, Round
<1>3. StageInv(round'[t])
  BY <1>2, Facts DEF StageInv
<1>4. /\ base'[d] = IF due THEN 0 ELSE base[d]
      /\ tomb'[d] = IF due THEN {base[d]} ELSE tomb[d]
      /\ \A e \in Devices \ {d} : base'[e] = base[e] /\ tomb'[e] = tomb[e]
  BY Facts DEF WriteTombstones, IInv, Types
<1>5. base[d] = 0 \/ tomb[d] = {}
  BY Facts DEF DeletionInv, RowInv
<1>6. base'[d] = 0 \/ tomb'[d] = {}
  BY <1>4, <1>5
<1>7. ASSUME Sole(t)
      PROVE  Heard(round'[t], base'[d], tomb'[d], deleted[d], spent'.expiries)
  <2>1. Heard(round[t], base[d], tomb[d], deleted[d], spent.expiries)
    BY <1>7 DEF DeletionInv, HeardInv
  <2>2. round'[t].scan = 0 => base'[d] = 0
    BY <1>2, <1>4, <1>5
  <2>3. spent.expiries = 0 /\ deleted[d] # {} => base'[d] # 0 \/ tomb'[d] # {}
    BY <2>1, <1>4 DEF Heard
  <2>4. spent' = spent /\ round'[t].pc = "plan"
    BY <1>1, <1>2
  <2> QED BY <2>2, <2>3, <2>4 DEF Heard
<1> QED BY <1>1, <1>2, <1>3, <1>4, <1>6, <1>7, Facts, RoundHeard

LEMMA PlanHeard ==
    ASSUME IInv, IInv', DeletionInv, NEW t \in setup.rounds, Plan(t)
    PROVE  DeletionInv'
<1> DEFINE d == Dev(t)
           r == round[t]
<1>1. UNCHANGED <<setup, deleted, written, remote, local, spent, base, tomb>> /\ r.pc = "plan"
  BY DEF Plan, vault, history, store, At
<1>2. PICK action : action = ActionFor(r.scan, r.list, base[d], tomb[d])
  OBVIOUS
<1>3. CASE action = "none"
  <2>1. Ends(t)
    BY <1>2, <1>3 DEF Plan, Ends
  <2> QED BY <1>1, <2>1, Facts, EndsHeard
<1>4. CASE action # "none"
  <2>1. /\ \A u \in Rounds \ {t} : round'[u] = round[u]
        /\ round'[t].pc = "verify" /\ round'[t].action = action
        /\ round'[t].scan = r.scan /\ round'[t].bytes = r.bytes
    BY <1>2, <1>4, Facts DEF Plan, Round
  <2>2. /\ action = "deleteRemote" => r.scan = 0
        /\ action = "download" /\ r.scan = 0 => tomb[d] = {}
    <3>1. r.scan \in Nat /\ r.list \in Nat /\ base[d] \in Nat /\ tomb[d] \in SUBSET Nat
      BY Facts DEF Round, IInv, Types
    <3> QED BY <1>2, <3>1, PlanOfNothing
  <2>3. StageInv(round'[t])
    BY <2>1, <2>2 DEF StageInv
  <2>4. ASSUME Sole(t)
        PROVE  Heard(round'[t], base[d], tomb[d], deleted[d], spent.expiries)
    <3>1. Heard(r, base[d], tomb[d], deleted[d], spent.expiries)
      BY <2>4 DEF DeletionInv, HeardInv
    <3>2. "plan" \in Planned
      BY DEF Planned, Steps
    <3> QED BY <1>1, <2>1, <2>2, <3>1, <3>2 DEF Heard
  <2>5. base[d] = 0 \/ tomb[d] = {}
    BY Facts DEF DeletionInv, RowInv
  <2> QED BY <1>1, <2>1, <2>3, <2>4, <2>5, Facts, RoundHeard
<1> QED BY <1>3, <1>4

LEMMA VerifyHeard ==
    ASSUME IInv, IInv', DeletionInv, NEW t \in setup.rounds, Verify(t)
    PROVE  DeletionInv'
<1> DEFINE r == round[t]
<1>1. UNCHANGED <<setup, deleted, written, remote, local, spent, base, tomb>>
      /\ r.pc = "verify" /\ "verify" \in Planned \ {"plan"}
  BY DEF Verify, vault, history, store, At, Planned, Steps
<1>2. CASE Ends(t)
  BY <1>1, <1>2, Facts, EndsHeard
<1>3. ASSUME NEW c \in r.choice, round' = [round EXCEPT ![t].action = Carried(r, c.kind)]
      PROVE  DeletionInv'
  <2>1. /\ \A u \in Rounds \ {t} : round'[u] = round[u]
        /\ round'[t].pc = "verify" /\ round'[t].action = Carried(r, c.kind)
        /\ round'[t].scan = r.scan /\ round'[t].bytes = r.bytes /\ round'[t].choice = r.choice
    BY <1>1, <1>3, Facts DEF Round
  <2>2. Carried(r, c.kind) = "deleteRemote" => r.scan = 0
    BY DEF Carried
  <2>3. StageInv(round'[t])
    BY <2>1, <2>2 DEF StageInv
  <2>4. round'[t].choice # {}
    BY <2>1, <1>3
  <2> QED BY <1>1, <2>1, <2>3, <2>4, Facts, RoundHeardOn
<1>4. CASE r.action # "conflict" /\ Goes(t, FirstStep[r.action])
  <2>1. r.action \in Actions \ {"none", "conflict"}
    BY <1>1, <1>4, Facts DEF Round, IInv, RoundInv, ChoiceInv
  <2>2. PICK pc : pc = FirstStep[r.action]
    OBVIOUS
  <2>3. /\ pc \in {"read", "get", "head", "trash", "fork"}
        /\ pc = "get" => r.action = "download"
        /\ pc = "head" => r.action = "deleteRemote"
    BY <2>1, <2>2 DEF FirstStep, Actions
  <2>4. pc \in Steps /\ Goes(t, pc)
    BY <1>4, <2>2, <2>3 DEF Steps
  <2> QED BY <1>1, <2>3, <2>4, Facts, GoesHeard
<1> QED BY <1>2, <1>3, <1>4 DEF Verify

(* The steps that write.                                                    *)
LEMMA WritesHeard ==
    ASSUME IInv, IInv', DeletionInv, NEW t \in setup.rounds,
           Put(t) \/ DeleteRemote(t) \/ Write(t) \/ Trash(t) \/ Fork(t)
    PROVE  DeletionInv'
<1>1. UNCHANGED <<setup, deleted, written, spent, base, tomb>>
  BY DEF Put, DeleteRemote, Write, Trash, Fork, RemoteBecomes, store, vault, history
<1>2. CASE Put(t)
  <2>1. /\ Goes(t, "baseline") /\ remote' = round[t].bytes /\ local' = local
        /\ round[t].pc = "put" /\ "put" \in Planned \ {"plan"} /\ "baseline" \in Steps
    BY <1>2 DEF Put, RemoteBecomes, vault, At, Planned, Steps
  <2>2. round[t].bytes # 0
    BY <2>1, Facts DEF StageInv
  <2> QED BY <1>1, <2>1, <2>2, Facts, GoesHeard
<1>3. CASE DeleteRemote(t)
  <2>1. /\ Goes(t, "clearBaseline") /\ remote' = 0 /\ local' = local
        /\ round[t].pc = "delete" /\ "delete" \in Planned \ {"plan"} /\ "clearBaseline" \in Steps
    BY <1>3 DEF DeleteRemote, RemoteBecomes, vault, At, Planned, Steps
  <2>2. round[t].action = "deleteRemote" /\ 0 <= written
    BY <2>1, Facts DEF StageInv
  <2> QED BY <1>1, <2>1, <2>2, Facts, GoesHeard
<1>4. CASE Write(t)
  <2>1. /\ Goes(t, "baseline") /\ remote' = remote
        /\ local' = [local EXCEPT ![Dev(t)] = round[t].bytes]
        /\ round[t].pc = "write" /\ "write" \in Planned \ {"plan"} /\ "baseline" \in Steps
    BY <1>4 DEF Write, At, Planned, Steps
  <2>2. round[t].bytes # 0
    BY <2>1, Facts DEF StageInv
  <2>3. \A d \in Devices : local'[d] <= written
    BY <2>1, Facts DEF IInv, Types
  <2> QED BY <1>1, <2>1, <2>2, <2>3, Facts, GoesHeard
<1>5. CASE Trash(t)
  <2>1. /\ Goes(t, "addTombstone") \/ Ends(t)
        /\ remote' = remote /\ local' = [local EXCEPT ![Dev(t)] = 0]
        /\ round[t].pc = "trash" /\ "trash" \in Planned \ {"plan"} /\ "addTombstone" \in Steps
    BY <1>5 DEF Trash, At, Planned, Steps
  <2>2. \A d \in Devices : local'[d] <= written
    BY <2>1, Facts DEF IInv, Types
  <2>3. CASE Goes(t, "addTombstone")
    BY <1>1, <2>1, <2>2, <2>3, Facts, GoesHeard
  <2>4. CASE Ends(t)
    BY <1>1, <2>1, <2>2, <2>4, Facts, EndsHeard
  <2> QED BY <2>1, <2>3, <2>4
<1>6. CASE Fork(t)
  <2>1. UNCHANGED <<remote, local>>
    BY <1>6 DEF Fork
  <2>2. CASE remote = 0
    BY <1>1, <1>6, <2>1, <2>2, Facts, EndsHeard DEF Fork
  <2>3. CASE remote # 0
    <3>1. /\ \A u \in Rounds \ {t} : round'[u] = round[u]
          /\ round'[t].pc = "verify" /\ round'[t].action = "upload"
          /\ round'[t].scan = round[t].scan /\ round'[t].bytes = round[t].bytes
      BY <1>6, <2>3, Facts DEF Fork, Round
    <3>2. round[t].pc = "fork" /\ "fork" \in Planned \ {"plan"}
      BY <1>6 DEF Fork, At, Planned, Steps
    <3>3. StageInv(round'[t])
      BY <3>1 DEF StageInv
    <3> QED BY <1>1, <2>1, <3>1, <3>2, <3>3, Facts, RoundHeardOn
  <2> QED BY <2>2, <2>3
<1> QED BY <1>2, <1>3, <1>4, <1>5, <1>6

(* The steps that note what was done: a baseline or a tombstone is left.    *)
LEMMA FinishesHeard ==
    ASSUME IInv, DeletionInv, NEW t \in setup.rounds, Finishes(t) \/ Ends(t)
    PROVE  /\ \A u \in Rounds \ {t} : round'[u] = round[u]
           /\ round'[t].pc \notin Planned /\ round'[t].bytes <= written /\ StageInv(round'[t])
<1>1. CASE Ends(t)
  BY <1>1, Facts, IdleStage DEF Ends
<1>2. CASE Goes(t, "clearDecision")
  <2>1. /\ \A u \in Rounds \ {t} : round'[u] = round[u]
        /\ round'[t].pc = "clearDecision" /\ round'[t].action = round[t].action
        /\ round'[t].scan = round[t].scan /\ round'[t].bytes = round[t].bytes
    BY <1>2, Facts DEF Goes, Round
  <2> QED BY <2>1, Facts DEF StageInv, Planned
<1> QED BY <1>1, <1>2 DEF Finishes

LEMMA NotesHeard ==
    ASSUME IInv, IInv', DeletionInv, NEW t \in setup.rounds,
           SetBaseline(t) \/ ClearBaseline(t) \/ AddTombstone(t) \/ ClearDecision(t)
    PROVE  DeletionInv'
<1> DEFINE d == Dev(t)
<1>1. UNCHANGED <<setup, deleted, written, spent, remote, local>>
  BY DEF SetBaseline, ClearBaseline, AddTombstone, ClearDecision, vault, history
<1>2. /\ \A u \in Rounds \ {t} : round'[u] = round[u]
      /\ round'[t].pc \notin Planned /\ round'[t].bytes <= written /\ StageInv(round'[t])
  BY FinishesHeard DEF SetBaseline, ClearBaseline, AddTombstone, ClearDecision
<1>3. CASE ClearDecision(t)
  BY <1>1, <1>2, <1>3, Facts, RoundHeardOn DEF ClearDecision
<1>4. base \in [Devices -> Nat] /\ tomb \in [Devices -> SUBSET Nat] /\ d \in Devices
  BY Facts DEF IInv, Types
<1>5. CASE SetBaseline(t)
  <2>1. /\ base' = [base EXCEPT ![d] = round[t].bytes] /\ tomb' = [tomb EXCEPT ![d] = {}]
        /\ round[t].pc = "baseline"
    BY <1>5 DEF SetBaseline, At
  <2>2. round[t].bytes # 0
    BY <2>1, Facts DEF StageInv
  <2>3. /\ base'[d] # 0 /\ tomb'[d] = {}
        /\ \A e \in Devices \ {d} : base'[e] = base[e] /\ tomb'[e] = tomb[e]
    BY <1>4, <2>1, <2>2
  <2>4. Heard(round'[t], base'[d], tomb'[d], deleted[d], spent'.expiries)
    BY <1>2, <2>3 DEF Heard
  <2> QED BY <1>1, <1>2, <2>3, <2>4, Facts, RoundHeard
<1>6. CASE AddTombstone(t)
  <2>1. base' = [base EXCEPT ![d] = 0] /\ tomb' = [tomb EXCEPT ![d] = {round[t].base}]
    BY <1>6 DEF AddTombstone
  <2>2. /\ base'[d] = 0 /\ tomb'[d] # {}
        /\ \A e \in Devices \ {d} : base'[e] = base[e] /\ tomb'[e] = tomb[e]
    BY <1>4, <2>1
  <2>3. Heard(round'[t], base'[d], tomb'[d], deleted[d], spent'.expiries)
    BY <1>2, <2>2 DEF Heard
  <2> QED BY <1>1, <1>2, <2>2, <2>3, Facts, RoundHeard
<1>7. CASE ClearBaseline(t)
  <2>1. base' = [base EXCEPT ![d] = 0] /\ tomb' = tomb /\ round[t].pc = "clearBaseline"
    BY <1>7 DEF ClearBaseline, At
  <2>2. /\ base'[d] = 0
        /\ \A e \in Devices \ {d} : base'[e] = base[e] /\ tomb'[e] = tomb[e]
    BY <1>4, <2>1
  <2>3. ASSUME Sole(t)
        PROVE  Heard(round'[t], base'[d], tomb'[d], deleted[d], spent'.expiries)
    <3>1. Heard(round[t], base[d], tomb[d], deleted[d], spent.expiries)
      BY <2>3 DEF DeletionInv, HeardInv
    <3>2. round[t].scan = 0
      BY <2>1, Facts DEF StageInv
    <3>3. base[d] = 0
      BY <2>1, <3>1, <3>2 DEF Heard, Planned, Steps
    <3> QED BY <1>1, <1>2, <2>1, <2>2, <3>1, <3>3 DEF Heard
  <2> QED BY <1>1, <1>2, <2>2, <2>3, Facts, RoundHeard
<1> QED BY <1>3, <1>5, <1>6, <1>7

(* The user.  What is deleted in the middle of a round that found no note   *)
(* was not synchronised.                                                    *)
LEMMA UserHeard ==
    ASSUME IInv, IInv', DeletionInv, NEW d \in Active, Edit(d) \/ DeleteNote(d) \/ Resolve(d)
    PROVE  DeletionInv'
<1>1. /\ d \in Devices /\ written \in Nat /\ local \in [Devices -> Nat] /\ remote \in Nat
      /\ round \in [Rounds -> Round] /\ setup.rounds \subseteq Rounds
      /\ \A u \in Rounds : Dev(u) \in Devices
  BY Members DEF IInv, Types
<1>2. UNCHANGED <<setup, remote, base, tomb, round>>
  BY DEF Edit, DeleteNote, Resolve, store, vault
<1>3. \A u \in Rounds : round[u].bytes \in Nat
  BY <1>1 DEF Round
<1>4. /\ spent' \in [Costs -> Nat] /\ spent'.expiries = spent.expiries
  <2>1. \/ spent' = spent
        \/ \E c \in {"deletes", "decisions"} : spent' = [spent EXCEPT ![c] = @ + 1]
    BY DEF Edit, DeleteNote, Resolve, Spend
  <2> QED BY <2>1 DEF DeletionInv, NumberInv, Costs
<1>5. written' \in Nat /\ written <= written' /\ \A e \in Devices : local'[e] <= written'
  <2>1. CASE Edit(d)
    BY <2>1, <1>1 DEF Edit, DeletionInv, NumberInv
  <2>2. CASE DeleteNote(d)
    BY <2>2, <1>1 DEF DeleteNote, DeletionInv, NumberInv
  <2>3. CASE Resolve(d)
    BY <2>3, <1>1 DEF Resolve, vault, history, DeletionInv, NumberInv
  <2> QED BY <2>1, <2>2, <2>3
<1>6. /\ deleted' \in [Devices -> SUBSET Nat]
      /\ \A e \in Devices : \A v \in deleted'[e] :
            v \in deleted[e] \/ (v = local[e] /\ v = base[e] /\ v # 0)
  <2>1. CASE DeleteNote(d)
    BY <2>1, <1>1 DEF DeleteNote, DeletionInv, NumberInv
  <2>2. CASE deleted' = deleted
    BY <2>2 DEF DeletionInv, NumberInv
  <2> QED BY <2>1, <2>2 DEF Edit, Resolve, history
<1>7. NumberInv'
  <2>1. remote' <= written' /\ \A u \in Rounds : round'[u].bytes <= written'
    BY <1>1, <1>2, <1>3, <1>5 DEF DeletionInv, NumberInv
  <2>2. \A e \in Devices : \A v \in deleted'[e] : v # 0 /\ v <= written'
    <3>1. ASSUME NEW e \in Devices, NEW v \in deleted'[e]
          PROVE  v # 0 /\ v <= written /\ v \in Nat
      BY <1>1, <1>6, <3>1 DEF DeletionInv, NumberInv
    <3> QED BY <3>1, <1>1, <1>5
  <2> QED BY <1>4, <1>5, <1>6, <2>1, <2>2 DEF NumberInv
<1>8. RowInv' /\ \A u \in Rounds : StageInv(round'[u])
  BY <1>2 DEF DeletionInv, RowInv
<1>9. ASSUME NEW u \in setup.rounds, Sole(u)
      PROVE  Heard(round[u], base[Dev(u)], tomb[Dev(u)], deleted'[Dev(u)], spent.expiries)
  <2>1. Heard(round[u], base[Dev(u)], tomb[Dev(u)], deleted[Dev(u)], spent.expiries)
    BY <1>9 DEF DeletionInv, HeardInv
  <2>2. Dev(u) \in Devices
    BY <1>1
  <2>3. base[Dev(u)] = 0 => deleted'[Dev(u)] \subseteq deleted[Dev(u)]
    BY <2>2, <1>6
  <2> QED BY <2>1, <2>3 DEF Heard
<1>10. \A u \in setup'.rounds : HeardInv(u)'
  <2> SUFFICES ASSUME NEW u \in setup.rounds, Sole(u)'
               PROVE  Heard(round'[u], base'[Dev(u)], tomb'[Dev(u)], deleted'[Dev(u)],
                            spent'.expiries)
    BY <1>2 DEF HeardInv, Dev
  <2>1. Sole(u)
    BY <1>2 DEF Sole, Dev
  <2> QED BY <1>2, <1>4, <1>9, <2>1
<1> QED BY <1>7, <1>8, <1>10 DEF DeletionInv

LEMMA InitDeletion == Init => DeletionInv
<1> SUFFICES ASSUME Init PROVE DeletionInv
  OBVIOUS
<1>1. IInv /\ setup.start \in {0, 1}
  BY InitIInv, Members DEF IInv
<1>2. NumberInv
  BY <1>1, IdleStage DEF Init, NumberInv, Costs
<1>3. RowInv /\ \A t \in Rounds : StageInv(round[t])
  BY IdleStage DEF Init, RowInv
<1>4. \A t \in setup.rounds : HeardInv(t)
  <2> SUFFICES ASSUME NEW t \in setup.rounds
               PROVE  Heard(round[t], base[Dev(t)], tomb[Dev(t)], deleted[Dev(t)], spent.expiries)
    BY DEF HeardInv
  <2>1. t \in Rounds /\ Dev(t) \in Devices
    BY <1>1, Members DEF IInv
  <2>2. round[t] = Idle /\ deleted[Dev(t)] = {}
    BY <2>1 DEF Init
  <2> QED BY <2>2, IdleStage DEF Heard
<1> QED BY <1>2, <1>3, <1>4 DEF DeletionInv

LEMMA NextDeletion == IInv /\ IInv' /\ DeletionInv /\ [Next]_vars => DeletionInv'
<1> SUFFICES ASSUME IInv, IInv', DeletionInv, [Next]_vars
             PROVE  DeletionInv'
  OBVIOUS
<1>1. CASE UNCHANGED vars
  <2>1. UNCHANGED <<setup, local, remote, base, tomb, round, written, deleted, spent>>
    BY <1>1 DEF vars, vault, store, history
  <2> QED BY <2>1 DEF DeletionInv, NumberInv, RowInv, HeardInv, Sole, Dev
<1>2. ASSUME NEW t \in setup.rounds,
             RoundStep(t) \/ HeadFails(t) \/ Expire(t) \/ CutShort(t)
      PROVE  DeletionInv'
  BY <1>2, LooksHeard, ExpireHeard, TombstonesHeard, PlanHeard, VerifyHeard, WritesHeard,
     NotesHeard DEF RoundStep
<1>3. ASSUME NEW d \in Active, Edit(d) \/ DeleteNote(d) \/ Resolve(d)
      PROVE  DeletionInv'
  BY <1>3, UserHeard
<1> QED BY <1>1, <1>2, <1>3 DEF Next

(* What may bring a content to a device: the user's edit and the write of a *)
(* round.                                                                   *)
LEMMA WhoWrites ==
    ASSUME IInv, [Next]_vars, NEW d \in Active, local[d] = 0, local'[d] # 0
    PROVE  \/ local'[d] = written + 1
           \/ \E t \in setup.rounds : Dev(t) = d /\ Write(t)
<1>1. /\ d \in Devices /\ local \in [Devices -> Nat]
      /\ \A t \in setup.rounds : Dev(t) \in Devices
  BY Members DEF IInv, Types
<1>2. CASE UNCHANGED vars
  BY <1>2 DEF vars, vault
<1>3. ASSUME NEW t \in setup.rounds,
             RoundStep(t) \/ HeadFails(t) \/ Expire(t) \/ CutShort(t)
      PROVE  Dev(t) = d /\ Write(t)
  <2>1. CASE Write(t)
    <3>1. local' = [local EXCEPT ![Dev(t)] = round[t].bytes]
      BY <2>1 DEF Write
    <3> QED BY <1>1, <2>1, <3>1
  <2>2. CASE Trash(t)
    <3>1. local' = [local EXCEPT ![Dev(t)] = 0]
      BY <2>2 DEF Trash
    <3> QED BY <1>1, <3>1
  <2>3. CASE local' = local
    BY <2>3
  <2> QED BY <1>3, <2>1, <2>2, <2>3
          DEF RoundStep, Scan, List, WriteTombstones, Plan, Verify, Read, Head, HeadFails, Put, DeleteRemote,
              Get, VerifyAgain, Fork, SetBaseline, ClearBaseline, AddTombstone, ClearDecision,
              Expire, CutShort, vault
<1>4. ASSUME NEW e \in Active, Edit(e) \/ DeleteNote(e) \/ Resolve(e)
      PROVE  local'[d] = written + 1
  <2>1. CASE Edit(e)
    BY <2>1, <1>1 DEF Edit
  <2>2. CASE DeleteNote(e)
    BY <2>2, <1>1 DEF DeleteNote
  <2>3. CASE Resolve(e)
    BY <2>3 DEF Resolve, vault
  <2> QED BY <1>4, <2>1, <2>2, <2>3
<1> QED BY <1>2, <1>3, <1>4 DEF Next

LEMMA OneIsSole ==
    ASSUME IInv, NEW d, OneAtATime(d), NEW t \in setup.rounds, Dev(t) = d
    PROVE  Sole(t)
<1> DEFINE S == {u \in setup.rounds : Dev(u) = d}
<1>1. IsFiniteSet(S)
  <2>1. S \subseteq Rounds
    BY Members DEF IInv
  <2> QED BY <2>1, SyncAssumption, FS_Subset
<1>2. PICK x : S = {x}
  BY <1>1, FS_Singleton DEF OneAtATime
<1> QED BY <1>2 DEF Sole

(* However many devices there are, wherever rounds are cut short and        *)
(* whatever the others hold: on a device whose rounds come one at a time    *)
(* diff.rs and the tombstones of store.rs see to it that a synchronised     *)
(* note that was deleted does not come back, unless a tombstone expired,    *)
(* the user decided so, or it was deleted under the write of an update.     *)
THEOREM AlwaysNotResurrected == Spec => NotResurrected
<1>1. ASSUME IInv, DeletionInv, [Next]_vars, NEW d \in Active,
             local[d] = 0, local'[d] \in deleted[d], OneAtATime(d)
      PROVE  \/ spent.expiries > 0
             \/ \E t \in setup.rounds : /\ Dev(t) = d /\ At(t, "write")
                                        /\ ByDecision(t) \/ AsUpdate(t)
  <2>1. /\ d \in Devices /\ local'[d] # 0 /\ local'[d] <= written /\ local'[d] \in Nat
        /\ written \in Nat /\ spent.expiries \in Nat
    BY <1>1, Members DEF IInv, Types, DeletionInv, NumberInv, Costs
  <2>2. PICK t \in setup.rounds : Dev(t) = d /\ Write(t)
    BY <1>1, <2>1, WhoWrites
  <2>3. Heard(round[t], base[d], tomb[d], deleted[d], spent.expiries)
    BY <1>1, <2>2, OneIsSole DEF DeletionInv, HeardInv
  <2>4. round[t].pc = "write" /\ "write" \in Planned \ {"plan"}
    BY <2>2 DEF Write, At, Planned, Steps
  <2>5. round[t].action = "download"
    BY <1>1, <2>2, <2>4, Facts DEF StageInv
  <2>6. CASE round[t].scan = 0 /\ round[t].choice = {} /\ spent.expiries = 0
    BY <1>1, <2>3, <2>4, <2>5, <2>6 DEF Heard
  <2> QED BY <2>1, <2>2, <2>4, <2>6 DEF At, ByDecision, AsUpdate
<1>2. IInv /\ DeletionInv /\ [Next]_vars =>
        [\A d \in Active :
            local[d] = 0 /\ local'[d] \in deleted[d] /\ OneAtATime(d) =>
              \/ spent.expiries > 0
              \/ \E t \in setup.rounds : /\ Dev(t) = d /\ At(t, "write")
                                         /\ ByDecision(t) \/ AsUpdate(t)]_vars
  BY <1>1
<1>3. Spec => [](IInv /\ DeletionInv)
  BY InitDeletion, NextDeletion, AlwaysIInv, PTL DEF Spec
<1> QED BY <1>2, <1>3, PTL DEF Spec, NotResurrected
=============================================================================
