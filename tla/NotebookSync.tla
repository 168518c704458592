---------------------------- MODULE NotebookSync ----------------------------
(***************************************************************************)
(* Synchronising one note between devices over a cloud folder              *)
(* (notebook/sync): engine.rs runs a round, diff.rs plans it, store.rs     *)
(* keeps what the device remembers of the note.                            *)
(*                                                                         *)
(* A round scans the vault, lists the remote, writes tombstones, plans and *)
(* carries the plan out; each call that reads or writes one of the three   *)
(* places is a step, and the user, the other devices and another round of  *)
(* the same device (the daemon's and one asked for by hand) get in between. *)
(* A round may end at every step: the host dies or a call fails.  One      *)
(* failure does not end it: a listing before a write that fails is taken   *)
(* for an empty one (remote.rs).                                           *)
(*                                                                         *)
(* Contents are numbered in the order in which they were written, 0 is no  *)
(* file; the hash of a content is its number.  A baseline's two hashes are *)
(* always equal, so it is one number.  A file in the trash is kept for     *)
(* good, a forked copy until another fork is given its path.               *)
(***************************************************************************)
EXTENDS Naturals, FiniteSets

CONSTANTS Devices,
          Rounds,        \* threads that run rounds: a device and a number
          Setups         \* the instances: rounds; bounds: writes, deletions,
                         \* decisions of the user, rounds cut short, tombstones
                         \* that expire, listings that fail before a write;
                         \* the content everybody begins with; what is decided

ASSUME SyncAssumption ==
    /\ IsFiniteSet(Rounds) /\ \A t \in Rounds : t[1] \in Devices
    /\ Setups \subseteq [rounds : SUBSET Rounds, edits : Nat, deletes : Nat, decisions : Nat,
                         cuts : Nat, expiries : Nat, blinds : Nat, start : {0, 1},
                         kinds : SUBSET {"keepLocal", "keepRemote", "fork"}]

VARIABLES setup,
          local,         \* the note on each device
          remote,        \* the note in the cloud folder
          base,          \* baseline
          tomb,          \* tombstone: the set of its remote_hash, or empty
          decided,       \* resolution: what the user chose, and for which contents
          asked,         \* the conflict the device last reported
          round,         \* what each thread is at
          saved,         \* contents in a trash
          copies,        \* contents of the forked copies, each at a path of its own
          written,       \* history: how many contents the user wrote
          gone,          \* history: contents the user wrote over, deleted or decided
                         \* against
          exposed,       \* history: contents that came between a round's last look
                         \* at a file and its write, or that the look failed to see
          deleted,       \* history: contents the user deleted on each device when they
                         \* were its baseline
          spent          \* bounds used up

vault == <<local, saved, copies>>
store == <<base, tomb, decided>>
history == <<written, gone, deleted>>
vars == <<setup, vault, remote, store, asked, round, history, exposed, spent>>

Costs == {"deletes", "decisions", "cuts", "expiries", "blinds"}
Spend(c) == spent[c] < setup[c] /\ spent' = [spent EXCEPT ![c] = @ + 1]

Kinds == {"keepLocal", "keepRemote", "fork"}
Idle == [pc |-> "off", action |-> "none", scan |-> 0, list |-> 0, base |-> 0, bytes |-> 0,
         choice |-> {}]

Init ==
    /\ setup \in Setups
    /\ local = [d \in Devices |-> setup.start] /\ remote = setup.start
    /\ base = local
    /\ tomb = [d \in Devices |-> {}] /\ decided = tomb /\ asked = tomb /\ deleted = tomb
    /\ round = [t \in Rounds |-> Idle]
    /\ saved = {} /\ copies = {} /\ gone = {} /\ exposed = {} /\ written = setup.start
    /\ spent = [c \in Costs |-> 0]

Content(v) == {v} \ {0}

-----------------------------------------------------------------------------
(* diff.rs *)

(* decided_for: both sides must be the ones the user saw. *)
DecidedFor(choices, l, r) == {c \in choices : c.local = l /\ c.remote = r}

(* plan, for a note that is l here and r there, with baseline b and the    *)
(* tombstone k.                                                            *)
ActionFor(l, r, b, k) ==
    CASE l = 0 /\ r = 0 -> "none"
      [] l # 0 /\ r = 0 /\ b = 0 -> "upload"
      [] l # 0 /\ r = 0 /\ b # 0 -> IF l = b THEN "deleteLocal" ELSE "conflict"
      [] l # 0 /\ r # 0 /\ b = 0 -> IF l = r THEN "upload" ELSE "conflict"
      [] l # 0 /\ r # 0 /\ b # 0 ->
            CASE l = b /\ r = b -> "none"
              [] l # b /\ r = b -> "upload"
              [] l = b /\ r # b -> "download"
              [] OTHER -> "conflict"
      [] l = 0 /\ r # 0 /\ k # {} -> IF r \in k THEN "deleteRemote" ELSE "conflict"
      [] OTHER -> IF r = b THEN "deleteRemote" ELSE "download"

-----------------------------------------------------------------------------
(* A round, up to its plan *)

Dev(t) == t[1]
At(t, pc) == round[t].pc = pc
Goes(t, pc) == round' = [round EXCEPT ![t].pc = pc]
Ends(t) == round' = [round EXCEPT ![t] = Idle]

Scan(t) ==
    /\ At(t, "off")
    /\ round' = [round EXCEPT ![t] = [Idle EXCEPT !.pc = "list", !.scan = local[Dev(t)]]]
    /\ UNCHANGED <<setup, vault, remote, store, asked, history, exposed, spent>>

List(t) ==
    /\ At(t, "list")
    /\ round' = [round EXCEPT ![t].pc = "tombstone", ![t].list = remote]
    /\ UNCHANGED <<setup, vault, remote, store, asked, history, exposed, spent>>

(* prune_tombstones: this one was older than the limit. *)
Expire(t) ==
    /\ At(t, "tombstone") /\ tomb[Dev(t)] # {} /\ Spend("expiries")
    /\ tomb' = [tomb EXCEPT ![Dev(t)] = {}]
    /\ UNCHANGED <<setup, vault, remote, base, decided, asked, round, history, exposed>>

(* pending_tombstones, before anything is carried out. *)
WriteTombstones(t) ==
    LET d == Dev(t)
        due == base[d] # 0 /\ round[t].scan = 0 /\ tomb[d] = {}
    IN  /\ At(t, "tombstone") /\ Goes(t, "plan")
        /\ tomb' = [tomb EXCEPT ![d] = IF due THEN {base[d]} ELSE @]
        /\ base' = [base EXCEPT ![d] = IF due THEN 0 ELSE @]
        /\ UNCHANGED <<setup, vault, remote, decided, asked, history, exposed, spent>>

Plan(t) ==
    LET d == Dev(t)
        r == round[t]
        action == ActionFor(r.scan, r.list, base[d], tomb[d])
    IN  /\ At(t, "plan")
        /\ round' = [round EXCEPT ![t] =
              IF action = "none" THEN Idle
              ELSE [r EXCEPT !.pc = "verify", !.action = action, !.base = base[d],
                             !.choice = IF action = "conflict"
                                        THEN DecidedFor(decided[d], r.scan, r.list) ELSE {}]]
        /\ UNCHANGED <<setup, vault, remote, store, asked, history, exposed, spent>>

-----------------------------------------------------------------------------
(* execute *)

\* Whether the note is still here is not asked.
Carried_AlwaysUpload(r, kind) ==
    CASE kind = "keepLocal" -> "upload"
      [] kind = "keepRemote" -> IF r.list # 0 THEN "download" ELSE "deleteLocal"
      [] OTHER -> "fork"

(* apply_resolution: the action that carries a decision out. *)
Carried(r, kind) ==
    CASE kind = "keepLocal" -> IF r.scan # 0 THEN "upload" ELSE "deleteRemote"
      [] kind = "keepRemote" -> IF r.list # 0 THEN "download" ELSE "deleteLocal"
      [] OTHER -> "fork"

FirstStep == [upload |-> "read", download |-> "get", deleteRemote |-> "head",
              deleteLocal |-> "trash", fork |-> "fork"]

\* What the plan was made from is taken to be there still.
Verified_Always(t) == TRUE

(* verify: the note is still what the scan found. *)
Verified(t) == local[Dev(t)] = round[t].scan

(* A note that is gone by now passes for a deletion only. *)
Verify(t) ==
    LET r == round[t]
    IN  /\ At(t, "verify")
        /\ \/ /\ ~Verified(t) /\ ~(local[Dev(t)] = 0 /\ r.action = "deleteLocal")
              /\ Ends(t) /\ UNCHANGED asked
           \/ /\ Verified(t) /\ r.action = "conflict" /\ r.choice = {}
              /\ Ends(t)
              /\ asked' = [asked EXCEPT ![Dev(t)] = {[local |-> r.scan, remote |-> r.list]}]
           \/ /\ Verified(t) /\ r.action = "conflict"
              /\ \E c \in r.choice : round' = [round EXCEPT ![t].action = Carried(r, c.kind)]
              /\ UNCHANGED asked
           \/ /\ Verified(t) \/ (local[Dev(t)] = 0 /\ r.action = "deleteLocal")
              /\ r.action # "conflict" /\ Goes(t, FirstStep[r.action]) /\ UNCHANGED asked
        /\ UNCHANGED <<setup, vault, remote, store, history, exposed, spent>>

(* Upload reads what is here now, asks the remote, puts, and notes what it *)
(* put.  A file that is not there fails the action.                        *)
Read(t) ==
    /\ At(t, "read")
    /\ IF local[Dev(t)] = 0 THEN Ends(t)
       ELSE round' = [round EXCEPT ![t].pc = "head", ![t].bytes = local[Dev(t)]]
    /\ UNCHANGED <<setup, vault, remote, store, asked, history, exposed, spent>>

(* remote_identity_drifted, when head answers seen. *)
LooksAgain(t, seen) ==
    IF seen # round[t].list THEN Ends(t)
    ELSE Goes(t, IF round[t].action = "deleteRemote" THEN "delete" ELSE "put")

Head(t) ==
    /\ At(t, "head") /\ LooksAgain(t, remote)
    /\ UNCHANGED <<setup, vault, remote, store, asked, history, exposed, spent>>

(* entry_at takes a directory that cannot be listed for one without the    *)
(* note.  A round that saw no note when it planned goes on and writes over *)
(* whatever is there, which is exposed.                                    *)
HeadFails(t) ==
    /\ At(t, "head") /\ Spend("blinds") /\ LooksAgain(t, 0)
    /\ exposed' = exposed \cup IF round[t].list = 0 THEN Content(remote) ELSE {}
    /\ UNCHANGED <<setup, vault, remote, store, asked, history>>

(* The cloud folder is written without a condition: what comes there when  *)
(* another round has already looked is exposed.  The user let go of what a *)
(* decision for the local content was against; a fork is not against any.  *)
RemoteBecomes(t, v) ==
    /\ remote' = v
    /\ exposed' = exposed \cup
          IF \E u \in Rounds \ {t} : round[u].pc \in {"put", "delete"} THEN Content(v) ELSE {}
    /\ gone' = gone \cup {c.remote : c \in {x \in round[t].choice : x.kind = "keepLocal"}}

Put(t) ==
    /\ At(t, "put") /\ Goes(t, "baseline")
    /\ RemoteBecomes(t, round[t].bytes)
    /\ UNCHANGED <<setup, vault, store, asked, written, deleted, spent>>

DeleteRemote(t) ==
    /\ At(t, "delete") /\ Goes(t, "clearBaseline")
    /\ RemoteBecomes(t, 0)
    /\ UNCHANGED <<setup, vault, store, asked, written, deleted, spent>>

(* Download: get, look once more at the note here, write it. *)
Get(t) ==
    /\ At(t, "get")
    /\ IF remote = 0 THEN Ends(t)
       ELSE round' = [round EXCEPT ![t].pc = "verifyAgain", ![t].bytes = remote]
    /\ UNCHANGED <<setup, vault, remote, store, asked, history, exposed, spent>>

VerifyAgain(t) ==
    /\ At(t, "verifyAgain")
    /\ IF Verified(t) THEN Goes(t, "write") ELSE Ends(t)
    /\ UNCHANGED <<setup, vault, remote, store, asked, history, exposed, spent>>

(* A round of this device, other than these, has looked for the last time. *)
AboutToWrite(d, others) == \E u \in Rounds \ others : Dev(u) = d /\ At(u, "write")

Write(t) ==
    LET d == Dev(t)
    IN  /\ At(t, "write") /\ Goes(t, "baseline")
        /\ local' = [local EXCEPT ![d] = round[t].bytes]
        /\ exposed' = exposed \cup
              IF AboutToWrite(d, {t}) THEN {round[t].bytes} ELSE {}
        /\ gone' = gone \cup {c.local : c \in round[t].choice}
        /\ UNCHANGED <<setup, remote, store, asked, saved, copies, written, deleted, spent>>

(* DeleteLocal puts the file in the trash. *)
Trash(t) ==
    LET d == Dev(t)
    IN  /\ At(t, "trash")
        /\ IF local[d] = 0 THEN Ends(t) ELSE Goes(t, "addTombstone")
        /\ saved' = saved \cup Content(local[d])
        /\ local' = [local EXCEPT ![d] = 0]
        /\ UNCHANGED <<setup, remote, copies, store, asked, history, exposed, spent>>

(* Fork: the remote's content becomes a note of its own, here and there;   *)
(* then the upload, from its own verify on.  Nothing asks whether fork_path *)
(* is free: an earlier copy there is written over here, in the cloud       *)
(* folder, and from it everywhere.  And what is copied is what is there    *)
(* now: if that is not what the decision was about, the latter is not kept *)
(* should it come back before the put.                                     *)
Fork(t) ==
    /\ At(t, "fork")
    /\ \/ remote = 0 /\ Ends(t) /\ UNCHANGED <<copies, exposed>>
       \/ /\ remote # 0
          /\ round' = [round EXCEPT ![t].pc = "verify", ![t].action = "upload"]
          /\ \E under \in {{}} \cup {{c} : c \in copies} :
                /\ copies' = (copies \ under) \cup {remote}
                /\ exposed' = exposed \cup ((under \cup Content(round[t].list)) \ {remote})
    /\ UNCHANGED <<setup, local, saved, remote, store, asked, history, spent>>

(* Afterwards a decision that was carried out is cleared. *)
Finishes(t) == IF round[t].choice = {} THEN Ends(t) ELSE Goes(t, "clearDecision")

(* set_baseline removes the tombstone. *)
SetBaseline(t) ==
    LET d == Dev(t)
    IN  /\ At(t, "baseline") /\ Finishes(t)
        /\ base' = [base EXCEPT ![d] = round[t].bytes] /\ tomb' = [tomb EXCEPT ![d] = {}]
        /\ UNCHANGED <<setup, vault, remote, decided, asked, history, exposed, spent>>

\* Both rows go.
ClearBaseline_WithTombstone(t) ==
    LET d == Dev(t)
    IN  /\ At(t, "clearBaseline") /\ Finishes(t)
        /\ base' = [base EXCEPT ![d] = 0] /\ tomb' = [tomb EXCEPT ![d] = {}]
        /\ UNCHANGED <<setup, vault, remote, decided, asked, history, exposed, spent>>

(* clear_baseline: the tombstone stays. *)
ClearBaseline(t) ==
    LET d == Dev(t)
    IN  /\ At(t, "clearBaseline") /\ Finishes(t)
        /\ base' = [base EXCEPT ![d] = 0]
        /\ UNCHANGED <<setup, vault, remote, tomb, decided, asked, history, exposed, spent>>

(* add_tombstone removes the baseline; what it records is the one the plan *)
(* was made from.                                                          *)
AddTombstone(t) ==
    LET d == Dev(t)
    IN  /\ At(t, "addTombstone") /\ Finishes(t)
        /\ tomb' = [tomb EXCEPT ![d] = {round[t].base}] /\ base' = [base EXCEPT ![d] = 0]
        /\ UNCHANGED <<setup, vault, remote, decided, asked, history, exposed, spent>>

ClearDecision(t) ==
    /\ At(t, "clearDecision") /\ Ends(t)
    /\ decided' = [decided EXCEPT ![Dev(t)] = {}]
    /\ UNCHANGED <<setup, vault, remote, base, tomb, asked, history, exposed, spent>>

RoundStep(t) ==
    \/ Scan(t) \/ List(t) \/ WriteTombstones(t) \/ Plan(t) \/ Verify(t)
    \/ Read(t) \/ Head(t) \/ Put(t) \/ DeleteRemote(t)
    \/ Get(t) \/ VerifyAgain(t) \/ Write(t) \/ Trash(t) \/ Fork(t)
    \/ SetBaseline(t) \/ ClearBaseline(t) \/ AddTombstone(t) \/ ClearDecision(t)

(* The host dies, or the next call of the round fails in another way. *)
CutShort(t) ==
    /\ ~At(t, "off") /\ Spend("cuts") /\ Ends(t)
    /\ UNCHANGED <<setup, vault, remote, store, asked, history, exposed>>

-----------------------------------------------------------------------------
(* The user *)

Edit(d) ==
    /\ written < setup.edits
    /\ written' = written + 1
    /\ local' = [local EXCEPT ![d] = written + 1]
    /\ gone' = gone \cup Content(local[d])
    /\ exposed' = exposed \cup IF AboutToWrite(d, {}) THEN {written + 1} ELSE {}
    /\ UNCHANGED <<setup, remote, store, asked, round, saved, copies, deleted, spent>>

DeleteNote(d) ==
    /\ local[d] # 0 /\ Spend("deletes")
    /\ local' = [local EXCEPT ![d] = 0]
    /\ gone' = gone \cup {local[d]}
    /\ deleted' = [deleted EXCEPT ![d] = @ \cup ({local[d]} \cap {base[d]})]
    /\ UNCHANGED <<setup, remote, store, asked, round, saved, copies, written, exposed>>

(* sync_resolve, with the hashes of the conflict that was shown; without a *)
(* resolution it takes the decision back.                                  *)
Resolve(d) ==
    /\ Spend("decisions")
    /\ \/ \E q \in asked[d], kind \in setup.kinds :
             decided' = [decided EXCEPT ![d] =
                 {[kind |-> kind, local |-> q.local, remote |-> q.remote]}]
       \/ decided[d] # {} /\ decided' = [decided EXCEPT ![d] = {}]
    /\ UNCHANGED <<setup, vault, remote, base, tomb, asked, round, history, exposed>>

Active == {Dev(t) : t \in setup.rounds}

Next ==
    \/ \E t \in setup.rounds : RoundStep(t) \/ HeadFails(t) \/ Expire(t) \/ CutShort(t)
    \/ \E d \in Active : Edit(d) \/ DeleteNote(d) \/ Resolve(d)

Spec == Init /\ [][Next]_vars

(* The daemon runs a round at least every fallback interval, and a round   *)
(* gets on.                                                                *)
FairSpec == Spec /\ \A t \in Rounds : WF_vars(t \in setup.rounds /\ RoundStep(t))

-----------------------------------------------------------------------------
Present == saved \cup copies \cup Content(remote) \cup UNION {Content(local[d]) : d \in Active}

(* Nothing the user wrote is lost: it is somewhere, or the user wrote over *)
(* it, deleted it, or decided against it having been shown it.  A fork     *)
(* keeps both contents.  Only what comes in between the last look at a     *)
(* file and its write is exposed, what lies in the cloud folder when that  *)
(* look fails and is taken for an empty folder, an earlier copy at the     *)
(* path of a fork, and what a fork was decided about when something else   *)
(* was there to be copied.                                                 *)
NoEditLost == 1..written \subseteq Present \cup gone \cup exposed

(* A synchronised note that was deleted here does not come back by itself  *)
(* as long as no tombstone expires, wherever rounds are cut short: not from *)
(* the cloud folder and not from a device that had not heard of it.  (Of a *)
(* device whose rounds come one at a time: a second one may have scanned   *)
(* and planned before the deletion.  By itself: not by the user's decision, *)
(* nor as an update of a note that is deleted between the round's last     *)
(* look at it and the write.)                                              *)
OneAtATime(d) == Cardinality({t \in setup.rounds : Dev(t) = d}) = 1
ByDecision(t) == round[t].choice # {}
AsUpdate(t) == round[t].scan # 0
NotResurrected ==
    [][\A d \in Active :
          local[d] = 0 /\ local'[d] \in deleted[d] /\ OneAtATime(d) =>
              \/ spent.expiries > 0
              \/ \E t \in setup.rounds : /\ Dev(t) = d /\ At(t, "write")
                                         /\ ByDecision(t) \/ AsUpdate(t)]_vars

(* Once the user leaves it alone everybody has the same, or a device asks: *)
(* rounds of several devices do not chase each other, and no decision is   *)
(* tried in vain for ever.  (Two rounds of one device may: one carries its *)
(* plan to the cloud folder while the other carries it away again.  And a  *)
(* fork of a note that one side has deleted fails in every round.)         *)
Asks(d) == /\ ActionFor(local[d], remote, base[d], tomb[d]) = "conflict"
           /\ DecidedFor(decided[d], local[d], remote) = {}
ForksNothing(d) == \E c \in decided[d] : c.kind = "fork" /\ 0 \in {c.local, c.remote}
Converges ==
    (\A d \in Active : OneAtATime(d)) =>
        <>[](\A d \in Active : local[d] = remote \/ Asks(d) \/ ForksNothing(d))
=============================================================================
