------------------------------ MODULE TaskLedger ------------------------------
(***************************************************************************)
(* The operation ledger of core/crates/aeroric-core/src/tasks/operations.rs *)
(* as operators on ledger values.  A ledger holds                          *)
(*   claims - the start/resume attempts still in flight,                   *)
(*   gens   - the highest run number handed out for each task,             *)
(*   acks   - the tasks whose last run a restart cut off and nobody has    *)
(*            acknowledged yet.                                            *)
(* A claim carries no time here: claimedAtMs is only ever reported.        *)
(***************************************************************************)
EXTENDS Naturals

CONSTANTS Tasks,   \* task ids
          Keys     \* the callers' operation keys

(* OperationKind; the service takes claims for these two kinds only. *)
Kinds == {"start", "resume"}

Claim == [task : Tasks, kind : Kinds, key : Keys, gen : Nat]

Ledger == [claims : SUBSET Claim, gens : [Tasks -> Nat], acks : SUBSET Tasks]

EmptyLedger == [claims |-> {}, gens |-> [t \in Tasks |-> 0], acks |-> {}]

(* attempt_key: what makes two requests one attempt. *)
AttemptKey(c) == <<c.task, c.kind, c.key>>

(* open_claim / the duplicate test of claim(). *)
OpenClaims(L, t, kind, k) == {c \in L.claims : AttemptKey(c) = <<t, kind, k>>}

(* next_generation followed by claim(): the number is consumed with the claim. *)
NewClaim(L, t, kind, k) ==
    [task |-> t, kind |-> kind, key |-> k, gen |-> L.gens[t] + 1]

TakeClaim(L, c) ==
    [L EXCEPT !.gens = [@ EXCEPT ![c.task] = c.gen], !.claims = @ \cup {c}]

(* settle: release the attempts that have the key of one of cs. *)
Settle(L, cs) ==
    [L EXCEPT !.claims = {c \in @ : \A d \in cs : AttemptKey(c) # AttemptKey(d)}]

(* settle_by_generation, for both kinds: an event knows the run number only. *)
SettleByGeneration(L, t, g) ==
    [L EXCEPT !.claims = {c \in @ : ~(c.task = t /\ c.gen = g)}]

(* settle_task, for every task of T. *)
SettleTasks(L, T) == [L EXCEPT !.claims = {c \in @ : c.task \notin T}]

(* Faulty variant: only newer runs count as still in flight. *)
LiveOtherThan_NewerOnly(L, t, g) ==
    {c.gen : c \in {d \in L.claims : d.task = t /\ d.gen > g}}

(* live_other_than: the other runs of t still in flight. *)
LiveOtherThan(L, t, g) == {c.gen : c \in {d \in L.claims : d.task = t /\ d.gen # g}}

(* Faulty variant: a run is in flight only while it is the newest. *)
IsLive_NewestOnly(L, t, g) ==
    g = L.gens[t] /\ \E c \in L.claims : c.task = t /\ c.gen = g

(* is_live: has run g of t not reported yet? *)
IsLive(L, t, g) == \E c \in L.claims : c.task = t /\ c.gen = g

Acknowledge(L, T) == [L EXCEPT !.acks = @ \ T]

AwaitAcknowledgement(L, T) == [L EXCEPT !.acks = @ \cup T]
===============================================================================
