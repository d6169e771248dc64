------------------------------- MODULE Router -------------------------------
(***************************************************************************)
(* The LLM router (src/llm/router.py): one call of a role goes down its    *)
(* chain of models past the reply cache, the circuit breakers, the rate-   *)
(* limit pauses and the daily budget, and awaits a provider.  A router     *)
(* lives in a process (the engine, a script); the reply cache and the log  *)
(* of calls, from which a starting router rebuilds today's spend, are the  *)
(* event store's and shared.                                               *)
(***************************************************************************)
EXTENDS Sums, Sequences, FiniteSetsExt

CONSTANTS
    Models, Providers, Prompts, Routers,
    ProviderOf,         \* the provider of each model
    PriceOf,            \* what a reply of a model costs; Unpriced when the table has none
    RoleOf,             \* the router (the role) that sends each prompt
    Decisions,          \* the prompts that are about a decision
    Chain,              \* per router: its role's models, the primary first
    DailyCap, RoleCap, DecisionCap,     \* budgets; 0 is no limit
    BreakerFailures, Cooldown, PauseFor, CallTimeout,
    DayLength, MaxTime                  \* bounds: ticks in a day, ticks

ASSUME RouterAssumption ==
    /\ ProviderOf \in [Models -> Providers] /\ PriceOf \in [Models -> Nat \cup {-1}]
    /\ RoleOf \in [Prompts -> Routers] /\ Decisions \subseteq Prompts
    /\ Chain \in [Routers -> Seq(Models)] /\ IsFiniteSet(Models) /\ Models # {} /\ IsFiniteSet(Prompts)
    /\ {DailyCap, RoleCap, DecisionCap, Cooldown, PauseFor, MaxTime} \subseteq Nat
    /\ {BreakerFailures, CallTimeout, DayLength} \subseteq Nat \ {0}

VARIABLES
    now,        \* the clock
    router,     \* per process: its router's state
    call,       \* per process: the call in flight
    cache,      \* the reply cache: per model and prompt
    spent,      \* the LLMCall events: rupees per day and prompt
    result      \* per prompt: the answer its caller last got

routerVars == <<now, router, call, cache, spent, result>>

Days == 0..(MaxTime \div DayLength)
Today == now \div DayLength
Nothing == "nothing"
Unpriced == -1
Answers == {"VETO", "APPROVE", "ungrounded"}

NoSpend == [p \in Prompts |-> 0]
NoCall == [on |-> FALSE, prompt |-> 0, k |-> 0, since |-> 0]

-----------------------------------------------------------------------------
(* PricingTable: a model without a price is not free, and its spend is     *)
(* unknown: it adds nothing to the ledger.                                 *)
IsFree(m) == PriceOf[m] = 0
CostOf(m) == IF PriceOf[m] = Unpriced THEN 0 ELSE PriceOf[m]

(* SpendLedger.                                                            *)
Sum(ledger, S) == Total([p \in S |-> ledger[p]])
OfRole(r) == {p \in Prompts : RoleOf[p] = r}

(* Mutation: the spend of earlier processes is not looked up.              *)
FromEventsNone(log, day) == NoSpend
FromEvents(log, day) == log[day]

Exceeded(ledger, p) ==
    \/ DailyCap > 0 /\ Sum(ledger, Prompts) >= DailyCap
    \/ RoleCap > 0 /\ Sum(ledger, OfRole(RoleOf[p])) >= RoleCap
    \/ p \in Decisions /\ DecisionCap > 0 /\ ledger[p] >= DecisionCap

(* build_router: today's spend from the store; nothing else is kept.       *)
NewRouter ==
    [up |-> TRUE, day |-> Today, ledger |-> FromEvents(spent, Today),
     fails |-> [m \in Models |-> 0], until |-> [m \in Models |-> 0],
     paused |-> [v \in Providers |-> 0]]

RollDay(rt) == IF rt.day = Today THEN rt ELSE [rt EXCEPT !.day = Today, !.ledger = NoSpend]

(* _failed: the cooldown runs from when the attempt began.                 *)
Failed(rt, m, since) ==
    IF rt.fails[m] + 1 >= BreakerFailures
    THEN [rt EXCEPT !.fails[m] = 0, !.until[m] = since + Cooldown]
    ELSE [rt EXCEPT !.fails[m] = @ + 1]

Pause(rt, m, since) ==
    [rt EXCEPT !.paused[ProviderOf[m]] = Max({@, since + PauseFor})]

-----------------------------------------------------------------------------
(* One call.  What runs before the next await is one step: the chain is    *)
(* walked to the first model that has the reply or may be asked.           *)
Admits(rt, m, p) ==
    /\ now >= rt.until[m] /\ now >= rt.paused[ProviderOf[m]]
    /\ IsFree(m) \/ ~Exceeded(rt.ledger, p)

Walk(r, rt, p, k) ==
    LET chain == Chain[r]
        stops == {i \in k..Len(chain) : cache[chain[i]][p] # Nothing \/ Admits(rt, chain[i], p)}
        i     == Min(stops)
    IN  /\ router' = [router EXCEPT ![r] = rt]
        /\ IF stops = {}
           THEN call' = [call EXCEPT ![r] = NoCall] /\ result' = [result EXCEPT ![p] = "failed"]
           ELSE IF cache[chain[i]][p] # Nothing
           THEN /\ call' = [call EXCEPT ![r] = NoCall]
                /\ result' = [result EXCEPT ![p] = cache[chain[i]][p]]
           ELSE /\ call' = [call EXCEPT ![r] = [on |-> TRUE, prompt |-> p, k |-> i, since |-> now]]
                /\ UNCHANGED result

(* complete.                                                               *)
Complete(r, p) ==
    /\ router[r].up /\ ~call[r].on /\ p \in OfRole(r)
    /\ Walk(r, RollDay(router[r]), p, 1)
    /\ UNCHANGED <<now, cache, spent>>

(* Mutation: only what the primary model said is kept.                     *)
StoredPrimary(r, m, p, answer) ==
    IF m = Chain[r][1] THEN [cache EXCEPT ![m][p] = answer] ELSE cache
Stored(r, m, p, answer) == [cache EXCEPT ![m][p] = answer]

LedgerAdd(ledger, p, cost) == [ledger EXCEPT ![p] = @ + cost]

(* The provider replies; its headers may say that the window is used up.   *)
(* The ledger is the one in memory, the event has the date of the reply.   *)
Reply(r, answer, drained) ==
    /\ call[r].on
    /\ LET p  == call[r].prompt
           m  == Chain[r][call[r].k]
           ok == [router[r] EXCEPT !.fails[m] = 0, !.until[m] = 0,
                                   !.ledger = LedgerAdd(@, p, CostOf(m))]
       IN  /\ router' = [router EXCEPT ![r] = IF drained THEN Pause(ok, m, call[r].since) ELSE ok]
           /\ spent' = [spent EXCEPT ![Today][p] = @ + CostOf(m)]
           /\ cache' = Stored(r, m, p, answer)
           /\ result' = [result EXCEPT ![p] = answer]
           /\ call' = [call EXCEPT ![r] = NoCall]
    /\ UNCHANGED now

(* LLMError and its kinds.                                                 *)
Failures == {"timeout", "error", "rate_limited", "refused"}

(* It does not: a rate limit pauses the provider, a timeout or a server    *)
(* error counts against the model, a refusal or an invalid reply does not. *)
NoReply(r, why) ==
    /\ call[r].on
    /\ LET m  == Chain[r][call[r].k]
           rt == CASE why = "rate_limited"            -> Pause(router[r], m, call[r].since)
                   [] why \in {"timeout", "error"}    -> Failed(router[r], m, call[r].since)
                   [] OTHER                           -> router[r]
       IN  Walk(r, rt, call[r].prompt, call[r].k + 1)
    /\ UNCHANGED <<now, cache, spent>>

(* wait_for ends a call that takes too long.                               *)
RouterTick ==
    /\ now < MaxTime
    /\ \A r \in Routers : call[r].on => now - call[r].since < CallTimeout
    /\ now' = now + 1
    /\ UNCHANGED <<router, call, cache, spent, result>>

(* The process ends, whatever it awaited; a new one builds its router.     *)
RouterEnds(r) ==
    /\ router' = [router EXCEPT ![r].up = FALSE]
    /\ call' = [call EXCEPT ![r] = NoCall]
    /\ UNCHANGED <<now, cache, spent, result>>

RouterStarts(r) ==
    /\ router' = [router EXCEPT ![r] = NewRouter]
    /\ UNCHANGED <<now, call, cache, spent, result>>

RouterInit ==
    /\ now = 0 /\ cache = [m \in Models |-> [p \in Prompts |-> Nothing]]
    /\ spent = [d \in Days |-> NoSpend]
    /\ router = [r \in Routers |-> NewRouter]
    /\ call = [r \in Routers |-> NoCall]
    /\ result = [p \in Prompts |-> Nothing]
=============================================================================
