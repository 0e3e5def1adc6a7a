---------------------------- MODULE MinerService -----------------------------
(***************************************************************************)
(* The miner service behind the HTTP API and the local poll: the admission *)
(* of requests (http/admission.rs, http/mod.rs), the singleflight caches   *)
(* of miner resources (miner/cache.rs), the resources themselves           *)
(* (miner/mod.rs) and the client with its request limits and its memory of *)
(* unreachable hosts (miner/client.rs).                                    *)
(*                                                                         *)
(* A request runs stages of branches; a branch gets one resource from its  *)
(* cache.  The parts of a resource are resources its fetch gets in turn    *)
(* (a dispatch and its two attempt trails).  The locks and permits a       *)
(* branch holds follow from where it is.  Bodies are told apart by what    *)
(* the code does with them; sizes, ages and the order of use are           *)
(* nondeterministic, as the budget of 6 MiB, the time to live and the      *)
(* least recently used entry are.  Miners and clients are external.        *)
(***************************************************************************)
EXTENDS Naturals, Sequences, FiniteSets

CONSTANTS
    Requests,     \* what asks the service: HTTP requests and the poll task
    Http,         \* the requests that come through the HTTP API
    Pool,         \* Pool[r]: the admission pool of an HTTP request
    PoolSize,     \* 8 data, 4 proxied
    Plan,         \* Plan[r]: the stages of a request, each a set of resources
    Resources,
    Kind,         \* Kind[k]: the cache a resource belongs to
    Parts,        \* Parts[k]: the resources k's fetch gets from other caches
    Stored,       \* resources fetched from the store: endpoints
    Host,         \* Host[k]: the peer that serves it, or NoHost for the local miner
    NoHost,
    MaxEntries,   \* 32: entries of a cache
    MaxFailures,  \* 128: hosts remembered as unreachable
    Peers,        \* 2: requests to peers
    Calls         \* 4: requests

ASSUME MinerAssumption ==
    /\ Http \subseteq Requests
    /\ Parts \in [Resources -> Seq(Resources)]
    /\ \A k \in Resources : \A i \in 1 .. Len(Parts[k]) : Parts[Parts[k][i]] = <<>>
    /\ {MaxEntries, MaxFailures} \subseteq Nat /\ {Peers, Calls} \subseteq Nat \ {0}

Branches == {b \in Requests \X Resources :
                 \E i \in 1 .. Len(Plan[b[1]]) : b[2] \in Plan[b[1]][i]}
\* Two generations of a slot suffice: at most one of a resource is referred to.
Slot == Resources \X {0, 1}
NoSlot == <<>>
Hosts == {Host[k] : k \in Resources} \ {NoHost}
Off == [at |-> "off", part |-> 0, slot |-> NoSlot, sub |-> NoSlot, got |-> <<>>]

VARIABLES
    stage,     \* the stage each request is in, 0 when there is none
    br,        \* the branches
    entries,   \* Cache.entries: the slot of each resource
    value,     \* what each slot holds; an expired value is as good as none
    failures   \* MinerClient.failures

vars == <<stage, br, entries, value, failures>>

Init ==
    /\ stage = [r \in Requests |-> 0]
    /\ br = [b \in Branches |-> Off]
    /\ entries = [k \in Resources |-> NoSlot]
    /\ value = [s \in Slot |-> "none"]
    /\ failures = {}
-----------------------------------------------------------------------------
(* Caches *)

Current(b) == IF br[b].part = 0 THEN b[2] ELSE Parts[b[2]][br[b].part]
CurrentSlot(b) == IF br[b].part = 0 THEN br[b].slot ELSE br[b].sub
IsPeer(b) == Host[Current(b)] # NoHost

Fetching == {"peer", "call", "sent", "fold"}
\* The locks of slots: a dispatch keeps its own while it gets its parts.
Locks(b) == (IF br[b].part > 0 \/ br[b].at \in Fetching THEN {br[b].slot} ELSE {})
            \cup (IF br[b].part > 0 /\ br[b].at \in Fetching THEN {br[b].sub} ELSE {})

\* Deviation: any entry may be dropped.
Idle_Any(s) == s # NoSlot
\* Arc::strong_count is 1: only the cache refers to the slot.
Idle(s) == s # NoSlot /\ \A b \in Branches : br[b].slot # s /\ br[b].sub # s

\* A slot that neither the cache nor a branch refers to is gone.
Settle(newBr, newEntries, newValue) ==
    /\ br' = newBr /\ entries' = newEntries
    /\ value' = [s \in Slot |->
          IF newEntries[s[1]] = s \/ \E b \in Branches : newBr[b].slot = s \/ newBr[b].sub = s
            THEN newValue[s] ELSE "none"]

\* prune_expired of all caches: idle entries without a value that is still good.
Pruned == [k \in Resources |->
    IF Idle(entries[k]) /\ value[entries[k]] = "none" THEN NoSlot ELSE entries[k]]

\* What is left after observe made room: slots in use.
Evicted(k) == [e \in Resources |->
    IF Kind[e] = Kind[k] /\ Idle(entries[e]) THEN NoSlot ELSE entries[e]]

\* The branch has its result: the next part of its resource, or the end.
After(b, v) ==
    IF br[b].part = 0 THEN [Off EXCEPT !.at = "done", !.got = <<IF v = "err" THEN v ELSE "rows">>]
    ELSE [br[b] EXCEPT !.sub = NoSlot, !.got = Append(@, v),
                       !.at = IF br[b].part = Len(Parts[b[2]]) THEN "fold" ELSE "get",
                       !.part = IF br[b].part = Len(Parts[b[2]]) THEN 0 ELSE @ + 1]

Return(b, v, newEntries) ==
    Settle([br EXCEPT ![b] = After(b, v)], newEntries, value)

\* The result of a fetch goes into the slot and to the branch.
Store(b, v, newEntries) ==
    Settle([br EXCEPT ![b] = After(b, v)], newEntries, [value EXCEPT ![CurrentSlot(b)] = v])

\* observe: the budget has room, or has it once the idle slots are gone, or has not.
Observe(b, v) ==
    \/ v = "err" /\ Store(b, v, entries)
    \/ v # "err" /\ Store(b, v, entries)
    \/ v # "err" /\ \E w \in {v, "err"} : Store(b, w, Evicted(Current(b)))

\* Cache::get up to the slot: the entry of the resource, or a new one in the place of
\* an idle one.  With none idle it is an error.
Get(b) ==
    /\ br[b].at = "get"
    /\ LET k == Current(b)
           mine == {e \in Resources : Kind[e] = Kind[k] /\ entries[e] # NoSlot}
           Take(s, newEntries) ==
             Settle([br EXCEPT ![b] = IF br[b].part = 0 THEN [@ EXCEPT !.at = "lock", !.slot = s]
                                      ELSE [@ EXCEPT !.at = "lock", !.sub = s]],
                    newEntries, value)
           fresh == CHOOSE s \in {<<k, 0>>, <<k, 1>>} :
                        \A c \in Branches : br[c].slot # s /\ br[c].sub # s
       IN \/ entries[k] # NoSlot /\ Take(entries[k], entries)
          \/ /\ entries[k] = NoSlot /\ Cardinality(mine) < MaxEntries
             /\ Take(fresh, [entries EXCEPT ![k] = fresh])
          \/ /\ entries[k] = NoSlot /\ Cardinality(mine) >= MaxEntries
             /\ \E e \in mine : /\ Idle(entries[e])
                                /\ Take(fresh, [entries EXCEPT ![k] = fresh, ![e] = NoSlot])
          \/ /\ entries[k] = NoSlot /\ Cardinality(mine) >= MaxEntries
             /\ \A e \in mine : ~Idle(entries[e])
             /\ Return(b, "err", entries)
    /\ UNCHANGED <<stage, failures>>

\* Where a fetch begins: its first part, the peer limit or the common limit.
FetchPlace(b) ==
    IF Current(b) \in Stored THEN "sent"
    ELSE IF Parts[Current(b)] # <<>> THEN "get"
    ELSE IF IsPeer(b) THEN "peer" ELSE "call"

\* The lock of the slot: a good value is shared, anything else is fetched.
Lock(b) ==
    /\ br[b].at = "lock" /\ \A c \in Branches : CurrentSlot(b) \notin Locks(c)
    /\ IF value[CurrentSlot(b)] # "none"
         THEN Return(b, value[CurrentSlot(b)], entries)
         ELSE Settle([br EXCEPT ![b].at = FetchPlace(b),
                                ![b].part = IF FetchPlace(b) = "get" THEN 1 ELSE @],
                     entries, value)
    /\ UNCHANGED <<stage, failures>>
-----------------------------------------------------------------------------
(* The client *)

InCall == Cardinality({b \in Branches : br[b].at = "sent" /\ Current(b) \notin Stored})
\* Deviation: a dispatch keeps a peer slot around its parts.
InPeer_Around ==
    Cardinality({b \in Branches : br[b].at \in {"call", "sent"} /\ IsPeer(b)})
        + Cardinality({b \in Branches : br[b].part > 0})
InPeer == Cardinality({b \in Branches : br[b].at \in {"call", "sent"} /\ IsPeer(b)
                                            /\ Current(b) \notin Stored})

\* Deviation: a request slot is taken first, the peer slot after it.
Acquire_CallFirst(b) ==
    \/ /\ br[b].at = "peer"
       /\ Cardinality({c \in Branches : br[c].at \in {"sent", "call"} /\ IsPeer(c)})
            + Cardinality({c \in Branches : br[c].at = "sent" /\ ~IsPeer(c)}) < Calls
       /\ br' = [br EXCEPT ![b].at = "call"] /\ UNCHANGED <<entries, value>>
    \/ /\ br[b].at = "call" /\ IsPeer(b)
       /\ Cardinality({c \in Branches : br[c].at = "sent" /\ IsPeer(c)}) < Peers
       /\ br' = [br EXCEPT ![b].at = "sent"] /\ UNCHANGED <<entries, value>>
    \/ /\ br[b].at = "call" /\ ~IsPeer(b)
       /\ Cardinality({c \in Branches : br[c].at \in {"sent", "call"} /\ IsPeer(c)})
            + Cardinality({c \in Branches : br[c].at = "sent" /\ ~IsPeer(c)}) < Calls
       /\ br' = [br EXCEPT ![b].at = "sent"] /\ UNCHANGED <<entries, value>>
\* guarded: the peer limit first, then the common one, then the memory of hosts that
\* could not be reached, which refuses a host it knows and any host when it is full.
Acquire(b) ==
    \/ /\ br[b].at = "peer" /\ InPeer < Peers
       /\ br' = [br EXCEPT ![b].at = "call"] /\ UNCHANGED <<entries, value>>
    \/ /\ br[b].at = "call" /\ InCall < Calls
       /\ IF IsPeer(b) /\ (Host[Current(b)] \in failures \/ Cardinality(failures) >= MaxFailures)
            THEN Store(b, "err", entries)
            ELSE br' = [br EXCEPT ![b].at = "sent"] /\ UNCHANGED <<entries, value>>
Guard(b) == Acquire(b) /\ UNCHANGED <<stage, failures>>

\* The answer: a body, which may be a trail without rows, an error, or no connection in
\* time.
Reply(b) ==
    /\ br[b].at = "sent"
    /\ \/ \E v \in {"rows", "err"} \cup (IF br[b].part > 0 THEN {"empty"} ELSE {}) :
            Observe(b, v) /\ UNCHANGED failures
       \/ /\ Current(b) \notin Stored
          /\ Store(b, "err", entries)
          /\ failures' = IF IsPeer(b) /\ Cardinality(failures) < MaxFailures
                           THEN failures \cup {Host[Current(b)]} ELSE failures
    /\ UNCHANGED stage

\* dispatch: rows of either trail win; two trails without rows are an empty dispatch only
\* if neither failed.
Outcome(got) ==
    IF \E i \in 1 .. Len(got) : got[i] = "rows" THEN "rows"
    ELSE IF \E i \in 1 .. Len(got) : got[i] = "err" THEN "err"
    ELSE "empty"
Fold(b) ==
    /\ br[b].at = "fold" /\ Observe(b, Outcome(br[b].got))
    /\ UNCHANGED <<stage, failures>>
-----------------------------------------------------------------------------
(* Requests *)

Running(r) == {b \in Branches : b[1] = r /\ br[b].at # "off"}
Enter(r, i) == [b \in Branches |->
    IF b[1] # r THEN br[b]
    ELSE IF b[2] \in Plan[r][i] THEN [Off EXCEPT !.at = "get"] ELSE Off]

\* An HTTP request without a permit is refused and changes nothing.
Start(r) ==
    /\ stage[r] = 0
    /\ r \in Http =>
         Cardinality({q \in Http : stage[q] > 0 /\ Pool[q] = Pool[r]}) < PoolSize[Pool[r]]
    /\ stage' = [stage EXCEPT ![r] = 1]
    /\ Settle(Enter(r, 1), Pruned, value) /\ UNCHANGED failures

\* The next stage needs every result of this one; the response ends the request.
Proceed(r) ==
    /\ stage[r] > 0 /\ \A b \in Running(r) : br[b].at = "done"
    /\ IF /\ stage[r] < Len(Plan[r])
          /\ \A b \in Running(r) : br[b].got # <<"err">>
         THEN /\ stage' = [stage EXCEPT ![r] = @ + 1]
              /\ Settle(Enter(r, stage[r] + 1), Pruned, value)
         ELSE /\ stage' = [stage EXCEPT ![r] = 0]
              /\ Settle([b \in Branches |-> IF b[1] = r THEN Off ELSE br[b]], entries, value)
    /\ UNCHANGED failures

\* The 30 s of the admission are over, or the client went away: the future is dropped.
Drop(r) ==
    /\ r \in Http /\ stage[r] > 0
    /\ stage' = [stage EXCEPT ![r] = 0]
    /\ Settle([b \in Branches |-> IF b[1] = r THEN Off ELSE br[b]], entries, value)
    /\ UNCHANGED failures

\* Time passes for a value or for a failure.
Expire ==
    \/ \E s \in Slot : /\ value[s] # "none" /\ value' = [value EXCEPT ![s] = "none"]
                       /\ UNCHANGED <<stage, br, entries, failures>>
    \/ \E h \in failures : failures' = failures \ {h} /\ UNCHANGED <<stage, br, entries, value>>

Step(b) == Get(b) \/ Lock(b) \/ Guard(b) \/ Fold(b)
Next ==
    \/ \E b \in Branches : Step(b) \/ Reply(b)
    \/ \E r \in Requests : Start(r) \/ Proceed(r) \/ Drop(r)
    \/ Expire

\* The local branches run and the client's deadlines end their requests.  Nothing is
\* assumed of the peers, nor of the requests that ask them.
LocalBranches == {b \in Branches : Host[b[2]] = NoHost}
Spec ==
    /\ Init /\ [][Next]_vars
    /\ \A b \in LocalBranches : WF_vars(Step(b) \/ Reply(b))
-----------------------------------------------------------------------------
(* Properties *)

\* A resource is fetched by one branch at a time, whatever is evicted, pruned, expired or
\* dropped meanwhile (the slot mutex of cache.rs, and evictions that spare slots in use).
SingleFlight ==
    \A b, c \in Branches :
        b # c /\ {br[b].at, br[c].at} \subseteq Fetching => Current(b) # Current(c)

\* "Acquire peer capacity first so queued peer work cannot occupy local slots"
\* (client.rs:93): a request to the local miner gets through even when no peer answers.
LocalGetsSlot ==
    \A b \in LocalBranches : br[b].at = "call" ~> br[b].at # "call"

\* Whenever a branch waits for a slot or a permit, some branch is on its way or free to
\* take one: the lock a dispatch holds around its trails never closes a circle with other
\* dispatches or with the limits of the client.
NoCircularWait ==
    (\E b \in Branches : br[b].at \in {"lock", "peer", "call"}) =>
        \E b \in Branches :
            \/ br[b].at \in {"get", "fold", "sent"}
            \/ br[b].at = "lock" /\ \A c \in Branches : CurrentSlot(b) \notin Locks(c)
            \/ br[b].at = "peer" /\ InPeer < Peers
            \/ br[b].at = "call" /\ InCall < Calls
=============================================================================
