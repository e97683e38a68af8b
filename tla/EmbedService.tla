---------------------------- MODULE EmbedService ----------------------------
(***************************************************************************)
(* The embed service for qwen: a request looks its texts up in the cache,  *)
(* sends the missed ones to the pool of GPU backends in sub-batches, or to *)
(* OpenRouter, and writes them to the cache.  Backends come and go, fail   *)
(* and answer 429.  The vector of a text is represented by the text.       *)
(***************************************************************************)
EXTENDS Naturals, FiniteSets, Sequences

CONSTANTS
    Requests,
    Asked,          \* request -> its texts
    NoFallback,     \* requests with allowFallback = false
    Bypass,         \* requests with bypassCache
    Miss,           \* not a text: no vector
    Urls,           \* of backends
    MaxBatch,       \* TEI_MAX_BATCH
    MaxConcurrency, \* of every backend
    MaxRetries,
    MaxAdds         \* bound: registrations explored

Texts == UNION {{Asked[r][i] : i \in DOMAIN Asked[r]} : r \in Requests}

ASSUME EmbedAssumption ==
    /\ \A r \in Requests : Asked[r] \in Seq(Texts) \ {<<>>}
    /\ NoFallback \subseteq Requests /\ Bypass \subseteq Requests
    /\ Miss \notin Texts
    /\ {MaxBatch, MaxConcurrency} \subseteq Nat \ {0} /\ MaxRetries \in Nat /\ MaxAdds \in Nat

VARIABLES
    cache,      \* text -> vector
    pc,         \* request -> where it is
    cached,     \* request -> what the cache gave for each of its texts
    part,       \* request -> vectors of the missed texts
    sub,        \* request -> its sub-batches: [at, url, id, attempt]
    answer,     \* request -> vectors
    nextId,     \* the id of the next registration
    id,         \* url -> id of its last registration
    reg,        \* the registered URLs
    healthy, fails, inFlight    \* fields of the registered backends

pool      == <<nextId, id, reg, healthy, fails, inFlight>>
request   == <<pc, cached, part, sub, answer>>
embedVars == <<cache, request, pool>>

None   == [at |-> "done", url |-> Miss, id |-> 0, attempt |-> 0]
Blank(r) == [i \in DOMAIN Asked[r] |-> Miss]

(* Every variable has its type. *)
EmbedTypeOK ==
    /\ cache \in [Texts -> Texts \cup {Miss}]
    /\ pc \in [Requests -> {"new", "get", "pool", "openrouter", "set", "done", "failed"}]
    /\ \A r \in Requests : \A k \in DOMAIN sub[r] :
         /\ sub[r][k].at \in {"select", "call", "sleep", "done", "failed"}
         /\ sub[r][k].attempt \in 0 .. MaxRetries + 1
    /\ reg \subseteq Urls /\ nextId \in 1 .. MaxAdds + 1 /\ id \in [Urls -> 0 .. MaxAdds]
    /\ healthy \in [Urls -> BOOLEAN] /\ fails \in [Urls -> 0 .. 2]
    /\ inFlight \in [Urls -> 0 .. MaxConcurrency]

EmbedInit ==
    /\ cache = [t \in Texts |-> Miss]
    /\ pc = [r \in Requests |-> "new"]
    /\ cached = [r \in Requests |-> Blank(r)] /\ answer = [r \in Requests |-> Blank(r)]
    /\ part = [r \in Requests |-> <<>>] /\ sub = [r \in Requests |-> <<>>]
    /\ nextId = 1 /\ id = [u \in Urls |-> 0] /\ reg = {}
    /\ healthy = [u \in Urls |-> FALSE] /\ fails = [u \in Urls |-> 0]
    /\ inFlight = [u \in Urls |-> 0]

Enter(r, l) == pc' = [pc EXCEPT ![r] = l]

-----------------------------------------------------------------------------
(* The registry of backends (admin endpoints) and the health loop. *)

(* A new entry is healthy until a probe says otherwise; a URL that is
   registered is not registered again. *)
AddBackend(u) ==
    /\ u \notin reg /\ nextId <= MaxAdds
    /\ reg' = reg \cup {u} /\ id' = [id EXCEPT ![u] = nextId] /\ nextId' = nextId + 1
    /\ healthy' = [healthy EXCEPT ![u] = TRUE]
    /\ fails' = [fails EXCEPT ![u] = 0] /\ inFlight' = [inFlight EXCEPT ![u] = 0]
    /\ UNCHANGED <<cache, request>>

(* Calls to a removed entry go on. *)
RemoveBackend(u) ==
    /\ u \in reg
    /\ reg' = reg \ {u}
    /\ healthy' = [healthy EXCEPT ![u] = FALSE]
    /\ fails' = [fails EXCEPT ![u] = 0] /\ inFlight' = [inFlight EXCEPT ![u] = 0]
    /\ UNCHANGED <<cache, request, nextId, id>>

Well(u)   == healthy' = [healthy EXCEPT ![u] = TRUE] /\ fails' = [fails EXCEPT ![u] = 0]
Unwell(u) ==
    /\ fails' = [fails EXCEPT ![u] = IF @ < 2 THEN @ + 1 ELSE @]
    /\ healthy' = [healthy EXCEPT ![u] = @ /\ fails'[u] < 2]

Probe(u) ==
    /\ u \in reg
    /\ Well(u) \/ Unwell(u)
    /\ UNCHANGED <<cache, request, nextId, id, reg, inFlight>>

-----------------------------------------------------------------------------
(* EmbedRouter.embed. *)

MissedAt(c) == {i \in DOMAIN c : c[i] = Miss}
Rank(c, i)  == Cardinality({k \in MissedAt(c) : k <= i})

(* The positions of the missed texts, in their order. *)
Missed(c) == [j \in 1 .. Cardinality(MissedAt(c)) |-> CHOOSE i \in MissedAt(c) : Rank(c, i) = j]

(* The sub-batches of the missed texts: first and last position. *)
From(k)  == (k - 1) * MaxBatch + 1
To(k, n) == IF k * MaxBatch < n THEN k * MaxBatch ELSE n
Subs(n)  == [k \in {j \in 1 .. n : From(j) <= n} |-> [None EXCEPT !.at = "select"]]

Receive(r) ==
    /\ pc[r] = "new" /\ Enter(r, "get")
    /\ UNCHANGED <<cache, cached, part, sub, answer, pool>>

(* Where the missed texts go: to a pool with a healthy backend, else to
   OpenRouter, unless the caller forbids it. *)
Route(r) ==
    IF \E u \in reg : healthy[u] THEN "pool"
    ELSE IF r \in NoFallback THEN "failed" ELSE "openrouter"

(* mget: an entry that has expired, an entry that cannot be decoded and a Redis
   that does not answer are misses. *)
Hits(r) == {h \in SUBSET {i \in DOMAIN Asked[r] : cache[Asked[r][i]] # Miss} : r \in Bypass => h = {}}

Lookup(r) ==
    /\ pc[r] = "get"
    /\ \E h \in Hits(r) :
         LET c == [i \in DOMAIN Asked[r] |-> IF i \in h THEN cache[Asked[r][i]] ELSE Miss]
             n == Len(Missed(c)) IN
         /\ cached' = [cached EXCEPT ![r] = c]
         /\ part' = [part EXCEPT ![r] = [j \in 1 .. n |-> Miss]]
         /\ sub' = [sub EXCEPT ![r] = IF Route(r) = "pool" THEN Subs(n) ELSE <<>>]
         /\ IF n = 0 THEN Enter(r, "done") /\ answer' = [answer EXCEPT ![r] = c]
            ELSE Enter(r, Route(r)) /\ UNCHANGED answer
    /\ UNCHANGED <<cache, pool>>

(* The vectors in the order of the request, those of the cache among those of
   the provider. *)
Merge(r) ==
    LET m == Missed(cached[r])
    IN [i \in DOMAIN Asked[r] |->
          IF cached[r][i] # Miss THEN cached[r][i]
          ELSE part[r][CHOOSE j \in DOMAIN m : m[j] = i]]

(* callOpenRouter with its retries. *)
OpenRouter(r) ==
    /\ pc[r] = "openrouter"
    /\ \/ /\ part' = [part EXCEPT ![r] = [j \in DOMAIN @ |-> Asked[r][Missed(cached[r])[j]]]]
          /\ Enter(r, "set")
       \/ Enter(r, "failed") /\ UNCHANGED part
    /\ UNCHANGED <<cache, cached, sub, answer, pool>>

PoolDone(r) ==
    /\ pc[r] = "pool" /\ \A k \in DOMAIN sub[r] : sub[r][k].at = "done"
    /\ Enter(r, "set")
    /\ UNCHANGED <<cache, cached, part, sub, answer, pool>>

(* mset, which Redis may refuse, and the answer.  An entry is left in the cache;
   the TTL is seen by Lookup. *)
Store(r) ==
    LET m == Missed(cached[r]) IN
    /\ pc[r] = "set"
    /\ \/ /\ r \notin Bypass
          /\ cache' = [t \in Texts |->
               LET J == {j \in DOMAIN m : Asked[r][m[j]] = t}
               IN IF J = {} THEN cache[t] ELSE part[r][CHOOSE j \in J : \A i \in J : i <= j]]
       \/ UNCHANGED cache
    /\ answer' = [answer EXCEPT ![r] = Merge(r)] /\ Enter(r, "done")
    /\ UNCHANGED <<cached, part, sub, pool>>

-----------------------------------------------------------------------------
(* TeiPool.embedSubBatch. *)

Sub(r, k, s) == sub' = [sub EXCEPT ![r][k] = s]

(* selectBackend: the least loaded of the healthy ones with a free slot. *)
Selectable == {u \in reg : healthy[u] /\ inFlight[u] < MaxConcurrency}
Best       == {u \in Selectable : \A w \in Selectable : inFlight[u] <= inFlight[w]}

(* Selection and inFlight++ are one step, also after a wait for capacity; the
   wait ends when there is still none. *)
SelectBackend(r, k) ==
    /\ sub[r][k].at = "select"
    /\ \E u \in Best :
         /\ Sub(r, k, [sub[r][k] EXCEPT !.at = "call", !.url = u, !.id = id[u]])
         /\ inFlight' = [inFlight EXCEPT ![u] = @ + 1]
    /\ UNCHANGED <<cache, pc, cached, part, answer, nextId, id, reg, healthy, fails>>

(* A sub-batch that fails fails the request at once; the other sub-batches go
   on, with nobody waiting for them. *)
Fail(r, k) ==
    /\ Sub(r, k, [None EXCEPT !.at = "failed"])
    /\ Enter(r, IF pc[r] = "pool" THEN "failed" ELSE pc[r])

NoCapacity(r, k) ==
    /\ sub[r][k].at = "select" /\ Selectable = {}
    /\ Fail(r, k)
    /\ UNCHANGED <<cache, cached, part, answer, pool>>

\* Mutated form: the slot of a call that failed is not given back.
FreeIfWell(u, mine, ok) == inFlight' = IF mine /\ ok THEN [inFlight EXCEPT ![u] = @ - 1] ELSE inFlight

(* The slot goes back to the entry it was taken from. *)
Free(u, mine, ok) == inFlight' = IF mine THEN [inFlight EXCEPT ![u] = @ - 1] ELSE inFlight

\* Mutated form: the sub-batch is written at its own positions.
PlaceFirst(r, k) ==
    LET m == Missed(cached[r])
    IN [j \in DOMAIN part[r] |->
          IF j \in 1 .. To(k, Len(m)) - From(k) + 1
          THEN Asked[r][m[From(k) + j - 1]] ELSE part[r][j]]

(* The vectors of a sub-batch, at its positions among the missed texts. *)
Place(r, k) ==
    LET m == Missed(cached[r])
    IN [j \in DOMAIN part[r] |->
          IF j \in From(k) .. To(k, Len(m)) THEN Asked[r][m[j]] ELSE part[r][j]]

Backoff(s) == [None EXCEPT !.at = "sleep", !.attempt = s.attempt + 1]

(* The reply of a backend, or the timeout of the call.  429 is backpressure,
   every other failure counts against the backend. *)
Reply(r, k) ==
    LET s    == sub[r][k]
        u    == s.url
        mine == u \in reg /\ id[u] = s.id
    IN /\ s.at = "call"
       /\ \/ /\ Free(u, mine, TRUE)
             /\ IF mine THEN Well(u) ELSE UNCHANGED <<healthy, fails>>
             /\ Sub(r, k, None) /\ part' = [part EXCEPT ![r] = Place(r, k)]
             /\ UNCHANGED pc
          \/ /\ Free(u, mine, FALSE) /\ UNCHANGED <<healthy, fails, part>>
             /\ Sub(r, k, Backoff(s)) /\ UNCHANGED pc
          \/ /\ Free(u, mine, FALSE) /\ UNCHANGED part
             /\ IF mine THEN Unwell(u) ELSE UNCHANGED <<healthy, fails>>
             /\ IF s.attempt = MaxRetries THEN Fail(r, k)
                ELSE Sub(r, k, [Backoff(s) EXCEPT !.at = "select"]) /\ UNCHANGED pc
       /\ UNCHANGED <<cache, cached, answer, nextId, id, reg>>

(* The last attempt, too, ends with the sleep. *)
Slept(r, k) ==
    /\ sub[r][k].at = "sleep"
    /\ IF sub[r][k].attempt > MaxRetries THEN Fail(r, k)
       ELSE Sub(r, k, [sub[r][k] EXCEPT !.at = "select"]) /\ UNCHANGED pc
    /\ UNCHANGED <<cache, cached, part, answer, pool>>

SubStep(r, k) == SelectBackend(r, k) \/ NoCapacity(r, k) \/ Reply(r, k) \/ Slept(r, k)
Serve(r)      == Lookup(r) \/ OpenRouter(r) \/ PoolDone(r) \/ Store(r)

EmbedNext ==
    \/ \E r \in Requests : Receive(r) \/ Serve(r) \/ \E k \in DOMAIN sub[r] : SubStep(r, k)
    \/ \E u \in Urls : AddBackend(u) \/ RemoveBackend(u) \/ Probe(u)

EmbedSpec == EmbedInit /\ [][EmbedNext]_embedVars

-----------------------------------------------------------------------------
(* The calls a registration of a URL has in flight. *)
Calls(u, n) == UNION {{<<r, k>> : k \in {j \in DOMAIN sub[r] : /\ sub[r][j].at = "call"
                                                               /\ sub[r][j].url = u
                                                               /\ sub[r][j].id = n}} : r \in Requests}

(***************************************************************************)
(* Every vector of an answer is the vector of the text at its place, and   *)
(* the cache holds for a text no vector but its own: hits among misses,    *)
(* sub-batches that end in any order, retries on other backends and        *)
(* replies of removed backends leave the order alone (tei-pool.ts, embed;  *)
(* router.ts, embed).                                                      *)
(***************************************************************************)
Aligned ==
    /\ \A r \in Requests : pc[r] = "done" => answer[r] = Asked[r]
    /\ \A t \in Texts : cache[t] \in {t, Miss}

(***************************************************************************)
(* The count of a registration is the number of calls it has in flight, so *)
(* that it is neither starved by slots that leaked nor given more than its *)
(* limit, through failures, removal and registration anew (tei-pool.ts,    *)
(* embedSubBatch).  The machine behind a URL that was added again may have *)
(* calls of the old registration besides.                                  *)
(***************************************************************************)
SlotsAccounted == \A u \in reg : inFlight[u] = Cardinality(Calls(u, id[u]))
=============================================================================
