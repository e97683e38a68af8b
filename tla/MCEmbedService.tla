--------------------------- MODULE MCEmbedService ---------------------------
(***************************************************************************)
(* The instance of EmbedService that TLC explores: a request of three      *)
(* texts in two sub-batches next to one of two texts that must not be sent *)
(* to OpenRouter.  With it TLC evaluates attribution, identity and billing *)
(* of a tool call (ToolCall), over all that the gateway tells apart.       *)
(***************************************************************************)
EXTENDS EmbedService, Integers, Sequences, FiniteSets, TLC

CONSTANTS r1, r2, t1, t2, t3

MCAsked == (r1 :> <<t1, t2, t3>>) @@ (r2 :> <<t3, t1>>)
OnlyR2  == {r2}
Nobody  == {}

-----------------------------------------------------------------------------
(* The tool calls. *)

T == INSTANCE ToolCall WITH None <- "none", CacheTtl <- 2, CacheSize <- 1, GovTtl <- 2

Caller(type, user, token) ==
    [T!NotValid("") EXCEPT !.valid = TRUE, !.type = type, !.user = user, !.id = token,
                           !.perms = {{"search", "get_document", "find_related", "find_code"}}]

Callers == {Caller(t, u, i) : t \in {"researcher", "governance", "gov_participant"},
                              u \in {"none", "ann"}, i \in {"none", "t1"}} \cup {T!NotValid("nobody")}

SomeTools == {"search", "submit_document", "publish_draft", "cast_vote", "methodist"}
NoArgs == [strategy |-> "none", format |-> "none", mode |-> "none", detail |-> "none", dry |-> FALSE]
Ends == {"ok", "skip", "refund", "throws"}

(* What the tools may end with: a draft is never billed here. *)
Paid ==
    {c \in [tool : SomeTools, args : {NoArgs, [NoArgs EXCEPT !.dry = TRUE]}, address : {"gov", "researcher"},
            info : Callers, run : {"none", "r1"}, runOwner : {{}, {T!Unrecorded}, {<<"ann">>}, {<<"bob">>}},
            runFault : BOOLEAN, agent : {"none", "agent"}, tier : {"basic", "standard"},
            price : {{}, {[allowed |-> FALSE, cost |-> 3]}, {[allowed |-> TRUE, cost |-> 3]}},
            ends : Ends, deducts : BOOLEAN] :
        /\ c.tool = "publish_draft" => c.ends \in {"skip", "throws"}
        /\ c.ends = "refund" => c.tool = "submit_document"
        /\ c.run = "none" => c.runOwner = {} /\ ~c.runFault
        /\ c.address = "researcher" => c.agent = "agent" /\ c.tier = "basic"}

(* A call that was stopped has cost nothing, whoever stopped it; and neither
   has one that failed, a dry run, nor one that the Portal bills. *)
ASSUME OnlyResultsCost ==
    \A c \in Paid :
        LET r == T!ToolCall(c)
        IN  /\ r.new + r.old > 0 \/ r.refund => r.ran /\ c.ends \in {"ok", "refund"}
            /\ T!DryRun(c.tool, c.args) \/ c.tool \in T!PortalBilled => r.new + r.old = 0 /\ ~r.refund

(* It is taken in one way only, and never more than the price that was agreed;
   the old way takes its one credit only when no price could be had. *)
ASSUME TakenOnce ==
    \A c \in Paid :
        LET r == T!ToolCall(c)
        IN  /\ r.new = 0 \/ r.old = 0
            /\ r.new > 0 => \E p \in c.price : p.allowed /\ r.new = p.cost
            /\ r.old > 0 => c.price = {}
            /\ r.refund => \E p \in c.price : p.allowed

(* What is logged as charged was charged, provided that the Portal takes what
   it is told to, the handler does not throw, and the token has an id. *)
ASSUME LogIsLedger ==
    \A c \in Paid :
        LET r == T!ToolCall(c)
        IN  c.deducts /\ c.ends # "throws" /\ (c.info.user # "none" => c.info.id # "none")
            => \A l \in r.log : l = r.new + r.old

(* A call is attributed to a run only by its owner, and stopped only when the
   run is another's or does not exist; a store that fails stops nobody. *)
ASSUME AttributedToOwn ==
    \A c \in Paid :
        LET o == T!RunOutcome(c)
        IN  /\ o = "attribute" => c.runOwner = {T!OwnerHashFromToken(c.info)}
            /\ T!ToolCall(c).why \in {"unknown_run", "run_ownership_denied"}
                  => ~c.runFault /\ c.run # "none" /\ T!OwnerHashFromToken(c.info) \notin c.runOwner /\ T!Unrecorded \notin c.runOwner
            /\ c.info.type # "researcher" \/ c.tool = "methodist" => o = "none"
            /\ T!ToolCall(c).ran /\ o # "none" => c.runFault \/ c.runOwner \in {{T!OwnerHashFromToken(c.info)}, {T!Unrecorded}}

(* A new token is another agent; the runs of the user stay the user's. *)
ASSUME RefreshKeepsRuns ==
    \A u, v \in {"ann", "bob"}, i, j \in {"none", "t1", "t2"} :
        LET a == Caller("researcher", u, i)
            b == Caller("researcher", v, j)
        IN  /\ T!CredentialFromToken(a) = T!CredentialFromToken(b) <=> u = v /\ i = j
            /\ T!OwnerHashFromToken(a) = T!OwnerHashFromToken(b) <=> u = v
            /\ T!ClassifyRunOwnership({T!OwnerHashFromToken(a)}, T!OwnerHashFromToken(b), FALSE)
                 = (IF u = v THEN "attribute" ELSE "run_ownership_denied")

(* Two first calls of a user, in every order of their requests, each of which
   may fail: one agent is registered, and both get it or none. *)
Schedules == [1..6 -> {1, 2} \X BOOLEAN]

Resolved(s) ==
    LET f[k \in 0..6] ==
            IF k = 0 THEN [me |-> <<T!Unresolved, T!Unresolved>>, registered |-> "none"]
            ELSE LET p == f[k-1]
                     n == T!ResolveStep(p.me[s[k][1]], p.registered, s[k][2])
                 IN  [me |-> [p.me EXCEPT ![s[k][1]] = n.me], registered |-> n.registered]
    IN f[6]

ASSUME OneAgent ==
    \A s \in Schedules :
        LET r == Resolved(s)
        IN \A p \in 1..2 :
              /\ r.me[p].agent \in {"none", r.registered}
              /\ r.me[p].at = "done" /\ r.me[p].agent = "none" => \E k \in 1..6 : s[k] = <<p, TRUE>>
              /\ Cardinality({k \in 1..6 : s[k][1] = p}) >= 3 => r.me[p].at = "done"

(* What is answered was once said, lately unless the service fails now; only
   who was never known is unknown. *)
ASSUME StaleBeforeNothing ==
    \A waits \in [1..3 -> 0..3], replies \in [1..3 -> {{}, {"basic"}, {"trusted"}}] :
        LET f[k \in 0..3] ==
                IF k = 0 THEN [at |-> 0, kept |-> {}, value |-> {}]
                ELSE LET p == f[k-1]
                         a == T!CachedOrAsk(p.kept, p.at + waits[k], replies[k])
                     IN  [at |-> p.at + waits[k], kept |-> a.kept, value |-> a.value]
        IN \A k \in 1..3 :
              /\ f[k].value = {} <=> \A j \in 1..k : replies[j] = {}
              /\ f[k].value # {} => \E j \in 1..k : 
                    /\ replies[j] = f[k].value
                    /\ replies[k] # {} => f[k].at - f[j].at < 2

(* A tool that writes for an agent names it and asks for a tier; what needs no
   tier only reads, or is the way to a tier. *)
ASSUME WritesNameAgent ==
    \A tool \in T!GovTools :
        /\ T!GovRequest(tool).post => T!GovRequest(tool).agent
        /\ T!GovRequest(tool).post /\ T!TierOf(tool) = "unverified" => tool \in T!GovChallenges
        /\ T!TierOf(tool) # "unverified" => tool \in T!GovWrites

(* Calls of different cost have different keys, and a key that says dry run is
   never billed. *)
ASSUME KeysTellPrices ==
    \A tool, other \in T!Tools, dry \in BOOLEAN, x, y \in {"none", "full", "minimal", "fast", "deep"} :
        LET a == [NoArgs EXCEPT !.dry = dry, !.strategy = x, !.mode = x, !.detail = y, !.format = x]
            k == T!CostKey(tool, a)
        IN  /\ k[1] = tool
            /\ Len(k) = 2 /\ k[2] = "dry_run" <=> T!DryRun(tool, a) /\ tool # "create_draft"
            /\ Len(k) = 2 => k[2] # "none"
=============================================================================
