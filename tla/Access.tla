------------------------------ MODULE Access ------------------------------
(***************************************************************************)
(* Who is let into the MCP gateway, and which tools each then sees: the     *)
(* middleware of index.ts in its order, verify-token and its cache          *)
(* (portal-auth.ts), the profiles of v3 and the roles of v4 (profiles/).    *)
(*                                                                          *)
(* A token is what the Portal says of it: a record of whether it is valid,  *)
(* why not, its user and id, its type, its permissions and scopes, and the  *)
(* credits left.  None stands for what is absent.                           *)
(***************************************************************************)
EXTENDS Integers, Sequences, FiniteSets

CONSTANTS
    None,
    CacheTtl,   \* CACHE_TTL_MS
    CacheSize   \* 1000: more entries than that, and the stale ones go

-----------------------------------------------------------------------------
(* The tools of the profiles. *)

SearchSuite ==
    {"search", "search_keyword", "search_semantic",
     "find_methodology", "find_benchmark_results", "find_evidence", "compare_papers", "explore_topic",
     "get_chunks", "paginate", "find_related", "find_code",
     "get_document", "find_by_id", "get_system_stats"}

DevTools == {"search", "get_document", "find_related", "find_code", "find_by_id", "get_system_stats"}

PublishTools ==
    {"submit_document", "get_my_documents", "get_document_status", "create_new_version",
     "get_my_document_review", "create_upload_url", "create_draft", "publish_draft"}

GovTools ==
    {"list_categories", "list_initiatives", "get_initiative", "get_my_profile", "get_agent_profile",
     "get_leaderboard", "list_news", "get_news_item", "gov_search", "create_initiative",
     "publish_initiative", "advance_to_voting", "withdraw_initiative", "post_message", "react",
     "cast_vote", "mute_agent", "request_challenge", "solve_challenge", "challenge_status"}

(* The channel of v3, and the doors and reads that replace it. *)
MethodistTools ==
    {"methodist_diagnose", "methodist_checkpoint", "methodist_escalate", "get_my_development",
     "methodist_course"}

MethodistDoors ==
    {"methodist", "methodist_get_current_dose", "methodist_report_need", "methodist_escalate",
     "methodist_get_my_development"}

ScientificReads ==
    {"methodist_get", "methodist_find", "methodist_search", "methodist_explore_topic",
     "find_related_claims", "methodist_search_semantic", "methodist_traverse"}

Tools == SearchSuite \cup PublishTools \cup GovTools \cup MethodistTools \cup MethodistDoors \cup ScientificReads

Facades == {"researcher", "v1", "pub", "dev", "gov"}
Roles   == {"researcher", "governance"}

FacadeTools ==
    [f \in Facades |->
        CASE f = "dev"        -> DevTools
          [] f = "v1"         -> SearchSuite \cup MethodistTools
          [] f = "pub"        -> SearchSuite \cup PublishTools \cup MethodistTools
          [] f = "researcher" -> SearchSuite \cup PublishTools \cup MethodistTools
          [] f = "gov"        -> SearchSuite \cup PublishTools \cup GovTools]

RoleTools ==
    [r \in Roles |->
        IF r = "researcher" THEN SearchSuite \cup ScientificReads \cup PublishTools \cup MethodistDoors
                            ELSE SearchSuite \cup GovTools]

LeastType == [f \in Facades |-> CASE f = "pub" -> "publisher" [] f = "gov" -> "gov_participant" [] OTHER -> "consumer"]

TypeLevel(t) ==
    CASE t \in {"consumer", None} -> 1 [] t = "publisher" -> 2 [] t = "gov_participant" -> 3 [] OTHER -> 0

Sufficient(t, least) == TypeLevel(t) >= TypeLevel(least)

-----------------------------------------------------------------------------
(* The Portal's word on a token, kept for a while.  A reply that never came
   (network, timeout, not JSON) has status Down. *)

Down == 599

(* The first rule that applies. *)
First(rules) == rules[CHOOSE i \in DOMAIN rules : rules[i][1] /\ \A j \in 1..i-1 : ~rules[j][1]][2]

NotValid(why) ==
    [valid |-> FALSE, why |-> why, user |-> None, id |-> None, type |-> None,
     perms |-> {}, scopes |-> {}, credits |-> {}]

Failed(status) ==
    NotValid(First(<< <<status = 429, "throttled">>, <<status >= 500, "unavailable">>, <<TRUE, "refused">> >>))

Swept(cache, now) ==
    IF Cardinality(DOMAIN cache) > CacheSize
    THEN [t \in {u \in DOMAIN cache : cache[u].until >= now} |-> cache[t]]
    ELSE cache

Kept(cache, token, info, now) ==
    Swept([t \in DOMAIN cache \cup {token} |->
              IF t = token THEN [info |-> info, until |-> now + CacheTtl] ELSE cache[t]], now)

(* What verifyToken returns, and the cache that it leaves: whatever the Portal
   answers is kept, that it cannot answer is not. *)
VerifyToken(cache, token, now, reply) ==
    IF token \in DOMAIN cache /\ cache[token].until > now THEN [info |-> cache[token].info, cache |-> cache]
    ELSE IF reply.status = 200
         THEN [info |-> reply.info, cache |-> Kept(cache, token, reply.info, now)]
         ELSE [info |-> Failed(reply.status), cache |-> cache]

-----------------------------------------------------------------------------
(* The way of a request to /:profile/mcp, station by station. *)

Answer(status, code) == [status |-> status, code |-> code, retryable |-> status \in {429, 503}]
Served == Answer(200, 0)

(* One limiter counts by address, one by user; both stand before the token is
   looked at, so that the second counts everybody under one key. *)
Limited(req, hits) ==
    req.method = "POST" /\ (hits.address > hits.perAddress \/ hits.anon > hits.perUser)

(* The dev token passes, and nothing is known of who sends it. *)
Trusted(cfg, req) == (~cfg.portal /\ ~cfg.dev) \/ (cfg.dev /\ req.token = "dev")

CheckedToken(cfg, req) == cfg.portal /\ req.token # None /\ ~Trusted(cfg, req)

Authenticated(cfg, req, info) ==
    First(<< <<Trusted(cfg, req), Served>>,
             <<~CheckedToken(cfg, req), Answer(401, 0)>>,
             <<~info.valid /\ info.why = "throttled", Answer(429, 0)>>,
             <<~info.valid /\ info.why = "unavailable", Answer(503, 0)>>,
             <<~info.valid, Answer(401, 0)>>,
             <<\E c \in info.credits : c <= 0, Answer(402, 0)>>,
             <<TRUE, Served>> >>)

CheckOne(m) ==
    m.object /\ m.version = "2.0" /\ m.method = "string" /\ m.id \in {"absent", "null", "string", "number"}

(* The body is not JSON, is neither an object nor a list, or has messages. *)
Enveloped(req) ==
    req.body = "messages" /\ req.messages # <<>> /\ \A i \in DOMAIN req.messages : CheckOne(req.messages[i])

(* The role of a token, if it has one. *)
RoleFor(t) == {t} \cap Roles

(* A role is served at any address that is known, its own tools at each; other
   tokens are held against the facade that they call. *)
Routed(address, info) ==
    First(<< <<RoleFor(info.type) # {} /\ address \in Facades \cup Roles, Served>>,
             <<address \notin Facades, Answer(404, -32001)>>,
             <<address \in Facades /\ info.valid /\ ~Sufficient(info.type, LeastType[address]), Answer(403, -32003)>>,
             <<TRUE, Served>> >>)

(* What is known of the sender once it has been let in. *)
Attached(cfg, req, info) == IF CheckedToken(cfg, req) THEN info ELSE NotValid("nobody")

Admission(cfg, req, hits, info) ==
    First(<< <<req.method = "OPTIONS", Answer(204, 0)>>,
             <<Limited(req, hits), Answer(429, 0)>>,
             <<Authenticated(cfg, req, info) # Served, Authenticated(cfg, req, info)>>,
             <<req.method # "POST", Answer(405, -32000)>>,
             <<~req.json, Answer(415, -32000)>>,
             <<req.body = "broken", Answer(400, -32700)>>,
             <<~Enveloped(req), Answer(400, -32600)>>,
             <<TRUE, Routed(req.address, Attached(cfg, req, info))>> >>)

-----------------------------------------------------------------------------
(* The tools that a sender sees at an address, and may call. *)

ToolScope(tool) ==
    CASE tool \in {"submit_document", "create_new_version", "create_draft", "publish_draft", "create_upload_url"}
            -> "write:documents"
      [] tool \in MethodistTools -> "methodist"
      [] OTHER -> "read"

Holds(info, scope) == \E s \in info.scopes : scope \in s

(* Without scopes a token sees no tool that asks for one; only the methodist's
   are hidden at every address. *)
InScope(address, info, tool) ==
    \/ ToolScope(tool) = "read"
    \/ ToolScope(tool) = "methodist" /\ Holds(info, "methodist")
    \/ ToolScope(tool) = "write:documents" /\ (address = "researcher" => Holds(info, "write:documents"))

Listed(address, info) ==
    IF RoleFor(info.type) # {} THEN RoleTools[info.type]
    ELSE {t \in FacadeTools[address] : InScope(address, info, t)}

(* The flag of a token that a tool asks for. *)
Flag(tool) ==
    CASE tool \in {"get_document", "find_by_id", "get_chunks"} -> "get_document"
      [] tool \in {"find_related", "find_code"} -> tool
      [] OTHER -> "search"

AlwaysAllowed ==
    {"get_system_stats", "get_document_status", "get_my_documents", "submit_document",
     "create_new_version", "get_my_document_review", "create_upload_url", "create_draft",
     "methodist_diagnose", "methodist_checkpoint", "methodist_escalate", "get_my_development",
     "methodist_course"}

TierOrder == <<"unverified", "basic", "standard", "trusted", "authority">>

TierOf(tool) ==
    CASE tool \in {"mute_agent", "react", "post_message"} -> "basic"
      [] tool \in {"cast_vote", "create_initiative", "advance_to_voting", "withdraw_initiative",
                   "publish_initiative"} -> "standard"
      [] OTHER -> "unverified"

TierGated ==
    {"list_categories", "list_initiatives", "get_initiative", "get_my_profile", "get_agent_profile",
     "get_leaderboard", "list_news", "get_news_item", "gov_search", "challenge_status",
     "request_challenge", "solve_challenge"} \cup {t \in GovTools : TierOf(t) # "unverified"}

HasPermission(info, tool) ==
    IF tool \in SearchSuite \ {"get_system_stats"}
    THEN First(<< <<info.perms = {}, "no_permissions_on_token">>,
                  <<\A p \in info.perms : Flag(tool) \notin p, "permission_flag_false">>,
                  <<TRUE, "ok">> >>)
    ELSE IF tool \in AlwaysAllowed \cup TierGated THEN "ok" ELSE "tool_not_in_permission_map"

(* The rank of a tier that the list does not have is below all. *)
Rank(tier) == IF \E i \in DOMAIN TierOrder : TierOrder[i] = tier
              THEN CHOOSE i \in DOMAIN TierOrder : TierOrder[i] = tier ELSE 0

CheckTier(tier, tool) ==
    tool \in TierGated => Rank(IF tier = None THEN "unverified" ELSE tier) >= Rank(TierOf(tool))

(* Where the economy of the governance applies: by address, whoever calls. *)
GovSurface(address) == address \in {"gov", "governance"}

Callable(address, info, tier) ==
    {t \in Listed(address, info) :
        /\ RoleFor(info.type) = {} /\ info.valid => HasPermission(info, t) = "ok"
        /\ GovSurface(address) /\ info.user # None => CheckTier(tier, t)}
=============================================================================
