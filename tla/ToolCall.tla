----------------------------- MODULE ToolCall -----------------------------
(***************************************************************************)
(* What the gateway does around the handler of a tool (the wrapper of       *)
(* server.tool in index.ts): to which run the call is attributed, which     *)
(* agent of the governance it acts for, what it costs, what the Portal is   *)
(* told to take and what is written in the log; with the identities and     *)
(* prices it uses (portal-auth.ts, gov-identity.ts, cost-key.ts).           *)
(***************************************************************************)
EXTENDS Access

CONSTANTS GovTtl    \* TIER_TTL_MS and REPUTATION_TTL_MS, both five minutes

-----------------------------------------------------------------------------
(* Identities.  A hash is written as what is hashed. *)

Present(x) == IF x = None THEN <<>> ELSE <<x>>

(* The agent that a token stands for, and the owner of what it does: a new
   token of the same user is another agent, and the same owner. *)
CredentialFromToken(info) == IF info.user = None THEN <<>> ELSE <<info.user>> \o Present(info.id)
OwnerHashFromToken(info) == Present(info.user)

(* The owner of a run as its store tells: {} when there is no such run, and
   Unrecorded for a run that was made before owners were kept. *)
Unrecorded == <<None>>

ClassifyRunOwnership(owner, caller, faulted) ==
    First(<< <<faulted, "fallback">>,
             <<owner = {}, "unknown_run">>,
             <<owner = {Unrecorded}, "fallback">>,
             <<owner = {caller}, "attribute">>,
             <<TRUE, "run_ownership_denied">> >>)

(* The calls that go to the log against which a claimed use is checked. *)
Logged(call) ==
    call.info.type = "researcher" /\ call.info.user # None /\ call.tool \notin MethodistDoors

RunOutcome(call) ==
    IF ~Logged(call) \/ call.run = None THEN "none"
    ELSE ClassifyRunOwnership(call.runOwner, OwnerHashFromToken(call.info), call.runFault)

-----------------------------------------------------------------------------
(* The agent that a user has in the governance.  One request each; a fault is
   any answer that the step does not expect, or none. *)

Unresolved == [at |-> "lookup", agent |-> None]

ResolveStep(me, registered, fault) ==
    LET found   == [me |-> [at |-> "done", agent |-> registered], registered |-> registered]
        nothing == [me |-> [at |-> "done", agent |-> None], registered |-> registered]
        to(l)   == [me |-> [me EXCEPT !.at = l], registered |-> registered]
    IN  First(<< <<me.at = "done", [me |-> me, registered |-> registered]>>,
                 <<fault, nothing>>,
                 <<me.at = "lookup", IF registered # None THEN found ELSE to("register")>>,
                 <<me.at = "register" /\ registered = None,
                   [me |-> [at |-> "done", agent |-> "agent"], registered |-> "agent"]>>,
                 <<me.at = "register", to("again")>>,
                 <<TRUE, found>> >>)

(* Tier and reputation: what is stale is better than nothing.  A kept value
   and a reply are sets of at most one element. *)
CachedOrAsk(kept, now, reply) ==
    First(<< <<\E e \in kept : e.until > now, [value |-> {e.value : e \in kept}, kept |-> kept]>>,
             <<reply # {}, [value |-> reply, kept |-> {[value |-> v, until |-> now + GovTtl] : v \in reply}]>>,
             <<TRUE, [value |-> {e.value : e \in kept}, kept |-> kept]>> >>)

-----------------------------------------------------------------------------
(* Prices. *)

Variant(arg, default) == IF arg = None THEN default ELSE arg

CostKey(tool, args) ==
    CASE tool \in {"search", "search_semantic"}                -> <<tool, Variant(args.strategy, "fast")>>
      [] tool = "submit_document" /\ args.dry                  -> <<tool, "dry_run">>
      [] tool = "submit_document" /\ ~args.dry                 -> <<tool, Variant(args.format, "latex")>>
      [] tool = "create_new_version" /\ args.dry               -> <<tool, "dry_run">>
      [] tool = "find_evidence"                                -> <<tool, Variant(args.mode, "fast")>>
      [] tool = "compare_papers" /\ args.detail = "full"       -> <<tool, "full">>
      [] tool = "find_methodology" /\ args.detail = "minimal"  -> <<tool, "minimal">>
      [] OTHER                                                 -> <<tool>>

DryRun(tool, args) == tool \in {"submit_document", "create_new_version", "create_draft"} /\ args.dry

(* The Portal takes these itself. *)
PortalBilled == {"publish_draft"}

-----------------------------------------------------------------------------
(* A call: tool, args, address, info, run; what the services answer; and how
   the handler ends.  The result says whether the handler ran, what the caller
   is told when it did not, what was deducted in which way, and the log. *)

Stopped(why, log) == [ran |-> FALSE, why |-> why, new |-> 0, old |-> 0, refund |-> FALSE, log |-> log]

Unlogged == {}

(* What stops a call before its price is asked for. *)
Barred(call) ==
    First(<< <<RunOutcome(call) \in {"unknown_run", "run_ownership_denied"}, Stopped(RunOutcome(call), Unlogged)>>,
             <<RoleFor(call.info.type) = {} /\ call.info.valid /\ HasPermission(call.info, call.tool) # "ok",
               Stopped("permission", Unlogged)>>,
             <<GovSurface(call.address) /\ call.info.user # None /\ call.agent = None,
               Stopped("agent_resolution_failed", {0})>>,
             <<GovSurface(call.address) /\ call.info.user # None /\ ~CheckTier(call.tier, call.tool),
               Stopped("tier_insufficient", {0})>>,
             <<TRUE, Stopped("go on", {0})>> >>)

(* The Portal's price is asked for; {} when it cannot tell. *)
Priced(call) == call.info.user # None /\ ~DryRun(call.tool, call.args) /\ call.tool \notin PortalBilled

Known(call) == IF Priced(call) THEN call.price ELSE {}

Payer(call) == call.info.user # None /\ call.info.id # None /\ ~DryRun(call.tool, call.args)

(* What is taken after the handler has ended: the price when it is known, or
   one credit in the old way; and what the log says of it. *)
Settled(call) ==
    LET due   == Payer(call) /\ call.ends \in {"ok", "refund"}
        known == Known(call) # {}
        cost  == IF known THEN (CHOOSE p \in Known(call) : TRUE).cost ELSE 0
    IN  [ran    |-> TRUE,
         why    |-> call.ends,
         new    |-> IF due /\ known /\ call.deducts THEN cost ELSE 0,
         old    |-> IF due /\ ~known /\ call.deducts THEN 1 ELSE 0,
         refund |-> due /\ known /\ call.ends = "refund",
         log    |-> First(<< <<call.ends = "skip", {0}>>,
                             <<known, {cost}>>,
                             <<due, {1}>>,
                             <<TRUE, {0}>> >>)]

ToolCall(call) ==
    First(<< <<Barred(call).why # "go on", Barred(call)>>,
             <<\E p \in Known(call) : ~p.allowed, Stopped("insufficient", {0})>>,
             <<TRUE, Settled(call)>> >>)

-----------------------------------------------------------------------------
(* The tools of the governance are requests to its service: which of them
   write, and which name the agent they act for. *)

GovWrites ==
    {"create_initiative", "publish_initiative", "advance_to_voting", "withdraw_initiative",
     "post_message", "react", "cast_vote", "mute_agent"}

GovChallenges == {"request_challenge", "solve_challenge"}

GovNamesAgent ==
    GovWrites \cup GovChallenges \cup
    {"list_initiatives", "get_initiative", "get_my_profile", "gov_search", "challenge_status"}

GovRequest(tool) ==
    [post |-> tool \in GovWrites \cup GovChallenges, agent |-> tool \in GovNamesAgent]

(* A refusal of the service is handed on as a result like any other. *)
GovFetch(status) == First(<< <<status = Down, "throws">>, <<TRUE, "ok">> >>)
=============================================================================
