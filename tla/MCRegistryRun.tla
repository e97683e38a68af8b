--------------------------- MODULE MCRegistryRun ---------------------------
(***************************************************************************)
(* The instances of RegistryRun that TLC explores: two days, of which the  *)
(* second has all documents but the first.  With it TLC evaluates what the *)
(* gateway's admission (Access) decides, over all tokens, requests and     *)
(* replies of the Portal that it tells apart.                              *)
(***************************************************************************)
EXTENDS RegistryRun, Integers, Sequences, FiniteSets

TwoDays == [d \in 1..Docs |-> IF d = 1 THEN 1 ELSE 2]

AllFaults == FaultKinds

-----------------------------------------------------------------------------
(* What the gateway decides. *)

A == INSTANCE Access WITH None <- "none", CacheTtl <- 2, CacheSize <- 1

Flags     == {"search", "get_document", "find_related", "find_code"}
TokenTypes == {"none", "consumer", "publisher", "gov_participant", "researcher", "governance", "other"}
AllScopes == {"read", "write:documents", "methodist"}

Infos ==
    [valid : {TRUE}, why : {""}, user : {"ann"}, id : {"t1"}, type : TokenTypes,
     perms : {{}, {{}}, {Flags}}, scopes : {{}} \cup {{s} : s \in SUBSET AllScopes},
     credits : {{}, {0}, {1}}]

Sound == {i \in Infos : i.credits = {1} /\ i.perms = {Flags}}

Replies == [status : {200}, info : {i \in Infos : i.scopes = {} /\ i.perms = {}} \cup {A!NotValid("revoked")}]
              \cup [status : {404, 429, 500, A!Down}]

Settings == [dev : BOOLEAN, portal : BOOLEAN]
Quiet == [address |-> 1, perAddress |-> 1, anon |-> 1, perUser |-> 1]
Message == [object |-> TRUE, version |-> "2.0", method |-> "string", id |-> "number"]
Addresses == A!Facades \cup A!Roles \cup {"elsewhere"}

Call(address, token) ==
    [method |-> "POST", token |-> token, json |-> TRUE, body |-> "messages",
     messages |-> <<Message>>, address |-> address]

(* A Portal that throttles or cannot be reached is never taken for a bad token:
   the answer says to come again, not to authenticate again (N-7). *)
ASSUME TransientIsRetryable ==
    \A cfg \in Settings, reply \in Replies, token \in {"none", "dev", "x"} :
        LET got == A!VerifyToken([t \in {} |-> 0], token, 0, reply).info
            ans == A!Admission(cfg, Call("pub", token), Quiet, got)
        IN  /\ reply.status # 200 /\ ans.status = 401 => reply.status = 404 \/ ~A!CheckedToken(cfg, Call("pub", token))
            /\ ans.retryable => reply.status \notin {200, 404}
            /\ reply.status \in {429, 500, A!Down} /\ A!CheckedToken(cfg, Call("pub", token)) => ans.retryable

(* Two tokens, asked for in turn. *)
Runs == [1..3 -> [token : {"x", "y"}, wait : 0..2,
                  reply : {[status |-> 200, info |-> i] : i \in {j \in Infos : j.type \in {"consumer"} /\ j.perms = {} /\ j.scopes = {} /\ j.credits # {}}}
                            \cup {[status |-> 500]}]]

Played(run) ==
    LET f[k \in 0..3] ==
            IF k = 0 THEN [at |-> 0, cache |-> [t \in {} |-> 0], said |-> <<>>]
            ELSE LET now == f[k-1].at + run[k].wait
                     got == A!VerifyToken(f[k-1].cache, run[k].token, now, run[k].reply)
                 IN  [at |-> now, cache |-> got.cache, said |-> Append(f[k-1].said, [at |-> now, info |-> got.info])]
    IN f[3]

(* What is held of a token the Portal said of this token less than the time to
   live ago; an outage is over with the first call that the Portal answers. *)
ASSUME AnswersAreFresh ==
    \A run \in Runs :
        LET said == Played(run).said
        IN  \A k \in 1..3 :
                \/ said[k].info.valid /\ \E j \in 1..k :
                       /\ run[j].token = run[k].token /\ run[j].reply.status = 200
                       /\ run[j].reply.info = said[k].info
                       /\ j = k \/ said[k].at - said[j].at < 2
                \/ ~said[k].info.valid /\ run[k].reply.status # 200

(* ... and is asked once in this time, however many other tokens come. *)
ASSUME AskedOnce ==
    \A run \in Runs : LET said == Played(run).said
        IN \A k \in 2..3 :
              /\ run[k].token = run[1].token /\ run[1].reply.status = 200
              /\ said[k].at - said[1].at < 2
              => said[k].info = said[1].info

(* A token of a role gets the tools of this role wherever it comes in, and
   nothing at an address that does not exist. *)
ASSUME OwnToolsEverywhere ==
    \A i \in Sound, a \in Addresses :
        LET ans == A!Admission([dev |-> FALSE, portal |-> TRUE], Call(a, "x"), Quiet, i)
        IN  /\ i.type \in A!Roles =>
                  /\ ans.status = (IF a = "elsewhere" THEN 404 ELSE 200)
                  /\ A!Listed(a, i) = A!RoleTools[i.type]
            /\ i.type \notin A!Roles /\ ans.status = 200 => a \in A!Facades /\ A!Listed(a, i) \subseteq A!FacadeTools[a]
            /\ ans.status = 403 => i.type \in {"none", "consumer", "publisher", "other"}

(* A higher type of token reaches whatever a lower one does. *)
ASSUME HigherReachesMore ==
    \A i, j \in Sound : \A a \in A!Facades :
        /\ {i.type, j.type} \cap A!Roles = {} /\ i.scopes = j.scopes
        /\ A!TypeLevel(i.type) <= A!TypeLevel(j.type)
        /\ A!Routed(a, i) = A!Served
        => /\ A!Routed(a, j) = A!Served /\ A!Listed(a, i) = A!Listed(a, j)
           /\ i.type \in {"consumer", "none"} => A!Listed(a, i) \cap (A!PublishTools \cup A!GovTools) = {} \/ a = "researcher"

(* What is listed may be called, when the token has every flag and the agent
   the highest tier; but for one tool that no table of permissions names. *)
ASSUME ListedIsCallable ==
    \A i \in Sound, a \in A!Facades \cup A!Roles :
        a \in A!Facades \/ i.type \in A!Roles =>
            A!Listed(a, i) \ A!Callable(a, i, "authority") = A!Listed(a, i) \cap (IF i.type \in A!Roles THEN {} ELSE {"publish_draft"})

(* Without scopes a token writes nothing at the researcher's address and meets
   no methodist anywhere: what it lists it would list with the floor of scopes. *)
ASSUME ScopesFailClosed ==
    \A i \in Sound, a \in A!Facades :
        i.type \notin A!Roles =>
            /\ i.scopes = {} => A!Listed(a, i) = A!Listed(a, [i EXCEPT !.scopes = {{"read"}}])
            /\ A!Listed(a, i) \cap A!MethodistTools # {} => A!Holds(i, "methodist")
            /\ a = "researcher" /\ ~A!Holds(i, "write:documents") =>
                  A!Listed(a, i) \cap {"submit_document", "create_new_version", "create_draft",
                                       "publish_draft", "create_upload_url"} = {}

(* A higher tier allows what a lower one does; an agent without a tier can do
   what lets it rise; a tier that is not in the list allows nothing at all. *)
ASSUME TiersRise ==
    LET may(t) == {tool \in A!GovTools : A!CheckTier(t, tool)}
    IN  /\ \A n \in 1..4 : may(A!TierOrder[n]) \subseteq may(A!TierOrder[n + 1])
        /\ may("none") = may("unverified")
        /\ {"request_challenge", "solve_challenge", "challenge_status"} \subseteq may("none")
        /\ may("authority") = A!GovTools
        /\ may("founder") = {}
=============================================================================
