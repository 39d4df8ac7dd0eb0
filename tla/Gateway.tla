-------------------------------- MODULE Gateway -------------------------------
(*****************************************************************************)
(* What stands between a request and the tools: the authorization server     *)
(* (oauth.cpp) and the dispatch of a request (server.cpp). The dispatch uses *)
(* a token as a set of scopes.                                               *)
(*****************************************************************************)
EXTENDS Integers, FiniteSets

-------------------------------------------------------------------------------
(*****************************************************************************)
(* The registry of the OAuth service: clients, authorization codes and the   *)
(* pairs of an access and a refresh token issued for them. Memory is changed *)
(* first and written out as one file afterwards, under one mutex; the write  *)
(* may fail before or after the file is replaced, and the service may        *)
(* restart, which goes back to the file.                                     *)
(*                                                                           *)
(* Refused requests (an unknown client, a wrong secret or verifier, the      *)
(* redirect of another request) change nothing and have no action; scopes,   *)
(* resource and identity are copied along and are left out.                  *)
(*****************************************************************************)
CONSTANTS OAuthClients, Codes, Pairs, MaxClients, NoClient

ASSUME OAuthConstants ==
    NoClient \notin OAuthClients /\ Codes \cap Pairs = {} /\ MaxClients \in Int

VARIABLES memory,     \* clients_, codes_, access_, refresh_
          disk,       \* the state file
          loaded,     \* loaded_
          asking,     \* the client whose authorization waits for an identity
          owner,      \* the client a code or a pair was issued to, if it was
          expired,    \* codes, access and refresh tokens past their time
          source,     \* the code or refresh token a pair was issued for
          answered,   \* codes and pairs sent to a client
          revoking,   \* tokens some client asked to revoke
          revoked     \* tokens whose revocation was answered

oauthVars == <<memory, disk, loaded, asking, owner, expired, source, answered, revoking, revoked>>

Access(k)  == <<"access", k>>
Refresh(k) == <<"refresh", k>>
Code(c)    == <<"code", c>>
Grants == {Code(c) : c \in Codes} \cup {Access(k) : k \in Pairs} \cup {Refresh(k) : k \in Pairs}
IdOf(g) == g[2]

EmptyRegistry == [clients |-> {}, grants |-> {}]

TokensInit ==
          /\ memory = EmptyRegistry /\ disk = EmptyRegistry /\ loaded = FALSE
          /\ asking = NoClient
          /\ owner = [x \in Codes \cup Pairs |-> NoClient]
          /\ expired = {} /\ answered = {} /\ revoking = {} /\ revoked = {}
          /\ source = [k \in Pairs |-> NoClient]

(* A mistaken form of Persisted: success is reported before the write.     *)
PersistedLater(next, ok) == memory' = next /\ disk' \in {disk, next}
(* persist_locked: the whole registry replaces the file.  A failure before *)
(* the replacement leaves the old file, one after it the new file; either  *)
(* way the call fails and memory keeps the change.                         *)
Persisted(next, ok) ==
    /\ memory' = next
    /\ \/ disk' = next
       \/ ~ok /\ disk' = disk

ClientLimit == IF MaxClients > 1 THEN MaxClients ELSE 1

Alive(grants) == grants \ expired

(* load_locked, the first thing every call does after a start, with        *)
(* prune_locked and the write that follows when something was pruned.      *)
Load ==
    /\ ~loaded
    /\ loaded' = TRUE
    /\ LET next == [disk EXCEPT !.grants = Alive(@)]
       IN  IF next = disk
           THEN memory' = disk /\ disk' = disk
           ELSE \E ok \in BOOLEAN : Persisted(next, ok)
    /\ UNCHANGED <<asking, owner, expired, source, answered, revoking, revoked>>

Referenced == {owner[IdOf(g)] : g \in memory.grants}

(* prune_clients_locked: clients no code or token refers to make room,     *)
(* oldest first, as many as are needed; which ones is left open here.      *)
Evictions ==
    LET spare == memory.clients \ Referenced
        excess == IF Cardinality(memory.clients) < ClientLimit THEN 0
                  ELSE Cardinality(memory.clients) - ClientLimit + 1
    IN  {gone \in SUBSET spare :
            Cardinality(gone) = IF excess < Cardinality(spare) THEN excess ELSE Cardinality(spare)}

(* register_client.                                                        *)
Register(c) ==
    /\ loaded
    /\ c \notin memory.clients /\ \A x \in DOMAIN owner : owner[x] # c
    /\ \E gone \in Evictions :
          LET kept == memory.clients \ gone
          IN  IF Cardinality(kept) >= ClientLimit
              THEN memory' = [memory EXCEPT !.clients = kept] /\ disk' = disk
              ELSE \E ok \in BOOLEAN : Persisted([memory EXCEPT !.clients = kept \cup {c}], ok)
    /\ UNCHANGED <<loaded, asking, owner, expired, source, answered, revoking, revoked>>

(* authorize up to the verification of the caller's identity, which runs   *)
(* without the mutex.                                                      *)
Authorize(c) ==
    /\ loaded /\ asking = NoClient
    /\ c \in memory.clients
    /\ asking' = c
    /\ UNCHANGED <<memory, disk, loaded, owner, expired, source, answered, revoking, revoked>>

(* authorize after it: the client must still be the one that was read.     *)
StillRegistered == asking \in memory.clients
IssueCode(c) ==
    /\ asking # NoClient /\ owner[c] = NoClient
    /\ IF StillRegistered
       THEN \E ok \in BOOLEAN :
               /\ Persisted([memory EXCEPT !.grants = @ \cup {Code(c)}], ok)
               /\ owner' = [owner EXCEPT ![c] = asking]
               /\ answered' = IF ok THEN answered \cup {c} ELSE answered
       ELSE UNCHANGED <<memory, disk, owner, answered>>
    /\ asking' = NoClient
    /\ UNCHANGED <<loaded, expired, source, revoking, revoked>>

(* A uuid for a new pair.                                                  *)
NewPair == CHOOSE k \in Pairs : owner[k] = NoClient

(* exchange_token for the code or the refresh token g: an expired one is   *)
(* erased and refused, another one is spent for a new pair.                *)
Spent(g) == memory.grants \ {g}
ExchangeToken(g, k) ==
    /\ loaded /\ owner[k] = NoClient /\ k = NewPair
    /\ g \in memory.grants /\ g[1] # "access" /\ IdOf(g) \in answered
    /\ owner[IdOf(g)] \in memory.clients
    /\ g \notin expired
    /\ \E ok \in BOOLEAN :
          /\ Persisted([memory EXCEPT !.grants = Spent(g) \cup {Access(k), Refresh(k)}], ok)
          /\ answered' = IF ok THEN answered \cup {k} ELSE answered
    /\ owner' = [owner EXCEPT ![k] = owner[IdOf(g)]]
    /\ source' = [source EXCEPT ![k] = g]
    /\ UNCHANGED <<loaded, asking, expired, revoking, revoked>>

(* An expired code, access or refresh token is erased when it is used:     *)
(* exchange_token, verify_access_token.                                    *)
UseExpired(g) ==
    /\ loaded
    /\ g \in memory.grants \cap expired
    /\ \E ok \in BOOLEAN : Persisted([memory EXCEPT !.grants = @ \ {g}], ok)
    /\ UNCHANGED <<loaded, asking, owner, expired, source, answered, revoking, revoked>>

(* revoke: the token goes, whether or not it was known.                    *)
Revoke(g) ==
    /\ loaded
    /\ g[1] # "code" /\ IdOf(g) \in answered
    /\ owner[IdOf(g)] \in memory.clients
    /\ revoking' = revoking \cup {g}
    /\ \E ok \in BOOLEAN :
          /\ Persisted([memory EXCEPT !.grants = @ \ {g}], ok)
          /\ revoked' = IF ok THEN revoked \cup {g} ELSE revoked
    /\ UNCHANGED <<loaded, asking, owner, expired, source, answered>>

GrantExpires(g) ==
    /\ owner[IdOf(g)] # NoClient
    /\ g \notin expired
    /\ expired' = expired \cup {g}
    /\ UNCHANGED <<memory, disk, loaded, asking, owner, source, answered, revoking, revoked>>

(* The service restarts; an authorization in progress is gone.             *)
Restart ==
    /\ loaded
    /\ memory' = EmptyRegistry /\ loaded' = FALSE /\ asking' = NoClient
    /\ UNCHANGED <<disk, owner, expired, source, answered, revoking, revoked>>

TokensNext ==
          \/ Load
          \/ \E c \in OAuthClients : Register(c)
          \/ \E c \in OAuthClients : Authorize(c)
          \/ \E c \in Codes : IssueCode(c)
          \/ \E g \in Grants, k \in Pairs : ExchangeToken(g, k)
          \/ \E g \in Grants : UseExpired(g)
          \/ \E g \in Grants : Revoke(g)
          \/ \E g \in Grants : GrantExpires(g)
          \/ Restart

(* A code or a refresh token buys one answered pair of tokens, whatever    *)
(* writes fail and whenever the service restarts between them.             *)
SpentOnce ==
    \A j, k \in Pairs \cap answered : source[j] = source[k] => j = k

(* A token whose revocation was answered is never accepted again: neither  *)
(* memory nor the file a restart reads holds it.                           *)
RevokedStaysRevoked == revoked \cap (memory.grants \cup disk.grants) = {}

(* An access token the service answered with survives a restart until it   *)
(* expires or somebody asks for its revocation.                            *)
AnsweredIsDurable ==
    \A k \in Pairs \cap answered :
        Access(k) \in disk.grants \cup expired \cup revoking

(* The client of every code and token the service would accept is still    *)
(* registered: making room never evicts a client in use, not even between  *)
(* the two halves of an authorization.                                     *)
GrantsHaveClients ==
    /\ \A g \in memory.grants : owner[IdOf(g)] \in memory.clients
    /\ \A g \in disk.grants : owner[IdOf(g)] \in disk.clients

(* The registry holds at most the configured number of clients.            *)
ClientsBounded == Cardinality(memory.clients) <= ClientLimit /\ Cardinality(disk.clients) <= ClientLimit

TokensSpec == TokensInit /\ [][TokensNext]_oauthVars

-------------------------------------------------------------------------------
(*****************************************************************************)
(* One HTTP request on its way through the gateway's inspection, the routes, *)
(* authentication, content negotiation, the checks on the protocol headers   *)
(* and the JSON-RPC method table to a tool or an extension method of the     *)
(* backend, and the bookkeeping of the tool invocation it makes.             *)
(*                                                                           *)
(* A feature of the request is chosen by the step that looks at it. An early *)
(* reply ends the request; which reply it is matters nowhere below, so       *)
(* "replied" stands for all of them.                                         *)
(*****************************************************************************)
VARIABLES stage,      \* where the request is
          asked,      \* what is known of it
          work,       \* what the backend was asked to do: a method, and by whom
          opened,     \* tool_started without its end
          ends        \* calls of tool_finished and tool_failed

dispatchVars == <<stage, asked, work, opened, ends>>

Verbs   == {"GET", "POST", "DELETE", "OPTIONS", "PUT"}
Paths   == {"probe", "well-known", "oauth", "mcp", "other"}
Scopes  == {"read", "exec", "tools"}
Methods == {"initialize", "server/discover", "ping", "tools/list", "tools/call", "tasks/get",
            "tasks/update", "resources/read", "resources/list", "unknown"}

DispatchInit ==
            /\ stage = "arrived"
            /\ asked = [oauth |-> FALSE, local |-> FALSE, verb |-> "GET", path |-> "other", scopes |-> {},
                        verified |-> FALSE, call |-> FALSE, method |-> "unknown", modern |-> FALSE,
                        mirrored |-> FALSE, tasks |-> FALSE]
            /\ work = {} /\ opened = 0 /\ ends = 0

Goes(place) == stage' = place
NothingDone == UNCHANGED <<work, opened, ends>>

(* Gateway::inspect: the authority must be one of the server's own, and    *)
(* only a loopback peer that names a loopback authority and passed no      *)
(* proxy is local.  A preflight request is always answered here.           *)
Inspect ==
    /\ stage = "arrived"
    /\ \E host \in {"missing", "foreign", "loopback", "public"}, peer, proxied, oauth \in BOOLEAN,
         verb \in Verbs, origin \in {"none", "allowed", "other"} :
          /\ asked' = [asked EXCEPT !.oauth = oauth, !.verb = verb,
                                    !.local = peer /\ host = "loopback" /\ ~proxied]
          /\ Goes(IF host \in {"missing", "foreign"} \/ (verb = "OPTIONS" /\ origin # "none")
                  THEN "replied" ELSE "route")
    /\ NothingDone

(* dispatch up to the MCP endpoint: probes, metadata, the OAuth endpoints  *)
(* (oauth_route, on the authentication pool) and unknown paths.            *)
Route ==
    /\ stage = "route"
    /\ \E path \in Paths :
          /\ asked' = [asked EXCEPT !.path = path]
          /\ Goes(IF path = "mcp" THEN "authenticate" ELSE "replied")
    /\ NothingDone

(* Whether the method needs a token when OAuth is on.                      *)
NeedsToken == asked.verb \in {"POST", "DELETE"}

(* The bearer token: a missing, malformed, unknown or expired one ends the *)
(* request, another one brings its scopes.                                 *)
Authenticate ==
    /\ stage = "authenticate"
    /\ \/ /\ asked.oauth /\ NeedsToken
          /\ \/ Goes("replied") /\ UNCHANGED asked
             \/ /\ Goes("negotiate")
                /\ \E scopes \in SUBSET Scopes :
                      asked' = [asked EXCEPT !.verified = TRUE, !.scopes = scopes]
       \/ ~(asked.oauth /\ NeedsToken) /\ Goes("negotiate") /\ UNCHANGED asked
    /\ NothingDone

(* Only a POST with a JSON body, from a client that accepts JSON or an     *)
(* event stream, goes on; a GET is the stream probe, the metadata page or  *)
(* a refusal, a DELETE an empty reply.                                     *)
Negotiate ==
    /\ stage = "negotiate"
    /\ \E type, accepts \in BOOLEAN :
          Goes(IF asked.verb = "POST" /\ type /\ accepts THEN "parse" ELSE "replied")
    /\ UNCHANGED asked /\ NothingDone

(* bounded_json, on the codec pool when the body is large, and the shape   *)
(* of a JSON-RPC message.  A body that is cut off, too deep, too wide or   *)
(* not a message ends the request.                                         *)
Parse ==
    /\ stage = "parse"
    /\ \/ Goes("replied") /\ UNCHANGED asked
       \/ \E method \in Methods, call \in BOOLEAN :
             Goes("validate") /\ asked' = [asked EXCEPT !.method = method, !.call = call]
    /\ NothingDone

Named == {"tools/call", "resources/read"}

(* validate_protocol_request.                                              *)
Unsound(header, agrees, meta, caps, mirrorsMethod, mirrorsName) ==
    \/ header = "unsupported"
    \/ asked.method = "initialize" /\ header # "none" /\ ~agrees
    \/ /\ asked.method # "initialize" /\ asked.call
       /\ \/ meta /\ (header = "none" \/ ~agrees)
          \/ (header = "modern" \/ asked.method = "server/discover") /\ ~(meta /\ caps)
          \/ header = "modern" /\ (~mirrorsMethod \/ (asked.method \in Named /\ ~mirrorsName))

Validate ==
    /\ stage = "validate"
    /\ \E header \in {"none", "unsupported", "legacy", "modern"},
         agrees, meta, caps, mirrorsMethod, mirrorsName, tasks \in BOOLEAN :
          /\ tasks => caps
          /\ asked' = [asked EXCEPT !.modern = header = "modern",
                                    !.mirrored = mirrorsMethod /\ (asked.method \in Named => mirrorsName),
                                    !.tasks = tasks]
          /\ Goes(IF Unsound(header, agrees, meta, caps, mirrorsMethod, mirrorsName)
                  THEN "replied" ELSE "dispatch")
    /\ NothingDone

(* oauth_scope_allows; without OAuth there is nothing to allow.            *)
Allows(scope) == asked.verified => asked.scopes \cap {"tools", scope} # {}

MethodScope == IF asked.method = "tasks/update" THEN "exec" ELSE "read"

(* The method table.  A notification ends the request here; a method the   *)
(* table answers by itself asks the backend for nothing it could refuse.   *)
(* handles says whether the backend has the extension method.              *)
DispatchMethod ==
    /\ stage = "dispatch"
    /\ \E handles \in BOOLEAN :
          LET extension == \/ asked.method \in {"tasks/get", "tasks/update"}
                           \/ asked.modern /\ handles /\ asked.method \in {"resources/read", "resources/list"}
          IN  \/ asked.call /\ asked.method = "tools/call" /\ Goes("tool") /\ UNCHANGED work
              \/ /\ asked.call /\ extension
                 /\ asked.method \in {"tasks/get", "tasks/update"} => asked.tasks
                 /\ handles /\ Allows(MethodScope)
                 /\ work' = work \cup {[what |-> asked.method, scope |-> MethodScope]}
                 /\ Goes("replied")
              \/ /\ ~(asked.call /\ (asked.method = "tools/call"
                        \/ (extension /\ handles /\ Allows(MethodScope)
                            /\ (asked.method \in {"tasks/get", "tasks/update"} => asked.tasks))))
                 /\ Goes("replied") /\ UNCHANGED work
    /\ UNCHANGED <<asked, opened, ends>>

(* call_tool up to its first suspension: the arguments are checked, the    *)
(* invocation is opened, and the scope the tool's policy names is required *)
(* (scope "none": the tool has no policy).                                 *)
StartTool ==
    /\ stage = "tool"
    /\ \E scope \in {"read", "exec", "none"} :
          \/ stage' = "replied" /\ UNCHANGED <<work, opened>>
          \/ /\ opened' = opened + 1
             /\ IF scope = "none" \/ Allows(scope)
                THEN /\ work' = work \cup {[what |-> "tools/call", scope |-> scope]}
                     /\ stage' = "running"
                ELSE stage' = "answered" /\ UNCHANGED work
    /\ UNCHANGED <<asked, ends>>

(* The tool returns, or throws because it failed or was cancelled.         *)
ToolReturns == stage = "running" /\ Goes("answered") /\ UNCHANGED <<asked, work, opened, ends>>
ToolThrows  == stage = "running" /\ Goes("failed") /\ UNCHANGED <<asked, work, opened, ends>>

(* A durable result is turned into a task when the client can use it; that *)
(* too is a call of the backend and may throw.                             *)
MakeTask ==
    /\ stage = "answered" /\ asked.tasks
    /\ \E place \in {"augmented", "failed"} : Goes(place)
    /\ UNCHANGED <<asked, work, opened, ends>>

(* tool_finished, or tool_failed and tool_finished in the two handlers.    *)
Closed == /\ opened' = opened - 1 /\ ends' = ends + 1
EndTool ==
    /\ stage \in {"answered", "augmented", "failed"}
    /\ Closed
    /\ Goes("replied")
    /\ UNCHANGED <<asked, work>>

DispatchNext ==
            \/ Inspect
            \/ Route
            \/ Authenticate
            \/ Negotiate
            \/ Parse
            \/ Validate
            \/ DispatchMethod
            \/ StartTool
            \/ ToolReturns
            \/ ToolThrows
            \/ MakeTask
            \/ EndTool

(* With OAuth on, the backend does nothing for a request without a         *)
(* verified token, and nothing whose scope the token lacks: over all the   *)
(* routes, methods and headers that lead to the backend.                   *)
WorkIsAuthorised ==
    \A w \in work : asked.oauth =>
        asked.verified /\ (w.scope = "none" \/ asked.scopes \cap {"tools", w.scope} # {})

(* What the backend does for a modern client is what the headers announced *)
(* to whoever inspected them on the way.                                   *)
ModernWorkIsMirrored == work # {} /\ asked.modern => asked.mirrored

(* Every tool invocation that was opened is closed once, on every way out: *)
(* a refusal, a result, a failure, a cancellation, a task that could not   *)
(* be recorded.                                                            *)
InvocationClosedOnce == stage = "replied" => opened = 0 /\ ends <= 1

DispatchSpec == DispatchInit /\ [][DispatchNext]_dispatchVars

(* Access: a code or refresh token is spent once, what was revoked stays   *)
(* revoked, what was answered survives a restart, every grant has its      *)
(* client and the clients are bounded; work begins only with the scope it  *)
(* needs and headers that mirror the body, and every invocation is closed  *)
(* once.                                                                   *)
AccessSound ==
    /\ SpentOnce
    /\ RevokedStaysRevoked
    /\ AnsweredIsDurable
    /\ GrantsHaveClients
    /\ ClientsBounded
    /\ WorkIsAuthorised
    /\ ModernWorkIsMirrored
    /\ InvocationClosedOnce
===============================================================================
