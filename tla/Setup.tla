------------------------------- MODULE Setup -------------------------------
(* First-run setup, what it fills in and API tokens: App.Setup of app/app.go,   *)
(* Initialize, ValidateAPIToken and the saving and deleting of Docker           *)
(* endpoints, scan targets and tokens in store/sqlite/store_impl.go.  Requests  *)
(* run side by side; a transaction is one action on the connection for writing, *)
(* a read on another connection is an action of its own.                        *)
EXTENDS FiniteSets

CONSTANTS
    Setups,    \* setup requests, each sent once
    Cidrs, Tokens, Requests,
    User, Nobody,
    Legacy     \* the admin token of older versions

Scopes == {"read", "write"}

VARIABLES
    settings,    \* app_settings: the setup that has written them, or Nobody
    targets,     \* scan_targets: from cidr, which is UNIQUE, to who added it
    endpoints,   \* docker_endpoints: who has added one
    setups,      \* the setup requests
    tokens,      \* api_tokens: from ids to scope and whether it is revoked
    requests     \* requests with a token in their Authorization header

setupVars == <<settings, targets, endpoints>>
setupModuleVars == <<setupVars, setups, tokens, requests>>

NewSetup == [at |-> "new", cidrs |-> {}, docker |-> FALSE, late |-> FALSE]
NewRequest == [at |-> "new", token |-> Nobody, need |-> "read", revoked |-> {}]

SetupInit ==
    /\ settings = Nobody /\ targets = <<>> /\ endpoints = {}
    /\ setups = [r \in Setups |-> NewSetup]
    /\ tokens = <<>>
    /\ requests = [q \in Requests |-> NewRequest]

(* What a request leaves open comes from the configuration or, for the targets, *)
(* from the networks of the host; the Docker socket may be added to any.        *)
SeedScanTargets(asked) == IF asked # {} THEN {asked} ELSE SUBSET Cidrs

SeedDockerEndpoints(asked) == IF asked THEN {TRUE} ELSE BOOLEAN

(* App.Setup: the check, then the seeds. *)
BeginSetup(r, askedCidrs, askedDocker) ==
    /\ setups[r].at = "new"
    /\ \E cidrs \in SeedScanTargets(askedCidrs), docker \in SeedDockerEndpoints(askedDocker) :
          setups' = [setups EXCEPT ![r] =
                        [at |-> IF settings = Nobody THEN "asked" ELSE "refused",
                         cidrs |-> cidrs, docker |-> docker, late |-> settings # Nobody]]
    /\ UNCHANGED <<setupVars, tokens, requests>>

(* Store.Initialize checks again, still outside its transaction. *)
CheckSetup(r) ==
    /\ setups[r].at = "asked"
    /\ setups' = [setups EXCEPT ![r].at = IF settings = Nobody THEN "checked" ELSE "refused"]
    /\ UNCHANGED <<setupVars, tokens, requests>>

(* The transaction: settings are upserted, endpoints and targets inserted with  *)
(* new ids, and a known cidr fails the whole.                                   *)
WriteSetup(r) ==
    /\ setups[r].at = "checked"
    /\ IF setups[r].cidrs \cap DOMAIN targets = {}
          THEN /\ settings' = r
               /\ targets' = [c \in DOMAIN targets \cup setups[r].cidrs |->
                                 IF c \in setups[r].cidrs THEN r ELSE targets[c]]
               /\ endpoints' = IF setups[r].docker THEN endpoints \cup {r} ELSE endpoints
               /\ setups' = [setups EXCEPT ![r].at = "done"]
          ELSE /\ setups' = [setups EXCEPT ![r].at = "failed"]
               /\ UNCHANGED setupVars
    /\ UNCHANGED <<tokens, requests>>

(* Faulty: a statement fails and what came before it stays. *)
SetupFailsHalfway(r) ==
    /\ setups[r].at = "checked"
    /\ setups' = [setups EXCEPT ![r].at = "failed"]
    /\ endpoints' = IF setups[r].docker THEN endpoints \cup {r} ELSE endpoints
    /\ UNCHANGED <<settings, targets, tokens, requests>>

(* A statement fails, the client goes or the process stops: rolled back. *)
SetupFails(r) ==
    /\ setups[r].at \in {"asked", "checked"}
    /\ setups' = [setups EXCEPT ![r].at = "failed"]
    /\ UNCHANGED <<setupVars, tokens, requests>>

SaveScanTarget(c) ==
    /\ targets' = [x \in DOMAIN targets \cup {c} |-> IF x = c THEN User ELSE targets[x]]
    /\ UNCHANGED <<settings, endpoints, setups, tokens, requests>>

DeleteScanTarget(c) ==
    /\ targets' = [x \in DOMAIN targets \ {c} |-> targets[x]]
    /\ UNCHANGED <<settings, endpoints, setups, tokens, requests>>

SaveDockerEndpoint ==
    /\ endpoints' = endpoints \cup {User}
    /\ UNCHANGED <<settings, targets, setups, tokens, requests>>

DeleteDockerEndpoint(by) ==
    /\ endpoints' = endpoints \ {by}
    /\ UNCHANGED <<settings, targets, setups, tokens, requests>>

-----------------------------------------------------------------------------
CreateAPIToken(t, scope) ==
    /\ t \notin DOMAIN tokens
    /\ tokens' = [x \in DOMAIN tokens \cup {t} |->
                     IF x = t THEN [scope |-> scope, revoked |-> FALSE] ELSE tokens[x]]
    /\ UNCHANGED <<setupVars, setups, requests>>

RevokeAPIToken(t) ==
    /\ t \in DOMAIN tokens /\ ~tokens[t].revoked
    /\ tokens' = [tokens EXCEPT ![t].revoked = TRUE]
    /\ UNCHANGED <<setupVars, setups, requests>>

TokenScopeAllows(actual, required) == actual = "write" \/ actual = required

Live(t, need) == t \in DOMAIN tokens /\ ~tokens[t].revoked /\ TokenScopeAllows(tokens[t].scope, need)

Revoked == {t \in DOMAIN tokens : tokens[t].revoked}

(* A request arrives; the settings are read for the hash of the admin token.    *)
PresentToken(q, t, need) ==
    /\ requests[q].at = "new"
    /\ requests' = [requests EXCEPT ![q] =
                       [at |-> IF t = Legacy THEN "accepted" ELSE "asked",
                        token |-> t, need |-> need, revoked |-> Revoked]]
    /\ UNCHANGED <<setupVars, setups, tokens>>

LookUpToken(q) ==
    /\ requests[q].at = "asked"
    /\ requests' = [requests EXCEPT ![q].at =
                       IF Live(requests[q].token, requests[q].need) THEN "found" ELSE "refused"]
    /\ UNCHANGED <<setupVars, setups, tokens>>

(* last_used_at, which touches no other column and may come after a revocation. *)
StampToken(q) ==
    /\ requests[q].at = "found"
    /\ \E at \in {"accepted", "refused"} : requests' = [requests EXCEPT ![q].at = at]
    /\ UNCHANGED <<setupVars, setups, tokens>>

SetupNext ==
    \/ \E r \in Setups :
          \/ \E cidrs \in SUBSET Cidrs, docker \in BOOLEAN : BeginSetup(r, cidrs, docker)
          \/ CheckSetup(r) \/ WriteSetup(r) \/ SetupFails(r)
    \/ \E c \in Cidrs : SaveScanTarget(c) \/ DeleteScanTarget(c)
    \/ SaveDockerEndpoint
    \/ \E by \in endpoints : DeleteDockerEndpoint(by)
    \/ \E t \in Tokens : RevokeAPIToken(t) \/ \E scope \in Scopes : CreateAPIToken(t, scope)
    \/ \E q \in Requests :
          \/ \E t \in Tokens \cup {Legacy}, need \in Scopes : PresentToken(q, t, need)
          \/ LookUpToken(q) \/ StampToken(q)

SetupSpec == SetupInit /\ [][SetupNext]_setupModuleVars

-----------------------------------------------------------------------------
Done == {r \in Setups : setups[r].at = "done"}

(* Nothing of a setup that did not succeed is left to get in the way of the     *)
(* next try, the appliance is initialised when one has succeeded, and a setup   *)
(* asked for after that changes nothing.                                        *)
SetupIsWhole ==
    /\ endpoints \subseteq Done \cup {User}
    /\ {targets[c] : c \in DOMAIN targets} \subseteq Done \cup {User}
    /\ settings \in (IF Done = {} THEN {Nobody} ELSE Done)
    /\ \A r \in Done : ~setups[r].late

(* A request that was let in had a token that was not revoked when it came, and *)
(* of the scope it needed.                                                      *)
AcceptedWereLive ==
    \A q \in Requests :
        requests[q].at = "accepted" /\ requests[q].token # Legacy =>
            /\ requests[q].token \notin requests[q].revoked
            /\ TokenScopeAllows(tokens[requests[q].token].scope, requests[q].need)

(* Setups at once, failures in the middle of one, users who edit what it seeds, *)
(* and tokens revoked while they are in use.                                    *)
SetupAndTokensHold == SetupIsWhole /\ AcceptedWereLive
=============================================================================
