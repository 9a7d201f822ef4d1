------------------------------- MODULE Pairing -------------------------------
(***************************************************************************)
(* How a client of PrintLatch gets a token and loses it: the one-time      *)
(* pairing codes that the commands `pair` and `dashboard` store, their     *)
(* redemption by POST /v1/pair, the clients table with the one stable      *)
(* dashboard client, the commands that create, rotate and revoke, and the  *)
(* proof by which `dashboard` recognises the agent of its installation.    *)
(*                                                                         *)
(* A commit to the SQLite file is one step. A request or a command that    *)
(* mints a token does so once, so the token and the id of the client it    *)
(* may create (both fresh random values) are called by the name of their   *)
(* maker. An agent is named by the session it draws when it starts.        *)
(***************************************************************************)
CONSTANTS
    Sessions,   \* the runs of `serve` that answer on the port
    Foreign,    \* other listeners on it, of an installation with its own database
    Codes,      \* pairing codes, one for each run of `pair` or `dashboard`
    DashCodes,  \* those of `dashboard`: bound to a session, reuse_client set
    Home,       \* the origin each code is granted for
    Origins,    \* origins that requests come from
    NoOrigin,   \* of a request without one
    Requests,   \* runs of the pair handler
    Commands,   \* runs of `clients create` and `clients rotate`
    Nothing     \* no session, code, token, secret or client

ASSUME CodeAssumption ==
    /\ Foreign \cap (Sessions \cup Codes) = {} /\ DashCodes \subseteq Codes
    /\ Home \in [Codes -> Origins] /\ NoOrigin \notin Origins
ASSUME NameAssumption ==
    /\ Requests \cap Commands = {} /\ Sessions \cap Codes = {}
    /\ Nothing \notin Sessions \cup Foreign \cup Codes \cup Requests \cup Commands

Makers == Requests \cup Commands

VARIABLES
    \* The database.
    secret,     \* instance_identity, by the name of the process that drew it
    code,       \* a row of pairing_codes
    client,     \* a row of clients, by the maker of its id
    token,      \* clients.token_hash
    origin,     \* clients.origin
    expired,    \* clients.expires_at has passed
    \* `serve`.
    agent,
    request,    \* progress of a run of the pair handler
    at,         \* the agent that runs it, unless it was refused
    with,       \* its code, unless it was refused
    fresh,      \* nothing was committed since its transaction read the code
    \* The commands.
    grant,      \* progress of the command that makes a code
    peer,       \* the session that answered its challenge
    proof,      \* the secret behind the answer, until it is checked
    command,    \* progress of a create or rotate command
    target      \* the client it rotates

codeVars    == <<code, grant, peer, proof>>
clientVars  == <<client, token, origin, expired>>
requestVars == <<request, at, with>>
commandVars == <<command, target>>
vars == <<secret, codeVars, clientVars, agent, requestVars, fresh, commandVars>>

Init ==
    /\ secret = Nothing
    /\ code = [c \in Codes |-> "none"]
    /\ client = [x \in Makers |-> "none"]
    /\ token = [x \in Makers |-> Nothing]
    /\ origin = [x \in Makers |-> NoOrigin]
    /\ expired = [x \in Makers |-> FALSE]
    /\ agent = [s \in Sessions |-> "new"]
    /\ request = [r \in Requests |-> "idle"]
    /\ at = [r \in Requests |-> Nothing]
    /\ with = [r \in Requests |-> Nothing]
    /\ fresh = [r \in Requests |-> FALSE]
    /\ grant = [c \in Codes |-> "idle"]
    /\ peer = [c \in Codes |-> Nothing]
    /\ proof = [c \in Codes |-> Nothing]
    /\ command = [o \in Commands |-> "idle"]
    /\ target = [o \in Commands |-> Nothing]

\* A foreign listener has the port while no agent does; it comes and goes by itself.
Listens(s) == IF s \in Foreign THEN \A t \in Sessions : agent[t] # "serving"
                               ELSE agent[s] = "serving"

\* A commit that changes the file outdates the snapshot of every open transaction.
Commit == fresh' = [r \in Requests |-> FALSE]

\* clients.stable_key is set when the row is inserted.
Stable(x) == x \in Requests /\ with[x] \in DashCodes

-----------------------------------------------------------------------------
(* The commands `dashboard` and `pair`.                                    *)

\* Broken: INSERT OR REPLACE.
InstanceSecret_Replaced(candidate) == candidate

\* INSERT OR IGNORE, then SELECT.
InstanceSecret(candidate) == IF secret = Nothing THEN candidate ELSE secret

UseSecret(candidate) ==
    /\ secret' = InstanceSecret(candidate)
    /\ IF secret' = secret THEN UNCHANGED fresh ELSE Commit

\* The command sends its challenge to the port, and whoever listens answers with its
\* session and a proof from the secret of its own database.
Challenge(c, s) ==
    /\ grant[c] = "idle" /\ c \in DashCodes /\ Listens(s)
    /\ grant' = [grant EXCEPT ![c] = "asked"]
    /\ peer' = [peer EXCEPT ![c] = s]
    /\ IF s \in Foreign THEN UNCHANGED <<secret, fresh>> ELSE UseSecret(s)
    /\ proof' = [proof EXCEPT ![c] = IF s \in Foreign THEN s ELSE secret']
    /\ UNCHANGED <<code, clientVars, agent, requestVars, commandVars>>

Verify(c) ==
    /\ grant[c] = "asked"
    /\ UseSecret(c)
    /\ grant' = [grant EXCEPT ![c] = IF proof[c] = secret' THEN "verified" ELSE "failed"]
    /\ peer' = [peer EXCEPT ![c] = IF proof[c] = secret' THEN @ ELSE Nothing]
    /\ proof' = [proof EXCEPT ![c] = Nothing]
    /\ UNCHANGED <<code, clientVars, agent, requestVars, commandVars>>

\* insert_pairing_code, which also deletes codes that are spent or too old.
Grant(c) ==
    /\ grant[c] = IF c \in DashCodes THEN "verified" ELSE "idle"
    /\ grant' = [grant EXCEPT ![c] = "made"]
    /\ code' = [d \in Codes |-> IF d = c THEN "open"
                                ELSE IF code[d] \in {"expired", "consumed"} THEN "none"
                                ELSE code[d]]
    /\ Commit
    /\ UNCHANGED <<secret, peer, proof, clientVars, agent, requestVars, commandVars>>

ExpireCode(c) ==
    /\ code[c] = "open"
    /\ code' = [code EXCEPT ![c] = "expired"]
    /\ UNCHANGED <<secret, grant, peer, proof, clientVars, agent, requestVars, fresh, commandVars>>

-----------------------------------------------------------------------------
(* POST /v1/pair: a deferred transaction that selects the code and marks   *)
(* it, then another one that stores the token.                             *)

\* Broken: the session clause is missing.
Redeemable_AnyAgent(c, o, s) == code[c] = "open" /\ o = Home[c]

Redeemable(c, o, s) ==
    /\ code[c] = "open" /\ o = Home[c]
    /\ c \in DashCodes => peer[c] = s

\* An agent that shuts down still answers the requests that it has accepted.
Answers(s) == agent[s] \in {"serving", "stopping"}

\* The SELECT finds a row and so opens a snapshot.
ReadCode(r, s, c, o) ==
    /\ request[r] = "idle" /\ Answers(s) /\ Redeemable(c, o, s)
    /\ request' = [request EXCEPT ![r] = "read"]
    /\ at' = [at EXCEPT ![r] = s]
    /\ with' = [with EXCEPT ![r] = c]
    /\ fresh' = [fresh EXCEPT ![r] = TRUE]
    /\ UNCHANGED <<secret, codeVars, clientVars, agent, commandVars>>

\* It finds none: any text may be sent for a code.
MissCode(r) ==
    /\ request[r] = "idle" /\ \E s \in Sessions : Answers(s)
    /\ request' = [request EXCEPT ![r] = "refused"]
    /\ UNCHANGED <<secret, codeVars, clientVars, agent, at, with, fresh, commandVars>>

\* SQLite refuses to write from a snapshot that is no longer the last.
MayUpgrade(r) == fresh[r]

MarkSpent(r) ==
    /\ code' = [code EXCEPT ![with[r]] = IF @ = "none" THEN @ ELSE "consumed"]
    /\ request' = [request EXCEPT ![r] = "owed"]
    /\ Commit
    /\ UNCHANGED <<secret, grant, peer, proof, clientVars, agent, at, with, commandVars>>

\* Broken: the SELECT is not part of the transaction.
ConsumeCode_Apart(r) == request[r] = "read" /\ MarkSpent(r)

\* The UPDATE and its commit; how many rows it changed is not looked at.
ConsumeCode(r) == request[r] = "read" /\ MayUpgrade(r) /\ MarkSpent(r)

\* A transaction fails: a stale snapshot, a busy file, a refused insert. The answer is an error.
RefusePairing(r) ==
    /\ request[r] \in {"read", "owed"}
    /\ request' = [request EXCEPT ![r] = "refused"]
    /\ at' = [at EXCEPT ![r] = Nothing]
    /\ with' = [with EXCEPT ![r] = Nothing]
    /\ fresh' = [fresh EXCEPT ![r] = FALSE]
    /\ UNCHANGED <<secret, codeVars, clientVars, agent, commandVars>>

\* A row of x with a new token of maker t. Rotation by code also moves the origin.
StoreToken(x, t, o) ==
    /\ client' = [client EXCEPT ![x] = "active"]
    /\ token' = [token EXCEPT ![x] = t]
    /\ origin' = [origin EXCEPT ![x] = o]
    /\ expired' = [expired EXCEPT ![x] = FALSE]
    /\ Commit

\* insert_client, for an ordinary grant.
IssueToken(r) ==
    /\ request[r] = "owed" /\ with[r] \notin DashCodes
    /\ StoreToken(r, r, Home[with[r]])
    /\ request' = [request EXCEPT ![r] = "token"]
    /\ UNCHANGED <<secret, codeVars, agent, at, with, commandVars>>

\* Broken: any active browser client is found.
StableClients_AnyBrowser == {x \in Requests : client[x] = "active"}

\* What the SELECT of rotate_or_insert_stable_browser_client finds: all the rows of the
\* unique index clients_active_stable_key, so an insert beside them is never refused.
StableClients == {x \in Requests : client[x] = "active" /\ Stable(x)}

\* Broken: the origin of a rotated client is kept.
NewOrigin_Kept(r, x) == IF client[x] = "active" THEN origin[x] ELSE Home[with[r]]

\* Broken: the origin is not stored.
NewOrigin_Missing(r, x) == NoOrigin

NewOrigin(r, x) == Home[with[r]]

\* One immediate transaction: the lookup and the write are one step.
IssueDashboardToken(r) ==
    /\ request[r] = "owed" /\ with[r] \in DashCodes
    /\ \E x \in IF StableClients = {} THEN {r} ELSE StableClients :
           StoreToken(x, r, NewOrigin(r, x))
    /\ request' = [request EXCEPT ![r] = "token"]
    /\ UNCHANGED <<secret, codeVars, agent, at, with, commandVars>>

-----------------------------------------------------------------------------
(* `printlatch clients`, and the clock.                                    *)

\* `clients create`: a local client, without an origin.
CreateClient(o) ==
    /\ command[o] = "idle"
    /\ StoreToken(o, o, NoOrigin)
    /\ command' = [command EXCEPT ![o] = "done"]
    /\ UNCHANGED <<secret, codeVars, agent, requestVars, target>>

\* `clients rotate` reads the client in one statement ...
ReadClient(o, x) ==
    /\ command[o] = "idle" /\ client[x] = "active"
    /\ command' = [command EXCEPT ![o] = "read"]
    /\ target' = [target EXCEPT ![o] = x]
    /\ UNCHANGED <<secret, codeVars, clientVars, agent, requestVars, fresh>>

\* Broken: the UPDATE does not ask whether the client was revoked meanwhile.
MayRotate_Revoked(x) == client[x] # "none"

MayRotate(x) == client[x] = "active"

\* ... and stores the new token in another. If no row is changed the command fails.
RotateClient(o) ==
    /\ command[o] = "read"
    /\ command' = [command EXCEPT ![o] = IF MayRotate(target[o]) THEN "done" ELSE "failed"]
    /\ target' = [target EXCEPT ![o] = Nothing]
    /\ IF MayRotate(target[o]) THEN /\ token' = [token EXCEPT ![target[o]] = o]
                                    /\ expired' = [expired EXCEPT ![target[o]] = FALSE]
                                    /\ Commit
                               ELSE UNCHANGED <<token, expired, fresh>>
    /\ UNCHANGED <<secret, codeVars, client, origin, agent, requestVars>>

RevokeClient(x) ==
    /\ client[x] = "active"
    /\ client' = [client EXCEPT ![x] = "revoked"]
    /\ Commit
    /\ UNCHANGED <<secret, codeVars, token, origin, expired, agent, requestVars, commandVars>>

ExpireClient(x) ==
    /\ client[x] = "active" /\ ~expired[x]
    /\ expired' = [expired EXCEPT ![x] = TRUE]
    /\ UNCHANGED <<secret, codeVars, client, token, origin, agent, requestVars, fresh, commandVars>>

-----------------------------------------------------------------------------
(* authenticate.                                                           *)

\* Broken: the SELECT has no "revoked_at IS NULL".
ClientsOf_Revoked(t) == {x \in Makers : client[x] # "none" /\ token[x] = t /\ ~expired[x]}

\* find_client_by_token_hash.
ClientsOf(t) == {x \in Makers : client[x] = "active" /\ token[x] = t /\ ~expired[x]}

\* A browser's token needs its origin, named by the request or, for the dashboard's own
\* fetches, by the loopback Host they go to; a local token needs a request without one.
OriginAllowed(x, o) == IF x \in Requests THEN o = origin[x] ELSE o = NoOrigin

Opens(t, o) == \E x \in ClientsOf(t) : OriginAllowed(x, o)

-----------------------------------------------------------------------------
(* serve.                                                                  *)

Start(s) ==
    /\ agent[s] = "new" /\ \A t \in Sessions : agent[t] # "serving"
    /\ agent' = [agent EXCEPT ![s] = "serving"]
    /\ UNCHANGED <<secret, codeVars, clientVars, requestVars, fresh, commandVars>>

\* ctrl_c closes the listener; the open requests are still answered.
ShutDown(s) ==
    /\ agent[s] = "serving"
    /\ agent' = [agent EXCEPT ![s] = "stopping"]
    /\ UNCHANGED <<secret, codeVars, clientVars, requestVars, fresh, commandVars>>

\* The process ends, at any time or after its last answer. A transaction it had open is rolled back.
Crash(s) ==
    /\ agent[s] \in {"serving", "stopping"}
    /\ agent' = [agent EXCEPT ![s] = "gone"]
    /\ LET Lost(r) == at[r] = s /\ request[r] \in {"read", "owed"}
       IN  /\ request' = [r \in Requests |-> IF Lost(r) THEN "refused" ELSE request[r]]
           /\ at' = [r \in Requests |-> IF Lost(r) THEN Nothing ELSE at[r]]
           /\ with' = [r \in Requests |-> IF Lost(r) THEN Nothing ELSE with[r]]
           /\ fresh' = [r \in Requests |-> fresh[r] /\ ~Lost(r)]
    /\ UNCHANGED <<secret, codeVars, clientVars, commandVars>>

-----------------------------------------------------------------------------
GrantStep(c) ==
    (\E s \in Sessions \cup Foreign : Challenge(c, s)) \/ Verify(c) \/ Grant(c) \/ ExpireCode(c)

PairStep(r) ==
    \/ \E s \in Sessions, c \in Codes, o \in Origins : ReadCode(r, s, c, o)
    \/ MissCode(r) \/ ConsumeCode(r) \/ RefusePairing(r) \/ IssueToken(r) \/ IssueDashboardToken(r)

ClientsStep ==
    \/ \E o \in Commands : CreateClient(o) \/ RotateClient(o)
    \/ \E o \in Commands, x \in Makers : ReadClient(o, x)
    \/ \E x \in Makers : RevokeClient(x) \/ ExpireClient(x)

Next ==
    \/ \E c \in Codes : GrantStep(c)
    \/ \E r \in Requests : PairStep(r)
    \/ ClientsStep
    \/ \E s \in Sessions : Start(s) \/ ShutDown(s) \/ Crash(s)

Spec == Init /\ [][Next]_vars
-----------------------------------------------------------------------------
(* The shape of the tables, the requests and the commands; a client got by *)
(* pairing has an origin.                                                  *)
TypeOK ==
    /\ secret \in Sessions \cup Codes \cup {Nothing}
    /\ code \in [Codes -> {"none", "open", "expired", "consumed"}]
    /\ client \in [Makers -> {"none", "active", "revoked"}]
    /\ token \in [Makers -> Makers \cup {Nothing}]
    /\ origin \in [Makers -> Origins \cup {NoOrigin}]
    /\ \A r \in Requests : client[r] # "none" => origin[r] \in Origins
    /\ expired \in [Makers -> BOOLEAN]
    /\ agent \in [Sessions -> {"new", "serving", "stopping", "gone"}]
    /\ request \in [Requests -> {"idle", "read", "owed", "token", "refused"}]
    /\ at \in [Requests -> Sessions \cup {Nothing}]
    /\ with \in [Requests -> Codes \cup {Nothing}]
    /\ fresh \in [Requests -> BOOLEAN]
    /\ grant \in [Codes -> {"idle", "asked", "verified", "failed", "made"}]
    /\ peer \in [Codes -> Sessions \cup Foreign \cup {Nothing}]
    /\ proof \in [Codes -> Sessions \cup Foreign \cup Codes \cup {Nothing}]
    /\ command \in [Commands -> {"idle", "read", "done", "failed"}]
    /\ target \in [Commands -> Makers \cup {Nothing}]

\* A pairing code is spent at most once, although its row is read and marked in two
\* statements, the mark does not look at its row count, several agents redeem codes
\* beside each other and spent rows are deleted.
CodeSpentOnce == \A q, r \in Requests :
    /\ q # r /\ with[q] = with[r]
    /\ request[q] \in {"owed", "token"}
    => request[r] \notin {"owed", "token"}

\* Of all the dashboard tokens ever handed out, at most one opens the API: a new grant,
\* a rotation and a revocation each leave the earlier ones useless, in any order.
OneDashboardToken == \A t, u \in Makers :
    \A x \in ClientsOf(t), y \in ClientsOf(u) : Stable(x) /\ Stable(y) => t = u

\* A pairing opens a client, and with it a job history, of its own; only a dashboard
\* grant may take over a client, and only the one the dashboard had.
HistoriesApart == \A r \in Requests, x \in Makers :
    token[x] = r => x = r \/ (with[r] \in DashCodes /\ Stable(x))

\* A token got by pairing is accepted from the origin its own grant names and from no
\* other, also when the dashboard's client had another origin before.
TokenKeepsOrigin == \A r \in Requests, o \in Origins \cup {NoOrigin} :
    Opens(r, o) => o = Home[with[r]]

\* A dashboard code yields a token only at the run of the agent that proved itself to the
\* command, not at its successor after a restart nor at a listener that took the port.
GrantStaysHome == \A r \in Requests :
    request[r] \in {"owed", "token"} /\ with[r] \in DashCodes =>
        at[r] = peer[with[r]]

\* The agent of the installation always passes the command's check, even if both draw the
\* secret in their first run, and one of another installation never does.
OwnAgentProves == \A c \in Codes :
    /\ grant[c] = "asked" /\ peer[c] \notin Foreign => proof[c] = secret
    /\ grant[c] = "verified" => peer[c] \notin Foreign

\* A revocation is final: no rotation that began before it, and no later grant, gives
\* the client another token or makes it active.
RevocationIsFinal == [][\A x \in Makers : client[x] = "revoked" =>
    client'[x] = "revoked" /\ token'[x] = token[x] /\ expired'[x] = expired[x]]_vars

\* What the contract speaks of: the stage of each code, the tokens not handed out, and
\* what the active rows of the clients table are worth.
Stage == [c \in Codes |->
    IF grant[c] # "made" THEN "new"
    ELSE IF code[c] \in {"open", "expired"} THEN "open"
    ELSE IF \E r \in Requests : with[r] = c /\ request[r] = "owed" THEN "owed"
    ELSE "over"]

Unused == {t \in Makers :
    IF t \in Requests THEN request[t] # "token" ELSE command[t] # "done"}

Row(x) == [token |-> token[x], origin |-> origin[x], dashboard |-> Stable(x),
           lapsed |-> expired[x]]

Grants == {Row(x) : x \in {y \in Makers : client[y] = "active"}}

Contract == INSTANCE PairingContract
            WITH Tokens <- Makers, stage <- Stage, unused <- Unused, grants <- Grants

\* The API serves whom the contract says, and nobody else: the lookup by token and the rules
\* for the Origin of a request together are the holding of a grant.
ServesHolders ==
    LET served == Contract!Served
    IN  \A t \in Makers, o \in Origins \cup {NoOrigin} : Opens(t, o) <=> <<t, o>> \in served

\* Transactions, rotations and restarts that meet between their statements do together
\* what single steps would: no code is paid twice, no token that was replaced or revoked
\* comes back, none changes its origin.
MeetsContract == Contract!Spec

\* "A successful request consumes it and returns the only copy of a browser token"
\* (docs/security/security-model.md): a consumed code belongs to a request that has its
\* token or is about to get it.
SpentCodeHasToken == \A c \in Codes : code[c] = "consumed" =>
    \E r \in Requests : with[r] = c /\ request[r] \in {"owed", "token"}
=============================================================================
