---------------------------- MODULE PairingProofs ----------------------------
(***************************************************************************)
(* Proofs about pairing, for any agents, listeners, codes, origins,        *)
(* requests and commands.                                                  *)
(*                                                                         *)
(* A code is spent once because only a fresh snapshot may write, and a     *)
(* fresh snapshot still shows the code unspent (Redemptions). A token      *)
(* keeps its client, its origin and its uniqueness because a row has a     *)
(* maker that finished, and a token is stored with the origin of its own   *)
(* grant (Tables). The proof of an agent stays good until it is checked    *)
(* because the secret, once drawn, never changes (Proven).                 *)
(***************************************************************************)
EXTENDS Pairing, TLAPS

\* What a request relies on: its code was granted and, for the dashboard, granted to its
\* agent; the code is unspent as long as the snapshot is fresh, and spent afterwards.
RedemptionOK(r) ==
    /\ request[r] \in {"read", "owed", "token"} =>
           /\ with[r] \in Codes /\ grant[with[r]] = "made"
           /\ with[r] \in DashCodes => at[r] = peer[with[r]]
    /\ fresh[r] => request[r] = "read" /\ code[with[r]] \in {"open", "expired"}
    /\ request[r] \in {"owed", "token"} => code[with[r]] \in {"none", "consumed"}

Redemptions ==
    /\ \A c \in Codes : code[c] # "none" => grant[c] = "made"
    /\ \A r \in Requests : RedemptionOK(r)

\* A token and a client come from a maker that is done with it.
Used(t) == client[t] # "none" \/ \E x \in Makers : token[x] = t

Tables ==
    /\ \A r \in Requests : Used(r) => request[r] = "token"
    /\ \A o \in Commands : Used(o) => command[o] = "done"
    /\ \A x \in Makers : client[x] = "none" => token[x] = Nothing

OneDashboard == \A x, y \in StableClients : x = y

TokenOrigin == \A r \in Requests, x \in Makers : token[x] = r => origin[x] = Home[with[r]]

\* A pending answer of an agent of this installation was made with the secret of today.
Proven ==
    /\ OwnAgentProves
    /\ \A c \in Codes : grant[c] = "asked" =>
           IF peer[c] \in Foreign THEN proof[c] \in Foreign ELSE secret # Nothing

Spending == Redemptions /\ CodeSpentOnce
Clients == Tables /\ OneDashboard /\ HistoriesApart /\ TokenOrigin

IInv == TypeOK /\ Spending /\ Clients /\ Proven

USE CodeAssumption, NameAssumption
USE DEF codeVars, clientVars, requestVars, commandVars, Makers

LEMMA InitInv == Init => IInv
  BY DEF Init, IInv, TypeOK, Spending, Redemptions, RedemptionOK, CodeSpentOnce, Clients, Tables,
     Used, OneDashboard, StableClients, Stable, HistoriesApart, TokenOrigin, Proven,
     OwnAgentProves

\* What the tables say of clients rests on the requests that got their tokens.
LEMMA HoldersSteady ==
  ASSUME IInv, UNCHANGED <<clientVars, commandVars>>,
         \A q \in Requests : request[q] = "token" => request'[q] = "token" /\ with'[q] = with[q]
  PROVE  Clients'
  <1>1. Tables /\ Tables'
    BY DEF IInv, Clients, Tables, Used
  <1>2. \A x \in Makers : Used(x) => Stable(x)' = Stable(x)
    BY <1>1 DEF Tables, Stable
  <1>3. StableClients' = StableClients
    BY <1>2 DEF StableClients, Used
  <1>4. OneDashboard'
    BY <1>3 DEF IInv, Clients, OneDashboard
  <1>5. \A r \in Requests, x \in Makers : token[x] = r => with'[r] = with[r] /\ client[x] # "none"
    BY <1>1 DEF Tables, Used
  <1>6. HistoriesApart' /\ TokenOrigin'
    BY <1>2, <1>5 DEF IInv, Clients, HistoriesApart, TokenOrigin, Used
  <1> QED BY <1>1, <1>4, <1>6 DEF Clients

-----------------------------------------------------------------------------
(* The commands `dashboard` and `pair`, and the clock.                     *)

LEMMA ChallengeKeeps ==
  ASSUME IInv, NEW c \in Codes, NEW s \in Sessions \cup Foreign, Challenge(c, s)
  PROVE  IInv'
  <1>1. TypeOK'
    <2>1. secret' \in Sessions \cup Codes \cup {Nothing}
      BY DEF IInv, TypeOK, Challenge, UseSecret, InstanceSecret, Commit
    <2>2. fresh' \in [Requests -> BOOLEAN]
      <3>1. fresh' = fresh \/ fresh' = [r \in Requests |-> FALSE]
        BY DEF Challenge, UseSecret, InstanceSecret, Commit
      <3> QED BY <3>1 DEF IInv, TypeOK
    <2>3. grant' \in [Codes -> {"idle", "asked", "verified", "failed", "made"}]
      BY DEF IInv, TypeOK, Challenge, UseSecret, InstanceSecret, Commit
    <2>4. peer' \in [Codes -> Sessions \cup Foreign \cup {Nothing}]
      BY DEF IInv, TypeOK, Challenge, UseSecret, InstanceSecret, Commit
    <2>5. proof' \in [Codes -> Sessions \cup Foreign \cup Codes \cup {Nothing}]
      BY DEF IInv, TypeOK, Challenge, UseSecret, InstanceSecret, Commit
    <2> QED BY <2>1, <2>2, <2>3, <2>4, <2>5 DEF IInv, TypeOK, Challenge, UseSecret,
       InstanceSecret, Commit
  <1>2. Spending'
    BY DEF IInv, TypeOK, Challenge, UseSecret, InstanceSecret, Commit, Spending, Redemptions,
       RedemptionOK, CodeSpentOnce
  <1>3. Clients'
    BY DEF IInv, TypeOK, Challenge, UseSecret, InstanceSecret, Commit, Clients, Tables, Used,
       OneDashboard, StableClients, Stable, HistoriesApart, TokenOrigin
  <1>4. Proven'
    BY DEF IInv, TypeOK, Challenge, UseSecret, InstanceSecret, Commit, Proven, OwnAgentProves
  <1> QED BY <1>1, <1>2, <1>3, <1>4 DEF IInv

LEMMA VerifyKeeps ==
  ASSUME IInv, NEW c \in Codes, Verify(c)
  PROVE  IInv'
  <1>1. TypeOK'
    <2>1. secret' \in Sessions \cup Codes \cup {Nothing}
      BY DEF IInv, TypeOK, Verify, UseSecret, InstanceSecret, Commit
    <2>2. fresh' \in [Requests -> BOOLEAN]
      <3>1. fresh' = fresh \/ fresh' = [r \in Requests |-> FALSE]
        BY DEF Verify, UseSecret, InstanceSecret, Commit
      <3> QED BY <3>1 DEF IInv, TypeOK
    <2>3. grant' \in [Codes -> {"idle", "asked", "verified", "failed", "made"}]
      BY DEF IInv, TypeOK, Verify, UseSecret, InstanceSecret, Commit
    <2>4. peer' \in [Codes -> Sessions \cup Foreign \cup {Nothing}]
      BY DEF IInv, TypeOK, Verify, UseSecret, InstanceSecret, Commit
    <2>5. proof' \in [Codes -> Sessions \cup Foreign \cup Codes \cup {Nothing}]
      BY DEF IInv, TypeOK, Verify, UseSecret, InstanceSecret, Commit
    <2> QED BY <2>1, <2>2, <2>3, <2>4, <2>5 DEF IInv, TypeOK, Verify, UseSecret, InstanceSecret,
       Commit
  <1>2. Spending'
    BY DEF IInv, TypeOK, Verify, UseSecret, InstanceSecret, Commit, Spending, Redemptions,
       RedemptionOK, CodeSpentOnce
  <1>3. Clients'
    BY DEF IInv, TypeOK, Verify, UseSecret, InstanceSecret, Commit, Clients, Tables, Used,
       OneDashboard, StableClients, Stable, HistoriesApart, TokenOrigin
  <1>4. Proven'
    BY DEF IInv, TypeOK, Verify, UseSecret, InstanceSecret, Commit, Proven, OwnAgentProves
  <1> QED BY <1>1, <1>2, <1>3, <1>4 DEF IInv

LEMMA GrantKeeps ==
  ASSUME IInv, NEW c \in Codes, Grant(c)
  PROVE  IInv'
  <1>1. TypeOK'
    BY DEF IInv, TypeOK, Grant, Commit
  <1>2. Spending'
    BY DEF IInv, TypeOK, Grant, Commit, Spending, Redemptions, RedemptionOK, CodeSpentOnce
  <1>3. Clients'
    BY DEF IInv, TypeOK, Grant, Commit, Clients, Tables, Used, OneDashboard, StableClients,
       Stable, HistoriesApart, TokenOrigin
  <1>4. Proven'
    BY DEF IInv, TypeOK, Grant, Commit, Proven, OwnAgentProves
  <1> QED BY <1>1, <1>2, <1>3, <1>4 DEF IInv

LEMMA ExpireCodeKeeps ==
  ASSUME IInv, NEW c \in Codes, ExpireCode(c)
  PROVE  IInv'
  <1>1. TypeOK'
    BY DEF IInv, TypeOK, ExpireCode
  <1>2. Spending'
    BY DEF IInv, TypeOK, ExpireCode, Spending, Redemptions, RedemptionOK, CodeSpentOnce
  <1>3. Clients'
    BY DEF IInv, TypeOK, ExpireCode, Clients, Tables, Used, OneDashboard, StableClients, Stable,
       HistoriesApart, TokenOrigin
  <1>4. Proven'
    BY DEF IInv, TypeOK, ExpireCode, Proven, OwnAgentProves
  <1> QED BY <1>1, <1>2, <1>3, <1>4 DEF IInv

-----------------------------------------------------------------------------
(* POST /v1/pair.                                                          *)

LEMMA ReadCodeKeeps ==
  ASSUME IInv, NEW r \in Requests, NEW s \in Sessions, NEW c \in Codes, NEW o \in Origins,
         ReadCode(r, s, c, o)
  PROVE  IInv'
  <1>1. TypeOK'
    BY DEF IInv, TypeOK, ReadCode
  <1>2. Spending'
    BY DEF IInv, TypeOK, ReadCode, Redeemable, Spending, Redemptions, RedemptionOK, CodeSpentOnce
  <1>3. Clients'
    <2>1. UNCHANGED <<clientVars, commandVars>>
      BY DEF ReadCode
    <2>2. \A q \in Requests : request[q] = "token" => request'[q] = "token" /\ with'[q] = with[q]
      BY DEF IInv, TypeOK, ReadCode
    <2> QED BY <2>1, <2>2, HoldersSteady
  <1>4. Proven'
    BY DEF IInv, TypeOK, ReadCode, Proven, OwnAgentProves
  <1> QED BY <1>1, <1>2, <1>3, <1>4 DEF IInv

LEMMA MissCodeKeeps ==
  ASSUME IInv, NEW r \in Requests, MissCode(r)
  PROVE  IInv'
  <1>1. TypeOK'
    BY DEF IInv, TypeOK, MissCode
  <1>2. Spending'
    BY DEF IInv, TypeOK, MissCode, Spending, Redemptions, RedemptionOK, CodeSpentOnce
  <1>3. Clients'
    <2>1. UNCHANGED <<clientVars, commandVars>>
      BY DEF MissCode
    <2>2. \A q \in Requests : request[q] = "token" => request'[q] = "token" /\ with'[q] = with[q]
      BY DEF IInv, TypeOK, MissCode
    <2> QED BY <2>1, <2>2, HoldersSteady
  <1>4. Proven'
    BY DEF IInv, TypeOK, MissCode, Proven, OwnAgentProves
  <1> QED BY <1>1, <1>2, <1>3, <1>4 DEF IInv

LEMMA ConsumeCodeKeeps ==
  ASSUME IInv, NEW r \in Requests, ConsumeCode(r)
  PROVE  IInv'
  <1>1. TypeOK'
    BY DEF IInv, TypeOK, ConsumeCode, MarkSpent, MayUpgrade, Commit
  <1>2. Spending'
    BY DEF IInv, TypeOK, ConsumeCode, MarkSpent, MayUpgrade, Commit, Spending, Redemptions,
       RedemptionOK, CodeSpentOnce
  <1>3. Clients'
    BY DEF IInv, TypeOK, ConsumeCode, MarkSpent, MayUpgrade, Commit, Clients, Tables, Used,
       OneDashboard, StableClients, Stable, HistoriesApart, TokenOrigin
  <1>4. Proven'
    BY DEF IInv, TypeOK, ConsumeCode, MarkSpent, MayUpgrade, Commit, Proven, OwnAgentProves
  <1> QED BY <1>1, <1>2, <1>3, <1>4 DEF IInv

LEMMA RefusePairingKeeps ==
  ASSUME IInv, NEW r \in Requests, RefusePairing(r)
  PROVE  IInv'
  <1>1. TypeOK'
    BY DEF IInv, TypeOK, RefusePairing
  <1>2. Spending'
    BY DEF IInv, TypeOK, RefusePairing, Spending, Redemptions, RedemptionOK, CodeSpentOnce
  <1>3. Clients'
    BY DEF IInv, TypeOK, RefusePairing, Clients, Tables, Used, OneDashboard, StableClients,
       Stable, HistoriesApart, TokenOrigin
  <1>4. Proven'
    BY DEF IInv, TypeOK, RefusePairing, Proven, OwnAgentProves
  <1> QED BY <1>1, <1>2, <1>3, <1>4 DEF IInv

LEMMA IssueTokenKeeps ==
  ASSUME IInv, NEW r \in Requests, IssueToken(r)
  PROVE  IInv'
  <1>1. TypeOK'
    <2>1. Home[with[r]] \in Origins
      BY DEF IInv, Spending, Redemptions, RedemptionOK, IssueToken
    <2>2. request' \in [Requests -> {"idle", "read", "owed", "token", "refused"}]
      BY DEF IInv, TypeOK, IssueToken, StoreToken, Commit
    <2>3. client' \in [Makers -> {"none", "active", "revoked"}]
      BY DEF IInv, TypeOK, IssueToken, StoreToken, Commit
    <2>4. token' \in [Makers -> Makers \cup {Nothing}]
      BY DEF IInv, TypeOK, IssueToken, StoreToken, Commit
    <2>5. origin' \in [Makers -> Origins \cup {NoOrigin}]
      BY <2>1 DEF IInv, TypeOK, IssueToken, StoreToken, Commit
    <2>6. \A q \in Requests : client'[q] # "none" => origin'[q] \in Origins
      BY <2>1 DEF IInv, TypeOK, IssueToken, StoreToken, Commit
    <2>7. expired' \in [Makers -> BOOLEAN] /\ fresh' \in [Requests -> BOOLEAN]
      BY DEF IInv, TypeOK, IssueToken, StoreToken, Commit
    <2> QED BY <2>1, <2>2, <2>3, <2>4, <2>5, <2>6, <2>7 DEF IInv, TypeOK, IssueToken, StoreToken,
       Commit
  <1>2. Spending'
    BY DEF IInv, TypeOK, IssueToken, StoreToken, Commit, Spending, Redemptions, RedemptionOK,
       CodeSpentOnce
  <1>3. Clients'
    BY DEF IInv, TypeOK, IssueToken, StoreToken, Commit, Clients, Tables, Used, OneDashboard,
       StableClients, Stable, HistoriesApart, TokenOrigin
  <1>4. Proven'
    BY DEF IInv, TypeOK, IssueToken, StoreToken, Commit, Proven, OwnAgentProves
  <1> QED BY <1>1, <1>2, <1>3, <1>4 DEF IInv

LEMMA IssueDashboardTokenKeeps ==
  ASSUME IInv, NEW r \in Requests, IssueDashboardToken(r)
  PROVE  IInv'
  <1>1. TypeOK'
    <2>1. \E x \in Requests : StoreToken(x, r, Home[with[r]]) /\ Home[with[r]] \in Origins
      BY DEF IInv, Spending, Redemptions, RedemptionOK, IssueDashboardToken, StableClients,
         NewOrigin
    <2>2. request' \in [Requests -> {"idle", "read", "owed", "token", "refused"}]
      BY DEF IInv, TypeOK, IssueDashboardToken, StoreToken, NewOrigin, Commit
    <2>3. client' \in [Makers -> {"none", "active", "revoked"}]
      BY DEF IInv, TypeOK, IssueDashboardToken, StoreToken, NewOrigin, Commit
    <2>4. token' \in [Makers -> Makers \cup {Nothing}]
      BY <2>1 DEF IInv, TypeOK, StoreToken
    <2>5. origin' \in [Makers -> Origins \cup {NoOrigin}]
      BY <2>1 DEF IInv, TypeOK, IssueDashboardToken, StoreToken, NewOrigin, Commit
    <2>6. \A q \in Requests : client'[q] # "none" => origin'[q] \in Origins
      BY <2>1 DEF IInv, TypeOK, IssueDashboardToken, StoreToken, NewOrigin, Commit
    <2>7. expired' \in [Makers -> BOOLEAN] /\ fresh' \in [Requests -> BOOLEAN]
      <3>1. PICK x \in Requests : StoreToken(x, r, Home[with[r]])
        BY <2>1
      <3> QED BY <3>1 DEF IInv, TypeOK, StoreToken, Commit
    <2> QED BY <2>1, <2>2, <2>3, <2>4, <2>5, <2>6, <2>7 DEF IInv, TypeOK, IssueDashboardToken,
       StoreToken, NewOrigin, Commit
  <1>2. Spending'
    BY DEF IInv, TypeOK, IssueDashboardToken, StoreToken, NewOrigin, Commit, Spending,
       Redemptions, RedemptionOK, CodeSpentOnce
  <1>3. Clients'
    BY DEF IInv, TypeOK, IssueDashboardToken, StoreToken, NewOrigin, Commit, Clients, Tables,
       Used, OneDashboard, StableClients, Stable, HistoriesApart, TokenOrigin
  <1>4. Proven'
    BY DEF IInv, TypeOK, IssueDashboardToken, StoreToken, NewOrigin, Commit, Proven,
       OwnAgentProves
  <1> QED BY <1>1, <1>2, <1>3, <1>4 DEF IInv

-----------------------------------------------------------------------------
(* `printlatch clients`, and the clock.                                    *)

LEMMA CreateClientKeeps ==
  ASSUME IInv, NEW o \in Commands, CreateClient(o)
  PROVE  IInv'
  <1>1. TypeOK'
    BY DEF IInv, TypeOK, CreateClient, StoreToken, Commit
  <1>2. Spending'
    BY DEF IInv, TypeOK, CreateClient, StoreToken, Commit, Spending, Redemptions, RedemptionOK,
       CodeSpentOnce
  <1>3. Clients'
    BY DEF IInv, TypeOK, CreateClient, StoreToken, Commit, Clients, Tables, Used, OneDashboard,
       StableClients, Stable, HistoriesApart, TokenOrigin
  <1>4. Proven'
    BY DEF IInv, TypeOK, CreateClient, StoreToken, Commit, Proven, OwnAgentProves
  <1> QED BY <1>1, <1>2, <1>3, <1>4 DEF IInv

LEMMA ReadClientKeeps ==
  ASSUME IInv, NEW o \in Commands, NEW x \in Makers, ReadClient(o, x)
  PROVE  IInv'
  <1>1. TypeOK'
    BY DEF IInv, TypeOK, ReadClient
  <1>2. Spending'
    BY DEF IInv, TypeOK, ReadClient, Spending, Redemptions, RedemptionOK, CodeSpentOnce
  <1>3. Clients'
    BY DEF IInv, TypeOK, ReadClient, Clients, Tables, Used, OneDashboard, StableClients, Stable,
       HistoriesApart, TokenOrigin
  <1>4. Proven'
    BY DEF IInv, TypeOK, ReadClient, Proven, OwnAgentProves
  <1> QED BY <1>1, <1>2, <1>3, <1>4 DEF IInv

LEMMA RotateClientKeeps ==
  ASSUME IInv, NEW o \in Commands, RotateClient(o)
  PROVE  IInv'
  <1>1. TypeOK'
    <2>1. command' \in [Commands -> {"idle", "read", "done", "failed"}]
      BY DEF IInv, TypeOK, RotateClient, MayRotate, Commit
    <2>2. target' \in [Commands -> Makers \cup {Nothing}]
      BY DEF IInv, TypeOK, RotateClient, MayRotate, Commit
    <2>3. token' \in [Makers -> Makers \cup {Nothing}]
      BY DEF IInv, TypeOK, RotateClient, MayRotate, Commit
    <2>4. expired' \in [Makers -> BOOLEAN] /\ fresh' \in [Requests -> BOOLEAN]
      <3>1. /\ expired' = expired \/ expired' = [expired EXCEPT ![target[o]] = FALSE]
            /\ fresh' = fresh \/ fresh' = [r \in Requests |-> FALSE]
        BY DEF RotateClient, MayRotate, Commit
      <3> QED BY <3>1 DEF IInv, TypeOK
    <2> QED BY <2>1, <2>2, <2>3, <2>4 DEF IInv, TypeOK, RotateClient, MayRotate, Commit
  <1>2. Spending'
    BY DEF IInv, TypeOK, RotateClient, MayRotate, Commit, Spending, Redemptions, RedemptionOK,
       CodeSpentOnce
  <1>3. Clients'
    BY DEF IInv, TypeOK, RotateClient, MayRotate, Commit, Clients, Tables, Used, OneDashboard,
       StableClients, Stable, HistoriesApart, TokenOrigin
  <1>4. Proven'
    BY DEF IInv, TypeOK, RotateClient, MayRotate, Commit, Proven, OwnAgentProves
  <1> QED BY <1>1, <1>2, <1>3, <1>4 DEF IInv

LEMMA RevokeClientKeeps ==
  ASSUME IInv, NEW x \in Makers, RevokeClient(x)
  PROVE  IInv'
  <1>1. TypeOK'
    BY DEF IInv, TypeOK, RevokeClient, Commit
  <1>2. Spending'
    BY DEF IInv, TypeOK, RevokeClient, Commit, Spending, Redemptions, RedemptionOK, CodeSpentOnce
  <1>3. Clients'
    BY DEF IInv, TypeOK, RevokeClient, Commit, Clients, Tables, Used, OneDashboard,
       StableClients, Stable, HistoriesApart, TokenOrigin
  <1>4. Proven'
    BY DEF IInv, TypeOK, RevokeClient, Commit, Proven, OwnAgentProves
  <1> QED BY <1>1, <1>2, <1>3, <1>4 DEF IInv

LEMMA ExpireClientKeeps ==
  ASSUME IInv, NEW x \in Makers, ExpireClient(x)
  PROVE  IInv'
  <1>1. TypeOK'
    BY DEF IInv, TypeOK, ExpireClient
  <1>2. Spending'
    BY DEF IInv, TypeOK, ExpireClient, Spending, Redemptions, RedemptionOK, CodeSpentOnce
  <1>3. Clients'
    BY DEF IInv, TypeOK, ExpireClient, Clients, Tables, Used, OneDashboard, StableClients,
       Stable, HistoriesApart, TokenOrigin
  <1>4. Proven'
    BY DEF IInv, TypeOK, ExpireClient, Proven, OwnAgentProves
  <1> QED BY <1>1, <1>2, <1>3, <1>4 DEF IInv

-----------------------------------------------------------------------------
(* serve.                                                                  *)

LEMMA StartKeeps ==
  ASSUME IInv, NEW s \in Sessions, Start(s)
  PROVE  IInv'
  <1>1. TypeOK'
    BY DEF IInv, TypeOK, Start
  <1>2. Spending'
    BY DEF IInv, TypeOK, Start, Spending, Redemptions, RedemptionOK, CodeSpentOnce
  <1>3. Clients'
    BY DEF IInv, TypeOK, Start, Clients, Tables, Used, OneDashboard, StableClients, Stable,
       HistoriesApart, TokenOrigin
  <1>4. Proven'
    BY DEF IInv, TypeOK, Start, Proven, OwnAgentProves
  <1> QED BY <1>1, <1>2, <1>3, <1>4 DEF IInv

LEMMA ShutDownKeeps ==
  ASSUME IInv, NEW s \in Sessions, ShutDown(s)
  PROVE  IInv'
  <1>1. TypeOK'
    BY DEF IInv, TypeOK, ShutDown
  <1>2. Spending'
    BY DEF IInv, TypeOK, ShutDown, Spending, Redemptions, RedemptionOK, CodeSpentOnce
  <1>3. Clients'
    BY DEF IInv, TypeOK, ShutDown, Clients, Tables, Used, OneDashboard, StableClients, Stable,
       HistoriesApart, TokenOrigin
  <1>4. Proven'
    BY DEF IInv, TypeOK, ShutDown, Proven, OwnAgentProves
  <1> QED BY <1>1, <1>2, <1>3, <1>4 DEF IInv

LEMMA CrashKeeps ==
  ASSUME IInv, NEW s \in Sessions, Crash(s)
  PROVE  IInv'
  <1>1. TypeOK'
    BY DEF IInv, TypeOK, Crash
  <1>2. Spending'
    BY DEF IInv, TypeOK, Crash, Spending, Redemptions, RedemptionOK, CodeSpentOnce
  <1>3. Clients'
    <2>1. UNCHANGED <<clientVars, commandVars>>
      BY DEF Crash
    <2>2. \A q \in Requests : request[q] = "token" => request'[q] = "token" /\ with'[q] = with[q]
      BY DEF Crash
    <2> QED BY <2>1, <2>2, HoldersSteady
  <1>4. Proven'
    BY DEF IInv, TypeOK, Crash, Proven, OwnAgentProves
  <1> QED BY <1>1, <1>2, <1>3, <1>4 DEF IInv

-----------------------------------------------------------------------------
(* The theorems.                                                           *)

LEMMA StepKeeps == IInv /\ [Next]_vars => IInv'
  <1> SUFFICES ASSUME IInv, [Next]_vars PROVE IInv'
    OBVIOUS
  <1>1. CASE UNCHANGED vars
    BY <1>1 DEF vars, IInv, TypeOK, Spending, Redemptions, RedemptionOK, CodeSpentOnce,
       Clients, Tables, Used, OneDashboard, StableClients, Stable, HistoriesApart, TokenOrigin,
       Proven, OwnAgentProves
  <1>2. ASSUME NEW c \in Codes, GrantStep(c) PROVE IInv'
    BY <1>2, ChallengeKeeps, VerifyKeeps, GrantKeeps, ExpireCodeKeeps DEF GrantStep
  <1>3. ASSUME NEW r \in Requests, PairStep(r) PROVE IInv'
    BY <1>3, ReadCodeKeeps, MissCodeKeeps, ConsumeCodeKeeps, RefusePairingKeeps,
       IssueTokenKeeps, IssueDashboardTokenKeeps DEF PairStep
  <1>4. CASE ClientsStep
    BY <1>4, CreateClientKeeps, ReadClientKeeps, RotateClientKeeps, RevokeClientKeeps,
       ExpireClientKeeps DEF ClientsStep
  <1>5. ASSUME NEW s \in Sessions, Start(s) \/ ShutDown(s) \/ Crash(s) PROVE IInv'
    BY <1>5, StartKeeps, ShutDownKeeps, CrashKeeps
  <1> QED BY <1>1, <1>2, <1>3, <1>4, <1>5 DEF Next

\* The inductive invariant: every property below is read off it.
THEOREM Invariance == Spec => []IInv
  BY InitInv, StepKeeps, PTL DEF Spec

\* The tables and the progress of requests and commands keep their shape; every client
\* got by pairing has an origin.
THEOREM TypeCorrectness == Spec => []TypeOK
  <1>1. IInv => TypeOK
    BY DEF IInv
  <1> QED BY <1>1, Invariance, PTL

\* No code is spent twice, however many agents redeem it in whatever interleaving.
THEOREM SpentOnce == Spec => []CodeSpentOnce
  <1>1. IInv => CodeSpentOnce
    BY DEF IInv, Spending
  <1> QED BY <1>1, Invariance, PTL

\* A dashboard token is made only by the agent that proved itself to the command.
THEOREM GrantsStayHome == Spec => []GrantStaysHome
  <1>1. IInv => GrantStaysHome
    BY DEF IInv, Spending, Redemptions, RedemptionOK, GrantStaysHome
  <1> QED BY <1>1, Invariance, PTL

\* At most one dashboard token opens the API.
THEOREM DashboardTokenUnique == Spec => []OneDashboardToken
  <1>1. IInv => OneDashboardToken
    BY DEF IInv, Clients, OneDashboard, StableClients, OneDashboardToken, ClientsOf, Stable
  <1> QED BY <1>1, Invariance, PTL

\* No pairing reaches the job history of another client.
THEOREM HistoriesKeptApart == Spec => []HistoriesApart
  <1>1. IInv => HistoriesApart
    BY DEF IInv, Clients
  <1> QED BY <1>1, Invariance, PTL

\* A token is accepted from the origin of its own grant only.
THEOREM OriginKept == Spec => []TokenKeepsOrigin
  <1>1. IInv => TokenKeepsOrigin
    BY DEF IInv, TypeOK, Clients, HistoriesApart, TokenOrigin, TokenKeepsOrigin, Opens, ClientsOf,
       OriginAllowed, Stable
  <1> QED BY <1>1, Invariance, PTL

\* The agent of the installation passes the check of `dashboard`, and no other does.
THEOREM OwnAgentRecognised == Spec => []OwnAgentProves
  <1>1. IInv => OwnAgentProves
    BY DEF IInv, Proven
  <1> QED BY <1>1, Invariance, PTL

\* No rotation and no grant brings a revoked client back.
THEOREM RevocationStays == Spec => RevocationIsFinal
  <1> DEFINE Final == \A x \in Makers : client[x] = "revoked" =>
        client'[x] = "revoked" /\ token'[x] = token[x] /\ expired'[x] = expired[x]
  <1>1. IInv /\ [Next]_vars => [Final]_vars
    <2> SUFFICES ASSUME IInv, Next PROVE Final
      OBVIOUS
    <2>1. CASE UNCHANGED clientVars
      BY <2>1
    <2>2. ASSUME NEW r \in Requests, PairStep(r) PROVE Final
      BY <2>2, <2>1 DEF IInv, TypeOK, Clients, Tables, Used, PairStep, ReadCode, MissCode,
         ConsumeCode, MarkSpent, RefusePairing, IssueToken, IssueDashboardToken, StoreToken, StableClients
    <2>3. CASE ClientsStep
      BY <2>3, <2>1 DEF IInv, TypeOK, Clients, Tables, Used, ClientsStep, CreateClient,
         StoreToken, ReadClient, RotateClient, MayRotate, RevokeClient, ExpireClient
    <2>4. ASSUME NEW c \in Codes, GrantStep(c) PROVE Final
      BY <2>4, <2>1 DEF GrantStep, Challenge, Verify, Grant, ExpireCode
    <2>5. ASSUME NEW s \in Sessions, Start(s) \/ ShutDown(s) \/ Crash(s) PROVE Final
      BY <2>5, <2>1 DEF Start, ShutDown, Crash
    <2> QED BY <2>2, <2>3, <2>4, <2>5 DEF Next
  <1> QED BY <1>1, Invariance, PTL DEF Spec, RevocationIsFinal
=============================================================================
