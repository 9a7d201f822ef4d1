------------------------ MODULE PairingContractProofs ------------------------
(***************************************************************************)
(* Proof that pairing meets its contract, for any agents, codes, origins,  *)
(* requests and commands. A code is paid once because it is spent once;    *)
(* a grant is told from the others by its token, which no two rows share,  *)
(* so that a rotation replaces the one it means.                           *)
(***************************************************************************)
EXTENDS PairingProofs

\* A row is known by its token, a local client has no origin, and a rotation has a target.
Rows ==
    /\ \A x, y \in Makers : token[x] = token[y] /\ token[x] # Nothing => x = y
    /\ \A x \in Makers : client[x] = "active" => token[x] # Nothing
    /\ \A o \in Commands : origin[o] = NoOrigin
    /\ \A o \in Commands : command[o] = "read" => target[o] \in Makers

Inv == IInv /\ Rows

USE CodeAssumption, NameAssumption
USE DEF codeVars, clientVars, requestVars, commandVars, Makers

-----------------------------------------------------------------------------
(* Rows.                                                                   *)

\* A token is stored once: a maker that is not done has none in the table.
LEMMA StoredKept ==
  ASSUME Inv, NEW x \in Makers, NEW t \in Makers, ~Used(t), NEW o, StoreToken(x, t, o),
         x \in Commands => o = NoOrigin, UNCHANGED target,
         \A k \in Commands : command'[k] = "read" => command[k] = "read"
  PROVE  Rows'
  BY DEF Inv, IInv, TypeOK, Rows, Used, StoreToken

LEMMA RowsKept ==
  ASSUME Inv, [Next]_vars
  PROVE  Rows'
<1>1. CASE UNCHANGED <<client, token, origin, command, target>>
  BY <1>1 DEF Inv, Rows
<1>2. ASSUME NEW r \in Requests, IssueToken(r) \/ IssueDashboardToken(r)
      PROVE  Rows'
  <2>1. ~Used(r)
    BY <1>2 DEF Inv, IInv, Clients, Tables, IssueToken, IssueDashboardToken
  <2>2. PICK x \in Requests : StoreToken(x, r, Home[with[r]])
    BY <1>2 DEF IssueToken, IssueDashboardToken, NewOrigin, StableClients
  <2> QED  BY <1>2, <2>1, <2>2, StoredKept DEF IssueToken, IssueDashboardToken
<1>3. ASSUME NEW r \in Requests, PairStep(r)
      PROVE  Rows'
  BY <1>1, <1>2, <1>3 DEF PairStep, ReadCode, MissCode, ConsumeCode, MarkSpent, RefusePairing
<1>4. ASSUME NEW o \in Commands, CreateClient(o)
      PROVE  Rows'
  <2>1. ~Used(o)
    BY <1>4 DEF Inv, IInv, Clients, Tables, CreateClient
  <2>2. \A k \in Commands : command'[k] = "read" => command[k] = "read"
    BY <1>4 DEF CreateClient, Inv, IInv, TypeOK
  <2> QED  BY <1>4, <2>1, <2>2, StoredKept DEF CreateClient
<1>5. ASSUME NEW o \in Commands, NEW x \in Makers, ReadClient(o, x)
      PROVE  Rows'
  BY <1>5 DEF ReadClient, Inv, IInv, TypeOK, Rows
<1>6. ASSUME NEW o \in Commands, RotateClient(o)
      PROVE  Rows'
  <2>1. ~Used(o) /\ target[o] \in Makers
    BY <1>6 DEF Inv, IInv, Clients, Tables, Rows, RotateClient
  <2>2. UNCHANGED <<client, origin>> /\ token' \in {token, [token EXCEPT ![target[o]] = o]}
    BY <1>6 DEF RotateClient
  <2>3. \A k \in Commands : command'[k] = "read" => command[k] = "read" /\ target'[k] = target[k]
    BY <1>6 DEF RotateClient, Inv, IInv, TypeOK
  <2> QED  BY <2>1, <2>2, <2>3 DEF Inv, IInv, TypeOK, Rows, Used
<1>7. ASSUME NEW x \in Makers, RevokeClient(x) \/ ExpireClient(x)
      PROVE  Rows'
  BY <1>7 DEF RevokeClient, ExpireClient, Inv, IInv, TypeOK, Rows
<1>8. CASE ClientsStep
  BY <1>4, <1>5, <1>6, <1>7, <1>8 DEF ClientsStep
<1>9. ASSUME NEW c \in Codes, GrantStep(c)
      PROVE  Rows'
  BY <1>1, <1>9 DEF GrantStep, Challenge, Verify, Grant, ExpireCode
<1>10. ASSUME NEW s \in Sessions, Start(s) \/ ShutDown(s) \/ Crash(s)
       PROVE  Rows'
  BY <1>1, <1>10 DEF Start, ShutDown, Crash
<1> QED  BY <1>1, <1>3, <1>8, <1>9, <1>10 DEF Next, vars

-----------------------------------------------------------------------------
(* Grants.                                                                 *)

Active(x) == client[x] = "active"

\* Only a maker that is done has a row, and its code is settled.
LEMMA HolderDone ==
  ASSUME Inv, NEW x \in Makers, Active(x)
  PROVE  x \in Requests => request[x] = "token"
  BY DEF Inv, IInv, Clients, Tables, Used, Active

LEMMA GrantsSteady ==
  ASSUME Inv, UNCHANGED clientVars, UNCHANGED with \/ \A r \in Requests : request[r] = "token" => with'[r] = with[r]
  PROVE  UNCHANGED Grants
<1>1. \A x \in Makers : Active(x) => Row(x)' = Row(x)
  BY HolderDone DEF Row, Stable
<1> QED  BY <1>1 DEF Grants, Active

\* One row changes.
LEMMA RowChanges ==
  ASSUME NEW x \in Makers,
         \A y \in Makers \ {x} : /\ client'[y] = client[y]
                                 /\ Active(y) => Row(y)' = Row(y)
  PROVE  Grants' = {Row(y) : y \in {z \in Makers \ {x} : Active(z)}}
                       \cup (IF client'[x] = "active" THEN {Row(x)'} ELSE {})
  BY DEF Grants, Active

\* A row that is active is told from the others by its token.
LEMMA OtherRows ==
  ASSUME Inv, NEW x \in Makers
  PROVE  {Row(y) : y \in {z \in Makers \ {x} : Active(z)}} =
             IF Active(x) THEN Grants \ {Row(x)} ELSE Grants
<1>1. \A y \in Makers \ {x} : Active(x) /\ Active(y) => Row(y) # Row(x)
  BY DEF Inv, Rows, Row, Active
<1> QED  BY <1>1 DEF Grants, Active

\* What x is worth after a token of maker t was stored in its row.
LEMMA StoredRow ==
  ASSUME Inv, NEW x \in Makers, NEW t \in Makers, NEW o, StoreToken(x, t, o), UNCHANGED with
  PROVE  Grants' = (IF Active(x) THEN Grants \ {Row(x)} ELSE Grants)
                       \cup {Contract!Grant(t, o, Stable(x), FALSE)}
<1>1. Row(x)' = Contract!Grant(t, o, Stable(x), FALSE) /\ client'[x] = "active"
  BY DEF StoreToken, Row, Stable, Contract!Grant, Inv, IInv, TypeOK
<1>2. \A y \in Makers \ {x} : client'[y] = client[y] /\ Row(y)' = Row(y)
  BY DEF StoreToken, Row, Stable, Inv, IInv, TypeOK
<1> QED  BY <1>1, <1>2, RowChanges, OtherRows

-----------------------------------------------------------------------------
(* Codes.                                                                  *)

\* A code is owed to one request alone, and then spent.
LEMMA OwedOnce ==
  ASSUME Inv, NEW r \in Requests, request[r] = "owed"
  PROVE  /\ with[r] \in Codes /\ grant[with[r]] = "made"
         /\ code[with[r]] \in {"none", "consumed"} /\ Stage[with[r]] = "owed"
         /\ \A q \in Requests \ {r} : ~(with[q] = with[r] /\ request[q] = "owed")
  BY DEF Inv, IInv, Spending, Redemptions, RedemptionOK, CodeSpentOnce, Stage

\* The redemptions of lost end, with a token or without.
LEMMA OwedEnds ==
  ASSUME Inv, UNCHANGED <<code, grant>>, NEW lost \in SUBSET Requests,
         \A r \in Requests \ lost : UNCHANGED <<with[r], request[r]>>,
         \A r \in lost : request[r] = "owed" /\ request'[r] # "owed"
  PROVE  Stage' = [c \in Codes |-> IF c \in {with[r] : r \in lost} THEN "over" ELSE Stage[c]]
<1> SUFFICES ASSUME NEW c \in Codes
             PROVE  Stage'[c] = IF c \in {with[r] : r \in lost} THEN "over" ELSE Stage[c]
  BY DEF Stage
<1>1. CASE c \in {with[r] : r \in lost}
  <2>1. PICK r \in lost : with[r] = c
    BY <1>1
  <2>2. grant[c] = "made" /\ code[c] \in {"none", "consumed"}
    BY <2>1, OwedOnce
  <2>3. \A q \in Requests : with'[q] = c => request'[q] # "owed"
    BY <2>1, OwedOnce
  <2> QED  BY <1>1, <2>2, <2>3 DEF Stage
<1>2. CASE c \notin {with[r] : r \in lost}
  <2>1. (\E q \in Requests : with'[q] = c /\ request'[q] = "owed") <=>
            \E q \in Requests : with[q] = c /\ request[q] = "owed"
    BY <1>2
  <2> QED  BY <1>2, <2>1 DEF Stage
<1> QED  BY <1>1, <1>2

\* Nothing is owed anew.
LEMMA StageSteady ==
  ASSUME UNCHANGED <<code, grant>>,
         \A r \in Requests : \/ UNCHANGED <<with[r], request[r]>>
                             \/ request[r] # "owed" /\ request'[r] # "owed"
  PROVE  UNCHANGED Stage
<1>1. \A c \in Codes : (\E q \in Requests : with'[q] = c /\ request'[q] = "owed") <=>
            \E q \in Requests : with[q] = c /\ request[q] = "owed"
  OBVIOUS
<1> QED  BY <1>1 DEF Stage

-----------------------------------------------------------------------------
(* The steps.                                                              *)

\* A step that touches neither codes nor clients.
LEMMA StepStutters ==
  ASSUME Inv, UNCHANGED <<code, grant, clientVars, command>>,
         \A r \in Requests : \/ UNCHANGED <<with[r], request[r]>>
                             \/ /\ request[r] \notin {"owed", "token"}
                                /\ request'[r] \notin {"owed", "token"}
  PROVE  UNCHANGED Contract!vars
<1>1. UNCHANGED Stage
  BY StageSteady
<1>2. UNCHANGED Grants
  BY GrantsSteady
<1>3. UNCHANGED Unused
  BY DEF Unused
<1> QED  BY <1>1, <1>2, <1>3 DEF Contract!vars

LEMMA CommandOffers ==
  ASSUME Inv, NEW c \in Codes, GrantStep(c)
  PROVE  Contract!Offer(c) \/ UNCHANGED Contract!vars
<1>1. CASE Verify(c) \/ \E s \in Sessions \cup Foreign : Challenge(c, s)
  <2>1. UNCHANGED <<code, clientVars, command, with, request>>
    BY <1>1 DEF Challenge, Verify
  <2>2. \A d \in Codes : grant'[d] = "made" <=> grant[d] = "made"
    BY <1>1 DEF Challenge, Verify, Inv, IInv, TypeOK
  <2>3. UNCHANGED Stage
    BY <2>1, <2>2 DEF Stage
  <2>4. UNCHANGED Grants /\ UNCHANGED Unused
    BY <2>1, GrantsSteady DEF Unused
  <2> QED  BY <2>3, <2>4 DEF Contract!vars
<1>2. CASE Grant(c)
  <2> DEFINE old == {d \in Codes : code[d] = "expired"}
  <2>1. /\ grant[c] # "made" /\ grant' = [grant EXCEPT ![c] = "made"]
        /\ code' = [d \in Codes |-> IF d = c THEN "open"
                                    ELSE IF code[d] \in {"expired", "consumed"} THEN "none"
                                    ELSE code[d]]
        /\ UNCHANGED <<clientVars, command, with, request>>
    BY <1>2 DEF Grant
  <2>2. \A d \in Codes : code[d] # "none" => grant[d] = "made"
    BY DEF Inv, IInv, Spending, Redemptions
  <2>3. Stage[c] = "new" /\ old \in SUBSET {d \in Codes : Stage[d] = "open"}
    BY <2>1, <2>2 DEF Stage
  <2>4. \A d \in old : ~\E r \in Requests : with[r] = d /\ request[r] = "owed"
    BY OwedOnce
  <2>5. Stage' = [d \in Codes |-> IF d = c THEN "open" ELSE IF d \in old THEN "over" ELSE Stage[d]]
    <3> SUFFICES ASSUME NEW d \in Codes
                 PROVE  Stage'[d] = IF d = c THEN "open" ELSE IF d \in old THEN "over" ELSE Stage[d]
      BY DEF Stage
    <3>1. grant'[d] = IF d = c THEN "made" ELSE grant[d]
      BY <2>1 DEF Inv, IInv, TypeOK
    <3>2. CASE d = c
      BY <2>1, <3>1, <3>2 DEF Stage
    <3>3. CASE d # c
      BY <2>1, <2>2, <2>4, <3>1, <3>3 DEF Stage
    <3> QED  BY <3>2, <3>3
  <2>6. UNCHANGED Grants /\ UNCHANGED Unused
    BY <2>1, GrantsSteady DEF Unused
  <2> HIDE DEF old
  <2> QED  BY <2>3, <2>5, <2>6 DEF Contract!Offer
<1>3. CASE ExpireCode(c)
  <2>1. UNCHANGED <<grant, clientVars, command, with, request>>
    BY <1>3 DEF ExpireCode
  <2>2. \A d \in Codes : code'[d] = code[d] \/ (code[d] = "open" /\ code'[d] = "expired")
    BY <1>3 DEF ExpireCode, Inv, IInv, TypeOK
  <2>3. UNCHANGED Stage
    BY <2>1, <2>2 DEF Stage
  <2>4. UNCHANGED Grants /\ UNCHANGED Unused
    BY <2>1, GrantsSteady DEF Unused
  <2> QED  BY <2>3, <2>4 DEF Contract!vars
<1> QED  BY <1>1, <1>2, <1>3 DEF GrantStep

\* The one that may write finds the code unspent.
LEMMA ConsumeSpends ==
  ASSUME Inv, NEW r \in Requests, ConsumeCode(r)
  PROVE  Contract!Spend(with[r])
<1>1. /\ with[r] \in Codes /\ grant[with[r]] = "made" /\ code[with[r]] \in {"open", "expired"}
      /\ request[r] = "read"
  BY DEF ConsumeCode, MayUpgrade, Inv, IInv, Spending, Redemptions, RedemptionOK
<1>2. /\ code' = [code EXCEPT ![with[r]] = "consumed"]
      /\ request' = [request EXCEPT ![r] = "owed"]
      /\ UNCHANGED <<grant, clientVars, command, with>>
  BY <1>1 DEF ConsumeCode, MarkSpent
<1>3. Stage' = [Stage EXCEPT ![with[r]] = "owed"]
  <2> SUFFICES ASSUME NEW c \in Codes
               PROVE  Stage'[c] = IF c = with[r] THEN "owed" ELSE Stage[c]
    BY <1>1 DEF Stage
  <2>1. code'[c] = IF c = with[r] THEN "consumed" ELSE code[c]
    BY <1>2 DEF Inv, IInv, TypeOK
  <2>2. (\E q \in Requests : with'[q] = c /\ request'[q] = "owed") <=>
            c = with[r] \/ \E q \in Requests : with[q] = c /\ request[q] = "owed"
    BY <1>1, <1>2 DEF Inv, IInv, TypeOK
  <2> QED  BY <1>1, <1>2, <2>1, <2>2 DEF Stage
<1>4. UNCHANGED Grants
  BY <1>1, <1>2, GrantsSteady
<1>5. UNCHANGED Unused
  BY <1>1, <1>2 DEF Unused, Inv, IInv, TypeOK
<1>6. Stage[with[r]] = "open"
  BY <1>1 DEF Stage
<1> QED  BY <1>3, <1>4, <1>5, <1>6 DEF Contract!Spend

\* Redemptions that end without a token.
LEMMA LostForfeit ==
  ASSUME Inv, UNCHANGED <<code, grant, clientVars, command>>, NEW lost \in SUBSET Requests,
         \A r \in Requests \ lost : with'[r] = with[r] /\ request'[r] = request[r],
         \A r \in lost : request[r] \in {"read", "owed"} /\ request'[r] = "refused"
  PROVE  Contract!Forfeit
<1> DEFINE gone == {r \in lost : request[r] = "owed"}
           codes == {with[r] : r \in gone}
<1>1. \A r \in Requests : \/ with'[r] = with[r] /\ request'[r] = request[r] /\ r \notin lost
                          \/ r \in lost /\ request[r] \in {"read", "owed"} /\ request'[r] = "refused"
  OBVIOUS
<1>2. codes \in SUBSET {c \in Codes : Stage[c] = "owed"}
  BY OwedOnce
<1>3. Stage' = [c \in Codes |-> IF c \in codes THEN "over" ELSE Stage[c]]
  <2> SUFFICES ASSUME NEW c \in Codes
               PROVE  Stage'[c] = IF c \in codes THEN "over" ELSE Stage[c]
    BY DEF Stage
  <2>1. CASE c \in codes
    <3>1. PICK r \in gone : with[r] = c
      BY <2>1
    <3>2. grant[c] = "made" /\ code[c] \in {"none", "consumed"}
      BY <3>1, OwedOnce
    <3>3. \A q \in Requests : with'[q] = c => request'[q] # "owed"
      BY <1>1, <3>1, OwedOnce
    <3> QED  BY <2>1, <3>2, <3>3 DEF Stage
  <2>2. CASE c \notin codes
    <3>1. (\E q \in Requests : with'[q] = c /\ request'[q] = "owed") <=>
              \E q \in Requests : with[q] = c /\ request[q] = "owed"
      BY <1>1, <2>2
    <3> QED  BY <2>2, <3>1 DEF Stage
  <2> QED  BY <2>1, <2>2
<1>4. UNCHANGED Grants
  BY <1>1, GrantsSteady
<1>5. UNCHANGED Unused
  BY <1>1 DEF Unused
<1> HIDE DEF codes
<1> QED  BY <1>2, <1>3, <1>4, <1>5 DEF Contract!Forfeit

\* A request that gets its token.
LEMMA IssuePays ==
  ASSUME Inv, NEW r \in Requests, IssueToken(r) \/ IssueDashboardToken(r)
  PROVE  Contract!Pay(with[r], r)
<1> DEFINE dash == with[r] \in DashCodes
           old == IF dash THEN {g \in Grants : g.dashboard} ELSE {}
<1>1. /\ request[r] = "owed" /\ request' = [request EXCEPT ![r] = "token"]
      /\ UNCHANGED <<code, grant, with, command>>
  BY DEF IssueToken, IssueDashboardToken
<1>2. with[r] \in Codes /\ Stage[with[r]] = "owed"
  BY <1>1, OwedOnce
<1>3. Stage' = [Stage EXCEPT ![with[r]] = "over"]
  <2>1. /\ \A q \in Requests \ {r} : UNCHANGED <<with[q], request[q]>>
        /\ request'[r] # "owed"
    BY <1>1 DEF Inv, IInv, TypeOK
  <2>2. Stage' = [c \in Codes |-> IF c \in {with[q] : q \in {r}} THEN "over" ELSE Stage[c]]
    BY <1>1, <2>1, OwedEnds
  <2> QED  BY <1>2, <2>2 DEF Stage
<1>4. r \in Unused /\ Unused' = Unused \ {r}
  BY <1>1 DEF Unused, Inv, IInv, TypeOK
<1>5. ~Active(r)
  BY <1>1, HolderDone
<1>6. Grants' = (Grants \ old) \cup {Contract!Grant(r, Home[with[r]], dash, FALSE)}
  <2>1. CASE IssueToken(r)
    <3>1. StoreToken(r, r, Home[with[r]]) /\ ~dash /\ Stable(r) = dash
      BY <2>1 DEF IssueToken, Stable
    <3>2. Grants' = Grants \cup {Contract!Grant(r, Home[with[r]], dash, FALSE)}
      BY <1>1, <1>5, <3>1, StoredRow
    <3> QED  BY <3>1, <3>2
  <2>2. CASE IssueDashboardToken(r)
    <3>1. PICK x \in IF StableClients = {} THEN {r} ELSE StableClients :
              StoreToken(x, r, Home[with[r]])
      BY <2>2 DEF IssueDashboardToken, NewOrigin
    <3>2. dash = TRUE /\ x \in Requests /\ Stable(x) /\ Stable(x) = TRUE
      BY <2>2, <3>1 DEF IssueDashboardToken, StableClients, Stable
    <3>3. Grants' = (IF Active(x) THEN Grants \ {Row(x)} ELSE Grants)
                        \cup {Contract!Grant(r, Home[with[r]], TRUE, FALSE)}
      BY <1>1, <3>1, <3>2, StoredRow
    <3>4. Active(x) => \A g \in Grants : g.dashboard <=> g = Row(x)
      <4>1. \A y \in Makers : Active(y) /\ Stable(y) <=> y \in StableClients
        BY DEF Active, Stable, StableClients
      <4>2. \A y, z \in StableClients : y = z
        BY DEF Inv, IInv, Clients, OneDashboard
      <4> QED  BY <3>2, <4>1, <4>2 DEF Grants, Row, Active
    <3>5. ~Active(x) => \A g \in Grants : ~g.dashboard
      <4>1. ~Active(x) => StableClients = {}
        BY <3>1 DEF Active, StableClients
      <4>2. \A y \in Makers : StableClients = {} /\ Active(y) => ~Stable(y)
        BY DEF Active, Stable, StableClients
      <4> QED  BY <4>1, <4>2 DEF Grants, Row, Active
    <3>6. CASE Active(x)
      BY <3>2, <3>3, <3>4, <3>6
    <3>7. CASE ~Active(x)
      BY <3>2, <3>3, <3>5, <3>7
    <3> QED  BY <3>6, <3>7
  <2> QED  BY <2>1, <2>2
<1> HIDE DEF old
<1> QED  BY <1>2, <1>3, <1>4, <1>6 DEF Contract!Pay, Contract!Issue, old

LEMMA CreateCreates ==
  ASSUME Inv, NEW o \in Commands, CreateClient(o)
  PROVE  Contract!Create(o)
<1>1. /\ StoreToken(o, o, NoOrigin) /\ command[o] = "idle"
      /\ command' = [command EXCEPT ![o] = "done"]
      /\ UNCHANGED <<code, grant, with, request>>
  BY DEF CreateClient
<1>2. ~Active(o) /\ Stable(o) = FALSE
  BY <1>1 DEF Inv, IInv, Clients, Tables, Used, Active, Stable
<1>3. Grants' = Grants \cup {Contract!Grant(o, NoOrigin, FALSE, FALSE)}
  BY <1>1, <1>2, StoredRow
<1>4. o \in Unused /\ Unused' = Unused \ {o}
  BY <1>1 DEF Unused, Inv, IInv, TypeOK
<1>5. UNCHANGED Stage
  BY <1>1, StageSteady
<1> QED  BY <1>3, <1>4, <1>5 DEF Contract!Create, Contract!Issue

\* The second statement of a rotation finds its client active, or changes nothing.
LEMMA RotateRenews ==
  ASSUME Inv, NEW o \in Commands, RotateClient(o)
  PROVE  (\E g \in Grants : Contract!Renew(g, o)) \/ UNCHANGED Contract!vars
<1> PICK x \in Makers : x = target[o]
  BY DEF RotateClient, Inv, Rows
<1>1. command[o] = "read" /\ UNCHANGED <<code, grant, with, request, client, origin>>
  BY DEF RotateClient, Inv, Rows
<1>2. UNCHANGED Stage
  BY <1>1, StageSteady
<1>3. CASE ~Active(x)
  <2>1. UNCHANGED <<token, expired>> /\ command' = [command EXCEPT ![o] = "failed"]
    BY <1>3 DEF RotateClient, MayRotate, Active
  <2>2. UNCHANGED Grants
    BY <1>1, <2>1, GrantsSteady
  <2>3. UNCHANGED Unused
    BY <1>1, <2>1 DEF Unused, Inv, IInv, TypeOK
  <2> QED  BY <1>2, <2>2, <2>3 DEF Contract!vars
<1>4. CASE Active(x)
  <2>1. /\ token' = [token EXCEPT ![x] = o] /\ expired' = [expired EXCEPT ![x] = FALSE]
        /\ command' = [command EXCEPT ![o] = "done"]
    BY <1>4 DEF RotateClient, MayRotate, Active
  <2>2. Row(x)' = Contract!Grant(o, Row(x).origin, Row(x).dashboard, FALSE)
    <3>1. Stable(x)' = Stable(x)
      BY <1>1 DEF Stable
    <3>2. token'[x] = o /\ expired'[x] = FALSE /\ origin'[x] = origin[x]
      BY <1>1, <2>1 DEF Inv, IInv, TypeOK
    <3> QED  BY <3>1, <3>2 DEF Row, Contract!Grant
  <2>3. \A y \in Makers \ {x} : client'[y] = client[y] /\ Row(y)' = Row(y)
    BY <1>1, <2>1 DEF Row, Stable, Inv, IInv, TypeOK
  <2>4. Row(x) \in Grants /\ client'[x] = "active"
    BY <1>1, <1>4 DEF Grants, Active
  <2>5. Grants' = (Grants \ {Row(x)}) \cup {Contract!Grant(o, Row(x).origin, Row(x).dashboard, FALSE)}
    <3>1. Grants' = {Row(y) : y \in {z \in Makers \ {x} : Active(z)}} \cup {Row(x)'}
      BY <1>1, <2>3, <2>4, RowChanges
    <3>2. {Row(y) : y \in {z \in Makers \ {x} : Active(z)}} = Grants \ {Row(x)}
      BY <1>1, <1>4, OtherRows
    <3> QED  BY <2>2, <3>1, <3>2
  <2>6. o \in Unused /\ Unused' = Unused \ {o}
    BY <1>1, <2>1 DEF Unused, Inv, IInv, TypeOK
  <2>7. Contract!Renew(Row(x), o)
    BY <1>2, <2>4, <2>5, <2>6 DEF Contract!Renew, Contract!Issue
  <2> QED  BY <2>4, <2>7
<1> QED  BY <1>3, <1>4

LEMMA RowEnds ==
  ASSUME Inv, NEW x \in Makers, RevokeClient(x) \/ ExpireClient(x)
  PROVE  \E g \in Grants : Contract!Revoke(g) \/ Contract!Lapse(g)
<1>1. /\ Active(x) /\ UNCHANGED <<code, grant, with, request, token, origin, command>>
      /\ \A y \in Makers \ {x} : client'[y] = client[y] /\ expired'[y] = expired[y]
  BY DEF RevokeClient, ExpireClient, Active, Inv, IInv, TypeOK
<1>2. UNCHANGED Stage /\ UNCHANGED Unused
  BY <1>1, StageSteady DEF Unused
<1>3. Row(x) \in Grants /\ \A y \in Makers \ {x} : client'[y] = client[y] /\ Row(y)' = Row(y)
  BY <1>1 DEF Grants, Row, Stable, Active
<1>4. Grants' = (Grants \ {Row(x)}) \cup (IF client'[x] = "active" THEN {Row(x)'} ELSE {})
  BY <1>1, <1>3, RowChanges, OtherRows
<1>5. CASE RevokeClient(x)
  <2>1. client'[x] = "revoked"
    BY <1>5 DEF RevokeClient, Inv, IInv, TypeOK
  <2> QED  BY <1>2, <1>3, <1>4, <2>1 DEF Contract!Revoke
<1>6. CASE ExpireClient(x)
  <2>1. Stable(x)' = Stable(x)
    BY <1>1 DEF Stable
  <2>2. client'[x] = "active" /\ expired'[x] = TRUE /\ token'[x] = token[x] /\ origin'[x] = origin[x]
    BY <1>1, <1>6 DEF ExpireClient, Active, Inv, IInv, TypeOK
  <2>3. Row(x)' = Contract!Grant(Row(x).token, Row(x).origin, Row(x).dashboard, TRUE)
    BY <2>1, <2>2 DEF Row, Contract!Grant
  <2> QED  BY <1>2, <1>3, <1>4, <2>2, <2>3 DEF Contract!Lapse
<1> QED  BY <1>5, <1>6

-----------------------------------------------------------------------------
(* The theorems.                                                           *)

LEMMA InitContract == Init => Contract!Init /\ Rows
  BY DEF Init, Rows, Contract!Init, Stage, Unused, Grants

LEMMA NextContract ==
  ASSUME Inv, [Next]_vars
  PROVE  [Contract!Next]_(Contract!vars)
<1>1. CASE UNCHANGED vars
  BY <1>1, StepStutters DEF vars
<1>2. ASSUME NEW c \in Codes, GrantStep(c)
      PROVE  [Contract!Next]_(Contract!vars)
  BY <1>2, CommandOffers DEF Contract!Next
<1>3. ASSUME NEW r \in Requests, PairStep(r)
      PROVE  [Contract!Next]_(Contract!vars)
  <2>1. CASE \/ \E s \in Sessions, c \in Codes, o \in Origins : ReadCode(r, s, c, o)
             \/ MissCode(r)
    <3>1. UNCHANGED <<code, grant, clientVars, command>>
      BY <2>1 DEF ReadCode, MissCode
    <3>2. \A q \in Requests : \/ UNCHANGED <<with[q], request[q]>>
                              \/ /\ request[q] \notin {"owed", "token"}
                                 /\ request'[q] \notin {"owed", "token"}
      BY <2>1 DEF ReadCode, MissCode, Inv, IInv, TypeOK
    <3> QED  BY <3>1, <3>2, StepStutters
  <2>2. CASE ConsumeCode(r)
    <3>1. with[r] \in Codes
      BY <2>2 DEF ConsumeCode, Inv, IInv, Spending, Redemptions, RedemptionOK
    <3> QED  BY <2>2, <3>1, ConsumeSpends DEF Contract!Next
  <2>3. CASE RefusePairing(r)
    <3>1. /\ UNCHANGED <<code, grant, clientVars, command>> /\ request[r] \in {"read", "owed"}
          /\ request'[r] = "refused"
          /\ \A q \in Requests \ {r} : with'[q] = with[q] /\ request'[q] = request[q]
      BY <2>3 DEF RefusePairing, Inv, IInv, TypeOK
    <3>2. Contract!Forfeit
      <4> DEFINE lost == {r}
      <4>1. lost \in SUBSET Requests /\ \A q \in Requests \ lost : with'[q] = with[q] /\ request'[q] = request[q]
        BY <3>1
      <4>2. \A q \in lost : request[q] \in {"read", "owed"} /\ request'[q] = "refused"
        BY <3>1
      <4> HIDE DEF lost
      <4> QED  BY <3>1, <4>1, <4>2, LostForfeit
    <3> QED  BY <3>2 DEF Contract!Next
  <2>4. CASE IssueToken(r) \/ IssueDashboardToken(r)
    <3>1. with[r] \in Codes
      BY <2>4, OwedOnce DEF IssueToken, IssueDashboardToken
    <3> QED  BY <2>4, <3>1, IssuePays DEF Contract!Next
  <2> QED  BY <1>3, <2>1, <2>2, <2>3, <2>4 DEF PairStep
<1>4. CASE ClientsStep
  <2>1. ASSUME NEW o \in Commands, CreateClient(o)
        PROVE  [Contract!Next]_(Contract!vars)
    BY <2>1, CreateCreates DEF Contract!Next
  <2>2. ASSUME NEW o \in Commands, RotateClient(o)
        PROVE  [Contract!Next]_(Contract!vars)
    BY <2>2, RotateRenews DEF Contract!Next
  <2>3. ASSUME NEW o \in Commands, NEW x \in Makers, ReadClient(o, x)
        PROVE  [Contract!Next]_(Contract!vars)
    <3>1. UNCHANGED <<code, grant, clientVars, with, request>>
      BY <2>3 DEF ReadClient
    <3>2. \A k \in Commands : command'[k] # "done" <=> command[k] # "done"
      BY <2>3 DEF ReadClient, Inv, IInv, TypeOK
    <3>3. UNCHANGED Stage /\ UNCHANGED Grants /\ UNCHANGED Unused
      BY <3>1, <3>2, StageSteady, GrantsSteady DEF Unused
    <3> QED  BY <3>3 DEF Contract!vars
  <2>4. ASSUME NEW x \in Makers, RevokeClient(x) \/ ExpireClient(x)
        PROVE  [Contract!Next]_(Contract!vars)
    BY <2>4, RowEnds DEF Contract!Next
  <2> QED  BY <1>4, <2>1, <2>2, <2>3, <2>4 DEF ClientsStep
<1>5. ASSUME NEW s \in Sessions, Start(s) \/ ShutDown(s)
      PROVE  [Contract!Next]_(Contract!vars)
  BY <1>5, StepStutters DEF Start, ShutDown
<1>6. ASSUME NEW s \in Sessions, Crash(s)
      PROVE  [Contract!Next]_(Contract!vars)
  <2> DEFINE lost == {r \in Requests : at[r] = s /\ request[r] \in {"read", "owed"}}
  <2>1. UNCHANGED <<code, grant, clientVars, command>>
    BY <1>6 DEF Crash
  <2>2. /\ \A r \in Requests \ lost : with'[r] = with[r] /\ request'[r] = request[r]
        /\ \A r \in lost : request[r] \in {"read", "owed"} /\ request'[r] = "refused"
    BY <1>6 DEF Crash, Inv, IInv, TypeOK
  <2>3. Contract!Forfeit
    BY <2>1, <2>2, LostForfeit
  <2> QED  BY <2>3 DEF Contract!Next
<1> QED  BY <1>1, <1>2, <1>3, <1>4, <1>5, <1>6 DEF Next

LEMMA RowsInvariance == Spec => []Inv
<1>1. Inv /\ [Next]_vars => Rows'
  BY RowsKept
<1> QED  BY <1>1, InitContract, Invariance, PTL DEF Spec, Inv

\* Pairing implements the contract of codes and tokens: every step of its transactions,
\* commands and restarts is a step of the contract or changes nothing of it.
THEOREM PairingMeetsContract == Spec => MeetsContract
<1>1. Inv /\ [Next]_vars => [Contract!Next]_(Contract!vars)
  BY NextContract
<1> QED  BY <1>1, RowsInvariance, InitContract, PTL DEF Spec, MeetsContract, Contract!Spec

\* authenticate serves whom the contract says, and nobody else.
THEOREM HoldersServed == Spec => []ServesHolders
<1>1. Inv => ServesHolders
  <2> SUFFICES ASSUME Inv, NEW t \in Makers, NEW o \in Origins \cup {NoOrigin}
               PROVE  Opens(t, o) <=> <<t, o>> \in Contract!Served
    BY DEF ServesHolders
  <2>1. \A x \in Makers : OriginAllowed(x, o) <=> o = origin[x]
    BY DEF Inv, Rows, OriginAllowed
  <2>2. Opens(t, o) <=> \E x \in Makers : Active(x) /\ token[x] = t /\ ~expired[x] /\ origin[x] = o
    BY <2>1 DEF Opens, ClientsOf, Active
  <2>3. <<t, o>> \in Contract!Served <=> \E g \in Grants : g.token = t /\ g.origin = o /\ ~g.lapsed
    BY DEF Contract!Served
  <2>4. <<t, o>> \in Contract!Served <=>
            \E x \in Makers : Active(x) /\ Row(x).token = t /\ Row(x).origin = o /\ ~Row(x).lapsed
    BY <2>3 DEF Grants, Active
  <2> QED  BY <2>2, <2>4 DEF Row
<1> QED  BY <1>1, RowsInvariance, PTL
=============================================================================
