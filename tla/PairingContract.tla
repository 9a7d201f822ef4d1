--------------------------- MODULE PairingContract ---------------------------
(***************************************************************************)
(* What PrintLatch promises of codes and tokens: a code is worth one token *)
(* of the origin it was granted for, or none; a token is held until it is  *)
(* replaced or revoked, and then is gone for good; the dashboard holds one *)
(* token at a time. Pairing is shown to implement this.                    *)
(***************************************************************************)
CONSTANTS
    Codes,
    DashCodes,   \* those for the dashboard
    Home,        \* the origin each is granted for
    NoOrigin,
    Tokens

VARIABLES
    stage,       \* of a code
    unused,      \* tokens nobody had yet
    grants       \* what the holders of tokens have

vars == <<stage, unused, grants>>

Grant(t, o, d, l) == [token |-> t, origin |-> o, dashboard |-> d, lapsed |-> l]

\* Whom the API serves: tokens, each with its origin.
Served == {<<g.token, g.origin>> : g \in {h \in grants : ~h.lapsed}}

Init ==
    /\ stage = [c \in Codes |-> "new"]
    /\ unused = Tokens
    /\ grants = {}

\* A command stores a code, and clears away codes that nobody used in time. Until then
\* it is not promised that one is refused: a redemption may just be under way.
Offer(c) ==
    /\ stage[c] = "new"
    /\ \E old \in SUBSET {d \in Codes : stage[d] = "open"} :
           stage' = [d \in Codes |-> IF d = c THEN "open"
                                     ELSE IF d \in old THEN "over" ELSE stage[d]]
    /\ UNCHANGED <<unused, grants>>

Spend(c) ==
    /\ stage[c] = "open"
    /\ stage' = [stage EXCEPT ![c] = "owed"]
    /\ UNCHANGED <<unused, grants>>

\* Redemptions fail after their codes were spent.
Forfeit ==
    /\ \E lost \in SUBSET {c \in Codes : stage[c] = "owed"} :
           stage' = [c \in Codes |-> IF c \in lost THEN "over" ELSE stage[c]]
    /\ UNCHANGED <<unused, grants>>

\* Takes t for the grant g, in place of those in old.
Issue(t, g, old) ==
    /\ t \in unused
    /\ unused' = unused \ {t}
    /\ grants' = (grants \ old) \cup {g}

Pay(c, t) ==
    /\ stage[c] = "owed"
    /\ stage' = [stage EXCEPT ![c] = "over"]
    /\ Issue(t, Grant(t, Home[c], c \in DashCodes, FALSE),
             IF c \in DashCodes THEN {g \in grants : g.dashboard} ELSE {})

Create(t) ==
    /\ Issue(t, Grant(t, NoOrigin, FALSE, FALSE), {})
    /\ UNCHANGED stage

\* A rotation, which also prolongs.
Renew(g, t) ==
    /\ g \in grants
    /\ Issue(t, Grant(t, g.origin, g.dashboard, FALSE), {g})
    /\ UNCHANGED stage

Revoke(g) ==
    /\ g \in grants
    /\ grants' = grants \ {g}
    /\ UNCHANGED <<stage, unused>>

Lapse(g) ==
    /\ g \in grants
    /\ grants' = (grants \ {g}) \cup {Grant(g.token, g.origin, g.dashboard, TRUE)}
    /\ UNCHANGED <<stage, unused>>

Next ==
    \/ Forfeit
    \/ \E c \in Codes : Offer(c) \/ Spend(c) \/ (\E t \in Tokens : Pay(c, t))
    \/ \E t \in Tokens : Create(t) \/ (\E g \in grants : Renew(g, t))
    \/ \E g \in grants : Revoke(g) \/ Lapse(g)

Spec == Init /\ [][Next]_vars
=============================================================================
