------------------------------ MODULE Custody ------------------------------
(***************************************************************************)
(* What the operation coordination of the service promises, without saying *)
(* how: every external resource is in the custody of at most one token, an *)
(* uncertain effect keeps its custody, and custody ends only when the      *)
(* holder settles it or when a proof about exactly that token is put on    *)
(* record.  OperationCoordination implements this module.                  *)
(***************************************************************************)
CONSTANTS
  Resources,   \* opaque resource identities (deriveOperationCoordinationResource)
  Tokens,      \* the tokens of claims, one per claim ever made
  Nobody       \* no token (none of Tokens)

VARIABLES
  holder,      \* [Resources -> Tokens \cup {Nobody}]
  uncertain,   \* resources whose holder ended without proof of its effect
  proved       \* <<resource, token>> pairs with a resolution on record

custodyVars == <<holder, uncertain, proved>>

CustodyInit ==
  /\ holder = [r \in Resources |-> Nobody]
  /\ uncertain = {}
  /\ proved = {}

\* A free resource is claimed; an imported claim is uncertain from the start.
Take(r, t, isUncertain) ==
  /\ holder[r] = Nobody
  /\ holder' = [holder EXCEPT ![r] = t]
  /\ uncertain' = IF isUncertain THEN uncertain \cup {r} ELSE uncertain
  /\ UNCHANGED proved

\* The holder ends with proof about its own effect.
Settle(r) ==
  /\ holder[r] # Nobody
  /\ r \notin uncertain
  /\ holder' = [holder EXCEPT ![r] = Nobody]
  /\ UNCHANGED <<uncertain, proved>>

\* The holder ends without proof: custody stays where it is.
Doubt(r) ==
  /\ holder[r] # Nobody
  /\ uncertain' = uncertain \cup {r}
  /\ UNCHANGED <<holder, proved>>

\* Somebody else proves what became of the holder's effect.
Prove(r) ==
  /\ holder[r] # Nobody
  /\ <<r, holder[r]>> \notin proved
  /\ proved' = proved \cup {<<r, holder[r]>>}
  /\ holder' = [holder EXCEPT ![r] = Nobody]
  /\ uncertain' = uncertain \ {r}

\* Several free resources are taken at once, all uncertain (a cutover import).
TakeOver(S, tokenOf) ==
  /\ \A r \in S : holder[r] = Nobody
  /\ holder' = [r \in Resources |-> IF r \in S THEN tokenOf[r] ELSE holder[r]]
  /\ uncertain' = uncertain \cup S
  /\ UNCHANGED proved

CustodyNext ==
  \/ \E r \in Resources : Settle(r) \/ Doubt(r) \/ Prove(r)
  \/ \E r \in Resources, t \in Tokens : Take(r, t, FALSE)
  \/ \E S \in SUBSET Resources : \E tokenOf \in [S -> Tokens] : TakeOver(S, tokenOf)

CustodySpec == CustodyInit /\ [][CustodyNext]_custodyVars
=============================================================================
