------------------------------ MODULE Session -------------------------------
(***************************************************************************)
(* What the goroutines of a Neighbor promise together about its session    *)
(* state although they share it without a lock.  The life routine reads    *)
(* the state, decides on the next one and writes it later; in between any  *)
(* routine may disconnect.  So a state other than IDLE is only ever        *)
(* entered by a decision taken in its predecessor, one decision at a time, *)
(* and OPENCONFIRM only after a decision taken with the peer's OPEN at     *)
(* hand; but the write may come after a disconnection.                     *)
(***************************************************************************)
CONSTANTS Passive   \* TRUE: the peer connects, the session is never dialled

VARIABLES
    state,    \* the session state
    opened,   \* the peer's OPEN has been accepted since the last disconnection
    pending   \* the state the life routine has decided to enter

svars == <<state, opened, pending>>

States == {"IDLE", "ACTIVE", "OPENSENT", "OPENCONFIRM", "ESTABLISHED"}

SInit ==
    /\ state = IF Passive THEN "ACTIVE" ELSE "IDLE"
    /\ opened = FALSE /\ pending = "none"

\* The state from which each state may be decided, and the condition on it.
MayEnter(s) ==
    \/ s = "ACTIVE" /\ state = "IDLE" /\ ~Passive
    \/ s = "OPENSENT" /\ state = "ACTIVE" /\ (~Passive \/ opened)
    \/ s = "OPENCONFIRM" /\ state = "OPENSENT" /\ opened
    \/ s = "ESTABLISHED" /\ state = "OPENCONFIRM"

Decide(s) == pending = "none" /\ MayEnter(s) /\ pending' = s /\ UNCHANGED <<state, opened>>

Enter == pending # "none" /\ state' = pending /\ pending' = "none" /\ UNCHANGED opened

\* The dial failed.
GiveUp == pending = "ACTIVE" /\ pending' = "none" /\ UNCHANGED <<state, opened>>

AcceptOpen == pending = "none" /\ opened' = TRUE /\ UNCHANGED <<state, pending>>

\* The two halves of a disconnection, by any routine at any time.
ForgetOpen == opened' = FALSE /\ UNCHANGED <<state, pending>>
FallIdle   == state' = "IDLE" /\ UNCHANGED <<opened, pending>>

SNext ==
    \/ \E s \in States : Decide(s)
    \/ Enter \/ GiveUp \/ AcceptOpen \/ ForgetOpen \/ FallIdle

SSpec == SInit /\ [][SNext]_svars
=============================================================================
