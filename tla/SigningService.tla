---- MODULE SigningService ----
(***************************************************************************)
(* What the extension promises a dApp of a request that needs the user:    *)
(* it succeeds only if this very request was approved with A on the        *)
(* cartridge, it is settled once, and nothing the dApp did not ask for is  *)
(* ever put before the user.                                               *)
(***************************************************************************)
CONSTANT Req

VARIABLES
    asked,      \* requests dApps have made
    approved,   \* requests the user has approved on the cartridge
    granted,    \* requests answered with a signature or a permission
    refused     \* requests answered with an error, or never

vars == <<asked, approved, granted, refused>>

Init == asked = {} /\ approved = {} /\ granted = {} /\ refused = {}

Ask(r) ==
    /\ r \notin asked /\ asked' = asked \cup {r}
    /\ UNCHANGED <<approved, granted, refused>>

Approve(r) ==
    /\ r \in asked /\ approved' = approved \cup {r}
    /\ UNCHANGED <<asked, granted, refused>>

Grant(r) ==
    /\ r \in approved \ (granted \cup refused)
    /\ granted' = granted \cup {r}
    /\ UNCHANGED <<asked, approved, refused>>

Refuse(r) ==
    /\ r \in asked \ (granted \cup refused)
    /\ refused' = refused \cup {r}
    /\ UNCHANGED <<asked, approved, granted>>

Next == \E r \in Req : Ask(r) \/ Approve(r) \/ Grant(r) \/ Refuse(r)

Spec == Init /\ [][Next]_vars

====
