------------------------------- MODULE Consent -------------------------------
(* What the cartridge promises of a request, whatever its screens look      *)
(* like: it is answered once; yes only if it may be granted under the chain *)
(* lock of that moment, and only by a press of A that the poll before the   *)
(* request did not see; and the lock never moves while a request is open.   *)
CONSTANTS Requests, NoRequest, Locks,
          Keys,                   \* the sets of keys a poll may see
          MayBeGranted(_, _)      \* of a request and a lock
VARIABLES lock, asking, held, answer
vars == <<lock, asking, held, answer>>

Init == lock \in Locks /\ asking = NoRequest /\ held = {} /\ answer = "none"

Ask(r) ==
  /\ asking = NoRequest
  /\ asking' = r /\ answer' = "none"
  /\ UNCHANGED <<lock, held>>

\* One poll of the keys, which may decide the request that is open.
Poll(keys) == held' = keys /\ UNCHANGED <<lock, asking, answer>>
Grant(keys) ==
  /\ asking # NoRequest /\ MayBeGranted(asking, lock)
  /\ "A" \in keys \ held
  /\ held' = keys /\ asking' = NoRequest /\ answer' = "yes"
  /\ UNCHANGED lock
Refuse(keys) ==
  /\ asking # NoRequest
  /\ held' = keys /\ asking' = NoRequest /\ answer' = "no"
  /\ UNCHANGED lock
MoveLock(keys) ==
  /\ asking = NoRequest /\ keys \cap {"L", "R"} # {}
  /\ lock' \in Locks /\ held' = keys
  /\ UNCHANGED <<asking, answer>>

Next ==
  \/ \E r \in Requests : Ask(r)
  \/ \E keys \in Keys :
       Poll(keys) \/ Grant(keys) \/ Refuse(keys) \/ MoveLock(keys)
Spec == Init /\ [][Next]_vars
=============================================================================
