------------------------------ MODULE MCIdentity ------------------------------
(* Two views of Identity: the limiter with one bootstrapped identity, and    *)
(* registration and authority, where registrations overlap with one another  *)
(* and with what is done outside of the API, and logins succeed.              *)
EXTENDS Identity

VARIABLE focus

MCInit == Init /\ focus \in { "limiter", "authority" }

InFocus ==
  \/ /\ focus = "limiter" /\ audit' = {} /\ token' = {}
     /\ \A c \in Calls : call'[c].user \in { "alice", "anonymous" } /\ call'[c].pc # "register"
  \/ /\ focus = "authority" /\ faults' = {}
     /\ \A c, d \in Calls :
          call'[c].pc \notin { "idle", "known", "register", "insert" } =>
            call'[c].pc # "failed" /\ (c = d \/ call'[d].pc = "idle")

MCNext == Next /\ InFocus /\ UNCHANGED focus

MCSpec == MCInit /\ [][MCNext]_<< vars, focus >> /\ Fairness
=============================================================================
