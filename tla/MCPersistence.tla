----------------------------- MODULE MCPersistence -----------------------------
(* Small instances of BackgroundJobs and of SecretStore for TLC.  They share no *)
(* state: a behaviour has either jobs or credentials, which is a bound.         *)
EXTENDS BackgroundJobs, SecretStore

VARIABLE part   \* what this behaviour has

MCFirst == {1}

NoCredential == ring = "ready" /\ file = [kind |-> "absent", map |-> Empty]
MCInit ==
  /\ Init /\ SecretsInit
  /\ (part = "jobs" /\ NoCredential) \/ part = "credentials"
MCNext ==
  \/ part = "jobs" /\ Next /\ UNCHANGED <<secretVars, part>>
  \/ part = "credentials" /\ SecretsNext /\ UNCHANGED <<vars, part>>
MCSpec == MCInit /\ [][MCNext]_<<vars, secretVars, part>> /\ JobFairness
=============================================================================
