---------------------------- MODULE MCPolicyGate ----------------------------
(* The gate over the whole capability catalogue. *)
EXTENDS PolicyGate

MCReads == {"host.read", "host.list", "alert.subscribe", "repo.read", "llm.infer"}
MCWrites == {"script.execute", "policy.enforce", "ticket.create", "notify.send",
             "repo.write"}
MCCapability == MCReads \union MCWrites
=============================================================================
