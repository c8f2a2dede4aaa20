--------------------------- MODULE MCPersistence ---------------------------
(* Instances of Persistence for TLC. *)
EXTENDS Persistence

\* What versions 2 to 7 can have written: a field is zero before the version
\* that introduced it, and autoDelete was replaced in version 5.
FilesOf(v) ==
  {d \in [version: {v}, groupOn: BOOLEAN, account: Accounts, log: {<<>>}] :
     /\ v < 3 => ~d.account.refresh
     /\ v < 4 => ~d.groupOn
     /\ v < 5 => ~d.account.auto /\ ~d.account.suspended
     /\ v >= 5 => d.account.autoDelete = "absent"
     /\ v < 6 => ~d.account.billed /\ ~d.account.manual
     /\ d.account.manual => d.account.billed
     /\ d.account.reason = d.account.suspended}

AnyFile == {NoFile} \cup UNION {FilesOf(v) : v \in 2..6}

\* One account unlike what the migrations make of an old one, and one like it.
TwoAccounts ==
  {[refresh |-> FALSE, auto |-> FALSE, autoDelete |-> "absent", billed |-> TRUE,
    manual |-> TRUE, suspended |-> FALSE, reason |-> FALSE],
   [refresh |-> TRUE, auto |-> TRUE, autoDelete |-> "absent", billed |-> FALSE,
    manual |-> FALSE, suspended |-> FALSE, reason |-> FALSE]}
=============================================================================
