------------------------------ MODULE MCPermitFlow ------------------------------
(* One session, two approvals, and requests that overlap.                   *)
EXTENDS PermitFlow

MCTerms == [service |-> "reports", capability |-> "generate", network |-> "sandbox",
            mint |-> "usdc", recipient |-> "shop", maxPerCall |-> 2, maxTotal |-> 3,
            method |-> "POST", resource |-> "/reports"]

For(agent, dataset) == [agent |-> agent, operation |-> "summary", datasetId |-> dataset]

MCApprovals == {For("agent", "dataset-a"), For("agent", "dataset-b"), For("other", "dataset-a"),
                For("agent", Odd)}

\* A permit of another issuer, and one of the approver's altered on its way.
Altered(permit) == [permit EXCEPT !.operation.datasetId = "dataset-b"]
OwnPermit(issuer) ==
    SignPermit([version |-> 2, grantId |-> 1, issuer |-> issuer, agent |-> "agent",
                service |-> "reports", capability |-> "generate", network |-> "sandbox",
                mint |-> "usdc", recipient |-> "shop", maxPerCall |-> 2, maxTotal |-> 3,
                issuedAt |-> 1, expiresAt |-> 2, subdelegation |-> FALSE,
                operation |-> [method |-> "POST", resource |-> "/reports",
                               operation |-> "summary", datasetId |-> "dataset-a"]], issuer)
MCStrays == {OwnPermit("stranger"), Altered(OwnPermit("human"))}

Task(dataset) == [invocationId |-> "i", operation |-> "summary", datasetId |-> dataset,
                  amount |-> None]
MCTasks == {Task("dataset-a"), Task(Odd)}

Quote == [service |-> "reports", capability |-> "generate", network |-> "sandbox",
          mint |-> "usdc", recipient |-> "shop", amount |-> 2,
          method |-> "POST", resource |-> "/reports"]
MCQuotes == {Quote, [Quote EXCEPT !.recipient = "other"]}

=============================================================================
