---------------------------- MODULE MCEvidenceTrail ----------------------------
(* One permit, valid from 1 to 2, and what a purchase under it can meet.    *)
EXTENDS EvidenceTrail

MCOperation == [method |-> "POST", resource |-> "/reports", operation |-> "summary",
                datasetId |-> "dataset-a"]

MCPermit == SignPermit(
    [version |-> 2, grantId |-> "g", issuer |-> "human", agent |-> "agent",
     service |-> "reports", capability |-> "generate", network |-> "sandbox",
     mint |-> "usdc", recipient |-> "shop", maxPerCall |-> 2, maxTotal |-> 3,
     issuedAt |-> 1, expiresAt |-> 2, subdelegation |-> FALSE,
     operation |-> MCOperation], "human")

Ask == [version |-> 2, audience |-> "authority-1", grantId |-> "g",
        permitDigest |-> PermitDigest(MCPermit), invocationId |-> "i",
        service |-> "reports", capability |-> "generate", network |-> "sandbox",
        mint |-> "usdc", recipient |-> "shop", amount |-> 2, issuedAt |-> 1,
        operation |-> MCOperation]

OneAsk == {Ask}
MCAsks == {Ask, [Ask EXCEPT !.operation.datasetId = "dataset-b"], [Ask EXCEPT !.amount = 3]}

MCUrl == [host |-> "shop.example", path |-> "/reports"]
MCResource == [url |-> MCUrl, method |-> "POST", path |-> "/reports"]
MovedResource == [MCResource EXCEPT !.url.host = "new.example"]

Accept == [scheme |-> "exact", network |-> "solana", asset |-> "usdc", payTo |-> "shop",
           amount |-> 2, feePayer |-> "facilitator", maxTimeoutSeconds |-> 60]

Quote(accepts) == [status |-> 402, decoded |-> [x402Version |-> 2, accepts |-> accepts,
                                                resourceUrl |-> MCUrl]]

GoodQuote == Quote(<<Accept>>)
SecondQuote == Quote(<<[Accept EXCEPT !.scheme = "upto"], [Accept EXCEPT !.amount = -1], Accept>>)
DearQuote == Quote(<<[Accept EXCEPT !.amount = 1]>>)
OtherPayee == Quote(<<[Accept EXCEPT !.payTo = "other"]>>)
OddTimeout == Quote(<<[Accept EXCEPT !.maxTimeoutSeconds = Odd]>>)
Plain(status) == [status |-> status, decoded |-> None]

GoodAnswers == {GoodQuote}
MCAnswers == {GoodQuote, SecondQuote, DearQuote, OtherPayee, Plain(503), Plain(302), Plain(402)}

NoQuotes == {}
\* What a faulty client might sign instead of the selected requirement.
MCOtherQuotes == {[asset |-> "usdc", payTo |-> "other", amount |-> 2, feePayer |-> "facilitator"]}

MCProfile == [name |-> "sandbox", scheme |-> "exact", protocol |-> "x402", x402Version |-> 2,
              acceptedNetworks |-> {"solana"}, allowedAssets |-> {"usdc"},
              requiredBlockhashPrefix |-> "surfnet"]

MCTerms == [asset |-> "usdc", payTo |-> "shop", amount |-> 2]

Report == [content |-> "report", bytes |-> 1]
EmptyReport == [content |-> "empty", bytes |-> 0]
OneBody == {Report}
ShortBodies == {Report, EmptyReport}

OneReport == {"t"}
OddReport == {"t", Odd}
NoSkew == {0}
AgentAhead == {0, 1}
OneResource == {MCResource}
TwoResources == {MCResource, MovedResource}

=============================================================================
