----------------------------- MODULE MCPaidService -----------------------------
(* Two invocations of one authority, and requests the service must refuse. *)
EXTENDS PaidService

MCTerms == [network |-> "solana", asset |-> "usdc", payTo |-> "shop", amount |-> 2]

MCPrices == [s \in Scenarios |->
    CASE s = "overcharge" -> [MCTerms EXCEPT !.amount = 3]
      [] s = "wrong-recipient" -> [MCTerms EXCEPT !.payTo = "other"]
      [] s = "wrong-asset" -> [MCTerms EXCEPT !.asset = "usdt"]
      [] OTHER -> MCTerms]

Operation(datasetId) == [method |-> "POST", resource |-> "/reports", operation |-> "summary",
                         datasetId |-> datasetId]

Url == [host |-> "shop.example", path |-> "/reports"]

Request(id) == [invocationId |-> id, grantId |-> "g", operation |-> Operation("dataset-a")]

Authorization(id, issuedAt) ==
    ServiceAuthorization("authority", Request(id),
        BuildPaidRequest([url |-> Url, method |-> "POST", path |-> "/reports"],
                         Operation("dataset-a")),
        MCTerms, issuedAt)

CredentialOf(id, amount) ==
    CreatePaymentPayload([asset |-> "usdc", payTo |-> "shop", amount |-> amount,
                          feePayer |-> "facilitator"], Payer, "blockhash", id)

Credential(id) == CredentialOf(id, 2)

Paid(id, issuedAt) ==
    [method |-> "POST", path |-> "/reports", body |-> <<"summary", "dataset-a">>,
     invocationId |-> id, authorization |-> Authorization(id, issuedAt),
     transaction |-> Credential(id)]

Unpaid(id) == [Paid(id, 1) EXCEPT !.authorization = None, !.transaction = None]

MCReceived ==
    {Unpaid("i"), [Unpaid("i") EXCEPT !.body = <<"summary", Odd>>],
     Paid("i", 1), Paid("j", 1), [Paid("j", 1) EXCEPT !.transaction = CredentialOf("j", 3)],
     [Paid("i", 1) EXCEPT !.body = <<"summary", "dataset-b">>],
     [Paid("i", 1) EXCEPT !.invocationId = "j"],
     [Paid("i", 1) EXCEPT !.authorization = None],
     [Paid("i", 1) EXCEPT !.authorization.payment.amount = 1]}

OneReceived == {Paid("i", 1)}

=============================================================================
