------------------------------- MODULE Payments -------------------------------
(***************************************************************************)
(* One payment, as the provider makes it and as anyone checks it:          *)
(* src/packages/payments/src.  A transaction message is a record of what   *)
(* the validator looks at, and the payer's signature is over the message.  *)
(***************************************************************************)
EXTENDS PurchasePolicy

CONSTANTS
    Payer,              \* the payment wallet
    MaxResultBytes      \* maxResultBytes

ASSUME PaymentsAssumption == MaxResultBytes \in Nat

TokenPrograms == {"token", "token-2022"}

\* associatedTokenAddress
TokenAccount(owner, mint, program) == <<owner, mint, program>>

Transfer(mint, amount, from, to, program) ==
    [program |-> program, type |-> "transferChecked", amount |-> amount, mint |-> mint,
     source |-> TokenAccount(from, mint, program),
     destination |-> TokenAccount(to, mint, program), authority |-> from]

Signed(message) == [message |-> message,
                    payerSignature |-> Sign(message.accounts[2], "transaction", message)]

\* createPaymentPayload of the x402 client: a version 0 message with the
\* facilitator's fee payer first, paying what the requirement asks.  It does
\* not build a message around text that is not an address.
CreatePaymentPayload(requirement, payer, blockhash, nonce) ==
    IF Odd \in {requirement.feePayer, requirement.asset, requirement.payTo}
    THEN None
    ELSE Signed([version |-> 0, lookups |-> {}, lifetime |-> blockhash,
                 accounts |-> <<requirement.feePayer, payer>>, numSigners |-> 2,
                 instructions |->
                     {[program |-> "memo", nonce |-> nonce],
                      Transfer(requirement.asset, requirement.amount, payer,
                               requirement.payTo, "token")}])

\* Slip: any single transfer will do, whatever it pays.
ValidateAnyTransfer(transaction, expected) ==
    /\ transaction # None
    /\ transaction.message.lifetime = expected.blockhash
    /\ Cardinality({i \in transaction.message.instructions : i.program \in TokenPrograms}) = 1

\* validateExactPaymentTransaction: exactly one token instruction, which is
\* the expected transfer, and nothing else but compute budget and memo.
ValidateExactPaymentTransaction(transaction, expected) ==
    /\ transaction # None
    /\ expected.feePayer # expected.payer
    /\ expected.amount >= 0
    /\ LET message == transaction.message
           token == {i \in message.instructions : i.program \in TokenPrograms}
       IN /\ message.version = 0
          /\ message.lookups = {}
          /\ message.lifetime = expected.blockhash
          /\ message.accounts[1] = expected.feePayer
          /\ message.numSigners = 2
          /\ message.accounts[2] = expected.payer
          /\ transaction.payerSignature # None
          /\ \A i \in message.instructions \ token : i.program \in {"compute-budget", "memo"}
          /\ \E program \in TokenPrograms :
                token = {Transfer(expected.asset, expected.amount, expected.payer,
                                  expected.payTo, program)}

\* verifyTransactionPayerSignature
VerifyTransactionPayerSignature(transaction, payer) ==
    Verifies(payer, "transaction", transaction.message, transaction.payerSignature)

\* execute, before transmission: the attempt to record, or null when the
\* credential is refused.  The blockhash is the pinned RPC's answer, null when
\* it has none (#freshBlockhash).
PrepareAttempt(profile, request, challenge, requirement, payload, blockhash, now) ==
    LET expected == [payer |-> Payer, feePayer |-> requirement.feePayer,
                     asset |-> requirement.asset, payTo |-> requirement.payTo,
                     amount |-> requirement.amount, blockhash |-> blockhash]
        original == challenge.raw.accepts[requirement.acceptsIndex]
    IN IF /\ PaidRequestMatches(request, challenge.requestSha256)
          /\ original.payTo = requirement.payTo
          /\ original.amount = requirement.amount
          /\ original.asset = requirement.asset
          /\ requirement.feePayer \notin {None, Payer}
          /\ blockhash # None
          /\ blockhash.prefix = profile.requiredBlockhashPrefix
          /\ ValidateExactPaymentTransaction(payload, expected)
       THEN [protocol |-> "x402", scheme |-> requirement.scheme,
             settlementProfile |-> profile.name, network |-> requirement.network,
             payer |-> Payer, payerSignature |-> payload.payerSignature,
             feePayer |-> requirement.feePayer, asset |-> requirement.asset,
             payTo |-> requirement.payTo, amount |-> requirement.amount,
             blockhash |-> blockhash, resourceUrl |-> request.url,
             requestSha256 |-> request.sha256, transaction |-> payload,
             preparedAt |-> now]
       ELSE None

\* The identifier of a transaction is its first signature, the fee payer's.
TransactionId(message) == Sign(message.accounts[1], "transaction", message)

\* Slip: a transaction that is on the chain has paid.
CheckPresent(seen, attempt) ==
    IF seen = None \/ seen.payerSignature # attempt.payerSignature THEN "not_this_payment"
    ELSE "settled"

\* checkSettledTransaction, of what the RPC shows.
CheckSettledTransaction(seen, attempt) ==
    IF seen = None \/ seen.payerSignature # attempt.payerSignature THEN "not_this_payment"
    ELSE IF \/ seen.message.lifetime # attempt.blockhash
            \/ ~\E i \in seen.message.instructions, program \in TokenPrograms :
                   i = Transfer(attempt.asset, attempt.amount, attempt.payer,
                                attempt.payTo, program)
         THEN "facts_mismatch"
    ELSE IF seen.err THEN "failed_onchain" ELSE "settled"

\* #summarizeResult: the bytes themselves are kept only when they are few.
SummarizeResult(httpStatus, body) ==
    [httpStatus |-> httpStatus, sha256 |-> Digest(body), bytes |-> body.bytes,
     body |-> IF body.bytes > MaxResultBytes THEN None ELSE body]

=============================================================================
