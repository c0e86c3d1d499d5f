---------------------------- MODULE AnswerHandling ----------------------------
(***************************************************************************)
(* What the SDK reads of the service's answers: for each kind of object    *)
(* the paths its unsealing and its transformers read, and those of them    *)
(* the code tests before use, so that null does no harm there.             *)
(*                                                                         *)
(* Mishandled says when an answer that is good by the schema is one the    *)
(* SDK cannot turn into a result: a path is read that the document never   *)
(* asked for, or a field is null that is read without a test.              *)
(***************************************************************************)
EXTENDS GraphQLSchema, SequencesExt

\* An object's reads and the tested ones among them.
Handling(reads, tested) == [reads |-> reads, tested |-> tested]

\* The handling h of what is below field f.
Inside(f, h) == Handling({<<f>>} \cup Nested(f, h.reads), Nested(f, h.tested))

Both(g, h) == Handling(g.reads \cup h.reads, g.tested \cup h.tested)

\* What every entity has.
StampReads ==
  Leaves({"id", "owner", "version", "createdAtEpochMs", "updatedAtEpochMs"})

-----------------------------------------------------------------------------
(* Transactions and cards.                                                 *)

\* unsealTransaction: the tests in a charge's detail, and without one of them.
DetailTestsButMinCharge ==
  Leaves({"transactedAtEpochMs", "settledAtEpochMs", "state",
          "continuationOfExistingCharge"})

DetailTests ==
  Leaves({"transactedAtEpochMs", "settledAtEpochMs", "state",
          "continuationOfExistingCharge"})
    \cup {<<"markup", "minCharge">>}

DetailHandling ==
  LET amounts == {"virtualCardAmount", "markupAmount", "fundingSourceAmount"}
  IN Handling(
       (amounts \X {"currency", "amount"})
         \cup ({"markup"} \X {"percent", "flat", "minCharge"})
         \cup Leaves({"fundingSourceId", "description"}) \cup DetailTests,
       DetailTests)

TransactionHandling ==
  LET tested == Leaves({"detail", "settledAtEpochMs", "declineReason"})
      own == Handling(
               StampReads
                 \cup Leaves({"sortDateEpochMs", "algorithm", "keyId", "cardId",
                              "sequenceId", "type", "transactedAtEpochMs",
                              "description"})
                 \cup ({"billedAmount", "transactedAmount"}
                         \X {"currency", "amount"})
                 \cup tested,
               tested)
  IN Both(own, Inside("detail", DetailHandling))

\* sealMetadata's counterpart; null metadata are left alone by the caller.
MetadataHandling ==
  Handling(Leaves({"algorithm", "base64EncodedSealedData", "keyId"}), {})

\* unsealVirtualCard, without the last transaction.
SealedCardHandling ==
  LET tested == Leaves({"alias", "billingAddress", "cancelledAtEpochMs",
                        "metadata"})
      own == Handling(
               StampReads
                 \cup Leaves({"algorithm", "keyId", "owners", "fundingSourceId",
                              "currency", "state", "activeToEpochMs", "last4",
                              "cardHolder", "pan", "csc"})
                 \cup ({"expiry"} \X {"mm", "yyyy"})
                 \cup tested,
               tested)
      address == Handling(
                   Leaves({"addressLine1", "addressLine2", "city", "state",
                           "postalCode", "country"}),
                   Leaves({"addressLine2"}))
  IN Both(own, Both(Inside("billingAddress", address),
                    Inside("metadata", MetadataHandling)))

CardHandling ==
  Both(Both(SealedCardHandling, Inside("lastTransaction", TransactionHandling)),
       Handling({}, {<<"lastTransaction">>}))

\* The card in a provisional card comes without its last transaction: the
\* document does not ask for it, and unsealVirtualCard takes it for absent.
ProvisionalCardHandling ==
  Both(Handling(StampReads
                  \cup Leaves({"clientRefId", "provisioningState", "card"}),
                Leaves({"card"})),
       Inside("card", SealedCardHandling))

-----------------------------------------------------------------------------
(* Funding sources.                                                        *)

CommonFundingSourceHandling ==
  LET velocity == Leaves({"maximum", "velocity"})
  IN Both(Handling(StampReads \cup Leaves({"__typename", "currency", "state",
                                           "flags", "transactionVelocity"}),
                   Leaves({"transactionVelocity"})),
          Inside("transactionVelocity", Handling(velocity, velocity)))

CreditCardHandling ==
  Both(CommonFundingSourceHandling,
       Handling(Leaves({"last4", "cardType", "network"}), {}))

\* unsealFundingSource: the name, and the logo if there is one.
InstitutionHandling ==
  LET sealed == Handling(Leaves({"plainTextType", "keyId", "algorithm",
                                 "base64EncodedSealedData"}), {})
  IN Both(Both(Inside("institutionName", sealed),
               Inside("institutionLogo", sealed)),
          Handling({}, Leaves({"institutionLogo"})))

BankAccountHandling ==
  Both(Both(CommonFundingSourceHandling, InstitutionHandling),
       Both(Handling(Leaves({"last4", "bankAccountType", "unfundedAmount"}),
                     Leaves({"unfundedAmount"})),
            Inside("unfundedAmount",
                   Handling(Leaves({"currency", "amount"}), {}))))

FundingSourceHandling ==
  Both(Inside("CreditCardFundingSource", CreditCardHandling),
       Inside("BankAccountFundingSource", BankAccountHandling))

ProvisionalFundingSourceHandling ==
  Handling(StampReads \cup Leaves({"state", "last4", "provisioningData"}),
           Leaves({"last4"}))

-----------------------------------------------------------------------------
(* Configuration and sandbox data.                                         *)

\* The limits, and three documents the service's operator writes.
VirtualCardsConfigHandling ==
  LET documents == {"fundingSourceClientConfiguration",
                    "clientApplicationsConfiguration", "pricingPolicy"}
      tested == Leaves(documents
                         \cup {"maxFundingSourcePendingVelocity",
                               "bankAccountFundingSourceCreationEnabled"})
  IN Handling(
       Leaves({"fundingSourceSupportInfo", "maxCardCreationVelocity",
               "maxFundingSourceFailureVelocity", "maxFundingSourceVelocity",
               "virtualCardCurrencies",
               "bankAccountFundingSourceExpendableEnabled"})
         \cup ({"maxTransactionAmount"} \X {"currency", "amount"})
         \cup ({"maxTransactionVelocity"} \X {"currency", "velocity"})
         \cup (documents \X {"data"}) \cup tested,
       tested)

SandboxPlaidDataHandling ==
  Handling({<<"accountMetadata", "accountId">>, <<"accountMetadata", "subtype">>,
            <<"publicToken">>},
           {<<"accountMetadata", "subtype">>})

-----------------------------------------------------------------------------
(* Answers.                                                                *)

\* A page of items, the token for the next page being passed on or left out.
PageHandling(h) ==
  Both(Inside("items", h), Handling(Leaves({"nextToken"}), Leaves({"nextToken"})))

\* An object that may be absent: the caller returns undefined.
MaybeAbsent(h) == Both(h, Handling({}, {<<>>}))

\* A member of a union is one type: its name is no field.
TypeNames == {<<"CreditCardFundingSource">>, <<"BankAccountFundingSource">>,
              <<"items", "CreditCardFundingSource">>,
              <<"items", "BankAccountFundingSource">>}

\* A field that is read but was not asked for.
Unasked(document, h) == h.reads \ (document.selection \cup TypeNames)

\* The null field n is read, or something inside it is, without a test.
Untested(h, n) ==
  /\ n \notin h.tested
  /\ \E p \in h.reads : IsPrefix(n, p)

Mishandled(document, h, nulls) ==
  \/ Unasked(document, h) # {}
  \/ \E n \in nulls : Untested(h, n)

===============================================================================
