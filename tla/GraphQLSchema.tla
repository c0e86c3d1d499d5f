---------------------------- MODULE GraphQLSchema ----------------------------
(***************************************************************************)
(* What the types of the service's GraphQL schema (gen/graphqlTypes.ts)    *)
(* say of requests and answers: the fields of the input types, and the     *)
(* fields of an answer that may be null.  A path is written as in          *)
(* GraphQLDocuments.                                                       *)
(***************************************************************************)
EXTENDS GraphQLDocuments

\* An input type: fields that must be there and fields that may be left out.
InputType(required, optional) == [required |-> required, optional |-> optional]

-----------------------------------------------------------------------------
(* Input types.                                                            *)

CardCancelRequest == InputType({"id"}, {"keyId"})

CardProvisionRequest ==
  InputType({"cardHolder", "clientRefId", "currency", "fundingSourceId",
             "keyRingId", "ownerProofs"},
            {"alias", "billingAddress", "metadata"})

CardUpdateRequest ==
  InputType({"id"}, {"alias", "billingAddress", "cardHolder",
                     "expectedVersion", "keyId", "metadata"})

CompleteFundingSourceRequest ==
  InputType({"completionData", "id"}, {"updateCardFundingSource"})

CreatePublicKeyInput ==
  InputType({"algorithm", "keyId", "keyRingId", "publicKey"}, {"keyFormat"})

IdInput == InputType({"id"}, {})

RefreshFundingSourceRequest == InputType({"id", "refreshData"}, {"language"})

SandboxGetPlaidDataRequest == InputType({"institutionId", "username"}, {})

SandboxSetFundingSourceToRequireRefreshRequest ==
  InputType({"fundingSourceId"}, {})

SetupFundingSourceRequest ==
  InputType({"currency", "type"},
            {"language", "setupData", "supportedProviders"})

\* The filters of the three lists that take one.
FundingSourceFilterInput == {"and", "id", "not", "or", "state"}
ProvisionalFundingSourceFilterInput == FundingSourceFilterInput
CardFilterInput == {"and", "id", "keyId", "not", "or", "state"}

-----------------------------------------------------------------------------
(* What may be null in an answer.                                          *)

\* S, found below field f.
Nested(f, S) == {<<f>> \o p : p \in S}

TransactionVelocityNulls ==
  Leaves({"transactionVelocity"})
    \cup Nested("transactionVelocity", Leaves({"maximum", "velocity"}))

FundingSourceNulls ==
  On("CreditCardFundingSource", TransactionVelocityNulls)
    \cup On("BankAccountFundingSource",
            TransactionVelocityNulls
              \cup Leaves({"institutionLogo", "unfundedAmount"}))

ProvisionalFundingSourceNulls == Leaves({"last4"})

PublicKeyNulls == Leaves({"keyFormat"})

SealedTransactionDetailNulls ==
  Leaves({"continuationOfExistingCharge", "settledAtEpochMs", "state",
          "transactedAtEpochMs"})
    \cup {<<"markup", "minCharge">>}

SealedTransactionNulls ==
  Leaves({"declineReason", "detail", "settledAtEpochMs"})
    \cup Nested("detail", SealedTransactionDetailNulls)

SealedCardNulls ==
  Leaves({"alias", "billingAddress", "cancelledAtEpochMs", "lastTransaction",
          "metadata"})
    \cup Nested("billingAddress", Leaves({"addressLine2"}))
    \cup Nested("lastTransaction", SealedTransactionNulls)

ProvisionalCardNulls == Leaves({"card"}) \cup Nested("card", SealedCardNulls)

VirtualCardsConfigNulls ==
  Leaves({"bankAccountFundingSourceCreationEnabled",
          "clientApplicationsConfiguration", "fundingSourceClientConfiguration",
          "maxFundingSourcePendingVelocity", "pricingPolicy"})

SandboxGetPlaidDataNulls == Nested("accountMetadata", Leaves({"subtype"}))

\* A page of items in which the paths S may be null.
PageNulls(S) == Leaves({"nextToken"}) \cup Nested("items", S)

\* The roots that may be null as a whole, at the empty path: those of Query that
\* look up one thing, which may not exist, and that of Subscription.  The roots of
\* Mutation never are.
Optional(S) == {<<>>} \cup S

===============================================================================
