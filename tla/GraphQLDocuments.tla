-------------------------- MODULE GraphQLDocuments --------------------------
(***************************************************************************)
(* The GraphQL documents the SDK sends (gen/graphqlTypes.ts): what each    *)
(* fragment, query, mutation and subscription asks of the service.         *)
(*                                                                         *)
(* A selection is the set of the paths it asks for, a path the sequence of *)
(* the names of its fields.  The selection on one member of a union starts *)
(* with the name of that member, so that the paths of different members    *)
(* stay apart.  A fragment is the selection it spreads; a document repeats *)
(* the text of the fragments it uses, here by reference.                   *)
(***************************************************************************)
EXTENDS Sequences

\* The scalar fields F.
Leaves(F) == {<<f>> : f \in F}

\* The object in field f, of which S is asked.
Below(f, S) == {<<f>>} \cup {<<f>> \o p : p \in S}

\* S, asked of the members of a union that are of the type t.
On(t, S) == {<<t>> \o p : p \in S}

\* One page of a list whose items are asked for S.
Page(S) == Below("items", S) \cup Leaves({"nextToken"})

\* A document: its variables, those it requires, the field of the root type it
\* asks for and the selection on what that field holds.
Query(root, required, optional, S) ==
  [variables |-> required \cup optional, required |-> required,
   root |-> root, selection |-> S]

\* The mutations take all they need in one required variable.
Mutation(root, S) == Query(root, {"input"}, {}, S)

-----------------------------------------------------------------------------
(* Fragments.                                                              *)

Stamps == Leaves({"id", "owner", "version", "createdAtEpochMs",
                  "updatedAtEpochMs"})

PublicKeyFragment ==
  Stamps \cup Leaves({"keyId", "keyRingId", "algorithm", "keyFormat",
                      "publicKey"})

PaginatedPublicKeyFragment == Page(PublicKeyFragment)

ProvisionalFundingSourceFragment ==
  Stamps \cup Leaves({"provisioningData", "state", "last4"})

VelocityFields == Below("transactionVelocity", Leaves({"maximum", "velocity"}))

CreditCardFundingSourceFragment ==
  Stamps \cup VelocityFields
    \cup Leaves({"__typename", "state", "flags", "currency", "last4",
                 "network", "cardType"})

SealedAttributeFragment ==
  Leaves({"keyId", "algorithm", "plainTextType", "base64EncodedSealedData"})

BankAccountFundingSourceFragment ==
  Stamps \cup VelocityFields
    \cup Leaves({"__typename", "state", "flags", "currency", "bankAccountType",
                 "last4"})
    \cup Below("authorization",
               Leaves({"language", "content", "contentType", "signature",
                       "keyId", "algorithm", "data"}))
    \cup Below("institutionName", SealedAttributeFragment)
    \cup Below("institutionLogo", SealedAttributeFragment)
    \cup Below("unfundedAmount", Leaves({"currency", "amount"}))

OwnerFragment == Leaves({"id", "issuer"})

SealedAddressAttributeFragment ==
  Leaves({"addressLine1", "addressLine2", "city", "state", "postalCode",
          "country"})

SealedExpiryAttributeFragment == Leaves({"mm", "yyyy"})

SealedCardFragment ==
  Stamps
    \cup Leaves({"algorithm", "keyId", "keyRingId", "fundingSourceId",
                 "currency", "state", "activeToEpochMs", "cancelledAtEpochMs",
                 "last4", "cardHolder", "alias", "pan", "csc"})
    \cup Below("owners", OwnerFragment)
    \cup Below("billingAddress", SealedAddressAttributeFragment)
    \cup Below("expiry", SealedExpiryAttributeFragment)
    \cup Below("metadata", SealedAttributeFragment)

ProvisionalCardFragment ==
  Stamps \cup Leaves({"clientRefId", "provisioningState"})
    \cup Below("card", SealedCardFragment)

SealedCurrencyAmountAttributeFragment == Leaves({"currency", "amount"})

SealedTransactionFragment ==
  LET Amount(f) == Below(f, SealedCurrencyAmountAttributeFragment) IN
  Stamps
    \cup Leaves({"sortDateEpochMs", "algorithm", "keyId", "cardId",
                 "sequenceId", "type", "transactedAtEpochMs",
                 "settledAtEpochMs", "description", "declineReason"})
    \cup Amount("billedAmount") \cup Amount("transactedAmount")
    \cup Below("detail",
               Amount("virtualCardAmount")
                 \cup Below("markup", Leaves({"percent", "flat", "minCharge"}))
                 \cup Amount("markupAmount") \cup Amount("fundingSourceAmount")
                 \cup Leaves({"transactedAtEpochMs", "settledAtEpochMs",
                              "fundingSourceId", "description", "state",
                              "continuationOfExistingCharge"}))

SealedCardWithLastTransactionFragment ==
  SealedCardFragment \cup Below("lastTransaction", SealedTransactionFragment)

FundingSourceSupportDetailFragment == Leaves({"cardType"})

FundingSourceSupportInfoFragment ==
  Leaves({"providerType", "fundingSourceType", "network"})
    \cup Below("detail", FundingSourceSupportDetailFragment)

VirtualCardsConfigFragment ==
  Leaves({"maxFundingSourceVelocity", "maxFundingSourceFailureVelocity",
          "maxFundingSourcePendingVelocity", "maxCardCreationVelocity",
          "virtualCardCurrencies", "bankAccountFundingSourceExpendableEnabled",
          "bankAccountFundingSourceCreationEnabled"})
    \cup Below("maxTransactionVelocity", Leaves({"currency", "velocity"}))
    \cup Below("maxTransactionAmount", Leaves({"currency", "amount"}))
    \cup Below("fundingSourceSupportInfo", FundingSourceSupportInfoFragment)
    \cup UNION {Below(f, Leaves({"data"})) :
                  f \in {"fundingSourceClientConfiguration",
                         "clientApplicationsConfiguration", "pricingPolicy"}}

\* A funding source is a credit card or a bank account.
FundingSourceSelection ==
  On("CreditCardFundingSource", CreditCardFundingSourceFragment)
    \cup On("BankAccountFundingSource", BankAccountFundingSourceFragment)

-----------------------------------------------------------------------------
(* Mutations.                                                              *)

CreatePublicKey ==
  Mutation("createPublicKeyForVirtualCards", PublicKeyFragment)

SetupFundingSource ==
  Mutation("setupFundingSource", ProvisionalFundingSourceFragment)

CompleteFundingSource ==
  Mutation("completeFundingSource", FundingSourceSelection)

RefreshFundingSource ==
  Mutation("refreshFundingSource", FundingSourceSelection)

CancelFundingSource ==
  Mutation("cancelFundingSource", FundingSourceSelection)

CancelProvisionalFundingSource ==
  Mutation("cancelProvisionalFundingSource", ProvisionalFundingSourceFragment)

ReviewUnfundedFundingSource ==
  Mutation("reviewUnfundedFundingSource", FundingSourceSelection)

ProvisionVirtualCard == Mutation("cardProvision", ProvisionalCardFragment)

UpdateVirtualCard ==
  Mutation("updateCard", SealedCardWithLastTransactionFragment)

CancelVirtualCard ==
  Mutation("cancelCard", SealedCardWithLastTransactionFragment)

SandboxSetFundingSourceToRequireRefresh ==
  Mutation("sandboxSetFundingSourceToRequireRefresh", FundingSourceSelection)

-----------------------------------------------------------------------------
(* Queries.                                                                *)

GetVirtualCardsConfig ==
  Query("getVirtualCardsConfig", {}, {}, VirtualCardsConfigFragment)

GetPublicKey ==
  Query("getPublicKeyForVirtualCards", {"keyId"}, {"keyFormats"},
        PublicKeyFragment)

GetPublicKeys ==
  Query("getPublicKeysForVirtualCards", {}, {"limit", "nextToken"},
        PaginatedPublicKeyFragment)

GetKeyRing ==
  Query("getKeyRingForVirtualCards", {"keyRingId"},
        {"limit", "nextToken", "keyFormats"}, PaginatedPublicKeyFragment)

GetFundingSourceClientConfiguration ==
  Query("getFundingSourceClientConfiguration", {}, {}, Leaves({"data"}))

GetFundingSource ==
  Query("getFundingSource", {"id"}, {}, FundingSourceSelection)

Listing == {"filter", "sortOrder", "limit", "nextToken"}

ListFundingSources ==
  Query("listFundingSources", {}, Listing, Page(FundingSourceSelection))

ListProvisionalFundingSources ==
  Query("listProvisionalFundingSources", {}, Listing,
        Page(ProvisionalFundingSourceFragment))

GetProvisionalCard ==
  Query("getProvisionalCard", {"id"}, {}, ProvisionalCardFragment)

ListProvisionalCards ==
  Query("listProvisionalCards", {}, {"limit", "nextToken"},
        Page(ProvisionalCardFragment))

GetCard ==
  Query("getCard", {"id"}, {"keyId"}, SealedCardWithLastTransactionFragment)

ListCards ==
  Query("listCards", {}, Listing, Page(SealedCardWithLastTransactionFragment))

GetTransaction ==
  Query("getTransaction", {"id"}, {"keyId"}, SealedTransactionFragment)

ListTransactions ==
  Query("listTransactions2", {}, {"limit", "nextToken", "dateRange", "sortOrder"},
        Page(SealedTransactionFragment))

ListTransactionsByCardId ==
  Query("listTransactionsByCardId2", {"cardId"},
        {"limit", "nextToken", "dateRange", "sortOrder"},
        Page(SealedTransactionFragment))

ListTransactionsByCardIdAndType ==
  Query("listTransactionsByCardIdAndType", {"cardId", "transactionType"},
        {"limit", "nextToken"}, Page(SealedTransactionFragment))

SandboxGetPlaidData ==
  Query("sandboxGetPlaidData", {"input"}, {},
        Leaves({"publicToken"})
          \cup Below("accountMetadata", Leaves({"accountId", "subtype"})))

-----------------------------------------------------------------------------
(* The subscription.                                                       *)

OnFundingSourceUpdate ==
  Query("onFundingSourceUpdate", {"owner"}, {}, FundingSourceSelection)

===============================================================================
