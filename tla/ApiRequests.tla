----------------------------- MODULE ApiRequests -----------------------------
(***************************************************************************)
(* From the input of a public operation to the request the service gets:   *)
(* the document, the fields that are always sent, and what becomes of each *)
(* option the host may give.                                               *)
(*                                                                         *)
(* An option is a path, as a field of an answer is; a filter has parts.    *)
(* The use cases between the client and the services destructure and       *)
(* rename, so an option arrives only if every layer hands it on: `passes`  *)
(* maps the options that do to the fields they end up in.                  *)
(***************************************************************************)
EXTENDS GraphQLSchema

NoOption == [o \in {} |-> o]

\* Options that keep their name.
Same(S) == [o \in Leaves(S) |-> o]

\* A filter's transformer copies these parts, and what is below and, or, not.
FilterTransformer == {<<"filter", part>> : part \in {"id", "state", "and", "or", "not"}}

Paging == {"limit", "nextToken"}
Listed == [o \in FilterTransformer \cup Leaves(Paging \cup {"sortOrder"}) |-> o]

\* The one variable of the document holds an input of type t.
Mutate(document, t, sent, passes) ==
  [document |-> document, wrapped |-> TRUE, required |-> t.required,
   declared |-> Leaves(t.required \cup t.optional),
   sent |-> sent, passes |-> passes]

\* A query has its variables, the filter among them in parts.
Ask(document, filter, sent, passes) ==
  [document |-> document, wrapped |-> FALSE, required |-> document.required,
   declared |-> Leaves(document.variables) \cup {<<"filter", p>> : p \in filter},
   sent |-> sent, passes |-> passes]

-----------------------------------------------------------------------------
(* What the host may give besides what it must, by the types of the public *)
(* inputs.  cachePolicy, which most of them have, is no option of these:   *)
(* it is about where to look and no field of a request.                    *)

SetupFundingSourceInput == Leaves({"supportedProviders", "language"})
CompleteFundingSourceInput == Leaves({"updateCardFundingSource"})
RefreshFundingSourceInput == Leaves({"language"})

FilterInput == {<<"filter", part>> : part \in {"id", "state", "and", "or", "not"}}
ListTransactionsByCardIdAndTypeInput == Leaves({"limit", "nextToken"})
ListProvisionalCardsInput == Leaves({"limit", "nextToken"})
ListFundingSourcesInput ==
  FilterInput \cup Leaves({"sortOrder", "limit", "nextToken"})
ListProvisionalFundingSourcesInput ==
  FilterInput \cup Leaves({"sortOrder", "limit", "nextToken"})
ListVirtualCardsInput ==
  FilterInput \cup Leaves({"sortOrder", "limit", "nextToken"})
ListTransactionsInput ==
  Leaves({"limit", "nextToken", "dateRange", "sortOrder"})
ListTransactionsByCardIdInput ==
  Leaves({"limit", "nextToken", "dateRange", "sortOrder"})

ProvisionVirtualCardInput ==
  Leaves({"billingAddress", "clientRefId", "metadata", "alias"})
UpdateVirtualCardInput ==
  Leaves({"expectedCardVersion", "cardHolder", "billingAddress", "metadata",
          "alias"})

\* Properties of a card that null removes.
Removable == Leaves({"billingAddress", "metadata", "alias"})

-----------------------------------------------------------------------------
(* Keys.                                                                   *)

createPublicKey ==
  Mutate(CreatePublicKey, CreatePublicKeyInput,
         {"algorithm", "keyFormat", "keyId", "keyRingId", "publicKey"}, NoOption)

getPublicKey == Ask(GetPublicKey, {}, {"keyId", "keyFormats"}, NoOption)

getPublicKeys == Ask(GetPublicKeys, {}, {}, Same(Paging))

getKeyRing ==
  Ask(GetKeyRing, {}, {"keyRingId"}, Same({"limit", "nextToken", "keyFormats"}))

-----------------------------------------------------------------------------
(* Funding sources.                                                        *)

\* The use case takes type, currency, supportedProviders and applicationName.
setupFundingSource ==
  Mutate(SetupFundingSource, SetupFundingSourceRequest,
         {"currency", "type", "setupData"}, Same({"supportedProviders"}))

completeFundingSource ==
  Mutate(CompleteFundingSource, CompleteFundingSourceRequest,
         {"id", "completionData"}, Same({"updateCardFundingSource"}))

refreshFundingSource ==
  Mutate(RefreshFundingSource, RefreshFundingSourceRequest,
         {"id", "refreshData"}, Same({"language"}))

cancelFundingSource == Mutate(CancelFundingSource, IdInput, {"id"}, NoOption)

reviewUnfundedFundingSource ==
  Mutate(ReviewUnfundedFundingSource, IdInput, {"id"}, NoOption)

cancelProvisionalFundingSource ==
  Mutate(CancelProvisionalFundingSource, IdInput, {"id"}, NoOption)

getFundingSource == Ask(GetFundingSource, {}, {"id"}, NoOption)

listFundingSources ==
  Ask(ListFundingSources, FundingSourceFilterInput, {}, Listed)

listProvisionalFundingSources ==
  Ask(ListProvisionalFundingSources, ProvisionalFundingSourceFilterInput, {},
      Listed)

sandboxSetFundingSourceToRequireRefresh ==
  Mutate(SandboxSetFundingSourceToRequireRefresh,
         SandboxSetFundingSourceToRequireRefreshRequest, {"fundingSourceId"},
         NoOption)

onFundingSourceUpdate == Ask(OnFundingSourceUpdate, {}, {"owner"}, NoOption)

sandboxGetPlaidData ==
  Mutate(SandboxGetPlaidData, SandboxGetPlaidDataRequest,
         {"institutionId", "username"}, NoOption)

-----------------------------------------------------------------------------
(* Virtual cards.                                                          *)

\* clientRefId is drawn anew for every call, whatever the host gave.
provisionVirtualCard ==
  Mutate(ProvisionVirtualCard, CardProvisionRequest,
         {"cardHolder", "clientRefId", "currency", "fundingSourceId", "keyRingId",
          "ownerProofs"},
         Same({"alias", "billingAddress", "metadata"}))

updateVirtualCard ==
  Mutate(UpdateVirtualCard, CardUpdateRequest, {"id"},
         [o \in Leaves({"expectedCardVersion", "cardHolder", "alias",
                         "billingAddress", "metadata"}) |->
            IF o = <<"expectedCardVersion">> THEN <<"expectedVersion">> ELSE o])

cancelVirtualCard == Mutate(CancelVirtualCard, CardCancelRequest, {"id"}, NoOption)

getVirtualCard == Ask(GetCard, {}, {"id"}, NoOption)

listVirtualCards == Ask(ListCards, CardFilterInput, {}, Listed)

getProvisionalCard == Ask(GetProvisionalCard, {}, {"id"}, NoOption)

listProvisionalCards == Ask(ListProvisionalCards, {}, {}, Same(Paging))

-----------------------------------------------------------------------------
(* Transactions and configuration.                                         *)

getTransaction == Ask(GetTransaction, {}, {"id"}, NoOption)

listTransactions ==
  Ask(ListTransactions, {}, {}, Same(Paging \cup {"dateRange", "sortOrder"}))

listTransactionsByCardId ==
  Ask(ListTransactionsByCardId, {}, {"cardId"},
      Same(Paging \cup {"dateRange", "sortOrder"}))

listTransactionsByCardIdAndType ==
  Ask(ListTransactionsByCardIdAndType, {}, {"cardId", "transactionType"},
      Same(Paging))

getVirtualCardsConfig == Ask(GetVirtualCardsConfig, {}, {}, NoOption)

getFundingSourceClientConfiguration ==
  Ask(GetFundingSourceClientConfiguration, {}, {}, NoOption)

-----------------------------------------------------------------------------
(* Requests.                                                               *)

\* A variant that leaves null out, as JSON.stringify does undefined.
NullLeftOut(form) == IF form = "null" THEN "leftOut" ELSE form

\* sealMetadata and the other options of an update pass null on: it removes the
\* property, where leaving the option out would keep it.
FormSent(form) == form

\* The fields sent for the options given, which are pairs of an option and its
\* form, "value" or "null".
Fields(r, given) ==
  (Leaves(r.sent) \X {"value"})
    \cup {<<r.passes[g[1]], FormSent(g[2])>> :
            g \in {x \in given : x[1] \in DOMAIN r.passes}}

\* The service takes a request whose fields are declared, with the required
\* ones in it, under the one variable of the document if it has just one.
Accepted(r, fields) ==
  /\ \A f \in fields : f[1] \in r.declared
  /\ Leaves(r.required) \X {"value"} \subseteq fields
  /\ r.wrapped => r.document.variables = {"input"}

===============================================================================
