------------------------------ MODULE ApiErrors ------------------------------
(***************************************************************************)
(* How a request that failed is reported: performQuery and performMutation *)
(* of the API client, ErrorTransformer, and the decoders of the data a     *)
(* provider puts into an error.                                            *)
(*                                                                         *)
(* The code of an error is written as the class the host should see; the   *)
(* two that the service names otherwise keep the service's name.           *)
(***************************************************************************)
EXTENDS ProviderData, TLC

\* ErrorTransformer: the codes it knows, and their classes.
ClassNames ==
  {"FundingSourceStateError", "ProvisionalFundingSourceNotFoundError",
   "FundingSourceNotActiveError", "FundingSourceNotFoundError",
   "FundingSourceCompletionDataInvalidError", "DuplicateFundingSourceError",
   "UnacceptableFundingSourceError", "CardNotFoundError", "CardStateError",
   "VelocityExceededError", "IdentityVerificationNotVerifiedError"}
OtherNames ==
  [VersionMismatchError |-> "DynamoDB:ConditionalCheckFailedException",
   FundingSourceNotSetupError |-> "FundingSourceNotSetupErrorCode"]

ErrorClass ==
  [c \in ClassNames \cup {OtherNames[n] : n \in DOMAIN OtherNames} |->
     IF c \in ClassNames THEN c
     ELSE CHOOSE n \in DOMAIN OtherNames : OtherNames[n] = c]

\* mapGraphQLToClientError of sudo-common, for the codes left to it.
CommonErrors ==
  {"InsufficientEntitlementsError", "AccountLockedError", "ServiceError"}
MapGraphQLToClientError(code) ==
  IF code \in CommonErrors THEN code ELSE "UnknownGraphQLError"

Interaction == "FundingSourceRequiresUserInteractionError"
Codes == DOMAIN ErrorClass \cup CommonErrors \cup {Interaction}

-----------------------------------------------------------------------------
(* Replies.                                                                *)

\* Where the client finds the error: in the result, or in what the call to the
\* GraphQL client threw, in its list of errors or as its own type.  An error
\* that has no type has the code as its message, and no further information.
Forms == {"result", "thrownList", "thrownType", "resultUntyped"}
Typed(form) == form # "resultUntyped"

\* A reply: an answer, an error of the service, or none of these.
NoInfo == Data("none", 0, Absent, {})
Reply(kind, code, form, info) ==
  [kind |-> kind, code |-> code, form |-> form, info |-> info]
Plain(kind) == Reply(kind, "none", "none", NoInfo)

Answered == Plain("data")
Refused(code, form, info) == Reply("error", code, form, info)

\* No answer that says what the service did: a network error, an exception of
\* another kind, a result without data.
Unanswered == {Plain("network"), Plain("exception"), Plain("noData")}

\* A variant that leaves the user's interaction to sudo-common.
ToClientErrorWithoutInteraction(r) ==
  IF r.code \in DOMAIN ErrorClass THEN ErrorClass[r.code]
  ELSE MapGraphQLToClientError(r.code)

\* ErrorTransformer.toClientError.
ToClientError(r) ==
  IF r.code \in DOMAIN ErrorClass THEN ErrorClass[r.code]
  ELSE IF r.code = Interaction
  THEN IF Typed(r.form) /\ DecodeInteraction(r.info) # Undecodable
       THEN Interaction ELSE "FatalError"
  ELSE IF Typed(r.form) THEN MapGraphQLToClientError(r.code)
  ELSE "UnknownGraphQLError"

\* A variant that takes every failure but the service's errors for transient.
MapFailuresToServiceError(r) ==
  IF r.kind = "error" THEN ToClientError(r) ELSE "ServiceError"

\* performQuery and performMutation: the class of error for a reply that is
\* not an answer.
UnansweredClass ==
  [network |-> "RequestFailedError", exception |-> "UnknownGraphQLError",
   noData |-> "FatalError"]

MapGraphQLCallError(r) ==
  IF r.kind = "error" THEN ToClientError(r) ELSE UnansweredClass[r.kind]

-----------------------------------------------------------------------------
(* Documentation.                                                          *)

\* Errors any operation may report, by the comment on SudoVirtualCardsClient.
AnyDocumented == {"NotSignedInError", "AccountLockedError", "ServiceError"}

\* Errors documented for an operation besides these.
Documented ==
  [setupFundingSource |->
     {"InsufficientEntitlementsError", "VelocityExceededError"},
   completeFundingSource |->
     {"DuplicateFundingSourceError", "FundingSourceCompletionDataInvalidError",
      "IdentityVerificationNotVerifiedError",
      "ProvisionalFundingSourceNotFoundError", "UnacceptableFundingSourceError",
      Interaction},
   refreshFundingSource |->
     {"FundingSourceNotFoundError", "FundingSourceStateError",
      "UnacceptableFundingSourceError", Interaction},
   getFundingSource |-> {"FundingSourceNotFoundError"},
   cancelFundingSource |-> {"FundingSourceNotFoundError"},
   reviewUnfundedFundingSource |-> {"FundingSourceNotFoundError"},
   cancelProvisionalFundingSource |-> {"FundingSourceNotFoundError"},
   provisionVirtualCard |->
     {"FundingSourceNotFoundError", "FundingSourceNotActiveError",
      "InsufficientEntitlementsError", "VelocityExceededError"},
   updateVirtualCard |-> {"CardNotFoundError", "CardStateError"},
   cancelVirtualCard |-> {"CardNotFoundError"}]

DocumentedErrors(op) ==
  AnyDocumented
    \cup (IF op \in DOMAIN Documented THEN Documented[op] ELSE {})

===============================================================================
