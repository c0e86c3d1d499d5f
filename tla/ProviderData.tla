----------------------------- MODULE ProviderData -----------------------------
(***************************************************************************)
(* What a funding source provider, the service and the host exchange       *)
(* through the SDK: provisioning data, completion data, refresh data and   *)
(* interaction data, each JSON in Base64.                                  *)
(*                                                                         *)
(* Data are a record of the discriminators the codecs look at and of the   *)
(* provider's own parts that are there; the parts' contents are passed     *)
(* through.  What is no Base64, no JSON or no record is Garbled.           *)
(***************************************************************************)
EXTENDS Naturals

Absent == "absent"

Data(provider, version, type, parts) ==
  [provider |-> provider, version |-> version, type |-> type, parts |-> parts]

Garbled == Data("garbled", 0, Absent, {})
Undecodable == Data("undecodable", 0, Absent, {})

StripeParts == {"client_secret", "intent"}
LinkParts == {"plaidLinkToken", "authorizationText"}

-----------------------------------------------------------------------------
(* Provisioning data.                                                      *)

\* A variant that insists on the type.
StripeCodecTyped(d) ==
  /\ d.provider = "stripe" /\ d.version = 1 /\ d.type = "CREDIT_CARD"
  /\ StripeParts \subseteq d.parts

\* The type was not originally included; if present it must be CREDIT_CARD.
StripeCodec(d) ==
  /\ d.provider = "stripe" /\ d.version = 1
  /\ d.type \in {Absent, "CREDIT_CARD"}
  /\ StripeParts \subseteq d.parts

CheckoutCodec(d) ==
  /\ d.provider = "checkout" /\ d.version = 1 /\ d.type = "BANK_ACCOUNT"
  /\ LinkParts \subseteq d.parts

\* decodeProvisionalFundingSourceProvisioningData, which the services and then
\* the client apply.  Undecodable stands for the FatalError it throws.
DecodeProvisioning(d) ==
  IF StripeCodec(d) THEN Data("stripe", d.version, "CREDIT_CARD", StripeParts)
  ELSE IF CheckoutCodec(d)
  THEN Data("checkout", d.version, "BANK_ACCOUNT", LinkParts)
  ELSE Undecodable

-----------------------------------------------------------------------------
(* Interaction data.                                                       *)

\* Only the data of a bank account are understood here, whatever the operation.
InteractionCodec(d) ==
  /\ d.provider = "checkout" /\ d.version = 1 /\ d.type = "BANK_ACCOUNT"
  /\ LinkParts \subseteq d.parts

DecodeInteraction(d) ==
  IF InteractionCodec(d) THEN Data("checkout", 1, "BANK_ACCOUNT", LinkParts)
  ELSE Undecodable

-----------------------------------------------------------------------------
(* Completion and refresh data.                                            *)

\* A variant that insists on the type.
IsTypedStripeCardCompletion(c) == c.provider = "stripe" /\ c.type = "CREDIT_CARD"

\* The shapes the service layer tells apart.
IsStripeCardCompletion(c) ==
  c.provider = "stripe" /\ c.type \in {Absent, "CREDIT_CARD"}
IsCheckoutBankAccountCompletion(c) ==
  c.provider = "checkout" /\ c.type = "BANK_ACCOUNT"
IsCheckoutBankAccountRefresh(r) ==
  r.provider = "checkout" /\ r.type = "BANK_ACCOUNT"

\* The type is CREDIT_CARD unless the host says otherwise.
TypeOrDefault(c) == IF c.type = Absent THEN "CREDIT_CARD" ELSE c.type

\* A variant: a missing key is not looked for.
NeedsNoKey(c) == FALSE

\* A bank account's data name the key pair, and carry a signature made with it.
NeedsKey(c) == IsCheckoutBankAccountCompletion(c)

EncodeCompletion(c) ==
  IF IsStripeCardCompletion(c)
  THEN Data(c.provider, 1, TypeOrDefault(c), {"payment_method"})
  ELSE IF IsCheckoutBankAccountCompletion(c)
  THEN Data(c.provider, 1, TypeOrDefault(c),
            {"keyId", "public_token", "account_id", "institution_id",
             "authorizationTextSignature"})
  ELSE Undecodable

\* Only bank accounts are refreshed; the text is signed if the host has it.
EncodeRefresh(r) ==
  IF IsCheckoutBankAccountRefresh(r)
  THEN Data(r.provider, 1, TypeOrDefault(r),
            {"keyId", "applicationName"}
              \cup IF r.text THEN {"authorizationTextSignature"} ELSE {})
  ELSE Undecodable

-----------------------------------------------------------------------------
(* The host, and the service.                                              *)

\* What a host gives back that was told the data p: the provider's name, and
\* the type, which it may leave out of a card's.
CompletionsFor(p) ==
  {[provider |-> p.provider, type |-> t] :
     t \in {p.type} \cup (IF p.provider = "stripe" THEN {Absent} ELSE {})}

\* The service takes the completion e of a source it set up with data d.
Matches(e, d) ==
  /\ e.provider = d.provider /\ e.version = d.version
  /\ e.type = (IF d.type = Absent THEN "CREDIT_CARD" ELSE d.type)
  /\ IF e.provider = "stripe" THEN "payment_method" \in e.parts
     ELSE {"keyId", "public_token", "account_id", "institution_id",
           "authorizationTextSignature"} \subseteq e.parts

===============================================================================
