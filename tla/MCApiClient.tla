----------------------------- MODULE MCApiClient -----------------------------
(* ApiClient with two funding sources and two key pairs.                    *)
EXTENDS ApiClient

\* A card's data with and without a type, a bank account's, and data of a
\* version that the SDK does not know.
Offers ==
  {Data("stripe", 1, "CREDIT_CARD", StripeParts),
   Data("stripe", 1, Absent, StripeParts),
   Link,
   Data("checkout", 2, "BANK_ACCOUNT", LinkParts)}

AllCalls == DOMAIN Calls
OnlySetup == {"setupFundingSource"}

Nothing == {}
LanguageAndReference ==
  {<<"setupFundingSource", <<"language">>>>,
   <<"provisionVirtualCard", <<"clientRefId">>>>}

Symmetry == Permutations(Ids) \cup Permutations(Keys)

===============================================================================
