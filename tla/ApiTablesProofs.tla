--------------------------- MODULE ApiTablesProofs ---------------------------
(***************************************************************************)
(* Theorems about what every operation sends, asks for and reads: whatever *)
(* options the host gives and whatever is null in the answer.              *)
(***************************************************************************)
EXTENDS ApiClientProofs, SequenceTheorems

-----------------------------------------------------------------------------
(* Selections and what is read of them.                                    *)

LEMMA OneName ==
  ASSUME NEW S, NEW f \in S
  PROVE  <<f>> \in Seq(S) /\ Len(<<f>>) = 1 /\ <<f>>[1] = f
OBVIOUS

LEMMA TwoNames ==
  ASSUME NEW f, NEW g
  PROVE  <<f>> \o <<g>> = <<f, g>>
<1> DEFINE S == {f, g}
           t == <<f>> \o <<g>>
           u == <<f, g>>
<1>1. f \in S /\ g \in S
  OBVIOUS
<1> HIDE DEF S
<1>2. u \in Seq(S) /\ Len(u) = 2 /\ u[1] = f /\ u[2] = g
  BY <1>1
<1>3. t \in Seq(S) /\ Len(t) = 2 /\ t[1] = f /\ t[2] = g
  BY <1>1, OneName, ConcatProperties
<1> HIDE DEF t, u
<1>4. \A i \in 1 .. Len(t) : t[i] = u[i]
  BY <1>2, <1>3
<1>5. t = u
  BY <1>2, <1>3, <1>4, SeqEqual
<1>6. QED  BY <1>5 DEF t, u

\* What is read of an object is below it.
LEMMA ReadBelow ==
  ASSUME NEW f, NEW S, NEW T, NEW h, h.reads \subseteq S \cup T
  PROVE  Inside(f, h).reads \subseteq Below(f, S) \cup Nested(f, T)
BY DEF Inside, Handling, Below, Nested

LEMMA BothParts ==
  ASSUME NEW g, NEW h
  PROVE  /\ Both(g, h).reads = g.reads \cup h.reads
         /\ Both(g, h).tested = g.tested \cup h.tested
BY DEF Both, Handling

LEMMA InsideParts ==
  ASSUME NEW f, NEW h
  PROVE  /\ Inside(f, h).reads = {<<f>>} \cup Nested(f, h.reads)
         /\ Inside(f, h).tested = Nested(f, h.tested)
BY DEF Inside, Handling

LEMMA HandlingParts ==
  ASSUME NEW r, NEW t
  PROVE  Handling(r, t).reads = r /\ Handling(r, t).tested = t
BY DEF Handling

LEMMA NestedGrows ==
  ASSUME NEW f, NEW S, NEW T, S \subseteq T
  PROVE  Nested(f, S) \subseteq Nested(f, T)
BY DEF Nested

LEMMA LeavesGrow ==
  ASSUME NEW S, NEW T, S \subseteq T
  PROVE  Leaves(S) \subseteq Leaves(T)
BY DEF Leaves

LEMMA LeavesJoin ==
  ASSUME NEW S, NEW T
  PROVE  Leaves(S) \cup Leaves(T) = Leaves(S \cup T)
BY DEF Leaves

LEMMA PairsBelow ==
  ASSUME NEW F, NEW S, NEW T, \A f \in F : Below(f, Leaves(S)) \subseteq T
  PROVE  F \X S \subseteq T
<1>1. ASSUME NEW f \in F, NEW part \in S
      PROVE  <<f, part>> \in T
  BY TwoNames DEF Below, Leaves
<1>2. QED  BY <1>1

\* The types of a funding source, which a path names like fields.
Members == {<<"CreditCardFundingSource">>, <<"BankAccountFundingSource">>}

\* Whatever is read was asked for, and whatever may be null is tested or not read.
Suits(S, h, N) ==
  h.reads \subseteq S \cup TypeNames /\ \A n \in N : ~Untested(h, n)

Sound(e) ==
  \A n \in {{}} \cup {{m} : m \in e.nulls} :
    ~Mishandled(e.request.document, e.handling, n)

\* So it is as long as there is an answer at all.
SoundUnlessAbsent(e) ==
  \A n \in {{}} \cup {{m} : m \in e.nulls \ {<<>>}} :
    ~Mishandled(e.request.document, e.handling, n)

LEMMA SuitableIsSound ==
  ASSUME NEW request, NEW o, NEW h, NEW N,
         Suits(request.document.selection, h, N)
  PROVE  Sound(Entry(request, o, h, N))
BY DEF Suits, Sound, Entry, Mishandled, Unasked

LEMMA SuitableUnlessAbsent ==
  ASSUME NEW request, NEW o, NEW h, NEW N,
         Suits(request.document.selection, h, N)
  PROVE  SoundUnlessAbsent(Entry(request, o, h, Optional(N)))
BY DEF Suits, SoundUnlessAbsent, Entry, Mishandled, Unasked, Optional

LEMMA TestedSuits ==
  ASSUME NEW S, NEW h, NEW N, h.reads \subseteq S \cup Members, N \subseteq h.tested
  PROVE  Suits(S, h, N)
BY DEF Suits, Members, TypeNames, Untested

LEMMA PageSuits ==
  ASSUME NEW S, NEW h, NEW N, h.reads \subseteq S \cup Members, N \subseteq h.tested
  PROVE  Suits(Page(S), PageHandling(h), PageNulls(N))
<1>1. Nested("items", Members) \subseteq TypeNames
  BY TwoNames DEF Nested, Members, TypeNames
<1>2. Inside("items", h).reads \subseteq Below("items", S) \cup TypeNames
  BY <1>1, ReadBelow
<1>3. PageNulls(N) \subseteq PageHandling(h).tested
  BY NestedGrows, BothParts, InsideParts, HandlingParts DEF PageNulls, PageHandling
<1>4. QED
  BY <1>2, <1>3, BothParts, HandlingParts DEF Suits, Untested, Page, PageHandling

LEMMA AbsentSuits ==
  ASSUME NEW S, NEW h, NEW N, Suits(S, h, N)
  PROVE  Suits(S, MaybeAbsent(h), Optional(N))
BY BothParts, HandlingParts DEF Suits, Untested, MaybeAbsent, Optional

-----------------------------------------------------------------------------
(* The kinds of objects.                                                   *)

SealedDetail ==
  Below("virtualCardAmount", SealedCurrencyAmountAttributeFragment)
    \cup Below("markup", Leaves({"percent", "flat", "minCharge"}))
    \cup Below("markupAmount", SealedCurrencyAmountAttributeFragment)
    \cup Below("fundingSourceAmount", SealedCurrencyAmountAttributeFragment)
    \cup Leaves({"transactedAtEpochMs", "settledAtEpochMs", "fundingSourceId",
                "description", "state", "continuationOfExistingCharge"})

LEMMA DetailKind ==
  /\ DetailHandling.reads \subseteq SealedDetail
  /\ SealedTransactionDetailNulls \subseteq DetailHandling.tested
<1>1. {"virtualCardAmount", "markupAmount", "fundingSourceAmount"}
        \X {"currency", "amount"} \subseteq SealedDetail
  <2>1. \A a \in {"virtualCardAmount", "markupAmount", "fundingSourceAmount"} :
          Below(a, Leaves({"currency", "amount"})) \subseteq SealedDetail
    BY DEF SealedDetail, SealedCurrencyAmountAttributeFragment
  <2>2. QED  BY <2>1, PairsBelow
<1>2. {"markup"} \X {"percent", "flat", "minCharge"} \subseteq SealedDetail
  <2>1. \A a \in {"markup"} : Below(a, Leaves({"percent", "flat", "minCharge"}))
                               \subseteq SealedDetail
    BY DEF SealedDetail
  <2>2. QED  BY <2>1, PairsBelow
<1>3. /\ Leaves({"fundingSourceId", "description"}) \subseteq SealedDetail
      /\ Leaves({"transactedAtEpochMs", "settledAtEpochMs", "state",
                 "continuationOfExistingCharge"}) \subseteq SealedDetail
  BY LeavesGrow DEF SealedDetail
<1>4. <<"markup", "minCharge">> \in SealedDetail
  BY <1>2
<1>5. DetailTests \subseteq SealedDetail
  BY <1>3, <1>4 DEF DetailTests
<1>6. DetailHandling.reads \subseteq SealedDetail
  BY <1>1, <1>2, <1>3, <1>5, HandlingParts DEF DetailHandling
<1>7. DetailHandling.tested = DetailTests
  BY HandlingParts DEF DetailHandling
<1>8. SealedTransactionDetailNulls \subseteq DetailTests
  BY DEF SealedTransactionDetailNulls, DetailTests, Leaves
<1>9. QED  BY <1>6, <1>7, <1>8

LEMMA StampKind == StampReads = Stamps
BY DEF StampReads, Stamps

LEMMA TransactionKind ==
  /\ TransactionHandling.reads \subseteq SealedTransactionFragment
  /\ SealedTransactionNulls \subseteq TransactionHandling.tested
<1>1. Inside("detail", DetailHandling).reads \subseteq SealedTransactionFragment
  <2>1. Inside("detail", DetailHandling).reads
          \subseteq Below("detail", SealedDetail) \cup Nested("detail", {})
    BY DetailKind, ReadBelow
  <2>2. Nested("detail", {}) = {}
    BY DEF Nested
  <2>3. Below("detail", SealedDetail) \subseteq SealedTransactionFragment
    BY DEF SealedTransactionFragment, SealedDetail
  <2>4. QED  BY <2>1, <2>2, <2>3
<1>2. {"billedAmount", "transactedAmount"} \X {"currency", "amount"}
        \subseteq SealedTransactionFragment
  <2>1. \A a \in {"billedAmount", "transactedAmount"} :
          Below(a, Leaves({"currency", "amount"})) \subseteq SealedTransactionFragment
    BY DEF SealedTransactionFragment, SealedCurrencyAmountAttributeFragment
  <2>2. QED  BY <2>1, PairsBelow
<1>3. /\ StampReads \subseteq SealedTransactionFragment
      /\ Leaves({"sortDateEpochMs", "algorithm", "keyId", "cardId", "sequenceId",
                 "type", "transactedAtEpochMs", "description"})
           \subseteq SealedTransactionFragment
      /\ Leaves({"settledAtEpochMs", "declineReason"}) \subseteq SealedTransactionFragment
  BY StampKind, LeavesGrow DEF SealedTransactionFragment
<1>4. <<"detail">> \in SealedTransactionFragment
  BY <1>1, InsideParts
<1>5. Leaves({"detail", "settledAtEpochMs", "declineReason"})
        \subseteq SealedTransactionFragment
  BY <1>3, <1>4 DEF Leaves
<1>6. /\ TransactionHandling.reads =
           StampReads
             \cup Leaves({"sortDateEpochMs", "algorithm", "keyId", "cardId",
                         "sequenceId", "type", "transactedAtEpochMs", "description"})
             \cup ({"billedAmount", "transactedAmount"} \X {"currency", "amount"})
             \cup Leaves({"detail", "settledAtEpochMs", "declineReason"})
             \cup Inside("detail", DetailHandling).reads
      /\ TransactionHandling.tested =
           Leaves({"detail", "settledAtEpochMs", "declineReason"})
             \cup Nested("detail", DetailHandling.tested)
  BY BothParts, HandlingParts, InsideParts DEF TransactionHandling
<1>7. SealedTransactionNulls \subseteq TransactionHandling.tested
  <2>1. Nested("detail", SealedTransactionDetailNulls)
          \subseteq Nested("detail", DetailHandling.tested)
    BY DetailKind, NestedGrows
  <2>2. QED  BY <1>6, <2>1, LeavesGrow DEF SealedTransactionNulls
<1>8. QED  BY <1>1, <1>2, <1>3, <1>5, <1>6, <1>7

LEMMA CardKind ==
  /\ SealedCardHandling.reads \subseteq SealedCardFragment
  /\ Leaves({"alias", "billingAddress", "cancelledAtEpochMs", "metadata"})
       \cup Nested("billingAddress", Leaves({"addressLine2"}))
         \subseteq SealedCardHandling.tested
<1> DEFINE tests == Leaves({"alias", "billingAddress", "cancelledAtEpochMs", "metadata"})
           plain == Leaves({"algorithm", "keyId", "owners", "fundingSourceId",
                            "currency", "state", "activeToEpochMs", "last4",
                            "cardHolder", "pan", "csc"})
           address == Handling(Leaves({"addressLine1", "addressLine2", "city",
                                       "state", "postalCode", "country"}),
                               Leaves({"addressLine2"}))
           expiry == {"expiry"} \X {"mm", "yyyy"}
<1>1. StampReads \cup plain \cup tests \subseteq SealedCardFragment
  BY StampKind DEF SealedCardFragment, Below, Leaves
<1>2. expiry \subseteq SealedCardFragment
  <2>1. \A a \in {"expiry"} :
          Below(a, Leaves({"mm", "yyyy"})) \subseteq SealedCardFragment
    BY DEF SealedCardFragment, SealedExpiryAttributeFragment
  <2>2. QED  BY <2>1, PairsBelow
<1>3. Inside("billingAddress", address).reads \subseteq SealedCardFragment
  <2>1. address.reads \subseteq SealedAddressAttributeFragment \cup {}
    BY HandlingParts DEF SealedAddressAttributeFragment
  <2>2. Nested("billingAddress", {}) = {}
    BY DEF Nested
  <2> HIDE DEF address
  <2>3. QED  BY <2>1, <2>2, ReadBelow DEF SealedCardFragment
<1>4. Inside("metadata", MetadataHandling).reads \subseteq SealedCardFragment
  <2>1. MetadataHandling.reads \subseteq SealedAttributeFragment \cup {}
    BY HandlingParts, LeavesGrow DEF MetadataHandling, SealedAttributeFragment
  <2>2. Nested("metadata", {}) = {}
    BY DEF Nested
  <2>3. QED  BY <2>1, <2>2, ReadBelow DEF SealedCardFragment
<1>5. address.tested = Leaves({"addressLine2"})
  BY HandlingParts
<1>6. /\ SealedCardHandling.reads =
           (StampReads \cup plain \cup expiry \cup tests)
             \cup (Inside("billingAddress", address).reads
                      \cup Inside("metadata", MetadataHandling).reads)
      /\ SealedCardHandling.tested =
           tests \cup (Nested("billingAddress", address.tested)
                         \cup Inside("metadata", MetadataHandling).tested)
  <2> HIDE DEF tests, plain, address, expiry
  <2>1. SealedCardHandling =
          Both(Handling(StampReads \cup plain \cup expiry \cup tests, tests),
               Both(Inside("billingAddress", address),
                    Inside("metadata", MetadataHandling)))
    BY DEF SealedCardHandling, tests, plain, address, expiry
  <2>2. QED  BY <2>1, BothParts, HandlingParts, InsideParts
<1> HIDE DEF tests, plain, address, expiry
<1>7. QED  BY <1>1, <1>2, <1>3, <1>4, <1>5, <1>6 DEF tests

LEMMA CardWithLastTransactionKind ==
  /\ CardHandling.reads \subseteq SealedCardWithLastTransactionFragment
  /\ SealedCardNulls \subseteq CardHandling.tested
<1>1. Inside("lastTransaction", TransactionHandling).reads
        \subseteq SealedCardWithLastTransactionFragment
  <2>1. TransactionHandling.reads \subseteq SealedTransactionFragment \cup {}
    BY TransactionKind
  <2>2. Nested("lastTransaction", {}) = {}
    BY DEF Nested
  <2>3. QED
    BY <2>1, <2>2, ReadBelow DEF SealedCardWithLastTransactionFragment
<1>2. Nested("lastTransaction", SealedTransactionNulls)
        \subseteq Nested("lastTransaction", TransactionHandling.tested)
  BY TransactionKind, NestedGrows
<1>3. /\ CardHandling.reads =
           SealedCardHandling.reads
             \cup Inside("lastTransaction", TransactionHandling).reads
      /\ CardHandling.tested =
           SealedCardHandling.tested
             \cup Nested("lastTransaction", TransactionHandling.tested)
             \cup {<<"lastTransaction">>}
  BY BothParts, HandlingParts, InsideParts DEF CardHandling
<1>4. Leaves({"alias", "billingAddress", "cancelledAtEpochMs", "lastTransaction",
              "metadata"})
        \subseteq CardHandling.tested
  BY <1>3, CardKind DEF Leaves
<1>5. QED
  BY <1>1, <1>2, <1>3, <1>4, CardKind
     DEF SealedCardNulls, SealedCardWithLastTransactionFragment

LEMMA OnIsNested ==
  ASSUME NEW t, NEW S
  PROVE  On(t, S) = Nested(t, S)
BY DEF On, Nested

LEMMA NestedJoin ==
  ASSUME NEW f, NEW S, NEW T
  PROVE  Nested(f, S \cup T) = Nested(f, S) \cup Nested(f, T)
BY DEF Nested

\* What funding sources of both types have.
CommonFundingSource ==
  Stamps \cup VelocityFields
    \cup Leaves({"__typename", "state", "flags", "currency"})

LEMMA CommonFundingSourceKind ==
  /\ CommonFundingSourceHandling.reads \subseteq CommonFundingSource
  /\ TransactionVelocityNulls \subseteq CommonFundingSourceHandling.tested
<1> DEFINE velocity == Leaves({"maximum", "velocity"})
           h == Handling(velocity, velocity)
<1>1. Inside("transactionVelocity", h).reads \subseteq VelocityFields
  <2>1. h.reads \subseteq velocity \cup {} /\ Nested("transactionVelocity", {}) = {}
    BY HandlingParts DEF Nested
  <2> HIDE DEF h
  <2>2. QED  BY <2>1, ReadBelow DEF VelocityFields
<1>2. Leaves({"__typename", "currency", "state", "flags", "transactionVelocity"})
        \subseteq CommonFundingSource
  BY DEF CommonFundingSource, VelocityFields, Below, Leaves
<1>3. h.tested = velocity
  BY HandlingParts
<1> HIDE DEF h, velocity
<1>4. CommonFundingSourceHandling =
        Both(Handling(StampReads
                        \cup Leaves({"__typename", "currency", "state", "flags",
                                    "transactionVelocity"}),
                      Leaves({"transactionVelocity"})),
             Inside("transactionVelocity", h))
  BY DEF CommonFundingSourceHandling, h, velocity
<1>5. /\ CommonFundingSourceHandling.reads =
           StampReads \cup Leaves({"__typename", "currency", "state", "flags",
                                  "transactionVelocity"})
             \cup Inside("transactionVelocity", h).reads
      /\ CommonFundingSourceHandling.tested =
           Leaves({"transactionVelocity"}) \cup Nested("transactionVelocity", velocity)
  BY <1>3, <1>4, BothParts, HandlingParts, InsideParts
<1>6. QED
  BY <1>1, <1>2, <1>5, StampKind
     DEF CommonFundingSource, TransactionVelocityNulls, velocity

LEMMA CreditCardKind ==
  /\ CreditCardHandling.reads \subseteq CreditCardFundingSourceFragment
  /\ TransactionVelocityNulls \subseteq CreditCardHandling.tested
<1>1. CommonFundingSource \cup Leaves({"last4", "cardType", "network"})
        \subseteq CreditCardFundingSourceFragment
  BY LeavesGrow DEF CommonFundingSource, CreditCardFundingSourceFragment
<1>2. /\ CreditCardHandling.reads = CommonFundingSourceHandling.reads
                                     \cup Leaves({"last4", "cardType", "network"})
      /\ CreditCardHandling.tested = CommonFundingSourceHandling.tested
  <2> DEFINE own == Handling(Leaves({"last4", "cardType", "network"}), {})
  <2>1. own.reads = Leaves({"last4", "cardType", "network"}) /\ own.tested = {}
    BY HandlingParts
  <2>2. CreditCardHandling = Both(CommonFundingSourceHandling, own)
    BY DEF CreditCardHandling
  <2> HIDE DEF own
  <2>3. QED  BY <2>1, <2>2, BothParts
<1>3. QED  BY <1>1, <1>2, CommonFundingSourceKind

LEMMA InstitutionKind ==
  /\ InstitutionHandling.reads \subseteq BankAccountFundingSourceFragment
  /\ Leaves({"institutionLogo"}) \subseteq InstitutionHandling.tested
<1> DEFINE sealed == Handling(Leaves({"plainTextType", "keyId", "algorithm",
                                      "base64EncodedSealedData"}), {})
<1>1. sealed.reads \subseteq SealedAttributeFragment \cup {}
  BY HandlingParts, LeavesGrow DEF SealedAttributeFragment
<1> HIDE DEF sealed
<1>2. /\ Inside("institutionName", sealed).reads
           \subseteq Below("institutionName", SealedAttributeFragment)
      /\ Inside("institutionLogo", sealed).reads
           \subseteq Below("institutionLogo", SealedAttributeFragment)
  <2>1. Nested("institutionName", {}) = {} /\ Nested("institutionLogo", {}) = {}
    BY DEF Nested
  <2>2. QED  BY <1>1, <2>1, ReadBelow
<1>3. InstitutionHandling =
        Both(Both(Inside("institutionName", sealed), Inside("institutionLogo", sealed)),
             Handling({}, Leaves({"institutionLogo"})))
  BY DEF InstitutionHandling, sealed
<1>4. /\ InstitutionHandling.reads =
           Inside("institutionName", sealed).reads
             \cup Inside("institutionLogo", sealed).reads
      /\ Leaves({"institutionLogo"}) \subseteq InstitutionHandling.tested
  BY <1>3, BothParts, HandlingParts
<1>5. QED  BY <1>2, <1>4 DEF BankAccountFundingSourceFragment

LEMMA BankAccountKind ==
  /\ BankAccountHandling.reads \subseteq BankAccountFundingSourceFragment
  /\ TransactionVelocityNulls \cup Leaves({"institutionLogo", "unfundedAmount"})
       \subseteq BankAccountHandling.tested
<1> DEFINE amount == Handling(Leaves({"currency", "amount"}), {})
           own == Handling(Leaves({"last4", "bankAccountType", "unfundedAmount"}),
                           Leaves({"unfundedAmount"}))
<1>1. amount.reads \subseteq Leaves({"currency", "amount"}) \cup {}
  BY HandlingParts
<1>2. /\ own.reads = Leaves({"last4", "bankAccountType", "unfundedAmount"})
      /\ own.tested = Leaves({"unfundedAmount"})
  BY HandlingParts
<1> HIDE DEF amount, own
<1>3. Inside("unfundedAmount", amount).reads
        \subseteq Below("unfundedAmount", Leaves({"currency", "amount"}))
  <2>1. Nested("unfundedAmount", {}) = {}
    BY DEF Nested
  <2>2. QED  BY <1>1, <2>1, ReadBelow
<1>4. own.reads \subseteq BankAccountFundingSourceFragment
  BY <1>2 DEF BankAccountFundingSourceFragment, Leaves, Below
<1>5. CommonFundingSource \subseteq BankAccountFundingSourceFragment
  BY LeavesGrow DEF CommonFundingSource, BankAccountFundingSourceFragment
<1>6. BankAccountHandling =
        Both(Both(CommonFundingSourceHandling, InstitutionHandling),
             Both(own, Inside("unfundedAmount", amount)))
  BY DEF BankAccountHandling, own, amount
<1>7. /\ BankAccountHandling.reads =
           (CommonFundingSourceHandling.reads \cup InstitutionHandling.reads)
             \cup (own.reads \cup Inside("unfundedAmount", amount).reads)
      /\ BankAccountHandling.tested =
           (CommonFundingSourceHandling.tested \cup InstitutionHandling.tested)
             \cup (own.tested \cup Inside("unfundedAmount", amount).tested)
  BY <1>6, BothParts
<1>8. Below("unfundedAmount", Leaves({"currency", "amount"}))
        \subseteq BankAccountFundingSourceFragment
  BY DEF BankAccountFundingSourceFragment
<1>9. Leaves({"institutionLogo", "unfundedAmount"}) =
        Leaves({"institutionLogo"}) \cup Leaves({"unfundedAmount"})
  BY DEF Leaves
<1>10. QED
  BY <1>2, <1>3, <1>4, <1>5, <1>7, <1>8, <1>9, CommonFundingSourceKind, InstitutionKind

LEMMA FundingSourceKind ==
  /\ FundingSourceHandling.reads \subseteq FundingSourceSelection \cup Members
  /\ FundingSourceNulls \subseteq FundingSourceHandling.tested
<1> DEFINE card == "CreditCardFundingSource"
           account == "BankAccountFundingSource"
           logo == Leaves({"institutionLogo", "unfundedAmount"})
<1>1. /\ FundingSourceHandling.reads =
           Inside(card, CreditCardHandling).reads
             \cup Inside(account, BankAccountHandling).reads
      /\ FundingSourceHandling.tested =
           Inside(card, CreditCardHandling).tested
             \cup Inside(account, BankAccountHandling).tested
  BY BothParts DEF FundingSourceHandling
<1>2. /\ Nested(card, CreditCardHandling.reads)
           \subseteq Nested(card, CreditCardFundingSourceFragment)
      /\ Nested(account, BankAccountHandling.reads)
           \subseteq Nested(account, BankAccountFundingSourceFragment)
      /\ Nested(card, TransactionVelocityNulls)
           \subseteq Nested(card, CreditCardHandling.tested)
      /\ Nested(account, TransactionVelocityNulls \cup logo)
           \subseteq Nested(account, BankAccountHandling.tested)
  <2> HIDE DEF card, account, logo
  <2>1. QED  BY CreditCardKind, BankAccountKind, NestedGrows DEF logo
<1>3. /\ FundingSourceSelection =
           Nested(card, CreditCardFundingSourceFragment)
             \cup Nested(account, BankAccountFundingSourceFragment)
      /\ FundingSourceNulls =
           Nested(card, TransactionVelocityNulls)
             \cup Nested(account, TransactionVelocityNulls \cup logo)
  BY OnIsNested DEF FundingSourceSelection, FundingSourceNulls
<1>4. Members = {<<card>>, <<account>>}
  BY DEF Members
<1> HIDE DEF card, account, logo
<1>5. /\ Inside(card, CreditCardHandling).reads =
           {<<card>>} \cup Nested(card, CreditCardHandling.reads)
      /\ Inside(account, BankAccountHandling).reads =
           {<<account>>} \cup Nested(account, BankAccountHandling.reads)
      /\ Inside(card, CreditCardHandling).tested = Nested(card, CreditCardHandling.tested)
      /\ Inside(account, BankAccountHandling).tested =
           Nested(account, BankAccountHandling.tested)
  BY InsideParts
<1>6. FundingSourceHandling.reads \subseteq FundingSourceSelection \cup Members
  BY <1>1, <1>2, <1>3, <1>4, <1>5
<1>7. FundingSourceNulls \subseteq FundingSourceHandling.tested
  BY <1>1, <1>2, <1>3, <1>5
<1>8. QED  BY <1>6, <1>7

LEMMA ProvisionalFundingSourceKind ==
  /\ ProvisionalFundingSourceHandling.reads \subseteq ProvisionalFundingSourceFragment
  /\ ProvisionalFundingSourceNulls \subseteq ProvisionalFundingSourceHandling.tested
BY StampKind, HandlingParts, LeavesGrow
   DEF ProvisionalFundingSourceHandling, ProvisionalFundingSourceFragment,
       ProvisionalFundingSourceNulls

LEMMA VirtualCardsConfigKind ==
  /\ VirtualCardsConfigHandling.reads \subseteq VirtualCardsConfigFragment
  /\ VirtualCardsConfigNulls \subseteq VirtualCardsConfigHandling.tested
<1> DEFINE documents == {"fundingSourceClientConfiguration",
                         "clientApplicationsConfiguration", "pricingPolicy"}
           tested == Leaves(documents
                              \cup {"maxFundingSourcePendingVelocity",
                                    "bankAccountFundingSourceCreationEnabled"})
           plain == Leaves({"fundingSourceSupportInfo", "maxCardCreationVelocity",
                            "maxFundingSourceFailureVelocity",
                            "maxFundingSourceVelocity", "virtualCardCurrencies",
                            "bankAccountFundingSourceExpendableEnabled"})
           pairs == ({"maxTransactionAmount"} \X {"currency", "amount"})
                      \cup ({"maxTransactionVelocity"} \X {"currency", "velocity"})
                      \cup (documents \X {"data"})
<1>1. plain \cup tested \subseteq VirtualCardsConfigFragment
  <2>1. Leaves(documents) \subseteq UNION {Below(f, Leaves({"data"})) : f \in documents}
    BY DEF Leaves, Below
  <2>2. Leaves({"maxFundingSourcePendingVelocity",
                "bankAccountFundingSourceCreationEnabled"})
          \subseteq VirtualCardsConfigFragment
    BY LeavesGrow DEF VirtualCardsConfigFragment
  <2>3. plain \subseteq VirtualCardsConfigFragment
    BY DEF VirtualCardsConfigFragment, Leaves, Below
  <2>4. Leaves(documents) \subseteq VirtualCardsConfigFragment
    BY <2>1 DEF VirtualCardsConfigFragment
  <2> HIDE DEF documents, plain
  <2>5. QED  BY <2>2, <2>3, <2>4, LeavesJoin
<1>2. pairs \subseteq VirtualCardsConfigFragment
  <2>1. \A f \in documents :
          Below(f, Leaves({"data"})) \subseteq VirtualCardsConfigFragment
    BY DEF VirtualCardsConfigFragment
  <2>2. /\ \A f \in {"maxTransactionAmount"} :
             Below(f, Leaves({"currency", "amount"})) \subseteq VirtualCardsConfigFragment
        /\ \A f \in {"maxTransactionVelocity"} :
             Below(f, Leaves({"currency", "velocity"})) \subseteq VirtualCardsConfigFragment
    BY DEF VirtualCardsConfigFragment
  <2> HIDE DEF documents
  <2>3. /\ documents \X {"data"} \subseteq VirtualCardsConfigFragment
        /\ {"maxTransactionAmount"} \X {"currency", "amount"}
             \subseteq VirtualCardsConfigFragment
        /\ {"maxTransactionVelocity"} \X {"currency", "velocity"}
             \subseteq VirtualCardsConfigFragment
    BY <2>1, <2>2, PairsBelow
  <2>4. QED  BY <2>3
<1>3. VirtualCardsConfigHandling = Handling(plain \cup pairs \cup tested, tested)
  BY DEF VirtualCardsConfigHandling
<1>4. VirtualCardsConfigNulls = tested
  BY DEF VirtualCardsConfigNulls, Leaves
<1> HIDE DEF documents, tested, plain, pairs
<1>5. QED  BY <1>1, <1>2, <1>3, <1>4, HandlingParts

LEMMA SandboxPlaidDataKind ==
  /\ SandboxPlaidDataHandling.reads \subseteq SandboxGetPlaidData.selection
  /\ SandboxGetPlaidDataNulls \subseteq SandboxPlaidDataHandling.tested
<1> DEFINE reads == {<<"accountMetadata", "accountId">>,
                     <<"accountMetadata", "subtype">>, <<"publicToken">>}
           tested == {<<"accountMetadata", "subtype">>}
           metadata == {"accountMetadata"} \X {"accountId", "subtype"}
<1>1. SandboxPlaidDataHandling.reads = reads /\ SandboxPlaidDataHandling.tested = tested
  BY HandlingParts DEF SandboxPlaidDataHandling
<1>2. SandboxGetPlaidData.selection =
        Leaves({"publicToken"})
          \cup Below("accountMetadata", Leaves({"accountId", "subtype"}))
  BY DEF SandboxGetPlaidData, Query
<1>3. metadata \subseteq SandboxGetPlaidData.selection
  <2>1. \A f \in {"accountMetadata"} : Below(f, Leaves({"accountId", "subtype"}))
                                        \subseteq SandboxGetPlaidData.selection
    BY <1>2
  <2>2. QED  BY <2>1, PairsBelow
<1>4. <<"publicToken">> \in SandboxGetPlaidData.selection
  BY <1>2 DEF Leaves
<1>5. reads \subseteq metadata \cup {<<"publicToken">>}
  OBVIOUS
<1>6. SandboxGetPlaidDataNulls \subseteq tested
  BY TwoNames DEF SandboxGetPlaidDataNulls, Nested, Leaves
<1> HIDE DEF reads, tested, metadata
<1>7. QED  BY <1>1, <1>3, <1>4, <1>5, <1>6

-----------------------------------------------------------------------------
(* A null that is not tested does no harm where nothing of it is read: the *)
(* last transaction of a card in a provisional card, the format of a key.  *)
(* There every null has a name at position k that no read has there.       *)

Names ==
  {"id", "owner", "version", "createdAtEpochMs", "updatedAtEpochMs", "algorithm",
   "keyId", "owners", "fundingSourceId", "currency", "state", "activeToEpochMs",
   "last4", "cardHolder", "pan", "csc", "alias", "billingAddress",
   "cancelledAtEpochMs", "metadata", "expiry", "mm", "yyyy", "addressLine1",
   "addressLine2", "city", "postalCode", "country", "base64EncodedSealedData",
   "clientRefId", "provisioningState", "card", "lastTransaction", "declineReason",
   "detail", "settledAtEpochMs", "continuationOfExistingCharge",
   "transactedAtEpochMs", "markup", "minCharge", "keyFormat", "items", "nextToken"}

AvoidsAt(R, k, name) ==
  R \subseteq Seq(Names) /\ \A p \in R : k \in 1 .. Len(p) => p[k] # name

HitsAt(N, k, name) ==
  N \subseteq Seq(Names) /\ \A n \in N : k \in 1 .. Len(n) /\ n[k] = name

LEMMA Differs ==
  ASSUME NEW S, NEW n \in Seq(S), NEW p \in Seq(S), NEW k \in 1 .. Len(n),
         k \in 1 .. Len(p) => p[k] # n[k]
  PROVE  ~IsPrefix(n, p)
<1>1. CASE Len(n) > Len(p)
  BY <1>1 DEF IsPrefix
<1>2. CASE Len(n) <= Len(p)
  <2>1. Len(n) \in Nat /\ Len(p) \in Nat
    OBVIOUS
  <2>2. SubSeq(n, 1, Len(n))[k] = n[k] /\ SubSeq(p, 1, Len(n))[k] = p[k]
    BY <1>2, <2>1, SubSeqProperties
  <2>3. n[k] # p[k]
    BY <1>2, <2>1
  <2>4. QED  BY <2>2, <2>3 DEF IsPrefix
<1>3. QED  BY <1>1, <1>2

LEMMA NotRead ==
  ASSUME NEW h, NEW N, NEW k, NEW name,
         AvoidsAt(h.reads, k, name), HitsAt(N, k, name), NEW n \in N
  PROVE  ~Untested(h, n)
<1>1. ASSUME NEW p \in h.reads
      PROVE  ~IsPrefix(n, p)
  <2>1. /\ n \in Seq(Names) /\ p \in Seq(Names) /\ k \in 1 .. Len(n)
        /\ k \in 1 .. Len(p) => p[k] # n[k]
    BY DEF AvoidsAt, HitsAt
  <2>2. QED  BY <2>1, Differs
<1>2. QED  BY <1>1 DEF Untested

\* A path below f has every name one position later.
LEMMA OneLater ==
  ASSUME NEW f \in Names, NEW p \in Seq(Names)
  PROVE  /\ <<f>> \o p \in Seq(Names) /\ Len(<<f>> \o p) = Len(p) + 1
         /\ \A k \in 1 .. Len(p) : (<<f>> \o p)[k + 1] = p[k]
<1>1. <<f>> \in Seq(Names) /\ Len(<<f>>) = 1
  BY OneName
<1>2. Len(p) \in Nat
  OBVIOUS
<1>3. QED  BY <1>1, <1>2, ConcatProperties

LEMMA NestedLater ==
  ASSUME NEW f \in Names, NEW R, NEW k \in Nat \ {0}, NEW name
  PROVE  /\ AvoidsAt(R, k, name) => AvoidsAt(Nested(f, R), k + 1, name)
         /\ HitsAt(R, k, name) => HitsAt(Nested(f, R), k + 1, name)
<1>1. ASSUME AvoidsAt(R, k, name)
      PROVE  AvoidsAt(Nested(f, R), k + 1, name)
  <2>1. ASSUME NEW q \in Nested(f, R)
        PROVE  q \in Seq(Names) /\ (k + 1 \in 1 .. Len(q) => q[k + 1] # name)
    <3>1. PICK p \in R : q = <<f>> \o p
      BY DEF Nested
    <3>2. p \in Seq(Names) /\ (k \in 1 .. Len(p) => p[k] # name)
      BY <1>1 DEF AvoidsAt
    <3>3. Len(p) \in Nat
      BY <3>2
    <3>4. q \in Seq(Names) /\ Len(q) = Len(p) + 1
          /\ \A j \in 1 .. Len(p) : q[j + 1] = p[j]
      BY <3>1, <3>2, OneLater
    <3>5. QED  BY <3>2, <3>3, <3>4
  <2>2. QED  BY <2>1 DEF AvoidsAt
<1>2. ASSUME HitsAt(R, k, name)
      PROVE  HitsAt(Nested(f, R), k + 1, name)
  <2>1. ASSUME NEW q \in Nested(f, R)
        PROVE  q \in Seq(Names) /\ k + 1 \in 1 .. Len(q) /\ q[k + 1] = name
    <3>1. PICK p \in R : q = <<f>> \o p
      BY DEF Nested
    <3>2. p \in Seq(Names) /\ k \in 1 .. Len(p) /\ p[k] = name
      BY <1>2 DEF HitsAt
    <3>3. Len(p) \in Nat
      BY <3>2
    <3>4. q \in Seq(Names) /\ Len(q) = Len(p) + 1
          /\ \A j \in 1 .. Len(p) : q[j + 1] = p[j]
      BY <3>1, <3>2, OneLater
    <3>5. QED  BY <3>2, <3>3, <3>4
  <2>2. QED  BY <2>1 DEF HitsAt
<1>3. QED  BY <1>1, <1>2

LEMMA LeavesAvoid ==
  ASSUME NEW F, F \subseteq Names, NEW k \in Nat \ {0}, NEW name,
         k = 1 => name \notin F
  PROVE  AvoidsAt(Leaves(F), k, name)
<1>1. \A p \in Leaves(F) : \E f \in F : p = <<f>>
  BY DEF Leaves
<1>2. ASSUME NEW f \in F
      PROVE  <<f>> \in Seq(Names) /\ (k \in 1 .. Len(<<f>>) => <<f>>[k] # name)
  BY OneName
<1>3. QED  BY <1>1, <1>2 DEF AvoidsAt

LEMMA BothAvoid ==
  ASSUME NEW R, NEW T, NEW k, NEW name, AvoidsAt(R, k, name), AvoidsAt(T, k, name)
  PROVE  AvoidsAt(R \cup T, k, name)
BY DEF AvoidsAt

LEMMA BothHit ==
  ASSUME NEW R, NEW T, NEW k, NEW name, HitsAt(R, k, name), HitsAt(T, k, name)
  PROVE  HitsAt(R \cup T, k, name)
BY DEF HitsAt

\* A page of items of which the nulls U are not read.
LEMMA PageSuitsUnread ==
  ASSUME NEW S, NEW h, NEW N, NEW U, NEW k \in Nat \ {0}, NEW name,
         h.reads \subseteq S \cup Members, N \subseteq h.tested \cup U,
         AvoidsAt(h.reads, k, name), HitsAt(U, k, name)
  PROVE  Suits(Page(S), PageHandling(h), PageNulls(N))
<1>1. /\ PageHandling(h).reads =
           {<<"items">>} \cup Nested("items", h.reads) \cup Leaves({"nextToken"})
      /\ PageHandling(h).tested =
           Nested("items", h.tested) \cup Leaves({"nextToken"})
  BY BothParts, HandlingParts, InsideParts DEF PageHandling
<1>2. PageHandling(h).reads \subseteq Page(S) \cup TypeNames
  <2>1. Suits(Page(S), PageHandling(h), PageNulls({}))
    BY PageSuits
  <2>2. QED  BY <2>1 DEF Suits
<1>3. AvoidsAt(PageHandling(h).reads, k + 1, name)
  <2>1. "items" \in Names /\ "nextToken" \in Names
    BY DEF Names
  <2>2. {<<"items">>} = Leaves({"items"})
    BY DEF Leaves
  <2>3. k + 1 \in Nat \ {0} /\ k + 1 # 1
    OBVIOUS
  <2>4. AvoidsAt(Leaves({"items"}), k + 1, name)
        /\ AvoidsAt(Leaves({"nextToken"}), k + 1, name)
    BY <2>1, <2>3, LeavesAvoid
  <2>5. AvoidsAt(Nested("items", h.reads), k + 1, name)
    BY <2>1, NestedLater
  <2>6. AvoidsAt(Leaves({"items"}) \cup Nested("items", h.reads), k + 1, name)
    BY <2>4, <2>5, BothAvoid
  <2>7. QED  BY <1>1, <2>2, <2>4, <2>6, BothAvoid
<1>4. HitsAt(Nested("items", U), k + 1, name)
  BY NestedLater DEF Names
<1>5. PageNulls(N) \subseteq PageHandling(h).tested \cup Nested("items", U)
  BY <1>1 DEF PageNulls, Nested
<1>6. \A n \in PageNulls(N) : ~Untested(PageHandling(h), n)
  BY <1>3, <1>4, <1>5, NotRead DEF Untested
<1>7. QED  BY <1>2, <1>6 DEF Suits

\* The parts of a card's handling never name a last transaction.
LEMMA CardAvoids == AvoidsAt(SealedCardHandling.reads, 1, "lastTransaction")
<1> DEFINE own == {"id", "owner", "version", "createdAtEpochMs", "updatedAtEpochMs",
                   "algorithm", "keyId", "owners", "fundingSourceId", "currency",
                   "state", "activeToEpochMs", "last4", "cardHolder", "pan", "csc",
                   "alias", "billingAddress", "cancelledAtEpochMs", "metadata"}
           objects == {"expiry", "billingAddress", "metadata"}
           parts == {"mm", "yyyy", "addressLine1", "addressLine2", "city", "state",
                     "postalCode", "country", "algorithm", "base64EncodedSealedData",
                     "keyId"}
<1>1. SealedCardHandling.reads \subseteq Leaves(own) \cup (objects \X parts)
  <2> DEFINE address == Handling(Leaves({"addressLine1", "addressLine2", "city",
                                         "state", "postalCode", "country"}),
                                 Leaves({"addressLine2"}))
             mine == Handling(
                       StampReads
                         \cup Leaves({"algorithm", "keyId", "owners",
                                     "fundingSourceId", "currency", "state",
                                     "activeToEpochMs", "last4", "cardHolder",
                                     "pan", "csc"})
                         \cup ({"expiry"} \X {"mm", "yyyy"})
                         \cup Leaves({"alias", "billingAddress",
                                     "cancelledAtEpochMs", "metadata"}),
                       Leaves({"alias", "billingAddress", "cancelledAtEpochMs",
                               "metadata"}))
  <2>1. mine.reads \subseteq Leaves(own) \cup (objects \X parts)
    <3>1. mine.reads = StampReads
                         \cup Leaves({"algorithm", "keyId", "owners",
                                     "fundingSourceId", "currency", "state",
                                     "activeToEpochMs", "last4", "cardHolder",
                                     "pan", "csc"})
                         \cup ({"expiry"} \X {"mm", "yyyy"})
                         \cup Leaves({"alias", "billingAddress",
                                     "cancelledAtEpochMs", "metadata"})
      BY HandlingParts
    <3> HIDE DEF mine
    <3>2. {"expiry"} \X {"mm", "yyyy"} \subseteq objects \X parts
      OBVIOUS
    <3>3. /\ StampReads \subseteq Leaves(own)
          /\ Leaves({"algorithm", "keyId", "owners", "fundingSourceId", "currency",
                     "state", "activeToEpochMs", "last4", "cardHolder", "pan",
                     "csc"}) \subseteq Leaves(own)
          /\ Leaves({"alias", "billingAddress", "cancelledAtEpochMs", "metadata"})
               \subseteq Leaves(own)
      BY LeavesGrow DEF StampReads
    <3> HIDE DEF own, objects, parts
    <3>4. QED  BY <3>1, <3>2, <3>3
  <2>2. /\ Inside("billingAddress", address).reads
             \subseteq Leaves(own) \cup (objects \X parts)
        /\ Inside("metadata", MetadataHandling).reads
             \subseteq Leaves(own) \cup (objects \X parts)
    <3>1. /\ address.reads \subseteq Leaves(parts)
          /\ MetadataHandling.reads \subseteq Leaves(parts)
      BY HandlingParts, LeavesGrow DEF MetadataHandling
    <3> HIDE DEF address
    <3>2. ASSUME NEW f \in objects, NEW h, h.reads \subseteq Leaves(parts), f \in own
          PROVE  Inside(f, h).reads \subseteq Leaves(own) \cup (objects \X parts)
      <4>1. Nested(f, Leaves(parts)) \subseteq objects \X parts
        <5> HIDE DEF objects, parts
        <5>1. ASSUME NEW part \in parts
              PROVE  <<f>> \o <<part>> \in objects \X parts
          <6>1. <<f>> \o <<part>> = <<f, part>>
            BY TwoNames
          <6>2. <<f, part>> \in objects \X parts
            BY <3>2
          <6>3. QED  BY <6>1, <6>2
        <5>2. QED  BY <5>1 DEF Nested, Leaves
      <4>2. Nested(f, h.reads) \subseteq Nested(f, Leaves(parts))
        BY <3>2, NestedGrows
      <4>3. <<f>> \in Leaves(own)
        BY <3>2 DEF Leaves
      <4> HIDE DEF own, objects, parts
      <4>4. QED  BY <4>1, <4>2, <4>3, InsideParts
    <3>3. QED  BY <3>1, <3>2
  <2> HIDE DEF own, objects, parts, mine, address
  <2>3. SealedCardHandling =
          Both(mine, Both(Inside("billingAddress", address),
                          Inside("metadata", MetadataHandling)))
    BY DEF SealedCardHandling, mine, address
  <2>4. SealedCardHandling.reads =
          mine.reads \cup (Inside("billingAddress", address).reads
                             \cup Inside("metadata", MetadataHandling).reads)
    BY <2>3, BothParts
  <2>5. QED  BY <2>1, <2>2, <2>4
<1>2. AvoidsAt(Leaves(own), 1, "lastTransaction")
  <2>1. own \subseteq Names /\ "lastTransaction" \notin own
    BY DEF Names
  <2> HIDE DEF own
  <2>2. QED  BY <2>1, LeavesAvoid
<1>3. AvoidsAt(objects \X parts, 1, "lastTransaction")
  <2>1. objects \subseteq Names /\ parts \subseteq Names
    BY DEF Names
  <2>2. "lastTransaction" \notin objects
    OBVIOUS
  <2> HIDE DEF objects, parts
  <2>3. ASSUME NEW p \in objects \X parts
        PROVE  p \in Seq(Names) /\ p[1] # "lastTransaction"
    <3>1. p[1] \in objects /\ p[2] \in parts /\ p = <<p[1], p[2]>>
      OBVIOUS
    <3>2. <<p[1], p[2]>> \in Seq(Names)
      BY <2>1, <3>1
    <3>3. QED  BY <2>2, <3>1, <3>2
  <2>4. QED  BY <2>3 DEF AvoidsAt
<1> HIDE DEF own, objects, parts
<1>4. AvoidsAt(Leaves(own) \cup (objects \X parts), 1, "lastTransaction")
  BY <1>2, <1>3, BothAvoid
<1>5. QED  BY <1>1, <1>4 DEF AvoidsAt

\* What may be null of a last transaction.
LEMMA LastTransactionHits ==
  HitsAt(Leaves({"lastTransaction"})
           \cup Nested("lastTransaction", SealedTransactionNulls),
         1, "lastTransaction")
<1>1. SealedTransactionNulls \subseteq Seq(Names)
  <2>1. /\ {"declineReason", "detail", "settledAtEpochMs"} \subseteq Names
        /\ {"continuationOfExistingCharge", "settledAtEpochMs", "state",
            "transactedAtEpochMs"} \subseteq Names
        /\ "markup" \in Names /\ "minCharge" \in Names /\ "detail" \in Names
    BY DEF Names
  <2>2. \A F : F \subseteq Names => Leaves(F) \subseteq Seq(Names)
    BY OneName DEF Leaves
  <2>3. SealedTransactionDetailNulls \subseteq Seq(Names)
    <3>1. <<"markup", "minCharge">> \in Seq(Names)
      BY <2>1
    <3>2. QED  BY <2>1, <2>2, <3>1 DEF SealedTransactionDetailNulls
  <2>4. Nested("detail", SealedTransactionDetailNulls) \subseteq Seq(Names)
    BY <2>1, <2>3, OneLater DEF Nested
  <2>5. QED  BY <2>1, <2>2, <2>4 DEF SealedTransactionNulls
<1>2. "lastTransaction" \in Names
  BY DEF Names
<1>3. HitsAt(Leaves({"lastTransaction"}), 1, "lastTransaction")
  <2> DEFINE t == <<"lastTransaction">>
  <2>1. \A p \in Leaves({"lastTransaction"}) : p = t
    BY DEF Leaves
  <2>2. t \in Seq(Names) /\ Len(t) = 1 /\ t[1] = "lastTransaction"
    BY <1>2, OneName
  <2> HIDE DEF t
  <2>3. t \in Seq(Names) /\ 1 \in 1 .. Len(t) /\ t[1] = "lastTransaction"
    BY <2>2
  <2>4. QED  BY <2>1, <2>3 DEF HitsAt
<1>4. HitsAt(Nested("lastTransaction", SealedTransactionNulls), 1, "lastTransaction")
  <2>1. ASSUME NEW q \in Nested("lastTransaction", SealedTransactionNulls)
        PROVE  q \in Seq(Names) /\ 1 \in 1 .. Len(q) /\ q[1] = "lastTransaction"
    <3>1. PICK p \in SealedTransactionNulls : q = <<"lastTransaction">> \o p
      BY DEF Nested
    <3>2. p \in Seq(Names) /\ Len(p) \in Nat
      BY <1>1
    <3>3. /\ <<"lastTransaction">> \in Seq(Names) /\ Len(<<"lastTransaction">>) = 1
          /\ <<"lastTransaction">>[1] = "lastTransaction"
      BY <1>2, OneName
    <3>4. QED  BY <3>1, <3>2, <3>3, ConcatProperties
  <2>2. QED  BY <2>1 DEF HitsAt
<1>5. QED  BY <1>3, <1>4, BothHit

\* What a card may lack besides its last transaction.
LastTransactionNulls ==
  Leaves({"lastTransaction"}) \cup Nested("lastTransaction", SealedTransactionNulls)

LEMMA ProvisionalCardSuits ==
  /\ Suits(ProvisionalCardFragment, ProvisionalCardHandling, ProvisionalCardNulls)
  /\ Suits(Page(ProvisionalCardFragment), PageHandling(ProvisionalCardHandling),
           PageNulls(ProvisionalCardNulls))
<1> DEFINE tests == Leaves({"alias", "billingAddress", "cancelledAtEpochMs", "metadata"})
                      \cup Nested("billingAddress", Leaves({"addressLine2"}))
           plain == Leaves({"clientRefId", "provisioningState", "card"})
           unread == Nested("card", LastTransactionNulls)
<1>1. /\ ProvisionalCardHandling.reads =
           (StampReads \cup plain) \cup ({<<"card">>} \cup Nested("card",
                                                      SealedCardHandling.reads))
      /\ ProvisionalCardHandling.tested =
           Leaves({"card"}) \cup Nested("card", SealedCardHandling.tested)
  <2> DEFINE own == Handling(StampReads \cup plain, Leaves({"card"}))
  <2>1. own.reads = StampReads \cup plain /\ own.tested = Leaves({"card"})
    BY HandlingParts
  <2>2. ProvisionalCardHandling = Both(own, Inside("card", SealedCardHandling))
    BY DEF ProvisionalCardHandling
  <2> HIDE DEF own, plain
  <2>3. QED  BY <2>1, <2>2, BothParts, InsideParts
<1>2. ProvisionalCardHandling.reads \subseteq ProvisionalCardFragment
  <2>1. Nested("card", SealedCardHandling.reads)
          \subseteq Nested("card", SealedCardFragment)
    BY CardKind, NestedGrows
  <2>2. {<<"card">>} \cup Nested("card", SealedCardFragment)
          = Below("card", SealedCardFragment)
    BY DEF Nested, Below
  <2>3. plain \subseteq Leaves({"clientRefId", "provisioningState"})
                       \cup Below("card", SealedCardFragment)
    BY DEF Leaves, Below
  <2> HIDE DEF plain
  <2>4. QED  BY <1>1, <2>1, <2>2, <2>3, StampKind DEF ProvisionalCardFragment
<1>3. ProvisionalCardNulls \subseteq ProvisionalCardHandling.tested \cup unread
  <2>1. SealedCardNulls = tests \cup LastTransactionNulls
    BY DEF SealedCardNulls, LastTransactionNulls, Leaves
  <2>2. Nested("card", SealedCardNulls) = Nested("card", tests) \cup unread
    BY <2>1, NestedJoin
  <2>3. Nested("card", tests) \subseteq Nested("card", SealedCardHandling.tested)
    BY CardKind, NestedGrows
  <2> HIDE DEF tests, unread
  <2>4. QED  BY <1>1, <2>2, <2>3 DEF ProvisionalCardNulls
<1>4. AvoidsAt(ProvisionalCardHandling.reads, 2, "lastTransaction")
  <2>1. "card" \in Names
    BY DEF Names
  <2>2. AvoidsAt(Nested("card", SealedCardHandling.reads), 2, "lastTransaction")
    BY <2>1, CardAvoids, NestedLater
  <2> DEFINE own == {"id", "owner", "version", "createdAtEpochMs", "updatedAtEpochMs",
                     "clientRefId", "provisioningState", "card"}
  <2>3. own \subseteq Names
    BY DEF Names
  <2>4. (StampReads \cup plain) \cup {<<"card">>} = Leaves(own)
    BY DEF StampReads, Leaves
  <2> HIDE DEF own, plain
  <2>5. AvoidsAt(Leaves(own), 2, "lastTransaction")
    BY <2>3, LeavesAvoid
  <2>6. ProvisionalCardHandling.reads = Leaves(own) \cup Nested("card",
                                                             SealedCardHandling.reads)
    BY <1>1, <2>4
  <2>7. QED  BY <2>2, <2>5, <2>6, BothAvoid
<1>5. HitsAt(unread, 2, "lastTransaction")
  BY LastTransactionHits, NestedLater DEF Names, LastTransactionNulls
<1> HIDE DEF tests, plain, unread
<1>6. Suits(ProvisionalCardFragment, ProvisionalCardHandling, ProvisionalCardNulls)
  BY <1>2, <1>3, <1>4, <1>5, NotRead DEF Suits, Untested
<1>7. Suits(Page(ProvisionalCardFragment), PageHandling(ProvisionalCardHandling),
            PageNulls(ProvisionalCardNulls))
  BY <1>2, <1>3, <1>4, <1>5, PageSuitsUnread
<1>8. QED  BY <1>6, <1>7

LEMMA PublicKeySuits ==
  /\ Suits(PublicKeyFragment, Handling({}, {}), PublicKeyNulls)
  /\ Suits(Page(PublicKeyFragment), PageHandling(Handling({}, {})),
           PageNulls(PublicKeyNulls))
<1> DEFINE h == Handling({}, {})
<1>1. h.reads = {} /\ h.tested = {}
  BY HandlingParts
<1> HIDE DEF h
<1>2. AvoidsAt(h.reads, 1, "keyFormat")
  BY <1>1 DEF AvoidsAt
<1>3. HitsAt(PublicKeyNulls, 1, "keyFormat")
  <2> DEFINE t == <<"keyFormat">>
  <2>1. \A p \in PublicKeyNulls : p = t
    BY DEF PublicKeyNulls, Leaves
  <2>2. "keyFormat" \in Names
    BY DEF Names
  <2>3. t \in Seq(Names) /\ Len(t) = 1 /\ t[1] = "keyFormat"
    BY <2>2, OneName
  <2> HIDE DEF t
  <2>4. t \in Seq(Names) /\ 1 \in 1 .. Len(t) /\ t[1] = "keyFormat"
    BY <2>3
  <2>5. QED  BY <2>1, <2>4 DEF HitsAt
<1>4. Suits(PublicKeyFragment, h, PublicKeyNulls)
  BY <1>1, <1>2, <1>3, NotRead DEF Suits
<1>5. Suits(Page(PublicKeyFragment), PageHandling(h), PageNulls(PublicKeyNulls))
  <2>1. /\ h.reads \subseteq PublicKeyFragment \cup Members
        /\ PublicKeyNulls \subseteq h.tested \cup PublicKeyNulls
    BY <1>1
  <2>2. QED  BY <1>2, <1>3, <2>1, PageSuitsUnread
<1>6. QED  BY <1>4, <1>5 DEF h

-----------------------------------------------------------------------------
(* The tables of the operations.                                           *)

LEMMA FundingSourceSuits ==
  /\ Suits(FundingSourceSelection, FundingSourceHandling, FundingSourceNulls)
  /\ Suits(Page(FundingSourceSelection), PageHandling(FundingSourceHandling),
           PageNulls(FundingSourceNulls))
  /\ Suits(ProvisionalFundingSourceFragment, ProvisionalFundingSourceHandling,
           ProvisionalFundingSourceNulls)
  /\ Suits(Page(ProvisionalFundingSourceFragment),
           PageHandling(ProvisionalFundingSourceHandling),
           PageNulls(ProvisionalFundingSourceNulls))
BY FundingSourceKind, ProvisionalFundingSourceKind, TestedSuits, PageSuits

LEMMA CardSuits ==
  /\ Suits(SealedCardWithLastTransactionFragment, CardHandling, SealedCardNulls)
  /\ Suits(Page(SealedCardWithLastTransactionFragment), PageHandling(CardHandling),
           PageNulls(SealedCardNulls))
BY CardWithLastTransactionKind, TestedSuits, PageSuits

LEMMA TransactionSuits ==
  /\ Suits(SealedTransactionFragment, TransactionHandling, SealedTransactionNulls)
  /\ Suits(Page(SealedTransactionFragment), PageHandling(TransactionHandling),
           PageNulls(SealedTransactionNulls))
BY TransactionKind, TestedSuits, PageSuits

LEMMA FundingSourceSelections ==
  /\ setupFundingSource.document.selection = ProvisionalFundingSourceFragment
  /\ completeFundingSource.document.selection = FundingSourceSelection
  /\ refreshFundingSource.document.selection = FundingSourceSelection
  /\ cancelFundingSource.document.selection = FundingSourceSelection
  /\ reviewUnfundedFundingSource.document.selection = FundingSourceSelection
  /\ sandboxSetFundingSourceToRequireRefresh.document.selection
       = FundingSourceSelection
  /\ cancelProvisionalFundingSource.document.selection
       = ProvisionalFundingSourceFragment
  /\ getFundingSource.document.selection = FundingSourceSelection
  /\ listFundingSources.document.selection = Page(FundingSourceSelection)
  /\ listProvisionalFundingSources.document.selection
       = Page(ProvisionalFundingSourceFragment)
BY DEF setupFundingSource, SetupFundingSource, completeFundingSource,
       CompleteFundingSource, refreshFundingSource, RefreshFundingSource,
       cancelFundingSource, CancelFundingSource, reviewUnfundedFundingSource,
       ReviewUnfundedFundingSource, sandboxSetFundingSourceToRequireRefresh,
       SandboxSetFundingSourceToRequireRefresh, cancelProvisionalFundingSource,
       CancelProvisionalFundingSource, getFundingSource, GetFundingSource,
       listFundingSources, ListFundingSources, listProvisionalFundingSources,
       ListProvisionalFundingSources, Mutate, Ask, Mutation, Query

FundingSourceOperations ==
  {"setupFundingSource", "completeFundingSource", "refreshFundingSource",
   "cancelFundingSource", "reviewUnfundedFundingSource",
   "sandboxSetFundingSourceToRequireRefresh", "cancelProvisionalFundingSource",
   "getFundingSource", "listFundingSources", "listProvisionalFundingSources"}

LEMMA FundingSourceTable ==
  /\ DOMAIN FundingSourceCalls = FundingSourceOperations
  /\ \A op \in FundingSourceOperations : Sound(FundingSourceCalls[op])
<1>1. DOMAIN FundingSourceCalls = FundingSourceOperations
  BY DEF FundingSourceCalls, FundingSourceOperations
<1>2. \A r, o : /\ r.document.selection = FundingSourceSelection =>
                     Sound(Entry(r, o, FundingSourceHandling, FundingSourceNulls))
                /\ r.document.selection = ProvisionalFundingSourceFragment =>
                     Sound(Entry(r, o, ProvisionalFundingSourceHandling,
                                 ProvisionalFundingSourceNulls))
  BY FundingSourceSuits, SuitableIsSound
<1>3. /\ Sound(FundingSourceCalls.setupFundingSource)
      /\ Sound(FundingSourceCalls.completeFundingSource)
      /\ Sound(FundingSourceCalls.refreshFundingSource)
      /\ Sound(FundingSourceCalls.cancelFundingSource)
      /\ Sound(FundingSourceCalls.reviewUnfundedFundingSource)
      /\ Sound(FundingSourceCalls.sandboxSetFundingSourceToRequireRefresh)
      /\ Sound(FundingSourceCalls.cancelProvisionalFundingSource)
  BY <1>2, FundingSourceSelections DEF FundingSourceCalls
<1>4. Sound(FundingSourceCalls.getFundingSource)
  BY FundingSourceSelections, FundingSourceSuits, AbsentSuits, SuitableIsSound
     DEF FundingSourceCalls
<1>5. /\ Sound(FundingSourceCalls.listFundingSources)
      /\ Sound(FundingSourceCalls.listProvisionalFundingSources)
  BY FundingSourceSelections, FundingSourceSuits, SuitableIsSound DEF FundingSourceCalls
<1>6. QED  BY <1>1, <1>3, <1>4, <1>5 DEF FundingSourceOperations

LEMMA CardSelections ==
  /\ provisionVirtualCard.document.selection = ProvisionalCardFragment
  /\ updateVirtualCard.document.selection = SealedCardWithLastTransactionFragment
  /\ cancelVirtualCard.document.selection = SealedCardWithLastTransactionFragment
  /\ getVirtualCard.document.selection = SealedCardWithLastTransactionFragment
  /\ listVirtualCards.document.selection = Page(SealedCardWithLastTransactionFragment)
  /\ getProvisionalCard.document.selection = ProvisionalCardFragment
  /\ listProvisionalCards.document.selection = Page(ProvisionalCardFragment)
BY DEF provisionVirtualCard, ProvisionVirtualCard, updateVirtualCard,
       UpdateVirtualCard, cancelVirtualCard, CancelVirtualCard, getVirtualCard,
       GetCard, listVirtualCards, ListCards, getProvisionalCard, GetProvisionalCard,
       listProvisionalCards, ListProvisionalCards, Mutate, Ask, Mutation, Query

CardOperations ==
  {"provisionVirtualCard", "updateVirtualCard", "cancelVirtualCard",
   "getVirtualCard", "listVirtualCards", "getProvisionalCard",
   "listProvisionalCards"}

LEMMA CardTable ==
  /\ DOMAIN CardCalls = CardOperations
  /\ \A op \in CardOperations : Sound(CardCalls[op])
<1>1. DOMAIN CardCalls = CardOperations
  BY DEF CardCalls, CardOperations
<1>2. /\ Sound(CardCalls.updateVirtualCard)
      /\ Sound(CardCalls.cancelVirtualCard)
      /\ Sound(CardCalls.listVirtualCards)
  BY CardSelections, CardSuits, SuitableIsSound DEF CardCalls
<1>3. Sound(CardCalls.getVirtualCard)
  BY CardSelections, CardSuits, AbsentSuits, SuitableIsSound DEF CardCalls
<1>4. /\ Sound(CardCalls.provisionVirtualCard)
      /\ Sound(CardCalls.listProvisionalCards)
  BY CardSelections, ProvisionalCardSuits, SuitableIsSound DEF CardCalls
<1>5. Sound(CardCalls.getProvisionalCard)
  BY CardSelections, ProvisionalCardSuits, AbsentSuits, SuitableIsSound DEF CardCalls
<1>6. QED  BY <1>1, <1>2, <1>3, <1>4, <1>5 DEF CardOperations

LEMMA TransactionSelections ==
  /\ getTransaction.document.selection = SealedTransactionFragment
  /\ listTransactions.document.selection = Page(SealedTransactionFragment)
  /\ listTransactionsByCardId.document.selection = Page(SealedTransactionFragment)
  /\ listTransactionsByCardIdAndType.document.selection
       = Page(SealedTransactionFragment)
BY DEF getTransaction, GetTransaction, listTransactions, ListTransactions,
       listTransactionsByCardId, ListTransactionsByCardId,
       listTransactionsByCardIdAndType, ListTransactionsByCardIdAndType, Ask, Query

TransactionOperations ==
  {"getTransaction", "listTransactions", "listTransactionsByCardId",
   "listTransactionsByCardIdAndType"}

LEMMA TransactionTable ==
  /\ DOMAIN TransactionCalls = TransactionOperations
  /\ \A op \in TransactionOperations : Sound(TransactionCalls[op])
<1>1. DOMAIN TransactionCalls = TransactionOperations
  BY DEF TransactionCalls, TransactionOperations
<1>2. Sound(TransactionCalls.getTransaction)
  BY TransactionSelections, TransactionSuits, AbsentSuits, SuitableIsSound
     DEF TransactionCalls
<1>3. /\ Sound(TransactionCalls.listTransactions)
      /\ Sound(TransactionCalls.listTransactionsByCardId)
      /\ Sound(TransactionCalls.listTransactionsByCardIdAndType)
  BY TransactionSelections, TransactionSuits, SuitableIsSound DEF TransactionCalls
<1>4. QED  BY <1>1, <1>2, <1>3 DEF TransactionOperations

LEMMA OtherSelections ==
  /\ getVirtualCardsConfig.document.selection = VirtualCardsConfigFragment
  /\ getFundingSourceClientConfiguration.document.selection = Leaves({"data"})
  /\ sandboxGetPlaidData.document.selection = SandboxGetPlaidData.selection
  /\ createPublicKey.document.selection = PublicKeyFragment
  /\ getPublicKey.document.selection = PublicKeyFragment
  /\ getPublicKeys.document.selection = Page(PublicKeyFragment)
  /\ getKeyRing.document.selection = Page(PublicKeyFragment)
  /\ onFundingSourceUpdate.document.selection = FundingSourceSelection
BY DEF getVirtualCardsConfig, GetVirtualCardsConfig,
       getFundingSourceClientConfiguration, GetFundingSourceClientConfiguration,
       sandboxGetPlaidData, createPublicKey, CreatePublicKey, getPublicKey,
       GetPublicKey, getPublicKeys, GetPublicKeys, getKeyRing, GetKeyRing,
       onFundingSourceUpdate, OnFundingSourceUpdate, PaginatedPublicKeyFragment,
       Mutate, Ask, Mutation, Query

OtherOperations ==
  {"getVirtualCardsConfig", "getFundingSourceClientConfiguration",
   "sandboxGetPlaidData", "createPublicKey", "getPublicKey", "getPublicKeys",
   "getKeyRing", "onFundingSourceUpdate"}

LEMMA OtherTable ==
  /\ DOMAIN OtherCalls = OtherOperations
  /\ \A op \in OtherOperations \ {"onFundingSourceUpdate"} : Sound(OtherCalls[op])
  /\ SoundUnlessAbsent(OtherCalls.onFundingSourceUpdate)
<1>1. DOMAIN OtherCalls = OtherOperations
  BY DEF OtherCalls, OtherOperations
<1>2. /\ Suits(VirtualCardsConfigFragment, VirtualCardsConfigHandling,
                VirtualCardsConfigNulls)
      /\ Suits(SandboxGetPlaidData.selection, SandboxPlaidDataHandling,
                SandboxGetPlaidDataNulls)
      /\ Suits(Leaves({"data"}), Handling({<<"data">>}, {}), {})
  <2>1. Handling({<<"data">>}, {}).reads \subseteq Leaves({"data"})
    BY HandlingParts DEF Leaves
  <2>2. QED  BY <2>1, VirtualCardsConfigKind, SandboxPlaidDataKind, TestedSuits
<1>3. /\ Sound(OtherCalls.getVirtualCardsConfig)
      /\ Sound(OtherCalls.getFundingSourceClientConfiguration)
      /\ Sound(OtherCalls.sandboxGetPlaidData)
  BY <1>2, OtherSelections, SuitableIsSound DEF OtherCalls
<1>4. /\ Sound(OtherCalls.createPublicKey)
      /\ Sound(OtherCalls.getPublicKeys)
      /\ Sound(OtherCalls.getKeyRing)
  BY OtherSelections, PublicKeySuits, SuitableIsSound DEF OtherCalls
<1>5. Sound(OtherCalls.getPublicKey)
  <2>1. MaybeAbsent(Handling({}, {})) = Handling({}, {<<>>})
    BY DEF MaybeAbsent, Both, Handling
  <2>2. Suits(PublicKeyFragment, Handling({}, {<<>>}), Optional(PublicKeyNulls))
    BY <2>1, PublicKeySuits, AbsentSuits
  <2>3. QED  BY <2>2, OtherSelections, SuitableIsSound DEF OtherCalls
<1>6. SoundUnlessAbsent(OtherCalls.onFundingSourceUpdate)
  BY OtherSelections, FundingSourceSuits, SuitableUnlessAbsent DEF OtherCalls
<1>7. QED  BY <1>1, <1>3, <1>4, <1>5, <1>6 DEF OtherOperations

\* The tables have no operation in common.
LEMMA CallTables ==
  /\ DOMAIN Calls = FundingSourceOperations \cup CardOperations
                      \cup TransactionOperations \cup OtherOperations
  /\ \A op \in FundingSourceOperations : Calls[op] = FundingSourceCalls[op]
  /\ \A op \in CardOperations : Calls[op] = CardCalls[op]
  /\ \A op \in TransactionOperations : Calls[op] = TransactionCalls[op]
  /\ \A op \in OtherOperations : Calls[op] = OtherCalls[op]
<1> DEFINE A == FundingSourceOperations
           B == CardOperations
           C == TransactionOperations
           D == OtherOperations
           All == A \cup B \cup C \cup D
<1>1. /\ DOMAIN FundingSourceCalls = A /\ DOMAIN CardCalls = B
      /\ DOMAIN TransactionCalls = C /\ DOMAIN OtherCalls = D
  BY FundingSourceTable, CardTable, TransactionTable, OtherTable
<1>2. /\ A \cap B = {} /\ A \cap C = {} /\ A \cap D = {}
      /\ B \cap C = {} /\ B \cap D = {} /\ C \cap D = {}
  BY DEF FundingSourceOperations, CardOperations, TransactionOperations,
         OtherOperations
<1> HIDE DEF A, B, C, D
<1>3. \A op \in A : op \notin B /\ op \notin C /\ op \notin D
  BY <1>2
<1>4. \A op \in B : op \notin A /\ op \notin C /\ op \notin D
  BY <1>2
<1>5. \A op \in C : op \notin A /\ op \notin B /\ op \notin D
  BY <1>2
<1>6. \A op \in D : op \notin A /\ op \notin B /\ op \notin C
  BY <1>2
<1> DEFINE first == Joined(FundingSourceCalls, CardCalls)
           second == Joined(TransactionCalls, OtherCalls)
<1>7. /\ DOMAIN first = A \cup B
      /\ \A op \in A \cup B :
           first[op] = IF op \in A THEN FundingSourceCalls[op] ELSE CardCalls[op]
  BY <1>1 DEF Joined
<1>8. /\ DOMAIN second = C \cup D
      /\ \A op \in C \cup D :
           second[op] = IF op \in C THEN TransactionCalls[op] ELSE OtherCalls[op]
  BY <1>1 DEF Joined
<1>9. Calls = Joined(first, second)
  BY DEF Calls
<1> HIDE DEF first, second
<1>10. /\ DOMAIN Calls = All
       /\ \A op \in All :
            Calls[op] = IF op \in A \cup B THEN first[op] ELSE second[op]
  BY <1>7, <1>8, <1>9 DEF Joined
<1>11. /\ \A op \in A : Calls[op] = FundingSourceCalls[op]
       /\ \A op \in B : Calls[op] = CardCalls[op]
  BY <1>3, <1>4, <1>7, <1>10
<1>12. /\ \A op \in C : Calls[op] = TransactionCalls[op]
       /\ \A op \in D : Calls[op] = OtherCalls[op]
  BY <1>5, <1>6, <1>8, <1>10
<1>13. QED  BY <1>10, <1>11, <1>12 DEF A, B, C, D

LEMMA EveryAnswerSuffices ==
  ASSUME NEW op \in DOMAIN Calls
  PROVE  IF op = "onFundingSourceUpdate" THEN SoundUnlessAbsent(Calls[op])
         ELSE Sound(Calls[op])
<1>1. CASE op = "onFundingSourceUpdate"
  <2>1. op \in OtherOperations
    BY <1>1 DEF OtherOperations
  <2>2. QED  BY <1>1, <2>1, CallTables, OtherTable
<1>2. CASE op # "onFundingSourceUpdate"
  BY <1>2, CallTables, FundingSourceTable, CardTable, TransactionTable, OtherTable
<1>3. QED  BY <1>1, <1>2

-----------------------------------------------------------------------------
(* How a call ends.                                                        *)

\* No class of error is the outcome of an answer that cannot be read.
LEMMA ErrorsAreNoBreak ==
  ASSUME NEW r, Refusable(r) \/ r \in Unanswered
  PROVE  MapGraphQLCallError(r) # "broken"
<1>1. CASE r \in Unanswered
  BY <1>1 DEF Unanswered, MapGraphQLCallError, UnansweredClass, Plain, Reply
<1>2. ASSUME NEW code \in Codes, NEW f \in Forms, NEW info \in Infos,
             r = Refused(code, f, info)
      PROVE  MapGraphQLCallError(r) # "broken"
  <2>1. /\ r.code = code /\ r.form = f /\ r.info = info
        /\ MapGraphQLCallError(r) = ToClientError(r)
    BY <1>2 DEF Refused, Reply, MapGraphQLCallError
  <2>2. CASE code \in DOMAIN ErrorClass
    <3>1. \A c \in DOMAIN ErrorClass :
            ErrorClass[c] \in ClassNames \cup DOMAIN OtherNames
      BY DEF ErrorClass
    <3>2. "broken" \notin ClassNames \cup DOMAIN OtherNames
      BY DEF ClassNames, OtherNames
    <3>3. ToClientError(r) = ErrorClass[code]
      BY <2>1, <2>2 DEF ToClientError
    <3>4. QED  BY <2>1, <2>2, <3>1, <3>2, <3>3
  <2>3. CASE code \notin DOMAIN ErrorClass
    BY <2>1, <2>3 DEF ToClientError, MapGraphQLToClientError, CommonErrors, Interaction
  <2>4. QED  BY <2>2, <2>3
<1>3. QED  BY <1>1, <1>2 DEF Refusable

OneNull(op) == {{}} \cup {{m} : m \in Calls[op].nulls}

\* A call that failed, was not sent or was answered, with the options and nulls
\* its tables have.
Ended(op) ==
  \/ \E g \in Given(op) \cup {{}} : \E r, fits :
       Fails(op, g, r, fits) /\ MapGraphQLCallError(r) # "broken"
  \/ \E e, fits : NotSent(op, e, fits)
  \/ \E n \in OneNull(op) : \E o, fits :
       Succeeds(op, n, o, fits) /\ o # "broken"

LEMMA NullsAreOne ==
  ASSUME NEW op, NEW S
  PROVE  Nulls(op, S) \subseteq OneNull(op)
BY DEF Nulls, OneNull

LEMMA FailureEnds ==
  ASSUME NEW op, NEW r, NEW fits, Fails(op, {}, r, fits),
         Refusable(r) \/ r \in Unanswered
  PROVE  Ended(op)
<1>1. MapGraphQLCallError(r) # "broken"
  BY ErrorsAreNoBreak
<1>2. QED  BY <1>1 DEF Ended

LEMMA OneNullEnds ==
  ASSUME NEW op, NEW n \in OneNull(op), NEW o, NEW fits,
         Succeeds(op, n, o, fits), o # "broken"
  PROVE  Ended(op)
BY DEF Ended

LEMMA AnswerEnds ==
  ASSUME NEW op, NEW S, NEW n \in Nulls(op, S), NEW o, NEW fits,
         Succeeds(op, n, o, fits), o # "broken"
  PROVE  Ended(op)
BY NullsAreOne, OneNullEnds

LEMMA ResultEnds ==
  ASSUME NEW op, NEW S, NEW n \in Nulls(op, S), Succeeds(op, n, "result", FALSE)
  PROVE  Ended(op)
<1> DEFINE o == "result"
<1>1. o # "broken"
  OBVIOUS
<1>2. Succeeds(op, n, o, FALSE)
  OBVIOUS
<1> HIDE DEF o
<1>3. QED  BY <1>1, <1>2, AnswerEnds

LEMMA AbsentEnds ==
  ASSUME NEW op, <<>> \in Calls[op].nulls, Succeeds(op, {<<>>}, "absent", FALSE)
  PROVE  Ended(op)
<1> DEFINE o == "absent"
           n == {<<>>}
<1>1. o # "broken" /\ Succeeds(op, n, o, FALSE)
  OBVIOUS
<1>2. n \in OneNull(op)
  BY DEF OneNull
<1> HIDE DEF o, n
<1>3. QED  BY <1>1, <1>2, OneNullEnds

LEMMA TellingEnds ==
  ASSUME NEW op, NEW i, NEW s, NEW fits, Tells(op, i, s, fits)
  PROVE  Ended(op)
<1>1. ASSUME NEW k, NEW n \in Nulls(op, {s}),
             Succeeds(op, n, FundingSourceOutcome(s, k), fits)
      PROVE  Ended(op)
  <2> DEFINE o == FundingSourceOutcome(s, k)
  <2>1. o # "broken" /\ Succeeds(op, n, o, fits)
    BY <1>1, ReadOutcomes
  <2> HIDE DEF o
  <2>2. QED  BY <2>1, AnswerEnds
<1>2. CASE \E r \in Losses : Fails(op, {}, r, fits)
  BY <1>2, LossesUnanswered, FailureEnds
<1>3. QED  BY <1>1, <1>2 DEF Tells

LEMMA UnsentEnds ==
  ASSUME NEW op, NEW e, NEW fits, NotSent(op, e, fits)
  PROVE  Ended(op)
BY DEF Ended

\* The service may refuse any call with an error of its own.
R(code, info) == Refused(code, "result", info)

LEMMA ServiceErrors ==
  /\ Refusable(R("ServiceError", NoInfo))
  /\ Refusable(R("FundingSourceNotFoundError", NoInfo))
  /\ Refusable(R("FundingSourceStateError", NoInfo))
  /\ Refusable(R("ProvisionalFundingSourceNotFoundError", NoInfo))
  /\ Refusable(R("FundingSourceCompletionDataInvalidError", NoInfo))
  /\ \A info \in Infos : Refusable(R(Interaction, info))
  /\ \A r \in Refusals : Refusable(r)
<1>1. NoInfo \in Infos /\ Interaction \in Codes /\ "result" \in Forms
  BY DEF Infos, Codes, Forms
<1>2. {"FundingSourceNotFoundError", "FundingSourceStateError",
       "ProvisionalFundingSourceNotFoundError",
       "FundingSourceCompletionDataInvalidError"} \subseteq Codes
  BY DEF Codes, ErrorClass, ClassNames
<1>3. "ServiceError" \in Codes
  BY DEF Codes, CommonErrors
<1>4. \A code \in Codes, f \in Forms, info \in Infos : Refusable(Refused(code, f, info))
  BY DEF Refusable
<1>5. \A r \in Refusals : Refusable(r)
  BY <1>1, <1>4 DEF Refusals
<1>6. QED  BY <1>1, <1>2, <1>3, <1>4, <1>5 DEF R

LEMMA QuietEnds ==
  ASSUME NEW op \in Operations, Refuse(op) \/ Unheard(op) \/ Look(op)
  PROVE  Ended(op)
<1>1. CASE Refuse(op)
  <2>1. CASE \E g \in Given(op) : Fails(op, g, R("ServiceError", NoInfo), FALSE)
    <3>1. MapGraphQLCallError(R("ServiceError", NoInfo)) # "broken"
      BY ServiceErrors, ErrorsAreNoBreak
    <3>2. QED  BY <2>1, <3>1 DEF Ended
  <2>2. CASE \E r \in Refusals : Fails(op, {}, r, FALSE)
    BY <2>2, ServiceErrors, FailureEnds
  <2>3. QED  BY <1>1, <2>1, <2>2 DEF Refuse, R
<1>2. CASE Unheard(op)
  BY <1>2, FailureEnds DEF Unheard
<1>3. CASE Look(op)
  <2>1. CASE \E S : \E n \in Nulls(op, S) : Succeeds(op, n, "result", FALSE)
    <3>1. PICK S : \E n \in Nulls(op, S) : Succeeds(op, n, "result", FALSE)
      BY <2>1
    <3>2. PICK n \in Nulls(op, S) : Succeeds(op, n, "result", FALSE)
      BY <3>1
    <3>3. QED  BY <3>2, ResultEnds
  <2>2. CASE <<>> \in Calls[op].nulls /\ Succeeds(op, {<<>>}, "absent", FALSE)
    BY <2>2, AbsentEnds
  <2>3. \/ \E n \in Nulls(op, {None, [None EXCEPT !.data = Link]}) :
             Succeeds(op, n, "result", FALSE)
        \/ <<>> \in Calls[op].nulls /\ Succeeds(op, {<<>>}, "absent", FALSE)
    BY <1>3, Zenon DEF Look
  <2>4. QED  BY <2>1, <2>2, <2>3
<1>4. QED  BY <1>1, <1>2, <1>3

LEMMA ListEnds ==
  ASSUME NEW op, NEW S, NEW outcomes, NEW o \in ListOutcome(outcomes),
         outcomes \subseteq {"result", "FatalError", "KeyNotFoundError"},
         NEW n \in Nulls(op, S), Succeeds(op, n, o, FALSE)
  PROVE  Ended(op)
<1>1. o # "broken"
  BY ListAllOrNone
<1>2. QED  BY <1>1, AnswerEnds

LEMMA EveryCallEnds ==
  ASSUME Next
  PROVE  last' = NoCall \/ \E op \in Operations : Ended(op)
<1> DEFINE Goal == last' = NoCall \/ \E op \in Operations : Ended(op)
<1>1. ASSUME NEW op \in Operations, Refuse(op) \/ Unheard(op) \/ Look(op)
      PROVE  Goal
  BY <1>1, QuietEnds
<1>2. ASSUME NEW i \in Ids, NEW d \in Provisioning, setupFundingSourceCall(i, d)
      PROVE  Goal
  <2> DEFINE op == "setupFundingSource"
             s == [state |-> "provisioning", data |-> d, seal |-> NoKey, sound |-> TRUE]
  <2>1. op \in Operations
    BY <1>2 DEF setupFundingSourceCall, Makes
  <2>2. \/ \E n \in Nulls(op, {s}) : Succeeds(op, n, ProvisionalOutcome(s), FALSE)
        \/ \E r \in Losses : Fails(op, {}, r, FALSE)
    BY <1>2 DEF setupFundingSourceCall
  <2> HIDE DEF s, op
  <2>3. Ended(op)
    BY <2>2, ReadOutcomes, AnswerEnds, LossesUnanswered, FailureEnds
  <2>4. QED  BY <2>1, <2>3
<1>3. ASSUME NEW i \in Ids, NEW c \in Completions, completeFundingSourceCall(i, c)
      PROVE  Goal
  <2> DEFINE op == "completeFundingSource"
  <2>1. op \in Operations
    BY <1>3 DEF completeFundingSourceCall, Makes
  <2>2. \/ \E e, fits : NotSent(op, e, fits)
        \/ \E fits : Fails(op, {}, R("ProvisionalFundingSourceNotFoundError", NoInfo),
                           fits)
        \/ \E fits : Fails(op, {}, R("FundingSourceCompletionDataInvalidError",
                                   NoInfo), fits)
        \/ \E fits : \E info \in Infos : Fails(op, {}, R(Interaction, info), fits)
        \/ \E s, fits : Tells(op, i, s, fits)
    BY <1>3 DEF completeFundingSourceCall, R
  <2>3. Ended(op)
    BY <2>2, ServiceErrors, FailureEnds, TellingEnds, UnsentEnds
  <2>4. QED  BY <2>1, <2>3
<1>4. ASSUME NEW i \in Ids, NEW r \in Refreshments, refreshFundingSourceCall(i, r)
      PROVE  Goal
  <2> DEFINE op == "refreshFundingSource"
  <2>1. op \in Operations
    BY <1>4 DEF refreshFundingSourceCall, Makes
  <2>2. \/ \E e : NotSent(op, e, FALSE)
        \/ Fails(op, {}, R("FundingSourceNotFoundError", NoInfo), FALSE)
        \/ Fails(op, {}, R("FundingSourceStateError", NoInfo), FALSE)
        \/ \E info \in Infos : Fails(op, {}, R(Interaction, info), FALSE)
        \/ \E s : Tells(op, i, s, FALSE)
    BY <1>4 DEF refreshFundingSourceCall, R
  <2>3. Ended(op)
    BY <2>2, ServiceErrors, FailureEnds, TellingEnds, UnsentEnds
  <2>4. QED  BY <2>1, <2>3
<1>5. ASSUME NEW i \in Ids, NEW op \in ByIdAlone, changeFundingSourceCall(op, i)
      PROVE  Goal
  <2>1. op \in Operations
    BY <1>5 DEF changeFundingSourceCall, Makes
  <2>2. \/ Fails(op, {}, R("FundingSourceNotFoundError", NoInfo), FALSE)
        \/ \E s : Tells(op, i, s, FALSE)
    BY <1>5 DEF changeFundingSourceCall, R
  <2>3. QED  BY <2>1, <2>2, ServiceErrors, FailureEnds, TellingEnds
<1>6. ASSUME NEW i \in Ids, getFundingSourceCall(i)
      PROVE  Goal
  <2> DEFINE op == "getFundingSource"
  <2>1. op \in Operations
    BY <1>6 DEF getFundingSourceCall, Makes
  <2>2. CASE \E s : Tells(op, i, s, FALSE)
    BY <2>1, <2>2, TellingEnds
  <2>3. CASE Succeeds(op, {<<>>}, "absent", FALSE)
    <3>1. Calls[op].nulls = Optional(FundingSourceNulls)
      <4>1. Calls[op] = FundingSourceCalls.getFundingSource
        BY CallTables DEF FundingSourceOperations
      <4>2. FundingSourceCalls.getFundingSource.nulls = Optional(FundingSourceNulls)
        BY DEF FundingSourceCalls, Entry
      <4>3. QED  BY <4>1, <4>2
    <3>2. Ended(op)
      BY <2>3, <3>1, AbsentEnds DEF Optional
    <3>3. QED  BY <2>1, <3>2
  <2>4. QED  BY <1>6, <2>2, <2>3 DEF getFundingSourceCall
<1>7. ASSUME NEW i \in Ids, cancelProvisionalFundingSourceCall(i)
      PROVE  Goal
  <2> DEFINE op == "cancelProvisionalFundingSource"
  <2>1. op \in Operations
    BY <1>7 DEF cancelProvisionalFundingSourceCall, Makes
  <2>2. \/ Fails(op, {}, R("FundingSourceNotFoundError", NoInfo), FALSE)
        \/ \E s : \E n \in Nulls(op, {s}) :
             Succeeds(op, n, ProvisionalOutcome(s), FALSE)
        \/ \E r \in Losses : Fails(op, {}, r, FALSE)
    BY <1>7 DEF cancelProvisionalFundingSourceCall, R
  <2>3. Ended(op)
    BY <2>2, ServiceErrors, ReadOutcomes, AnswerEnds, LossesUnanswered, FailureEnds
  <2>4. QED  BY <2>1, <2>3
<1>8. ASSUME NEW i \in Ids, provisionVirtualCardCall(i)
      PROVE  Goal
  <2> DEFINE op == "provisionVirtualCard"
  <2>1. op \in Operations
    BY <1>8 DEF provisionVirtualCardCall, Makes
  <2>2. \/ \E n \in Nulls(op, {None}) : Succeeds(op, n, "result", FALSE)
        \/ \E r \in Losses : Fails(op, {}, r, FALSE)
    BY <1>8 DEF provisionVirtualCardCall
  <2>3. Ended(op)
    BY <2>2, ResultEnds, LossesUnanswered, FailureEnds
  <2>4. QED  BY <2>1, <2>3
<1>9. ASSUME listProvisionalFundingSourcesCall
      PROVE  Goal
  <2> DEFINE op == "listProvisionalFundingSources"
             items == Ids \ In({"none"})
             outcomes == {ProvisionalOutcome(source[i]) : i \in items}
  <2>1. op \in Operations
    BY <1>9 DEF listProvisionalFundingSourcesCall, Makes
  <2>2. PICK o \in ListOutcome(outcomes) :
          \E n \in Nulls(op, {source[i] : i \in items}) : Succeeds(op, n, o, FALSE)
    BY <1>9 DEF listProvisionalFundingSourcesCall
  <2>3. outcomes \subseteq {"result", "FatalError", "KeyNotFoundError"}
    BY ReadOutcomes
  <2> HIDE DEF items, outcomes, op
  <2>4. Ended(op)
    BY <2>2, <2>3, ListEnds
  <2>5. QED  BY <2>1, <2>4
<1>10. ASSUME listFundingSourcesCall
       PROVE  Goal
  <2> DEFINE op == "listFundingSources"
             items == In(Finished)
  <2>1. op \in Operations
    BY <1>10 DEF listFundingSourcesCall, Makes
  <2>2. PICK seen \in [items -> held'] :
          \E o \in ListOutcome({FundingSourceOutcome(source[i], seen[i]) : i \in items}),
             n \in Nulls(op, {source[i] : i \in items}) : Succeeds(op, n, o, FALSE)
    BY <1>10 DEF listFundingSourcesCall
  <2> DEFINE outcomes == {FundingSourceOutcome(source[i], seen[i]) : i \in items}
  <2>3. PICK o \in ListOutcome(outcomes) :
          \E n \in Nulls(op, {source[i] : i \in items}) : Succeeds(op, n, o, FALSE)
    BY <2>2
  <2>4. outcomes \subseteq {"result", "FatalError", "KeyNotFoundError"}
    BY ReadOutcomes
  <2> HIDE DEF items, outcomes, op
  <2>5. Ended(op)
    BY <2>3, <2>4, ListEnds
  <2>6. QED  BY <2>1, <2>5
<1>11. ASSUME changeKeys \/ goOn
       PROVE  Goal
  BY <1>11 DEF changeKeys, goOn
<1>12. QED
  BY <1>1, <1>2, <1>3, <1>4, <1>5, <1>6, <1>7, <1>8, <1>9, <1>10, <1>11 DEF Next

-----------------------------------------------------------------------------
\* Whatever may be null in an answer, the SDK makes a result of it, unless it is a
\* change that is null as a whole: it reads only what the document asked for, and
\* tests every other field the schema lets be null before it uses it (the documents
\* of gen/graphqlTypes.ts, unsealing and the transformers of all operations).
THEOREM AnswersReadable == Spec => []AnswersSuffice
<1>1. Init => AnswersSuffice
  BY DEF Init, AnswersSuffice, NoCall, Call
<1>2. ASSUME AnswersSuffice, [Next]_vars
      PROVE  AnswersSuffice'
  <2>1. CASE UNCHANGED vars
    BY <1>2, <2>1 DEF vars, AnswersSuffice
  <2>2. CASE last' = NoCall
    BY <2>2 DEF AnswersSuffice, NoCall, Call
  <2>3. ASSUME NEW op \in Operations, Ended(op)
        PROVE  AnswersSuffice'
    <3>1. ASSUME NEW n \in OneNull(op), Breaks(Calls[op], n)
          PROVE  op = "onFundingSourceUpdate" /\ n = {<<>>}
      BY <3>1, OperationsAssumption, EveryAnswerSuffices
         DEF OneNull, Breaks, Sound, SoundUnlessAbsent
    <3>2. CASE \E n \in OneNull(op) : \E o, fits :
                 Succeeds(op, n, o, fits) /\ o # "broken"
      BY <3>1, <3>2 DEF Succeeds, Call, AnswersSuffice
    <3>3. CASE \E g \in Given(op) \cup {{}} : \E r, fits :
                 Fails(op, g, r, fits) /\ MapGraphQLCallError(r) # "broken"
      BY <3>3 DEF Fails, Call, AnswersSuffice
    <3>4. CASE \E e, fits : NotSent(op, e, fits)
      BY <3>4 DEF NotSent, Call, AnswersSuffice
    <3>5. QED  BY <2>3, <3>2, <3>3, <3>4 DEF Ended
  <2>4. QED  BY <1>2, <2>1, <2>2, <2>3, EveryCallEnds
<1>3. QED  BY <1>1, <1>2, PTL DEF Spec

-----------------------------------------------------------------------------
(* Requests and the options of the host.                                   *)

\* The service takes what is always sent, every option offered is passed on, and
\* to a field the service knows.
OptionsFit(op, options, passes, fields) ==
  /\ \A o \in options : <<op, o>> \notin Withheld => o \in DOMAIN passes
  /\ \A o \in DOMAIN passes : passes[o] \in fields

Carries(op, r, options) ==
  /\ Leaves(r.sent) \subseteq r.declared
  /\ r.required \subseteq r.sent
  /\ r.wrapped => r.document.variables = {"input"}
  /\ OptionsFit(op, options, r.passes, r.declared)

LEMMA NothingToFit ==
  ASSUME NEW op, NEW fields
  PROVE  OptionsFit(op, {}, NoOption, fields)
BY DEF OptionsFit, NoOption

LEMMA SameToFit ==
  ASSUME NEW op, NEW options, NEW S, NEW T,
         \A o \in options : <<op, o>> \notin Withheld => o \in Leaves(S), S \subseteq T
  PROVE  OptionsFit(op, options, Same(S), Leaves(T))
BY DEF OptionsFit, Same, Leaves

LEMMA MoreFieldsFit ==
  ASSUME NEW op, NEW options, NEW passes, NEW S, NEW T,
         OptionsFit(op, options, passes, S), S \subseteq T
  PROVE  OptionsFit(op, options, passes, T)
BY DEF OptionsFit

LEMMA MutationCarries ==
  ASSUME NEW op, NEW root, NEW S, NEW t, NEW sent, NEW passes, NEW options,
         t.required \subseteq sent, sent \subseteq t.required \cup t.optional,
         OptionsFit(op, options, passes, Leaves(t.required \cup t.optional))
  PROVE  Carries(op, Mutate(Mutation(root, S), t, sent, passes), options)
<1> DEFINE r == Mutate(Mutation(root, S), t, sent, passes)
<1>1. /\ r.sent = sent /\ r.required = t.required /\ r.passes = passes
      /\ r.declared = Leaves(t.required \cup t.optional)
      /\ r.document.variables = {"input"}
  BY DEF Mutate, Mutation, Query
<1> HIDE DEF r
<1>2. Leaves(sent) \subseteq Leaves(t.required \cup t.optional)
  BY LeavesGrow
<1>3. Carries(op, r, options)
  BY <1>1, <1>2 DEF Carries
<1>4. QED  BY <1>3 DEF r

LEMMA QueryCarries ==
  ASSUME NEW op, NEW root, NEW required, NEW optional, NEW S, NEW filter, NEW sent,
         NEW passes, NEW options,
         required \subseteq sent, sent \subseteq required \cup optional,
         OptionsFit(op, options, passes,
              Leaves(required \cup optional) \cup {<<"filter", p>> : p \in filter})
  PROVE  Carries(op, Ask(Query(root, required, optional, S), filter, sent, passes),
                 options)
<1> DEFINE r == Ask(Query(root, required, optional, S), filter, sent, passes)
<1>1. /\ r.sent = sent /\ r.required = required /\ r.passes = passes
      /\ r.declared = Leaves(required \cup optional)
                        \cup {<<"filter", p>> : p \in filter}
      /\ ~r.wrapped
  BY DEF Ask, Query
<1> HIDE DEF r
<1>2. Leaves(sent) \subseteq Leaves(required \cup optional)
  BY LeavesGrow
<1>3. Carries(op, r, options)
  BY <1>1, <1>2 DEF Carries
<1>4. QED  BY <1>3 DEF r

LEMMA PlainMutations ==
  /\ Carries("cancelFundingSource", cancelFundingSource, {})
  /\ Carries("reviewUnfundedFundingSource", reviewUnfundedFundingSource, {})
  /\ Carries("cancelProvisionalFundingSource", cancelProvisionalFundingSource, {})
  /\ Carries("sandboxSetFundingSourceToRequireRefresh",
             sandboxSetFundingSourceToRequireRefresh, {})
  /\ Carries("cancelVirtualCard", cancelVirtualCard, {})
  /\ Carries("createPublicKey", createPublicKey, {})
<1>1. ASSUME NEW op, NEW root, NEW S, NEW t, NEW sent,
             t.required \subseteq sent, sent \subseteq t.required \cup t.optional
      PROVE  Carries(op, Mutate(Mutation(root, S), t, sent, NoOption), {})
  BY <1>1, NothingToFit, MutationCarries
<1>2. /\ {"id"} = IdInput.required /\ {"id"} = CardCancelRequest.required
      /\ {"fundingSourceId"}
           = SandboxSetFundingSourceToRequireRefreshRequest.required
  BY DEF IdInput, CardCancelRequest, SandboxSetFundingSourceToRequireRefreshRequest,
         InputType
<1>3. LET sent == {"algorithm", "keyFormat", "keyId", "keyRingId", "publicKey"} IN
      /\ CreatePublicKeyInput.required \subseteq sent
      /\ sent \subseteq CreatePublicKeyInput.required \cup CreatePublicKeyInput.optional
  BY DEF CreatePublicKeyInput, InputType
<1>4. Carries("createPublicKey", createPublicKey, {})
  BY <1>1, <1>3 DEF createPublicKey, CreatePublicKey
<1>5. QED
  BY <1>1, <1>2, <1>4
     DEF cancelFundingSource, CancelFundingSource, reviewUnfundedFundingSource,
         ReviewUnfundedFundingSource, cancelProvisionalFundingSource,
         CancelProvisionalFundingSource, sandboxSetFundingSourceToRequireRefresh,
         SandboxSetFundingSourceToRequireRefresh, cancelVirtualCard, CancelVirtualCard

\* Options known not to arrive: the language of a setup, and the reference of a
\* card, which the use case draws anew.
LostOptions ==
  {<<"setupFundingSource", <<"language">>>>,
   <<"provisionVirtualCard", <<"clientRefId">>>>}

LEMMA FundingSourceMutations ==
  ASSUME LostOptions \subseteq Withheld
  PROVE  /\ Carries("setupFundingSource", setupFundingSource, SetupFundingSourceInput)
         /\ Carries("completeFundingSource", completeFundingSource,
                    CompleteFundingSourceInput)
         /\ Carries("refreshFundingSource", refreshFundingSource,
                    RefreshFundingSourceInput)
<1>1. Carries("setupFundingSource", setupFundingSource, SetupFundingSourceInput)
  <2> DEFINE op == "setupFundingSource"
             t == SetupFundingSourceRequest
             sent == {"currency", "type", "setupData"}
             fields == t.required \cup t.optional
             passes == Same({"supportedProviders"})
  <2>1. /\ t.required \subseteq sent /\ sent \subseteq fields
        /\ {"supportedProviders"} \subseteq fields
    BY DEF SetupFundingSourceRequest, InputType
  <2>2. <<op, <<"language">>>> \in Withheld
    BY DEF LostOptions
  <2>3. \A o \in SetupFundingSourceInput :
          <<op, o>> \notin Withheld => o \in Leaves({"supportedProviders"})
    BY <2>2 DEF SetupFundingSourceInput, Leaves
  <2> HIDE DEF t, op
  <2>4. OptionsFit(op, SetupFundingSourceInput, passes, Leaves(fields))
    BY <2>1, <2>3, SameToFit
  <2>5. Carries(op, Mutate(SetupFundingSource, t, sent, passes), SetupFundingSourceInput)
    BY <2>1, <2>4, MutationCarries DEF SetupFundingSource
  <2>6. QED  BY <2>5 DEF t, op, setupFundingSource
<1>2. Carries("completeFundingSource", completeFundingSource, CompleteFundingSourceInput)
  <2> DEFINE op == "completeFundingSource"
             t == CompleteFundingSourceRequest
             sent == {"id", "completionData"}
             fields == t.required \cup t.optional
             passes == Same({"updateCardFundingSource"})
  <2>1. /\ t.required \subseteq sent /\ sent \subseteq fields
        /\ {"updateCardFundingSource"} \subseteq fields
    BY DEF CompleteFundingSourceRequest, InputType
  <2> HIDE DEF t, op
  <2>2. OptionsFit(op, CompleteFundingSourceInput, passes, Leaves(fields))
    BY <2>1, SameToFit DEF CompleteFundingSourceInput
  <2>3. Carries(op, Mutate(CompleteFundingSource, t, sent, passes),
                CompleteFundingSourceInput)
    BY <2>1, <2>2, MutationCarries DEF CompleteFundingSource
  <2>4. QED  BY <2>3 DEF t, op, completeFundingSource
<1>3. Carries("refreshFundingSource", refreshFundingSource, RefreshFundingSourceInput)
  <2> DEFINE op == "refreshFundingSource"
             t == RefreshFundingSourceRequest
             sent == {"id", "refreshData"}
             fields == t.required \cup t.optional
             passes == Same({"language"})
  <2>1. /\ t.required \subseteq sent /\ sent \subseteq fields
        /\ {"language"} \subseteq fields
    BY DEF RefreshFundingSourceRequest, InputType
  <2> HIDE DEF t, op
  <2>2. OptionsFit(op, RefreshFundingSourceInput, passes, Leaves(fields))
    BY <2>1, SameToFit DEF RefreshFundingSourceInput
  <2>3. Carries(op, Mutate(RefreshFundingSource, t, sent, passes),
                RefreshFundingSourceInput)
    BY <2>1, <2>2, MutationCarries DEF RefreshFundingSource
  <2>4. QED  BY <2>3 DEF t, op, refreshFundingSource
<1>4. QED  BY <1>1, <1>2, <1>3

LEMMA CardMutations ==
  ASSUME LostOptions \subseteq Withheld
  PROVE  /\ Carries("provisionVirtualCard", provisionVirtualCard,
                    ProvisionVirtualCardInput)
         /\ Carries("updateVirtualCard", updateVirtualCard, UpdateVirtualCardInput)
<1>1. Carries("provisionVirtualCard", provisionVirtualCard, ProvisionVirtualCardInput)
  <2> DEFINE op == "provisionVirtualCard"
             t == CardProvisionRequest
             sent == {"cardHolder", "clientRefId", "currency", "fundingSourceId",
                      "keyRingId", "ownerProofs"}
             fields == t.required \cup t.optional
             passed == {"alias", "billingAddress", "metadata"}
  <2>1. /\ t.required \subseteq sent /\ sent \subseteq fields /\ passed \subseteq fields
    BY DEF CardProvisionRequest, InputType
  <2>2. <<op, <<"clientRefId">>>> \in Withheld
    BY DEF LostOptions
  <2>3. \A o \in ProvisionVirtualCardInput :
          <<op, o>> \notin Withheld => o \in Leaves(passed)
    BY <2>2 DEF ProvisionVirtualCardInput, Leaves
  <2> HIDE DEF t, op
  <2>4. OptionsFit(op, ProvisionVirtualCardInput, Same(passed), Leaves(fields))
    BY <2>1, <2>3, SameToFit
  <2>5. Carries(op, Mutate(ProvisionVirtualCard, t, sent, Same(passed)),
                ProvisionVirtualCardInput)
    BY <2>1, <2>4, MutationCarries DEF ProvisionVirtualCard
  <2>6. QED  BY <2>5 DEF t, op, provisionVirtualCard
<1>2. Carries("updateVirtualCard", updateVirtualCard, UpdateVirtualCardInput)
  <2> DEFINE op == "updateVirtualCard"
             t == CardUpdateRequest
             fields == t.required \cup t.optional
             given == {"expectedCardVersion", "cardHolder", "alias", "billingAddress",
                       "metadata"}
             passes == [o \in Leaves(given) |->
                          IF o = <<"expectedCardVersion">> THEN <<"expectedVersion">>
                          ELSE o]
  <2>1. {"id"} = t.required /\ (given \ {"expectedCardVersion"}) \cup {"expectedVersion"}
                               \subseteq fields
    BY DEF CardUpdateRequest, InputType
  <2>2. UpdateVirtualCardInput = Leaves(given)
    BY DEF UpdateVirtualCardInput, Leaves
  <2> HIDE DEF t, op, given
  <2>3. \A o \in Leaves(given) : passes[o] \in Leaves(fields)
    BY <2>1 DEF Leaves
  <2>4. OptionsFit(op, UpdateVirtualCardInput, passes, Leaves(fields))
    BY <2>2, <2>3 DEF OptionsFit
  <2> HIDE DEF passes
  <2>5. Carries(op, Mutate(UpdateVirtualCard, t, {"id"}, passes), UpdateVirtualCardInput)
    BY <2>1, <2>4, MutationCarries DEF UpdateVirtualCard
  <2>6. QED  BY <2>5 DEF t, op, given, passes, updateVirtualCard
<1>3. QED  BY <1>1, <1>2

LEMMA SandboxMutation == Carries("sandboxGetPlaidData", sandboxGetPlaidData, {})
<1> DEFINE op == "sandboxGetPlaidData"
           t == SandboxGetPlaidDataRequest
           sent == {"institutionId", "username"}
           r == sandboxGetPlaidData
<1>1. sent = t.required
  BY DEF SandboxGetPlaidDataRequest, InputType
<1>2. /\ r.sent = sent /\ r.required = t.required /\ r.passes = NoOption
      /\ r.declared = Leaves(t.required \cup t.optional)
      /\ r.document.variables = {"input"}
  BY DEF sandboxGetPlaidData, SandboxGetPlaidData, Mutate, Query
<1> HIDE DEF t, sent, r, op
<1>3. Carries(op, r, {})
  BY <1>1, <1>2, NothingToFit, LeavesGrow DEF Carries
<1>4. QED  BY <1>3 DEF op, r

LEMMA PlainQueries ==
  /\ Carries("getFundingSource", getFundingSource, {})
  /\ Carries("getVirtualCard", getVirtualCard, {})
  /\ Carries("getProvisionalCard", getProvisionalCard, {})
  /\ Carries("getTransaction", getTransaction, {})
  /\ Carries("getVirtualCardsConfig", getVirtualCardsConfig, {})
  /\ Carries("getFundingSourceClientConfiguration",
             getFundingSourceClientConfiguration, {})
  /\ Carries("getPublicKey", getPublicKey, {})
  /\ Carries("onFundingSourceUpdate", onFundingSourceUpdate, {})
<1>1. ASSUME NEW op, NEW root, NEW required, NEW optional, NEW S, NEW sent,
             required \subseteq sent, sent \subseteq required \cup optional
      PROVE  Carries(op, Ask(Query(root, required, optional, S), {}, sent, NoOption), {})
  BY <1>1, NothingToFit, QueryCarries
<1>2. Carries("getPublicKey", getPublicKey, {})
  BY <1>1 DEF getPublicKey, GetPublicKey
<1>3. QED
  BY <1>1, <1>2
     DEF getFundingSource, GetFundingSource, getVirtualCard, GetCard,
         getProvisionalCard, GetProvisionalCard, getTransaction, GetTransaction,
         getVirtualCardsConfig, GetVirtualCardsConfig,
         getFundingSourceClientConfiguration, GetFundingSourceClientConfiguration,
         onFundingSourceUpdate, OnFundingSourceUpdate

LEMMA PagedQueries ==
  /\ Carries("getPublicKeys", getPublicKeys, Leaves({"limit", "nextToken"}))
  /\ Carries("getKeyRing", getKeyRing, Leaves({"limit", "nextToken", "keyFormats"}))
  /\ Carries("listProvisionalCards", listProvisionalCards, ListProvisionalCardsInput)
  /\ Carries("listTransactions", listTransactions, ListTransactionsInput)
  /\ Carries("listTransactionsByCardId", listTransactionsByCardId,
             ListTransactionsByCardIdInput)
  /\ Carries("listTransactionsByCardIdAndType", listTransactionsByCardIdAndType,
             ListTransactionsByCardIdAndTypeInput)
<1>1. ASSUME NEW op, NEW root, NEW required, NEW optional, NEW S, NEW sent, NEW given,
             sent = required, given \subseteq required \cup optional
      PROVE  Carries(op, Ask(Query(root, required, optional, S), {}, sent, Same(given)),
                     Leaves(given))
  <2> DEFINE fields == Leaves(required \cup optional)
                         \cup {<<"filter", p>> : p \in {}}
  <2>1. OptionsFit(op, Leaves(given), Same(given), Leaves(required \cup optional))
    BY <1>1, SameToFit
  <2>2. Leaves(required \cup optional) \subseteq fields
    OBVIOUS
  <2> HIDE DEF fields
  <2>3. OptionsFit(op, Leaves(given), Same(given), fields)
    BY <2>1, <2>2, MoreFieldsFit
  <2>4. QED  BY <1>1, <2>3, QueryCarries DEF fields
<1>2. Paging = {"limit", "nextToken"}
      /\ Paging \cup {"dateRange", "sortOrder"}
           = {"limit", "nextToken", "dateRange", "sortOrder"}
  BY DEF Paging
<1>3. /\ Carries("getPublicKeys", getPublicKeys, Leaves({"limit", "nextToken"}))
      /\ Carries("listProvisionalCards", listProvisionalCards,
                 ListProvisionalCardsInput)
  BY <1>1, <1>2 DEF getPublicKeys, GetPublicKeys, listProvisionalCards,
                    ListProvisionalCards, ListProvisionalCardsInput
<1>4. Carries("getKeyRing", getKeyRing, Leaves({"limit", "nextToken", "keyFormats"}))
  BY <1>1 DEF getKeyRing, GetKeyRing
<1>5. /\ Carries("listTransactions", listTransactions, ListTransactionsInput)
      /\ Carries("listTransactionsByCardId", listTransactionsByCardId,
                 ListTransactionsByCardIdInput)
  BY <1>1, <1>2 DEF listTransactions, ListTransactions, ListTransactionsInput,
                    listTransactionsByCardId, ListTransactionsByCardId,
                    ListTransactionsByCardIdInput
<1>6. Carries("listTransactionsByCardIdAndType", listTransactionsByCardIdAndType,
              ListTransactionsByCardIdAndTypeInput)
  BY <1>1, <1>2 DEF listTransactionsByCardIdAndType, ListTransactionsByCardIdAndType,
                    ListTransactionsByCardIdAndTypeInput
<1>7. QED  BY <1>3, <1>4, <1>5, <1>6

LEMMA FilteredQueries ==
  /\ Carries("listFundingSources", listFundingSources, ListFundingSourcesInput)
  /\ Carries("listProvisionalFundingSources", listProvisionalFundingSources,
             ListProvisionalFundingSourcesInput)
  /\ Carries("listVirtualCards", listVirtualCards, ListVirtualCardsInput)
<1> DEFINE options == FilterInput \cup Leaves({"sortOrder", "limit", "nextToken"})
<1>1. ASSUME NEW op, NEW root, NEW S, NEW filter,
             {"id", "state", "and", "or", "not"} \subseteq filter
      PROVE  Carries(op, Ask(Query(root, {}, Listing, S), filter, {}, Listed), options)
  <2> DEFINE D == FilterTransformer \cup Leaves(Paging \cup {"sortOrder"})
             fields == Leaves({} \cup Listing) \cup {<<"filter", p>> : p \in filter}
  <2>1. D \subseteq fields
    <3>1. FilterTransformer \subseteq {<<"filter", p>> : p \in filter}
      BY <1>1 DEF FilterTransformer
    <3>2. Leaves(Paging \cup {"sortOrder"}) \subseteq Leaves({} \cup Listing)
      BY LeavesGrow DEF Paging, Listing
    <3>3. QED  BY <3>1, <3>2
  <2>2. options \subseteq D
    BY DEF FilterInput, FilterTransformer, Leaves, Paging
  <2>3. DOMAIN Listed = D /\ \A o \in D : Listed[o] = o
    BY DEF Listed
  <2> HIDE DEF D, fields, options
  <2>4. OptionsFit(op, options, Listed, fields)
    BY <2>1, <2>2, <2>3 DEF OptionsFit
  <2>5. QED  BY <2>4, QueryCarries DEF fields
<1>2. /\ {"id", "state", "and", "or", "not"} \subseteq FundingSourceFilterInput
      /\ {"id", "state", "and", "or", "not"} \subseteq ProvisionalFundingSourceFilterInput
      /\ {"id", "state", "and", "or", "not"} \subseteq CardFilterInput
  BY DEF FundingSourceFilterInput, ProvisionalFundingSourceFilterInput, CardFilterInput
<1>3. /\ ListFundingSourcesInput = options
      /\ ListProvisionalFundingSourcesInput = options
      /\ ListVirtualCardsInput = options
  BY DEF ListFundingSourcesInput, ListProvisionalFundingSourcesInput,
         ListVirtualCardsInput
<1> HIDE DEF options
<1>4. QED
  BY <1>1, <1>2, <1>3
     DEF listFundingSources, ListFundingSources, listProvisionalFundingSources,
         ListProvisionalFundingSources, listVirtualCards, ListCards

LEMMA EveryRequestCarries ==
  ASSUME LostOptions \subseteq Withheld, NEW op \in DOMAIN Calls
  PROVE  Carries(op, Calls[op].request, Calls[op].options)
<1>1. \A r, o, h, N : Entry(r, o, h, N).request = r /\ Entry(r, o, h, N).options = o
  BY DEF Entry
<1> DEFINE C(name, e) == Carries(name, e.request, e.options)
<1>2. \A name \in FundingSourceOperations : C(name, FundingSourceCalls[name])
  BY <1>1, FundingSourceMutations, PlainMutations, PlainQueries, FilteredQueries
     DEF FundingSourceOperations, FundingSourceCalls
<1>3. \A name \in CardOperations : C(name, CardCalls[name])
  BY <1>1, CardMutations, PlainMutations, PlainQueries, PagedQueries, FilteredQueries
     DEF CardOperations, CardCalls
<1>4. \A name \in TransactionOperations : C(name, TransactionCalls[name])
  BY <1>1, PlainQueries, PagedQueries DEF TransactionOperations, TransactionCalls
<1>5. \A name \in OtherOperations : C(name, OtherCalls[name])
  BY <1>1, PlainMutations, SandboxMutation, PlainQueries, PagedQueries
     DEF OtherOperations, OtherCalls
<1> HIDE DEF C
<1>6. C(op, Calls[op])
  BY <1>2, <1>3, <1>4, <1>5, CallTables
<1>7. QED  BY <1>6 DEF C

\* A request that carries the options, with those the host gave.
LEMMA CarriedArrives ==
  ASSUME NEW op, NEW r, NEW options, Carries(op, r, options), NEW given,
         \A g \in given : /\ g = <<g[1], g[2]>> /\ g[1] \in options
                         /\ <<op, g[1]>> \notin Withheld
  PROVE  /\ Accepted(r, Fields(r, given))
         /\ \A g \in given : /\ g[1] \in DOMAIN r.passes
                            /\ <<r.passes[g[1]], g[2]>> \in Fields(r, given)
<1>1. \A g \in given : g[1] \in DOMAIN r.passes
  BY DEF Carries, OptionsFit
<1>2. \A g \in given : <<r.passes[g[1]], g[2]>> \in Fields(r, given)
  BY <1>1 DEF Fields, FormSent
<1>3. \A f \in Fields(r, given) : f[1] \in r.declared
  <2>1. \A f \in Leaves(r.sent) \X {"value"} : f[1] \in r.declared
    BY DEF Carries
  <2>2. \A g \in given : <<r.passes[g[1]], FormSent(g[2])>>[1] \in r.declared
    BY <1>1 DEF Carries, OptionsFit
  <2>3. QED  BY <2>1, <2>2 DEF Fields
<1>4. Leaves(r.required) \X {"value"} \subseteq Fields(r, given)
  <2>1. Leaves(r.required) \subseteq Leaves(r.sent)
    BY LeavesGrow DEF Carries
  <2>2. QED  BY <2>1 DEF Fields
<1>5. QED  BY <1>1, <1>2, <1>3, <1>4 DEF Accepted, Carries

\* What the host gives is offered and not withheld.
LEMMA GivenOffered ==
  ASSUME NEW op, NEW given \in Given(op) \cup {{}}
  PROVE  \A g \in given : /\ g = <<g[1], g[2]>> /\ g[1] \in Calls[op].options
                         /\ <<op, g[1]>> \notin Withheld
<1> DEFINE offered == {o \in Calls[op].options : <<op, o>> \notin Withheld}
           removed == IF op = "updateVirtualCard" THEN offered \cap Removable ELSE {}
<1>1. removed \subseteq offered
  OBVIOUS
<1>2. Given(op) = {{}, offered \X {"value"}}
                    \cup {{<<o, "value">>} : o \in offered}
                    \cup {{<<o, "null">>} : o \in removed}
  BY DEF Given
<1> HIDE DEF removed
<1>3. \A g \in given : g = <<g[1], g[2]>> /\ g[1] \in offered
  <2> HIDE DEF offered
  <2>1. CASE given \in {{}, offered \X {"value"}}
    BY <2>1
  <2>2. CASE given \in {{<<o, "value">>} : o \in offered}
    BY <2>2
  <2>3. CASE given \in {{<<o, "null">>} : o \in removed}
    BY <1>1, <2>3
  <2>4. QED  BY <1>2, <2>1, <2>2, <2>3
<1>4. QED  BY <1>3

\* The service takes every request, and what the host gives of an operation's
\* options is in it, null as null, in a field the service knows: whatever call it
\* is and whichever options are given, alone or together.  The two of LostOptions
\* must be withheld (the use cases, the services and the API client).
THEOREM OptionsArrive ==
  ASSUME LostOptions \subseteq Withheld
  PROVE  Spec => []OptionsReachService
<1>1. Init => OptionsReachService
  BY DEF Init, OptionsReachService, NoCall, Call
<1>2. ASSUME OptionsReachService, [Next]_vars
      PROVE  OptionsReachService'
  <2>1. CASE UNCHANGED vars
    BY <1>2, <2>1 DEF vars, OptionsReachService
  <2>2. CASE last' = NoCall
    BY <2>2 DEF OptionsReachService, NoCall, Call
  <2>3. ASSUME NEW op \in Operations, Ended(op)
        PROVE  OptionsReachService'
    <3>1. last'.op = op /\ last'.given \in Given(op) \cup {{}}
      BY <2>3 DEF Ended, Fails, NotSent, Succeeds, Call
    <3>2. Carries(op, Calls[op].request, Calls[op].options)
      BY OperationsAssumption, EveryRequestCarries
    <3>3. QED  BY <3>1, <3>2, GivenOffered, CarriedArrives DEF OptionsReachService
  <2>4. QED  BY <1>2, <2>1, <2>2, <2>3, EveryCallEnds
<1>3. QED  BY <1>1, <1>2, PTL DEF Spec

=============================================================================
