CONSTANTS
  Ids = {f1, f2}
  Keys = {k1, k2}
  Provisioning <- Offers
  Operations <- AllCalls
  Withheld <- LanguageAndReference
  MaxCards = 1
SYMMETRY Symmetry
SPECIFICATION Spec
INVARIANTS
  TypeOK
  AnswersSuffice
  RefusalsExplained
  OptionsReachService
  CompletionFits
  ListTellsAll
  OrphanExplained
PROPERTY
  DocumentedMeansUnacted
