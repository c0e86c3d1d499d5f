CONSTANTS
  Ids = {f1}
  Keys = {k1}
  Provisioning <- Offers
  Operations <- OnlySetup
  Withheld <- Nothing
  MaxCards = 0
SPECIFICATION Spec
INVARIANT OptionsReachService
