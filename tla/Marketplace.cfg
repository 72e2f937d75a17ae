SPECIFICATION Spec
CONSTANTS
  Accounts <- MCAccounts
  BlockchainAccounts = {"committee"}
  Founder = "publisher"
  Publishers = {"seller", "publisher"}
  Referrers = {"seller", "committee"}
  referrer <- MCReferrer
  AcceptedEscrows <- MCAcceptedEscrows
  escrow_fee <- MCEscrowFee
  publisher_fee <- MCPublisherFee
  PublisherFeeRange <- MCPublisherFeeRange
  pop_score <- MCPopScore
  Supply <- MCSupply
  OneHundredPercent = 3
  ReferralShare = 1
  OperationFee = 1
  ListingBanThreshold = 2
  MaxPriorityFee = 1
  EscrowLifetime = 2
  ListingLifetime = 2
  QuantityModulus = 4
  Amounts = {3}
  Counts = {1}
  FeeOffers <- MCFeeOffers
  PublisherFees = {0, 1}
  ListingForms <- MCListingForms
  Updates <- MCUpdates
  Keep = Keep
  MissedSlots = {0, 1}
  MaxEscrows = 2
  MaxListings = 2
 
INVARIANT ListingsCounted
INVARIANT NothingOversold
