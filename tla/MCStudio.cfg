CONSTANTS
  picture = picture
  clip = clip
  Cards = {picture, clip}
  NoCard = NoCard
  Videos = {clip}
  Price <- Prices
  Opening = 1
  MaxDeposits = 2
  MaxTroubles = 1
SPECIFICATION FairSpec
INVARIANTS BooksClose ItemIsSettled
PROPERTIES ChargedIsMade MoneyComesBack
CHECK_DEADLOCK FALSE
