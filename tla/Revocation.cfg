\* Two requests for a key, each attempted twice at most, and three moves, which is
\* what it takes to move a name from one account to another and connect it; one
\* call fails or one process dies, so that no promise may be broken.
SPECIFICATION FairSpec
CONSTANTS
  ann = ann
  acc1 = acc1
  acc2 = acc2
  gpg2 = gpg2
  j1 = j1
  j2 = j2
  Provider = "github"
  Users = {ann}
  Accounts = {acc1, acc2}
  Logins = {"x", "y", "z"}
  LoginOf <- FirstNames
  Keys = {gpg2}
  OwnerOf <- KeyOfOne
  TypeOf <- TypeOfKey
  Grants = {{"admin:public_key"}, {"admin:public_key", "admin:gpg_key"}}
  Jobs = {j1, j2}
  MaxAttempts = 2
  Wanted = {gpg2}
  MaxMoves = 3
  MaxMishaps = 1
CHECK_DEADLOCK FALSE
INVARIANTS TypeOK OffersAreGood SuccessIsTruthful 
 
