SPECIFICATION CheckoutSpec
CONSTANTS
  repair = repair
  installation = installation
  Packages = {repair, installation}
  Releases <- NextReleases
  Deployed <- OldRelease
  Quantities = {3}
  MaxAddresses = 2
  MaxBookings = 1
  MaxChanges = 1
  Calls = {c1, c2}
  NoPackage = NoPackage
SYMMETRY CallSymmetry
INVARIANTS
  MoneyIsExact
  PriceAsShown
  NotAtRemovedAddress
  OneDefault
