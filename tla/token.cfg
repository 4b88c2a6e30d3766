CONSTANTS
  Addresses = {alice, bob, reserve}
  NoAddress = NoAddress
  Deployer = alice
  MaxSupply = 3
  Amounts = {1, 2}
SPECIFICATION MCSpec
INVARIANTS
  OneIssuerEver
