SPECIFICATION Spec
CONSTANTS
  Vault = Vault
  Browser = Browser
  c1 = c1
  c2 = c2
  c3 = c3
  p1 = p1
  p2 = p2
  k1 = k1
  k2 = k2
  Contacts = {c1, c2, c3}
  MinContacts = 3
  Passwords = {p1, p2}
  Packages = {k1, k2}
  MaxWorkflows = 1
  MaxDisturbances = 2
SYMMETRY Symmetry
INVARIANTS OwnerOpensVault QuorumOpensVault HeldMaterialIsReadable ActivePackageOpens
CHECK_DEADLOCK FALSE
