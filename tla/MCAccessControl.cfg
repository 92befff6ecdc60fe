SPECIFICATION Spec
CONSTANTS
  ann = ann
  bob = bob
  key1 = key1
  key2 = key2
  key3 = key3
  SignIns = {visit, page}
  Dashboard = {page}
  Accounts = {ci}
  Secrets = {key1, key2, key3}
  MaxActiveSecrets = 2
  MaxBorn = 2
  People = {ann, bob}
  Roles = {"admin", "user", "none"}
  Config <- BobUser
  Default = "none"
  MaxCrashes = 1
SYMMETRY Alike
INVARIANTS
  SingleUse
  ActsAsIssued
PROPERTIES
  AdminRemains
