SPECIFICATION Spec
CONSTANTS
  Slots = 3
  Catalogue <- MCCatalogue
  Offers <- MCOffers
  Beginnings <- MCBeginnings
  Preferable = {"small"}
  Wishes <- MCWishes
  Entries <- MCEntries
  MaxRetries = 1
  MaxDownloads = 3
CHECK_DEADLOCK FALSE
INVARIANTS SearchesSound ResolutionKept
PROPERTIES ReplacedForAReason LadderHeedsBlacklist
