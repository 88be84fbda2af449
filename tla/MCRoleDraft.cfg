SPECIFICATION FairSpec
CONSTANTS
  Strategies = {"RANDOM", "31", "ANY", "BP", "CM"}
  Seating <- MCSeating
  Numbers <- MCNumbers
  Created <- MCCreated
  Roles <- MCRoles
  Decks <- MCDecks
  Wish <- MCWish
  MaxInterrupts = 2
INVARIANTS
  RolesDistinct
  DraftIsEven
PROPERTIES
  OneCaptainEach
  DraftEnds
CHECK_DEADLOCK FALSE
