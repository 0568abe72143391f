\* Once a value and its counts are freed nothing is left to do.
SPECIFICATION LibrarySpec
CONSTANTS
  Handles = {h1, h2, h3, h4}
  SharesSelf = {TRUE, FALSE}
  Addrs = {1, 2}
  Word = 8
  HeaderSize = 4
  Sizes = {0, 1, 2, 4}
  Values = {0, 1}
  N = 8
  SubarraySize = 2
  MinPtrArraySize = 3
  MaxSize = 5
  Elements = {v1, v2}
  ItemCount = 5
  gPrimeNumberArray = {2, 3, 5, 7, 11, 13, 17, 19, 23, 29, 31, 37, 41, 43, 47}
  Digits = 4
  Words = {0, 1, 48879, 57005, 65535}
  MaxFill = 5
  MaxFormat = 4
  MaxArgs = 2
  Characters = {"{", "}", "x"}
  Texts <- ArgumentTexts
  v1 = v1
  v2 = v2
INVARIANTS
  OwnersHaveTheValue
  CountsOutliveHandles
  FreedExactlyOnce
  ContentsKept
  EveryBlockReturnable
  TreeSound
  StorageExact
  CallsDoAsPromised
  TableSound
  CallsChangeAsAsked
  ConversionsExact
PROPERTIES
  ImplementsSortedItems
CHECK_DEADLOCK FALSE
