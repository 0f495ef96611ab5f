SPECIFICATION FairSpec
CONSTANTS
  Texts = {"CHANNEL", "TEXT0"}
  Looks = {"a", "b"}
  Places = {"p", "q"}
  Debugging = {"b"}
  Reading = Reading
  Torn = Torn
  Empty = Empty
  Blank = Blank
  Opening <- MCOpening
  Passes = 1
  MaxSettings = 2
INVARIANTS TypeOK 
 
