SPECIFICATION Spec
CONSTANTS
    Width = 10
    NumberBuf = 4
    Numbers <- MCNumbers
    Formats <- MCFormats
    Lists <- MCLists
    Clocks <- MCClocks
INVARIANT NumbersReadBack
INVARIANT FormatsAreFollowed
INVARIANT ListsAreSearched
INVARIANT DivisorsGiveTheBaudRate
CHECK_DEADLOCK FALSE
