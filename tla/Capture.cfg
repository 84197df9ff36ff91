SPECIFICATION FairSpec
CONSTANTS Lines = 5
Headstart = 3
PROPERTIES ClosedAtEnd ReadIsPicture LoadReturns
