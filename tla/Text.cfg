SPECIFICATION Spec
CONSTANTS
    Thread = {t1, t2}
    Number <- MCNumber
    Char = {"a", "A", "b", "C3", "9C", "BC", " ", "TAB"}
    Blank = {" ", "TAB"}
    Space = " "
    tolower <- MCTolower
    Lower <- MCLower
    MaskChar = "x"
    Email <- MCEmail
    SizeTMax = 15
INVARIANTS
    TextTypeOK
    EachGetsItsOwnNumber
    BufferStaysSmall
    SameEmailIsFound
    MaskHidesTheMiddle
