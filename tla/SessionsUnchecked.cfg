SPECIFICATION Spec
CONSTANTS
    l1 = l1
    l2 = l2
    l3 = l3
    b1 = b1
    b2 = b2
    anna = anna
    ben = ben
    Login = {l1, l2, l3}
    Browser = {b1, b2}
    By <- MCBy
    User = {anna, ben}
    Nobody = Nobody
    Name <- MCName
    Right <- MCRight
    NoCookie = NoCookie
INVARIANTS
    ServedWithSession
