\* Three requests of two accounts, with a room that is there and one that is not.
CONSTANTS
    NoRequest = NoRequest
    Users = {1, 2}
    Requests = {r1, r2, r3}
    Typed = {lobby, cafe}
SPECIFICATION Spec
SYMMETRY Symmetry
 
INVARIANT StrangersNeverPost
PROPERTY ReadStaysRead
CHECK_DEADLOCK FALSE
