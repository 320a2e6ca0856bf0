SPECIFICATION FairSpec
CONSTANTS
    s1 = s1
    s2 = s2
    s3 = s3
    c1 = c1
    c2 = c2
    Subs = {s1, s2, s3}
    Customers = {c1, c2}
    Owner <- OwnerOf
    Foreign = {}
    Nameless = {c2}
    PageSize = 2
    MaxChanges = 2
    MaxFailures = 1
INVARIANTS TypeOK NotifiedMeansTold ToldOnce DriftRepaired
PROPERTIES ToldInTheEnd
