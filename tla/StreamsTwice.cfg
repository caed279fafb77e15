\* Two streams of one account.
SPECIFICATION Spec
CONSTANTS
    a1 = a1
    a2 = a2
    l1 = l1
    l2 = l2
    l3 = l3
    d1 = d1
    Accounts = {a1, a2}
    Links = {l1, l2, l3}
    AccountOf <- ThreeLinks
    Donations = {d1}
    DonatedTo <- ToFirst
    Nobody = Nobody
INVARIANT
    OneStreamEach
