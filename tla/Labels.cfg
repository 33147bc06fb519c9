SPECIFICATION FileSpec
CONSTANTS
    ram = ram
    rom = rom
    plain = plain
    broken = broken
    Pages = {ram, rom}
    Logicals <- MCLogicals
    Bounds <- MCBounds
    Texts = {plain, broken}
    Broken = {broken}
    Files <- MCFiles
    Invalid = Invalid
    Pointers = {p1, p2}
    Null = Null
    Increment = 2
SYMMETRY Symmetry
INVARIANTS
    TypeOK
    AddressesUnique
    StringsOwned
    LoadMerges
PROPERTIES
    OnlyDestroyLeaks
    ImplementsAddressMap
    DeleteInvisible
    SaveThenLoad
\* A save may die on a name that was not copied, a load on an element
\* without an address.
CHECK_DEADLOCK FALSE
