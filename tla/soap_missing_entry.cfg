\* A response without the entry that was asked for.
CONSTANTS
    Numeral <- MCNumeral
    AddressOf <- MCAddressOf
    Trees <- MCTrees
    Bodies <- MCBodies
    UINT32_MAX = 99999
SPECIFICATION Spec
INVARIANT ResponsesAreReported
