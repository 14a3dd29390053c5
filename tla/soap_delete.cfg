\* The request that delete_port_mapping sends.
CONSTANTS
    Numeral <- MCNumeral
    AddressOf <- MCAddressOf
    Trees <- MCTrees
    Bodies <- MCBodies
    UINT32_MAX = 99999
SPECIFICATION Spec
INVARIANT DeleteIsWellFormed
