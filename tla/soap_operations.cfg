\* Every operation with every answer.
CONSTANTS
    Numeral <- MCNumeral
    AddressOf <- MCAddressOf
    Trees <- MCTrees
    Bodies <- MCBodies
    UINT32_MAX = 99999
SPECIFICATION Spec
INVARIANT TypeOK
INVARIANT PrefixIsIgnored
INVARIANT BadEntriesHideNothing
INVARIANT ListedIsReadable
