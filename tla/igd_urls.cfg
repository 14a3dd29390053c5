\* Two kinds of answers, 24 locations, 11 descriptions, small words.
CONSTANTS
    Addresses <- MCAddresses
    Spellings <- MCSpellings
    WordBits = 16
    PortBits = 4
    Packets <- MCPackets
    Descriptions <- MCDescriptions
    Bases = {100, 200}
SPECIFICATION Spec
INVARIANT TypeOK
INVARIANT AnswersAreNotMisread
INVARIANT RequestsGoToTheDevice
INVARIANT GatewayUrlsDifferInThePath
INVARIANT PathsCanBeReplaced
