CONSTANTS
    Byte <- MCByte
    Capacity = 3
    MaxBlock = 4
SPECIFICATION Spec
INVARIANT TypeOK
PROPERTIES
    ImplementsFifo
    ResultsMeanWhy
