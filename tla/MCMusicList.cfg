CONSTANTS
    NULL = NULL
    s1 = s1
    s2 = s2
    s3 = s3
    Songs <- MCSongs
    MaxLen = 3
    MaxIndexes <- MCMaxIndexes
SPECIFICATION Spec
INVARIANTS TypeOK IndexInv PrevNextInverse CopyFaithful
PROPERTIES CurrentKept LimitKept
