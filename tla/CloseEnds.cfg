CONSTANT Keys <- MCOneKey
SPECIFICATION FairSpec
PROPERTY CloseEnds
