SPECIFICATION RepSpec
CONSTANTS
    Names <- ThreeNames
    Texts <- OneText
    MaxSends = 2
    MaxOpens = 2
    MaxResends = 1
    MaxUnbuilt = 1
INVARIANTS
    AttackRecorded
    AttacksAsDocumented
    BodySentAgain
    FramingAgrees
PROPERTIES
    ResultArrives
