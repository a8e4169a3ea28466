\* Expressions of a few operators over short texts, and plain strings.
SPECIFICATION Spec
CONSTANTS StackMax = 40
          RE_DUP_MAX = 5
          Patterns <- MCPatterns
          Texts <- MCTexts
CHECK_DEADLOCK FALSE
INVARIANTS TypeOK
           TagsAgree
           GroupsForward
           ParseRight
           MatchRight
PROPERTY Termination
